\* One connection that awaits each of its operations; every operation, any
\* of them failing at any await, and Redis losing its keys at any time.
SPECIFICATION Spec
CONSTANTS
    Clients = {c1}
    Turns = {t1, t2, h}
    HandoffTurns = {h}
    Ops = {"create", "get", "turn", "complete", "handoff", "callback"}
    CanFail = TRUE
INVARIANTS TypeOK RedisNeedsRow AckedIsDurable CacheNeverBehind
PROPERTIES FinishedForever Refines
