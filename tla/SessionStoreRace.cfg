\* A turn or a hand-off in flight when a hang-up ends the session.
SPECIFICATION Spec
CONSTANTS
    Clients = {c1, c2}
    Turns = {t1}
    HandoffTurns = {}
    Ops = {"create", "turn", "handoff", "callback"}
    CanFail = FALSE
PROPERTIES FinishedForever
CHECK_DEADLOCK FALSE
