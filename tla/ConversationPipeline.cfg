SPECIFICATION MCSpec
CONSTANTS
    r1 = r1
    r2 = r2
    Clients = {r1, r2}
    Turns <- Lines
    HandoffTurns <- HandoffLines
    Ops = {"get", "turn", "complete", "handoff"}
    CanFail = FALSE
    MaxTurns = 3
    MaxBegun = 2
    MaxCalls = 2
SYMMETRY Alike
INVARIANTS PTypeOK DroppedWasInterrupted HeardIsAcknowledged
CHECK_DEADLOCK FALSE
