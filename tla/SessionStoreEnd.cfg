\* Three coroutines that create, read and end one session at the same time.
SPECIFICATION FairSpec
CONSTANTS
    Clients = {c1, c2, c3}
    Turns = {}
    HandoffTurns = {}
    Ops = {"create", "get", "complete", "callback"}
    CanFail = FALSE
PROPERTIES EndSettles
