\* A connection, and up to two more after blips.
SPECIFICATION Spec
CONSTANTS
    Conns = {c1, c2, c3}
    Second = 2
    Ttl = 2
    CanFail = TRUE
INVARIANTS TypeOK TokenUsable SettledWhenGone
SYMMETRY AnyConn
CHECK_DEADLOCK FALSE
