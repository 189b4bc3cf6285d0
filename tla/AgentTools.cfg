\* Two turns, two health checks and one outage.
SPECIFICATION FairSpec
CONSTANTS
    Probes = {p1, p2}
    Retries = 2
    MaxOutages = 1
    Keys = {"crm_lookup"}
    Second = 2
    Window = 2
    CanFail = TRUE
    Turns = {t1, t2}
    Said = {"human", "order", "shipment", "ticket"}
    Limit = 1
    Threshold = 35
INVARIANTS TypeOK WindowKept EndlessOnlyIfCut OnlyFallBackForgives FlagIsTrue
PROPERTIES ClientComesBack
CHECK_DEADLOCK FALSE
