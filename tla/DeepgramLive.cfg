SPECIFICATION FairSpec
CONSTANTS
    MaxAttempts = 3
    MaxConns = 5
    MaxHeard = 3
INVARIANTS TypeOK OneReceiver NoOrphan SegmentsOnce
PROPERTIES ImplementsLink CloseSettles Recovers
CHECK_DEADLOCK FALSE
