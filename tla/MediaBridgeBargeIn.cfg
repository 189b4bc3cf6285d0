SPECIFICATION FairSpec
CONSTANTS
    Texts = {"a"}
    MaxNudges = 1
    MaxFrames = 2
    MaxSaid = 2
    MaxDrops = 0
    TwilioFails = TRUE
    MaxStarts = 1
PROPERTIES BargeInCuts
CHECK_DEADLOCK FALSE
