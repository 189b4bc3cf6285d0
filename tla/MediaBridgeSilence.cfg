\* A line on which everything works and nobody speaks.
SPECIFICATION FairSpec
CONSTANTS
    Texts = {"a"}
    MaxNudges = 1
    MaxFrames = 1
    MaxSaid = 0
    MaxDrops = 0
    TwilioFails = FALSE
    MaxStarts = 1
PROPERTIES SilenceEnds
CHECK_DEADLOCK FALSE
