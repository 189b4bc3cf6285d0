SPECIFICATION FairSpec
CONSTANTS
    Texts = {"a"}
    MaxNudges = 1
    MaxFrames = 1
    MaxSaid = 1
    MaxDrops = 1
    TwilioFails = TRUE
    MaxStarts = 2
INVARIANTS TypeOK SpeakingIsPlaying NothingLeft TransferredIsWaiting
PROPERTIES NoStaleFrame HangUpSettles SilenceIsNoticed
CHECK_DEADLOCK FALSE
