\* A hand-off on a phone line where Twilio answers every request.
SPECIFICATION FairSpec
CONSTANTS
    Texts = {"a"}
    MaxNudges = 1
    MaxFrames = 1
    MaxSaid = 1
    MaxDrops = 0
    TwilioFails = FALSE
    MaxStarts = 1
PROPERTIES ParkedGetsAgent
CHECK_DEADLOCK FALSE
