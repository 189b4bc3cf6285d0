SPECIFICATION SFairSpec
CONSTANTS
    speaker = speaker
    watcher = watcher
    Clients = {speaker, watcher}
    Turns <- Lines
    HandoffTurns <- HandoffLines
    Ops = {"get", "turn", "complete", "handoff"}
    CanFail = TRUE
    Sends <- TwoTabs
    MaxTurns = 3
    MaxBegun = 3
    MaxSent = 4
INVARIANTS STypeOK HandedOnce InterruptedIsSilent SpokenIsRecorded AnswersBounded RepliesFollow
PROPERTIES DisconnectSettles
CHECK_DEADLOCK FALSE
