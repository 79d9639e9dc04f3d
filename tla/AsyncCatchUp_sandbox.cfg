SPECIFICATION Spec
CONSTANTS
    s1 = s1
    s2 = s2
    t1 = t1
    t2 = t2
    t3 = t3
    None = None
    Schedulers <- TwoSchedulers
    Tokens <- ThreeTokens
    Kind = "sandbox"
    JobOutcomes <- EndsWell
    MaxRetries = 2
    MaxMessages = 2
    MaxFaults = 1
SYMMETRY AnyScheduler
INVARIANTS TypeOK OneTelegramSend OneBubble OneNarrator DispatchedIsAccepted
PROPERTIES CompletedIsTold NarrationKept KeepsTurnLedger
CHECK_DEADLOCK FALSE
