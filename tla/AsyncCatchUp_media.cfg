SPECIFICATION Spec
CONSTANTS
    s1 = s1
    s2 = s2
    t1 = t1
    t2 = t2
    t3 = t3
    None = None
    Schedulers <- OneScheduler
    Tokens <- ThreeTokens
    Kind = "media"
    JobOutcomes <- EndsEitherWay
    MaxRetries = 2
    MaxMessages = 3
    MaxFaults = 2
INVARIANT NarratedInPinned
CHECK_DEADLOCK FALSE
