SPECIFICATION FairSpec
CONSTANTS
    s1 = s1
    s2 = s2
    t1 = t1
    t2 = t2
    t3 = t3
    None = None
    Schedulers <- OneScheduler
    Tokens <- ThreeTokens
    Kind = "media"
    JobOutcomes <- EndsWell
    MaxRetries = 2
    MaxMessages = 2
    MaxFaults = 1
PROPERTIES Narrated
CHECK_DEADLOCK FALSE
