SPECIFICATION Spec
CONSTANTS
    c1 = c1
    c2 = c2
    t1 = t1
    t2 = t2
    h1 = h1
    h2 = h2
    s1 = s1
    s2 = s2
    None = None
    Turns <- TwoTurns
    ScanCap = 1
    Chats <- OneChat
    Handles <- OneHandle
    ChatOf <- OneHome
    KindOf <- OverlappingKinds
    Schedulers <- TwoSchedulers
    MaxFaults = 2
SYMMETRY AnyScheduler
INVARIANTS SerialCatchUps
PROPERTIES UserTurnFirst StandingTurnBlocks
CHECK_DEADLOCK FALSE
