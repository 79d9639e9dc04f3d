SPECIFICATION FairSpec
CONSTANTS
    h1 = h1
    h2 = h2
    h3 = h3
    h4 = h4
    b1 = b1
    b2 = b2
    Calls = {h1, h2, h3, h4, b1, b2}
    ClassOf <- MCClassOf
    MaxConcurrent = 4
    Reserved <- OneEach
    MaxQueue = 2
INVARIANTS TypeOK SlotsMatchWork QueuesHoldWaiting ReservedSlotsKept WorkConserving
PROPERTIES FirstComeFirstServed EveryWaiterServed
