SPECIFICATION FirstPlaced
CONSTANTS
    p1 = p1
    p2 = p2
    p3 = p3
    d1 = d1
    d2 = d2
    w1 = w1
    r1 = r1
    None = None
    Posts <- TwoPosts
    Pods <- TwoPods
    Workers <- OneWorker
    Reconcilers <- OneReconciler
    MaxFaults = 1
INVARIANTS TypeOK FilesInBound ReplayIsReal
PROPERTIES BoundForGood CompletedForGood OrphansAreOrphans KeepsBubbleLedger AttemptEnds
ACTION_CONSTRAINT FirstLooks
CHECK_DEADLOCK FALSE
