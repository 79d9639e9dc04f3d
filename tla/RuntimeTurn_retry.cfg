SPECIFICATION Spec
CONSTANTS
    r1 = r1
    r2 = r2
    r3 = r3
    k1 = k1
    k2 = k2
    None = None
    Requests = {r1, r2, r3}
    Compactors = {}
    Reconcilers = {q1}
    Keys = {k1}
    AsyncKeys = {}
    KeyOf <- RetryKeyOf
    IdOf <- OwnIds
    SurfaceOf <- RetrySurfaceOf
    Sheltered = {}
INVARIANTS TypeOK OneReplyPerKey
PROPERTIES ReconcileSparesHolder ImplementsLedger ResultKept
SYMMETRY RetrySymmetry
CHECK_DEADLOCK FALSE
