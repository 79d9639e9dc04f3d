SPECIFICATION Spec
CONSTANTS
    r1 = r1
    r2 = r2
    r3 = r3
    k1 = k1
    k2 = k2
    None = None
    Requests = {r1, r2}
    Compactors = {}
    Reconcilers = {q1}
    Keys = {k1, k2}
    AsyncKeys = {}
    KeyOf <- TwoKeyOf
    IdOf <- OwnIds
    SurfaceOf <- SyncAndContinuation
    Sheltered = {r2}
INVARIANTS OneTurnPerSession
CHECK_DEADLOCK FALSE
