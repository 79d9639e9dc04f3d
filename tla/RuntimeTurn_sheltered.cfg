SPECIFICATION Spec
CONSTANTS
    r1 = r1
    r2 = r2
    r3 = r3
    k1 = k1
    k2 = k2
    None = None
    Requests = {r1, r2, r3}
    Compactors = {c1}
    Reconcilers = {q1}
    Keys = {k1, k2}
    AsyncKeys = {k2}
    KeyOf <- TurnAndContinuation
    IdOf <- OwnIds
    SurfaceOf <- SyncAndContinuations
    Sheltered = {r1, r2, r3, c1}
INVARIANTS OneTurnPerSession AsyncRunsOnce
PROPERTIES ResultKept
SYMMETRY ContinuationSymmetry
CHECK_DEADLOCK FALSE
