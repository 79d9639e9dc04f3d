SPECIFICATION FairSpec
CONSTANTS
    r1 = r1
    r2 = r2
    r3 = r3
    k1 = k1
    k2 = k2
    None = None
    Requests = {r1, r2}
    Compactors = {}
    Reconcilers = {q1, q2}
    Keys = {k1}
    AsyncKeys = {}
    KeyOf <- JobKeyOf
    IdOf <- JobIds
    SurfaceOf <- JobSurfaceOf
    Sheltered = {}
PROPERTIES ImplementsLedger AcceptedIsSettled
CHECK_DEADLOCK FALSE
