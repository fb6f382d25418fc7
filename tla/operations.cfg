SPECIFICATION Spec
CONSTANTS
    v1 = v1
    v2 = v2
    m1 = m1
    m2 = m2
    c1 = c1
    c2 = c2
    None = None
    Volume = {v1}
    Mount = {m1}
    Caller = {c1, c2}
    Face <- Faces
    StartCard <- OneCard
    StartMounted <- OneMount
    ContentSample = 1
    PathSample = 2
    MaxEvents = 4
    MaxRows = 3
    MaxSessions = 2
CHECK_DEADLOCK FALSE
SYMMETRY Callers
INVARIANT OperationsInv OneRowPerVolume
