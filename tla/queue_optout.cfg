SPECIFICATION Spec
CONSTANTS
    a1 = a1
    p1 = p1
    p2 = p2
    w1 = w1
    w2 = w2
    j1 = j1
    j2 = j2
    j3 = j3
    Asset = {a1}
    Provider = {p1, p2}
    Worker = {w1, w2}
    Job = {j1, j2}
    Kind = {"photo", "video"}
    KindOf <- KindsOf
    Target = {"vault"}
    Config <- SomeConfigs
    StartConfig <- AllRequired
    Unfit <- NoneUnfit
    MaxRetries = 2
    MaxOps = 0
    MaxFaults = 0
    MaxRestarts = 0
    None = None
CHECK_DEADLOCK FALSE
INVARIANTS OptOutIsNeverComplete
