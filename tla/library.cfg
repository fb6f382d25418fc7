SPECIFICATION SnapSpec
CONSTANTS
    p1 = p1
    p2 = p2
    mac = mac
    None = None
    Proc = {p1, p2}
    Host = {p1, p2, mac}
    HostOf <- OwnMac
    LatestSchema = 2
    StartSchema = {None, 0, 3}
    MaxLaunches = 3
    MaxTrouble = 1
    MaxSessions = 1
    Pages = 2
    Keep = 1
    MaxCommits = 1
    MaxSnapshots = 2
    MaxEvents = 2
SYMMETRY Symmetry
CHECK_DEADLOCK FALSE
INVARIANT OneHolder LiveSessionRunning UpgradedOnce SnapInv
