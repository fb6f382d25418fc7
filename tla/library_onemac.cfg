SPECIFICATION SnapSpec
CONSTANTS
    p1 = p1
    p2 = p2
    mac = mac
    None = None
    Proc = {p1, p2}
    Host = {p1, p2, mac}
    HostOf <- OneMac
    LatestSchema = 2
    StartSchema = {None}
    MaxLaunches = 3
    MaxTrouble = 1
    MaxSessions = 1
    Pages = 2
    Keep = 1
    MaxCommits = 0
    MaxSnapshots = 0
    MaxEvents = 0
SYMMETRY Symmetry
CHECK_DEADLOCK FALSE
INVARIANT OneHolder
