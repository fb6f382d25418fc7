SPECIFICATION Spec
CONSTANTS
    a1 = a1
    a2 = a2
    x1 = x1
    x2 = x2
    x3 = x3
    w1 = w1
    w2 = w2
    disk1 = disk1
    drive = drive
    gp1 = gp1
    p1 = p1
    None = None
    Home <- FirstHome
    Asset = {a1, a2}
    Path = {x1, x2, x3}
    Remote = {disk1, drive, gp1}
    Provider = {p1}
    Worker = {w1, w2}
    Folder = {disk1}
    Photos = {gp1}
    Known = {disk1, drive, gp1}
    Configs <- SomeConfigs
    Short = 1
    Day = 2
    MaxOps = 2
    MaxFaults = 1
    MaxQuotas = 1
CHECK_DEADLOCK FALSE
INVARIANT DestinationsInv CompletedIsHeld
SYMMETRY Workers
