SPECIFICATION CustodySpec
CONSTANTS
    a1 = a1
    a2 = a2
    a3 = a3
    c1 = c1
    c2 = c2
    day1 = day1
    day2 = day2
    disk2 = disk2
    n1 = n1
    n2 = n2
    None = None
    Asset = {a1, a2, a3}
    Content = {c1, c2}
    Folder = {day1, day2, disk2}
    Name = {n1, n2}
    Outside = {disk2}
    ContentOf <- Contents
    Home <- Homes
    MaxOps = 1
    MaxFaults = 0
SYMMETRY Names
CHECK_DEADLOCK FALSE
INVARIANT NothingLost
