\* Two calls retry one failure, the second after the first resolved it.
SPECIFICATION Spec

CONSTANTS
    p1 = p1
    p2 = p2
    c1 = c1
    c2 = c2
    h1 = h1
    None = None
    Path = {p1}
    Content = {c1, c2}
    QuickOf <- Alike
    StartFile <- OneFile
    PartnerOf <- NoPair
    Slot = {s1, s2}
    Row = {r1, r2}
    Failure = {f1}
    Request = {q1, q2}
    Plan <- Copy
    MaxRequests = 3
    MaxFaults = 1
    MaxCrashes = 0
    MaxOutages = 0


INVARIANTS
    CountersCoherent

CHECK_DEADLOCK FALSE
