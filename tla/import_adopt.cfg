\* Adoption, with and without moves: cancelled, resumed, retried, crashed, faulty.
SPECIFICATION Spec

CONSTANTS
    p1 = p1
    p2 = p2
    c1 = c1
    c2 = c2
    h1 = h1
    None = None
    Path = {p1, p2}
    Content = {c1, c2}
    QuickOf <- Alike
    StartFile <- TwoFiles
    PartnerOf <- APair
    Slot = {s1, s2, s3}
    Row = {r1, r2, r3}
    Failure = {f1, f2}
    Request = {q1}
    Plan <- Adopt
    MaxRequests = 3
    MaxFaults = 1
    MaxCrashes = 1
    MaxOutages = 1

SYMMETRY Symmetry

INVARIANT AdoptSafe

CHECK_DEADLOCK FALSE
