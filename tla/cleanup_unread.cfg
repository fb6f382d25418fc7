SPECIFICATION Spec
CONSTANTS
    a1 = a1
    a2 = a2
    a3 = a3
    c1 = c1
    c2 = c2
    c3 = c3
    p1 = p1
    p2 = p2
    card1 = card1
    card2 = card2
    None = None
    Asset = {a1, a2, a3}
    Content = {c1, c2, c3}
    Card = {card1, card2}
    Path = {p1, p2}
    ContentOf <- Contents
    OrigOf <- Origins
    QuickOf <- Quicks
    SizeOf <- Sizes
    Catalogs <- SomeCatalogs
    Holdings <- SomeHoldings
    MaxRuns = 2
    MaxChanges = 1
SYMMETRY Cards
CHECK_DEADLOCK FALSE
INVARIANT EveryFileAnalysed
