SPECIFICATION Spec
CONSTANTS
    t1 = t1
    t2 = t2
    t3 = t3
    w1 = w1
    w2 = w2
    k1 = k1
    k2 = k2
    library = library
    local = local
    None = None
    Tile = {t1, t2}
    Worker = {w1, w2}
    Key = {k1, k2}
    Dir = {library, local}
    Parallelism = {1, 2}
    MaxAsks = 2
    MaxWarmups = 1
    MaxChanges = 1
    MaxHung = 1
CHECK_DEADLOCK FALSE
INVARIANT ThumbsInv OneWinnerAtWork
PROPERTY SlotsWellSpent AnsweredUnlessHung
