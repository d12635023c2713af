CONSTANTS
    shoe = shoe
    Shoe = Shoe
    boot = boot
    w1 = w1
    w2 = w2
    r1 = r1
    r2 = r2
    c1 = c1
    c2 = c2
    NoRow = NoRow
    Free = Free
    Spellings <- ThreeSpellings
    Normal <- Lower
    Searchers <- TwoSearchers
    Atomic <- TwoSearchers
    Rollups <- TwoRollups
    Creators <- TwoCreators
    Similar <- BothSimilar
    Mode = "both"
    ZeroOnly = FALSE
    MaxDay = 1
    MaxEvents = 3
    LookBack = 1
    Sample <- FourQueries
    SamplePairs <- OrderedPairs
    SampleLength = 4
SYMMETRY Symmetry
SPECIFICATION Spec
INVARIANTS
    TypeOK
    SearchesCounted
    ClicksCounted
    OneRulePerQuery
    ClustersConnect
CHECK_DEADLOCK FALSE
