CONSTANTS
    q1 = q1
    q2 = q2
    s1 = s1
    s2 = s2
    w1 = w1
    None = None
    Queries <- TwoQueries
    Searchers <- TwoSearchers
    Writers <- OneWriter
    Timeout = 2
    Factor = 2
    MaxWrites = 2
SPECIFICATION FairSpec
INVARIANTS
    TypeOK
    Fresh
    KeysKnown
PROPERTY StaleExpires
CHECK_DEADLOCK FALSE
