CONSTANTS
    a = a
    b = b
    c = c
    k1 = k1
    k2 = k2
    Whole = Whole
    NoScore = NoScore
    Scale = 12
    Docs <- ThreeDocs
    Field <- Fields
    PinLists <- UpToTwoPins
    BoostLists <- UpToTwoBoosts
    FilterKeys <- TwoKeys
    Limit = 2
    MaxPages = 2
    Retries = 2
    Words = 3
SPECIFICATION Spec
INVARIANTS
    TypeOK
    PinsLand
    PageKept
    CallerFirst
    FallbackLast
CHECK_DEADLOCK FALSE
