CONSTANTS
    d1 = d1
    d2 = d2
    r1 = r1
    r2 = r2
    w1 = w1
    Docs <- TwoDocs
    Runners <- TwoRunners
    Writers <- OneWriter
    BatchSize = 1
    MaxCommits = 3
    MaxRuns = 2
    MaxFaults = 2
    NoIndex = NoIndex
    Nothing = Nothing
SYMMETRY Symmetry
SPECIFICATION Spec
INVARIANTS
    TypeOK
    ZeroDowntime
    LogsClosed
PROPERTY SuccessMeansRebuilt
CHECK_DEADLOCK FALSE
