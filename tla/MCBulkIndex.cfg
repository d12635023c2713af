CONSTANTS
    w1 = w1
    w2 = w2
    Workers <- TwoWorkers
    NDocs = 13
    BatchSize = 2
    MaxRefused = 1
SPECIFICATION FairSpec
INVARIANTS
    TypeOK
    ReturnsComplete
    BacklogBound
    StuckOnlyAfterError
PROPERTIES
    CallSpec
    EndsOrStuck
CHECK_DEADLOCK FALSE
