CONSTANTS
    w1 = w1
    w2 = w2
    Workers <- TwoWorkers
    NDocs = 13
    BatchSize = 2
    MaxRefused = 1
SPECIFICATION FairSpec
PROPERTY ErrorEndsCall
CHECK_DEADLOCK FALSE
