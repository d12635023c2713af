CONSTANTS
    k1 = k1
    k2 = k2
    e1 = e1
    e2 = e2
    w1 = w1
    Keys <- OneKey
    Editors <- TwoEditors
    Workers <- OneWorker
    MaxEdits = 2
    MaxFaults = 1
    Missing = Missing
SPECIFICATION FairSpec
PROPERTY Repaired
CHECK_DEADLOCK FALSE
