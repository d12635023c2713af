CONSTANTS
    k1 = k1
    k2 = k2
    e1 = e1
    e2 = e2
    w1 = w1
    Keys <- TwoKeys
    Editors <- TwoEditors
    Workers <- OneWorker
    MaxEdits = 2
    MaxFaults = 2
    Missing = Missing
SPECIFICATION Spec
INVARIANTS
    TypeOK
    FlagIsTrueOrRecorded
    EditsKept
SYMMETRY Symmetry
CHECK_DEADLOCK FALSE
