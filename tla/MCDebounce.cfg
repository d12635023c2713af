CONSTANTS
    d1 = d1
    d2 = d2
    w1 = w1
    w2 = w2
    f1 = f1
    f2 = f2
    Docs <- TwoDocs
    Writers <- TwoWriters
    Flushers <- OneFlusher
    Window = 1
    MaxBuffer = 2
    ChunkSize = 1
    MaxCommits = 3
    MaxFaults = 1
    NoOp = NoOp
SPECIFICATION Spec
INVARIANTS
    TypeOK
    Conservation
    Converges
SYMMETRY Symmetry
CHECK_DEADLOCK FALSE
