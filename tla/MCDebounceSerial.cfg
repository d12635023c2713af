CONSTANTS
    d1 = d1
    d2 = d2
    w1 = w1
    w2 = w2
    f1 = f1
    f2 = f2
    Docs <- OneDoc
    Writers <- OneWriter
    Flushers <- TwoFlushers
    Window = 2
    MaxBuffer = 0
    ChunkSize = 0
    MaxCommits = 3
    MaxFaults = 2
    NoOp = NoOp
SPECIFICATION FairSpec
INVARIANTS
    OneWaitingFlush
PROPERTY Drains
CHECK_DEADLOCK FALSE
