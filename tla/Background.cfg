SPECIFICATION BackgroundSpec
CONSTANTS
    Sender = {s1, s2}
    Worker = worker
    Flusher = {f1}
    Closer = closer
    batchSize = 2
    maxQueue = 4
    None = None
    MaxEvents = 5
    SampleInterval = 2
    MaxLag = 2
    Parts = 4
    AlphaNum = 1
    AlphaDen = 2
    MaxStall = 3
INVARIANTS
    FreshestInOrder
    FullBatchAwake
    CloseLeavesTail
PROPERTIES
    EventuallyLeaves
    CloseReturns
    Recovers
