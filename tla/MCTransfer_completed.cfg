\* A crash between the last checkpoint and the rename, then a retry.
SPECIFICATION Spec
CONSTANTS
    a = a
    Size = 4
    ChunkSize = 2
    Versions = {a}
    MaxTransfers = 2
    Window = 4
    MaxBuffered = 4
    DurableInterval = 4
    ProgressInterval = 2
    MaxReorder = 100
    QueueSize = 4
    Overwrite = FALSE
    CommitAck = {1, 2}
    ProgressAck = {1, 2}
    Resume = {1, 2}
    PriorityChannel = TRUE
    Timers = TRUE
    SourceLens = {4}
    Faults = {"crash"}
    MaxFaults = 1
INVARIANT CompletedMeansCommitted
