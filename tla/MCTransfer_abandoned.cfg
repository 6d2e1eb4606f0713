\* No fault but the sender's own timeout.
SPECIFICATION FairSpec
CONSTANTS
    a = a
    Size = 5
    ChunkSize = 2
    Versions = {a}
    MaxTransfers = 1
    Window = 4
    MaxBuffered = 4
    DurableInterval = 4
    ProgressInterval = 2
    MaxReorder = 100
    QueueSize = 4
    Overwrite = FALSE
    CommitAck = {1}
    ProgressAck = {1}
    Resume = {1}
    PriorityChannel = TRUE
    Timers = TRUE
    SourceLens = {5}
    Faults = {}
    MaxFaults = 0
PROPERTY ReceiverReturns
