\* Two transfers of five one-byte chunks over unordered lanes, the second by a legacy
\* sender and in place of the first or of a file of the user; no timeout, and one fault.
\* A stall without a fault violates Delivered; in the end all stops.
SPECIFICATION FairSpec
CONSTANTS
    a = a
    b = b
    Size = 5
    ChunkSize = 1
    Versions = {a, b}
    MaxTransfers = 2
    Window = 3
    MaxBuffered = 2
    DurableInterval = 4
    ProgressInterval = 3
    MaxReorder = 100
    QueueSize = 2
    Overwrite = TRUE
    CommitAck = {1}
    ProgressAck = {1}
    Resume = {1}
    PriorityChannel = TRUE
    Timers = FALSE
    SourceLens = {5}
    Faults = {"user", "crash", "power", "close", "io", "edit"}
    MaxFaults = 1
INVARIANT TypeOK
INVARIANT MemoryBounded
INVARIANT NoLostWakeup
PROPERTY RemovedOnlyWhenVerified
PROPERTY Delivers
PROPERTY Delivered
CHECK_DEADLOCK FALSE
