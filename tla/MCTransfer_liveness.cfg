\* One transfer that may replace the destination; chunks, the channel or the receiver
\* are lost, chunks repeated, the source changed; either peer, and the network, may fall
\* silent.  In the end all stops.
SPECIFICATION SilentSpec
CONSTANTS
    a = a
    b = b
    Size = 5
    ChunkSize = 2
    Versions = {a, b}
    MaxTransfers = 1
    Window = 4
    MaxBuffered = 2
    DurableInterval = 4
    ProgressInterval = 2
    MaxReorder = 2
    QueueSize = 3
    Overwrite = TRUE
    CommitAck = {1}
    ProgressAck = {1}
    Resume = {1}
    PriorityChannel = FALSE
    Timers = TRUE
    SourceLens = {5}
    Faults = {"lane", "dup", "close", "crash", "reject", "io", "user", "source", "ctx", "cancel", "send"}
    MaxFaults = 2
INVARIANT CommitIntegrity
INVARIANT CommitUndisturbed
PROPERTY SenderReturns
PROPERTY MissingChunkTimesOut
CHECK_DEADLOCK FALSE
