\* Two attempts at two versions, an event queue of one, and cancels.
SPECIFICATION Spec
CONSTANTS
    a = a
    b = b
    Size = 5
    ChunkSize = 1
    Versions = {a, b}
    MaxTransfers = 2
    Window = 4
    MaxBuffered = 4
    DurableInterval = 1
    ProgressInterval = 2
    MaxReorder = 100
    QueueSize = 1
    Overwrite = FALSE
    CommitAck = {1, 2}
    ProgressAck = {1, 2}
    Resume = {1, 2}
    PriorityChannel = TRUE
    Timers = TRUE
    SourceLens = {5}
    Faults = {"cancel", "edit", "crash"}
    MaxFaults = 3
INVARIANT ResumePointSound
