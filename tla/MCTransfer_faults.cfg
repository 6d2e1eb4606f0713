\* Two attempts at two versions of the file, in which three things may go wrong.  A
\* cancel finds room in the event queue.
SPECIFICATION Spec
CONSTANTS
    a = a
    b = b
    Size = 6
    ChunkSize = 2
    Versions = {a, b}
    MaxTransfers = 2
    Window = 4
    MaxBuffered = 2
    DurableInterval = 4
    ProgressInterval = 2
    MaxReorder = 100
    QueueSize = 5
    Overwrite = FALSE
    CommitAck = {1, 2}
    ProgressAck = {1, 2}
    Resume = {1, 2}
    PriorityChannel = TRUE
    Timers = TRUE
    SourceLens = {6}
    Faults = {"close", "crash", "io", "cancel", "power", "edit"}
    MaxFaults = 3
INVARIANT CompletedImpliesCommitted
INVARIANT CancelledNotCommitted
INVARIANT ResumePointSound
INVARIANT AckedIsDurable
PROPERTY Delivers
