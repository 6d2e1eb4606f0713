\* One lane with two candidates and room for one; one thing may go wrong.
\* The negotiation ends; a stall violates LanesOpen or ShutdownCompletes.
SPECIFICATION FairSpec
CONSTANTS
    c1 = c1
    c2 = c2
    InitiatorRequest = 2
    ResponderRequest = 2
    DefaultConnections = 2
    MaxConnections = 2
    Candidates = {c1, c2}
    MaxPending = 1
    QueueSize = 4
    Senders = {}
    Faults = {"close", "lane"}
    MaxFaults = 1
INVARIANT CandidateKept
PROPERTY LanesOpen
PROPERTY ShutdownCompletes
PROPERTY DeadLaneDropped
CHECK_DEADLOCK FALSE
