\* Peers that want different numbers of connections agree on two lanes of three;
\* the queue is short and one thing may go wrong.  The negotiation ends.
SPECIFICATION Spec
CONSTANTS
    c1 = c1
    InitiatorRequest = 9
    ResponderRequest = 0
    DefaultConnections = 3
    MaxConnections = 4
    Candidates = {c1}
    MaxPending = 1
    QueueSize = 3
    Senders = {"initiator"}
    Faults = {"loss", "lane", "setup"}
    MaxFaults = 1
INVARIANT TypeOK
INVARIANT LanesAgreed
INVARIANT NoConnectionLeak
INVARIANT SendFallsBack
CHECK_DEADLOCK FALSE
