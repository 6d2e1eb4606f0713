---------------------------- MODULE ParallelLanes ----------------------------
(***************************************************************************)
(* parallelChannel: the negotiation of extra peer connections ("lanes")    *)
(* over the ordered primary channel, their opening, their loss, the choice *)
(* of a lane for a payload, and shutdown.  Each endpoint runs one          *)
(* negotiationLoop goroutine; callbacks of the WebRTC library and the      *)
(* application run beside it.                                              *)
(*                                                                         *)
(* The peer announces itself once, so each endpoint creates at most one    *)
(* peer connection per lane, and "the current lane" is the installed one.  *)
(***************************************************************************)
EXTENDS Integers, Sequences, FiniteSets

CONSTANTS
    InitiatorRequest,   \* PeerOptions.ParallelConnections of the two peers
    ResponderRequest,
    DefaultConnections, \* defaultParallelConnections
    MaxConnections,     \* maxParallelConnections
    Candidates,         \* ICE candidates a side gathers for a lane
    MaxPending,         \* maxPendingCandidatesPerConnection
    QueueSize,          \* capacity of the negotiation queue
    Senders,            \* the sides that send a payload
    Faults,             \* "setup", "lane", "loss", "close"
    MaxFaults           \* bound: how many of them

ASSUME LanesAssumption ==
    /\ InitiatorRequest \in Int /\ ResponderRequest \in Int
    /\ MaxConnections \in Nat \ {0}
    /\ DefaultConnections \in 1 .. MaxConnections
    /\ IsFiniteSet(Candidates)
    /\ MaxPending \in Nat /\ QueueSize \in Nat \ {0}
    /\ Senders \subseteq {"initiator", "responder"}
    /\ Faults \subseteq {"setup", "lane", "loss", "close"}
    /\ MaxFaults \in Nat

Sides == {"initiator", "responder"}

Other(s) == IF s = "initiator" THEN "responder" ELSE "initiator"

LaneIDs == 1 .. MaxConnections - 1

Lesser(a, b) == IF a < b THEN a ELSE b

ClampParallelConnections(n) ==
    IF n <= 0 THEN DefaultConnections ELSE Lesser(n, MaxConnections)

(* options.connections *)
Connections(s) ==
    ClampParallelConnections(IF s = "initiator" THEN InitiatorRequest
                                                ELSE ResponderRequest)

VARIABLES
    up,         \* the primary channel is open
    wire,       \* parallel controls in flight to each side
    started,    \* start has run, in the OnOpen callback of the primary
    closed,     \* closeOnce has run
    ended,      \* negotiationLoop has returned
    queue,      \* the negotiation queue
    negotiated, \* negotiatedConnections
    job,        \* where negotiationLoop is
    lane,       \* the lanes of each side and their peer connections
    pending,    \* pendingCandidates
    linked,     \* lanes whose two peer connections are connected
    tries,      \* channels Send has not tried yet, for each side
    sent,       \* how Send ended
    overtaken,  \* history: a lane was offered before start had run
    dropped,    \* history: a control or candidate did not fit, or was not accepted
    faults

vars == <<up, wire, started, closed, ended, queue, negotiated, job, lane, pending,
          linked, tries, sent, overtaken, dropped, faults>>

-----------------------------------------------------------------------------
Control == [type : {"parallel_capability"}, connections : 1 .. MaxConnections]
           \cup [type : {"parallel_offer", "parallel_answer"}, lane : LaneIDs]
           \cup [type : {"parallel_ice"}, lane : LaneIDs, candidate : Candidates]

Idle == [step |-> "idle", lane |-> 0]

NoLane == [pc |-> "none", installed |-> FALSE, local |-> FALSE, remote |-> FALSE,
           channel |-> FALSE, open |-> FALSE, gathered |-> {}, added |-> {}]

(***************************************************************************)
(* The queue, the buffered candidates and the set of lanes stay within the *)
(* limits parallel_channel.go gives them.                                  *)
(***************************************************************************)
TypeOK ==
    /\ {up, overtaken, dropped} \subseteq BOOLEAN
    /\ wire \in [Sides -> Seq(Control)]
    /\ {started, closed, ended} \subseteq [Sides -> BOOLEAN]
    /\ queue \in [Sides -> Seq(Control)]
    /\ \A s \in Sides : Len(queue[s]) <= QueueSize
    /\ negotiated \in [Sides -> 1 .. MaxConnections]
    /\ job \in [Sides -> [step : {"idle", "create", "install", "remote", "local",
                                  "send"}, lane : LaneIDs \cup {0}]]
    /\ lane \in [Sides -> [LaneIDs ->
           [pc : {"none", "new", "closed"}, installed : BOOLEAN, local : BOOLEAN,
            remote : BOOLEAN, channel : BOOLEAN, open : BOOLEAN,
            gathered : SUBSET Candidates, added : SUBSET Candidates]]]
    /\ pending \in [Sides -> [LaneIDs -> SUBSET Candidates]]
    /\ \A s \in Sides, l \in LaneIDs : Cardinality(pending[s][l]) <= MaxPending
    /\ linked \subseteq LaneIDs
    /\ tries \in [Sides -> SUBSET (LaneIDs \cup {0})]
    /\ sent \in [Sides -> {"none", "trying", "ok", "failed"}]
    /\ faults \in 0 .. MaxFaults

Init ==
    /\ up = TRUE /\ overtaken = FALSE /\ dropped = FALSE
    /\ wire = [s \in Sides |-> <<>>] /\ queue = [s \in Sides |-> <<>>]
    /\ started = [s \in Sides |-> FALSE]
    /\ closed = [s \in Sides |-> FALSE] /\ ended = [s \in Sides |-> FALSE]
    /\ negotiated = [s \in Sides |-> 1]
    /\ job = [s \in Sides |-> Idle]
    /\ lane = [s \in Sides |-> [l \in LaneIDs |-> NoLane]]
    /\ pending = [s \in Sides |-> [l \in LaneIDs |-> {}]]
    /\ linked = {}
    /\ tries = [s \in Sides |-> {}] /\ sent = [s \in Sides |-> "none"]
    /\ faults = 0

Fault(k) ==
    /\ k \in Faults /\ faults < MaxFaults
    /\ faults' = faults + 1

Live(s, l) == lane[s][l].pc = "new"

(* Mutant: the last lane is refused. *)
LastLaneInvalid(s, l) == l > 0 /\ l < negotiated[s] - 1

ValidLane(s, l) == l > 0 /\ l < negotiated[s]

IsCurrentLane(s, l) == ~closed[s] /\ lane[s][l].installed

(* A lane of side s that has been removed and whose connection is closed. *)
Closed(r) == [r EXCEPT !.pc = "closed", !.installed = FALSE, !.open = FALSE]

(* sendParallel puts a control on the primary channel. *)
SendTo(t, m) == wire' = [wire EXCEPT ![t] = Append(@, m)]

-----------------------------------------------------------------------------
(* The primary channel *)

(* start: announce how many connections this side wants. *)
Start(s) ==
    /\ ~started[s]
    /\ started' = [started EXCEPT ![s] = TRUE]
    /\ IF up THEN SendTo(Other(s), [type |-> "parallel_capability",
                                    connections |-> Connections(s)])
             ELSE UNCHANGED wire
    /\ UNCHANGED <<up, closed, ended, queue, negotiated, job, lane, pending, linked,
                   tries, sent, overtaken, dropped, faults>>

(* Mutant: the queue grows without a limit. *)
UnlimitedQueue(s) == FALSE

(* enqueueNegotiation drops what does not fit. *)
QueueFull(s) == Len(queue[s]) >= QueueSize

HandlePrimaryMessage(s) ==
    /\ wire[s] # <<>>
    /\ wire' = [wire EXCEPT ![s] = Tail(@)]
    /\ queue' = IF closed[s] \/ QueueFull(s)
                THEN queue
                ELSE [queue EXCEPT ![s] = Append(@, Head(wire[s]))]
    /\ dropped' = (dropped \/ QueueFull(s))
    /\ UNCHANGED <<up, started, closed, ended, negotiated, job, lane, pending, linked,
                   tries, sent, overtaken, faults>>

(* Mutant: lanes still under negotiation are forgotten. *)
CloseOpenLanes(s) ==
    [lane EXCEPT ![s] = [l \in LaneIDs |->
        IF lane[s][l].open THEN Closed(lane[s][l])
                           ELSE [lane[s][l] EXCEPT !.installed = FALSE]]]

(* What shutdown leaves of the lanes. *)
ShutdownLanes(s) ==
    [lane EXCEPT ![s] = [l \in LaneIDs |->
        IF lane[s][l].installed THEN Closed(lane[s][l]) ELSE lane[s][l]]]

(* The primary channel goes down, and what is in flight on it is lost. *)
PrimaryDown == up' = FALSE /\ wire' = [s \in Sides |-> <<>>]

Shutdown(s) ==
    /\ closed' = [closed EXCEPT ![s] = TRUE]
    /\ lane' = ShutdownLanes(s)
    /\ UNCHANGED <<started, ended, queue, negotiated, job, pending, linked, tries, sent,
                   overtaken, dropped>>

(* Close, called by the application or by Peer.Close. *)
Close(s) == Fault("close") /\ ~closed[s] /\ Shutdown(s) /\ PrimaryDown

(* The primary connection breaks. *)
PrimaryLost ==
    /\ Fault("loss") /\ up
    /\ PrimaryDown
    /\ UNCHANGED <<started, closed, ended, queue, negotiated, job, lane, pending, linked,
                   tries, sent, overtaken, dropped>>

HandlePrimaryClose(s) ==
    ~up /\ ~closed[s] /\ Shutdown(s) /\ UNCHANGED <<up, wire, faults>>

-----------------------------------------------------------------------------
(* negotiationLoop *)

Take(s, type) ==
    /\ job[s] = Idle /\ ~ended[s]
    /\ queue[s] # <<>> /\ Head(queue[s]).type = type
    /\ queue' = [queue EXCEPT ![s] = Tail(@)]

(* Mutant: each side takes the number it asked for itself. *)
OwnConnections(s, n) == Connections(s)

NegotiatedConnections(s, n) == Lesser(Connections(s), n)

(* The initiator goes through its lanes, one createOffer after the other. *)
NextOffer(l, connections) ==
    IF l < connections THEN [step |-> "create", lane |-> l] ELSE Idle

TakeCapability(s) ==
    /\ Take(s, "parallel_capability")
    /\ LET n == NegotiatedConnections(s, Head(queue[s]).connections) IN
       /\ negotiated' = [negotiated EXCEPT ![s] = n]
       /\ job' = [job EXCEPT ![s] = IF s = "initiator" THEN NextOffer(1, n) ELSE Idle]
    /\ UNCHANGED <<up, wire, started, closed, ended, lane, pending, linked, tries, sent,
                   overtaken, dropped, faults>>

(* createOffer and acceptOffer begin alike. *)
TakeOffer(s) ==
    /\ Take(s, "parallel_offer")
    /\ LET l == Head(queue[s]).lane IN
       job' = IF s = "responder" /\ ValidLane(s, l)
              THEN [job EXCEPT ![s] = [step |-> "create", lane |-> l]]
              ELSE job
    /\ UNCHANGED <<up, wire, started, closed, ended, negotiated, lane, pending, linked,
                   tries, sent, overtaken, dropped, faults>>

(***************************************************************************)
(* SetRemoteDescription followed by flushLaneCandidates, which takes every *)
(* candidate set aside out of pendingCandidates and adds those of got.     *)
(***************************************************************************)
Flushed(s, l, got) ==
    /\ lane' = [lane EXCEPT ![s][l].remote = TRUE, ![s][l].added = @ \cup got]
    /\ pending' = [pending EXCEPT ![s][l] = {}]

SetRemote(s, l) == Flushed(s, l, pending[s][l]) /\ UNCHANGED dropped

(* AddICECandidate refuses one: the rest is lost with it. *)
FlushFails(s, l) ==
    /\ Fault("setup")
    /\ \E got \in SUBSET pending[s][l] : got # pending[s][l] /\ Flushed(s, l, got)
    /\ dropped' = TRUE

(* acceptAnswer.  After an error the lane stays installed. *)
TakeAnswer(s) ==
    /\ Take(s, "parallel_answer")
    /\ LET l == Head(queue[s]).lane IN
       IF s = "initiator" /\ ValidLane(s, l) /\ lane[s][l].installed
       THEN \/ Live(s, l) /\ SetRemote(s, l) /\ UNCHANGED faults
            \/ Live(s, l) /\ FlushFails(s, l)
            \/ /\ Fault("setup") \/ (~Live(s, l) /\ UNCHANGED faults)
               /\ UNCHANGED <<lane, pending, dropped>>
       ELSE UNCHANGED <<lane, pending, dropped, faults>>
    /\ UNCHANGED <<up, wire, started, closed, ended, negotiated, job, linked, tries,
                   sent, overtaken>>

(* Mutant: a lane that exists is taken to have its remote description. *)
LaneExists(s, l) == lane[s][l].installed

(* AddICECandidate needs the remote description. *)
Describable(s, l) == lane[s][l].installed /\ lane[s][l].remote

(* There is room to set a candidate aside. *)
RoomForCandidate(s, l) == Cardinality(pending[s][l]) < MaxPending

(* acceptCandidate *)
TakeCandidate(s) ==
    /\ Take(s, "parallel_ice")
    /\ LET l == Head(queue[s]).lane
           c == Head(queue[s]).candidate
       IN  \/ /\ ValidLane(s, l) /\ Describable(s, l)
              /\ lane' = IF lane[s][l].remote
                         THEN [lane EXCEPT ![s][l].added = @ \cup {c}]
                         ELSE lane
              /\ UNCHANGED <<pending, dropped, faults>>
           \/ /\ ValidLane(s, l) /\ Describable(s, l)
              /\ Fault("setup") /\ dropped' = TRUE
              /\ UNCHANGED <<lane, pending>>
           \/ /\ ValidLane(s, l) /\ ~Describable(s, l)
              /\ pending' = IF RoomForCandidate(s, l)
                            THEN [pending EXCEPT ![s][l] = @ \cup {c}]
                            ELSE pending
              /\ dropped' = (dropped \/ ~RoomForCandidate(s, l))
              /\ UNCHANGED <<lane, faults>>
           \/ ~ValidLane(s, l) /\ UNCHANGED <<lane, pending, dropped, faults>>
    /\ UNCHANGED <<up, wire, started, closed, ended, negotiated, job, linked, tries,
                   sent, overtaken>>

(* The loop returns; with a control waiting too, select may take either. *)
EndLoop(s) ==
    /\ closed[s] /\ job[s] = Idle /\ ~ended[s]
    /\ ended' = [ended EXCEPT ![s] = TRUE]
    /\ UNCHANGED <<up, wire, started, closed, queue, negotiated, job, lane, pending,
                   linked, tries, sent, overtaken, dropped, faults>>

-----------------------------------------------------------------------------
(* createOffer and acceptOffer *)

At(s, step) == job[s].step = step

(* Return from createOffer or acceptOffer. *)
Done(s) == job' = [job EXCEPT ![s] =
              IF s = "initiator" THEN NextOffer(job[s].lane + 1, negotiated[s]) ELSE Idle]

(***************************************************************************)
(* Return with an error.  The initiator removes the lane; the responder    *)
(* leaves it as it is.                                                     *)
(***************************************************************************)
Failed(s) ==
    /\ Done(s)
    /\ LET l == job[s].lane IN
       IF s = "initiator"
       THEN /\ lane' = IF lane[s][l].installed
                       THEN [lane EXCEPT ![s][l] = Closed(@)] ELSE lane
            /\ pending' = [pending EXCEPT ![s][l] = {}]
       ELSE UNCHANGED <<lane, pending>>

CreatePC(s) ==
    /\ At(s, "create")
    /\ \/ /\ job' = [job EXCEPT ![s].step = "install"]
          /\ lane' = [lane EXCEPT ![s][job[s].lane].pc = "new"]
          /\ UNCHANGED <<pending, faults>>
       \/ Fault("setup") /\ Failed(s)
    /\ UNCHANGED <<up, wire, started, closed, ended, queue, negotiated, linked, tries,
                   sent, overtaken, dropped>>

(* Mutant: shutdown is not looked for. *)
SlotFree(s, l) == ~lane[s][l].installed

CanInstall(s, l) == ~closed[s] /\ ~lane[s][l].installed

InstallLane(s) ==
    /\ At(s, "install")
    /\ LET l == job[s].lane IN
       IF CanInstall(s, l)
       THEN /\ job' = [job EXCEPT ![s].step = IF s = "initiator" THEN "local"
                                                                 ELSE "remote"]
            /\ lane' = [lane EXCEPT ![s][l].installed = TRUE]
       ELSE /\ Done(s)
            /\ lane' = [lane EXCEPT ![s][l].pc = "closed"]
    /\ UNCHANGED <<up, wire, started, closed, ended, queue, negotiated, pending, linked,
                   tries, sent, overtaken, dropped, faults>>

SetRemoteDescription(s) ==
    /\ At(s, "remote")
    /\ \/ /\ Live(s, job[s].lane)
          /\ SetRemote(s, job[s].lane)
          /\ job' = [job EXCEPT ![s].step = "local"]
          /\ UNCHANGED faults
       \/ Live(s, job[s].lane) /\ FlushFails(s, job[s].lane) /\ Done(s)
       \/ /\ Fault("setup") \/ (~Live(s, job[s].lane) /\ UNCHANGED faults)
          /\ Failed(s) /\ UNCHANGED dropped
    /\ UNCHANGED <<up, wire, started, closed, ended, queue, negotiated, linked, tries,
                   sent, overtaken>>

(* The initiator also creates the data channel here. *)
SetLocalDescription(s) ==
    /\ At(s, "local")
    /\ LET l == job[s].lane IN
       \/ /\ Live(s, l)
          /\ lane' = [lane EXCEPT ![s][l].local = TRUE,
                                  ![s][l].channel = (s = "initiator")]
          /\ job' = [job EXCEPT ![s].step = "send"]
          /\ UNCHANGED <<pending, faults>>
       \/ ~Live(s, l) /\ Failed(s) /\ UNCHANGED faults
       \/ Fault("setup") /\ Failed(s)
    /\ UNCHANGED <<up, wire, started, closed, ended, queue, negotiated, linked, tries,
                   sent, overtaken, dropped>>

SendDescription(s) ==
    /\ At(s, "send")
    /\ IF up
       THEN /\ SendTo(Other(s),
                  [type |-> IF s = "initiator" THEN "parallel_offer"
                                               ELSE "parallel_answer",
                   lane |-> job[s].lane])
            /\ overtaken' = (overtaken \/ ~started[s])
            /\ Done(s)
            /\ UNCHANGED <<lane, pending>>
       ELSE Failed(s) /\ UNCHANGED <<wire, overtaken>>
    /\ UNCHANGED <<up, started, closed, ended, queue, negotiated, linked, tries, sent,
                   dropped, faults>>

-----------------------------------------------------------------------------
(* Callbacks of the peer connections *)

(* OnICECandidate: from SetLocalDescription on, even before the offer is sent. *)
OnICECandidate(s, l) ==
    /\ Live(s, l) /\ lane[s][l].local /\ IsCurrentLane(s, l) /\ up
    /\ \E c \in Candidates \ lane[s][l].gathered :
          /\ lane' = [lane EXCEPT ![s][l].gathered = @ \cup {c}]
          /\ SendTo(Other(s), [type |-> "parallel_ice", lane |-> l, candidate |-> c])
    /\ overtaken' = (overtaken \/ ~started[s])
    /\ UNCHANGED <<up, started, closed, ended, queue, negotiated, job, pending, linked,
                   tries, sent, dropped, faults>>

Described(l) ==
    \A s \in Sides : Live(s, l) /\ lane[s][l].local /\ lane[s][l].remote

(* The two peer connections find each other by some candidate (external). *)
Connect(l) ==
    /\ l \notin linked /\ Described(l)
    /\ \E s \in Sides : lane[s][l].added # {}
    /\ linked' = linked \cup {l}
    /\ UNCHANGED <<up, wire, started, closed, ended, queue, negotiated, job, lane,
                   pending, tries, sent, overtaken, dropped, faults>>

(* OnDataChannel at the responder: attachLaneChannel. *)
OnDataChannel(l) ==
    /\ l \in linked /\ Live("responder", l) /\ Live("initiator", l)
    /\ IsCurrentLane("responder", l) /\ ~lane["responder"][l].channel
    /\ lane' = [lane EXCEPT !["responder"][l].channel = TRUE]
    /\ UNCHANGED <<up, wire, started, closed, ended, queue, negotiated, job, pending,
                   linked, tries, sent, overtaken, dropped, faults>>

(***************************************************************************)
(* OnOpen of the lane's channel.  The initiator does not wait for the      *)
(* responder to have accepted it.                                          *)
(***************************************************************************)
OnOpen(s, l) ==
    /\ l \in linked /\ Live(s, l) /\ ~lane[s][l].open
    /\ lane[s][l].channel /\ lane[s][l].installed
    /\ lane' = [lane EXCEPT ![s][l].open = TRUE]
    /\ UNCHANGED <<up, wire, started, closed, ended, queue, negotiated, job, pending,
                   linked, tries, sent, overtaken, dropped, faults>>

(* Mutant: only the state Failed removes a lane, not the state Closed. *)
ClosedIgnored(s, l) == FALSE

ConnectionClosed(s, l) == lane[Other(s)][l].pc = "closed"

(***************************************************************************)
(* removeLaneIfCurrent: the connection of a lane fails, or the other side  *)
(* has closed it.                                                          *)
(***************************************************************************)
RemoveLaneIfCurrent(s, l) ==
    /\ lane[s][l].installed /\ lane[s][l].remote
    /\ \/ Fault("lane")
       \/ ConnectionClosed(s, l) /\ UNCHANGED faults
    /\ lane' = [lane EXCEPT ![s][l] = Closed(@)]
    /\ pending' = [pending EXCEPT ![s][l] = {}]
    /\ UNCHANGED <<up, wire, started, closed, ended, queue, negotiated, job, linked,
                   tries, sent, overtaken, dropped>>

-----------------------------------------------------------------------------
(* Send *)

(* The channels a payload may take; 0 is the primary. *)
OpenLanes(s) == {l \in LaneIDs : lane[s][l].installed /\ lane[s][l].open}

(* Mutant: with lanes open the primary is left to the controls. *)
LanesOnly(s) == IF OpenLanes(s) # {} THEN OpenLanes(s) ELSE {k \in {0} : up}

BinaryCandidates(s) == {k \in {0} : up} \cup OpenLanes(s)

(* DataChannel.Send succeeds on a channel that has not been closed here. *)
Accepts(s, k) == IF k = 0 THEN up ELSE Live(s, k)

SendPayload(s) ==
    /\ s \in Senders /\ sent[s] = "none"
    /\ tries' = [tries EXCEPT ![s] = BinaryCandidates(s)]
    /\ sent' = [sent EXCEPT ![s] = "trying"]
    /\ UNCHANGED <<up, wire, started, closed, ended, queue, negotiated, job, lane,
                   pending, linked, overtaken, dropped, faults>>

(***************************************************************************)
(* The candidates are tried in the order of their buffered amounts.        *)
(***************************************************************************)
TrySend(s) ==
    /\ sent[s] = "trying"
    /\ \/ \E k \in tries[s] :
             IF Accepts(s, k)
             THEN /\ sent' = [sent EXCEPT ![s] = "ok"]
                  /\ tries' = [tries EXCEPT ![s] = {}]
             ELSE /\ tries' = [tries EXCEPT ![s] = @ \ {k}]
                  /\ UNCHANGED sent
       \/ /\ tries[s] = {}
          /\ sent' = [sent EXCEPT ![s] = "failed"]
          /\ UNCHANGED tries
    /\ UNCHANGED <<up, wire, started, closed, ended, queue, negotiated, job, lane,
                   pending, linked, overtaken, dropped, faults>>

-----------------------------------------------------------------------------
NegotiationLoop(s) ==
    \/ TakeCapability(s) \/ TakeOffer(s) \/ TakeAnswer(s) \/ TakeCandidate(s)
    \/ CreatePC(s) \/ InstallLane(s) \/ SetRemoteDescription(s)
    \/ SetLocalDescription(s) \/ SendDescription(s) \/ EndLoop(s)

Callbacks(s) ==
    \E l \in LaneIDs : OnICECandidate(s, l) \/ OnOpen(s, l) \/ RemoveLaneIfCurrent(s, l)

Next ==
    \/ \E s \in Sides :
          \/ Start(s) \/ HandlePrimaryMessage(s) \/ HandlePrimaryClose(s) \/ Close(s)
          \/ NegotiationLoop(s) \/ Callbacks(s)
          \/ SendPayload(s) \/ TrySend(s)
    \/ \E l \in LaneIDs : Connect(l) \/ OnDataChannel(l)
    \/ PrimaryLost

Spec == Init /\ [][Next]_vars

(* Every candidate that was gathered for lane l has reached the other side. *)
Exchanged(l) ==
    \A s \in Sides : lane[s][l].gathered = Candidates /\ lane[s][l].added = Candidates

(***************************************************************************)
(* Goroutines run, messages arrive and callbacks are made.  A connection   *)
(* is only certain once both sides have all candidates: any single pair    *)
(* may be the one that works.                                              *)
(***************************************************************************)
Fairness ==
    /\ \A s \in Sides :
          /\ WF_vars(Start(s)) /\ WF_vars(HandlePrimaryMessage(s))
          /\ WF_vars(HandlePrimaryClose(s)) /\ WF_vars(NegotiationLoop(s))
          /\ \A l \in LaneIDs :
                /\ WF_vars(OnICECandidate(s, l)) /\ WF_vars(OnOpen(s, l))
                /\ WF_vars(RemoveLaneIfCurrent(s, l) /\ UNCHANGED faults)
    /\ \A l \in LaneIDs :
          WF_vars(Exchanged(l) /\ Connect(l)) /\ WF_vars(OnDataChannel(l))

FairSpec == Spec /\ Fairness

-----------------------------------------------------------------------------
(***************************************************************************)
(* A lane is only created if both peers have room for it: the two sides of *)
(* handleParallelControl take the same minimum, whatever each asked for.   *)
(***************************************************************************)
LanesAgreed ==
    \A s \in Sides, l \in LaneIDs :
        lane[s][l].pc # "none" =>
            l < Connections("initiator") /\ l < Connections("responder")

InFlight(t, l) ==
    {m.candidate : m \in {x \in {wire[t][k] : k \in DOMAIN wire[t]}
                                \cup {queue[t][k] : k \in DOMAIN queue[t]} :
                          x.type = "parallel_ice" /\ x.lane = l}}

(***************************************************************************)
(* Candidates are sent by a callback, beside the goroutine that sends the  *)
(* offer or the answer, and may arrive first.  While the lane lives,       *)
(* acceptCandidate and flushLaneCandidates lose none: each is in flight,   *)
(* set aside for a description that is missing, or added.  Two cases are   *)
(* left out.  A side whose offer or candidate overtook its capability      *)
(* (overtaken) is not understood: acceptOffer and acceptCandidate throw    *)
(* away what it sends.  And what found no room, or was refused by          *)
(* AddICECandidate (dropped), is lost.                                     *)
(***************************************************************************)
CandidateKept ==
    up /\ ~overtaken /\ ~dropped =>
    \A s \in Sides, l \in LaneIDs :
        LET t == Other(s) IN
        ~closed[t] /\ lane[t][l].pc # "closed" /\ lane[s][l].pc # "closed" =>
            /\ lane[s][l].gathered \subseteq
                  InFlight(t, l) \cup pending[t][l] \cup lane[t][l].added
            /\ lane[t][l].remote => pending[t][l] = {}

(***************************************************************************)
(* shutdown closes the lanes it finds, and installLane refuses those that  *)
(* negotiationLoop is still creating: no peer connection outlives the      *)
(* channel.                                                                *)
(***************************************************************************)
NoConnectionLeak ==
    \A s \in Sides : closed[s] /\ job[s] = Idle =>
        \A l \in LaneIDs : ~Live(s, l)

(***************************************************************************)
(* Send falls back from lanes that have failed since it looked: it fails   *)
(* only if the primary channel is down.  (DataChannel.Send is taken never  *)
(* to fail on an open primary; Sender.SendRefused has the case it does.)   *)
(***************************************************************************)
SendFallsBack == \A s \in Sides : sent[s] = "failed" => ~up

(***************************************************************************)
(* With no fault, no queue overflow and the capability announced first,    *)
(* every agreed lane opens at both ends: handleParallelControl throws away *)
(* no description and no candidate that somebody waits for.                *)
(***************************************************************************)
LanesOpen ==
    [](~overtaken /\ ~dropped /\ faults = 0) =>
        \A s \in Sides, l \in LaneIDs :
            l < Lesser(Connections("initiator"), Connections("responder"))
            => <>lane[s][l].open

(***************************************************************************)
(* When one side closes, or the primary connection breaks, both sides shut *)
(* down: the loops return and every peer connection is closed.             *)
(***************************************************************************)
ShutdownCompletes ==
    ~up ~> \A s \in Sides : /\ ended[s]
                            /\ \A l \in LaneIDs : ~Live(s, l)

(***************************************************************************)
(* A lane that one side has given up is given up by the other side as well *)
(* and takes no more payloads.                                             *)
(***************************************************************************)
DeadLaneDropped ==
    \A s \in Sides, l \in LaneIDs :
        lane[s][l].pc = "closed" /\ lane[Other(s)][l].open
        ~> ~lane[Other(s)][l].open
=============================================================================
