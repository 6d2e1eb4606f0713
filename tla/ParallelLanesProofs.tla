------------------------- MODULE ParallelLanesProofs -------------------------
(***************************************************************************)
(* Proofs about ParallelLanes, for any numbers of connections that the     *)
(* peers ask for, queues and sets of candidates of any size, and any       *)
(* number and kind of faults.                                              *)
(***************************************************************************)
EXTENDS ParallelLanes, FiniteSetTheorems, SequenceTheorems, TLAPS

-----------------------------------------------------------------------------
(* The inductive invariant *)

LaneType ==
    [pc : {"none", "new", "closed"}, installed : BOOLEAN, local : BOOLEAN,
     remote : BOOLEAN, channel : BOOLEAN, open : BOOLEAN,
     gathered : SUBSET Candidates, added : SUBSET Candidates]

Steps == {"idle", "create", "install", "remote", "local", "send"}

JobType == [step : Steps, lane : LaneIDs \cup {0}]

(* The number of connections that both peers have room for. *)
Agreed == Lesser(Connections("initiator"), Connections("responder"))

(* What is announced to side t is what the other side wants. *)
Announces(t, m) == m.type = "parallel_capability" => m.connections = Connections(Other(t))

AnnounceInv ==
    \A t \in Sides :
        /\ \A i \in 1 .. Len(wire[t]) : Announces(t, wire[t][i])
        /\ \A i \in 1 .. Len(queue[t]) : Announces(t, queue[t][i])

(* negotiationLoop is idle, or at a lane that both peers have room for. *)
AtLane(j) ==
    \/ j = Idle
    \/ j.step # "idle" /\ j.lane \in LaneIDs /\ j.lane < Agreed

JobInv == \A s \in Sides : AtLane(job[s]) /\ negotiated[s] <= Agreed

(* Lanes exist only where both peers have room for them. *)
Existing(r) == r.pc # "none" \/ r.installed

LaneInv == \A s \in Sides, l \in LaneIDs : Existing(lane[s][l]) => l < Agreed

(***************************************************************************)
(* A peer connection that runs is installed, or installLane has yet to     *)
(* look at it; after shutdown none is installed.                           *)
(***************************************************************************)
Arriving(j, l) == j.step = "install" /\ j.lane = l

OwnerInv ==
    \A s \in Sides, l \in LaneIDs :
        /\ Live(s, l) => lane[s][l].installed \/ Arriving(job[s], l)
        /\ closed[s] => ~lane[s][l].installed

(* Send has not given up the primary channel while it is there. *)
SendInv ==
    \A s \in Sides : /\ sent[s] = "trying" /\ up => 0 \in tries[s]
                     /\ sent[s] = "failed" => ~up

-----------------------------------------------------------------------------
(* Facts about the constants and the operators *)

LEMMA TwoSides ==
    /\ Sides = {"initiator", "responder"}
    /\ Other("initiator") = "responder" /\ Other("responder") = "initiator"
    /\ \A s \in Sides : Other(s) \in Sides
  BY DEF Sides, Other

LEMMA LaneNumbers ==
    /\ MaxConnections \in Nat /\ MaxConnections >= 1
    /\ LaneIDs \subseteq Nat
    /\ \A l \in Int : l \in LaneIDs <=> l >= 1 /\ l < MaxConnections
    /\ 0 \notin LaneIDs
  BY LanesAssumption DEF LaneIDs

(* clampParallelConnections keeps every request within the limits. *)
LEMMA ConnectionsRange ==
    /\ \A s \in Sides : Connections(s) \in 1 .. MaxConnections
    /\ Agreed \in 1 .. MaxConnections
    /\ \A s \in Sides : Agreed <= Connections(s)
    /\ \A s \in Sides : Agreed = Lesser(Connections(s), Connections(Other(s)))
  <1>1. \A n \in Int : ClampParallelConnections(n) \in 1 .. MaxConnections
    BY LanesAssumption DEF ClampParallelConnections, Lesser
  <1>2. \A s \in Sides : Connections(s) \in 1 .. MaxConnections
    BY <1>1, LanesAssumption DEF Connections
  <1> QED
    BY <1>2, TwoSides DEF Agreed, Lesser

LEMMA ControlFields ==
    ASSUME NEW m \in Control
    PROVE  /\ m.type = "parallel_capability" => m.connections \in 1 .. MaxConnections
           /\ m.type \in {"parallel_offer", "parallel_answer", "parallel_ice"} =>
                 m.lane \in LaneIDs
           /\ m.type = "parallel_ice" => m.candidate \in Candidates
  BY DEF Control

LEMMA ControlTypes ==
    /\ \A n \in 1 .. MaxConnections :
          [type |-> "parallel_capability", connections |-> n] \in Control
    /\ \A t \in {"parallel_offer", "parallel_answer"}, l \in LaneIDs :
          [type |-> t, lane |-> l] \in Control
    /\ \A l \in LaneIDs, c \in Candidates :
          [type |-> "parallel_ice", lane |-> l, candidate |-> c] \in Control
  BY DEF Control

(* What the updates of a lane keep and change. *)
LEMMA LaneUpdates ==
    ASSUME NEW r \in LaneType
    PROVE  /\ Closed(r) \in LaneType /\ Closed(r).pc = "closed" /\ ~Closed(r).installed
           /\ [r EXCEPT !.pc = "new"] \in LaneType
           /\ [r EXCEPT !.pc = "closed"] \in LaneType
           /\ [r EXCEPT !.installed = TRUE] \in LaneType
           /\ [r EXCEPT !.channel = TRUE] \in LaneType
           /\ [r EXCEPT !.open = TRUE] \in LaneType
           /\ \A b \in BOOLEAN : [r EXCEPT !.local = TRUE, !.channel = b] \in LaneType
           /\ \A S \in SUBSET Candidates :
                 /\ [r EXCEPT !.remote = TRUE, !.added = @ \cup S] \in LaneType
                 /\ [r EXCEPT !.added = @ \cup S] \in LaneType
                 /\ [r EXCEPT !.gathered = @ \cup S] \in LaneType
  <1>1. Closed(r) \in LaneType /\ Closed(r).pc = "closed" /\ ~Closed(r).installed
    BY DEF LaneType, Closed
  <1>2. /\ [r EXCEPT !.pc = "new"] \in LaneType
        /\ [r EXCEPT !.pc = "closed"] \in LaneType
    BY DEF LaneType
  <1>3. /\ [r EXCEPT !.installed = TRUE] \in LaneType
        /\ [r EXCEPT !.channel = TRUE] \in LaneType
        /\ [r EXCEPT !.open = TRUE] \in LaneType
        /\ \A b \in BOOLEAN : [r EXCEPT !.local = TRUE, !.channel = b] \in LaneType
    BY DEF LaneType
  <1>4. \A S \in SUBSET Candidates :
           /\ [r EXCEPT !.remote = TRUE, !.added = @ \cup S] \in LaneType
           /\ [r EXCEPT !.added = @ \cup S] \in LaneType
           /\ [r EXCEPT !.gathered = @ \cup S] \in LaneType
    BY DEF LaneType
  <1> QED
    BY <1>1, <1>2, <1>3, <1>4

-----------------------------------------------------------------------------
(* Types, by the variables they are about *)

WireOK ==
    /\ wire \in [Sides -> Seq(Control)] /\ queue \in [Sides -> Seq(Control)]
    /\ \A s \in Sides : Len(queue[s]) <= QueueSize

LanesOK == lane \in [Sides -> [LaneIDs -> LaneType]]

PendingOK ==
    /\ pending \in [Sides -> [LaneIDs -> SUBSET Candidates]]
    /\ \A s \in Sides, l \in LaneIDs : Cardinality(pending[s][l]) <= MaxPending

JobOK == job \in [Sides -> JobType] /\ negotiated \in [Sides -> 1 .. MaxConnections]

FlagsOK ==
    /\ {up, overtaken, dropped} \subseteq BOOLEAN
    /\ {started, closed, ended} \subseteq [Sides -> BOOLEAN]
    /\ linked \subseteq LaneIDs
    /\ tries \in [Sides -> SUBSET (LaneIDs \cup {0})]
    /\ sent \in [Sides -> {"none", "trying", "ok", "failed"}]
    /\ faults \in 0 .. MaxFaults

LEMMA TypeParts == TypeOK <=> WireOK /\ LanesOK /\ PendingOK /\ JobOK /\ FlagsOK
  <1>1. TypeOK => WireOK /\ LanesOK /\ PendingOK /\ JobOK /\ FlagsOK
    BY DEF TypeOK, WireOK, LanesOK, PendingOK, JobOK, FlagsOK, LaneType, JobType, Steps
  <1>2. (WireOK /\ LanesOK /\ PendingOK /\ JobOK /\ FlagsOK) => TypeOK
    BY DEF TypeOK, WireOK, LanesOK, PendingOK, JobOK, FlagsOK, LaneType, JobType, Steps
  <1> QED
    BY <1>1, <1>2

-----------------------------------------------------------------------------
(* The wire and the queue *)

WireInv == WireOK /\ AnnounceInv

LEMMA WireSame ==
    ASSUME WireInv, UNCHANGED <<wire, queue>>
    PROVE  WireInv'
  BY DEF WireInv, WireOK, AnnounceInv

(* sendParallel appends a control that announces no more than was asked for. *)
LEMMA WireSend ==
    ASSUME WireInv, NEW t \in Sides, NEW m \in Control, Announces(t, m),
           wire' = [wire EXCEPT ![t] = Append(@, m)], UNCHANGED queue
    PROVE  WireInv'
  <1>1. wire' \in [Sides -> Seq(Control)]
    BY DEF WireInv, WireOK
  <1>2. \A s \in Sides : \A i \in 1 .. Len(wire'[s]) :
           \/ i \in 1 .. Len(wire[s]) /\ wire'[s][i] = wire[s][i]
           \/ s = t /\ wire'[s][i] = m
    BY DEF WireInv, WireOK
  <1>3. \A s \in Sides : \A i \in 1 .. Len(wire'[s]) : Announces(s, wire'[s][i])
    BY <1>2 DEF WireInv, AnnounceInv
  <1> QED
    BY <1>1, <1>3 DEF WireInv, WireOK, AnnounceInv, Announces

(* A control leaves the front of a queue. *)
LEMMA TailOf ==
    ASSUME NEW q \in Seq(Control), q # <<>>
    PROVE  /\ Tail(q) \in Seq(Control) /\ Len(Tail(q)) = Len(q) - 1
           /\ Head(q) = q[1] /\ Head(q) \in Control /\ 1 \in 1 .. Len(q)
           /\ \A i \in 1 .. Len(Tail(q)) : i + 1 \in 1 .. Len(q) /\ Tail(q)[i] = q[i + 1]
  OBVIOUS

LEMMA WireTake ==
    ASSUME WireInv, NEW s \in Sides, queue[s] # <<>>,
           queue' = [queue EXCEPT ![s] = Tail(@)], UNCHANGED wire
    PROVE  /\ WireInv'
           /\ Head(queue[s]) \in Control /\ Announces(s, Head(queue[s]))
  <1>1. queue[s] \in Seq(Control) /\ queue \in [Sides -> Seq(Control)]
    BY DEF WireInv, WireOK
  <1> DEFINE q == queue[s]
  <1>2. /\ Tail(q) \in Seq(Control) /\ Len(Tail(q)) = Len(q) - 1
        /\ Head(q) = q[1] /\ Head(q) \in Control /\ 1 \in 1 .. Len(q)
        /\ \A i \in 1 .. Len(Tail(q)) : i + 1 \in 1 .. Len(q) /\ Tail(q)[i] = q[i + 1]
    BY <1>1, TailOf
  <1>3. queue' \in [Sides -> Seq(Control)] /\ queue'[s] = Tail(q)
        /\ \A t \in Sides \ {s} : queue'[t] = queue[t]
    BY <1>1, <1>2
  <1>4. \A t \in Sides : Len(queue'[t]) <= QueueSize
    BY <1>1, <1>2, <1>3, LanesAssumption DEF WireInv, WireOK
  <1>5. \A t \in Sides : \A i \in 1 .. Len(queue'[t]) : Announces(t, queue'[t][i])
    <2>1. \A i \in 1 .. Len(queue'[s]) : Announces(s, queue'[s][i])
      BY <1>2, <1>3 DEF WireInv, AnnounceInv
    <2>2. \A t \in Sides \ {s} : \A i \in 1 .. Len(queue'[t]) : Announces(t, queue'[t][i])
      BY <1>3 DEF WireInv, AnnounceInv
    <2> QED
      BY <2>1, <2>2
  <1>6. Announces(s, Head(q))
    BY <1>2 DEF WireInv, AnnounceInv
  <1> QED
    BY <1>2, <1>3, <1>4, <1>5, <1>6 DEF WireInv, WireOK, AnnounceInv, Announces

(* A control goes from the wire to the queue, if it fits. *)
LEMMA WireReceive ==
    ASSUME WireInv, NEW s \in Sides, HandlePrimaryMessage(s)
    PROVE  WireInv'
  <1>1. /\ wire[s] \in Seq(Control) /\ wire \in [Sides -> Seq(Control)] /\ wire[s] # <<>>
        /\ queue \in [Sides -> Seq(Control)]
        /\ wire' = [wire EXCEPT ![s] = Tail(@)]
    BY DEF WireInv, WireOK, HandlePrimaryMessage
  <1> DEFINE q == wire[s]
  <1>2. /\ Tail(q) \in Seq(Control) /\ Len(Tail(q)) = Len(q) - 1
        /\ Head(q) = q[1] /\ Head(q) \in Control /\ 1 \in 1 .. Len(q)
        /\ \A i \in 1 .. Len(Tail(q)) : i + 1 \in 1 .. Len(q) /\ Tail(q)[i] = q[i + 1]
    BY <1>1, TailOf
  <1>3. wire' \in [Sides -> Seq(Control)] /\ wire'[s] = Tail(q)
        /\ \A t \in Sides \ {s} : wire'[t] = wire[t]
    BY <1>1, <1>2
  <1>4. \A t \in Sides : \A i \in 1 .. Len(wire'[t]) : Announces(t, wire'[t][i])
    <2>1. \A i \in 1 .. Len(wire'[s]) : Announces(s, wire'[s][i])
      BY <1>2, <1>3 DEF WireInv, AnnounceInv
    <2>2. \A t \in Sides \ {s} : \A i \in 1 .. Len(wire'[t]) : Announces(t, wire'[t][i])
      BY <1>3 DEF WireInv, AnnounceInv
    <2> QED
      BY <2>1, <2>2
  <1>5. Announces(s, Head(q))
    BY <1>2 DEF WireInv, AnnounceInv
  <1>6. CASE queue' = queue
    BY <1>3, <1>4, <1>6 DEF WireInv, WireOK, AnnounceInv, Announces
  <1>7. CASE ~QueueFull(s) /\ queue' = [queue EXCEPT ![s] = Append(@, Head(q))]
    <2>1. queue' \in [Sides -> Seq(Control)]
      BY <1>1, <1>2, <1>7
    <2>2. \A t \in Sides : Len(queue'[t]) <= QueueSize
      BY <1>1, <1>2, <1>7, LanesAssumption DEF WireInv, WireOK, QueueFull
    <2>3. \A t \in Sides : \A i \in 1 .. Len(queue'[t]) :
             \/ i \in 1 .. Len(queue[t]) /\ queue'[t][i] = queue[t][i]
             \/ t = s /\ queue'[t][i] = Head(q)
      BY <1>1, <1>2, <1>7
    <2>4. \A t \in Sides : \A i \in 1 .. Len(queue'[t]) : Announces(t, queue'[t][i])
      BY <1>5, <2>3 DEF WireInv, AnnounceInv
    <2> QED
      BY <1>3, <1>4, <2>1, <2>2, <2>4 DEF WireInv, WireOK, AnnounceInv, Announces
  <1> QED
    BY <1>6, <1>7 DEF HandlePrimaryMessage

(* What is in flight is lost with the primary channel. *)
LEMMA WireLost ==
    ASSUME WireInv, PrimaryDown, UNCHANGED queue
    PROVE  WireInv'
  BY DEF WireInv, WireOK, AnnounceInv, PrimaryDown

-----------------------------------------------------------------------------
(* The lanes, and where negotiationLoop is *)

OwnedLanes == LanesOK /\ LaneInv /\ OwnerInv

(* Side s changes its lane l, and goes on with its work. *)
LEMMA OneLane ==
    ASSUME OwnedLanes, NEW s \in Sides, NEW l \in LaneIDs, NEW r \in LaneType,
           lane' = [lane EXCEPT ![s][l] = r], UNCHANGED closed,
           Existing(r) => l < Agreed,
           r.pc = "new" => r.installed \/ Arriving(job'[s], l),
           closed[s] => ~r.installed,
           \A k \in LaneIDs \ {l} : Arriving(job[s], k) => Arriving(job'[s], k),
           \A t \in Sides \ {s} : job'[t] = job[t]
    PROVE  OwnedLanes'
  <1>1. lane \in [Sides -> [LaneIDs -> LaneType]]
    BY DEF OwnedLanes, LanesOK
  <1>2. /\ lane' \in [Sides -> [LaneIDs -> LaneType]] /\ lane'[s][l] = r
        /\ \A k \in LaneIDs \ {l} : lane'[s][k] = lane[s][k]
        /\ \A t \in Sides \ {s} : lane'[t] = lane[t]
    BY <1>1
  <1>3. LaneInv'
    BY <1>2 DEF OwnedLanes, LaneInv, Existing
  <1>4. ASSUME NEW t \in Sides, NEW k \in LaneIDs
        PROVE  /\ lane'[t][k].pc = "new" => lane'[t][k].installed \/ Arriving(job'[t], k)
               /\ closed'[t] => ~lane'[t][k].installed
    <2>1. CASE t = s /\ k = l
      BY <1>2, <2>1
    <2>2. CASE t = s /\ k # l
      BY <1>2, <2>2 DEF OwnedLanes, OwnerInv, Live
    <2>3. CASE t # s
      BY <1>2, <2>3 DEF OwnedLanes, OwnerInv, Live
    <2> QED
      BY <2>1, <2>2, <2>3
  <1>5. OwnerInv'
    BY <1>4 DEF OwnerInv, Live
  <1> QED
    BY <1>2, <1>3, <1>5 DEF OwnedLanes, LanesOK

(* The lanes stay, and no connection is left on its way to installLane. *)
LEMMA SameLanes ==
    ASSUME OwnedLanes, UNCHANGED <<lane, closed>>,
           \A s \in Sides, k \in LaneIDs : Arriving(job[s], k) => Arriving(job'[s], k)
    PROVE  OwnedLanes'
  <1>1. LanesOK' /\ LaneInv'
    BY DEF OwnedLanes, LanesOK, LaneInv
  <1>2. OwnerInv'
    BY DEF OwnedLanes, OwnerInv, Live
  <1> QED
    BY <1>1, <1>2 DEF OwnedLanes

(* Something about a lane changes, but not who owns its connection. *)
LEMMA LearntLane ==
    ASSUME OwnedLanes, NEW s \in Sides, NEW l \in LaneIDs, NEW r \in LaneType,
           lane' = [lane EXCEPT ![s][l] = r], UNCHANGED closed,
           r.pc = lane[s][l].pc, r.installed = lane[s][l].installed,
           \A t \in Sides \ {s} : job'[t] = job[t],
           \A k \in LaneIDs : Arriving(job[s], k) => Arriving(job'[s], k)
    PROVE  OwnedLanes'
  <1>1. /\ Existing(r) => l < Agreed
        /\ r.pc = "new" => r.installed \/ Arriving(job'[s], l)
        /\ closed[s] => ~r.installed
    BY DEF OwnedLanes, LaneInv, OwnerInv, Existing, Live
  <1> QED
    BY <1>1, OneLane

(* A lane is closed. *)
LEMMA ClosedLane ==
    ASSUME OwnedLanes, NEW s \in Sides, NEW l \in LaneIDs,
           lane' = [lane EXCEPT ![s][l] = Closed(@)], UNCHANGED closed,
           lane[s][l].installed,
           \A t \in Sides \ {s} : job'[t] = job[t],
           \A k \in LaneIDs : Arriving(job[s], k) => Arriving(job'[s], k)
    PROVE  OwnedLanes'
  <1> DEFINE r == Closed(lane[s][l])
  <1>1. lane[s][l] \in LaneType
    BY DEF OwnedLanes, LanesOK
  <1>2. r \in LaneType /\ r.pc = "closed" /\ ~r.installed
    BY <1>1, LaneUpdates
  <1>3. l < Agreed
    BY DEF OwnedLanes, LaneInv, Existing
  <1>4. lane' = [lane EXCEPT ![s][l] = r]
    OBVIOUS
  <1> HIDE DEF r
  <1> QED
    BY <1>2, <1>3, <1>4, OneLane

(* Where negotiationLoop goes next. *)
WorkOK == JobOK /\ JobInv

LEMMA WorkSame ==
    ASSUME WorkOK, UNCHANGED <<job, negotiated>>
    PROVE  WorkOK'
  BY DEF WorkOK, JobOK, JobInv, AtLane

LEMMA WorkStep ==
    ASSUME WorkOK, NEW s \in Sides, NEW j \in JobType, AtLane(j),
           job' = [job EXCEPT ![s] = j], UNCHANGED negotiated
    PROVE  /\ WorkOK' /\ job'[s] = j
           /\ \A t \in Sides \ {s} : job'[t] = job[t]
  <1>1. job \in [Sides -> JobType] /\ job' \in [Sides -> JobType]
    BY DEF WorkOK, JobOK
  <1>2. job'[s] = j /\ \A t \in Sides \ {s} : job'[t] = job[t]
    BY <1>1
  <1> QED
    BY <1>1, <1>2 DEF WorkOK, JobOK, JobInv, AtLane

(* The initiator goes through the lanes that were agreed on. *)
LEMMA NextOfferType ==
    ASSUME NEW l \in Nat, l >= 1, NEW n \in 1 .. MaxConnections, n <= Agreed
    PROVE  /\ NextOffer(l, n) \in JobType /\ AtLane(NextOffer(l, n))
           /\ NextOffer(l, n).step \in {"idle", "create"}
           /\ Idle \in JobType /\ AtLane(Idle) /\ Idle.step = "idle"
  <1>1. Idle \in JobType /\ AtLane(Idle) /\ Idle.step = "idle"
    BY DEF Idle, JobType, AtLane, Steps
  <1>2. CASE l < n
    <2>1. l \in LaneIDs /\ l < Agreed
      BY <1>2, LaneNumbers, ConnectionsRange
    <2> QED
      BY <1>1, <1>2, <2>1 DEF NextOffer, JobType, AtLane, Steps
  <1>3. CASE ~(l < n)
    BY <1>1, <1>3 DEF NextOffer
  <1> QED
    BY <1>2, <1>3

LEMMA WorkDone ==
    ASSUME WorkOK, NEW s \in Sides, job[s].step # "idle", Done(s), UNCHANGED negotiated
    PROVE  /\ WorkOK' /\ job'[s].step \in {"idle", "create"}
           /\ \A t \in Sides \ {s} : job'[t] = job[t]
  <1>1. job[s] \in JobType /\ job[s].lane \in LaneIDs /\ negotiated[s] \in 1 .. MaxConnections
        /\ negotiated[s] <= Agreed
    BY DEF WorkOK, JobOK, JobInv, AtLane, Idle
  <1>2. job[s].lane + 1 \in Nat /\ job[s].lane + 1 >= 1
    <2>1. job[s].lane \in Nat
      BY <1>1, LaneNumbers
    <2> QED
      BY <2>1
  <1> DEFINE j == IF s = "initiator" THEN NextOffer(job[s].lane + 1, negotiated[s]) ELSE Idle
  <1>3. j \in JobType /\ AtLane(j) /\ j.step \in {"idle", "create"}
    BY <1>1, <1>2, NextOfferType
  <1>4. job' = [job EXCEPT ![s] = j]
    BY DEF Done
  <1> HIDE DEF j
  <1> QED
    BY <1>3, <1>4, WorkStep

(* The next step of createOffer or acceptOffer, for the same lane. *)
LEMMA WorkOn ==
    ASSUME WorkOK, NEW s \in Sides, job[s].step # "idle",
           NEW x \in Steps \ {"idle"}, job' = [job EXCEPT ![s].step = x],
           UNCHANGED negotiated
    PROVE  /\ WorkOK' /\ job'[s].step = x /\ job'[s].lane = job[s].lane
           /\ \A t \in Sides \ {s} : job'[t] = job[t]
  <1>1. job[s] \in JobType /\ job[s].lane \in LaneIDs /\ job[s].lane < Agreed
    BY DEF WorkOK, JobOK, JobInv, AtLane, Idle
  <1> DEFINE j == [job[s] EXCEPT !.step = x]
  <1>2. j \in JobType /\ j.step = x /\ j.lane = job[s].lane
    BY <1>1 DEF JobType
  <1>3. AtLane(j)
    BY <1>1, <1>2 DEF AtLane
  <1>4. job' = [job EXCEPT ![s] = j]
    OBVIOUS
  <1> HIDE DEF j
  <1> QED
    BY <1>2, <1>3, <1>4, WorkStep

-----------------------------------------------------------------------------
(* The candidates that wait for a description *)

LEMMA PendingSame ==
    ASSUME PendingOK, UNCHANGED pending
    PROVE  PendingOK'
  BY DEF PendingOK

LEMMA PendingNone ==
    ASSUME PendingOK, NEW s \in Sides, NEW l \in LaneIDs,
           pending' = [pending EXCEPT ![s][l] = {}]
    PROVE  PendingOK'
  <1>1. Cardinality({}) = 0 /\ MaxPending \in Nat
    BY FS_EmptySet, LanesAssumption
  <1>2. pending \in [Sides -> [LaneIDs -> SUBSET Candidates]]
    BY DEF PendingOK
  <1>3. pending' \in [Sides -> [LaneIDs -> SUBSET Candidates]]
    BY <1>2
  <1>4. \A t \in Sides, k \in LaneIDs : pending'[t][k] \in {pending[t][k], {}}
    BY <1>2
  <1> QED
    BY <1>1, <1>3, <1>4 DEF PendingOK

LEMMA PendingMore ==
    ASSUME PendingOK, NEW s \in Sides, NEW l \in LaneIDs, NEW c \in Candidates,
           RoomForCandidate(s, l), pending' = [pending EXCEPT ![s][l] = @ \cup {c}]
    PROVE  PendingOK'
  <1>1. pending \in [Sides -> [LaneIDs -> SUBSET Candidates]]
    BY DEF PendingOK
  <1> DEFINE p == pending[s][l] \cup {c}
  <1>2. IsFiniteSet(pending[s][l])
    <2>1. pending[s][l] \in SUBSET Candidates
      BY <1>1
    <2> QED
      BY <2>1, FS_Subset, LanesAssumption
  <1>3. Cardinality(p) <= MaxPending
    <2>1. Cardinality(pending[s][l]) \in Nat
      BY <1>2, FS_CardinalityType
    <2>2. Cardinality(p) \in {Cardinality(pending[s][l]), Cardinality(pending[s][l]) + 1}
      BY <1>2, FS_AddElement
    <2> QED
      BY <2>1, <2>2, LanesAssumption DEF RoomForCandidate
  <1>4. pending' \in [Sides -> [LaneIDs -> SUBSET Candidates]]
    BY <1>1
  <1>5. \A t \in Sides, k \in LaneIDs : pending'[t][k] \in {pending[t][k], p}
    BY <1>1
  <1> HIDE DEF p
  <1> QED
    BY <1>3, <1>4, <1>5 DEF PendingOK

-----------------------------------------------------------------------------
(* The steps of negotiationLoop *)

LoopInv == OwnedLanes /\ WorkOK /\ PendingOK

(* No connection is on its way to installLane. *)
LEMMA NoneArrives ==
    ASSUME NEW s \in Sides, job[s].step # "install"
    PROVE  \A k \in LaneIDs : ~Arriving(job[s], k)
  BY DEF Arriving

(* SetRemoteDescription and the candidates that were set aside for it. *)
LEMMA RemoteSet ==
    ASSUME OwnedLanes, PendingOK, NEW s \in Sides, NEW l \in LaneIDs,
           NEW got \in SUBSET pending[s][l], Flushed(s, l, got), UNCHANGED closed,
           \A t \in Sides \ {s} : job'[t] = job[t],
           \A k \in LaneIDs : Arriving(job[s], k) => Arriving(job'[s], k)
    PROVE  OwnedLanes' /\ PendingOK'
  <1>1. lane \in [Sides -> [LaneIDs -> LaneType]] /\ lane[s][l] \in LaneType
        /\ got \in SUBSET Candidates
    BY DEF OwnedLanes, LanesOK, PendingOK
  <1> DEFINE r == [lane[s][l] EXCEPT !.remote = TRUE, !.added = @ \cup got]
  <1>2. r \in LaneType /\ r.pc = lane[s][l].pc /\ r.installed = lane[s][l].installed
    <2>1. r \in LaneType
      BY <1>1, LaneUpdates
    <2> QED
      BY <1>1, <2>1 DEF LaneType
  <1>3. lane' = [lane EXCEPT ![s][l] = r]
    BY <1>1 DEF Flushed
  <1>4. PendingOK'
    BY PendingNone DEF Flushed
  <1> HIDE DEF r
  <1> QED
    BY <1>2, <1>3, <1>4, LearntLane

(* createOffer or acceptOffer fails: the initiator removes the lane. *)
LEMMA FailedStep ==
    ASSUME LoopInv, NEW s \in Sides, job[s].step \in Steps \ {"idle", "install"},
           Failed(s), UNCHANGED <<closed, negotiated>>
    PROVE  LoopInv'
  <1>1. job[s].lane \in LaneIDs
    BY DEF LoopInv, WorkOK, JobInv, AtLane, Idle
  <1>2. WorkOK' /\ \A t \in Sides \ {s} : job'[t] = job[t]
    BY WorkDone DEF LoopInv, Failed
  <1>3. \A k \in LaneIDs : ~Arriving(job[s], k)
    BY NoneArrives
  <1>4. PendingOK'
    BY <1>1, PendingSame, PendingNone DEF LoopInv, Failed
  <1>5. OwnedLanes'
    <2>1. CASE lane' = lane
      BY <1>2, <1>3, <2>1, SameLanes DEF LoopInv
    <2>2. CASE /\ lane[s][job[s].lane].installed
               /\ lane' = [lane EXCEPT ![s][job[s].lane] = Closed(@)]
      BY <1>1, <1>2, <1>3, <2>2, ClosedLane DEF LoopInv
    <2> QED
      BY <2>1, <2>2 DEF Failed
  <1> QED
    BY <1>2, <1>4, <1>5 DEF LoopInv

(* The capability is taken: both sides come to the same number. *)
LEMMA CapabilityStep ==
    ASSUME WireInv, LoopInv, NEW s \in Sides, TakeCapability(s)
    PROVE  WireInv' /\ LoopInv'
  <1>1. queue[s] # <<>> /\ queue' = [queue EXCEPT ![s] = Tail(@)] /\ UNCHANGED wire
        /\ Head(queue[s]).type = "parallel_capability" /\ job[s] = Idle
    BY DEF TakeCapability, Take
  <1>2. /\ WireInv' /\ Head(queue[s]) \in Control
        /\ Announces(s, Head(queue[s]))
    BY <1>1, WireTake
  <1> DEFINE n == NegotiatedConnections(s, Head(queue[s]).connections)
             j == IF s = "initiator" THEN NextOffer(1, n) ELSE Idle
  <1>3. n = Agreed /\ Agreed \in 1 .. MaxConnections /\ Agreed <= Agreed
    BY <1>1, <1>2, ConnectionsRange DEF Announces, NegotiatedConnections
  <1>4. j \in JobType /\ AtLane(j)
    BY <1>3, NextOfferType
  <1>5. negotiated' = [negotiated EXCEPT ![s] = n] /\ job' = [job EXCEPT ![s] = j]
        /\ UNCHANGED <<lane, closed, pending>>
    BY DEF TakeCapability
  <1> HIDE DEF n, j
  <1>6. job \in [Sides -> JobType] /\ negotiated \in [Sides -> 1 .. MaxConnections]
    BY DEF LoopInv, WorkOK, JobOK
  <1>7. JobOK'
    BY <1>3, <1>4, <1>5, <1>6 DEF JobOK
  <1>8. JobInv'
    <2>1. job'[s] = j /\ negotiated'[s] = n
      BY <1>5, <1>6
    <2>2. \A t \in Sides \ {s} : job'[t] = job[t] /\ negotiated'[t] = negotiated[t]
      BY <1>5, <1>6
    <2>3. \A t \in Sides : AtLane(job'[t]) /\ negotiated'[t] <= Agreed
      BY <1>3, <1>4, <2>1, <2>2 DEF LoopInv, WorkOK, JobInv
    <2> QED
      BY <2>3 DEF JobInv, AtLane
  <1>9. \A t \in Sides, k \in LaneIDs : Arriving(job[t], k) => Arriving(job'[t], k)
    BY <1>1, <1>5, <1>6 DEF Arriving, Idle
  <1>10. OwnedLanes'
    BY <1>5, <1>9, SameLanes DEF LoopInv
  <1>11. PendingOK'
    BY <1>5, PendingSame DEF LoopInv
  <1> QED
    BY <1>2, <1>7, <1>8, <1>10, <1>11 DEF LoopInv, WorkOK

(* An offer is accepted for a lane that was agreed on. *)
LEMMA OfferStep ==
    ASSUME WireInv, LoopInv, NEW s \in Sides, TakeOffer(s)
    PROVE  WireInv' /\ LoopInv'
  <1>1. queue[s] # <<>> /\ queue' = [queue EXCEPT ![s] = Tail(@)] /\ UNCHANGED wire
        /\ Head(queue[s]).type = "parallel_offer" /\ job[s] = Idle
    BY DEF TakeOffer, Take
  <1>2. WireInv' /\ Head(queue[s]).lane \in LaneIDs
    BY <1>1, WireTake, ControlFields
  <1>3. UNCHANGED <<lane, closed, pending, negotiated>>
    BY DEF TakeOffer
  <1>4. WorkOK' /\ \A t \in Sides, k \in LaneIDs : Arriving(job[t], k) => Arriving(job'[t], k)
    <2>1. CASE job' = job
      BY <1>3, <2>1, WorkSame DEF LoopInv
    <2>2. CASE /\ ValidLane(s, Head(queue[s]).lane)
               /\ job' = [job EXCEPT ![s] = [step |-> "create", lane |-> Head(queue[s]).lane]]
      <3> DEFINE l == Head(queue[s]).lane
                 j == [step |-> "create", lane |-> l]
      <3>0. l \in Nat /\ Agreed \in 1 .. MaxConnections /\ MaxConnections \in Nat
        BY <1>2, LaneNumbers, ConnectionsRange
      <3>1. l < negotiated[s] /\ negotiated[s] <= Agreed
            /\ negotiated[s] \in 1 .. MaxConnections
        BY <2>2 DEF ValidLane, LoopInv, WorkOK, JobInv, JobOK
      <3>2. l < Agreed
        BY <3>0, <3>1
      <3>3. j \in JobType /\ AtLane(j)
        BY <1>2, <3>2 DEF JobType, Steps, AtLane
      <3>4. job' = [job EXCEPT ![s] = j]
        BY <2>2
      <3> HIDE DEF j
      <3>5. WorkOK' /\ \A t \in Sides \ {s} : job'[t] = job[t]
        BY <1>3, <3>3, <3>4, WorkStep DEF LoopInv
      <3> QED
        BY <1>1, <3>5 DEF Arriving, Idle
    <2> QED
      BY <2>1, <2>2 DEF TakeOffer
  <1>5. OwnedLanes' /\ PendingOK'
    BY <1>3, <1>4, SameLanes, PendingSame DEF LoopInv
  <1> QED
    BY <1>2, <1>4, <1>5 DEF LoopInv

LEMMA AnswerStep ==
    ASSUME WireInv, LoopInv, NEW s \in Sides, TakeAnswer(s)
    PROVE  WireInv' /\ LoopInv'
  <1>1. queue[s] # <<>> /\ queue' = [queue EXCEPT ![s] = Tail(@)] /\ UNCHANGED wire
        /\ Head(queue[s]).type = "parallel_answer"
    BY DEF TakeAnswer, Take
  <1>2. WireInv' /\ Head(queue[s]).lane \in LaneIDs
    BY <1>1, WireTake, ControlFields
  <1>3. UNCHANGED <<closed, negotiated, job>>
    BY DEF TakeAnswer
  <1>4. WorkOK'
    BY <1>3, WorkSame DEF LoopInv
  <1>5. OwnedLanes' /\ PendingOK'
    <2> DEFINE l == Head(queue[s]).lane
    <2>1. CASE SetRemote(s, l) \/ FlushFails(s, l)
      <3>1. PICK got \in SUBSET pending[s][l] : Flushed(s, l, got)
        BY <2>1 DEF SetRemote, FlushFails
      <3> QED
        BY <1>2, <1>3, <3>1, RemoteSet DEF LoopInv
    <2>2. CASE UNCHANGED <<lane, pending>>
      BY <1>3, <2>2, SameLanes, PendingSame DEF LoopInv
    <2> QED
      BY <2>1, <2>2 DEF TakeAnswer
  <1> QED
    BY <1>2, <1>4, <1>5 DEF LoopInv

LEMMA CandidateStep ==
    ASSUME WireInv, LoopInv, NEW s \in Sides, TakeCandidate(s)
    PROVE  WireInv' /\ LoopInv'
  <1>1. queue[s] # <<>> /\ queue' = [queue EXCEPT ![s] = Tail(@)] /\ UNCHANGED wire
        /\ Head(queue[s]).type = "parallel_ice"
    BY DEF TakeCandidate, Take
  <1>2. /\ WireInv' /\ Head(queue[s]).lane \in LaneIDs
        /\ Head(queue[s]).candidate \in Candidates
    BY <1>1, WireTake, ControlFields
  <1>3. UNCHANGED <<closed, negotiated, job>>
    BY DEF TakeCandidate
  <1>4. WorkOK'
    BY <1>3, WorkSame DEF LoopInv
  <1> DEFINE l == Head(queue[s]).lane
             c == Head(queue[s]).candidate
  <1>5. OwnedLanes' /\ PendingOK'
    <2>1. CASE UNCHANGED <<lane, pending>>
      BY <1>3, <2>1, SameLanes, PendingSame DEF LoopInv
    <2>2. CASE lane' = [lane EXCEPT ![s][l].added = @ \cup {c}] /\ UNCHANGED pending
      <3>1. lane[s][l] \in LaneType /\ {c} \in SUBSET Candidates
        BY <1>2 DEF LoopInv, OwnedLanes, LanesOK
      <3> DEFINE r == [lane[s][l] EXCEPT !.added = @ \cup {c}]
      <3>2. r \in LaneType
        BY <3>1, LaneUpdates
      <3>3. r.pc = lane[s][l].pc /\ r.installed = lane[s][l].installed
        BY <3>1 DEF LaneType
      <3>4. lane' = [lane EXCEPT ![s][l] = r]
        BY <2>2
      <3> HIDE DEF r
      <3>5. OwnedLanes'
        BY <1>2, <1>3, <3>2, <3>3, <3>4, LearntLane DEF LoopInv
      <3> QED
        BY <2>2, <3>5, PendingSame DEF LoopInv
    <2>3. CASE /\ RoomForCandidate(s, l) /\ UNCHANGED lane
               /\ pending' = [pending EXCEPT ![s][l] = @ \cup {c}]
      BY <1>2, <1>3, <2>3, SameLanes, PendingMore DEF LoopInv
    <2> QED
      BY <2>1, <2>2, <2>3 DEF TakeCandidate
  <1> QED
    BY <1>2, <1>4, <1>5 DEF LoopInv

LEMMA CreateStep ==
    ASSUME LoopInv, NEW s \in Sides, CreatePC(s)
    PROVE  LoopInv'
  <1>1. job[s].step = "create" /\ UNCHANGED <<closed, negotiated>>
    BY DEF CreatePC, At
  <1>2. job[s].lane \in LaneIDs /\ job[s].lane < Agreed
    BY <1>1 DEF LoopInv, WorkOK, JobInv, AtLane, Idle
  <1>3. CASE Failed(s)
    BY <1>1, <1>3, FailedStep DEF Steps
  <1>4. CASE /\ job' = [job EXCEPT ![s].step = "install"]
             /\ lane' = [lane EXCEPT ![s][job[s].lane].pc = "new"]
             /\ UNCHANGED pending
    <2>1. /\ WorkOK' /\ job'[s].step = "install" /\ job'[s].lane = job[s].lane
          /\ \A t \in Sides \ {s} : job'[t] = job[t]
      BY <1>1, <1>4, WorkOn DEF LoopInv, Steps
    <2> DEFINE l == job[s].lane
               r == [lane[s][l] EXCEPT !.pc = "new"]
    <2>2. lane[s][l] \in LaneType
      BY <1>2 DEF LoopInv, OwnedLanes, LanesOK
    <2>3. r \in LaneType /\ r.installed = lane[s][l].installed
      <3>1. r \in LaneType
        BY <2>2, LaneUpdates
      <3>2. r.installed = lane[s][l].installed
        BY <2>2 DEF LaneType
      <3> QED
        BY <3>1, <3>2
    <2>4. lane' = [lane EXCEPT ![s][l] = r]
      BY <1>4
    <2>5. closed[s] => ~r.installed
      BY <1>2, <2>3 DEF LoopInv, OwnedLanes, OwnerInv
    <2>6. \A k \in LaneIDs : ~Arriving(job[s], k)
      BY <1>1, NoneArrives
    <2>7. Arriving(job'[s], l)
      BY <2>1 DEF Arriving
    <2> HIDE DEF r
    <2>8. OwnedLanes'
      BY <1>1, <1>2, <2>1, <2>3, <2>4, <2>5, <2>6, <2>7, OneLane DEF LoopInv
    <2> QED
      BY <1>4, <2>1, <2>8, PendingSame DEF LoopInv
  <1> QED
    BY <1>3, <1>4 DEF CreatePC

(* installLane takes the connection over or closes it. *)
LEMMA InstallStep ==
    ASSUME LoopInv, NEW s \in Sides, InstallLane(s)
    PROVE  LoopInv'
  <1>1. job[s].step = "install" /\ UNCHANGED <<closed, negotiated, pending>>
    BY DEF InstallLane, At
  <1> DEFINE l == job[s].lane
  <1>2. l \in LaneIDs /\ l < Agreed
    BY <1>1 DEF LoopInv, WorkOK, JobInv, AtLane, Idle
  <1>3. lane[s][l] \in LaneType
    BY <1>2 DEF LoopInv, OwnedLanes, LanesOK
  <1>4. \A k \in LaneIDs \ {l} : ~Arriving(job[s], k)
    BY DEF Arriving
  <1>5. CASE CanInstall(s, l)
    <2>1. PICK x \in {"local", "remote"} : job' = [job EXCEPT ![s].step = x]
      BY <1>5 DEF InstallLane
    <2>2. WorkOK' /\ \A t \in Sides \ {s} : job'[t] = job[t]
      BY <1>1, <2>1, WorkOn DEF LoopInv, Steps
    <2> DEFINE r == [lane[s][l] EXCEPT !.installed = TRUE]
    <2>3. r \in LaneType /\ r.installed
      <3>1. r \in LaneType
        BY <1>3, LaneUpdates
      <3>2. r.installed
        BY <1>3 DEF LaneType
      <3> QED
        BY <3>1, <3>2
    <2>4. lane' = [lane EXCEPT ![s][l] = r]
      BY <1>5 DEF InstallLane
    <2>5. ~closed[s]
      BY <1>5 DEF CanInstall
    <2> HIDE DEF r
    <2>6. OwnedLanes'
      BY <1>1, <1>2, <1>4, <2>2, <2>3, <2>4, <2>5, OneLane DEF LoopInv
    <2> QED
      BY <1>1, <2>2, <2>6, PendingSame DEF LoopInv
  <1>6. CASE ~CanInstall(s, l)
    <2>1. Done(s)
      BY <1>6 DEF InstallLane
    <2>2. WorkOK' /\ \A t \in Sides \ {s} : job'[t] = job[t]
      BY <1>1, <2>1, WorkDone DEF LoopInv
    <2> DEFINE r == [lane[s][l] EXCEPT !.pc = "closed"]
    <2>3. r \in LaneType /\ r.pc = "closed" /\ r.installed = lane[s][l].installed
      <3>1. r \in LaneType
        BY <1>3, LaneUpdates
      <3>2. r.pc = "closed" /\ r.installed = lane[s][l].installed
        BY <1>3 DEF LaneType
      <3> QED
        BY <3>1, <3>2
    <2>4. lane' = [lane EXCEPT ![s][l] = r]
      BY <1>6 DEF InstallLane
    <2>5. closed[s] => ~r.installed
      BY <1>2, <2>3 DEF LoopInv, OwnedLanes, OwnerInv
    <2> HIDE DEF r
    <2>6. OwnedLanes'
      BY <1>1, <1>2, <1>4, <2>2, <2>3, <2>4, <2>5, OneLane DEF LoopInv
    <2> QED
      BY <1>1, <2>2, <2>6, PendingSame DEF LoopInv
  <1> QED
    BY <1>5, <1>6

LEMMA RemoteStep ==
    ASSUME LoopInv, NEW s \in Sides, SetRemoteDescription(s)
    PROVE  LoopInv'
  <1>1. job[s].step = "remote" /\ UNCHANGED <<closed, negotiated>>
    BY DEF SetRemoteDescription, At
  <1>2. job[s].lane \in LaneIDs
    BY <1>1 DEF LoopInv, WorkOK, JobInv, AtLane, Idle
  <1>3. CASE Failed(s)
    BY <1>1, <1>3, FailedStep DEF Steps
  <1>4. CASE \/ /\ SetRemote(s, job[s].lane)
                /\ job' = [job EXCEPT ![s].step = "local"]
             \/ FlushFails(s, job[s].lane) /\ Done(s)
    <2>1. WorkOK' /\ \A t \in Sides \ {s} : job'[t] = job[t]
      BY <1>1, <1>4, WorkOn, WorkDone DEF LoopInv, Steps
    <2>2. \A k \in LaneIDs : ~Arriving(job[s], k)
      BY <1>1, NoneArrives
    <2>3. PICK got \in SUBSET pending[s][job[s].lane] : Flushed(s, job[s].lane, got)
      BY <1>4 DEF SetRemote, FlushFails
    <2> QED
      BY <1>1, <1>2, <2>1, <2>2, <2>3, RemoteSet DEF LoopInv
  <1> QED
    BY <1>3, <1>4 DEF SetRemoteDescription

LEMMA LocalStep ==
    ASSUME LoopInv, NEW s \in Sides, SetLocalDescription(s)
    PROVE  LoopInv'
  <1>1. job[s].step = "local" /\ UNCHANGED <<closed, negotiated>>
    BY DEF SetLocalDescription, At
  <1> DEFINE l == job[s].lane
  <1>2. l \in LaneIDs
    BY <1>1 DEF LoopInv, WorkOK, JobInv, AtLane, Idle
  <1>3. CASE Failed(s)
    BY <1>1, <1>3, FailedStep DEF Steps
  <1>4. CASE /\ job' = [job EXCEPT ![s].step = "send"] /\ UNCHANGED pending
             /\ lane' = [lane EXCEPT ![s][l].local = TRUE,
                                     ![s][l].channel = (s = "initiator")]
    <2>1. WorkOK' /\ \A t \in Sides \ {s} : job'[t] = job[t]
      BY <1>1, <1>4, WorkOn DEF LoopInv, Steps
    <2>2. \A k \in LaneIDs : ~Arriving(job[s], k)
      BY <1>1, NoneArrives
    <2>3. lane \in [Sides -> [LaneIDs -> LaneType]] /\ lane[s][l] \in LaneType
          /\ (s = "initiator") \in BOOLEAN
      BY <1>2 DEF LoopInv, OwnedLanes, LanesOK
    <2> DEFINE r == [lane[s][l] EXCEPT !.local = TRUE, !.channel = (s = "initiator")]
    <2>4. r \in LaneType
      BY <2>3, LaneUpdates
    <2>5. r.pc = lane[s][l].pc /\ r.installed = lane[s][l].installed
      BY <2>3 DEF LaneType
    <2>6. lane' = [lane EXCEPT ![s][l] = r]
      BY <1>2, <1>4, <2>3
    <2> HIDE DEF r
    <2>7. OwnedLanes'
      BY <1>1, <1>2, <2>1, <2>2, <2>4, <2>5, <2>6, LearntLane DEF LoopInv
    <2> QED
      BY <1>4, <2>1, <2>7, PendingSame DEF LoopInv
  <1> QED
    BY <1>3, <1>4 DEF SetLocalDescription

LEMMA SendStep ==
    ASSUME WireInv, LoopInv, NEW s \in Sides, SendDescription(s)
    PROVE  WireInv' /\ LoopInv'
  <1>1. job[s].step = "send" /\ UNCHANGED <<closed, negotiated, queue>>
    BY DEF SendDescription, At
  <1>2. job[s].lane \in LaneIDs
    BY <1>1 DEF LoopInv, WorkOK, JobInv, AtLane, Idle
  <1>3. CASE up
    <2> DEFINE type == IF s = "initiator" THEN "parallel_offer" ELSE "parallel_answer"
               m == [type |-> type, lane |-> job[s].lane]
    <2>1. m \in Control /\ m.type # "parallel_capability"
      BY <1>2, ControlTypes
    <2>2. Announces(Other(s), m)
      BY <2>1 DEF Announces
    <2>3. wire' = [wire EXCEPT ![Other(s)] = Append(@, m)] /\ Done(s)
          /\ UNCHANGED <<lane, pending>>
      BY <1>3 DEF SendDescription, SendTo
    <2> HIDE DEF m
    <2>4. WireInv'
      BY <1>1, <2>1, <2>2, <2>3, WireSend, TwoSides
    <2>5. WorkOK' /\ \A t \in Sides \ {s} : job'[t] = job[t]
      BY <1>1, <2>3, WorkDone DEF LoopInv
    <2>6. \A t \in Sides, k \in LaneIDs : Arriving(job[t], k) => Arriving(job'[t], k)
      BY <1>1, <2>5 DEF Arriving
    <2>7. OwnedLanes' /\ PendingOK'
      BY <1>1, <2>3, <2>6, SameLanes, PendingSame DEF LoopInv
    <2> QED
      BY <2>4, <2>5, <2>7 DEF LoopInv
  <1>4. CASE ~up
    <2>1. Failed(s) /\ UNCHANGED wire
      BY <1>4 DEF SendDescription
    <2> QED
      BY <1>1, <2>1, FailedStep, WireSame DEF Steps
  <1> QED
    BY <1>3, <1>4

-----------------------------------------------------------------------------
(* Callbacks and shutdown *)

LEMMA GatherStep ==
    ASSUME WireInv, LoopInv, NEW s \in Sides, NEW l \in LaneIDs, OnICECandidate(s, l)
    PROVE  WireInv' /\ LoopInv'
  <1>1. UNCHANGED <<closed, negotiated, queue, job, pending>>
    BY DEF OnICECandidate
  <1>2. PICK c \in Candidates :
           /\ lane' = [lane EXCEPT ![s][l].gathered = @ \cup {c}]
           /\ SendTo(Other(s), [type |-> "parallel_ice", lane |-> l, candidate |-> c])
    BY DEF OnICECandidate
  <1> DEFINE m == [type |-> "parallel_ice", lane |-> l, candidate |-> c]
             r == [lane[s][l] EXCEPT !.gathered = @ \cup {c}]
  <1>3. m \in Control /\ Announces(Other(s), m)
    BY ControlTypes DEF Announces
  <1>4. lane[s][l] \in LaneType /\ {c} \in SUBSET Candidates
    BY DEF LoopInv, OwnedLanes, LanesOK
  <1>5. r \in LaneType
    BY <1>4, LaneUpdates
  <1>6. r.pc = lane[s][l].pc /\ r.installed = lane[s][l].installed
    BY <1>4 DEF LaneType
  <1>7. lane' = [lane EXCEPT ![s][l] = r] /\ wire' = [wire EXCEPT ![Other(s)] = Append(@, m)]
    BY <1>2 DEF SendTo
  <1> HIDE DEF m, r
  <1>8. WireInv'
    BY <1>1, <1>3, <1>7, WireSend, TwoSides
  <1>9. OwnedLanes'
    BY <1>1, <1>5, <1>6, <1>7, LearntLane DEF LoopInv
  <1> QED
    BY <1>1, <1>8, <1>9, WorkSame, PendingSame DEF LoopInv

(* attachLaneChannel and OnOpen. *)
LEMMA ChannelStep ==
    ASSUME LoopInv, NEW s \in Sides, NEW l \in LaneIDs,
           OnDataChannel(l) \/ OnOpen(s, l)
    PROVE  LoopInv'
  <1>1. UNCHANGED <<closed, negotiated, job, pending>>
    BY DEF OnDataChannel, OnOpen
  <1>2. PICK t \in Sides : \/ lane' = [lane EXCEPT ![t][l].channel = TRUE]
                           \/ lane' = [lane EXCEPT ![t][l].open = TRUE]
    BY TwoSides DEF OnDataChannel, OnOpen
  <1>3. lane[t][l] \in LaneType
    BY DEF LoopInv, OwnedLanes, LanesOK
  <1>4. PICK r : /\ lane' = [lane EXCEPT ![t][l] = r]
                 /\ r \in {[lane[t][l] EXCEPT !.channel = TRUE],
                           [lane[t][l] EXCEPT !.open = TRUE]}
    BY <1>2
  <1>5. r \in LaneType
    BY <1>3, <1>4, LaneUpdates
  <1>6. r.pc = lane[t][l].pc /\ r.installed = lane[t][l].installed
    BY <1>3, <1>4 DEF LaneType
  <1>7. OwnedLanes'
    BY <1>1, <1>4, <1>5, <1>6, LearntLane DEF LoopInv
  <1> QED
    BY <1>1, <1>7, WorkSame, PendingSame DEF LoopInv

LEMMA RemoveStep ==
    ASSUME LoopInv, NEW s \in Sides, NEW l \in LaneIDs, RemoveLaneIfCurrent(s, l)
    PROVE  LoopInv'
  <1>1. UNCHANGED <<closed, negotiated, job>> /\ lane[s][l].installed
        /\ lane' = [lane EXCEPT ![s][l] = Closed(@)]
        /\ pending' = [pending EXCEPT ![s][l] = {}]
    BY DEF RemoveLaneIfCurrent
  <1> QED
    BY <1>1, ClosedLane, WorkSame, PendingNone DEF LoopInv

(* shutdown closes every lane that is installed. *)
LEMMA ShutdownStep ==
    ASSUME LoopInv, NEW s \in Sides, FlagsOK, Shutdown(s)
    PROVE  LoopInv'
  <1>1. UNCHANGED <<job, negotiated, pending>> /\ lane' = ShutdownLanes(s)
        /\ closed' = [closed EXCEPT ![s] = TRUE]
    BY DEF Shutdown
  <1>2. lane \in [Sides -> [LaneIDs -> LaneType]] /\ closed \in [Sides -> BOOLEAN]
    BY DEF LoopInv, OwnedLanes, LanesOK, FlagsOK
  <1>3. /\ \A l \in LaneIDs : lane'[s][l] = IF lane[s][l].installed
                                            THEN Closed(lane[s][l]) ELSE lane[s][l]
        /\ \A t \in Sides \ {s} : lane'[t] = lane[t] /\ closed'[t] = closed[t]
    BY <1>1, <1>2 DEF ShutdownLanes
  <1>4. \A l \in LaneIDs : /\ lane'[s][l] \in LaneType /\ ~lane'[s][l].installed
                           /\ Existing(lane'[s][l]) => Existing(lane[s][l])
                           /\ lane'[s][l].pc = "new" => lane[s][l].pc = "new"
                                                        /\ ~lane[s][l].installed
    <2> SUFFICES ASSUME NEW l \in LaneIDs
                 PROVE  /\ lane'[s][l] \in LaneType /\ ~lane'[s][l].installed
                        /\ Existing(lane'[s][l]) => Existing(lane[s][l])
                        /\ lane'[s][l].pc = "new" => lane[s][l].pc = "new"
                                                     /\ ~lane[s][l].installed
      OBVIOUS
    <2>1. lane[s][l] \in LaneType
      BY <1>2
    <2>2. CASE lane[s][l].installed
      BY <1>3, <2>1, <2>2, LaneUpdates DEF Existing
    <2>3. CASE ~lane[s][l].installed
      BY <1>3, <2>1, <2>3
    <2> QED
      BY <2>2, <2>3
  <1>5. LanesOK'
    <2>1. lane' = [lane EXCEPT ![s] = lane'[s]] /\ lane'[s] \in [LaneIDs -> LaneType]
      BY <1>1, <1>2, <1>4 DEF ShutdownLanes
    <2> QED
      BY <1>2, <2>1 DEF LanesOK
  <1>6. LaneInv'
    BY <1>3, <1>4 DEF LoopInv, OwnedLanes, LaneInv, Existing
  <1>7. OwnerInv'
    <2>1. \A l \in LaneIDs : /\ lane'[s][l].pc = "new" => Arriving(job[s], l)
                             /\ ~lane'[s][l].installed
      BY <1>4 DEF LoopInv, OwnedLanes, OwnerInv, Live
    <2>2. \A t \in Sides \ {s}, l \in LaneIDs :
             /\ lane'[t][l].pc = "new" => lane'[t][l].installed \/ Arriving(job[t], l)
             /\ closed'[t] => ~lane'[t][l].installed
      BY <1>3 DEF LoopInv, OwnedLanes, OwnerInv, Live
    <2> QED
      BY <1>1, <2>1, <2>2 DEF OwnerInv, Live
  <1> QED
    BY <1>1, <1>5, <1>6, <1>7, WorkSame, PendingSame DEF LoopInv, OwnedLanes

(* Steps that leave all this alone. *)
LEMMA LoopSame ==
    ASSUME LoopInv, UNCHANGED <<lane, closed, job, negotiated, pending>>
    PROVE  LoopInv'
  BY SameLanes, WorkSame, PendingSame DEF LoopInv

-----------------------------------------------------------------------------
(* The flags of the two sides *)

BooleansOK ==
    /\ up \in BOOLEAN /\ overtaken \in BOOLEAN /\ dropped \in BOOLEAN
    /\ started \in [Sides -> BOOLEAN] /\ closed \in [Sides -> BOOLEAN]
    /\ ended \in [Sides -> BOOLEAN]

SendOK ==
    /\ tries \in [Sides -> SUBSET (LaneIDs \cup {0})]
    /\ sent \in [Sides -> {"none", "trying", "ok", "failed"}]

FaultsOK == faults \in 0 .. MaxFaults

LEMMA FlagParts ==
    FlagsOK <=> BooleansOK /\ SendOK /\ FaultsOK /\ linked \subseteq LaneIDs
  BY DEF FlagsOK, BooleansOK, SendOK, FaultsOK

(* What happens outside the code is counted. *)
Counted == UNCHANGED faults \/ \E k \in {"setup", "lane", "loss", "close"} : Fault(k)

LEMMA CountedStep ==
    ASSUME FaultsOK, Counted
    PROVE  FaultsOK'
  BY LanesAssumption DEF FaultsOK, Counted, Fault

(***************************************************************************)
(* Only Send changes tries and sent, only Connect changes linked, and the  *)
(* primary channel does not come back.                                     *)
(***************************************************************************)
Outside == /\ UNCHANGED <<tries, sent, linked>>
           /\ up' = up \/ up' = FALSE
           /\ Counted

LEMMA OutsideStep ==
    ASSUME FlagsOK, SendInv, Outside, BooleansOK'
    PROVE  FlagsOK' /\ SendInv'
  <1>1. BooleansOK /\ SendOK /\ FaultsOK /\ linked \subseteq LaneIDs
    BY FlagParts
  <1>2. SendOK' /\ linked' \subseteq LaneIDs
    BY <1>1 DEF Outside, SendOK
  <1>3. FaultsOK'
    BY <1>1, CountedStep DEF Outside
  <1>4. SendInv'
    BY DEF SendInv, Outside
  <1>5. (BooleansOK /\ SendOK /\ FaultsOK /\ linked \subseteq LaneIDs)'
    BY <1>2, <1>3
  <1> QED
    BY <1>4, <1>5, FlagParts, PTL

(* The actions that set no flag but up, for those of the negotiation loop. *)
LEMMA LoopFlags ==
    ASSUME FlagsOK, SendInv, NEW s \in Sides, NegotiationLoop(s)
    PROVE  FlagsOK' /\ SendInv'
  <1>1. BooleansOK
    BY FlagParts
  <1>2. CASE TakeCapability(s)
    BY <1>1, <1>2, OutsideStep DEF TakeCapability, BooleansOK, Outside, Counted
  <1>3. CASE TakeOffer(s)
    BY <1>1, <1>3, OutsideStep DEF TakeOffer, BooleansOK, Outside, Counted
  <1>4. CASE TakeAnswer(s)
    <2>1. (dropped' = dropped \/ dropped' = TRUE) /\ (UNCHANGED faults \/ Fault("setup"))
      BY <1>4 DEF TakeAnswer, SetRemote, FlushFails
    <2> QED
      BY <1>1, <1>4, <2>1, OutsideStep DEF TakeAnswer, BooleansOK, Outside, Counted
  <1>5. CASE TakeCandidate(s)
    <2>1. dropped' = dropped \/ dropped' \in BOOLEAN
      BY <1>5 DEF TakeCandidate
    <2>2. UNCHANGED faults \/ Fault("setup")
      BY <1>5 DEF TakeCandidate
    <2> QED
      BY <1>1, <1>5, <2>1, <2>2, OutsideStep DEF TakeCandidate, BooleansOK, Outside, Counted
  <1>6. CASE CreatePC(s)
    BY <1>1, <1>6, OutsideStep DEF CreatePC, BooleansOK, Outside, Counted
  <1>7. CASE InstallLane(s)
    BY <1>1, <1>7, OutsideStep DEF InstallLane, BooleansOK, Outside, Counted
  <1>8. CASE SetRemoteDescription(s)
    <2>1. (dropped' = dropped \/ dropped' = TRUE) /\ (UNCHANGED faults \/ Fault("setup"))
      BY <1>8 DEF SetRemoteDescription, SetRemote, FlushFails
    <2> QED
      BY <1>1, <1>8, <2>1, OutsideStep
         DEF SetRemoteDescription, BooleansOK, Outside, Counted
  <1>9. CASE SetLocalDescription(s)
    BY <1>1, <1>9, OutsideStep DEF SetLocalDescription, BooleansOK, Outside, Counted
  <1>10. CASE SendDescription(s)
    <2>1. overtaken' = overtaken \/ overtaken' \in BOOLEAN
      BY <1>10 DEF SendDescription
    <2> QED
      BY <1>1, <1>10, <2>1, OutsideStep DEF SendDescription, BooleansOK, Outside, Counted
  <1>11. CASE EndLoop(s)
    BY <1>1, <1>11, OutsideStep DEF EndLoop, BooleansOK, Outside, Counted
  <1> QED
    BY <1>2, <1>3, <1>4, <1>5, <1>6, <1>7, <1>8, <1>9, <1>10, <1>11 DEF NegotiationLoop

(* Callbacks, and the primary channel. *)
LEMMA CallbackFlags ==
    ASSUME FlagsOK, SendInv, NEW s \in Sides,
           \/ Start(s) \/ HandlePrimaryMessage(s) \/ HandlePrimaryClose(s) \/ Close(s)
           \/ PrimaryLost
           \/ \E l \in LaneIDs : \/ OnICECandidate(s, l) \/ OnOpen(s, l)
                                 \/ RemoveLaneIfCurrent(s, l) \/ OnDataChannel(l)
    PROVE  FlagsOK' /\ SendInv'
  <1>1. BooleansOK
    BY FlagParts
  <1>2. CASE Start(s)
    BY <1>1, <1>2, OutsideStep DEF Start, BooleansOK, Outside, Counted
  <1>3. CASE HandlePrimaryMessage(s)
    BY <1>1, <1>3, OutsideStep DEF HandlePrimaryMessage, BooleansOK, Outside, Counted
  <1>4. CASE HandlePrimaryClose(s)
    BY <1>1, <1>4, OutsideStep DEF HandlePrimaryClose, Shutdown, BooleansOK, Outside, Counted
  <1>5. CASE Close(s)
    BY <1>1, <1>5, OutsideStep
       DEF Close, Shutdown, PrimaryDown, BooleansOK, Outside, Counted
  <1>6. CASE PrimaryLost
    BY <1>1, <1>6, OutsideStep DEF PrimaryLost, PrimaryDown, BooleansOK, Outside, Counted
  <1>7. ASSUME NEW l \in LaneIDs, OnICECandidate(s, l)
        PROVE  FlagsOK' /\ SendInv'
    BY <1>1, <1>7, OutsideStep DEF OnICECandidate, BooleansOK, Outside, Counted
  <1>8. ASSUME NEW l \in LaneIDs, OnOpen(s, l) \/ OnDataChannel(l)
        PROVE  FlagsOK' /\ SendInv'
    BY <1>1, <1>8, OutsideStep DEF OnOpen, OnDataChannel, BooleansOK, Outside, Counted
  <1>9. ASSUME NEW l \in LaneIDs, RemoveLaneIfCurrent(s, l)
        PROVE  FlagsOK' /\ SendInv'
    BY <1>1, <1>9, OutsideStep DEF RemoveLaneIfCurrent, BooleansOK, Outside, Counted
  <1> QED
    BY <1>2, <1>3, <1>4, <1>5, <1>6, <1>7, <1>8, <1>9

LEMMA ConnectFlags ==
    ASSUME FlagsOK, SendInv, NEW l \in LaneIDs, Connect(l)
    PROVE  FlagsOK' /\ SendInv'
  <1>1. /\ linked' = linked \cup {l}
        /\ UNCHANGED <<up, started, closed, ended, tries, sent, overtaken, dropped, faults>>
    BY DEF Connect
  <1>2. FlagsOK'
    BY <1>1 DEF FlagsOK
  <1>3. SendInv'
    BY <1>1 DEF SendInv
  <1> QED
    BY <1>2, <1>3

(***************************************************************************)
(* Send looks for the primary channel when it begins, and gives it up only *)
(* when the channel has refused the payload.                               *)
(***************************************************************************)
LEMMA SendFlags ==
    ASSUME FlagsOK, SendInv, NEW s \in Sides, SendPayload(s) \/ TrySend(s)
    PROVE  FlagsOK' /\ SendInv'
  <1>1. BooleansOK /\ SendOK /\ FaultsOK /\ linked \subseteq LaneIDs
    BY FlagParts
  <1>2. UNCHANGED <<up, started, closed, ended, overtaken, dropped, linked, faults>>
    BY DEF SendPayload, TrySend
  <1>3. SendOK' /\ SendInv'
    <2>1. CASE SendPayload(s)
      <3>1. /\ tries' = [tries EXCEPT ![s] = BinaryCandidates(s)]
            /\ sent' = [sent EXCEPT ![s] = "trying"]
        BY <2>1 DEF SendPayload
      <3>2. BinaryCandidates(s) \in SUBSET (LaneIDs \cup {0}) /\ (up => 0 \in BinaryCandidates(s))
        BY DEF BinaryCandidates, OpenLanes
      <3>3. SendOK'
        BY <1>1, <3>1, <3>2 DEF SendOK
      <3>4. SendInv'
        BY <1>1, <1>2, <3>1, <3>2 DEF SendOK, SendInv
      <3> QED
        BY <3>3, <3>4
    <2>2. CASE TrySend(s) /\ tries[s] = {} /\ sent' = [sent EXCEPT ![s] = "failed"]
                          /\ UNCHANGED tries
      <3>1. sent[s] = "trying"
        BY <2>2 DEF TrySend
      <3>2. ~up
        BY <2>2, <3>1 DEF SendInv
      <3> QED
        BY <1>1, <1>2, <2>2, <3>2 DEF SendOK, SendInv
    <2>3. ASSUME NEW k \in tries[s], sent[s] = "trying", Accepts(s, k),
                 sent' = [sent EXCEPT ![s] = "ok"], tries' = [tries EXCEPT ![s] = {}]
          PROVE  SendOK' /\ SendInv'
      BY <1>1, <1>2, <2>3 DEF SendOK, SendInv
    <2>4. ASSUME NEW k \in tries[s], sent[s] = "trying", ~Accepts(s, k), UNCHANGED sent,
                 tries' = [tries EXCEPT ![s] = @ \ {k}]
          PROVE  SendOK' /\ SendInv'
      <3>1. up => k # 0
        BY <2>4 DEF Accepts
      <3> QED
        BY <1>1, <1>2, <2>4, <3>1 DEF SendOK, SendInv
    <2> QED
      BY <2>1, <2>2, <2>3, <2>4 DEF TrySend
  <1>4. FlagsOK'
    <2>1. BooleansOK' /\ FaultsOK' /\ linked' \subseteq LaneIDs
      BY <1>1, <1>2 DEF BooleansOK, FaultsOK
    <2>2. (BooleansOK /\ SendOK /\ FaultsOK /\ linked \subseteq LaneIDs)'
      BY <1>3, <2>1
    <2> QED
      BY <2>2, FlagParts, PTL
  <1> QED
    BY <1>3, <1>4

-----------------------------------------------------------------------------
(* All together *)

LaneSafety == WireInv /\ LoopInv /\ FlagsOK /\ SendInv

LEMMA LanesInit == Init => LaneSafety
  <1> SUFFICES ASSUME Init PROVE LaneSafety
    OBVIOUS
  <1>1. WireInv
    BY LanesAssumption DEF Init, WireInv, WireOK, AnnounceInv
  <1>2. NoLane \in LaneType /\ ~Existing(NoLane) /\ NoLane.pc = "none" /\ ~NoLane.installed
    BY DEF NoLane, LaneType, Existing
  <1>3. OwnedLanes
    BY <1>2 DEF Init, OwnedLanes, LanesOK, LaneInv, OwnerInv, Live
  <1>4. WorkOK
    <2>1. Agreed >= 1 /\ 1 \in 1 .. MaxConnections /\ Agreed \in Int
      BY ConnectionsRange, LaneNumbers
    <2>2. Idle \in JobType
      BY DEF Idle, JobType, Steps
    <2> QED
      BY <2>1, <2>2 DEF Init, WorkOK, JobOK, JobInv, AtLane
  <1>5. PendingOK
    <2>1. Cardinality({}) = 0
      BY FS_EmptySet
    <2> QED
      BY <2>1, LanesAssumption DEF Init, PendingOK
  <1>6. FlagsOK /\ SendInv
    <2>1. BooleansOK
      BY DEF Init, BooleansOK
    <2>2. SendOK /\ linked \subseteq LaneIDs
      BY DEF Init, SendOK
    <2>3. FaultsOK
      BY LanesAssumption DEF Init, FaultsOK
    <2>4. SendInv
      BY DEF Init, SendInv
    <2> QED
      BY <2>1, <2>2, <2>3, <2>4, FlagParts
  <1> QED
    BY <1>1, <1>3, <1>4, <1>5, <1>6 DEF LaneSafety, LoopInv

(* The announcement of one side is what the other side learns. *)
LEMMA StartStep ==
    ASSUME WireInv, LoopInv, NEW s \in Sides, Start(s)
    PROVE  WireInv' /\ LoopInv'
  <1>1. UNCHANGED <<lane, closed, job, negotiated, pending, queue>>
    BY DEF Start
  <1>2. LoopInv'
    BY <1>1, LoopSame
  <1> DEFINE m == [type |-> "parallel_capability", connections |-> Connections(s)]
  <1>3. m \in Control
    BY ConnectionsRange, ControlTypes
  <1>4. Announces(Other(s), m) /\ Other(s) \in Sides
    BY DEF Announces, Other, Sides
  <1>5. CASE wire' = [wire EXCEPT ![Other(s)] = Append(@, m)]
    <2> HIDE DEF m
    <2> QED
      BY <1>1, <1>2, <1>3, <1>4, <1>5, WireSend
  <1>6. CASE UNCHANGED wire
    BY <1>1, <1>2, <1>6, WireSame
  <1> QED
    BY <1>5, <1>6 DEF Start, SendTo

LEMMA NegotiationStep ==
    ASSUME WireInv, LoopInv, NEW s \in Sides, NegotiationLoop(s)
    PROVE  WireInv' /\ LoopInv'
  <1>1. CASE TakeCapability(s) \/ TakeOffer(s) \/ TakeAnswer(s) \/ TakeCandidate(s)
    BY <1>1, CapabilityStep, OfferStep, AnswerStep, CandidateStep
  <1>2. CASE CreatePC(s)
    BY <1>2, CreateStep, WireSame DEF CreatePC
  <1>3. CASE InstallLane(s)
    BY <1>3, InstallStep, WireSame DEF InstallLane
  <1>4. CASE SetRemoteDescription(s)
    BY <1>4, RemoteStep, WireSame DEF SetRemoteDescription
  <1>5. CASE SetLocalDescription(s)
    BY <1>5, LocalStep, WireSame DEF SetLocalDescription
  <1>6. CASE SendDescription(s)
    BY <1>6, SendStep
  <1>7. CASE EndLoop(s)
    BY <1>7, LoopSame, WireSame DEF EndLoop
  <1> QED
    BY <1>1, <1>2, <1>3, <1>4, <1>5, <1>6, <1>7 DEF NegotiationLoop

LEMMA LanesNext ==
    ASSUME LaneSafety, [Next]_vars
    PROVE  LaneSafety'
  <1>1. WireInv /\ LoopInv /\ FlagsOK /\ SendInv
    BY DEF LaneSafety
  <1>2. ASSUME NEW s \in Sides, Start(s)
        PROVE  LaneSafety'
    BY <1>1, <1>2, StartStep, CallbackFlags DEF LaneSafety
  <1>3. ASSUME NEW s \in Sides, HandlePrimaryMessage(s)
        PROVE  LaneSafety'
    <2>1. UNCHANGED <<lane, closed, job, negotiated, pending>>
      BY <1>3 DEF HandlePrimaryMessage
    <2> QED
      BY <1>1, <1>3, <2>1, WireReceive, LoopSame, CallbackFlags DEF LaneSafety
  <1>4. ASSUME NEW s \in Sides, HandlePrimaryClose(s) \/ Close(s)
        PROVE  LaneSafety'
    <2>1. Shutdown(s) /\ UNCHANGED queue /\ (PrimaryDown \/ UNCHANGED wire)
      BY <1>4 DEF HandlePrimaryClose, Close, Shutdown
    <2>2. WireInv'
      BY <1>1, <2>1, WireLost, WireSame
    <2> QED
      BY <1>1, <1>4, <2>1, <2>2, ShutdownStep, CallbackFlags DEF LaneSafety
  <1>5. ASSUME NEW s \in Sides, NegotiationLoop(s)
        PROVE  LaneSafety'
    BY <1>1, <1>5, NegotiationStep, LoopFlags DEF LaneSafety
  <1>6. ASSUME NEW s \in Sides, NEW l \in LaneIDs, OnICECandidate(s, l)
        PROVE  LaneSafety'
    BY <1>1, <1>6, GatherStep, CallbackFlags DEF LaneSafety
  <1>7. ASSUME NEW s \in Sides, NEW l \in LaneIDs, OnOpen(s, l) \/ OnDataChannel(l)
        PROVE  LaneSafety'
    <2>1. UNCHANGED <<wire, queue>>
      BY <1>7 DEF OnOpen, OnDataChannel
    <2> QED
      BY <1>1, <1>7, <2>1, WireSame, ChannelStep, CallbackFlags DEF LaneSafety
  <1>8. ASSUME NEW s \in Sides, NEW l \in LaneIDs, RemoveLaneIfCurrent(s, l)
        PROVE  LaneSafety'
    <2>1. UNCHANGED <<wire, queue>>
      BY <1>8 DEF RemoveLaneIfCurrent
    <2> QED
      BY <1>1, <1>8, <2>1, WireSame, RemoveStep, CallbackFlags DEF LaneSafety
  <1>9. ASSUME NEW s \in Sides, SendPayload(s) \/ TrySend(s)
        PROVE  LaneSafety'
    <2>1. UNCHANGED <<wire, queue, lane, closed, job, negotiated, pending>>
      BY <1>9 DEF SendPayload, TrySend
    <2> QED
      BY <1>1, <1>9, <2>1, WireSame, LoopSame, SendFlags DEF LaneSafety
  <1>10. ASSUME NEW l \in LaneIDs, Connect(l)
         PROVE  LaneSafety'
    <2>1. UNCHANGED <<wire, queue, lane, closed, job, negotiated, pending>>
      BY <1>10 DEF Connect
    <2> QED
      BY <1>1, <1>10, <2>1, WireSame, LoopSame, ConnectFlags DEF LaneSafety
  <1>11. CASE PrimaryLost
    <2>1. UNCHANGED <<queue, lane, closed, job, negotiated, pending>> /\ PrimaryDown
      BY <1>11 DEF PrimaryLost
    <2>2. "initiator" \in Sides
      BY TwoSides
    <2> QED
      BY <1>1, <1>11, <2>1, <2>2, WireLost, LoopSame, CallbackFlags DEF LaneSafety
  <1>12. CASE UNCHANGED vars
    <2>1. WireInv' /\ LoopInv'
      BY <1>1, <1>12, WireSame, LoopSame DEF vars
    <2>2. FlagsOK' /\ SendInv'
      BY <1>1, <1>12 DEF vars, FlagsOK, SendInv
    <2> QED
      BY <2>1, <2>2 DEF LaneSafety
  <1>13. "responder" \in Sides
    BY TwoSides
  <1> QED
    BY <1>2, <1>3, <1>4, <1>5, <1>6, <1>7, <1>8, <1>9, <1>10, <1>11, <1>12, <1>13
       DEF Next, Callbacks

LEMMA LanesInvariant == Spec => []LaneSafety
  BY LanesInit, LanesNext, PTL DEF Spec

(***************************************************************************)
(* The negotiation queue, the candidates set aside and the set of lanes    *)
(* stay within the limits of parallel_channel.go, however many connections *)
(* the peers ask for.                                                      *)
(***************************************************************************)
THEOREM LaneTypes == Spec => []TypeOK
  <1>1. LaneSafety => TypeOK
    BY TypeParts DEF LaneSafety, WireInv, LoopInv, OwnedLanes, WorkOK
  <1> QED
    BY <1>1, LanesInvariant, PTL

(***************************************************************************)
(* handleParallelControl never creates a lane that one of the peers has no *)
(* room for.                                                               *)
(***************************************************************************)
THEOREM LanesAreAgreed == Spec => []LanesAgreed
  <1>1. LaneSafety => LanesAgreed
    <2> SUFFICES ASSUME LaneSafety, NEW s \in Sides, NEW l \in LaneIDs,
                        lane[s][l].pc # "none"
                 PROVE  l < Connections("initiator") /\ l < Connections("responder")
      BY DEF LanesAgreed
    <2>1. l < Agreed
      BY DEF LaneSafety, LoopInv, OwnedLanes, LaneInv, Existing
    <2>2. /\ Connections("initiator") \in Int /\ Connections("responder") \in Int
          /\ Agreed <= Connections("initiator") /\ Agreed <= Connections("responder")
          /\ Agreed \in Int /\ l \in Int
      BY ConnectionsRange, TwoSides, LaneNumbers
    <2> QED
      BY <2>1, <2>2
  <1> QED
    BY <1>1, LanesInvariant, PTL

(***************************************************************************)
(* shutdown and installLane between them leave no peer connection behind,  *)
(* whenever negotiationLoop is interrupted.                                *)
(***************************************************************************)
THEOREM NoConnectionLeaks == Spec => []NoConnectionLeak
  <1>1. LaneSafety => NoConnectionLeak
    BY DEF LaneSafety, LoopInv, OwnedLanes, OwnerInv, NoConnectionLeak, Arriving, Idle
  <1> QED
    BY <1>1, LanesInvariant, PTL

(***************************************************************************)
(* Send falls back from lanes that have failed since it looked for them:   *)
(* it reports an error only if the primary channel is down.                *)
(***************************************************************************)
THEOREM PrimaryIsLastResort == Spec => []SendFallsBack
  <1>1. LaneSafety => SendFallsBack
    BY DEF LaneSafety, SendInv, SendFallsBack
  <1> QED
    BY <1>1, LanesInvariant, PTL

-----------------------------------------------------------------------------
(* No candidate is lost: what is on its way to a side *)

(* The controls on their way to side t, the oldest first. *)
Mail(t) == queue[t] \o wire[t]

Within(q) == {q[i] : i \in 1 .. Len(q)}

IsCapability(m) == m.type = "parallel_capability"
IsOffer(m, l) == m.type = "parallel_offer" /\ m.lane = l
IsCandidate(m, l, c) == m.type = "parallel_ice" /\ m.lane = l /\ m.candidate = c

NoCapability(q) == \A m \in Within(q) : ~IsCapability(m)
CapabilityFirst(q) == q # <<>> /\ IsCapability(Head(q)) /\ NoCapability(Tail(q))
OffersOnce(q) ==
    \A l \in LaneIDs : \A i, j \in 1 .. Len(q) :
        IsOffer(q[i], l) /\ IsOffer(q[j], l) => i = j

(* A control leaves the front. *)
LEMMA FrontGone ==
    ASSUME NEW q \in Seq(Control), q # <<>>
    PROVE  /\ Within(q) = Within(Tail(q)) \cup {Head(q)}
           /\ NoCapability(q) => NoCapability(Tail(q))
           /\ OffersOnce(q) => OffersOnce(Tail(q))
           /\ \A l \in LaneIDs : OffersOnce(q) /\ IsOffer(Head(q), l) =>
                 \A m \in Within(Tail(q)) : ~IsOffer(m, l)
  <1>1. /\ Len(Tail(q)) = Len(q) - 1 /\ Head(q) = q[1] /\ 1 \in 1 .. Len(q)
        /\ \A i \in 1 .. Len(Tail(q)) : i + 1 \in 1 .. Len(q) /\ Tail(q)[i] = q[i + 1]
        /\ Len(q) \in Nat
    BY TailOf
  <1>2. Within(q) = Within(Tail(q)) \cup {Head(q)}
    <2>1. ASSUME NEW i \in 1 .. Len(q) PROVE q[i] \in Within(Tail(q)) \cup {Head(q)}
      <3>1. CASE i = 1
        BY <1>1, <3>1
      <3>2. CASE i # 1
        <4>1. i - 1 \in 1 .. Len(Tail(q)) /\ Tail(q)[i - 1] = q[(i - 1) + 1] /\ (i - 1) + 1 = i
          BY <1>1, <3>2
        <4> QED
          BY <4>1 DEF Within
      <3> QED
        BY <3>1, <3>2
    <2>2. \A i \in 1 .. Len(Tail(q)) : Tail(q)[i] \in Within(q)
      BY <1>1 DEF Within
    <2>3. Head(q) \in Within(q)
      BY <1>1 DEF Within
    <2> QED
      BY <2>1, <2>2, <2>3 DEF Within
  <1>3. OffersOnce(q) => OffersOnce(Tail(q))
    <2> SUFFICES ASSUME OffersOnce(q), NEW l \in LaneIDs,
                        NEW i \in 1 .. Len(Tail(q)), NEW j \in 1 .. Len(Tail(q)),
                        IsOffer(Tail(q)[i], l), IsOffer(Tail(q)[j], l)
                 PROVE  i = j
      BY DEF OffersOnce
    <2>1. /\ i + 1 \in 1 .. Len(q) /\ Tail(q)[i] = q[i + 1]
          /\ j + 1 \in 1 .. Len(q) /\ Tail(q)[j] = q[j + 1]
      BY <1>1
    <2>2. i + 1 = j + 1
      BY <2>1 DEF OffersOnce
    <2> QED
      BY <2>2
  <1>4. ASSUME NEW l \in LaneIDs, OffersOnce(q), IsOffer(Head(q), l), NEW m \in Within(Tail(q))
        PROVE  ~IsOffer(m, l)
    <2>1. PICK i \in 1 .. Len(Tail(q)) : m = Tail(q)[i]
      BY DEF Within
    <2>2. i + 1 \in 1 .. Len(q) /\ m = q[i + 1] /\ i + 1 # 1
      BY <1>1, <2>1
    <2> QED
      BY <1>1, <1>4, <2>2 DEF OffersOnce
  <1> QED
    BY <1>2, <1>3, <1>4 DEF NoCapability

(* A control is added at the end. *)
LEMMA EndAdded ==
    ASSUME NEW q \in Seq(Control), NEW m \in Control
    PROVE  /\ Within(Append(q, m)) = Within(q) \cup {m}
           /\ ~IsCapability(m) =>
                 /\ NoCapability(q) => NoCapability(Append(q, m))
                 /\ CapabilityFirst(q) => CapabilityFirst(Append(q, m))
           /\ (\A l \in LaneIDs : IsOffer(m, l) => \A x \in Within(q) : ~IsOffer(x, l)) =>
                 (OffersOnce(q) => OffersOnce(Append(q, m)))
  <1> DEFINE a == Append(q, m)
  <1>1. /\ Len(a) = Len(q) + 1 /\ a[Len(q) + 1] = m /\ Len(q) \in Nat
        /\ \A i \in 1 .. Len(q) : a[i] = q[i]
        /\ a \in Seq(Control) /\ a # <<>>
    OBVIOUS
  <1>2. q # <<>> => Tail(a) = Append(Tail(q), m) /\ Head(a) = Head(q) /\ Tail(q) \in Seq(Control)
    OBVIOUS
  <1>3. ASSUME NEW p \in Seq(Control) PROVE Within(Append(p, m)) = Within(p) \cup {m}
    <2>1. /\ Len(Append(p, m)) = Len(p) + 1 /\ Append(p, m)[Len(p) + 1] = m /\ Len(p) \in Nat
          /\ \A i \in 1 .. Len(p) : Append(p, m)[i] = p[i]
      OBVIOUS
    <2> QED
      BY <2>1 DEF Within
  <1>4. ASSUME ~IsCapability(m), NEW p \in Seq(Control), NoCapability(p)
        PROVE  NoCapability(Append(p, m))
    BY <1>3, <1>4 DEF NoCapability
  <1>5. ~IsCapability(m) /\ CapabilityFirst(q) => CapabilityFirst(a)
    BY <1>1, <1>2, <1>4 DEF CapabilityFirst
  <1>6. ASSUME \A l \in LaneIDs : IsOffer(m, l) => \A x \in Within(q) : ~IsOffer(x, l),
               OffersOnce(q)
        PROVE  OffersOnce(a)
    <2> SUFFICES ASSUME NEW l \in LaneIDs, NEW i \in 1 .. Len(a), NEW j \in 1 .. Len(a),
                        IsOffer(a[i], l), IsOffer(a[j], l)
                 PROVE  i = j
      BY DEF OffersOnce
    <2>1. \A k \in 1 .. Len(a) : k = Len(q) + 1 \/ (k \in 1 .. Len(q) /\ a[k] = q[k])
      BY <1>1
    <2>2. \A k \in 1 .. Len(q) : q[k] \in Within(q)
      BY DEF Within
    <2> HIDE DEF a
    <2>3. CASE i \in 1 .. Len(q) /\ j \in 1 .. Len(q)
      BY <1>6, <2>1, <2>3, <1>1 DEF OffersOnce
    <2>4. CASE i = Len(q) + 1 /\ j \in 1 .. Len(q)
      BY <1>1, <1>6, <2>2, <2>4
    <2>5. CASE j = Len(q) + 1 /\ i \in 1 .. Len(q)
      BY <1>1, <1>6, <2>2, <2>5
    <2> QED
      BY <2>1, <2>3, <2>4, <2>5
  <1> QED
    BY <1>3, <1>4, <1>5, <1>6

LEMMA ElementOfConcat ==
    ASSUME NEW q \in Seq(Control), NEW w \in Seq(Control), NEW i \in 1 .. Len(q \o w)
    PROVE  \/ \E k \in DOMAIN w : (q \o w)[i] = w[k]
           \/ \E k \in DOMAIN q : (q \o w)[i] = q[k]
  <1>1. /\ Len(q) \in Nat /\ Len(w) \in Nat
        /\ DOMAIN q = 1 .. Len(q) /\ DOMAIN w = 1 .. Len(w)
    BY LenProperties
  <1>2. /\ Len(q \o w) = Len(q) + Len(w)
        /\ (q \o w)[i] = IF i <= Len(q) THEN q[i] ELSE w[i - Len(q)]
    BY ConcatProperties
  <1>3. CASE i <= Len(q)
    BY <1>1, <1>2, <1>3
  <1>4. CASE i > Len(q)
    <2>1. i - Len(q) \in DOMAIN w /\ (q \o w)[i] = w[i - Len(q)]
      BY <1>1, <1>2, <1>4
    <2> QED
      BY <2>1
  <1> QED
    BY <1>1, <1>2, <1>3, <1>4

LEMMA MailTypes ==
    ASSUME WireOK
    PROVE  \A t \in Sides : Mail(t) \in Seq(Control)
  BY DEF WireOK, Mail

(* negotiationLoop takes a control from the queue. *)
LEMMA MailTake ==
    ASSUME WireOK, NEW s \in Sides, queue[s] # <<>>,
           queue' = [queue EXCEPT ![s] = Tail(@)], UNCHANGED wire
    PROVE  /\ Mail(s) # <<>> /\ Head(Mail(s)) = Head(queue[s])
           /\ Mail(s)' = Tail(Mail(s))
           /\ \A t \in Sides \ {s} : Mail(t)' = Mail(t)
  <1>1. /\ queue \in [Sides -> Seq(Control)] /\ wire \in [Sides -> Seq(Control)]
        /\ queue'[s] = Tail(queue[s]) /\ \A t \in Sides \ {s} : queue'[t] = queue[t]
    BY DEF WireOK
  <1>2. ASSUME NEW q \in Seq(Control), NEW w \in Seq(Control), q # <<>>
        PROVE  q \o w # <<>> /\ Head(q \o w) = Head(q) /\ Tail(q) \o w = Tail(q \o w)
    <2>1. /\ q \o w \in Seq(Control) /\ Len(q \o w) = Len(q) + Len(w)
          /\ Len(q) \in Nat /\ Len(w) \in Nat /\ Len(q) # 0
          /\ \A i \in 1 .. Len(q) + Len(w) :
                (q \o w)[i] = IF i <= Len(q) THEN q[i] ELSE w[i - Len(q)]
      BY <1>2
    <2>2. q \o w # <<>> /\ Head(q \o w) = Head(q)
      BY <1>2, <2>1
    <2>3. /\ Tail(q) \in Seq(Control) /\ Len(Tail(q)) = Len(q) - 1
          /\ \A i \in 1 .. Len(Tail(q)) : Tail(q)[i] = q[i + 1]
      BY <1>2, TailOf
    <2>4. /\ Tail(q \o w) \in Seq(Control) /\ Len(Tail(q \o w)) = Len(q \o w) - 1
          /\ \A i \in 1 .. Len(Tail(q \o w)) : Tail(q \o w)[i] = (q \o w)[i + 1]
      BY <2>1, <2>2, TailOf
    <2>5. /\ Tail(q) \o w \in Seq(Control)
          /\ Len(Tail(q) \o w) = (Len(q) - 1) + Len(w)
          /\ \A i \in 1 .. (Len(q) - 1) + Len(w) : (Tail(q) \o w)[i] =
                IF i <= Len(q) - 1 THEN Tail(q)[i] ELSE w[i - (Len(q) - 1)]
      BY <2>3, ConcatProperties
    <2>6. Len(Tail(q) \o w) = Len(Tail(q \o w))
      BY <2>1, <2>4, <2>5
    <2>7. ASSUME NEW i \in 1 .. Len(Tail(q) \o w)
          PROVE  (Tail(q) \o w)[i] = Tail(q \o w)[i]
      <3>1. Tail(q \o w)[i] = IF i + 1 <= Len(q) THEN q[i + 1] ELSE w[(i + 1) - Len(q)]
        BY <2>1, <2>4, <2>6
      <3>2. (Tail(q) \o w)[i] = IF i <= Len(q) - 1 THEN q[i + 1] ELSE w[i - (Len(q) - 1)]
        BY <2>1, <2>3, <2>5
      <3>3. (i + 1) - Len(q) = i - (Len(q) - 1) /\ (i + 1 <= Len(q) <=> i <= Len(q) - 1)
        BY <2>1, <2>5
      <3> QED
        BY <3>1, <3>2, <3>3
    <2> QED
      BY <2>2, <2>4, <2>5, <2>6, <2>7, SeqEqual
  <1>3. queue[s] \in Seq(Control) /\ wire[s] \in Seq(Control)
    BY <1>1
  <1> QED
    BY <1>1, <1>2, <1>3 DEF Mail

(* sendParallel adds a control. *)
LEMMA MailSend ==
    ASSUME WireOK, NEW t \in Sides, NEW m \in Control, SendTo(t, m), UNCHANGED queue
    PROVE  /\ Mail(t)' = Append(Mail(t), m)
           /\ \A u \in Sides \ {t} : Mail(u)' = Mail(u)
  <1>1. /\ queue \in [Sides -> Seq(Control)] /\ wire \in [Sides -> Seq(Control)]
        /\ wire'[t] = Append(wire[t], m) /\ \A u \in Sides \ {t} : wire'[u] = wire[u]
    BY DEF WireOK, SendTo
  <1>2. ASSUME NEW q \in Seq(Control), NEW w \in Seq(Control)
        PROVE  q \o Append(w, m) = Append(q \o w, m)
    OBVIOUS
  <1>3. queue[t] \in Seq(Control) /\ wire[t] \in Seq(Control)
    BY <1>1
  <1> QED
    BY <1>1, <1>2, <1>3 DEF Mail

(* A control that arrives and fits goes from the wire to the queue. *)
LEMMA MailReceive ==
    ASSUME WireOK, NEW s \in Sides, HandlePrimaryMessage(s), ~closed[s], ~QueueFull(s)
    PROVE  \A t \in Sides : Mail(t)' = Mail(t)
  <1>1. /\ queue \in [Sides -> Seq(Control)] /\ wire \in [Sides -> Seq(Control)]
        /\ wire[s] # <<>> /\ wire'[s] = Tail(wire[s])
        /\ queue'[s] = Append(queue[s], Head(wire[s]))
        /\ \A t \in Sides \ {s} : queue'[t] = queue[t] /\ wire'[t] = wire[t]
    BY DEF WireOK, HandlePrimaryMessage
  <1>2. ASSUME NEW q \in Seq(Control), NEW w \in Seq(Control), w # <<>>
        PROVE  Append(q, Head(w)) \o Tail(w) = q \o w
    <2>1. Head(w) \in Control /\ Tail(w) \in Seq(Control) /\ <<Head(w)>> \in Seq(Control)
      BY <1>2, TailOf
    <2>2. Append(q, Head(w)) = q \o <<Head(w)>>
      BY <2>1
    <2>3. (q \o <<Head(w)>>) \o Tail(w) = q \o (<<Head(w)>> \o Tail(w))
      BY <2>1, ConcatAssociative
    <2>4. <<Head(w)>> \o Tail(w) = w
      BY <1>2, <2>1
    <2> QED
      BY <2>2, <2>3, <2>4
  <1>3. queue[s] \in Seq(Control) /\ wire[s] \in Seq(Control)
    BY <1>1
  <1>4. Append(queue[s], Head(wire[s])) \o Tail(wire[s]) = queue[s] \o wire[s]
    BY <1>1, <1>2, <1>3
  <1> QED
    BY <1>1, <1>4 DEF Mail

-----------------------------------------------------------------------------
(* No candidate is lost: the invariant *)

(***************************************************************************)
(* The premise of CandidateKept: no control or candidate was lost, and no  *)
(* side offered a lane before it had announced its capability.             *)
(***************************************************************************)
Smooth == up /\ ~overtaken /\ ~dropped

(* Side s has not begun with any lane. *)
Untouched(s) ==
    /\ job[s] = Idle
    /\ \A l \in LaneIDs : lane[s][l] = NoLane /\ pending[s][l] = {}

Informed(s) == negotiated[s] = Agreed /\ NoCapability(Mail(s))

(***************************************************************************)
(* The announcement of the other side is the first control that side s     *)
(* gets: until then s has no lane, and afterwards it knows how many lanes  *)
(* there are.                                                              *)
(***************************************************************************)
CapabilityInv ==
    \A s \in Sides :
        /\ started[Other(s)] => Informed(s) \/ (CapabilityFirst(Mail(s)) /\ Untouched(s))
        /\ ~started[Other(s)] => Mail(s) = <<>> /\ Untouched(s)

Working(s, l) == job[s].step # "idle" /\ job[s].lane = l
Exists(s, l) == lane[s][l].pc # "none"
OfferComes(l) == \E m \in Within(Mail("responder")) : IsOffer(m, l)
Offered(l) == OfferComes(l) \/ Working("responder", l) \/ Exists("responder", l)

(***************************************************************************)
(* The initiator offers its lanes one after the other, each of them once,  *)
(* so the responder creates a lane that it does not have.                  *)
(***************************************************************************)
OfferInv ==
    /\ \A l \in LaneIDs :
          /\ Offered(l) => Exists("initiator", l)
          /\ job["initiator"].step # "idle" =>
                /\ job["initiator"].lane < l => ~Exists("initiator", l)
                /\ job["initiator"].lane = l /\ job["initiator"].step # "create" => ~Offered(l)
          /\ OfferComes(l) => ~Working("responder", l) /\ ~Exists("responder", l)
    /\ OffersOnce(Mail("responder"))
    /\ \A s \in Sides : job[s].step = "create" => ~Exists(s, job[s].lane)
    /\ job["initiator"].step # "remote"

(* What can be said of a single lane of side s. *)
Placed(s, l) ==
    /\ ~Exists(s, l) => lane[s][l] = NoLane
    /\ job[s].step = "install" /\ job[s].lane = l => Exists(s, l)
    /\ job[s].step \in {"remote", "local", "send"} /\ job[s].lane = l
          => lane[s][l].installed \/ lane[s][l].pc = "closed"
    /\ lane[s][l].remote /\ lane[s][l].pc # "closed"
          => lane[s][l].installed /\ pending[s][l] = {}

PlaceInv == \A s \in Sides, l \in LaneIDs : Placed(s, l)

(* Candidate c for lane l has reached side t, or is on its way there. *)
Reaches(t, l, c) ==
    \/ \E m \in Within(Mail(t)) : IsCandidate(m, l, c)
    \/ c \in pending[t][l] \cup lane[t][l].added

KeptInv ==
    \A s \in Sides, l \in LaneIDs :
        lane[s][l].pc # "closed" /\ lane[Other(s)][l].pc # "closed" =>
            \A c \in lane[s][l].gathered : Reaches(Other(s), l, c)

Negotiation == CapabilityInv /\ OfferInv /\ PlaceInv /\ KeptInv

CandInv == (Smooth => Negotiation) /\ (\A s \in Sides : closed[s] => ~up)

-----------------------------------------------------------------------------
(* No candidate is lost: what a step may change *)

(* A step of side p changes at most its lane l. *)
OnlyLane(p, l) ==
    /\ \A t \in Sides \ {p} : UNCHANGED <<lane[t], pending[t], job[t]>>
    /\ \A k \in LaneIDs \ {l} : UNCHANGED <<lane[p][k], pending[p][k]>>

(* negotiationLoop of side p goes on with its lane, or is done with it. *)
GoesOn(p) ==
    /\ job[p].step # "idle" /\ job'[p].lane = job[p].lane
    /\ job'[p].step \in {"install", "remote", "local", "send"}
    /\ p = "initiator" => job'[p].step # "remote"

Finishes(p) ==
    /\ job[p].step # "idle"
    /\ \/ job'[p] = Idle
       \/ /\ p = "initiator"
          /\ job'[p].step = "create" /\ job'[p].lane = job[p].lane + 1

JobMoves(p) == UNCHANGED job[p] \/ GoesOn(p) \/ Finishes(p)

(* Side p has work to do: it has heard from the other side. *)
Active(p) == ~Untouched(p) \/ (Mail(p) # <<>> /\ ~IsCapability(Head(Mail(p))))

LEMMA ActiveInformed ==
    ASSUME CapabilityInv, NEW p \in Sides, Active(p)
    PROVE  started[Other(p)] /\ Informed(p)
  BY DEF CapabilityInv, Active, CapabilityFirst

(* What side p sends, and what it takes from its mail. *)
SendsOn(p) ==
    LET t == Other(p) IN
    \/ UNCHANGED Mail(t)
    \/ /\ started[p]
       /\ \E m \in Control : ~IsCapability(m) /\ Mail(t)' = Append(Mail(t), m)

TakesOn(p) == UNCHANGED Mail(p) \/ (Mail(p) # <<>> /\ Mail(p)' = Tail(Mail(p)))

LEMMA CapabilityKept ==
    ASSUME WireOK, CapabilityInv, NEW p \in Sides, NEW l \in LaneIDs, Active(p),
           OnlyLane(p, l), SendsOn(p), TakesOn(p), UNCHANGED <<started, negotiated>>
    PROVE  CapabilityInv'
  <1> DEFINE t == Other(p)
  <1>1. t \in Sides /\ t # p /\ Other(t) = p /\ Sides = {p, t}
    BY DEF Sides, Other
  <1>2. started[t] /\ Informed(p)
    BY ActiveInformed
  <1>3. \A u \in Sides : Mail(u) \in Seq(Control)
    BY MailTypes
  <1>4. Informed(p)'
    <2>1. NoCapability(Mail(p)')
      BY <1>2, <1>3, FrontGone DEF Informed, TakesOn
    <2> QED
      BY <1>2, <2>1 DEF Informed, NoCapability
  <1>5. Untouched(t) => Untouched(t)'
    BY <1>1 DEF OnlyLane, Untouched
  <1>6. CASE UNCHANGED Mail(t)
    BY <1>1, <1>2, <1>4, <1>5, <1>6 DEF CapabilityInv, Informed, CapabilityFirst, NoCapability
  <1>7. ASSUME started[p], NEW m \in Control, ~IsCapability(m), Mail(t)' = Append(Mail(t), m)
        PROVE  CapabilityInv'
    <2>1. /\ NoCapability(Mail(t)) => NoCapability(Mail(t)')
          /\ CapabilityFirst(Mail(t)) => CapabilityFirst(Mail(t)')
      BY <1>1, <1>3, <1>7, EndAdded
    <2>2. (Informed(t) \/ (CapabilityFirst(Mail(t)) /\ Untouched(t)))'
      BY <1>1, <1>5, <1>7, <2>1 DEF CapabilityInv, Informed, CapabilityFirst, NoCapability
    <2> QED
      BY <1>1, <1>2, <1>4, <1>7, <2>2 DEF CapabilityInv
  <1> QED
    BY <1>6, <1>7 DEF SendsOn

(***************************************************************************)
(* Lanes come into being one by one, at the lane that negotiationLoop is   *)
(* at, and no offer is sent.                                               *)
(***************************************************************************)
LEMMA OffersKept ==
    ASSUME LoopInv, LoopInv', OfferInv, NEW p \in Sides, NEW l \in LaneIDs,
           OnlyLane(p, l), JobMoves(p),
           Exists(p, l) => Exists(p, l)',
           Exists(p, l)' => Exists(p, l) \/ (job[p].lane = l /\ (GoesOn(p) \/ Finishes(p))),
           Within(Mail("responder")') \cap {m \in Control : m.type = "parallel_offer"}
              \subseteq Within(Mail("responder")),
           Within(Mail("responder")') \subseteq Control,
           OffersOnce(Mail("responder")')
    PROVE  OfferInv'
  <1>1. Sides = {"initiator", "responder"} /\ job[p].lane \in Int /\ job'[p].lane \in Int
        /\ LaneIDs \subseteq Int
    <2>1. job[p] \in JobType /\ job'[p] \in JobType
      BY DEF LoopInv, WorkOK, JobOK
    <2>2. LaneIDs \cup {0} \subseteq Int
      BY LaneNumbers
    <2>3. job[p].lane \in LaneIDs \cup {0} /\ job'[p].lane \in LaneIDs \cup {0}
      BY <2>1 DEF JobType
    <2> QED
      BY <2>2, <2>3 DEF Sides
  <1>2. \A k \in LaneIDs : OfferComes(k)' => OfferComes(k)
    BY DEF OfferComes, IsOffer
  <1>3. \A t \in Sides, k \in LaneIDs : Exists(t, k) => Exists(t, k)'
    BY DEF OnlyLane, Exists
  <1>4. \A t \in Sides, k \in LaneIDs : Exists(t, k)' =>
           Exists(t, k) \/ (t = p /\ k = l /\ job[p].lane = l /\ (GoesOn(p) \/ Finishes(p)))
    BY DEF OnlyLane, Exists
  <1>5. \A t \in Sides \ {p} : UNCHANGED job[t]
    BY DEF OnlyLane
  <1>6. \A k \in LaneIDs : Working("responder", k)' => Working("responder", k)
    BY <1>1, <1>5 DEF Working, JobMoves, GoesOn, Finishes, Idle
  <1>7. \A k \in LaneIDs : Exists("responder", k)' =>
           Exists("responder", k) \/ Working("responder", k)
    BY <1>1, <1>4 DEF Working, GoesOn, Finishes
  <1>8. \A k \in LaneIDs : Offered(k)' => Offered(k)
    BY <1>2, <1>6, <1>7 DEF Offered
  <1>9. ASSUME NEW k \in LaneIDs
        PROVE  /\ Offered(k)' => Exists("initiator", k)'
               /\ OfferComes(k)' => ~Working("responder", k)' /\ ~Exists("responder", k)'
    BY <1>1, <1>2, <1>3, <1>6, <1>7, <1>8 DEF OfferInv
  <1>10. ASSUME NEW k \in LaneIDs, job'["initiator"].step # "idle"
         PROVE  /\ job'["initiator"].lane < k => ~Exists("initiator", k)'
                /\ job'["initiator"].lane = k /\ job'["initiator"].step # "create"
                      => ~Offered(k)'
    <2>0. k \in Int /\ "initiator" \in Sides
      BY <1>1
    <2>1. CASE UNCHANGED job["initiator"]
      <3>1. job["initiator"].lane < k => ~Exists("initiator", k)
        BY <1>10, <2>1 DEF OfferInv
      <3>2. job'["initiator"].lane < k => ~Exists("initiator", k)'
        BY <1>1, <1>4, <2>0, <2>1, <3>1
      <3>3. job'["initiator"].lane = k /\ job'["initiator"].step # "create" => ~Offered(k)
        BY <1>10, <2>1 DEF OfferInv
      <3> QED
        BY <1>8, <3>2, <3>3
    <2>2. CASE p = "initiator" /\ GoesOn(p)
      <3>1. job["initiator"].step # "idle" /\ job'["initiator"].lane = job["initiator"].lane
        BY <2>2 DEF GoesOn
      <3>2. job'["initiator"].lane < k => ~Exists("initiator", k)'
        BY <1>1, <1>4, <2>0, <2>2, <3>1 DEF OfferInv
      <3>3. job["initiator"].lane = k => ~Offered(k)
        BY <2>0, <3>1 DEF OfferInv
      <3> QED
        BY <1>8, <3>1, <3>2, <3>3
    <2>3. CASE p = "initiator" /\ Finishes(p)
      <3>1. job["initiator"].step # "idle" /\ job'["initiator"].lane = job["initiator"].lane + 1
            /\ job'["initiator"].step = "create"
        BY <1>10, <2>3 DEF Finishes, Idle
      <3>2. job'["initiator"].lane < k => job["initiator"].lane < k /\ k # job["initiator"].lane
        BY <1>1, <2>0, <2>3, <3>1
      <3>3. job'["initiator"].lane < k => ~Exists("initiator", k)'
        BY <1>4, <2>3, <3>1, <3>2 DEF OfferInv
      <3> QED
        BY <3>1, <3>3
    <2> QED
      BY <1>1, <1>5, <2>1, <2>2, <2>3 DEF JobMoves
  <1>11. ASSUME NEW t \in Sides, job'[t].step = "create"
         PROVE  ~Exists(t, job[t].lane)'
    <2>0. job'[t].lane \in LaneIDs
      BY <1>11 DEF LoopInv, WorkOK, JobInv, AtLane, Idle
    <2>1. CASE UNCHANGED job[t]
      <3>1. ~Exists(t, job[t].lane)
        BY <1>11, <2>1 DEF OfferInv
      <3>2. job[t].lane \in LaneIDs
        BY <1>11, <2>1 DEF LoopInv, WorkOK, JobInv, AtLane, Idle
      <3>3. t = p => ~GoesOn(p)
        BY <1>11, <2>1 DEF GoesOn
      <3>4. t = p => ~Finishes(p)
        BY <1>1, <1>11, <2>1 DEF Finishes, Idle
      <3> QED
        BY <1>4, <2>1, <3>1, <3>2, <3>3, <3>4 DEF Exists
    <2>2. CASE t = p /\ Finishes(p)
      <3>1. p = "initiator" /\ job[p].step # "idle" /\ job'[p].lane = job[p].lane + 1
        BY <1>11, <2>2 DEF Finishes, Idle
      <3>2. job[p].lane < job'[p].lane /\ job'[p].lane # job[p].lane
        BY <1>1, <3>1
      <3>3. ~Exists(p, job'[p].lane)
        BY <2>0, <2>2, <3>1, <3>2 DEF OfferInv
      <3> QED
        BY <1>4, <2>0, <2>2, <3>1, <3>2, <3>3 DEF Exists
    <2>3. CASE t = p /\ GoesOn(p)
      BY <1>11, <2>3 DEF GoesOn
    <2> QED
      BY <1>5, <2>1, <2>2, <2>3 DEF JobMoves
  <1>12. job'["initiator"].step # "remote"
    BY <1>1, <1>5 DEF OfferInv, JobMoves, GoesOn, Finishes, Idle
  <1> QED
    BY <1>9, <1>10, <1>11, <1>12 DEF OfferInv

(* The lane that a step changes is as it should be, and the others stay so. *)
LEMMA PlacesKept ==
    ASSUME PlaceInv, NEW p \in Sides, NEW l \in LaneIDs, OnlyLane(p, l), JobMoves(p),
           GoesOn(p) => job[p].lane = l, Placed(p, l)'
    PROVE  PlaceInv'
  <1> SUFFICES ASSUME NEW t \in Sides, NEW k \in LaneIDs, t # p \/ k # l
               PROVE  Placed(t, k)'
    BY DEF PlaceInv
  <1>1. lane'[t][k] = lane[t][k] /\ pending'[t][k] = pending[t][k]
    BY DEF OnlyLane
  <1>2. job'[t].step \in {"install", "remote", "local", "send"} /\ job'[t].lane = k =>
           UNCHANGED job[t]
    BY DEF OnlyLane, JobMoves, GoesOn, Finishes, Idle
  <1> QED
    BY <1>1, <1>2 DEF PlaceInv, Placed, Exists

(* A candidate that is in the mail of side t stays there. *)
MailKept(t) ==
    \A m \in Within(Mail(t)) : m.type = "parallel_ice" => m \in Within(Mail(t)')

LEMMA CandidatesKept ==
    ASSUME KeptInv, NEW p \in Sides, NEW l \in LaneIDs, OnlyLane(p, l),
           \A t \in Sides : MailKept(t),
           lane'[p][l].pc # "closed" => lane[p][l].pc # "closed",
           lane'[p][l].gathered \subseteq lane[p][l].gathered,
           lane'[p][l].pc # "closed" /\ lane[Other(p)][l].gathered # {} =>
              pending[p][l] \cup lane[p][l].added
                 \subseteq pending'[p][l] \cup lane'[p][l].added
    PROVE  KeptInv'
  <1> SUFFICES ASSUME NEW s \in Sides, NEW k \in LaneIDs,
                      lane'[s][k].pc # "closed", lane'[Other(s)][k].pc # "closed",
                      NEW c \in lane'[s][k].gathered
               PROVE  Reaches(Other(s), k, c)'
    BY DEF KeptInv
  <1> DEFINE t == Other(s)
  <1>1. t \in Sides /\ t # s /\ Other(t) = s
    BY DEF Sides, Other
  <1>2. lane[s][k].pc # "closed" /\ c \in lane[s][k].gathered
    BY <1>1 DEF OnlyLane
  <1>3. lane[t][k].pc # "closed"
    BY <1>1 DEF OnlyLane
  <1>4. Reaches(t, k, c)
    BY <1>2, <1>3 DEF KeptInv
  <1>5. CASE c \in pending[t][k] \cup lane[t][k].added
    <2>1. pending[t][k] \cup lane[t][k].added \subseteq pending'[t][k] \cup lane'[t][k].added
      BY <1>1, <1>2 DEF OnlyLane
    <2> QED
      BY <1>5, <2>1 DEF Reaches
  <1>6. ASSUME NEW m \in Within(Mail(t)), IsCandidate(m, k, c)
        PROVE  Reaches(t, k, c)'
    BY <1>1, <1>6 DEF MailKept, IsCandidate, Reaches
  <1> QED
    BY <1>4, <1>5, <1>6 DEF Reaches

-----------------------------------------------------------------------------
(* No candidate is lost: the steps of one side *)

(* A step takes a control from the mail, or sends an answer or a candidate. *)
MailMoves(p) ==
    LET t == Other(p) IN
    \/ UNCHANGED <<Mail(p), Mail(t)>>
    \/ /\ Mail(p) # <<>> /\ Head(Mail(p)).type # "parallel_ice"
       /\ Mail(p)' = Tail(Mail(p)) /\ UNCHANGED Mail(t)
    \/ /\ started[p] /\ UNCHANGED Mail(p)
       /\ \E m \in Control : /\ m.type \in {"parallel_answer", "parallel_ice"}
                             /\ Mail(t)' = Append(Mail(t), m)

LEMMA MailMoved ==
    ASSUME WireOK, NEW p \in Sides, MailMoves(p)
    PROVE  /\ SendsOn(p) /\ TakesOn(p) /\ \A u \in Sides : MailKept(u)
           /\ \A u \in Sides :
                 /\ Within(Mail(u)') \cap {m \in Control : m.type = "parallel_offer"}
                       \subseteq Within(Mail(u))
                 /\ Within(Mail(u)') \subseteq Control
                 /\ OffersOnce(Mail(u)) => OffersOnce(Mail(u)')
  <1> DEFINE t == Other(p)
  <1>1. t \in Sides /\ t # p /\ Sides = {p, t}
    BY DEF Sides, Other
  <1>2. \A u \in Sides : Mail(u) \in Seq(Control)
    BY MailTypes
  <1>3. \A u \in Sides : Within(Mail(u)) \subseteq Control
    BY <1>2 DEF Within
  <1>4. CASE UNCHANGED <<Mail(p), Mail(t)>>
    BY <1>1, <1>3, <1>4 DEF SendsOn, TakesOn, MailKept, Within, OffersOnce
  <1>5. CASE /\ Mail(p) # <<>> /\ Head(Mail(p)).type # "parallel_ice"
             /\ Mail(p)' = Tail(Mail(p)) /\ UNCHANGED Mail(t)
    <2>1. /\ Within(Mail(p)) = Within(Mail(p)') \cup {Head(Mail(p))}
          /\ OffersOnce(Mail(p)) => OffersOnce(Mail(p)')
      BY <1>2, <1>5, FrontGone
    <2>2. MailKept(p)
      BY <1>5, <2>1 DEF MailKept
    <2>3. Within(Mail(t)') = Within(Mail(t)) /\ (OffersOnce(Mail(t)) => OffersOnce(Mail(t)'))
      BY <1>5
    <2>4. MailKept(t)
      BY <2>3 DEF MailKept
    <2>5. SendsOn(p) /\ TakesOn(p)
      BY <1>5 DEF SendsOn, TakesOn
    <2> QED
      BY <1>1, <1>3, <2>1, <2>2, <2>3, <2>4, <2>5
  <1>6. ASSUME started[p], UNCHANGED Mail(p), NEW m \in Control,
               m.type \in {"parallel_answer", "parallel_ice"}, Mail(t)' = Append(Mail(t), m)
        PROVE  /\ SendsOn(p) /\ TakesOn(p) /\ \A u \in Sides : MailKept(u)
               /\ \A u \in Sides :
                     /\ Within(Mail(u)') \cap {x \in Control : x.type = "parallel_offer"}
                           \subseteq Within(Mail(u))
                     /\ Within(Mail(u)') \subseteq Control
                     /\ OffersOnce(Mail(u)) => OffersOnce(Mail(u)')
    <2>1. ~IsCapability(m) /\ \A l \in LaneIDs : ~IsOffer(m, l)
      BY <1>6 DEF IsCapability, IsOffer
    <2>2. /\ Within(Mail(t)') = Within(Mail(t)) \cup {m}
          /\ OffersOnce(Mail(t)) => OffersOnce(Mail(t)')
      BY <1>1, <1>2, <1>6, <2>1, EndAdded
    <2>3. Within(Mail(p)') = Within(Mail(p)) /\ (OffersOnce(Mail(p)) => OffersOnce(Mail(p)'))
      BY <1>6
    <2>4. MailKept(t) /\ MailKept(p)
      BY <2>2, <2>3 DEF MailKept
    <2>5. SendsOn(p) /\ TakesOn(p)
      BY <1>6, <2>1 DEF SendsOn, TakesOn
    <2> QED
      BY <1>1, <1>3, <1>6, <2>2, <2>3, <2>4, <2>5
  <1> QED
    BY <1>4, <1>5, <1>6 DEF MailMoves

LEMMA SideStep ==
    ASSUME WireOK, LoopInv, LoopInv', Negotiation, NEW p \in Sides, NEW l \in LaneIDs,
           Active(p), OnlyLane(p, l), UNCHANGED <<started, negotiated>>, MailMoves(p),
           JobMoves(p), GoesOn(p) => job[p].lane = l,
           Exists(p, l) => Exists(p, l)',
           Exists(p, l)' => Exists(p, l) \/ (job[p].lane = l /\ (GoesOn(p) \/ Finishes(p))),
           Placed(p, l)',
           lane'[p][l].pc # "closed" => lane[p][l].pc # "closed",
           lane'[p][l].gathered \subseteq lane[p][l].gathered,
           lane'[p][l].pc # "closed" /\ lane[Other(p)][l].gathered # {} =>
              pending[p][l] \cup lane[p][l].added
                 \subseteq pending'[p][l] \cup lane'[p][l].added
    PROVE  Negotiation'
  <1>0. "responder" \in Sides
    BY TwoSides
  <1>1. CapabilityInv /\ OfferInv /\ PlaceInv /\ KeptInv
    BY DEF Negotiation
  <1>2. /\ SendsOn(p) /\ TakesOn(p) /\ \A u \in Sides : MailKept(u)
        /\ Within(Mail("responder")') \cap {m \in Control : m.type = "parallel_offer"}
              \subseteq Within(Mail("responder"))
        /\ Within(Mail("responder")') \subseteq Control
        /\ OffersOnce(Mail("responder")) => OffersOnce(Mail("responder")')
    BY <1>0, MailMoved
  <1>3. OffersOnce(Mail("responder"))
    BY <1>1 DEF OfferInv
  <1>4. CapabilityInv'
    BY <1>1, <1>2, CapabilityKept
  <1>5. OfferInv'
    BY <1>1, <1>2, <1>3, OffersKept
  <1>6. PlaceInv'
    BY <1>1, PlacesKept
  <1>7. KeptInv'
    BY <1>1, <1>2, CandidatesKept
  <1> QED
    BY <1>4, <1>5, <1>6, <1>7 DEF Negotiation

-----------------------------------------------------------------------------
(* No candidate is lost: createOffer and acceptOffer *)

LEMMA ActiveSides ==
    ASSUME NEW p \in Sides
    PROVE  /\ job[p].step # "idle" => Active(p)
           /\ \A l \in LaneIDs : lane[p][l] # NoLane => Active(p)
           /\ /\ NoLane.pc = "none" /\ ~NoLane.installed /\ ~NoLane.remote
              /\ NoLane.gathered = {} /\ NoLane.added = {}
  BY DEF Active, Untouched, Idle, NoLane

(* Side s changes its lane l. *)
LEMMA LaneAt ==
    ASSUME LoopInv, NEW s \in Sides, NEW l \in LaneIDs, NEW r,
           lane' = [lane EXCEPT ![s][l] = r]
    PROVE  /\ lane'[s][l] = r
           /\ \A k \in LaneIDs \ {l} : UNCHANGED lane[s][k]
           /\ \A t \in Sides \ {s} : UNCHANGED lane[t]
  BY DEF LoopInv, OwnedLanes, LanesOK

LEMMA PendingAt ==
    ASSUME LoopInv, NEW s \in Sides, NEW l \in LaneIDs, NEW r,
           pending' = [pending EXCEPT ![s][l] = r]
    PROVE  /\ pending'[s][l] = r
           /\ \A k \in LaneIDs \ {l} : UNCHANGED pending[s][k]
           /\ \A t \in Sides \ {s} : UNCHANGED pending[t]
  BY DEF LoopInv, PendingOK

(* A lane that createOffer or acceptOffer is at, and its type. *)
LEMMA LaneTyped ==
    ASSUME LoopInv, NEW s \in Sides
    PROVE  /\ \A l \in LaneIDs : lane[s][l] \in LaneType
           /\ job[s] \in JobType
           /\ job[s].step # "idle" => job[s].lane \in LaneIDs
  BY DEF LoopInv, OwnedLanes, LanesOK, WorkOK, JobOK, JobInv, AtLane, Idle

LEMMA DoneFinishes ==
    ASSUME LoopInv, NEW s \in Sides, job[s].step # "idle", Done(s)
    PROVE  /\ Finishes(s) /\ job'[s].step \in {"idle", "create"}
           /\ \A t \in Sides \ {s} : UNCHANGED job[t]
  <1>1. job \in [Sides -> JobType]
    BY DEF LoopInv, WorkOK, JobOK
  <1>2. /\ job'[s] = IF s = "initiator" THEN NextOffer(job[s].lane + 1, negotiated[s]) ELSE Idle
        /\ \A t \in Sides \ {s} : UNCHANGED job[t]
    BY <1>1 DEF Done
  <1> QED
    BY <1>2 DEF Finishes, NextOffer, Idle

LEMMA StepsOn ==
    ASSUME LoopInv, NEW s \in Sides, job[s].step # "idle",
           NEW x \in {"install", "remote", "local", "send"}, s = "initiator" => x # "remote",
           job' = [job EXCEPT ![s].step = x]
    PROVE  /\ GoesOn(s) /\ job'[s].step = x /\ job'[s].lane = job[s].lane
           /\ \A t \in Sides \ {s} : UNCHANGED job[t]
  <1>1. job \in [Sides -> JobType] /\ job[s] \in JobType
    BY DEF LoopInv, WorkOK, JobOK
  <1>2. /\ job'[s] = [job[s] EXCEPT !.step = x]
        /\ \A t \in Sides \ {s} : UNCHANGED job[t]
    BY <1>1
  <1>3. job'[s].step = x /\ job'[s].lane = job[s].lane
    BY <1>1, <1>2 DEF JobType
  <1> QED
    BY <1>2, <1>3 DEF GoesOn

(***************************************************************************)
(* The initiator gives a lane up.  If it was never installed, it was never *)
(* offered, and nobody has gathered a candidate for it.                    *)
(***************************************************************************)
LEMMA FailedKept ==
    ASSUME WireOK, LoopInv, LoopInv', Negotiation, NEW s \in Sides,
           job[s].step \in {"create", "remote", "local", "send"}, Failed(s),
           UNCHANGED <<started, negotiated, wire, queue>>
    PROVE  Negotiation'
  <1>0. PICK l \in LaneIDs : l = job[s].lane
    BY LaneTyped
  <1>1. lane[s][l] \in LaneType /\ Active(s)
    BY LaneTyped, ActiveSides
  <1>2. /\ Finishes(s) /\ JobMoves(s) /\ ~GoesOn(s) /\ job'[s].step \in {"idle", "create"}
        /\ \A t \in Sides \ {s} : UNCHANGED job[t]
    BY DoneFinishes DEF Failed, JobMoves, GoesOn
  <1>3. MailMoves(s)
    BY DEF MailMoves, Mail
  <1>4. Placed(s, l) /\ OfferInv /\ PlaceInv
    BY DEF Negotiation, PlaceInv
  <1>5. CASE s = "responder"
    <2>1. UNCHANGED <<lane, pending>>
      BY <1>5 DEF Failed
    <2>2. OnlyLane(s, l)
      BY <1>2, <2>1 DEF OnlyLane
    <2>3. Placed(s, l)'
      BY <1>2, <1>4, <2>1 DEF Placed, Exists
    <2> QED
      BY <1>1, <1>2, <1>3, <2>1, <2>2, <2>3, SideStep DEF Exists
  <1>6. CASE s = "initiator"
    <2> DEFINE r == IF lane[s][l].installed THEN Closed(lane[s][l]) ELSE lane[s][l]
    <2>1. lane' = [lane EXCEPT ![s][l] = r] /\ pending' = [pending EXCEPT ![s][l] = {}]
      <3>1. lane \in [Sides -> [LaneIDs -> LaneType]]
        BY DEF LoopInv, OwnedLanes, LanesOK
      <3> QED
        BY <1>0, <1>6, <3>1 DEF Failed
    <2>2. /\ lane[s][l].installed => r.pc = "closed" /\ lane[s][l].pc # "none"
          /\ ~lane[s][l].installed => r = lane[s][l]
          /\ r.gathered \subseteq lane[s][l].gathered
      BY <1>1, <1>4, ActiveSides DEF Closed, LaneType, Placed, Exists
    <2> HIDE DEF r
    <2>6. /\ lane'[s][l] = r
          /\ \A k \in LaneIDs \ {l} : UNCHANGED lane[s][k]
          /\ \A t \in Sides \ {s} : UNCHANGED lane[t]
      BY <2>1, LaneAt
    <2>7. /\ pending'[s][l] = {}
          /\ \A k \in LaneIDs \ {l} : UNCHANGED pending[s][k]
          /\ \A t \in Sides \ {s} : UNCHANGED pending[t]
      BY <2>1, PendingAt
    <2>3. lane'[s][l] = r /\ pending'[s][l] = {} /\ OnlyLane(s, l)
      BY <1>2, <2>6, <2>7 DEF OnlyLane
    <2>4. Placed(s, l)'
      BY <1>2, <1>4, <2>2, <2>3 DEF Placed, Exists
    <2>5. ASSUME r.pc # "closed" PROVE lane[Other(s)][l].gathered = {}
      <3>1. ~lane[s][l].installed /\ lane[s][l].pc # "closed"
        BY <2>2, <2>5
      <3>2. job[s].step = "create"
        BY <1>0, <1>4, <3>1 DEF Placed
      <3>3. ~Exists("responder", l)
        BY <1>0, <1>4, <1>6, <3>2 DEF OfferInv, Offered
      <3>4. lane["responder"][l] = NoLane
        BY <1>4, <3>3, TwoSides DEF PlaceInv, Placed
      <3> QED
        BY <1>6, <3>4, TwoSides, ActiveSides
    <2> QED
      BY <1>1, <1>2, <1>3, <2>2, <2>3, <2>4, <2>5, SideStep DEF Exists
  <1> QED
    BY <1>5, <1>6 DEF Sides

(***************************************************************************)
(* Side s changes its lane l, takes nothing from pending and goes on or is *)
(* done: what is left to show is about that lane.                          *)
(***************************************************************************)
LEMMA LaneStep ==
    ASSUME WireOK, LoopInv, LoopInv', Negotiation, NEW s \in Sides, NEW l \in LaneIDs, NEW r,
           lane' = [lane EXCEPT ![s][l] = r], UNCHANGED <<pending, started, negotiated>>,
           Active(s), MailMoves(s), JobMoves(s), GoesOn(s) => job[s].lane = l,
           \A t \in Sides \ {s} : UNCHANGED job[t],
           Exists(s, l) => r.pc # "none",
           r.pc # "none" => Exists(s, l) \/ (job[s].lane = l /\ (GoesOn(s) \/ Finishes(s))),
           Placed(s, l)', r.pc # "closed" => lane[s][l].pc # "closed",
           r.gathered = lane[s][l].gathered, r.added = lane[s][l].added
    PROVE  Negotiation'
  <1>1. /\ lane'[s][l] = r
        /\ \A k \in LaneIDs \ {l} : UNCHANGED lane[s][k]
        /\ \A t \in Sides \ {s} : UNCHANGED lane[t]
    BY LaneAt
  <1>2. OnlyLane(s, l)
    BY <1>1 DEF OnlyLane
  <1> QED
    BY <1>1, <1>2, SideStep DEF Exists

LEMMA CreateKept ==
    ASSUME WireOK, LoopInv, LoopInv', Negotiation, NEW s \in Sides, CreatePC(s)
    PROVE  Negotiation'
  <1>0. PICK l \in LaneIDs : l = job[s].lane
    BY LaneTyped DEF CreatePC, At
  <1>1. /\ job[s].step = "create" /\ lane[s][l] \in LaneType /\ Active(s)
        /\ UNCHANGED <<wire, queue, started, negotiated>>
    BY LaneTyped, ActiveSides DEF CreatePC, At
  <1>2. CASE Failed(s)
    BY <1>1, <1>2, FailedKept
  <1>3. CASE /\ job' = [job EXCEPT ![s].step = "install"] /\ UNCHANGED pending
             /\ lane' = [lane EXCEPT ![s][job[s].lane].pc = "new"]
    <2>1. /\ GoesOn(s) /\ job'[s].step = "install" /\ job'[s].lane = job[s].lane
          /\ \A t \in Sides \ {s} : UNCHANGED job[t]
      BY <1>1, <1>3, StepsOn
    <2> DEFINE r == [lane[s][l] EXCEPT !.pc = "new"]
    <2>2. lane' = [lane EXCEPT ![s][l] = r]
      BY <1>0, <1>3
    <2>3. /\ r.pc = "new" /\ r.remote = lane[s][l].remote
          /\ r.gathered = lane[s][l].gathered /\ r.added = lane[s][l].added
      BY <1>1 DEF LaneType
    <2>4. lane[s][l] = NoLane
      BY <1>0, <1>1 DEF Negotiation, OfferInv, PlaceInv, Placed
    <2>5. ~r.remote /\ lane[s][l].pc = "none"
      BY <2>3, <2>4, ActiveSides
    <2> HIDE DEF r
    <2>6. /\ lane'[s][l] = r
          /\ \A k \in LaneIDs \ {l} : UNCHANGED lane[s][k]
          /\ \A t \in Sides \ {s} : UNCHANGED lane[t]
      BY <2>2, LaneAt
    <2>7. Placed(s, l)'
      BY <2>1, <2>3, <2>5, <2>6 DEF Placed, Exists
    <2>8. MailMoves(s) /\ JobMoves(s)
      BY <1>1, <2>1 DEF MailMoves, Mail, JobMoves
    <2> QED
      BY <1>0, <1>1, <1>3, <2>1, <2>2, <2>3, <2>5, <2>7, <2>8, LaneStep DEF Exists
  <1> QED
    BY <1>2, <1>3 DEF CreatePC

LEMMA InstallKept ==
    ASSUME WireOK, LoopInv, LoopInv', Negotiation, NEW s \in Sides, InstallLane(s)
    PROVE  Negotiation'
  <1>0. PICK l \in LaneIDs : l = job[s].lane
    BY LaneTyped DEF InstallLane, At
  <1>1. /\ job[s].step = "install" /\ lane[s][l] \in LaneType /\ Active(s)
        /\ UNCHANGED <<wire, queue, started, negotiated, pending>>
    BY LaneTyped, ActiveSides DEF InstallLane, At
  <1>2. MailMoves(s)
    BY <1>1 DEF MailMoves, Mail
  <1>3. Placed(s, l) /\ Exists(s, l)
    BY <1>0, <1>1 DEF Negotiation, PlaceInv, Placed
  <1>4. CASE CanInstall(s, l)
    <2> DEFINE x == IF s = "initiator" THEN "local" ELSE "remote"
               r == [lane[s][l] EXCEPT !.installed = TRUE]
    <2>1. job' = [job EXCEPT ![s].step = x] /\ lane' = [lane EXCEPT ![s][l] = r]
      BY <1>0, <1>4 DEF InstallLane
    <2>2. x \in {"install", "remote", "local", "send"} /\ (s = "initiator" => x # "remote")
      OBVIOUS
    <2>3. /\ r.pc = lane[s][l].pc /\ r.remote = lane[s][l].remote /\ r.installed
          /\ r.gathered = lane[s][l].gathered /\ r.added = lane[s][l].added
      BY <1>1 DEF LaneType
    <2> HIDE DEF x, r
    <2>4. /\ GoesOn(s) /\ job'[s].step = x /\ job'[s].lane = job[s].lane
          /\ \A t \in Sides \ {s} : UNCHANGED job[t]
      BY <1>1, <2>1, <2>2, StepsOn
    <2>5. /\ lane'[s][l] = r
          /\ \A k \in LaneIDs \ {l} : UNCHANGED lane[s][k]
          /\ \A t \in Sides \ {s} : UNCHANGED lane[t]
      BY <2>1, LaneAt
    <2>6. ~lane[s][l].installed
      BY <1>4 DEF CanInstall
    <2>7. Placed(s, l)'
      BY <1>1, <1>3, <2>3, <2>5, <2>6 DEF Placed, Exists
    <2>8. JobMoves(s)
      BY <2>4 DEF JobMoves
    <2> QED
      BY <1>0, <1>1, <1>2, <1>3, <2>1, <2>3, <2>4, <2>7, <2>8, LaneStep DEF Exists
  <1>5. CASE Done(s) /\ lane' = [lane EXCEPT ![s][job[s].lane].pc = "closed"]
    <2> DEFINE r == [lane[s][l] EXCEPT !.pc = "closed"]
    <2>1. lane' = [lane EXCEPT ![s][l] = r]
      BY <1>0, <1>5
    <2>2. /\ r.pc = "closed"
          /\ r.gathered = lane[s][l].gathered /\ r.added = lane[s][l].added
      BY <1>1 DEF LaneType
    <2> HIDE DEF r
    <2>3. /\ Finishes(s) /\ job'[s].step \in {"idle", "create"} /\ ~GoesOn(s)
          /\ \A t \in Sides \ {s} : UNCHANGED job[t]
      BY <1>1, <1>5, DoneFinishes DEF GoesOn
    <2>4. /\ lane'[s][l] = r
          /\ \A k \in LaneIDs \ {l} : UNCHANGED lane[s][k]
          /\ \A t \in Sides \ {s} : UNCHANGED lane[t]
      BY <2>1, LaneAt
    <2>5. Placed(s, l)'
      BY <2>2, <2>3, <2>4 DEF Placed, Exists
    <2>6. JobMoves(s)
      BY <2>3 DEF JobMoves
    <2> QED
      BY <1>1, <1>2, <1>3, <2>1, <2>2, <2>3, <2>5, <2>6, LaneStep DEF Exists
  <1> QED
    BY <1>0, <1>4, <1>5 DEF InstallLane

(* What SetRemote does to the lane and to the candidates set aside for it. *)
LEMMA RemoteLane ==
    ASSUME LoopInv, NEW s \in Sides, NEW l \in LaneIDs, SetRemote(s, l),
           \A t \in Sides \ {s} : UNCHANGED job[t]
    PROVE  /\ OnlyLane(s, l) /\ pending'[s][l] = {}
           /\ lane'[s][l].pc = lane[s][l].pc
           /\ lane'[s][l].installed = lane[s][l].installed
           /\ lane'[s][l].gathered = lane[s][l].gathered
           /\ lane'[s][l].added = lane[s][l].added \cup pending[s][l]
           /\ lane'[s][l].remote
  <1>1. lane[s][l] \in LaneType /\ lane \in [Sides -> [LaneIDs -> LaneType]]
    BY LaneTyped DEF LoopInv, OwnedLanes, LanesOK
  <1> DEFINE r == [lane[s][l] EXCEPT !.remote = TRUE, !.added = @ \cup pending[s][l]]
  <1>2. lane' = [lane EXCEPT ![s][l] = r] /\ pending' = [pending EXCEPT ![s][l] = {}]
    BY <1>1 DEF SetRemote, Flushed
  <1>3. /\ r.pc = lane[s][l].pc /\ r.installed = lane[s][l].installed
        /\ r.gathered = lane[s][l].gathered /\ r.remote
        /\ r.added = lane[s][l].added \cup pending[s][l]
    BY <1>1 DEF LaneType
  <1> HIDE DEF r
  <1>4. /\ lane'[s][l] = r
        /\ \A k \in LaneIDs \ {l} : UNCHANGED lane[s][k]
        /\ \A t \in Sides \ {s} : UNCHANGED lane[t]
    BY <1>2, LaneAt
  <1>5. /\ pending'[s][l] = {}
        /\ \A k \in LaneIDs \ {l} : UNCHANGED pending[s][k]
        /\ \A t \in Sides \ {s} : UNCHANGED pending[t]
    BY <1>2, PendingAt
  <1> QED
    BY <1>3, <1>4, <1>5 DEF OnlyLane

LEMMA RemoteKept ==
    ASSUME WireOK, LoopInv, LoopInv', Negotiation, Smooth',
           NEW s \in Sides, SetRemoteDescription(s)
    PROVE  Negotiation'
  <1>0. PICK l \in LaneIDs : l = job[s].lane
    BY LaneTyped DEF SetRemoteDescription, At
  <1>1. /\ job[s].step = "remote" /\ Active(s)
        /\ UNCHANGED <<wire, queue, started, negotiated>>
    BY ActiveSides DEF SetRemoteDescription, At
  <1>2. CASE Failed(s)
    BY <1>1, <1>2, FailedKept
  <1>3. CASE Live(s, l) /\ SetRemote(s, l) /\ job' = [job EXCEPT ![s].step = "local"]
    <2>1. /\ GoesOn(s) /\ job'[s].step = "local" /\ job'[s].lane = job[s].lane
          /\ \A t \in Sides \ {s} : UNCHANGED job[t]
      BY <1>1, <1>3, StepsOn
    <2>2. /\ OnlyLane(s, l) /\ pending'[s][l] = {}
          /\ lane'[s][l].pc = lane[s][l].pc
          /\ lane'[s][l].installed = lane[s][l].installed
          /\ lane'[s][l].gathered = lane[s][l].gathered
          /\ lane'[s][l].added = lane[s][l].added \cup pending[s][l]
          /\ lane'[s][l].remote
      BY <1>3, <2>1, RemoteLane
    <2>3. Placed(s, l) /\ lane[s][l].pc = "new" /\ lane[s][l].installed
      BY <1>0, <1>1, <1>3 DEF Negotiation, PlaceInv, Placed, Live
    <2>4. Placed(s, l)'
      BY <2>1, <2>2, <2>3 DEF Placed, Exists
    <2>5. MailMoves(s) /\ JobMoves(s)
      BY <1>1, <2>1 DEF MailMoves, Mail, JobMoves
    <2> QED
      BY <1>0, <1>1, <2>1, <2>2, <2>4, <2>5, SideStep DEF Exists
  <1> QED
    BY <1>0, <1>2, <1>3 DEF SetRemoteDescription, FlushFails, Smooth

LEMMA LocalKept ==
    ASSUME WireOK, LoopInv, LoopInv', Negotiation, NEW s \in Sides, SetLocalDescription(s)
    PROVE  Negotiation'
  <1>0. PICK l \in LaneIDs : l = job[s].lane
    BY LaneTyped DEF SetLocalDescription, At
  <1>1. /\ job[s].step = "local" /\ Active(s) /\ lane[s][l] \in LaneType
        /\ UNCHANGED <<wire, queue, started, negotiated>>
    BY LaneTyped, ActiveSides DEF SetLocalDescription, At
  <1>2. CASE Failed(s)
    BY <1>1, <1>2, FailedKept
  <1>3. CASE /\ Live(s, l) /\ UNCHANGED pending /\ job' = [job EXCEPT ![s].step = "send"]
             /\ lane' = [lane EXCEPT ![s][l].local = TRUE, ![s][l].channel = (s = "initiator")]
    <2>1. /\ GoesOn(s) /\ job'[s].step = "send" /\ job'[s].lane = job[s].lane
          /\ \A t \in Sides \ {s} : UNCHANGED job[t]
      BY <1>1, <1>3, StepsOn
    <2> DEFINE r == [lane[s][l] EXCEPT !.local = TRUE, !.channel = (s = "initiator")]
    <2>2. lane' = [lane EXCEPT ![s][l] = r]
      <3>1. lane \in [Sides -> [LaneIDs -> LaneType]]
        BY DEF LoopInv, OwnedLanes, LanesOK
      <3> QED
        BY <1>3, <3>1
    <2>3. /\ r.pc = lane[s][l].pc /\ r.remote = lane[s][l].remote
          /\ r.installed = lane[s][l].installed
          /\ r.gathered = lane[s][l].gathered /\ r.added = lane[s][l].added
      BY <1>1 DEF LaneType
    <2>4. Placed(s, l) /\ lane[s][l].pc = "new" /\ lane[s][l].installed
      BY <1>0, <1>1, <1>3 DEF Negotiation, PlaceInv, Placed, Live
    <2> HIDE DEF r
    <2>5. /\ lane'[s][l] = r
          /\ \A k \in LaneIDs \ {l} : UNCHANGED lane[s][k]
          /\ \A t \in Sides \ {s} : UNCHANGED lane[t]
      BY <2>2, LaneAt
    <2>6. Placed(s, l)'
      BY <1>3, <2>1, <2>3, <2>4, <2>5 DEF Placed, Exists
    <2>7. MailMoves(s) /\ JobMoves(s)
      BY <1>1, <2>1 DEF MailMoves, Mail, JobMoves
    <2> QED
      BY <1>0, <1>1, <1>3, <2>1, <2>2, <2>3, <2>4, <2>6, <2>7, LaneStep DEF Exists
  <1> QED
    BY <1>0, <1>2, <1>3 DEF SetLocalDescription

(* An answer or a candidate is sent. *)
LEMMA SendMoves ==
    ASSUME WireOK, NEW s \in Sides, started[s], NEW m \in Control,
           m.type \in {"parallel_answer", "parallel_ice"},
           SendTo(Other(s), m), UNCHANGED queue
    PROVE  MailMoves(s) /\ Mail(Other(s))' = Append(Mail(Other(s)), m)
  <1>1. Other(s) \in Sides /\ s \in Sides \ {Other(s)}
    BY DEF Sides, Other
  <1>2. /\ Mail(Other(s))' = Append(Mail(Other(s)), m)
        /\ \A u \in Sides \ {Other(s)} : Mail(u)' = Mail(u)
    BY <1>1, MailSend
  <1> QED
    BY <1>1, <1>2 DEF MailMoves

LEMMA AnswerSent ==
    ASSUME WireOK, LoopInv, LoopInv', Negotiation, Smooth',
           SendDescription("responder")
    PROVE  Negotiation'
  <1> DEFINE s == "responder"
  <1>0. PICK l \in LaneIDs : l = job[s].lane
    BY LaneTyped, TwoSides DEF SendDescription, At
  <1>1. /\ job[s].step = "send" /\ Active(s) /\ up /\ s \in Sides
        /\ UNCHANGED <<queue, started, negotiated, lane, pending>> /\ Done(s)
        /\ SendTo(Other(s), [type |-> "parallel_answer", lane |-> l]) /\ started[s]
    <2>1. s \in Sides /\ job[s].step = "send" /\ up
      BY TwoSides DEF SendDescription, At, Smooth
    <2>2. Active(s)
      BY <2>1, ActiveSides
    <2> QED
      BY <1>0, <2>1, <2>2 DEF SendDescription, Smooth
  <1>2. [type |-> "parallel_answer", lane |-> l] \in Control
    BY ControlTypes
  <1> DEFINE m == [type |-> "parallel_answer", lane |-> l]
  <1>3. m.type \in {"parallel_answer", "parallel_ice"}
    OBVIOUS
  <1> HIDE DEF m
  <1>4. MailMoves(s)
    BY <1>1, <1>2, <1>3, SendMoves DEF m
  <1>5. /\ Finishes(s) /\ job'[s].step \in {"idle", "create"} /\ ~GoesOn(s)
        /\ \A t \in Sides \ {s} : UNCHANGED job[t]
    BY <1>1, DoneFinishes DEF GoesOn
  <1>6. OnlyLane(s, l) /\ JobMoves(s)
    BY <1>1, <1>5 DEF OnlyLane, JobMoves
  <1>7. Placed(s, l)'
    BY <1>1, <1>5 DEF Negotiation, PlaceInv, Placed, Exists
  <1> QED
    BY <1>1, <1>4, <1>5, <1>6, <1>7, SideStep DEF Exists

(* The lane has been created, and is offered for the first time. *)
LEMMA OfferSent ==
    ASSUME WireOK, LoopInv, LoopInv', Negotiation, Smooth',
           SendDescription("initiator")
    PROVE  Negotiation'
  <1> DEFINE s == "initiator"
             t == "responder"
  <1>0. PICK l \in LaneIDs : l = job[s].lane
    BY LaneTyped, TwoSides DEF SendDescription, At
  <1>1. /\ job[s].step = "send" /\ Active(s) /\ up /\ s \in Sides /\ t \in Sides
        /\ Other(s) = t /\ Sides = {s, t}
        /\ UNCHANGED <<queue, started, negotiated, lane, pending>> /\ Done(s)
        /\ SendTo(t, [type |-> "parallel_offer", lane |-> l]) /\ started[s]
    <2>1. s \in Sides /\ t \in Sides /\ job[s].step = "send" /\ up /\ Other(s) = t
          /\ Sides = {s, t}
      BY TwoSides DEF SendDescription, At, Smooth
    <2>2. Active(s)
      BY <2>1, ActiveSides
    <2> QED
      BY <1>0, <2>1, <2>2 DEF SendDescription, Smooth
  <1> DEFINE m == [type |-> "parallel_offer", lane |-> l]
  <1>2. /\ m \in Control /\ ~IsCapability(m) /\ m.type = "parallel_offer"
        /\ \A k \in LaneIDs : IsOffer(m, k) <=> k = l
    BY ControlTypes DEF IsCapability, IsOffer
  <1> HIDE DEF m
  <1>3. Mail(t)' = Append(Mail(t), m) /\ Mail(s)' = Mail(s)
    <2>1. /\ Mail(t)' = Append(Mail(t), m)
          /\ \A u \in Sides \ {t} : Mail(u)' = Mail(u)
      BY <1>1, <1>2, MailSend DEF m
    <2> QED
      BY <1>1, <2>1
  <1>4. /\ Finishes(s) /\ job'[s].step \in {"idle", "create"} /\ ~GoesOn(s)
        /\ \A u \in Sides \ {s} : UNCHANGED job[u]
    BY <1>1, DoneFinishes DEF GoesOn
  <1>5. OnlyLane(s, l) /\ JobMoves(s)
    BY <1>1, <1>4 DEF OnlyLane, JobMoves
  <1>6. SendsOn(s) /\ TakesOn(s)
    BY <1>1, <1>2, <1>3 DEF SendsOn, TakesOn
  <1>7. CapabilityInv /\ OfferInv /\ PlaceInv /\ KeptInv
    BY DEF Negotiation
  <1>8. CapabilityInv'
    BY <1>1, <1>5, <1>6, <1>7, CapabilityKept
  <1>9. Placed(s, l)'
    BY <1>1, <1>4, <1>7 DEF PlaceInv, Placed, Exists
  <1>10. PlaceInv'
    BY <1>1, <1>4, <1>5, <1>7, <1>9, PlacesKept
  <1>11. Mail(t) \in Seq(Control)
    BY <1>1, MailTypes
  <1>12. Exists(s, l) /\ ~Offered(l)
    <2>1. lane[s][l].installed \/ lane[s][l].pc = "closed"
      BY <1>0, <1>1, <1>7 DEF PlaceInv, Placed
    <2>2. Exists(s, l)
      BY <1>1, <1>7, <2>1, ActiveSides DEF PlaceInv, Placed, Exists
    <2> QED
      BY <1>0, <1>1, <1>7, <2>2 DEF OfferInv
  <1>13. Within(Mail(t)') = Within(Mail(t)) \cup {m}
    BY <1>2, <1>3, <1>11, EndAdded
  <1>14. OffersOnce(Mail(t)')
    <2>1. \A k \in LaneIDs : IsOffer(m, k) => \A x \in Within(Mail(t)) : ~IsOffer(x, k)
      BY <1>2, <1>12 DEF Offered, OfferComes
    <2>2. OffersOnce(Mail(t))
      BY <1>7 DEF OfferInv
    <2> QED
      BY <1>2, <1>3, <1>11, <2>1, <2>2, EndAdded
  <1>15. KeptInv'
    <2>1. \A u \in Sides : MailKept(u)
      BY <1>1, <1>3, <1>13 DEF MailKept
    <2> QED
      BY <1>1, <1>5, <1>7, <2>1, CandidatesKept
  <1>16. OfferInv'
    <2>1. \A k \in LaneIDs : OfferComes(k)' => OfferComes(k) \/ k = l
      BY <1>2, <1>13 DEF OfferComes
    <2>2. \A u \in Sides, k \in LaneIDs : Exists(u, k)' <=> Exists(u, k)
      BY <1>1 DEF Exists
    <2>3. \A k \in LaneIDs : Working(t, k)' <=> Working(t, k)
      BY <1>1, <1>4 DEF Working
    <2>4. \A k \in LaneIDs : Offered(k)' => Offered(k) \/ k = l
      BY <1>1, <2>1, <2>2, <2>3 DEF Offered
    <2>5. job[s].step # "idle" /\ job[s].lane = l /\ LaneIDs \subseteq Int /\ l \in Int
      BY <1>0, <1>1, LaneNumbers
    <2>6. ASSUME NEW k \in LaneIDs
          PROVE  /\ Offered(k)' => Exists(s, k)'
                 /\ OfferComes(k)' => ~Working(t, k)' /\ ~Exists(t, k)'
      BY <1>1, <1>7, <1>12, <2>1, <2>2, <2>3, <2>4 DEF OfferInv, Offered
    <2>7. ASSUME NEW k \in LaneIDs, job'[s].step # "idle"
          PROVE  /\ job'[s].lane < k => ~Exists(s, k)'
                 /\ job'[s].step = "create"
      <3>1. job'[s].lane = l + 1 /\ job'[s].step = "create"
        BY <1>4, <2>5, <2>7 DEF Finishes, Idle
      <3>2. k \in Int /\ (job'[s].lane < k => l < k)
        BY <2>5, <3>1
      <3>3. l < k => ~Exists(s, k)
        BY <1>7, <2>5 DEF OfferInv
      <3> QED
        BY <1>1, <2>2, <3>1, <3>2, <3>3
    <2>8. ASSUME NEW u \in Sides, job'[u].step = "create"
          PROVE  lane'[u][job'[u].lane].pc = "none"
      <3>1. CASE u = s
        <4>1. job'[s].lane = l + 1 /\ job'[s].lane \in LaneIDs
          BY <1>1, <1>4, <2>5, <2>8, <3>1
             DEF Finishes, Idle, LoopInv, WorkOK, JobInv, AtLane
        <4>2. l < job'[s].lane
          BY <2>5, <4>1
        <4>3. ~Exists(s, job'[s].lane)
          BY <1>7, <2>5, <4>1, <4>2 DEF OfferInv
        <4> QED
          BY <1>1, <3>1, <4>3 DEF Exists
      <3>2. CASE u # s
        BY <1>1, <1>4, <1>7, <2>8, <3>2 DEF OfferInv, Exists
      <3> QED
        BY <3>1, <3>2
    <2> QED
      BY <1>4, <1>14, <2>6, <2>7, <2>8 DEF OfferInv, Exists
  <1> QED
    BY <1>8, <1>10, <1>15, <1>16 DEF Negotiation

-----------------------------------------------------------------------------
(* No candidate is lost: what is taken from the queue *)

(* A control that is no candidate is taken. *)
LEMMA TakeMoves ==
    ASSUME WireOK, NEW s \in Sides, NEW type, Take(s, type), UNCHANGED wire
    PROVE  /\ queue[s] # <<>> /\ Head(queue[s]) \in Control /\ Head(queue[s]).type = type
           /\ Mail(s) # <<>> /\ Head(Mail(s)) = Head(queue[s]) /\ Mail(s)' = Tail(Mail(s))
           /\ \A t \in Sides \ {s} : Mail(t)' = Mail(t)
           /\ type # "parallel_capability" => Active(s)
           /\ type # "parallel_ice" => MailMoves(s)
  <1>1. queue[s] # <<>> /\ queue' = [queue EXCEPT ![s] = Tail(@)] /\ Head(queue[s]).type = type
    BY DEF Take
  <1>2. Head(queue[s]) \in Control
    <2>1. queue[s] \in Seq(Control)
      BY DEF WireOK
    <2> QED
      BY <1>1, <2>1, TailOf
  <1>3. /\ Mail(s) # <<>> /\ Head(Mail(s)) = Head(queue[s])
        /\ Mail(s)' = Tail(Mail(s))
        /\ \A t \in Sides \ {s} : Mail(t)' = Mail(t)
    BY <1>1, MailTake
  <1>4. Other(s) \in Sides \ {s}
    BY DEF Sides, Other
  <1> QED
    BY <1>1, <1>2, <1>3, <1>4 DEF Active, IsCapability, MailMoves

LEMMA AnswerTaken ==
    ASSUME WireOK, LoopInv, LoopInv', Negotiation, Smooth', NEW s \in Sides, TakeAnswer(s)
    PROVE  Negotiation'
  <1>1. /\ Take(s, "parallel_answer") /\ UNCHANGED <<wire, started, negotiated, job>>
    BY DEF TakeAnswer
  <1>2. /\ Head(queue[s]) \in Control /\ Head(queue[s]).type = "parallel_answer"
        /\ Active(s) /\ MailMoves(s)
    BY <1>1, TakeMoves
  <1>3. PICK l \in LaneIDs : l = Head(queue[s]).lane
    BY <1>2, ControlFields
  <1>4. JobMoves(s) /\ (GoesOn(s) => job[s].lane = l \/ UNCHANGED job[s])
    BY <1>1 DEF JobMoves
  <1>5. ~GoesOn(s)
    BY <1>1 DEF Take, GoesOn, Idle
  <1>6. Placed(s, l)
    BY DEF Negotiation, PlaceInv
  <1>7. CASE lane[s][l].installed /\ SetRemote(s, l)
    <2>1. /\ OnlyLane(s, l) /\ pending'[s][l] = {}
          /\ lane'[s][l].pc = lane[s][l].pc
          /\ lane'[s][l].installed = lane[s][l].installed
          /\ lane'[s][l].gathered = lane[s][l].gathered
          /\ lane'[s][l].added = lane[s][l].added \cup pending[s][l]
          /\ lane'[s][l].remote
      BY <1>1, <1>7, RemoteLane
    <2>2. Exists(s, l)
      BY <1>6, <1>7, ActiveSides DEF Placed
    <2>3. Placed(s, l)'
      BY <1>1, <1>6, <1>7, <2>1, <2>2 DEF Placed, Exists
    <2> QED
      BY <1>1, <1>2, <1>4, <1>5, <2>1, <2>2, <2>3, SideStep DEF Exists
  <1>8. CASE UNCHANGED <<lane, pending>>
    <2>1. OnlyLane(s, l)
      BY <1>1, <1>8 DEF OnlyLane
    <2>2. Placed(s, l)'
      BY <1>1, <1>6, <1>8 DEF Placed, Exists
    <2> QED
      BY <1>1, <1>2, <1>4, <1>5, <1>8, <2>1, <2>2, SideStep DEF Exists
  <1> QED
    BY <1>3, <1>7, <1>8 DEF TakeAnswer, FlushFails, Smooth

(* The offer is the only one for this lane, which is then created. *)
LEMMA OfferTaken ==
    ASSUME WireOK, LoopInv, LoopInv', Negotiation, NEW s \in Sides, TakeOffer(s)
    PROVE  Negotiation'
  <1>1. Take(s, "parallel_offer") /\ UNCHANGED <<wire, started, negotiated, lane, pending>>
    BY DEF TakeOffer
  <1>2. /\ Head(queue[s]) \in Control /\ Head(queue[s]).type = "parallel_offer"
        /\ Active(s) /\ MailMoves(s)
        /\ Mail(s) # <<>> /\ Head(Mail(s)) = Head(queue[s]) /\ Mail(s)' = Tail(Mail(s))
    BY <1>1, TakeMoves
  <1>3. PICK l \in LaneIDs : l = Head(queue[s]).lane
    BY <1>2, ControlFields
  <1>4. job[s] = Idle /\ ~GoesOn(s)
    BY <1>1 DEF Take, GoesOn, Idle
  <1>5. Placed(s, l) /\ CapabilityInv /\ OfferInv /\ PlaceInv /\ KeptInv
    BY DEF Negotiation, PlaceInv
  <1>6. CASE UNCHANGED job
    <2>1. OnlyLane(s, l) /\ JobMoves(s)
      BY <1>1, <1>6 DEF OnlyLane, JobMoves
    <2>2. Placed(s, l)'
      BY <1>1, <1>5, <1>6 DEF Placed, Exists
    <2> QED
      BY <1>1, <1>2, <1>4, <2>1, <2>2, SideStep DEF Exists
  <1>7. CASE /\ s = "responder"
             /\ job' = [job EXCEPT ![s] = [step |-> "create", lane |-> l]]
    <2>1. /\ job'[s] = [step |-> "create", lane |-> l]
          /\ \A t \in Sides \ {s} : UNCHANGED job[t]
      <3>1. job \in [Sides -> JobType]
        BY DEF LoopInv, WorkOK, JobOK
      <3> QED
        BY <1>7, <3>1
    <2>2. job'[s].step = "create" /\ job'[s].lane = l /\ Sides = {s, "initiator"}
          /\ s # "initiator"
      BY <1>7, <2>1, TwoSides
    <2>3. OnlyLane(s, l)
      BY <1>1, <2>1 DEF OnlyLane
    <2>4. /\ SendsOn(s) /\ TakesOn(s) /\ \A u \in Sides : MailKept(u)
          /\ OffersOnce(Mail(s)) => OffersOnce(Mail(s)')
      BY <1>2, MailMoved
    <2>5. CapabilityInv'
      BY <1>1, <1>2, <1>5, <2>3, <2>4, CapabilityKept
    <2>6. PlaceInv'
      BY <1>1, <1>5, <2>1, <2>2 DEF PlaceInv, Placed, Exists
    <2>7. KeptInv'
      BY <1>1, <1>5, <2>3, <2>4, CandidatesKept
    <2>8. Mail(s) \in Seq(Control)
      BY MailTypes
    <2>9. /\ Within(Mail(s)) = Within(Mail(s)') \cup {Head(Mail(s))}
          /\ \A k \in LaneIDs : OffersOnce(Mail(s)) /\ IsOffer(Head(Mail(s)), k) =>
                 \A m \in Within(Mail(s)') : ~IsOffer(m, k)
      BY <1>2, <2>8, FrontGone
    <2>10. IsOffer(Head(Mail(s)), l) /\ Head(Mail(s)) \in Within(Mail(s)) /\ OffersOnce(Mail(s))
      BY <1>2, <1>3, <1>5, <1>7, <2>9 DEF IsOffer, OfferInv
    <2>11. OfferComes(l) /\ ~OfferComes(l)'
      BY <1>7, <2>9, <2>10 DEF OfferComes
    <2>12. \A k \in LaneIDs : OfferComes(k)' => OfferComes(k)
      BY <1>7, <2>9 DEF OfferComes
    <2>13. \A u \in Sides, k \in LaneIDs : Exists(u, k)' <=> Exists(u, k)
      BY <1>1 DEF Exists
    <2>14. ~Exists(s, l) /\ Exists("initiator", l)
      BY <1>5, <1>7, <2>11 DEF OfferInv, Offered
    <2>15. \A k \in LaneIDs : Working(s, k)' => k = l
      BY <2>2 DEF Working
    <2>16. \A k \in LaneIDs : Offered(k)' => Offered(k)
      BY <1>7, <2>11, <2>12, <2>13, <2>15 DEF Offered
    <2>17. ASSUME NEW k \in LaneIDs
           PROVE  /\ Offered(k)' => Exists("initiator", k)'
                  /\ OfferComes(k)' => ~Working(s, k)' /\ ~Exists(s, k)'
      BY <1>5, <1>7, <2>2, <2>11, <2>12, <2>13, <2>15, <2>16 DEF OfferInv
    <2>18. ASSUME NEW k \in LaneIDs, job'["initiator"].step # "idle"
           PROVE  /\ job'["initiator"].lane < k => ~Exists("initiator", k)'
                  /\ job'["initiator"].lane = k /\ job'["initiator"].step # "create"
                        => ~Offered(k)'
      BY <1>5, <2>1, <2>2, <2>13, <2>16, <2>18 DEF OfferInv
    <2>19. ASSUME NEW u \in Sides, job'[u].step = "create"
           PROVE  lane'[u][job'[u].lane].pc = "none"
      BY <1>1, <1>5, <2>1, <2>2, <2>14, <2>19 DEF OfferInv, Exists
    <2>20. OffersOnce(Mail(s)') /\ job'["initiator"].step # "remote"
      BY <1>5, <2>1, <2>2, <2>4, <2>10 DEF OfferInv
    <2>21. OfferInv'
      BY <1>7, <2>17, <2>18, <2>19, <2>20 DEF OfferInv, Exists
    <2> QED
      BY <2>5, <2>6, <2>7, <2>21 DEF Negotiation
  <1> QED
    BY <1>3, <1>6, <1>7 DEF TakeOffer

(* A candidate is added to its lane or set aside. *)
LEMMA CandidateTaken ==
    ASSUME WireOK, LoopInv, LoopInv', Negotiation, Smooth, Smooth',
           NEW s \in Sides, TakeCandidate(s)
    PROVE  Negotiation'
  <1>1. Take(s, "parallel_ice") /\ UNCHANGED <<wire, started, negotiated, job>>
    BY DEF TakeCandidate
  <1> DEFINE h == Head(queue[s])
  <1>2. /\ h \in Control /\ h.type = "parallel_ice" /\ Active(s)
        /\ Mail(s) # <<>> /\ Head(Mail(s)) = h /\ Mail(s)' = Tail(Mail(s))
        /\ \A t \in Sides \ {s} : Mail(t)' = Mail(t)
    BY <1>1, TakeMoves
  <1>3. PICK l \in LaneIDs, c \in Candidates : l = h.lane /\ c = h.candidate
    BY <1>2, ControlFields
  <1> HIDE DEF h
  <1>4. job[s] = Idle /\ ~GoesOn(s) /\ JobMoves(s)
    BY <1>1 DEF Take, GoesOn, Idle, JobMoves
  <1>5. /\ CapabilityInv /\ OfferInv /\ PlaceInv /\ KeptInv /\ Placed(s, l)
        /\ lane[s][l] \in LaneType
    BY LaneTyped DEF Negotiation, PlaceInv
  <1>6. negotiated[s] = Agreed
    BY <1>2, <1>5, ActiveInformed DEF Informed
  <1>7. /\ OnlyLane(s, l) /\ lane'[s][l].pc = lane[s][l].pc
        /\ lane'[s][l].installed = lane[s][l].installed
        /\ lane'[s][l].remote = lane[s][l].remote
        /\ lane'[s][l].gathered = lane[s][l].gathered
        /\ pending[s][l] \cup lane[s][l].added \subseteq pending'[s][l] \cup lane'[s][l].added
        /\ lane[s][l] = NoLane => lane'[s][l] = NoLane
        /\ lane[s][l].remote /\ lane[s][l].pc # "closed" => UNCHANGED pending[s][l]
        /\ ValidLane(s, l) /\ lane[s][l].pc # "closed" =>
              c \in pending'[s][l] \cup lane'[s][l].added
    <2>1. CASE ValidLane(s, l) /\ Describable(s, l) /\ UNCHANGED pending
               /\ lane' = [lane EXCEPT ![s][l].added = @ \cup {c}]
      <3> DEFINE r == [lane[s][l] EXCEPT !.added = @ \cup {c}]
      <3>1. lane' = [lane EXCEPT ![s][l] = r]
        BY <2>1
      <3>2. /\ r.pc = lane[s][l].pc /\ r.installed = lane[s][l].installed
            /\ r.remote = lane[s][l].remote /\ r.gathered = lane[s][l].gathered
            /\ r.added = lane[s][l].added \cup {c}
        BY <1>5 DEF LaneType
      <3> HIDE DEF r
      <3>3. /\ lane'[s][l] = r
            /\ \A k \in LaneIDs \ {l} : UNCHANGED lane[s][k]
            /\ \A t \in Sides \ {s} : UNCHANGED lane[t]
        BY <3>1, LaneAt
      <3>4. lane[s][l] # NoLane
        BY <2>1, ActiveSides DEF Describable
      <3> QED
        BY <1>1, <2>1, <3>2, <3>3, <3>4 DEF OnlyLane
    <2>2. CASE /\ ValidLane(s, l) /\ ~Describable(s, l) /\ UNCHANGED lane
               /\ pending' = [pending EXCEPT ![s][l] = @ \cup {c}]
      <3> DEFINE q == pending[s][l] \cup {c}
      <3>1. pending' = [pending EXCEPT ![s][l] = q]
        BY <2>2
      <3> HIDE DEF q
      <3>2. /\ pending'[s][l] = q
            /\ \A k \in LaneIDs \ {l} : UNCHANGED pending[s][k]
            /\ \A t \in Sides \ {s} : UNCHANGED pending[t]
        BY <3>1, PendingAt
      <3>3. lane[s][l].remote => lane[s][l].pc = "closed"
        BY <1>5, <2>2 DEF Placed, Describable
      <3> QED
        BY <1>1, <2>2, <3>2, <3>3 DEF OnlyLane, q
    <2>3. CASE ~ValidLane(s, l) /\ UNCHANGED <<lane, pending>>
      BY <1>1, <2>3 DEF OnlyLane
    <2> QED
      BY <1>3, <2>1, <2>2, <2>3 DEF TakeCandidate, Smooth, h, Describable
  <1>8. Mail(s) \in Seq(Control)
    BY MailTypes
  <1>9. Within(Mail(s)) = Within(Mail(s)') \cup {h}
        /\ (OffersOnce(Mail(s)) => OffersOnce(Mail(s)'))
    BY <1>2, <1>8, FrontGone
  <1>10. SendsOn(s) /\ TakesOn(s)
    <2>1. Other(s) \in Sides \ {s}
      BY DEF Sides, Other
    <2> QED
      BY <1>2, <2>1 DEF SendsOn, TakesOn
  <1>11. CapabilityInv'
    BY <1>1, <1>2, <1>5, <1>7, <1>10, CapabilityKept
  <1>12. OfferInv'
    <2>1. /\ Within(Mail("responder")') \subseteq Within(Mail("responder"))
          /\ OffersOnce(Mail("responder")')
      BY <1>2, <1>5, <1>9, TwoSides DEF OfferInv
    <2>2. Within(Mail("responder")) \subseteq Control
      <3>1. Mail("responder") \in Seq(Control)
        BY MailTypes, TwoSides
      <3> QED
        BY <3>1 DEF Within
    <2> QED
      BY <1>4, <1>5, <1>7, <2>1, <2>2, OffersKept DEF Exists
  <1>13. PlaceInv'
    <2>1. Placed(s, l)'
      BY <1>1, <1>5, <1>7 DEF Placed, Exists
    <2> QED
      BY <1>4, <1>5, <1>7, <2>1, PlacesKept
  <1>14. KeptInv'
    <2> SUFFICES ASSUME NEW u \in Sides, NEW k \in LaneIDs,
                        lane'[u][k].pc # "closed", lane'[Other(u)][k].pc # "closed",
                        NEW d \in lane'[u][k].gathered
                 PROVE  Reaches(Other(u), k, d)'
      BY DEF KeptInv
    <2> DEFINE t == Other(u)
    <2>1. t \in Sides /\ t # u /\ Other(t) = u /\ (s # t => s = u)
      BY DEF Sides, Other
    <2>2. /\ lane[u][k].pc # "closed" /\ d \in lane[u][k].gathered /\ lane[t][k].pc # "closed"
          /\ pending[t][k] \cup lane[t][k].added \subseteq pending'[t][k] \cup lane'[t][k].added
      BY <1>7, <2>1 DEF OnlyLane
    <2>3. Reaches(t, k, d)
      BY <1>5, <2>2 DEF KeptInv
    <2>4. CASE d \in pending[t][k] \cup lane[t][k].added
      BY <2>2, <2>4 DEF Reaches
    <2>5. ASSUME NEW m \in Within(Mail(t)), IsCandidate(m, k, d)
          PROVE  Reaches(t, k, d)'
      <3>1. CASE m \in Within(Mail(t)')
        BY <2>5, <3>1 DEF Reaches
      <3>2. CASE t = s /\ m = h
        <4>1. k = l /\ d = c
          BY <1>3, <2>5, <3>2 DEF IsCandidate
        <4>2. lane[u][l].pc # "none"
          BY <1>5, <2>2, <4>1, ActiveSides DEF PlaceInv, Placed, Exists
        <4>3. l < Agreed
          BY <4>2 DEF LoopInv, OwnedLanes, LaneInv, Existing
        <4>4. ValidLane(s, l)
          BY <1>6, <4>3, LaneNumbers DEF ValidLane
        <4> QED
          BY <1>7, <2>2, <3>2, <4>1, <4>4 DEF Reaches
      <3> QED
        BY <1>2, <1>9, <2>1, <3>1, <3>2
    <2> QED
      BY <2>3, <2>4, <2>5 DEF Reaches
  <1> QED
    BY <1>11, <1>12, <1>13, <1>14 DEF Negotiation

(***************************************************************************)
(* The lanes, the work and what side s knows stay: only the mail changes.  *)
(***************************************************************************)
LEMMA MailOnly ==
    ASSUME OfferInv, PlaceInv, KeptInv, UNCHANGED <<job, lane, pending>>,
           \A t \in Sides : MailKept(t),
           \A l \in LaneIDs : OfferComes(l)' => OfferComes(l),
           OffersOnce(Mail("responder")')
    PROVE  OfferInv' /\ PlaceInv' /\ KeptInv'
  <1>1. PlaceInv'
    BY DEF PlaceInv, Placed, Exists
  <1>2. KeptInv'
    <2> SUFFICES ASSUME NEW s \in Sides, NEW k \in LaneIDs,
                        lane[s][k].pc # "closed", lane[Other(s)][k].pc # "closed",
                        NEW c \in lane[s][k].gathered
                 PROVE  Reaches(Other(s), k, c)'
      BY DEF KeptInv
    <2>1. Reaches(Other(s), k, c) /\ Other(s) \in Sides
      BY TwoSides DEF KeptInv
    <2>2. ASSUME NEW m \in Within(Mail(Other(s))), IsCandidate(m, k, c)
          PROVE  Reaches(Other(s), k, c)'
      BY <2>1, <2>2 DEF MailKept, IsCandidate, Reaches
    <2> QED
      BY <2>1, <2>2 DEF Reaches
  <1>3. \A l \in LaneIDs :
           /\ Working("responder", l)' <=> Working("responder", l)
           /\ Exists("responder", l)' <=> Exists("responder", l)
           /\ Exists("initiator", l)' <=> Exists("initiator", l)
    BY DEF Working, Exists
  <1>4. \A l \in LaneIDs : Offered(l)' => Offered(l)
    BY <1>3 DEF Offered
  <1>5. \A s \in Sides : job'[s].step = "create" => lane'[s][job'[s].lane].pc = "none"
    BY DEF OfferInv, Exists
  <1>6. OfferInv'
    BY <1>3, <1>4, <1>5, TwoSides DEF OfferInv, Exists
  <1> QED
    BY <1>1, <1>2, <1>6

(* A step outside the negotiation. *)
LEMMA NegotiationSame ==
    ASSUME Negotiation, UNCHANGED <<job, lane, pending, started, negotiated>>,
           \A t \in Sides : UNCHANGED Mail(t)
    PROVE  Negotiation'
  <1>1. CapabilityInv /\ OfferInv /\ PlaceInv /\ KeptInv
    BY DEF Negotiation
  <1>2. CapabilityInv'
    <2> SUFFICES ASSUME NEW s \in Sides
                 PROVE  /\ started'[Other(s)] =>
                              Informed(s)' \/ (CapabilityFirst(Mail(s)') /\ Untouched(s)')
                        /\ ~started'[Other(s)] => Mail(s)' = <<>> /\ Untouched(s)'
      BY DEF CapabilityInv, CapabilityFirst, NoCapability
    <2>1. Mail(s)' = Mail(s) /\ (Untouched(s) => Untouched(s)') /\ (Informed(s) => Informed(s)')
      BY DEF Untouched, Informed, NoCapability
    <2> QED
      BY <1>1, <2>1 DEF CapabilityInv
  <1>3. \A t \in Sides : MailKept(t)
    BY DEF MailKept
  <1>4. /\ \A l \in LaneIDs : OfferComes(l)' => OfferComes(l)
        /\ OffersOnce(Mail("responder")')
    BY <1>1, TwoSides DEF OfferComes, OfferInv
  <1>5. OfferInv' /\ PlaceInv' /\ KeptInv'
    BY <1>1, <1>3, <1>4, MailOnly
  <1> QED
    BY <1>2, <1>5 DEF Negotiation

(* start announces this side, before anything else is sent. *)
LEMMA StartKept ==
    ASSUME WireOK, LoopInv, FlagsOK, Negotiation, Smooth', NEW s \in Sides, Start(s)
    PROVE  Negotiation'
  <1> DEFINE t == Other(s)
             m == [type |-> "parallel_capability", connections |-> Connections(s)]
  <1>1. t \in Sides /\ t # s /\ Other(t) = s /\ Sides = {s, t}
    BY DEF Sides, Other
  <1>2. /\ ~started[s] /\ started' = [started EXCEPT ![s] = TRUE] /\ SendTo(t, m)
        /\ UNCHANGED <<queue, negotiated, job, lane, pending>>
    BY DEF Start, Smooth
  <1>3. m \in Control /\ IsCapability(m) /\ m.type # "parallel_offer"
    BY ConnectionsRange, ControlTypes DEF IsCapability
  <1> HIDE DEF m
  <1>4. Mail(t)' = Append(Mail(t), m) /\ Mail(s)' = Mail(s)
    <2>1. /\ Mail(t)' = Append(Mail(t), m)
          /\ \A u \in Sides \ {t} : Mail(u)' = Mail(u)
      BY <1>1, <1>2, <1>3, MailSend
    <2> QED
      BY <1>1, <2>1
  <1>5. CapabilityInv /\ OfferInv /\ PlaceInv /\ KeptInv
    BY DEF Negotiation
  <1>6. Mail(t) = <<>> /\ Untouched(t)
    BY <1>1, <1>2, <1>5 DEF CapabilityInv
  <1>7. CapabilityFirst(Mail(t)')
    <2>1. Mail(t)' = <<m>>
      BY <1>4, <1>6
    <2>2. <<m>> # <<>> /\ Head(<<m>>) = m /\ Tail(<<m>>) = <<>>
      BY <1>3
    <2>3. NoCapability(<<>>)
      BY DEF NoCapability, Within
    <2> QED
      BY <1>3, <2>1, <2>2, <2>3 DEF CapabilityFirst
  <1>8. CapabilityInv'
    <2>1. started'[s] /\ started'[t] = started[t]
      BY <1>1, <1>2 DEF FlagsOK
    <2>2. Untouched(t)' /\ (Untouched(s) => Untouched(s)')
      BY <1>2, <1>6 DEF Untouched
    <2>3. Informed(s) => Informed(s)'
      BY <1>2, <1>4 DEF Informed, NoCapability
    <2>4. /\ started[t] => Informed(s)' \/ (CapabilityFirst(Mail(s)') /\ Untouched(s)')
          /\ ~started[t] => Mail(s)' = <<>> /\ Untouched(s)'
      BY <1>1, <1>4, <1>5, <2>2, <2>3 DEF CapabilityInv
    <2>5. \A u \in Sides :
             /\ started'[Other(u)] =>
                   Informed(u)' \/ (CapabilityFirst(Mail(u)') /\ Untouched(u)')
             /\ ~started'[Other(u)] => Mail(u)' = <<>> /\ Untouched(u)'
      BY <1>1, <1>7, <2>1, <2>2, <2>4
    <2> QED
      BY <2>5 DEF CapabilityInv, CapabilityFirst, NoCapability
  <1>9. Within(Mail(t)') = Within(Mail(t)) \cup {m} /\ Within(Mail(s)') = Within(Mail(s))
        /\ (OffersOnce(Mail(t)) => OffersOnce(Mail(t)'))
        /\ (OffersOnce(Mail(s)) => OffersOnce(Mail(s)'))
    <2>1. Mail(t) \in Seq(Control)
      BY <1>1, MailTypes
    <2>2. \A l \in LaneIDs : ~IsOffer(m, l)
      BY <1>3 DEF IsOffer
    <2> QED
      BY <1>3, <1>4, <2>1, <2>2, EndAdded
  <1>10. \A u \in Sides : MailKept(u)
    BY <1>1, <1>9 DEF MailKept
  <1>11. \A l \in LaneIDs : OfferComes(l)' => OfferComes(l)
    BY <1>1, <1>3, <1>9, TwoSides DEF OfferComes, IsOffer
  <1>12. OffersOnce(Mail("responder")')
    BY <1>1, <1>5, <1>9, TwoSides DEF OfferInv
  <1>13. OfferInv' /\ PlaceInv' /\ KeptInv'
    BY <1>2, <1>5, <1>10, <1>11, <1>12, MailOnly
  <1> QED
    BY <1>8, <1>13 DEF Negotiation

(* The first control is the announcement; the initiator begins to offer lanes. *)
LEMMA CapabilityTaken ==
    ASSUME WireInv, LoopInv, LoopInv', Negotiation, NEW s \in Sides, TakeCapability(s)
    PROVE  Negotiation'
  <1> DEFINE t == Other(s)
  <1>0. t \in Sides /\ t # s /\ Other(t) = s /\ Sides = {s, t}
    BY DEF Sides, Other
  <1>1. /\ Take(s, "parallel_capability") /\ UNCHANGED <<wire, started, lane, pending>>
        /\ queue[s] # <<>> /\ queue' = [queue EXCEPT ![s] = Tail(@)] /\ job[s] = Idle
    BY DEF TakeCapability, Take
  <1>2. WireOK
    BY DEF WireInv
  <1>3. /\ Head(queue[s]) \in Control /\ Head(queue[s]).type = "parallel_capability"
        /\ Mail(s) # <<>> /\ Head(Mail(s)) = Head(queue[s]) /\ Mail(s)' = Tail(Mail(s))
        /\ Mail(t)' = Mail(t) /\ MailMoves(s)
    BY <1>0, <1>1, <1>2, TakeMoves
  <1>4. CapabilityInv /\ OfferInv /\ PlaceInv /\ KeptInv
    BY DEF Negotiation
  <1>5. /\ IsCapability(Head(Mail(s))) /\ Mail(s) \in Seq(Control)
        /\ Within(Mail(s)) = Within(Mail(s)') \cup {Head(Mail(s))}
    BY <1>2, <1>3, MailTypes, FrontGone DEF IsCapability
  <1>6. started[t] /\ ~NoCapability(Mail(s))
    BY <1>0, <1>3, <1>4, <1>5 DEF CapabilityInv, NoCapability
  <1>7. CapabilityFirst(Mail(s)) /\ Untouched(s)
    BY <1>4, <1>6 DEF CapabilityInv, Informed
  <1>8. NegotiatedConnections(s, Head(queue[s]).connections) = Agreed
    <2>1. WireInv' /\ Head(queue[s]) \in Control /\ Announces(s, Head(queue[s]))
      BY <1>1, WireTake
    <2>2. Agreed = Lesser(Connections(s), Connections(Other(s)))
      BY ConnectionsRange
    <2> QED
      BY <1>3, <2>1, <2>2 DEF Announces, NegotiatedConnections
  <1>9. /\ negotiated'[s] = Agreed /\ UNCHANGED negotiated[t]
        /\ job'[s] = (IF s = "initiator" THEN NextOffer(1, Agreed) ELSE Idle)
        /\ UNCHANGED job[t]
    <2>1. /\ negotiated' = [negotiated EXCEPT ![s] = Agreed]
          /\ job' = [job EXCEPT ![s] = IF s = "initiator" THEN NextOffer(1, Agreed) ELSE Idle]
      BY <1>8 DEF TakeCapability
    <2>2. job \in [Sides -> JobType] /\ negotiated \in [Sides -> 1 .. MaxConnections]
      BY DEF LoopInv, WorkOK, JobOK
    <2> QED
      BY <1>0, <2>1, <2>2
  <1>10. CapabilityInv'
    <2>1. Informed(s)'
      BY <1>3, <1>7, <1>9 DEF Informed, CapabilityFirst, NoCapability
    <2>2. (Untouched(t) => Untouched(t)') /\ (Informed(t) => Informed(t)')
      BY <1>1, <1>3, <1>9 DEF Untouched, Informed, NoCapability
    <2>3. \A u \in Sides :
             /\ started'[Other(u)] =>
                   Informed(u)' \/ (CapabilityFirst(Mail(u)') /\ Untouched(u)')
             /\ ~started'[Other(u)] => Mail(u)' = <<>> /\ Untouched(u)'
      BY <1>0, <1>1, <1>3, <1>4, <1>6, <2>1, <2>2 DEF CapabilityInv
    <2> QED
      BY <2>3 DEF CapabilityInv, CapabilityFirst, NoCapability
  <1>11. /\ \A u \in Sides : MailKept(u)
         /\ \A u \in Sides :
               /\ Within(Mail(u)') \cap {m \in Control : m.type = "parallel_offer"}
                     \subseteq Within(Mail(u))
               /\ Within(Mail(u)') \subseteq Control
               /\ OffersOnce(Mail(u)) => OffersOnce(Mail(u)')
    BY <1>2, <1>3, MailMoved
  <1>12. job'[s].step \in {"idle", "create"}
    BY <1>9 DEF NextOffer, Idle
  <1>13. PlaceInv'
    <2> SUFFICES ASSUME NEW u \in Sides, NEW k \in LaneIDs
                 PROVE  Placed(u, k)'
      BY DEF PlaceInv
    <2>1. Placed(u, k)
      BY <1>4 DEF PlaceInv
    <2> QED
      BY <1>0, <1>1, <1>9, <1>12, <2>1 DEF Placed, Exists
  <1>14. KeptInv'
    <2> SUFFICES ASSUME NEW u \in Sides, NEW k \in LaneIDs,
                        lane[u][k].pc # "closed", lane[Other(u)][k].pc # "closed",
                        NEW c \in lane[u][k].gathered
                 PROVE  Reaches(Other(u), k, c)'
      BY <1>1 DEF KeptInv
    <2>1. Reaches(Other(u), k, c) /\ Other(u) \in Sides
      BY <1>4, TwoSides DEF KeptInv
    <2>2. ASSUME NEW m \in Within(Mail(Other(u))), IsCandidate(m, k, c)
          PROVE  Reaches(Other(u), k, c)'
      BY <1>11, <2>1, <2>2 DEF MailKept, IsCandidate, Reaches
    <2> QED
      BY <1>1, <2>1, <2>2 DEF Reaches
  <1>15. CASE s = "responder"
    <2>1. UNCHANGED <<job[s], job[t]>> /\ t = "initiator"
      BY <1>1, <1>9, <1>15, TwoSides
    <2>2. \A k \in LaneIDs :
             /\ Working("responder", k)' <=> Working("responder", k)
             /\ Exists("responder", k)' <=> Exists("responder", k)
             /\ Exists("initiator", k)' <=> Exists("initiator", k)
      BY <1>1, <1>15, <2>1 DEF Working, Exists
    <2>3. \A k \in LaneIDs : OfferComes(k)' => OfferComes(k)
      BY <1>5, <1>15 DEF OfferComes
    <2>4. \A k \in LaneIDs : Offered(k)' => Offered(k)
      BY <2>2, <2>3 DEF Offered
    <2>5. \A u \in Sides : job'[u].step = "create" => lane'[u][job'[u].lane].pc = "none"
      BY <1>0, <1>1, <1>4, <2>1 DEF OfferInv, Exists
    <2>6. OfferInv'
      BY <1>0, <1>4, <1>11, <1>15, <2>1, <2>2, <2>3, <2>4, <2>5 DEF OfferInv, Exists
    <2> QED
      BY <1>10, <1>13, <1>14, <2>6 DEF Negotiation
  <1>16. CASE s = "initiator"
    <2>1. UNCHANGED <<job[t], Mail(t)>> /\ t = "responder"
      BY <1>3, <1>9, <1>16, TwoSides
    <2>2. \A k \in LaneIDs : ~Exists(s, k) /\ ~Offered(k)
      BY <1>4, <1>7, <1>16, ActiveSides DEF OfferInv, Untouched, Exists
    <2>3. \A u \in Sides, k \in LaneIDs : Exists(u, k)' <=> Exists(u, k)
      BY <1>1 DEF Exists
    <2>4. \A k \in LaneIDs : OfferComes(k)' => OfferComes(k)
      BY <2>1 DEF OfferComes
    <2>5. \A k \in LaneIDs : Working(t, k)' <=> Working(t, k)
      BY <2>1 DEF Working
    <2>6. \A k \in LaneIDs : ~Offered(k)' /\ ~OfferComes(k)' /\ ~Exists(s, k)'
      BY <1>0, <2>1, <2>2, <2>3, <2>4, <2>5 DEF Offered
    <2>7. \A u \in Sides : job'[u].step = "create" => lane'[u][job'[u].lane].pc = "none"
      <3>1. job'[s].step = "create" => job'[s].lane \in LaneIDs
        BY DEF LoopInv, WorkOK, JobInv, AtLane, Idle
      <3>2. job'[s].step = "create" => lane'[s][job'[s].lane].pc = "none"
        BY <1>1, <2>2, <3>1 DEF Exists
      <3> QED
        BY <1>0, <1>1, <1>4, <2>1, <3>2 DEF OfferInv, Exists
    <2>8. OffersOnce(Mail(t)') /\ job'[s].step # "remote"
      BY <1>0, <1>4, <1>11, <1>12, <2>1 DEF OfferInv
    <2>9. OfferInv'
      BY <1>16, <2>1, <2>6, <2>7, <2>8 DEF OfferInv, Exists
    <2> QED
      BY <1>10, <1>13, <1>14, <2>9 DEF Negotiation
  <1> QED
    BY <1>15, <1>16 DEF Sides

-----------------------------------------------------------------------------
(* No candidate is lost: callbacks *)

LEMMA ChannelKept ==
    ASSUME WireOK, LoopInv, LoopInv', Negotiation, NEW s \in Sides, NEW l \in LaneIDs,
           OnOpen(s, l) \/ (s = "responder" /\ OnDataChannel(l))
    PROVE  Negotiation'
  <1>1. /\ UNCHANGED <<wire, started, queue, negotiated, job, pending>>
        /\ Live(s, l) /\ lane[s][l] \in LaneType
    BY LaneTyped DEF OnOpen, OnDataChannel
  <1>2. Active(s) /\ Placed(s, l)
    <2>1. lane[s][l] # NoLane
      BY <1>1, ActiveSides DEF Live
    <2> QED
      BY <2>1, ActiveSides DEF Negotiation, PlaceInv
  <1>3. PICK r : /\ lane' = [lane EXCEPT ![s][l] = r]
                 /\ r.pc = "new" /\ r.remote = lane[s][l].remote
                 /\ r.installed = lane[s][l].installed
                 /\ r.gathered = lane[s][l].gathered /\ r.added = lane[s][l].added
    <2>1. CASE lane' = [lane EXCEPT ![s][l].open = TRUE]
      <3> DEFINE q == [lane[s][l] EXCEPT !.open = TRUE]
      <3>1. lane' = [lane EXCEPT ![s][l] = q]
        BY <2>1
      <3>2. /\ q.pc = "new" /\ q.remote = lane[s][l].remote
            /\ q.installed = lane[s][l].installed
            /\ q.gathered = lane[s][l].gathered /\ q.added = lane[s][l].added
        BY <1>1 DEF LaneType, Live
      <3> HIDE DEF q
      <3> QED
        BY <3>1, <3>2
    <2>2. CASE lane' = [lane EXCEPT ![s][l].channel = TRUE]
      <3> DEFINE q == [lane[s][l] EXCEPT !.channel = TRUE]
      <3>1. lane' = [lane EXCEPT ![s][l] = q]
        BY <2>2
      <3>2. /\ q.pc = "new" /\ q.remote = lane[s][l].remote
            /\ q.installed = lane[s][l].installed
            /\ q.gathered = lane[s][l].gathered /\ q.added = lane[s][l].added
        BY <1>1 DEF LaneType, Live
      <3> HIDE DEF q
      <3> QED
        BY <3>1, <3>2
    <2> QED
      BY <2>1, <2>2 DEF OnOpen, OnDataChannel
  <1>4. /\ lane'[s][l] = r
        /\ \A k \in LaneIDs \ {l} : UNCHANGED lane[s][k]
        /\ \A t \in Sides \ {s} : UNCHANGED lane[t]
    BY <1>3, LaneAt
  <1>5. OnlyLane(s, l) /\ JobMoves(s) /\ MailMoves(s)
    BY <1>1, <1>4 DEF OnlyLane, JobMoves, MailMoves, Mail
  <1>6. lane[s][l].pc = "new"
    BY <1>1 DEF Live
  <1>7. Placed(s, l)'
    BY <1>1, <1>2, <1>3, <1>4, <1>6 DEF Placed, Exists
  <1>8. CapabilityInv /\ OfferInv /\ PlaceInv /\ KeptInv
    BY DEF Negotiation
  <1>9. PlaceInv'
    <2> SUFFICES ASSUME NEW t \in Sides, NEW k \in LaneIDs, t # s \/ k # l
                 PROVE  Placed(t, k)'
      BY <1>7 DEF PlaceInv
    <2>1. lane'[t][k] = lane[t][k] /\ Placed(t, k)
      BY <1>4, <1>8 DEF PlaceInv
    <2> QED
      BY <1>1, <2>1 DEF Placed, Exists
  <1>10. "responder" \in Sides
    BY TwoSides
  <1>11. /\ SendsOn(s) /\ TakesOn(s) /\ \A u \in Sides : MailKept(u)
         /\ \A u \in Sides :
               /\ Within(Mail(u)') \cap {m \in Control : m.type = "parallel_offer"}
                     \subseteq Within(Mail(u))
               /\ Within(Mail(u)') \subseteq Control
               /\ OffersOnce(Mail(u)) => OffersOnce(Mail(u)')
    BY <1>5, MailMoved
  <1>12. CapabilityInv'
    BY <1>1, <1>2, <1>5, <1>8, <1>11, CapabilityKept
  <1>13. OffersOnce(Mail("responder"))
    BY <1>8 DEF OfferInv
  <1>14. OfferInv'
    BY <1>3, <1>4, <1>5, <1>6, <1>8, <1>10, <1>11, <1>13, OffersKept DEF Exists
  <1>15. KeptInv'
    BY <1>1, <1>3, <1>4, <1>5, <1>6, <1>8, <1>11, CandidatesKept
  <1> QED
    BY <1>9, <1>12, <1>14, <1>15 DEF Negotiation

LEMMA RemoveKept ==
    ASSUME WireOK, LoopInv, LoopInv', Negotiation, NEW s \in Sides, NEW l \in LaneIDs,
           RemoveLaneIfCurrent(s, l)
    PROVE  Negotiation'
  <1>1. /\ UNCHANGED <<wire, started, queue, negotiated, job>> /\ lane[s][l] \in LaneType
        /\ lane[s][l].installed /\ lane' = [lane EXCEPT ![s][l] = Closed(@)]
        /\ pending' = [pending EXCEPT ![s][l] = {}]
    BY LaneTyped DEF RemoveLaneIfCurrent
  <1> DEFINE r == Closed(lane[s][l])
  <1>2. lane' = [lane EXCEPT ![s][l] = r]
    BY <1>1
  <1>3. r.pc = "closed" /\ r.gathered = lane[s][l].gathered
    BY <1>1 DEF LaneType, Closed
  <1> HIDE DEF r
  <1>4. /\ lane'[s][l] = r
        /\ \A k \in LaneIDs \ {l} : UNCHANGED lane[s][k]
        /\ \A t \in Sides \ {s} : UNCHANGED lane[t]
    BY <1>2, LaneAt
  <1>5. /\ pending'[s][l] = {}
        /\ \A k \in LaneIDs \ {l} : UNCHANGED pending[s][k]
        /\ \A t \in Sides \ {s} : UNCHANGED pending[t]
    BY <1>1, PendingAt
  <1>6. Active(s) /\ Exists(s, l)
    <2>1. lane[s][l] # NoLane /\ Placed(s, l)
      BY <1>1, ActiveSides DEF Negotiation, PlaceInv
    <2> QED
      BY <2>1, ActiveSides DEF Placed
  <1>7. OnlyLane(s, l) /\ JobMoves(s) /\ MailMoves(s)
    BY <1>1, <1>4, <1>5 DEF OnlyLane, JobMoves, MailMoves, Mail
  <1>8. CapabilityInv /\ OfferInv /\ PlaceInv /\ KeptInv
    BY DEF Negotiation
  <1>9. PlaceInv'
    <2> SUFFICES ASSUME NEW t \in Sides, NEW k \in LaneIDs
                 PROVE  Placed(t, k)'
      BY DEF PlaceInv
    <2>1. CASE t = s /\ k = l
      BY <1>3, <1>4, <2>1 DEF Placed, Exists
    <2>2. CASE t # s \/ k # l
      <3>1. lane'[t][k] = lane[t][k] /\ pending'[t][k] = pending[t][k] /\ Placed(t, k)
        BY <1>4, <1>5, <1>8, <2>2 DEF PlaceInv
      <3> QED
        BY <1>1, <3>1 DEF Placed, Exists
    <2> QED
      BY <2>1, <2>2
  <1>10. "responder" \in Sides
    BY TwoSides
  <1>11. /\ SendsOn(s) /\ TakesOn(s) /\ \A u \in Sides : MailKept(u)
         /\ \A u \in Sides :
               /\ Within(Mail(u)') \cap {m \in Control : m.type = "parallel_offer"}
                     \subseteq Within(Mail(u))
               /\ Within(Mail(u)') \subseteq Control
               /\ OffersOnce(Mail(u)) => OffersOnce(Mail(u)')
    BY <1>7, MailMoved
  <1>12. CapabilityInv'
    BY <1>1, <1>6, <1>7, <1>8, <1>11, CapabilityKept
  <1>13. OffersOnce(Mail("responder"))
    BY <1>8 DEF OfferInv
  <1>14. OfferInv'
    BY <1>3, <1>4, <1>6, <1>7, <1>8, <1>10, <1>11, <1>13, OffersKept DEF Exists
  <1>15. KeptInv'
    BY <1>3, <1>4, <1>7, <1>8, <1>11, CandidatesKept
  <1> QED
    BY <1>9, <1>12, <1>14, <1>15 DEF Negotiation

(* A candidate is gathered and goes on its way. *)
LEMMA GatherKept ==
    ASSUME WireOK, LoopInv, LoopInv', Negotiation, Smooth', NEW s \in Sides, NEW l \in LaneIDs,
           OnICECandidate(s, l)
    PROVE  Negotiation'
  <1>1. /\ UNCHANGED <<started, queue, negotiated, job, pending>> /\ Live(s, l)
        /\ lane[s][l] \in LaneType /\ started[s]
    BY LaneTyped DEF OnICECandidate, Smooth
  <1>2. PICK c \in Candidates :
           /\ lane' = [lane EXCEPT ![s][l].gathered = @ \cup {c}]
           /\ SendTo(Other(s), [type |-> "parallel_ice", lane |-> l, candidate |-> c])
    BY DEF OnICECandidate
  <1> DEFINE t == Other(s)
             m == [type |-> "parallel_ice", lane |-> l, candidate |-> c]
             r == [lane[s][l] EXCEPT !.gathered = @ \cup {c}]
  <1>3. t \in Sides /\ t # s /\ Other(t) = s /\ Sides = {s, t} /\ "responder" \in Sides
    BY DEF Sides, Other
  <1>4. m \in Control /\ m.type \in {"parallel_answer", "parallel_ice"} /\ IsCandidate(m, l, c)
    BY ControlTypes DEF IsCandidate
  <1>5. lane' = [lane EXCEPT ![s][l] = r]
    BY <1>2
  <1>6. /\ r.pc = lane[s][l].pc /\ r.remote = lane[s][l].remote
        /\ r.installed = lane[s][l].installed
        /\ r.gathered = lane[s][l].gathered \cup {c} /\ r.added = lane[s][l].added
    BY <1>1 DEF LaneType
  <1>7. SendTo(t, m)
    BY <1>2
  <1> HIDE DEF m, r
  <1>8. MailMoves(s) /\ Mail(t)' = Append(Mail(t), m)
    BY <1>1, <1>4, <1>7, SendMoves
  <1>9. /\ SendsOn(s) /\ TakesOn(s) /\ \A u \in Sides : MailKept(u)
        /\ \A u \in Sides :
              /\ Within(Mail(u)') \cap {x \in Control : x.type = "parallel_offer"}
                    \subseteq Within(Mail(u))
              /\ Within(Mail(u)') \subseteq Control
              /\ OffersOnce(Mail(u)) => OffersOnce(Mail(u)')
    BY <1>8, MailMoved
  <1>10. /\ lane'[s][l] = r
         /\ \A k \in LaneIDs \ {l} : UNCHANGED lane[s][k]
         /\ \A u \in Sides \ {s} : UNCHANGED lane[u]
    BY <1>5, LaneAt
  <1>11. OnlyLane(s, l) /\ JobMoves(s) /\ lane[s][l].pc = "new"
    BY <1>1, <1>10 DEF OnlyLane, JobMoves, Live
  <1>12. CapabilityInv /\ OfferInv /\ PlaceInv /\ KeptInv
    BY DEF Negotiation
  <1>13. Active(s)
    <2>1. lane[s][l] # NoLane
      BY <1>11, ActiveSides
    <2> QED
      BY <2>1, ActiveSides
  <1>14. CapabilityInv'
    BY <1>1, <1>9, <1>11, <1>12, <1>13, CapabilityKept
  <1>15. OffersOnce(Mail("responder"))
    BY <1>12 DEF OfferInv
  <1>16. OfferInv'
    BY <1>3, <1>6, <1>9, <1>10, <1>11, <1>12, <1>15, OffersKept DEF Exists
  <1>17. PlaceInv'
    <2> SUFFICES ASSUME NEW u \in Sides, NEW k \in LaneIDs
                 PROVE  Placed(u, k)'
      BY DEF PlaceInv
    <2>1. Placed(u, k)
      BY <1>12 DEF PlaceInv
    <2>2. CASE u = s /\ k = l
      BY <1>1, <1>6, <1>10, <1>11, <2>1, <2>2 DEF Placed, Exists
    <2>3. CASE u # s \/ k # l
      <3>1. lane'[u][k] = lane[u][k]
        BY <1>10, <2>3
      <3> QED
        BY <1>1, <2>1, <3>1 DEF Placed, Exists
    <2> QED
      BY <2>2, <2>3
  <1>18. KeptInv'
    <2> SUFFICES ASSUME NEW u \in Sides, NEW k \in LaneIDs,
                        lane'[u][k].pc # "closed", lane'[Other(u)][k].pc # "closed",
                        NEW d \in lane'[u][k].gathered
                 PROVE  Reaches(Other(u), k, d)'
      BY DEF KeptInv
    <2>1. Other(u) \in Sides
      BY TwoSides
    <2>2. ASSUME d \in lane[u][k].gathered
          PROVE  Reaches(Other(u), k, d)'
      <3>1. /\ lane[u][k].pc # "closed" /\ lane[Other(u)][k].pc # "closed"
            /\ lane'[Other(u)][k].added = lane[Other(u)][k].added
        BY <1>6, <1>10, <2>1
      <3>2. Reaches(Other(u), k, d)
        BY <1>12, <2>2, <3>1 DEF KeptInv
      <3>3. ASSUME NEW x \in Within(Mail(Other(u))), IsCandidate(x, k, d)
            PROVE  Reaches(Other(u), k, d)'
        BY <1>9, <2>1, <3>3 DEF MailKept, IsCandidate, Reaches
      <3> QED
        BY <1>1, <3>1, <3>2, <3>3 DEF Reaches
    <2>3. CASE d \notin lane[u][k].gathered
      <3>1. u = s /\ k = l /\ d = c
        BY <1>6, <1>10, <2>3
      <3>2. m \in Within(Mail(t)')
        <4>1. Mail(t) \in Seq(Control)
          BY <1>3, MailTypes
        <4> QED
          BY <1>4, <1>8, <4>1, EndAdded
      <3> QED
        BY <1>4, <3>1, <3>2 DEF Reaches
    <2> QED
      BY <2>2, <2>3
  <1> QED
    BY <1>14, <1>16, <1>17, <1>18 DEF Negotiation

-----------------------------------------------------------------------------
(* No candidate is lost: all together *)

LEMMA CandInit == Init => CandInv
  <1> SUFFICES ASSUME Init PROVE CandInv
    OBVIOUS
  <1>1. \A t \in Sides : Mail(t) = <<>>
    BY DEF Init, Mail
  <1>2. \A s \in Sides : ~started[s] /\ Untouched(s) /\ ~closed[s]
    BY DEF Init, Untouched
  <1>3. \A s \in Sides, l \in LaneIDs :
           /\ lane[s][l] = NoLane /\ job[s].step = "idle"
           /\ lane[s][l].pc = "none" /\ ~lane[s][l].remote /\ lane[s][l].gathered = {}
    BY DEF Init, NoLane, Idle
  <1>4. CapabilityInv
    BY <1>1, <1>2, TwoSides DEF CapabilityInv
  <1>5. OfferInv
    <2>1. \A s \in Sides : job[s].step = "idle"
      BY DEF Init, Idle
    <2>2. Within(Mail("responder")) = {} /\ OffersOnce(Mail("responder"))
      BY <1>1, TwoSides DEF Within, OffersOnce
    <2> QED
      BY <1>3, <2>1, <2>2, TwoSides DEF OfferInv, Offered, OfferComes, Working, Exists
  <1>6. PlaceInv /\ KeptInv
    BY <1>3 DEF PlaceInv, Placed, KeptInv, Exists
  <1> QED
    BY <1>2, <1>4, <1>5, <1>6 DEF CandInv, Negotiation

LEMMA LoopKept ==
    ASSUME WireInv, LoopInv, LoopInv', FlagsOK, Negotiation, Smooth, Smooth',
           NEW s \in Sides, NegotiationLoop(s)
    PROVE  Negotiation'
  <1>0. WireOK
    BY DEF WireInv
  <1>1. CASE TakeCapability(s) \/ TakeOffer(s) \/ TakeAnswer(s) \/ TakeCandidate(s)
    BY <1>0, <1>1, CapabilityTaken, OfferTaken, AnswerTaken, CandidateTaken
  <1>2. CASE \/ CreatePC(s) \/ InstallLane(s) \/ SetRemoteDescription(s)
             \/ SetLocalDescription(s)
    BY <1>0, <1>2, CreateKept, InstallKept, RemoteKept, LocalKept
  <1>3. CASE SendDescription(s)
    BY <1>0, <1>3, OfferSent, AnswerSent, TwoSides
  <1>4. CASE EndLoop(s)
    BY <1>4, NegotiationSame DEF EndLoop, Mail
  <1> QED
    BY <1>1, <1>2, <1>3, <1>4 DEF NegotiationLoop

LEMMA NextKept ==
    ASSUME LaneSafety, LoopInv', Negotiation, Smooth, Smooth',
           \A s \in Sides : ~closed[s], [Next]_vars
    PROVE  Negotiation'
  <1>1. WireInv /\ WireOK /\ LoopInv /\ FlagsOK
    BY DEF LaneSafety, WireInv
  <1>2. ASSUME NEW s \in Sides, Start(s)
        PROVE  Negotiation'
    BY <1>1, <1>2, StartKept
  <1>3. ASSUME NEW s \in Sides, HandlePrimaryMessage(s)
        PROVE  Negotiation'
    <2>1. ~QueueFull(s) /\ ~closed[s]
      BY <1>3 DEF HandlePrimaryMessage, Smooth
    <2>2. \A t \in Sides : Mail(t)' = Mail(t)
      BY <1>1, <1>3, <2>1, MailReceive
    <2> QED
      BY <1>3, <2>2, NegotiationSame DEF HandlePrimaryMessage
  <1>4. ASSUME NEW s \in Sides, HandlePrimaryClose(s) \/ Close(s)
        PROVE  FALSE
    BY <1>4 DEF HandlePrimaryClose, Close, PrimaryDown, Smooth
  <1>5. ASSUME NEW s \in Sides, NegotiationLoop(s)
        PROVE  Negotiation'
    BY <1>1, <1>5, LoopKept
  <1>6. ASSUME NEW s \in Sides, NEW l \in LaneIDs, OnICECandidate(s, l)
        PROVE  Negotiation'
    BY <1>1, <1>6, GatherKept
  <1>7. ASSUME NEW s \in Sides, NEW l \in LaneIDs,
               OnOpen(s, l) \/ (s = "responder" /\ OnDataChannel(l))
        PROVE  Negotiation'
    BY <1>1, <1>7, ChannelKept
  <1>8. ASSUME NEW s \in Sides, NEW l \in LaneIDs, RemoveLaneIfCurrent(s, l)
        PROVE  Negotiation'
    BY <1>1, <1>8, RemoveKept
  <1>9. ASSUME UNCHANGED <<wire, queue, lane, started, job, negotiated, pending>>
        PROVE  Negotiation'
    BY <1>9, NegotiationSame DEF Mail
  <1>10. ASSUME NEW s \in Sides, SendPayload(s) \/ TrySend(s)
         PROVE  Negotiation'
    BY <1>9, <1>10 DEF SendPayload, TrySend
  <1>11. ASSUME NEW l \in LaneIDs, Connect(l)
         PROVE  Negotiation'
    BY <1>9, <1>11 DEF Connect
  <1>12. ~PrimaryLost
    BY DEF PrimaryLost, PrimaryDown, Smooth
  <1>13. CASE UNCHANGED vars
    BY <1>9, <1>13 DEF vars
  <1>14. "responder" \in Sides
    BY TwoSides
  <1> QED
    BY <1>2, <1>3, <1>4, <1>5, <1>6, <1>7, <1>8, <1>10, <1>11, <1>12, <1>13, <1>14
       DEF Next, Callbacks

(* The primary channel does not come back, and what was lost stays lost. *)
LEMMA SmoothBefore ==
    ASSUME FlagsOK, [Next]_vars
    PROVE  /\ Smooth' => Smooth
           /\ (\A s \in Sides : closed[s] => ~up) => (\A s \in Sides : closed'[s] => ~up')
  <1>1. ASSUME NEW s \in Sides, HandlePrimaryClose(s) \/ Close(s)
        PROVE  ~up'
    BY <1>1 DEF HandlePrimaryClose, Close, PrimaryDown
  <1>2. ASSUME NEW s \in Sides,
               Start(s) \/ HandlePrimaryMessage(s) \/ SendPayload(s) \/ TrySend(s)
        PROVE  UNCHANGED <<up, closed>> /\ (Smooth' => Smooth)
    <2>1. CASE Start(s) \/ SendPayload(s) \/ TrySend(s)
      <3>1. UNCHANGED <<up, closed, overtaken, dropped>>
        BY <2>1 DEF Start, SendPayload, TrySend
      <3> QED
        BY <3>1 DEF Smooth
    <2>2. CASE HandlePrimaryMessage(s)
      BY <2>2 DEF HandlePrimaryMessage, Smooth
    <2> QED
      BY <1>2, <2>1, <2>2
  <1>3. ASSUME NEW s \in Sides, NegotiationLoop(s)
        PROVE  UNCHANGED <<up, closed>> /\ (Smooth' => Smooth)
    <2>1. CASE TakeCapability(s) \/ TakeOffer(s) \/ EndLoop(s)
      <3>1. UNCHANGED <<up, closed, overtaken, dropped>>
        BY <2>1 DEF TakeCapability, TakeOffer, EndLoop
      <3> QED
        BY <3>1 DEF Smooth
    <2>2. CASE TakeAnswer(s) \/ TakeCandidate(s) \/ SetRemoteDescription(s)
      <3>1. UNCHANGED <<up, closed, overtaken>>
        BY <2>2 DEF TakeAnswer, TakeCandidate, SetRemoteDescription
      <3>2. dropped => dropped'
        BY <2>2 DEF TakeAnswer, TakeCandidate, SetRemoteDescription, SetRemote, FlushFails
      <3> QED
        BY <3>1, <3>2 DEF Smooth
    <2>3. CASE CreatePC(s) \/ InstallLane(s)
      <3>1. UNCHANGED <<up, closed, overtaken, dropped>>
        BY <2>3 DEF CreatePC, InstallLane
      <3> QED
        BY <3>1 DEF Smooth
    <2>4. CASE SetLocalDescription(s)
      <3>1. UNCHANGED <<up, closed, overtaken, dropped>>
        BY <2>4 DEF SetLocalDescription
      <3> QED
        BY <3>1 DEF Smooth
    <2>5. CASE SendDescription(s)
      BY <2>5 DEF SendDescription, Smooth
    <2> QED
      BY <1>3, <2>1, <2>2, <2>3, <2>4, <2>5 DEF NegotiationLoop
  <1>4. ASSUME NEW s \in Sides, NEW l \in LaneIDs,
               OnICECandidate(s, l) \/ OnOpen(s, l) \/ RemoveLaneIfCurrent(s, l)
        PROVE  UNCHANGED <<up, closed>> /\ (Smooth' => Smooth)
    <2>1. CASE OnICECandidate(s, l)
      BY <2>1 DEF OnICECandidate, Smooth
    <2>2. CASE OnOpen(s, l) \/ RemoveLaneIfCurrent(s, l)
      <3>1. UNCHANGED <<up, closed, overtaken, dropped>>
        BY <2>2 DEF OnOpen, RemoveLaneIfCurrent
      <3> QED
        BY <3>1 DEF Smooth
    <2> QED
      BY <1>4, <2>1, <2>2
  <1>5. ASSUME NEW l \in LaneIDs, Connect(l) \/ OnDataChannel(l)
        PROVE  UNCHANGED <<up, closed>> /\ (Smooth' => Smooth)
    <2>1. UNCHANGED <<up, closed, overtaken, dropped>>
      BY <1>5 DEF Connect, OnDataChannel
    <2> QED
      BY <2>1 DEF Smooth
  <1>6. CASE PrimaryLost
    BY <1>6 DEF PrimaryLost, PrimaryDown, Smooth
  <1>7. CASE UNCHANGED vars
    BY <1>7 DEF vars, Smooth
  <1> QED
    BY <1>1, <1>2, <1>3, <1>4, <1>5, <1>6, <1>7 DEF Next, Callbacks, Smooth

LEMMA CandNext ==
    ASSUME LaneSafety, LaneSafety', CandInv, [Next]_vars
    PROVE  CandInv'
  <1>1. /\ Smooth' => Smooth
        /\ (\A s \in Sides : closed[s] => ~up) => (\A s \in Sides : closed'[s] => ~up')
    BY SmoothBefore DEF LaneSafety
  <1>2. ASSUME Smooth' PROVE Negotiation'
    <2>1. Smooth /\ Negotiation /\ \A s \in Sides : ~closed[s]
      BY <1>1, <1>2 DEF CandInv, Smooth
    <2>2. LoopInv'
      BY DEF LaneSafety
    <2> QED
      BY <1>2, <2>1, <2>2, NextKept
  <1> QED
    BY <1>1, <1>2 DEF CandInv

(***************************************************************************)
(* Beside a negotiation that goes its way, acceptCandidate and             *)
(* flushLaneCandidates lose no candidate, whether it comes before or after *)
(* the description it needs: every candidate gathered for a living lane is *)
(* on its way to the other side, set aside there for the description, or   *)
(* added.  The premise (Smooth) is that the primary channel is up, that    *)
(* no lane was offered before its side announced its capability, and that  *)
(* nothing found the queue or the candidates set aside full, or was        *)
(* refused by AddICECandidate.                                             *)
(***************************************************************************)
THEOREM CandidatesAreKept == Spec => []CandidateKept
  <1>1. Spec => [](LaneSafety /\ CandInv)
    <2>1. Init => LaneSafety /\ CandInv
      BY LanesInit, CandInit
    <2>2. LaneSafety /\ CandInv /\ [Next]_vars => (LaneSafety /\ CandInv)'
      <3> SUFFICES ASSUME LaneSafety, CandInv, [Next]_vars PROVE (LaneSafety /\ CandInv)'
        OBVIOUS
      <3>1. LaneSafety'
        BY LanesNext
      <3>2. CandInv'
        BY <3>1, CandNext
      <3> QED
        BY <3>1, <3>2
    <2> QED
      BY <2>1, <2>2, PTL DEF Spec
  <1>2. LaneSafety /\ CandInv => CandidateKept
    <2> SUFFICES ASSUME LaneSafety, CandInv, Smooth, NEW s \in Sides, NEW l \in LaneIDs,
                        lane[Other(s)][l].pc # "closed", lane[s][l].pc # "closed"
                 PROVE  /\ lane[s][l].gathered \subseteq
                              InFlight(Other(s), l) \cup pending[Other(s)][l]
                                                   \cup lane[Other(s)][l].added
                        /\ lane[Other(s)][l].remote => pending[Other(s)][l] = {}
      BY DEF CandidateKept, Smooth
    <2> DEFINE t == Other(s)
    <2>1. Negotiation /\ t \in Sides
      BY TwoSides DEF CandInv
    <2>2. lane[t][l].remote => pending[t][l] = {}
      BY <2>1 DEF Negotiation, PlaceInv, Placed
    <2>3. ASSUME NEW c \in lane[s][l].gathered
          PROVE  c \in InFlight(t, l) \cup pending[t][l] \cup lane[t][l].added
      <3>1. Reaches(t, l, c)
        BY <2>1 DEF Negotiation, KeptInv
      <3>2. ASSUME NEW m \in Within(Mail(t)), IsCandidate(m, l, c)
            PROVE  c \in InFlight(t, l)
        <4>1. PICK i \in 1 .. Len(Mail(t)) : m = Mail(t)[i]
          BY <3>2 DEF Within
        <4>2. queue[t] \in Seq(Control) /\ wire[t] \in Seq(Control)
          BY <2>1 DEF LaneSafety, WireInv, WireOK
        <4>3. \/ \E k \in DOMAIN wire[t] : m = wire[t][k]
              \/ \E k \in DOMAIN queue[t] : m = queue[t][k]
          BY <4>1, <4>2, ElementOfConcat DEF Mail
        <4>4. m.type = "parallel_ice" /\ m.lane = l /\ m.candidate = c
          BY <3>2 DEF IsCandidate
        <4> QED
          BY <4>3, <4>4 DEF InFlight
      <3> QED
        BY <3>1, <3>2 DEF Reaches
    <2> QED
      BY <2>2, <2>3
  <1> QED
    BY <1>1, <1>2, PTL
=============================================================================
