----------------------------- MODULE PeerProofs -----------------------------
(***************************************************************************)
(* Proofs about Peer, for inboxes of any capacity and any set of sessions: *)
(* both ends may ask for a relay or not, ICE may find any of the paths,    *)
(* and the fault of the session may be of any kind and come at any time.   *)
(***************************************************************************)
EXTENDS Peer, SequenceTheorems, TLAPS

-----------------------------------------------------------------------------
(* The inductive invariant *)

(* The parts of TypeOK that the lemmas below speak about. *)
PeerType ==
    [current : MaybeKind, transport : MaybeKind, pending : SUBSET Kinds,
     closed : BOOLEAN, ctx : BOOLEAN, result : MaybeKind \cup {"taken"},
     error : {"none", "set", "taken"}, began : BOOLEAN,
     call : {"idle", "dial", "start", "direct", "ask", "wait", "returned"},
     returned : MaybeKind \cup {"error"},
     step : {"off", "loop", "makeOffer", "sendOffer", "sendAnswer",
             "askRestart", "askReady", "ended"},
     pc : MaybeKind]

ConnType ==
    [state : {"none", "live", "closed"}, local : BOOLEAN, remote : MaybeKind,
     added : SUBSET Kinds, candidate : {"none", "active", "done"},
     channel : {"none", "open", "current", "done"}]

(***************************************************************************)
(* The roles: what each side may be told and what its loop may be doing.   *)
(* Only the initiator is told to offer and that the relay is ready; only   *)
(* the responder is asked to change and answers.                           *)
(***************************************************************************)
ToInitiator == {"peer_joined", "answer", "ice_candidate", "transport_ready",
                "transport_unavailable", "peer_left", "error"}

ToResponder == {"offer", "ice_candidate", "transport_restart", "peer_left", "error"}

RoleInv ==
    /\ \A i \in 1 .. Len(inbox["initiator"]) :
          inbox["initiator"][i].type \in ToInitiator
    /\ \A i \in 1 .. Len(inbox["responder"]) :
          inbox["responder"][i].type \in ToResponder
    /\ peer["initiator"].step \notin {"sendAnswer", "askRestart"}
    /\ peer["responder"].step \notin {"makeOffer", "sendOffer", "askReady"}

(* A description that is about to be sent is that of a connection. *)
PCInv ==
    \A s \in Sides : peer[s].step \in {"sendOffer", "sendAnswer"} => peer[s].pc \in Kinds

Types == TypeOK /\ RoleInv /\ PCInv

-----------------------------------------------------------------------------
(* Side s has changed to the relay, or tried to. *)
Changed(s) == conn[s]["relay"].state # "none"

(* A side that has changed does not go back. *)
CurrentInv ==
    \A s \in Sides :
        /\ peer[s].current = "relay" => Changed(s)
        /\ peer[s].current = "direct" => ~Changed(s)
        /\ peer[s].call \in {"idle", "dial"} => peer[s].step = "off"
        /\ peer[s].step = "off" => ~Changed(s)

(* The initiator has sent its first offer. *)
Offered ==
    /\ peer["initiator"].began
    /\ peer["initiator"].step \in {"makeOffer", "sendOffer"} => Changed("initiator")

(***************************************************************************)
(* The order of the handover: a relay is asked for after the direct offer, *)
(* the responder changes after it was asked, the initiator after that; and *)
(* which descriptions may be about to be sent, or have been taken, when.   *)
(***************************************************************************)
OrderInv ==
    LET I == peer["initiator"]
        R == peer["responder"]
    IN  /\ I.began => announced
        /\ I.step \in {"makeOffer", "sendOffer"} => I.began
        /\ I.call = "direct" => I.began
        /\ relaying # "no" => Offered
        /\ Changed("responder") \/ R.step = "askRestart" => relaying = "done"
        /\ Changed("initiator") \/ I.step = "askReady" => Changed("responder")
        /\ I.step = "sendOffer" => (I.pc = "relay" <=> Changed("initiator"))
        /\ R.step = "sendAnswer" /\ R.pc = "direct" => Offered /\ ~Changed("responder")
        /\ R.step = "sendAnswer" /\ R.pc = "relay" => Changed("initiator")
        /\ conn["initiator"]["direct"].remote # "none" => Offered

(***************************************************************************)
(* What a signal in the inbox of side t says about the session: a          *)
(* description of the direct connection finds side t unchanged, and one of *)
(* the relayed connection finds that both sides have changed.              *)
(***************************************************************************)
Describes(m, k) == m.type \in {"offer", "answer"} /\ m.of = k

Fits(t, m) ==
    /\ m.type = "peer_joined" => announced /\ ~peer["initiator"].began
    /\ m.type = "transport_restart" => relaying = "done"
    /\ m.type = "transport_ready" => Changed("responder")
    /\ Describes(m, "direct") => /\ Offered /\ ~Changed(t)
                                /\ peer[t].step \notin {"askRestart", "askReady"}
    /\ Describes(m, "relay") => Changed("initiator")

(***************************************************************************)
(* Signal a may be ahead of signal b: the handover is announced after the  *)
(* last direct description, and the session is complete only once.         *)
(***************************************************************************)
MayPrecede(a, b) ==
    /\ a.type \in {"transport_restart", "transport_ready"} => ~Describes(b, "direct")
    /\ a.type = "peer_joined" => b.type # "peer_joined"

QueueInv ==
    \A t \in Sides : \A i \in 1 .. Len(inbox[t]) :
        /\ Fits(t, inbox[t][i])
        /\ \A j \in 1 .. Len(inbox[t]) : j < i => MayPrecede(inbox[t][j], inbox[t][i])

HandoverInv == CurrentInv /\ OrderInv /\ QueueInv /\ DescriptionMatches

-----------------------------------------------------------------------------
(* Facts about the operators of the model *)

(* There are two sides, each the other of the other. *)
LEMMA TwoSides ==
    /\ Sides = {"initiator", "responder"} /\ Kinds = {"direct", "relay"}
    /\ Other("initiator") = "responder" /\ Other("responder") = "initiator"
    /\ \A s \in Sides : Other(s) \in Sides /\ Other(s) # s
  BY DEF Sides, Kinds, Other

(* TypeOK, in the words of this module. *)
LEMMA TypeParts ==
    TypeOK <=>
        /\ options \in Sessions
        /\ peer \in [Sides -> PeerType]
        /\ conn \in [Sides -> [Kinds -> ConnType]]
        /\ linked \subseteq Kinds
        /\ relaying \in {"no", "connect", "callback", "done"}
        /\ sock \in [Sides -> {"none", "open", "down"}]
        /\ inbox \in [Sides -> Seq(Signal)]
        /\ \A s \in Sides : Len(inbox[s]) <= QueueSize
        /\ {announced, dropped, faulty} \subseteq BOOLEAN
        /\ ~peer["responder"].began
  BY DEF TypeOK, PeerType, ConnType

(* What the methods of Peer make of its fields. *)
LEMMA FailFields ==
    ASSUME NEW p \in PeerType
    PROVE  /\ Fail(p) \in PeerType
           /\ \A f \in {"current", "transport", "pending", "closed", "ctx", "result",
                        "began", "call", "returned", "step", "pc"} : Fail(p)[f] = p[f]
  BY DEF PeerType, Fail

LEMMA EndedFields ==
    ASSUME NEW p \in PeerType
    PROVE  LET q == [p EXCEPT !.step = "ended", !.pc = "none"] IN
           /\ q \in PeerType
           /\ \A f \in {"current", "transport", "pending", "closed", "ctx", "result",
                        "began", "call", "returned"} : q[f] = p[f]
           /\ q.step = "ended" /\ q.pc = "none"
  <1> DEFINE q == [p EXCEPT !.step = "ended", !.pc = "none"]
  <1>0. "none" \in MaybeKind
    BY DEF MaybeKind
  <1>1. q \in PeerType
    BY <1>0 DEF PeerType
  <1>2. \A f \in {"current", "transport", "pending", "closed", "ctx", "result",
                 "began", "call", "returned"} : q[f] = p[f]
    BY DEF PeerType
  <1>3. q.step = "ended" /\ q.pc = "none"
    BY DEF PeerType
  <1> QED
    BY <1>1, <1>2, <1>3

LEMMA LoopFailedFields ==
    ASSUME NEW p \in PeerType
    PROVE  /\ LoopFailed(p) \in PeerType
           /\ \A f \in {"current", "transport", "pending", "closed", "ctx", "result",
                        "began", "call", "returned"} : LoopFailed(p)[f] = p[f]
           /\ LoopFailed(p).step = "ended" /\ LoopFailed(p).pc = "none"
  <1>1. Fail(p) \in PeerType
    BY FailFields
  <1> DEFINE q == Fail(p)
  <1> HIDE DEF q
  <1>2. q \in PeerType
    BY <1>1 DEF q
  <1> DEFINE z == [q EXCEPT !.step = "ended", !.pc = "none"]
  <1>3. LoopFailed(p) = z
    BY DEF q, LoopFailed
  <1>4. \A f \in {"current", "transport", "pending", "closed", "ctx", "result",
                 "began", "call", "returned"} : q[f] = p[f]
    BY FailFields DEF q
  <1>5. /\ z \in PeerType
        /\ \A f \in {"current", "transport", "pending", "closed", "ctx", "result",
                     "began", "call", "returned"} : z[f] = q[f]
        /\ z.step = "ended" /\ z.pc = "none"
    BY <1>2, EndedFields
  <1> HIDE DEF z
  <1> QED
    BY <1>3, <1>4, <1>5

LEMMA ReturnedFields ==
    ASSUME NEW p \in PeerType, NEW r \in MaybeKind \cup {"error"}
    PROVE  /\ Returned(p, r) \in PeerType
           /\ \A f \in {"current", "transport", "pending", "closed", "ctx", "result",
                        "began", "error", "step", "pc"} : Returned(p, r)[f] = p[f]
           /\ Returned(p, r).call = "returned"
  BY DEF PeerType, Returned

LEMMA ClosedPeerFields ==
    ASSUME NEW p \in PeerType
    PROVE  /\ ClosedPeer(p) \in PeerType
           /\ \A f \in {"pending", "ctx", "result", "began", "error", "call",
                        "returned", "step", "pc"} : ClosedPeer(p)[f] = p[f]
           /\ p.closed => ClosedPeer(p) = p
           /\ ~p.closed => /\ ClosedPeer(p).current = "none"
                           /\ ClosedPeer(p).transport = "none"
  <1>1. CASE p.closed
    BY <1>1 DEF ClosedPeer
  <1>2. CASE ~p.closed
    <2> DEFINE q == [p EXCEPT !.closed = TRUE, !.current = "none",
                              !.transport = "none"]
    <2>1. q \in PeerType
      BY DEF PeerType, MaybeKind
    <2>2. \A f \in {"pending", "ctx", "result", "began", "error", "call",
                   "returned", "step", "pc"} : q[f] = p[f]
      BY DEF PeerType
    <2>3. q.current = "none" /\ q.transport = "none"
      BY DEF PeerType
    <2>4. ClosedPeer(p) = q
      BY <1>2 DEF ClosedPeer
    <2> HIDE DEF q
    <2> QED
      BY <1>2, <2>1, <2>2, <2>3, <2>4
  <1> QED
    BY <1>1, <1>2

LEMMA ReplaceFields ==
    ASSUME NEW p \in PeerType, NEW k \in Kinds
    PROVE  /\ ReplaceConnection(p, k) \in PeerType
           /\ \A f \in {"closed", "ctx", "result", "began", "error", "call",
                        "returned", "step", "pc"} : ReplaceConnection(p, k)[f] = p[f]
           /\ ReplaceConnection(p, k).current = k
           /\ ReplaceConnection(p, k).transport = "none"
  BY DEF PeerType, ReplaceConnection, MaybeKind

LEMMA KeepFields ==
    ASSUME NEW p \in PeerType, NEW k \in Kinds
    PROVE  /\ KeepCandidate(p, k) \in PeerType
           /\ \A f \in {"current", "transport", "closed", "ctx", "result", "began",
                        "error", "call", "returned", "step", "pc"} :
                 KeepCandidate(p, k)[f] = p[f]
  BY DEF PeerType, KeepCandidate

(* replaceConnection and Close leave well-typed connections behind. *)
LEMMA ConnOperators ==
    ASSUME conn \in [Sides -> [Kinds -> ConnType]], NEW s \in Sides, NEW k \in Kinds
    PROVE  /\ Installed(s, k) \in [Kinds -> ConnType]
           /\ Unfinished(s, k) \in [Kinds -> ConnType]
           /\ ClosedConn(s) \in [Kinds -> ConnType]
  <1>1. NoConn \in ConnType /\ [NoConn EXCEPT !.state = "live"] \in ConnType
    BY DEF NoConn, ConnType, MaybeKind
  <1>2. \A c \in ConnType : ClosePrevious(c) \in ConnType
    BY DEF NoConn, ConnType, MaybeKind, ClosePrevious
  <1>3. Installed(s, k) \in [Kinds -> ConnType]
    BY <1>1, <1>2 DEF Installed
  <1>4. Unfinished(s, k) \in [Kinds -> ConnType]
    BY <1>3 DEF Unfinished, ConnType
  <1>5. ClosedConn(s) \in [Kinds -> ConnType]
    BY <1>2 DEF ClosedConn
  <1> QED
    BY <1>3, <1>4, <1>5

(* A description and a candidate say which connection they are of. *)
LEMMA SignalFields ==
    ASSUME NEW m \in Signal
    PROVE  /\ m.type \in {"offer", "answer", "ice_candidate"} => m.of \in Kinds
           /\ m.type \in {"peer_joined", "transport_restart", "transport_ready",
                          "transport_unavailable", "peer_left", "error", "offer",
                          "answer", "ice_candidate"}
  BY DEF Signal

(* The signals that are sent. *)
LEMMA SignalTypes ==
    /\ \A t \in {"peer_joined", "transport_restart", "transport_ready",
                 "transport_unavailable", "peer_left", "error"} :
          [type |-> t] \in Signal
    /\ \A t \in {"offer", "answer", "ice_candidate"}, k \in Kinds :
          [type |-> t, of |-> k] \in Signal
  BY DEF Signal

-----------------------------------------------------------------------------
(* Types and roles *)

InboxType ==
    /\ inbox \in [Sides -> Seq(Signal)]
    /\ \A s \in Sides : Len(inbox[s]) <= QueueSize
    /\ \A i \in 1 .. Len(inbox["initiator"]) :
          inbox["initiator"][i].type \in ToInitiator
    /\ \A i \in 1 .. Len(inbox["responder"]) :
          inbox["responder"][i].type \in ToResponder

(* What may be told to each side. *)
ToSide(s) == IF s = "initiator" THEN ToInitiator ELSE ToResponder

(* A delivery appends the signal, or leaves the inbox as it is. *)
LEMMA DeliverCases ==
    ASSUME inbox \in [Sides -> Seq(Signal)], NEW t \in Sides, NEW m, Deliver(t, m)
    PROVE  /\ \/ inbox' = inbox
              \/ HasRoom(inbox[t]) /\ inbox' = [inbox EXCEPT ![t] = Append(@, m)]
           /\ dropped \in BOOLEAN => dropped' \in BOOLEAN
  <1>1. CASE sock[t] = "open" /\ peer[t].step # "ended" /\ HasRoom(inbox[t])
    BY <1>1 DEF Deliver
  <1>2. CASE ~(sock[t] = "open" /\ peer[t].step # "ended" /\ HasRoom(inbox[t]))
    BY <1>2 DEF Deliver
  <1> QED
    BY <1>1, <1>2

(* Room is for one more, and no more than that. *)
LEMMA DeliverType ==
    ASSUME InboxType, NEW t \in Sides, NEW m \in Signal, m.type \in ToSide(t),
           \/ inbox' = inbox
           \/ HasRoom(inbox[t]) /\ inbox' = [inbox EXCEPT ![t] = Append(@, m)]
    PROVE  InboxType'
  <1>1. CASE inbox' = inbox
    BY <1>1 DEF InboxType
  <1>2. CASE HasRoom(inbox[t]) /\ inbox' = [inbox EXCEPT ![t] = Append(@, m)]
    <2>1. inbox' \in [Sides -> Seq(Signal)]
      BY <1>2 DEF InboxType
    <2>2. \A s \in Sides : Len(inbox'[s]) <= QueueSize
      BY <1>2, PeerAssumption DEF InboxType, HasRoom
    <2>3. \A s \in Sides : \A i \in 1 .. Len(inbox'[s]) :
             \/ i \in 1 .. Len(inbox[s]) /\ inbox'[s][i] = inbox[s][i]
             \/ s = t /\ inbox'[s][i] = m
      BY <1>2 DEF InboxType
    <2>4. \A i \in 1 .. Len(inbox'["initiator"]) :
             inbox'["initiator"][i].type \in ToInitiator
      BY <2>3, TwoSides DEF InboxType, ToSide
    <2>5. \A i \in 1 .. Len(inbox'["responder"]) :
             inbox'["responder"][i].type \in ToResponder
      BY <2>3, TwoSides DEF InboxType, ToSide
    <2> QED
      BY <2>1, <2>2, <2>4, <2>5 DEF InboxType
  <1> QED
    BY <1>1, <1>2

(* Handling a signal only takes it away. *)
LEMMA TakenType ==
    ASSUME InboxType, NEW s \in Sides, inbox[s] # <<>>,
           \/ inbox' = [inbox EXCEPT ![s] = <<>>]
           \/ inbox' = [inbox EXCEPT ![s] = Tail(@)]
    PROVE  InboxType'
  <1>1. CASE inbox' = [inbox EXCEPT ![s] = <<>>]
    BY <1>1, PeerAssumption DEF InboxType
  <1>2. CASE inbox' = [inbox EXCEPT ![s] = Tail(@)]
    <2>1. inbox[s] \in Seq(Signal) /\ Tail(inbox[s]) \in Seq(Signal)
          /\ Len(Tail(inbox[s])) = Len(inbox[s]) - 1
      BY DEF InboxType
    <2>2. \A t \in Sides : \A i \in 1 .. Len(inbox'[t]) :
             \E j \in 1 .. Len(inbox[t]) : inbox'[t][i] = inbox[t][j]
      <3> SUFFICES ASSUME NEW t \in Sides, NEW i \in 1 .. Len(inbox'[t])
                   PROVE  \E j \in 1 .. Len(inbox[t]) : inbox'[t][i] = inbox[t][j]
        OBVIOUS
      <3>1. CASE t = s
        <4>1. inbox'[t][i] = inbox[t][i + 1] /\ i + 1 \in 1 .. Len(inbox[t])
          BY <1>2, <2>1, <3>1 DEF InboxType
        <4> QED
          BY <4>1
      <3>2. CASE t # s
        BY <1>2, <3>2 DEF InboxType
      <3> QED
        BY <3>1, <3>2
    <2>3. inbox' \in [Sides -> Seq(Signal)]
          /\ \A t \in Sides : Len(inbox'[t]) <= QueueSize
      <3>1. inbox \in [Sides -> Seq(Signal)] /\ \A t \in Sides : Len(inbox[t]) <= QueueSize
        BY DEF InboxType
      <3>2. inbox' \in [Sides -> Seq(Signal)] /\ inbox'[s] = Tail(inbox[s])
            /\ \A t \in Sides \ {s} : inbox'[t] = inbox[t]
        BY <1>2, <2>1, <3>1
      <3>3. Len(inbox'[s]) <= QueueSize
        BY <2>1, <3>1, <3>2, PeerAssumption
      <3> QED
        BY <3>1, <3>2, <3>3
    <2>4. \A i \in 1 .. Len(inbox'["initiator"]) : inbox'["initiator"][i].type \in ToInitiator
      BY <2>2, TwoSides DEF InboxType
    <2>5. \A i \in 1 .. Len(inbox'["responder"]) : inbox'["responder"][i].type \in ToResponder
      BY <2>2, TwoSides DEF InboxType
    <2> QED
      BY <2>3, <2>4, <2>5 DEF InboxType
  <1> QED
    BY <1>1, <1>2

-----------------------------------------------------------------------------
(* The parts of Types, by the variables they are about. *)
PeerOK ==
    /\ peer \in [Sides -> PeerType]
    /\ ~peer["responder"].began
    /\ peer["initiator"].step \notin {"sendAnswer", "askRestart"}
    /\ peer["responder"].step \notin {"makeOffer", "sendOffer", "askReady"}
    /\ PCInv

ConnOK == conn \in [Sides -> [Kinds -> ConnType]]

RestOK ==
    /\ options \in Sessions
    /\ linked \subseteq Kinds
    /\ relaying \in {"no", "connect", "callback", "done"}
    /\ sock \in [Sides -> {"none", "open", "down"}]
    /\ {announced, dropped, faulty} \subseteq BOOLEAN

LEMMA TypesParts == Types <=> PeerOK /\ ConnOK /\ InboxType /\ RestOK
  <1>1. Types => PeerOK /\ ConnOK /\ InboxType /\ RestOK
    BY TypeParts DEF Types, RoleInv, PeerOK, ConnOK, InboxType, RestOK
  <1>2. (PeerOK /\ ConnOK /\ InboxType /\ RestOK) => Types
    BY TypeParts DEF Types, RoleInv, PeerOK, ConnOK, InboxType, RestOK
  <1> QED
    BY <1>1, <1>2

(* What the fields of side s may be. *)
GoodPeer(s, p) ==
    /\ p \in PeerType
    /\ s = "responder" => ~p.began /\ p.step \notin {"makeOffer", "sendOffer", "askReady"}
    /\ s = "initiator" => p.step \notin {"sendAnswer", "askRestart"}
    /\ p.step \in {"sendOffer", "sendAnswer"} => p.pc \in Kinds

LEMMA PeerOKParts ==
    PeerOK <=> /\ peer \in [Sides -> PeerType]
               /\ \A s \in Sides : GoodPeer(s, peer[s])
  BY TwoSides DEF PeerOK, GoodPeer, PCInv

(* A step of one side changes the fields of that side. *)
LEMMA PeerStep ==
    ASSUME PeerOK, NEW s \in Sides, NEW p, GoodPeer(s, p), peer' = [peer EXCEPT ![s] = p]
    PROVE  PeerOK'
  <1>1. p \in PeerType
    BY DEF GoodPeer
  <1>2. peer' \in [Sides -> PeerType]
    BY <1>1 DEF PeerOK
  <1>3. \A t \in Sides : peer'[t] = IF t = s THEN p ELSE peer[t]
    BY DEF PeerOK
  <1>4. \A t \in Sides : GoodPeer(t, peer'[t])
    BY <1>3, PeerOKParts
  <1>5. (peer \in [Sides -> PeerType])'
    BY <1>2
  <1> QED
    BY <1>4, <1>5, TwoSides DEF PeerOK, GoodPeer, PCInv

(* What the operators on the fields of Peer keep. *)
LEMMA GoodOperators ==
    ASSUME NEW s \in Sides, NEW p, GoodPeer(s, p), NEW k \in Kinds,
           NEW r \in MaybeKind \cup {"error"}
    PROVE  /\ GoodPeer(s, Fail(p)) /\ GoodPeer(s, LoopFailed(p))
           /\ GoodPeer(s, Returned(p, r)) /\ GoodPeer(s, ClosedPeer(p))
           /\ GoodPeer(s, ReplaceConnection(p, k)) /\ GoodPeer(s, KeepCandidate(p, k))
  <1>0. p \in PeerType
    BY DEF GoodPeer
  <1>1. GoodPeer(s, Fail(p))
    BY <1>0, FailFields DEF GoodPeer
  <1>2. GoodPeer(s, LoopFailed(p))
    BY <1>0, LoopFailedFields DEF GoodPeer
  <1>3. GoodPeer(s, Returned(p, r))
    BY <1>0, ReturnedFields DEF GoodPeer
  <1>4. GoodPeer(s, ClosedPeer(p))
    BY <1>0, ClosedPeerFields DEF GoodPeer
  <1>5. GoodPeer(s, ReplaceConnection(p, k))
    BY <1>0, ReplaceFields DEF GoodPeer
  <1>6. GoodPeer(s, KeepCandidate(p, k))
    BY <1>0, KeepFields DEF GoodPeer
  <1> QED
    BY <1>1, <1>2, <1>3, <1>4, <1>5, <1>6

(* A fault of the session happens at most once. *)
LEMMA FaultType ==
    ASSUME NEW k, faulty \in BOOLEAN, Fault(k)
    PROVE  faulty' \in BOOLEAN
  BY DEF Fault

-----------------------------------------------------------------------------
(* Each step keeps the types and the roles. *)

(* What Connect and the callbacks write into the fields. *)
LEMMA SmallUpdates ==
    ASSUME NEW s \in Sides, NEW p, GoodPeer(s, p)
    PROVE  /\ \A c \in {"dial", "start", "direct", "ask", "wait"} :
                 GoodPeer(s, [p EXCEPT !.call = c])
           /\ GoodPeer(s, [p EXCEPT !.result = "taken"])
           /\ GoodPeer(s, [p EXCEPT !.error = "taken"])
           /\ GoodPeer(s, [p EXCEPT !.ctx = TRUE])
           /\ \A k \in MaybeKind \cup {"taken"} : GoodPeer(s, [p EXCEPT !.result = k])
           /\ \A k \in Kinds : GoodPeer(s, [p EXCEPT !.transport = k])
           /\ GoodPeer(s, [p EXCEPT !.pending = {}])
           /\ \A x \in {"loop", "ended"} : GoodPeer(s, [p EXCEPT !.step = x])
  <1>1. \A c \in {"dial", "start", "direct", "ask", "wait"} :
           GoodPeer(s, [p EXCEPT !.call = c])
    BY DEF GoodPeer, PeerType
  <1>2. GoodPeer(s, [p EXCEPT !.result = "taken"])
    BY DEF GoodPeer, PeerType
  <1>3. GoodPeer(s, [p EXCEPT !.error = "taken"])
    BY DEF GoodPeer, PeerType
  <1>4. GoodPeer(s, [p EXCEPT !.ctx = TRUE])
    BY DEF GoodPeer, PeerType
  <1>5. \A k \in MaybeKind \cup {"taken"} : GoodPeer(s, [p EXCEPT !.result = k])
    BY DEF GoodPeer, PeerType
  <1>6. \A k \in Kinds : GoodPeer(s, [p EXCEPT !.transport = k])
    <2>1. \A k \in Kinds : k \in MaybeKind
      BY DEF MaybeKind
    <2> QED
      BY <2>1 DEF GoodPeer, PeerType
  <1>7. GoodPeer(s, [p EXCEPT !.pending = {}])
    BY DEF GoodPeer, PeerType
  <1>8. \A x \in {"loop", "ended"} : GoodPeer(s, [p EXCEPT !.step = x])
    BY DEF GoodPeer, PeerType
  <1> QED
    BY <1>1, <1>2, <1>3, <1>4, <1>5, <1>6, <1>7, <1>8

(* The fields of the side that takes a step are its own before the step. *)
LEMMA OwnPeer ==
    ASSUME PeerOK, NEW s \in Sides
    PROVE  GoodPeer(s, peer[s]) /\ peer[s] \in PeerType
  BY PeerOKParts DEF GoodPeer

(* A connection of one side is replaced by a well-typed one. *)
LEMMA ConnStep ==
    ASSUME ConnOK, NEW s \in Sides, NEW c \in [Kinds -> ConnType],
           conn' = [conn EXCEPT ![s] = c]
    PROVE  ConnOK'
  BY DEF ConnOK

LEMMA OneConnStep ==
    ASSUME ConnOK, NEW s \in Sides, NEW k \in Kinds, NEW c \in ConnType,
           conn' = [conn EXCEPT ![s][k] = c]
    PROVE  ConnOK'
  BY DEF ConnOK

(* The types hold after a step if their parts do. *)
LEMMA TypesAfter ==
    ASSUME PeerOK', ConnOK', InboxType', RestOK'
    PROVE  Types'
  BY DEF Types, TypeOK, RoleInv, PCInv, PeerOK, ConnOK, InboxType, RestOK, PeerType,
         ConnType

(* Connect up to the dial. *)
LEMMA ConnectTypes ==
    ASSUME Types, NEW s \in Sides, Connect(s)
    PROVE  Types'
  <1>0. PeerOK /\ ConnOK /\ InboxType /\ RestOK /\ GoodPeer(s, peer[s])
    BY TypesParts, OwnPeer
  <1>1. "direct" \in Kinds /\ "error" \in MaybeKind \cup {"error"}
    BY DEF Kinds
  <1>2. ConnOK'
    BY <1>0, <1>1, ConnOperators, ConnStep DEF Connect, ConnOK
  <1>3. GoodPeer(s, [ReplaceConnection(peer[s], "direct") EXCEPT !.call = "dial"])
    <2>1. GoodPeer(s, ReplaceConnection(peer[s], "direct"))
      BY <1>0, <1>1, GoodOperators
    <2> QED
      BY <2>1, SmallUpdates
  <1>4. GoodPeer(s, Returned(peer[s], "error"))
        /\ GoodPeer(s, Returned(ReplaceConnection(peer[s], "direct"), "error"))
    BY <1>0, <1>1, GoodOperators
  <1>5. PeerOK'
    BY <1>0, <1>3, <1>4, PeerStep DEF Connect
  <1>6. InboxType'
    BY <1>0 DEF Connect, signals, InboxType
  <1>7. RestOK'
    BY <1>0, FaultType DEF Connect, RestOK, callUnchanged, signals
  <1> QED
    BY <1>2, <1>5, <1>6, <1>7, TypesAfter

(* The dial. *)
LEMMA DialTypes ==
    ASSUME Types, NEW s \in Sides, Dial(s)
    PROVE  Types'
  <1>0. PeerOK /\ ConnOK /\ InboxType /\ RestOK /\ GoodPeer(s, peer[s])
    BY TypesParts, OwnPeer
  <1>1. "direct" \in Kinds /\ "error" \in MaybeKind \cup {"error"}
    BY DEF Kinds
  <1>2. ConnOK'
    BY <1>0, <1>1, ConnOperators, ConnStep DEF Dial, ConnOK
  <1>3. GoodPeer(s, Returned(ClosedPeer(peer[s]), "error"))
    BY <1>0, <1>1, GoodOperators
  <1>4. PeerOK'
    <2>1. CASE sock' = [sock EXCEPT ![s] = "open"]
               /\ peer' = [peer EXCEPT
                     ![s].call = IF s = "initiator" THEN "start" ELSE "wait",
                     ![s].step = "loop"]
      <3> DEFINE c == IF s = "initiator" THEN "start" ELSE "wait"
                 p == [peer[s] EXCEPT !.call = c]
      <3>1. GoodPeer(s, p)
        BY <1>0, SmallUpdates
      <3>2. GoodPeer(s, [p EXCEPT !.step = "loop"])
        <4> HIDE DEF p
        <4> QED
          BY <3>1, SmallUpdates
      <3>3. peer' = [peer EXCEPT ![s] = [p EXCEPT !.step = "loop"]]
        BY <1>0, <2>1 DEF PeerOK
      <3> QED
        BY <1>0, <3>2, <3>3, PeerStep
    <2>2. CASE peer' = [peer EXCEPT ![s] = Returned(ClosedPeer(@), "error")]
      BY <1>0, <1>3, <2>2, PeerStep
    <2> QED
      BY <2>1, <2>2 DEF Dial
  <1>5. InboxType'
    BY <1>0 DEF Dial, signals, InboxType
  <1>6. RestOK'
    BY <1>0, FaultType DEF Dial, RestOK, callUnchanged, signals
  <1> QED
    BY <1>2, <1>4, <1>5, <1>6, TypesAfter

(* The waits of Connect and its timers. *)
LEMMA CallTypes ==
    ASSUME Types, NEW s \in Sides,
           \/ TakeResult(s) \/ TakeError(s) \/ CtxDone(s)
           \/ NegotiationStarted \/ DirectTimeout \/ RelayTimeout
    PROVE  Types'
  <1>0. PeerOK /\ ConnOK /\ InboxType /\ RestOK /\ GoodPeer(s, peer[s])
    BY TypesParts, OwnPeer
  <1>1. "initiator" \in Sides /\ GoodPeer("initiator", peer["initiator"])
        /\ "error" \in MaybeKind \cup {"error"}
        /\ "direct" \in Kinds /\ \A k \in Kinds : k \in MaybeKind \cup {"error"}
    BY <1>0, OwnPeer, TwoSides DEF MaybeKind
  <1>2. ConnOK' /\ InboxType'
    BY <1>0 DEF TakeResult, TakeError, CtxDone, NegotiationStarted, DirectTimeout,
       RelayTimeout, signals, ConnOK, InboxType
  <1>3. RestOK'
    BY <1>0, FaultType DEF TakeResult, TakeError, CtxDone, NegotiationStarted,
       DirectTimeout, RelayTimeout, signals, RestOK, callUnchanged
  <1>4. PeerOK'
    <2>1. CASE TakeResult(s)
      <3>1. peer[s].result \in MaybeKind \cup {"error"}
        BY <1>1, <2>1 DEF TakeResult
      <3>2. GoodPeer(s, Returned(peer[s], peer[s].result))
        BY <1>0, <1>1, <3>1, GoodOperators
      <3>3. GoodPeer(s, [Returned(peer[s], peer[s].result) EXCEPT !.result = "taken"])
        BY <3>2, SmallUpdates
      <3> QED
        BY <1>0, <2>1, <3>3, PeerStep DEF TakeResult
    <2>2. CASE TakeError(s)
      <3>1. GoodPeer(s, Returned(peer[s], "error"))
        BY <1>0, <1>1, GoodOperators
      <3>2. GoodPeer(s, [Returned(peer[s], "error") EXCEPT !.error = "taken"])
        BY <3>1, SmallUpdates
      <3> QED
        BY <1>0, <2>2, <3>1, <3>2, PeerStep DEF TakeError
    <2>3. CASE CtxDone(s)
      BY <1>0, <2>3, SmallUpdates, PeerStep DEF CtxDone
    <2>4. CASE NegotiationStarted
      BY <1>0, <1>1, <2>4, SmallUpdates, PeerStep DEF NegotiationStarted
    <2>5. CASE DirectTimeout
      <3>1. CASE options.allowRelay
        <4>1. PICK c \in {"ask", "wait"} :
                 peer' = [peer EXCEPT !["initiator"] =
                             [peer["initiator"] EXCEPT !.call = c]]
          BY <2>5, <3>1 DEF DirectTimeout
        <4>2. GoodPeer("initiator", [peer["initiator"] EXCEPT !.call = c])
          BY <1>1, SmallUpdates
        <4> QED
          BY <1>0, <1>1, <4>1, <4>2, PeerStep
      <3>2. CASE ~options.allowRelay
        BY <1>0, <1>1, <2>5, <3>2, GoodOperators, PeerStep DEF DirectTimeout
      <3> QED
        BY <3>1, <3>2
    <2>6. CASE RelayTimeout
      BY <1>0, <1>1, <2>6, GoodOperators, PeerStep DEF RelayTimeout
    <2> QED
      BY <2>1, <2>2, <2>3, <2>4, <2>5, <2>6
  <1> QED
    BY <1>2, <1>3, <1>4, TypesAfter

(* beginRelay asks the responder to change. *)
LEMMA BeginRelayTypes ==
    ASSUME Types, BeginRelay
    PROVE  Types'
  <1> DEFINE p == [peer["initiator"] EXCEPT
                      !.call = IF relaying = "connect" THEN "wait" ELSE @]
  <1>0. PeerOK /\ ConnOK /\ InboxType /\ RestOK /\ "initiator" \in Sides
        /\ GoodPeer("initiator", peer["initiator"])
    BY TypesParts, OwnPeer, TwoSides
  <1>1. "direct" \in Kinds /\ "error" \in MaybeKind \cup {"error"}
    BY DEF Kinds
  <1>2. GoodPeer("initiator", p)
    <2>1. CASE relaying = "connect"
      BY <1>0, <2>1, SmallUpdates
    <2>2. CASE relaying # "connect"
      <3>1. p = peer["initiator"]
        BY <1>0, <2>2 DEF GoodPeer, PeerType
      <3> QED
        BY <1>0, <3>1
    <2> QED
      BY <2>1, <2>2
  <1> HIDE DEF p
  <1>3. GoodPeer("initiator", Fail(p))
    BY <1>0, <1>1, <1>2, GoodOperators
  <1>4. peer' = [peer EXCEPT !["initiator"] = p]
        \/ peer' = [peer EXCEPT !["initiator"] = Fail(p)]
    BY DEF BeginRelay, p
  <1>5. PeerOK'
    BY <1>0, <1>2, <1>3, <1>4, PeerStep
  <1>6. ConnOK'
    BY <1>0 DEF BeginRelay, ConnOK
  <1>7. \/ UNCHANGED <<inbox, dropped>>
        \/ Deliver("responder", [type |-> "transport_restart"])
    BY TwoSides DEF BeginRelay, SendSignal, signals
  <1>8. [type |-> "transport_restart"] \in Signal
        /\ [type |-> "transport_restart"].type \in ToSide("responder")
        /\ "responder" \in Sides
    BY SignalTypes, TwoSides DEF ToSide, ToResponder
  <1>9. InboxType' /\ dropped' \in BOOLEAN
    <2>1. CASE UNCHANGED <<inbox, dropped>>
      BY <1>0, <2>1 DEF InboxType, RestOK
    <2>2. CASE Deliver("responder", [type |-> "transport_restart"])
      BY <1>0, <1>8, <2>2, DeliverCases, DeliverType DEF InboxType, RestOK
    <2> QED
      BY <1>7, <2>1, <2>2
  <1>10. faulty' \in BOOLEAN
    BY <1>0, FaultType DEF BeginRelay, RestOK
  <1>11. RestOK'
    BY <1>0, <1>9, <1>10 DEF BeginRelay, RestOK, callUnchanged
  <1> QED
    BY <1>5, <1>6, <1>9, <1>11, TypesAfter

(* Whatever is delivered to a side is for it. *)
LEMMA DeliveredType ==
    ASSUME Types, NEW t \in Sides, NEW m \in Signal, m.type \in ToSide(t), Deliver(t, m)
    PROVE  InboxType' /\ dropped' \in BOOLEAN
  BY TypesParts, DeliverCases, DeliverType DEF InboxType, RestOK

(* The application closes its Peer, and what the WebSocket goes through. *)
LEMMA SocketTypes ==
    ASSUME Types, NEW s \in Sides,
           Close(s) \/ PeerJoined \/ SocketLost(s) \/ ServerError(s)
    PROVE  Types'
  <1>0. PeerOK /\ ConnOK /\ InboxType /\ RestOK /\ GoodPeer(s, peer[s])
    BY TypesParts, OwnPeer
  <1>1. "direct" \in Kinds /\ "error" \in MaybeKind \cup {"error"}
        /\ "initiator" \in Sides /\ Other(s) \in Sides
    BY TwoSides
  <1>2. \A t \in Sides : /\ [type |-> "peer_left"].type \in ToSide(t)
                         /\ [type |-> "error"].type \in ToSide(t)
                         /\ [type |-> "peer_joined"].type \in ToSide("initiator")
    BY DEF ToSide, ToInitiator, ToResponder
  <1>3. [type |-> "peer_left"] \in Signal /\ [type |-> "error"] \in Signal
        /\ [type |-> "peer_joined"] \in Signal
    BY SignalTypes
  <1>4. InboxType' /\ dropped' \in BOOLEAN
    <2>1. CASE Close(s)
      <3>1. CASE PeerLeft(s)
        BY <1>1, <1>2, <1>3, <3>1, DeliveredType DEF PeerLeft
      <3>2. CASE UNCHANGED signals
        BY <1>0, <3>2 DEF signals, InboxType, RestOK
      <3> QED
        BY <2>1, <3>1, <3>2 DEF Close
    <2>2. CASE PeerJoined
      BY <1>1, <1>2, <1>3, <2>2, DeliveredType DEF PeerJoined
    <2>3. CASE SocketLost(s)
      BY <1>1, <1>2, <1>3, <2>3, DeliveredType DEF SocketLost, PeerLeft
    <2>4. CASE ServerError(s)
      BY <1>1, <1>2, <1>3, <2>4, DeliveredType DEF ServerError
    <2> QED
      BY <2>1, <2>2, <2>3, <2>4
  <1>5. PeerOK'
    <2>1. CASE Close(s)
      BY <1>0, <1>1, <2>1, GoodOperators, PeerStep DEF Close
    <2>2. CASE UNCHANGED peer
      BY <1>0, <2>2 DEF PeerOK, PCInv
    <2> QED
      BY <2>1, <2>2 DEF PeerJoined, SocketLost, ServerError
  <1>6. ConnOK'
    <2>1. CASE Close(s)
      BY <1>0, <1>1, <2>1, ConnOperators, ConnStep DEF Close, ConnOK
    <2>2. CASE UNCHANGED conn
      BY <1>0, <2>2 DEF ConnOK
    <2> QED
      BY <2>1, <2>2 DEF PeerJoined, SocketLost, ServerError, netUnchanged
  <1>7. faulty' \in BOOLEAN /\ announced' \in BOOLEAN
    <2>1. CASE Close(s)
      BY <1>0, <2>1, FaultType DEF Close, RestOK, callUnchanged
    <2>2. CASE PeerJoined
      BY <1>0, <2>2 DEF PeerJoined, RestOK
    <2>3. CASE SocketLost(s)
      BY <1>0, <2>3, FaultType DEF SocketLost, RestOK
    <2>4. CASE ServerError(s)
      BY <1>0, <2>4, FaultType DEF ServerError, RestOK
    <2> QED
      BY <2>1, <2>2, <2>3, <2>4
  <1>8. sock' \in [Sides -> {"none", "open", "down"}]
    BY <1>0 DEF Close, PeerJoined, SocketLost, ServerError, RestOK
  <1>9. RestOK'
    BY <1>0, <1>4, <1>7, <1>8 DEF Close, PeerJoined, SocketLost, ServerError, RestOK,
       callUnchanged, netUnchanged
  <1> QED
    BY <1>4, <1>5, <1>6, <1>9, TypesAfter

(* The callbacks of a connection. *)
LEMMA CallbackTypes ==
    ASSUME Types, NEW s \in Sides, NEW k \in Kinds,
           \/ OnICECandidate(s, k) \/ SendCandidate(s, k) \/ OnOpen(s, k)
           \/ PublishResult(s, k) \/ OnConnectionFailed(s, k) \/ OnChannelError(s, k)
           \/ Link(k)
    PROVE  Types'
  <1>0. PeerOK /\ ConnOK /\ InboxType /\ RestOK /\ GoodPeer(s, peer[s])
    BY TypesParts, OwnPeer
  <1>1. "error" \in MaybeKind \cup {"error"} /\ Other(s) \in Sides
    BY TwoSides
  <1>2. InboxType' /\ dropped' \in BOOLEAN
    <2>1. CASE UNCHANGED signals
      BY <1>0, <2>1 DEF signals, InboxType, RestOK
    <2>2. CASE SendCandidate(s, k)
      <3>1. [type |-> "ice_candidate", of |-> k] \in Signal
        BY SignalTypes
      <3>2. [type |-> "ice_candidate", of |-> k].type \in ToSide(Other(s))
        BY DEF ToSide, ToInitiator, ToResponder
      <3>3. CASE sock[s] = "open"
        BY <1>1, <2>2, <3>1, <3>2, <3>3, DeliveredType DEF SendCandidate, SendSignal
      <3>4. CASE sock[s] # "open"
        BY <2>1, <2>2, <3>4 DEF SendCandidate, SendSignal, signals
      <3> QED
        BY <3>3, <3>4
    <2> QED
      BY <2>1, <2>2 DEF OnICECandidate, OnOpen, PublishResult, OnConnectionFailed,
         OnChannelError, Link
  <1>3. PeerOK'
    <2>1. CASE UNCHANGED peer
      BY <1>0, <2>1 DEF PeerOK, PCInv
    <2>2. CASE OnOpen(s, k)
      <3>1. CASE IsActive(s, k)
        <4>1. GoodPeer(s, [peer[s] EXCEPT !.transport = k])
          BY <1>0, SmallUpdates
        <4>2. peer' = [peer EXCEPT ![s] = [peer[s] EXCEPT !.transport = k]]
          BY <2>2, <3>1 DEF OnOpen
        <4> QED
          BY <1>0, <4>1, <4>2, PeerStep
      <3>2. CASE ~IsActive(s, k)
        BY <2>1, <2>2, <3>2 DEF OnOpen
      <3> QED
        BY <3>1, <3>2
    <2>3. CASE PublishResult(s, k)
      <3>1. PICK r \in MaybeKind \cup {"taken"} :
               peer' = [peer EXCEPT ![s] = [peer[s] EXCEPT !.result = r]]
        BY <1>0, <2>3 DEF PublishResult, GoodPeer, PeerType, MaybeKind
      <3> QED
        BY <1>0, <3>1, SmallUpdates, PeerStep
    <2>4. CASE peer' = [peer EXCEPT ![s] = Fail(@)]
      BY <1>0, <1>1, <2>4, GoodOperators, PeerStep
    <2> QED
      BY <2>1, <2>2, <2>3, <2>4 DEF OnICECandidate, SendCandidate, OnConnectionFailed,
         OnChannelError, Link
  <1>4. ConnOK'
    <2>1. CASE OnICECandidate(s, k) \/ SendCandidate(s, k) \/ OnOpen(s, k)
               \/ PublishResult(s, k)
      <3>0. conn[s][k] \in ConnType
        BY <1>0 DEF ConnOK
      <3>1. \A x \in {"none", "active", "done"} :
               [conn[s][k] EXCEPT !.candidate = x] \in ConnType
        BY <3>0 DEF ConnType
      <3>2. \A x \in {"none", "open", "current", "done"} :
               [conn[s][k] EXCEPT !.channel = x] \in ConnType
        BY <3>0 DEF ConnType
      <3>3. PICK c \in ConnType : conn' = [conn EXCEPT ![s][k] = c]
        BY <2>1, <3>1, <3>2 DEF OnICECandidate, SendCandidate, OnOpen, PublishResult
      <3> QED
        BY <1>0, <3>3, OneConnStep
    <2>2. CASE OnConnectionFailed(s, k) \/ OnChannelError(s, k)
      BY <1>0, <2>2 DEF ConnOK, OnConnectionFailed, OnChannelError
    <2>3. CASE Link(k)
      <3>1. \A t \in Sides : [conn[t][k] EXCEPT !.channel = "open"] \in ConnType
        <4>1. \A c \in ConnType : [c EXCEPT !.channel = "open"] \in ConnType
          BY DEF ConnType
        <4>2. \A t \in Sides : conn[t][k] \in ConnType
          BY <1>0 DEF ConnOK
        <4> QED
          BY <4>1, <4>2
      <3>2. \A t \in Sides : [conn[t] EXCEPT ![k].channel = "open"] \in [Kinds -> ConnType]
        <4> SUFFICES ASSUME NEW t \in Sides
                     PROVE  [conn[t] EXCEPT ![k].channel = "open"] \in [Kinds -> ConnType]
          OBVIOUS
        <4> DEFINE c == [conn[t][k] EXCEPT !.channel = "open"]
        <4>1. c \in ConnType /\ conn[t] \in [Kinds -> ConnType]
          BY <1>0, <3>1 DEF ConnOK
        <4>2. [conn[t] EXCEPT ![k].channel = "open"] = [conn[t] EXCEPT ![k] = c]
          BY <4>1
        <4> HIDE DEF c
        <4> QED
          BY <4>1, <4>2
      <3> QED
        BY <2>3, <3>2 DEF ConnOK, Link
    <2> QED
      BY <2>1, <2>2, <2>3
  <1>5. faulty' \in BOOLEAN
    BY <1>0, FaultType DEF OnICECandidate, SendCandidate, OnOpen, PublishResult,
       OnConnectionFailed, OnChannelError, Link, RestOK
  <1>6. RestOK'
    BY <1>0, <1>2, <1>5 DEF OnICECandidate, SendCandidate, OnOpen, PublishResult,
       OnConnectionFailed, OnChannelError, Link, RestOK, callbackUnchanged
  <1> QED
    BY <1>2, <1>3, <1>4, <1>6, TypesAfter

(* The updates signalLoop makes. *)
LEMMA LoopUpdates ==
    ASSUME NEW s \in Sides, NEW p, GoodPeer(s, p), NEW k \in Kinds
    PROVE  /\ GoodPeer(s, [p EXCEPT !.step = "loop", !.pc = "none"])
           /\ s = "initiator" =>
                 /\ GoodPeer(s, [p EXCEPT !.began = TRUE, !.step = "makeOffer"])
                 /\ GoodPeer(s, [p EXCEPT !.step = "makeOffer"])
                 /\ GoodPeer(s, [p EXCEPT !.step = "sendOffer", !.pc = k])
                 /\ GoodPeer(s, [p EXCEPT !.step = "askReady"])
           /\ s = "responder" =>
                 /\ GoodPeer(s, [p EXCEPT !.pending = {}, !.step = "sendAnswer",
                                          !.pc = k])
                 /\ GoodPeer(s, [p EXCEPT !.step = "askRestart"])
  <1>0. p \in PeerType /\ "none" \in MaybeKind /\ k \in MaybeKind
    BY DEF GoodPeer, MaybeKind
  <1>1. GoodPeer(s, [p EXCEPT !.step = "loop", !.pc = "none"])
    BY <1>0 DEF GoodPeer, PeerType
  <1>2. s = "initiator" => GoodPeer(s, [p EXCEPT !.began = TRUE, !.step = "makeOffer"])
    BY <1>0 DEF GoodPeer, PeerType
  <1>3. s = "initiator" => GoodPeer(s, [p EXCEPT !.step = "makeOffer"])
    BY <1>0 DEF GoodPeer, PeerType
  <1>4. s = "initiator" => GoodPeer(s, [p EXCEPT !.step = "sendOffer", !.pc = k])
    BY <1>0 DEF GoodPeer, PeerType
  <1>5. s = "initiator" => GoodPeer(s, [p EXCEPT !.step = "askReady"])
    BY <1>0 DEF GoodPeer, PeerType
  <1>6. s = "responder" => GoodPeer(s, [p EXCEPT !.pending = {}, !.step = "sendAnswer",
                                                 !.pc = k])
    BY <1>0 DEF GoodPeer, PeerType
  <1>7. s = "responder" => GoodPeer(s, [p EXCEPT !.step = "askRestart"])
    BY <1>0 DEF GoodPeer, PeerType
  <1> QED
    BY <1>1, <1>2, <1>3, <1>4, <1>5, <1>6, <1>7

(* The signal that is handled is one for the side that handles it. *)
LEMMA TakeFacts ==
    ASSUME InboxType, NEW s \in Sides, NEW types, Take(s, types)
    PROVE  /\ inbox[s] # <<>> /\ Head(inbox[s]) = inbox[s][1] /\ 1 \in 1 .. Len(inbox[s])
           /\ Head(inbox[s]) \in Signal
           /\ Head(inbox[s]).type \in types \cap ToSide(s)
  <1>1. inbox[s] \in Seq(Signal) /\ inbox[s] # <<>>
    BY DEF InboxType, Take
  <1>2. Head(inbox[s]) = inbox[s][1] /\ 1 \in 1 .. Len(inbox[s])
        /\ Head(inbox[s]) \in Signal
    BY <1>1
  <1> QED
    BY <1>1, <1>2, TwoSides DEF InboxType, Take, ToSide

(* Handling it takes it out of the inbox. *)
LEMMA TakenCases ==
    ASSUME InboxType, NEW s \in Sides, inbox[s] # <<>>, Taken(s)
    PROVE  /\ \/ inbox' = [inbox EXCEPT ![s] = <<>>]
              \/ inbox' = [inbox EXCEPT ![s] = Tail(@)]
           /\ InboxType'
  <1>1. \/ inbox' = [inbox EXCEPT ![s] = <<>>]
        \/ inbox' = [inbox EXCEPT ![s] = Tail(@)]
    BY DEF Taken
  <1> QED
    BY <1>1, TakenType

(* signalLoop handles a signal or ends. *)
LEMMA HandleTypes ==
    ASSUME Types, NEW s \in Sides,
           \/ LoopEnds(s) \/ HandlePeerJoined(s) \/ HandleOffer(s) \/ HandleAnswer(s)
           \/ HandleCandidate(s) \/ HandleRestart(s) \/ HandleRefusal(s)
    PROVE  Types'
  <1>0. PeerOK /\ ConnOK /\ InboxType /\ RestOK /\ GoodPeer(s, peer[s])
        /\ peer[s] \in PeerType
    BY TypesParts, OwnPeer
  <1>1. "direct" \in Kinds /\ "error" \in MaybeKind \cup {"error"}
    BY TwoSides
  <1>2. GoodPeer(s, LoopFailed(peer[s]))
    BY <1>0, <1>1, GoodOperators
  <1>3. RestOK'
    BY <1>0 DEF LoopEnds, HandlePeerJoined, HandleOffer, HandleAnswer, HandleCandidate,
       HandleRestart, HandleRefusal, loopUnchanged, RestOK
  <1>4. InboxType'
    <2>1. CASE LoopEnds(s)
      BY <1>0, <2>1, PeerAssumption DEF LoopEnds, InboxType
    <2>2. CASE Taken(s) /\ inbox[s] # <<>>
      BY <1>0, <2>2, TakenCases
    <2> QED
      BY <2>1, <2>2 DEF HandlePeerJoined, HandleOffer, HandleAnswer, HandleCandidate,
         HandleRestart, HandleRefusal, Take
  <1>5. peer[s].current \in Kinds \cup {"none"}
    BY <1>0 DEF PeerType, MaybeKind
  <1>6. \A k \in Kinds, of \in Kinds :
           /\ Described(s, k, of) \in ConnType
           /\ [Described(s, k, of) EXCEPT !.local = TRUE] \in ConnType
           /\ [conn[s][k] EXCEPT !.added = @ \cup {of}] \in ConnType
    <2> SUFFICES ASSUME NEW k \in Kinds, NEW of \in Kinds
                 PROVE  /\ Described(s, k, of) \in ConnType
                        /\ [Described(s, k, of) EXCEPT !.local = TRUE] \in ConnType
                        /\ [conn[s][k] EXCEPT !.added = @ \cup {of}] \in ConnType
      OBVIOUS
    <2>1. conn[s][k] \in ConnType /\ peer[s].pending \subseteq Kinds /\ of \in MaybeKind
      BY <1>0 DEF ConnOK, PeerType, MaybeKind
    <2>2. Described(s, k, of) \in ConnType
      BY <2>1 DEF ConnType, Described
    <2>3. [Described(s, k, of) EXCEPT !.local = TRUE] \in ConnType
      BY <2>2 DEF ConnType
    <2>4. [conn[s][k] EXCEPT !.added = @ \cup {of}] \in ConnType
      BY <2>1 DEF ConnType
    <2> QED
      BY <2>2, <2>3, <2>4
  <1>7. PeerOK' /\ ConnOK'
    <2>1. CASE LoopEnds(s)
      <3>1. \/ peer' = [peer EXCEPT ![s] = LoopFailed(@)]
            \/ peer' = [peer EXCEPT ![s] = [peer[s] EXCEPT !.step = "ended"]]
        BY <2>1 DEF LoopEnds
      <3>2. GoodPeer(s, [peer[s] EXCEPT !.step = "ended"])
        BY <1>0, SmallUpdates
      <3> QED
        BY <1>0, <1>2, <2>1, <3>1, <3>2, PeerStep DEF LoopEnds, ConnOK
    <2>2. CASE HandlePeerJoined(s)
      <3>1. s = "initiator"
        BY <1>0, <2>2, TakeFacts, TwoSides DEF HandlePeerJoined, ToSide, ToResponder
      <3>2. peer' = [peer EXCEPT ![s] =
                        [peer[s] EXCEPT !.began = TRUE, !.step = "makeOffer"]]
        BY <1>0, <2>2 DEF HandlePeerJoined, PeerOK
      <3> QED
        BY <1>0, <1>1, <2>2, <3>1, <3>2, LoopUpdates, PeerStep DEF HandlePeerJoined, ConnOK
    <2>3. CASE HandleOffer(s)
      <3>1. s = "responder" /\ Head(inbox[s]).of \in Kinds
        BY <1>0, <2>3, TakeFacts, SignalFields, TwoSides
        DEF HandleOffer, ToSide, ToInitiator
      <3>2. CASE peer[s].current = "none"
        BY <1>0, <1>2, <2>3, <3>2, PeerStep DEF HandleOffer, ConnOK
      <3>3. CASE peer[s].current # "none"
        <4> DEFINE k == peer[s].current
        <4>1. k \in Kinds
          BY <1>5, <3>3
        <4>2. conn' = [conn EXCEPT ![s][k] = [Described(s, k, Head(inbox[s]).of)
                                                 EXCEPT !.local = TRUE]]
          BY <2>3, <3>3 DEF HandleOffer
        <4>3. peer' = [peer EXCEPT ![s] = [peer[s] EXCEPT !.pending = {},
                                              !.step = "sendAnswer", !.pc = k]]
          BY <1>0, <2>3, <3>3 DEF HandleOffer, PeerOK
        <4>4. ConnOK'
          BY <1>0, <1>6, <3>1, <4>1, <4>2, OneConnStep
        <4>5. GoodPeer(s, [peer[s] EXCEPT !.pending = {}, !.step = "sendAnswer", !.pc = k])
          BY <1>0, <3>1, <4>1, LoopUpdates
        <4> QED
          BY <1>0, <4>3, <4>4, <4>5, PeerStep
      <3> QED
        BY <3>2, <3>3
    <2>4. CASE HandleAnswer(s)
      <3> DEFINE k == peer[s].current
      <3>1. Head(inbox[s]).of \in Kinds
        BY <1>0, <2>4, TakeFacts, SignalFields DEF HandleAnswer
      <3>2. CASE peer' = [peer EXCEPT ![s] = LoopFailed(@)] /\ UNCHANGED conn
        BY <1>0, <1>2, <3>2, PeerStep DEF ConnOK
      <3>3. CASE /\ k # "none"
                 /\ conn' = [conn EXCEPT ![s][k] = Described(s, k, Head(inbox[s]).of)]
                 /\ peer' = [peer EXCEPT ![s].pending = {}]
        <4>1. k \in Kinds
          BY <1>5, <3>3
        <4>2. ConnOK'
          BY <1>0, <1>6, <3>1, <3>3, <4>1, OneConnStep
        <4>3. GoodPeer(s, [peer[s] EXCEPT !.pending = {}])
          BY <1>0, SmallUpdates
        <4> QED
          BY <1>0, <3>3, <4>2, <4>3, PeerStep
      <3> QED
        BY <2>4, <3>2, <3>3 DEF HandleAnswer
    <2>5. CASE HandleCandidate(s)
      <3> DEFINE k == peer[s].current
                 of == Head(inbox[s]).of
      <3>1. of \in Kinds
        BY <1>0, <2>5, TakeFacts, SignalFields DEF HandleCandidate
      <3>2. CASE UNCHANGED <<peer, conn>>
        BY <1>0, <3>2 DEF PeerOK, PCInv, ConnOK
      <3>3. CASE peer' = [peer EXCEPT ![s] = KeepCandidate(@, of)] /\ UNCHANGED conn
        BY <1>0, <1>1, <3>1, <3>3, GoodOperators, PeerStep DEF ConnOK
      <3>4. CASE /\ k # "none" /\ UNCHANGED peer
                 /\ conn' = [conn EXCEPT ![s][k].added = @ \cup {of}]
        <4>1. k \in Kinds
          BY <1>5, <3>4
        <4>2. conn' = [conn EXCEPT ![s][k] = [conn[s][k] EXCEPT !.added = @ \cup {of}]]
          BY <3>4
        <4>3. ConnOK'
          BY <1>0, <1>6, <3>1, <4>1, <4>2, OneConnStep
        <4> QED
          BY <1>0, <3>4, <4>3 DEF PeerOK, PCInv
      <3> QED
        BY <2>5, <3>2, <3>3, <3>4 DEF HandleCandidate
    <2>6. CASE HandleRestart(s)
      <3>1. PICK x \in {"askRestart", "askReady"} :
               /\ peer' = [peer EXCEPT ![s] = [peer[s] EXCEPT !.step = x]]
               /\ x = "askRestart" <=> Head(inbox[s]).type = "transport_restart"
        BY <2>6 DEF HandleRestart
      <3>2. x = "askRestart" => s = "responder"
        BY <1>0, <2>6, <3>1, TakeFacts, TwoSides DEF HandleRestart, ToSide, ToInitiator
      <3>3. x = "askReady" => s = "initiator"
        BY <1>0, <2>6, <3>1, TakeFacts, TwoSides DEF HandleRestart, ToSide, ToResponder
      <3>4. GoodPeer(s, [peer[s] EXCEPT !.step = x])
        BY <1>0, <1>1, <3>1, <3>2, <3>3, LoopUpdates
      <3> QED
        BY <1>0, <2>6, <3>1, <3>4, PeerStep DEF HandleRestart, ConnOK
    <2>7. CASE HandleRefusal(s)
      BY <1>0, <1>2, <2>7, PeerStep DEF HandleRefusal, ConnOK
    <2> QED
      BY <2>1, <2>2, <2>3, <2>4, <2>5, <2>6, <2>7
  <1> QED
    BY <1>3, <1>4, <1>7, TypesAfter

(* A signal that a side sends is for the other side, or is not sent. *)
LEMMA SendType ==
    ASSUME Types, NEW s \in Sides, NEW m \in Signal, m.type \in ToSide(Other(s)),
           SendSignal(s, m)
    PROVE  InboxType' /\ dropped' \in BOOLEAN
  <1>1. CASE sock[s] = "open"
    BY <1>1, TwoSides, DeliveredType DEF SendSignal
  <1>2. CASE sock[s] # "open"
    BY <1>2, TypesParts DEF SendSignal, InboxType, RestOK
  <1> QED
    BY <1>1, <1>2

(* sendOffer and the answer. *)
LEMMA DescriptionTypes ==
    ASSUME Types, NEW s \in Sides, MakeOffer(s) \/ SendDescription(s)
    PROVE  Types'
  <1>0. PeerOK /\ ConnOK /\ InboxType /\ RestOK /\ GoodPeer(s, peer[s])
        /\ peer[s] \in PeerType
    BY TypesParts, OwnPeer
  <1>1. "direct" \in Kinds /\ "error" \in MaybeKind \cup {"error"}
    BY TwoSides
  <1>2. GoodPeer(s, LoopFailed(peer[s]))
    BY <1>0, <1>1, GoodOperators
  <1>3. CASE MakeOffer(s)
    <2> DEFINE k == peer[s].current
    <2>1. InboxType' /\ RestOK'
      BY <1>0, <1>3 DEF MakeOffer, signals, InboxType, RestOK, loopUnchanged
    <2>2. CASE k = "none"
      BY <1>0, <1>2, <1>3, <2>1, <2>2, PeerStep, TypesAfter DEF MakeOffer, ConnOK
    <2>3. CASE k # "none"
      <3>1. k \in Kinds /\ s = "initiator"
        BY <1>0, <1>3, <2>3, TwoSides DEF PeerType, MaybeKind, MakeOffer, GoodPeer
      <3>2. [conn[s][k] EXCEPT !.local = TRUE] \in ConnType
        <4>1. \A c \in ConnType : [c EXCEPT !.local = TRUE] \in ConnType
          BY DEF ConnType
        <4> QED
          BY <1>0, <3>1, <4>1 DEF ConnOK
      <3>3. conn' = [conn EXCEPT ![s][k] = [conn[s][k] EXCEPT !.local = TRUE]]
        BY <1>3, <2>3 DEF MakeOffer
      <3>4. ConnOK'
        BY <1>0, <3>1, <3>2, <3>3, OneConnStep
      <3>5. peer' = [peer EXCEPT ![s] = [peer[s] EXCEPT !.step = "sendOffer", !.pc = k]]
        BY <1>0, <1>3, <2>3 DEF MakeOffer, PeerOK
      <3>6. GoodPeer(s, [peer[s] EXCEPT !.step = "sendOffer", !.pc = k])
        BY <1>0, <3>1, LoopUpdates
      <3>7. PeerOK'
        BY <1>0, <3>5, <3>6, PeerStep
      <3> QED
        BY <2>1, <3>4, <3>7, TypesAfter
    <2> QED
      BY <2>2, <2>3
  <1>4. CASE SendDescription(s)
    <2> DEFINE type == IF peer[s].step = "sendOffer" THEN "offer" ELSE "answer"
               m == [type |-> type, of |-> peer[s].pc]
    <2>1. peer[s].pc \in Kinds
      BY <1>0, <1>4 DEF SendDescription, GoodPeer
    <2>2. m \in Signal
      BY <2>1, SignalTypes
    <2>3. s = "initiator" => type = "offer"
      BY <1>0, <1>4 DEF SendDescription, GoodPeer
    <2>4. s = "responder" => type = "answer"
      BY <1>0, <1>4 DEF SendDescription, GoodPeer
    <2>5. type \in ToSide(Other(s))
      BY <2>3, <2>4, TwoSides DEF ToSide, ToInitiator, ToResponder
    <2>6. m.type \in ToSide(Other(s))
      BY <2>5
    <2>7. SendSignal(s, m) \/ UNCHANGED signals
      BY <1>4 DEF SendDescription
    <2> HIDE DEF m
    <2>8. InboxType' /\ dropped' \in BOOLEAN
      <3>1. CASE SendSignal(s, m)
        BY <2>2, <2>6, <3>1, SendType
      <3>2. CASE UNCHANGED signals
        BY <1>0, <3>2 DEF signals, InboxType, RestOK
      <3> QED
        BY <2>7, <3>1, <3>2
    <2>9. ConnOK' /\ RestOK'
      BY <1>0, <1>4, <2>8 DEF SendDescription, ConnOK, RestOK, loopUnchanged
    <2>10. PeerOK'
      <3>1. \/ peer' = [peer EXCEPT ![s] = LoopFailed(@)]
            \/ peer' = [peer EXCEPT ![s] = [peer[s] EXCEPT !.step = "loop", !.pc = "none"]]
        BY <1>0, <1>4 DEF SendDescription, PeerOK
      <3>2. GoodPeer(s, [peer[s] EXCEPT !.step = "loop", !.pc = "none"])
        BY <1>0, <1>1, LoopUpdates
      <3> QED
        BY <1>0, <1>2, <3>1, <3>2, PeerStep
    <2> QED
      BY <2>8, <2>9, <2>10, TypesAfter
  <1> QED
    BY <1>3, <1>4

(* The two ends of the handover. *)
LEMMA HandoverTypes ==
    ASSUME Types, NEW s \in Sides, Restart(s) \/ Ready(s)
    PROVE  Types'
  <1> DEFINE p == ReplaceConnection(peer[s], "relay")
  <1>0. PeerOK /\ ConnOK /\ InboxType /\ RestOK /\ GoodPeer(s, peer[s])
        /\ peer[s] \in PeerType
    BY TypesParts, OwnPeer
  <1>1. "relay" \in Kinds /\ "error" \in MaybeKind \cup {"error"}
    BY TwoSides
  <1>2. GoodPeer(s, LoopFailed(peer[s])) /\ GoodPeer(s, p)
    BY <1>0, <1>1, GoodOperators
  <1>3. GoodPeer(s, LoopFailed(p)) /\ GoodPeer(s, [p EXCEPT !.step = "loop"])
        /\ GoodPeer(s, [peer[s] EXCEPT !.step = "loop"])
    <2> HIDE DEF p
    <2> QED
      BY <1>0, <1>1, <1>2, GoodOperators, SmallUpdates
  <1>4. s = "initiator" => GoodPeer(s, [p EXCEPT !.step = "makeOffer"])
    <2> HIDE DEF p
    <2> QED
      BY <1>1, <1>2, LoopUpdates
  <1>5. ConnOK'
    <2>1. \/ UNCHANGED conn
          \/ conn' = [conn EXCEPT ![s] = Installed(s, "relay")]
          \/ conn' = [conn EXCEPT ![s] = Unfinished(s, "relay")]
      BY DEF Restart, Ready
    <2>2. Installed(s, "relay") \in [Kinds -> ConnType]
          /\ Unfinished(s, "relay") \in [Kinds -> ConnType]
      BY <1>0, <1>1, ConnOperators DEF ConnOK
    <2> QED
      BY <1>0, <2>1, <2>2, ConnStep DEF ConnOK
  <1>6. faulty' \in BOOLEAN
    BY <1>0, FaultType DEF Restart, Ready, NoServers, RestOK
  <1>7. CASE Restart(s)
    <2>1. s = "responder" /\ Other(s) = "initiator"
      BY <1>0, <1>7, TwoSides DEF Restart, GoodPeer
    <2>2. \A x \in {"transport_ready", "transport_unavailable"} :
             [type |-> x] \in Signal /\ [type |-> x].type \in ToSide(Other(s))
      BY <2>1, SignalTypes DEF ToSide, ToInitiator
    <2>3. InboxType' /\ dropped' \in BOOLEAN
      <3>1. CASE \E x \in {"transport_ready", "transport_unavailable"} :
                    SendSignal(s, [type |-> x])
        BY <2>2, <3>1, SendType
      <3>2. CASE UNCHANGED signals
        BY <1>0, <3>2 DEF signals, InboxType, RestOK
      <3> QED
        BY <1>7, <3>1, <3>2 DEF Restart
    <2>4. RestOK'
      BY <1>0, <1>6, <1>7, <2>3 DEF Restart, RestOK, loopUnchanged
    <2>5. PeerOK'
      <3>1. \/ peer' = [peer EXCEPT ![s] = [p EXCEPT !.step = "loop"]]
            \/ peer' = [peer EXCEPT ![s] = LoopFailed(p)]
            \/ peer' = [peer EXCEPT ![s] = [peer[s] EXCEPT !.step = "loop"]]
            \/ peer' = [peer EXCEPT ![s] = LoopFailed(peer[s])]
        BY <1>7 DEF Restart
      <3> HIDE DEF p
      <3> QED
        BY <1>0, <1>2, <1>3, <3>1, PeerStep
    <2> QED
      BY <1>5, <2>3, <2>4, <2>5, TypesAfter
  <1>8. CASE Ready(s)
    <2>1. s = "initiator"
      BY <1>0, <1>8, TwoSides DEF Ready, GoodPeer
    <2>2. InboxType' /\ RestOK'
      BY <1>0, <1>6, <1>8 DEF Ready, signals, InboxType, RestOK, loopUnchanged
    <2>3. PeerOK'
      <3>1. \/ peer' = [peer EXCEPT ![s] = [p EXCEPT !.step = "makeOffer"]]
            \/ peer' = [peer EXCEPT ![s] = LoopFailed(p)]
            \/ peer' = [peer EXCEPT ![s] = LoopFailed(peer[s])]
        BY <1>8 DEF Ready
      <3> HIDE DEF p
      <3> QED
        BY <1>0, <1>2, <1>3, <1>4, <2>1, <3>1, PeerStep
    <2> QED
      BY <1>5, <2>2, <2>3, TypesAfter
  <1> QED
    BY <1>7, <1>8

(* No step breaks the types and the roles. *)
LEMMA TypesStep ==
    ASSUME Types, [Next]_vars
    PROVE  Types'
  <1>1. CASE UNCHANGED vars
    BY <1>1, TypesParts, TypesAfter
    DEF vars, PeerOK, PCInv, ConnOK, InboxType, RestOK
  <1>2. CASE Next
    BY <1>2, ConnectTypes, DialTypes, CallTypes, BeginRelayTypes, SocketTypes,
       CallbackTypes, HandleTypes, DescriptionTypes, HandoverTypes, TwoSides
    DEF Next, Call, SignalLoop, Callbacks
  <1> QED
    BY <1>1, <1>2

(* A session begins with the types and the roles as they should be. *)
LEMMA TypesInit ==
    ASSUME Init
    PROVE  Types
  <1>1. NewPeer \in PeerType
    BY DEF NewPeer, PeerType, MaybeKind
  <1>2. NoConn \in ConnType
    BY DEF NoConn, ConnType, MaybeKind
  <1>3. PeerOK
    BY <1>1, TwoSides DEF Init, PeerOK, PCInv, NewPeer
  <1>4. ConnOK
    BY <1>2 DEF Init, ConnOK
  <1>5. InboxType
    BY TwoSides, PeerAssumption DEF Init, InboxType
  <1>6. RestOK
    BY DEF Init, RestOK
  <1> QED
    BY <1>3, <1>4, <1>5, <1>6, TypesParts

(***************************************************************************)
(* The fields of Peer keep their types, readLoop never puts more into the  *)
(* inbox than it holds, and the responder is never told to offer.          *)
(***************************************************************************)
THEOREM PeerTypes == Spec => []TypeOK
  <1>1. Init => Types
    BY TypesInit
  <1>2. Types /\ [Next]_vars => Types'
    BY TypesStep
  <1>3. Types => TypeOK
    BY DEF Types
  <1> QED
    BY <1>1, <1>2, <1>3, PTL DEF Spec

-----------------------------------------------------------------------------
(* One current connection *)

ConnectionInv == TransportIsCurrent /\ OnlyCurrentLives

(* What holds of one side. *)
Owned(p, c) ==
    /\ p.transport \in {p.current, "none"}
    /\ \A k \in Kinds : c[k].state = "live" => p.current = k

LEMMA OwnedSides == ConnectionInv <=> \A s \in Sides : Owned(peer[s], conn[s])
  BY DEF ConnectionInv, TransportIsCurrent, OnlyCurrentLives, Owned

(* A step of side s keeps the invariant if it keeps it at side s. *)
LEMMA OwnedStep ==
    ASSUME Types, ConnectionInv, NEW s \in Sides,
           Owned(peer'[s], conn'[s]),
           \A t \in Sides \ {s} : peer'[t] = peer[t] /\ conn'[t] = conn[t]
    PROVE  ConnectionInv'
  <1>1. \A t \in Sides : Owned(peer'[t], conn'[t])
    BY OwnedSides
  <1> QED
    BY <1>1 DEF ConnectionInv, TransportIsCurrent, OnlyCurrentLives, Owned

(* replaceConnection closes the connection it replaces, Close the current one. *)
LEMMA ConnStates ==
    ASSUME Types, NEW s \in Sides, NEW k \in Kinds, Owned(peer[s], conn[s])
    PROVE  /\ \A j \in Kinds : Installed(s, k)[j].state = "live" => j = k
           /\ \A j \in Kinds : Unfinished(s, k)[j].state # "live"
           /\ \A j \in Kinds : ~peer[s].closed => ClosedConn(s)[j].state # "live"
           /\ peer[s].closed => ClosedConn(s) = conn[s]
  <1>1. conn[s] \in [Kinds -> ConnType] /\ "live" # "closed"
    BY TypesParts DEF ConnOK
  <1>2. \A c : ClosePrevious(c).state = "closed"
    BY DEF ClosePrevious, NoConn
  <1>3. \A j \in Kinds : Installed(s, k)[j].state = "live" => j = k
    BY <1>1, <1>2 DEF Installed, Owned
  <1>4. Installed(s, k) \in [Kinds -> ConnType]
    BY TypesParts, ConnOperators DEF ConnOK
  <1>5. \A j \in Kinds : Unfinished(s, k)[j].state # "live"
    BY <1>1, <1>3, <1>4 DEF Unfinished, ConnType
  <1>6. \A j \in Kinds : ~peer[s].closed => ClosedConn(s)[j].state # "live"
    BY <1>1, <1>2 DEF ClosedConn, Owned
  <1>7. peer[s].closed => ClosedConn(s) = conn[s]
    BY <1>1 DEF ClosedConn
  <1> QED
    BY <1>3, <1>5, <1>6, <1>7

(***************************************************************************)
(* The steps by what they do to the fields that the invariants below speak *)
(* of.  A side keeps its place if the step leaves these fields alone; its  *)
(* transport may become that of its current connection.                    *)
(***************************************************************************)
KeepsPlace(s) ==
    /\ \A f \in {"current", "step", "pc", "began"} : peer'[s][f] = peer[s][f]
    /\ peer'[s].transport \in {peer[s].transport, peer[s].current}
    /\ \A k \in Kinds : /\ conn'[s][k].state = conn[s][k].state
                        /\ conn'[s][k].remote = conn[s][k].remote

(* The waits of Connect. *)
LEMMA CallPlaces ==
    ASSUME Types, NEW s \in Sides,
           \/ TakeResult(s) \/ TakeError(s) \/ CtxDone(s)
           \/ NegotiationStarted \/ DirectTimeout \/ RelayTimeout
    PROVE  /\ \A t \in Sides : /\ KeepsPlace(t)
                               /\ peer'[t].call \in {peer[t].call, "direct", "ask",
                                                     "wait", "returned"}
           /\ \A t \in Sides : peer'[t].call = "direct" /\ peer[t].call # "direct"
                               => peer[t].began
           /\ UNCHANGED <<inbox, announced>>
           /\ \/ relaying' = relaying
              \/ /\ peer["initiator"].call = "direct"
                 /\ peer["initiator"].step \notin {"makeOffer", "sendOffer"}
                 /\ relaying = "no" /\ relaying' = "connect"
  <1>0. peer \in [Sides -> PeerType] /\ "initiator" \in Sides /\ peer[s] \in PeerType
        /\ peer["initiator"] \in PeerType /\ "error" \in MaybeKind \cup {"error"}
        /\ \A k \in Kinds : k \in MaybeKind \cup {"error"}
    BY TypesParts, TwoSides DEF PeerOK, MaybeKind
  <1>1. UNCHANGED <<inbox, announced, conn>>
    BY DEF TakeResult, TakeError, CtxDone, NegotiationStarted, DirectTimeout,
       RelayTimeout, signals, callUnchanged
  <1>2. \/ relaying' = relaying
        \/ /\ peer["initiator"].call = "direct"
           /\ peer["initiator"].step \notin {"makeOffer", "sendOffer"}
           /\ relaying = "no" /\ relaying' = "connect"
    BY DEF TakeResult, TakeError, CtxDone, NegotiationStarted, DirectTimeout,
       RelayTimeout, MayBeginRelay
  <1>3. \A t \in Sides :
           /\ \A f \in {"current", "step", "pc", "began", "transport"} :
                 peer'[t][f] = peer[t][f]
           /\ peer'[t].call \in {peer[t].call, "direct", "ask", "wait", "returned"}
           /\ peer'[t].call = "direct" /\ peer[t].call # "direct" => peer[t].began
    <2>1. CASE TakeResult(s)
      <3>1. Returned(peer[s], peer[s].result) \in PeerType
            /\ \A f \in {"current", "step", "pc", "began", "transport"} :
                  Returned(peer[s], peer[s].result)[f] = peer[s][f]
            /\ Returned(peer[s], peer[s].result).call = "returned"
        BY <1>0, <2>1, ReturnedFields DEF TakeResult
      <3>2. \A q \in PeerType : \A f \in {"current", "step", "pc", "began", "transport",
                                          "call"} :
               [q EXCEPT !.result = "taken"][f] = q[f]
        BY DEF PeerType
      <3> QED
        BY <1>0, <2>1, <3>1, <3>2 DEF TakeResult
    <2>2. CASE TakeError(s)
      <3>1. Returned(peer[s], "error") \in PeerType
            /\ \A f \in {"current", "step", "pc", "began", "transport"} :
                  Returned(peer[s], "error")[f] = peer[s][f]
            /\ Returned(peer[s], "error").call = "returned"
        BY <1>0, ReturnedFields
      <3>2. \A q \in PeerType : \A f \in {"current", "step", "pc", "began", "transport",
                                          "call"} :
               [q EXCEPT !.error = "taken"][f] = q[f]
        BY DEF PeerType
      <3>3. CASE peer' = [peer EXCEPT ![s] = Returned(@, "error")]
        BY <1>0, <3>1, <3>3
      <3>4. CASE peer' = [peer EXCEPT ![s] = [Returned(@, "error") EXCEPT
                                                !.error = "taken"]]
        BY <1>0, <3>1, <3>2, <3>4
      <3> QED
        BY <2>2, <3>3, <3>4 DEF TakeError
    <2>3. CASE CtxDone(s)
      BY <1>0, <2>3 DEF CtxDone, PeerType
    <2>4. CASE NegotiationStarted
      BY <1>0, <2>4 DEF NegotiationStarted, PeerType
    <2>5. CASE DirectTimeout
      <3>1. CASE options.allowRelay
        <4>1. PICK c \in {"ask", "wait"} :
                 peer' = [peer EXCEPT !["initiator"] =
                             [peer["initiator"] EXCEPT !.call = c]]
          BY <2>5, <3>1 DEF DirectTimeout
        <4> QED
          BY <1>0, <4>1 DEF PeerType
      <3>2. CASE ~options.allowRelay
        BY <1>0, <2>5, <3>2, ReturnedFields DEF DirectTimeout
      <3> QED
        BY <3>1, <3>2
    <2>6. CASE RelayTimeout
      BY <1>0, <2>6, ReturnedFields DEF RelayTimeout
    <2> QED
      BY <2>1, <2>2, <2>3, <2>4, <2>5, <2>6
  <1> QED
    BY <1>1, <1>2, <1>3 DEF KeepsPlace

(* Callbacks, and the server. *)
LEMMA CallbackPlaces ==
    ASSUME Types, NEW s \in Sides, NEW k \in Kinds,
           \/ OnICECandidate(s, k) \/ SendCandidate(s, k) \/ OnOpen(s, k)
           \/ PublishResult(s, k) \/ OnConnectionFailed(s, k) \/ OnChannelError(s, k)
           \/ Link(k)
    PROVE  /\ \A t \in Sides : KeepsPlace(t) /\ peer'[t].call = peer[t].call
           /\ UNCHANGED announced
           /\ \/ inbox' = inbox
              \/ SendSignal(s, [type |-> "ice_candidate", of |-> k])
           /\ \/ relaying' = relaying
              \/ /\ relaying = "no" /\ relaying' = "callback"
                 /\ conn["initiator"]["direct"].remote # "none"
  <1>0. peer \in [Sides -> PeerType] /\ peer[s] \in PeerType
        /\ conn \in [Sides -> [Kinds -> ConnType]] /\ conn[s][k] \in ConnType
    BY TypesParts DEF PeerOK, ConnOK
  <1>1. UNCHANGED announced
        /\ (inbox' = inbox \/ SendSignal(s, [type |-> "ice_candidate", of |-> k]))
    BY DEF OnICECandidate, SendCandidate, OnOpen, PublishResult, OnConnectionFailed,
       OnChannelError, Link, signals, callbackUnchanged
  <1>2. \/ relaying' = relaying
        \/ /\ relaying = "no" /\ relaying' = "callback"
           /\ conn["initiator"]["direct"].remote # "none"
    BY DEF OnICECandidate, SendCandidate, OnOpen, PublishResult, OnConnectionFailed,
       OnChannelError, Link, MayBeginRelay
  <1>3. \A t \in Sides :
           /\ \A f \in {"current", "step", "pc", "began", "call"} :
                 peer'[t][f] = peer[t][f]
           /\ peer'[t].transport \in {peer[t].transport, peer[t].current}
    <2>1. CASE UNCHANGED peer
      BY <2>1
    <2>2. CASE peer' = [peer EXCEPT ![s].transport = k] /\ IsActive(s, k)
      BY <1>0, <2>2 DEF PeerType, IsActive
    <2>3. CASE PublishResult(s, k)
      BY <1>0, <2>3 DEF PublishResult, PeerType
    <2>4. CASE peer' = [peer EXCEPT ![s] = Fail(@)]
      BY <1>0, <2>4, FailFields
    <2> QED
      BY <2>1, <2>2, <2>3, <2>4 DEF OnICECandidate, SendCandidate, OnOpen,
         OnConnectionFailed, OnChannelError, Link
  <1>4. \A t \in Sides, j \in Kinds : /\ conn'[t][j].state = conn[t][j].state
                                     /\ conn'[t][j].remote = conn[t][j].remote
    <2>1. CASE UNCHANGED conn
      BY <2>1
    <2>2. CASE Link(k)
      BY <1>0, <2>2 DEF Link, ConnType
    <2>3. CASE \E x : conn' = [conn EXCEPT ![s][k].candidate = x]
      BY <1>0, <2>3 DEF ConnType
    <2>4. CASE \E x : conn' = [conn EXCEPT ![s][k].channel = x]
      BY <1>0, <2>4 DEF ConnType
    <2> QED
      BY <2>1, <2>2, <2>3, <2>4 DEF OnICECandidate, SendCandidate, OnOpen,
         PublishResult, OnConnectionFailed, OnChannelError
  <1> QED
    BY <1>1, <1>2, <1>3, <1>4 DEF KeepsPlace

(* The step is one of side s. *)
Elsewhere(s) ==
    \A t \in Sides \ {s} : peer'[t] = peer[t] /\ conn'[t] = conn[t]

(* Side s keeps its connections, whatever it learns about them. *)
KeepsConnections(s) ==
    /\ \A f \in {"current", "transport", "call"} : peer'[s][f] = peer[s][f]
    /\ \A k \in Kinds : conn'[s][k].state = conn[s][k].state

(* signalLoop gives up: its error is kept, its connection stays. *)
LEMMA LoopFailedPlaces ==
    ASSUME Types, NEW s \in Sides, peer' = [peer EXCEPT ![s] = LoopFailed(@)],
           UNCHANGED conn
    PROVE  /\ Elsewhere(s) /\ KeepsConnections(s)
           /\ peer'[s].began = peer[s].began /\ peer'[s].step = "ended"
           /\ peer'[s].pc = "none"
  <1>1. peer \in [Sides -> PeerType] /\ peer[s] \in PeerType
    BY TypesParts DEF PeerOK
  <1> QED
    BY <1>1, LoopFailedFields DEF Elsewhere, KeepsConnections

LEMMA LoopEndsPlaces ==
    ASSUME Types, NEW s \in Sides, LoopEnds(s)
    PROVE  /\ Elsewhere(s) /\ KeepsConnections(s)
           /\ peer'[s].began = peer[s].began /\ peer'[s].step = "ended"
           /\ UNCHANGED <<conn, relaying, announced>>
           /\ inbox' = [inbox EXCEPT ![s] = <<>>]
  <1>1. peer \in [Sides -> PeerType] /\ peer[s] \in PeerType
    BY TypesParts DEF PeerOK
  <1>2. CASE peer' = [peer EXCEPT ![s] = LoopFailed(@)]
    BY <1>2, LoopFailedPlaces DEF LoopEnds, loopUnchanged
  <1>3. CASE peer' = [peer EXCEPT ![s].step = "ended"]
    BY <1>1, <1>3 DEF LoopEnds, loopUnchanged, PeerType, Elsewhere, KeepsConnections
  <1> QED
    BY <1>2, <1>3 DEF LoopEnds

LEMMA PeerJoinedPlaces ==
    ASSUME Types, NEW s \in Sides, HandlePeerJoined(s)
    PROVE  /\ s = "initiator" /\ Elsewhere(s) /\ KeepsConnections(s)
           /\ peer'[s].began = TRUE /\ peer'[s].step = "makeOffer"
           /\ UNCHANGED <<conn, relaying, announced>>
           /\ Take(s, {"peer_joined"}) /\ inbox' = [inbox EXCEPT ![s] = Tail(@)]
  <1>1. peer \in [Sides -> PeerType] /\ peer[s] \in PeerType /\ InboxType
    BY TypesParts DEF PeerOK
  <1>2. s = "initiator"
    BY <1>1, TakeFacts, TwoSides DEF HandlePeerJoined, ToSide, ToResponder
  <1>3. /\ Elsewhere(s) /\ KeepsConnections(s)
        /\ peer'[s].began = TRUE /\ peer'[s].step = "makeOffer"
    BY <1>1 DEF HandlePeerJoined, PeerType, Elsewhere, KeepsConnections
  <1>4. inbox' = [inbox EXCEPT ![s] = Tail(@)]
    BY <1>3 DEF HandlePeerJoined, Taken
  <1> QED
    BY <1>2, <1>3, <1>4 DEF HandlePeerJoined, loopUnchanged

LEMMA MakeOfferPlaces ==
    ASSUME Types, NEW s \in Sides, MakeOffer(s)
    PROVE  /\ s = "initiator" /\ Elsewhere(s) /\ KeepsConnections(s)
           /\ peer'[s].began = peer[s].began
           /\ \A k \in Kinds : conn'[s][k].remote = conn[s][k].remote
           /\ \/ peer'[s].step = "ended"
              \/ /\ peer'[s].step = "sendOffer" /\ peer'[s].pc = peer[s].current
                 /\ peer[s].current \in Kinds
           /\ UNCHANGED <<inbox, relaying, announced>>
           /\ peer[s].step = "makeOffer"
  <1>1. peer \in [Sides -> PeerType] /\ peer[s] \in PeerType /\ GoodPeer(s, peer[s])
        /\ conn \in [Sides -> [Kinds -> ConnType]]
    BY TypesParts, OwnPeer DEF PeerOK, ConnOK
  <1>2. s = "initiator"
    BY <1>1, TwoSides DEF MakeOffer, GoodPeer
  <1>3. CASE peer[s].current = "none"
    <2>1. peer' = [peer EXCEPT ![s] = LoopFailed(@)] /\ UNCHANGED conn
      BY <1>3 DEF MakeOffer
    <2> QED
      BY <1>2, <2>1, LoopFailedPlaces DEF MakeOffer, loopUnchanged, signals
  <1>4. CASE peer[s].current # "none"
    <2> DEFINE k == peer[s].current
    <2>1. k \in Kinds
      BY <1>1, <1>4 DEF PeerType, MaybeKind
    <2>2. conn' = [conn EXCEPT ![s][k].local = TRUE]
          /\ peer' = [peer EXCEPT ![s].step = "sendOffer", ![s].pc = k]
      BY <1>4 DEF MakeOffer
    <2>3. \A t \in Sides, j \in Kinds : /\ conn'[t][j].state = conn[t][j].state
                                        /\ conn'[t][j].remote = conn[t][j].remote
      BY <1>1, <2>1, <2>2 DEF ConnType
    <2>4. \A t \in Sides \ {s} : conn'[t] = conn[t] /\ peer'[t] = peer[t]
      BY <1>1, <2>2
    <2>5. /\ \A f \in {"current", "transport", "call", "began"} : peer'[s][f] = peer[s][f]
          /\ peer'[s].step = "sendOffer" /\ peer'[s].pc = k
      BY <1>1, <2>2 DEF PeerType
    <2> QED
      BY <1>2, <2>1, <2>3, <2>4, <2>5
      DEF MakeOffer, loopUnchanged, signals, Elsewhere, KeepsConnections
  <1> QED
    BY <1>3, <1>4

LEMMA SendDescriptionPlaces ==
    ASSUME Types, NEW s \in Sides, SendDescription(s)
    PROVE  /\ Elsewhere(s) /\ KeepsConnections(s)
           /\ peer'[s].began = peer[s].began /\ peer'[s].step \in {"loop", "ended"}
           /\ UNCHANGED <<conn, relaying, announced>>
           /\ peer[s].pc \in Kinds
           /\ \/ s = "initiator" /\ peer[s].step = "sendOffer"
                 /\ (inbox' = inbox \/ SendSignal(s, [type |-> "offer", of |-> peer[s].pc]))
              \/ s = "responder" /\ peer[s].step = "sendAnswer"
                 /\ (inbox' = inbox \/ SendSignal(s, [type |-> "answer", of |-> peer[s].pc]))
  <1>1. peer \in [Sides -> PeerType] /\ peer[s] \in PeerType /\ GoodPeer(s, peer[s])
    BY TypesParts, OwnPeer DEF PeerOK
  <1>2. UNCHANGED <<conn, relaying, announced>> /\ peer[s].pc \in Kinds
    BY <1>1 DEF SendDescription, loopUnchanged, GoodPeer
  <1>3. \/ s = "initiator" /\ peer[s].step = "sendOffer"
           /\ (inbox' = inbox \/ SendSignal(s, [type |-> "offer", of |-> peer[s].pc]))
        \/ s = "responder" /\ peer[s].step = "sendAnswer"
           /\ (inbox' = inbox \/ SendSignal(s, [type |-> "answer", of |-> peer[s].pc]))
    BY <1>1, TwoSides DEF SendDescription, signals, GoodPeer
  <1>4. CASE peer' = [peer EXCEPT ![s] = LoopFailed(@)]
    BY <1>2, <1>3, <1>4, LoopFailedPlaces
  <1>5. CASE peer' = [peer EXCEPT ![s].step = "loop", ![s].pc = "none"]
    <2>1. /\ \A f \in {"current", "transport", "call", "began"} : peer'[s][f] = peer[s][f]
          /\ peer'[s].step = "loop" /\ \A t \in Sides \ {s} : peer'[t] = peer[t]
      BY <1>1, <1>5 DEF PeerType
    <2> QED
      BY <1>2, <1>3, <2>1 DEF Elsewhere, KeepsConnections
  <1> QED
    BY <1>4, <1>5 DEF SendDescription

(* What is left in the inbox of a side that has handled a signal. *)
Handled(s, types) ==
    /\ Take(s, types)
    /\ \/ peer'[s].step = "ended" /\ inbox' = [inbox EXCEPT ![s] = <<>>]
       \/ inbox' = [inbox EXCEPT ![s] = Tail(@)]
    /\ UNCHANGED <<relaying, announced>>

LEMMA HandleOfferPlaces ==
    ASSUME Types, NEW s \in Sides, HandleOffer(s)
    PROVE  /\ s = "responder" /\ Elsewhere(s) /\ KeepsConnections(s)
           /\ Handled(s, {"offer"}) /\ Head(inbox[s]).of \in Kinds
           /\ peer'[s].began = peer[s].began
           /\ \/ /\ peer'[s].step = "ended"
                 /\ \A k \in Kinds : conn'[s][k].remote = conn[s][k].remote
              \/ /\ peer'[s].step = "sendAnswer" /\ peer'[s].pc = peer[s].current
                 /\ peer[s].current \in Kinds
                 /\ \A k \in Kinds : conn'[s][k].remote =
                       IF k = peer[s].current THEN Head(inbox[s]).of ELSE conn[s][k].remote
  <1>1. peer \in [Sides -> PeerType] /\ peer[s] \in PeerType /\ InboxType
        /\ conn \in [Sides -> [Kinds -> ConnType]]
    BY TypesParts DEF PeerOK, ConnOK
  <1>2. s = "responder" /\ Head(inbox[s]).of \in Kinds
    BY <1>1, TakeFacts, SignalFields, TwoSides DEF HandleOffer, ToSide, ToInitiator
  <1>3. Handled(s, {"offer"})
    BY DEF HandleOffer, Taken, Handled, loopUnchanged
  <1>4. CASE peer[s].current = "none"
    <2>1. peer' = [peer EXCEPT ![s] = LoopFailed(@)] /\ UNCHANGED conn
      BY <1>4 DEF HandleOffer
    <2> QED
      BY <1>2, <1>3, <2>1, LoopFailedPlaces
  <1>5. CASE peer[s].current # "none"
    <2> DEFINE k == peer[s].current
               of == Head(inbox[s]).of
    <2>1. k \in Kinds
      BY <1>1, <1>5 DEF PeerType, MaybeKind
    <2>2. /\ conn' = [conn EXCEPT ![s][k] = [Described(s, k, of) EXCEPT !.local = TRUE]]
          /\ peer' = [peer EXCEPT ![s].pending = {}, ![s].step = "sendAnswer", ![s].pc = k]
      BY <1>5 DEF HandleOffer
    <2> DEFINE c == [Described(s, k, of) EXCEPT !.local = TRUE]
    <2>3. c.state = conn[s][k].state /\ c.remote = of
      BY <1>1, <2>1 DEF Described, ConnType
    <2>4. /\ \A f \in {"current", "transport", "call", "began"} : peer'[s][f] = peer[s][f]
          /\ peer'[s].step = "sendAnswer" /\ peer'[s].pc = k
          /\ \A t \in Sides \ {s} : peer'[t] = peer[t]
      BY <1>1, <2>2 DEF PeerType
    <2> HIDE DEF c
    <2>5. conn' = [conn EXCEPT ![s][k] = c]
      BY <2>2 DEF c
    <2>6. /\ \A j \in Kinds : conn'[s][j] = IF j = k THEN c ELSE conn[s][j]
          /\ \A t \in Sides \ {s} : conn'[t] = conn[t]
      BY <1>1, <2>1, <2>5
    <2> QED
      BY <1>2, <1>3, <2>1, <2>3, <2>4, <2>6 DEF Elsewhere, KeepsConnections
  <1> QED
    BY <1>4, <1>5

LEMMA HandleAnswerPlaces ==
    ASSUME Types, NEW s \in Sides, HandleAnswer(s)
    PROVE  /\ s = "initiator" /\ Elsewhere(s) /\ KeepsConnections(s)
           /\ Handled(s, {"answer"}) /\ Head(inbox[s]).of \in Kinds
           /\ peer'[s].began = peer[s].began
           /\ \/ /\ peer'[s].step = "ended"
                 /\ \A k \in Kinds : conn'[s][k].remote = conn[s][k].remote
              \/ /\ peer'[s].step = "loop" /\ peer[s].current \in Kinds
                 /\ \A k \in Kinds : conn'[s][k].remote =
                       IF k = peer[s].current THEN Head(inbox[s]).of ELSE conn[s][k].remote
  <1>1. peer \in [Sides -> PeerType] /\ peer[s] \in PeerType /\ InboxType
        /\ conn \in [Sides -> [Kinds -> ConnType]]
    BY TypesParts DEF PeerOK, ConnOK
  <1>2. s = "initiator" /\ Head(inbox[s]).of \in Kinds /\ peer[s].step = "loop"
    BY <1>1, TakeFacts, SignalFields, TwoSides DEF HandleAnswer, ToSide, ToResponder, Take
  <1>3. Handled(s, {"answer"})
    BY DEF HandleAnswer, Taken, Handled, loopUnchanged
  <1> DEFINE k == peer[s].current
             of == Head(inbox[s]).of
             c == Described(s, k, of)
  <1>4. CASE peer' = [peer EXCEPT ![s] = LoopFailed(@)] /\ UNCHANGED conn
    BY <1>2, <1>3, <1>4, LoopFailedPlaces
  <1>5. CASE /\ k # "none" /\ conn' = [conn EXCEPT ![s][k] = c]
             /\ peer' = [peer EXCEPT ![s].pending = {}]
    <2>1. k \in Kinds
      BY <1>1, <1>5 DEF PeerType, MaybeKind
    <2>2. c.state = conn[s][k].state /\ c.remote = of
      BY <1>1, <2>1 DEF Described, ConnType
    <2>3. /\ \A f \in {"current", "transport", "call", "began", "step"} :
                peer'[s][f] = peer[s][f]
          /\ \A t \in Sides \ {s} : peer'[t] = peer[t]
      BY <1>1, <1>5 DEF PeerType
    <2> HIDE DEF c
    <2>4. /\ \A j \in Kinds : conn'[s][j] = IF j = k THEN c ELSE conn[s][j]
          /\ \A t \in Sides \ {s} : conn'[t] = conn[t]
      BY <1>1, <1>5, <2>1
    <2> QED
      BY <1>2, <1>3, <2>1, <2>2, <2>3, <2>4 DEF Elsewhere, KeepsConnections
  <1> QED
    BY <1>4, <1>5 DEF HandleAnswer

LEMMA HandleCandidatePlaces ==
    ASSUME Types, NEW s \in Sides, HandleCandidate(s)
    PROVE  /\ Elsewhere(s) /\ KeepsPlace(s) /\ KeepsConnections(s)
           /\ Handled(s, {"ice_candidate"})
  <1>1. peer \in [Sides -> PeerType] /\ peer[s] \in PeerType /\ InboxType
        /\ conn \in [Sides -> [Kinds -> ConnType]]
    BY TypesParts DEF PeerOK, ConnOK
  <1>2. Handled(s, {"ice_candidate"})
    BY DEF HandleCandidate, Taken, Handled, loopUnchanged
  <1> DEFINE k == peer[s].current
             of == Head(inbox[s]).of
  <1>3. of \in Kinds
    BY <1>1, TakeFacts, SignalFields DEF HandleCandidate
  <1>4. CASE UNCHANGED <<peer, conn>>
    BY <1>2, <1>4 DEF Elsewhere, KeepsPlace, KeepsConnections
  <1>5. CASE peer' = [peer EXCEPT ![s] = KeepCandidate(@, of)] /\ UNCHANGED conn
    BY <1>1, <1>2, <1>3, <1>5, KeepFields DEF Elsewhere, KeepsPlace, KeepsConnections
  <1>6. CASE /\ k # "none" /\ UNCHANGED peer
             /\ conn' = [conn EXCEPT ![s][k].added = @ \cup {of}]
    <2>1. k \in Kinds
      BY <1>1, <1>6 DEF PeerType, MaybeKind
    <2>2. /\ \A j \in Kinds : /\ conn'[s][j].state = conn[s][j].state
                              /\ conn'[s][j].remote = conn[s][j].remote
          /\ \A t \in Sides \ {s} : conn'[t] = conn[t]
      BY <1>1, <1>6, <2>1 DEF ConnType
    <2> QED
      BY <1>2, <1>6, <2>2 DEF Elsewhere, KeepsPlace, KeepsConnections
  <1> QED
    BY <1>4, <1>5, <1>6 DEF HandleCandidate

LEMMA HandleRestartPlaces ==
    ASSUME Types, NEW s \in Sides, HandleRestart(s)
    PROVE  /\ Elsewhere(s) /\ KeepsConnections(s) /\ UNCHANGED conn
           /\ peer'[s].began = peer[s].began
           /\ \/ /\ s = "responder" /\ peer'[s].step = "askRestart"
                 /\ Handled(s, {"transport_restart"})
              \/ /\ s = "initiator" /\ peer'[s].step = "askReady"
                 /\ Handled(s, {"transport_ready"})
  <1>1. peer \in [Sides -> PeerType] /\ peer[s] \in PeerType /\ InboxType
    BY TypesParts DEF PeerOK
  <1>2. PICK x \in {"askRestart", "askReady"} :
           /\ peer' = [peer EXCEPT ![s].step = x]
           /\ x = "askRestart" <=> Head(inbox[s]).type = "transport_restart"
    BY DEF HandleRestart
  <1>3. \/ s = "responder" /\ x = "askRestart" /\ Take(s, {"transport_restart"})
        \/ s = "initiator" /\ x = "askReady" /\ Take(s, {"transport_ready"})
    <2>1. Head(inbox[s]).type \in {"transport_restart", "transport_ready"} \cap ToSide(s)
      BY <1>1, TakeFacts DEF HandleRestart
    <2> QED
      BY <1>2, <2>1, TwoSides DEF HandleRestart, Take, ToSide, ToInitiator, ToResponder
  <1>4. /\ \A f \in {"current", "transport", "call", "began"} : peer'[s][f] = peer[s][f]
        /\ peer'[s].step = x /\ \A t \in Sides \ {s} : peer'[t] = peer[t]
    BY <1>1, <1>2 DEF PeerType
  <1> QED
    BY <1>3, <1>4
    DEF HandleRestart, Taken, Handled, loopUnchanged, Elsewhere, KeepsConnections

LEMMA HandleRefusalPlaces ==
    ASSUME Types, NEW s \in Sides, HandleRefusal(s)
    PROVE  /\ Elsewhere(s) /\ KeepsConnections(s) /\ UNCHANGED conn
           /\ peer'[s].began = peer[s].began /\ peer'[s].step = "ended"
           /\ Handled(s, {"transport_unavailable", "peer_left", "error"})
  BY LoopFailedPlaces DEF HandleRefusal, Taken, Handled, loopUnchanged

(* What replaceConnection and Close make of the connections of a side. *)
LEMMA ConnChanges ==
    ASSUME Types, NEW s \in Sides, NEW k \in Kinds, NEW j \in Kinds
    PROVE  /\ Installed(s, k)[j].remote \in {"none", conn[s][j].remote}
           /\ Unfinished(s, k)[j].remote \in {"none", conn[s][j].remote}
           /\ ClosedConn(s)[j].remote \in {"none", conn[s][j].remote}
           /\ j = k => /\ Installed(s, k)[j].state # "none"
                       /\ Unfinished(s, k)[j].state # "none"
           /\ j # k /\ j # peer[s].current =>
                 /\ Installed(s, k)[j].state = conn[s][j].state
                 /\ Unfinished(s, k)[j].state = conn[s][j].state
           /\ \/ ClosedConn(s)[j].state = conn[s][j].state
              \/ j = peer[s].current /\ ClosedConn(s)[j].state = "closed"
  <1>1. conn[s] \in [Kinds -> ConnType] /\ conn \in [Sides -> [Kinds -> ConnType]]
    BY TypesParts DEF ConnOK
  <1>2. \A c : ClosePrevious(c).state = "closed" /\ ClosePrevious(c).remote = "none"
    BY DEF ClosePrevious, NoConn
  <1>3. [NoConn EXCEPT !.state = "live"].state = "live"
        /\ [NoConn EXCEPT !.state = "live"].remote = "none"
    BY DEF NoConn
  <1>4. /\ Installed(s, k)[j].remote \in {"none", conn[s][j].remote}
        /\ j = k => Installed(s, k)[j].state = "live"
        /\ j # k /\ j # peer[s].current => Installed(s, k)[j].state = conn[s][j].state
    BY <1>1, <1>2, <1>3 DEF Installed
  <1>5. Installed(s, k) \in [Kinds -> ConnType]
    BY <1>1, ConnOperators
  <1>6. /\ Unfinished(s, k)[j].remote = Installed(s, k)[j].remote
        /\ j = k => Unfinished(s, k)[j].state = "closed"
        /\ j # k => Unfinished(s, k)[j].state = Installed(s, k)[j].state
    BY <1>5 DEF Unfinished, ConnType
  <1>7. /\ ClosedConn(s)[j].remote \in {"none", conn[s][j].remote}
        /\ \/ ClosedConn(s)[j].state = conn[s][j].state
           \/ j = peer[s].current /\ ClosedConn(s)[j].state = "closed"
    BY <1>2 DEF ClosedConn
  <1> QED
    BY <1>4, <1>6, <1>7

(* Side s has replaced its connection by one of kind k. *)
Replaces(s, k) ==
    /\ peer'[s].current = k /\ peer'[s].transport = "none"
    /\ peer'[s].began = peer[s].began
    /\ conn'[s] \in {Installed(s, k), Unfinished(s, k)}

LEMMA ConnectPlaces ==
    ASSUME Types, NEW s \in Sides, Connect(s)
    PROVE  /\ Elsewhere(s) /\ UNCHANGED <<inbox, relaying, announced>>
           /\ peer[s].call = "idle" /\ peer'[s].call \in {"dial", "returned"}
           /\ peer'[s].step = peer[s].step /\ peer'[s].pc = peer[s].pc
           /\ KeepsPlace(s) \/ Replaces(s, "direct")
  <1>1. peer \in [Sides -> PeerType] /\ peer[s] \in PeerType
        /\ conn \in [Sides -> [Kinds -> ConnType]] /\ "direct" \in Kinds
        /\ "error" \in MaybeKind \cup {"error"}
    BY TypesParts, TwoSides DEF PeerOK, ConnOK
  <1>2. UNCHANGED <<inbox, relaying, announced>> /\ peer[s].call = "idle"
    BY DEF Connect, signals, callUnchanged
  <1> DEFINE p == ReplaceConnection(peer[s], "direct")
  <1>3. p \in PeerType /\ p.current = "direct" /\ p.transport = "none"
        /\ \A f \in {"began", "step", "pc"} : p[f] = peer[s][f]
    BY <1>1, ReplaceFields
  <1> HIDE DEF p
  <1>4. CASE peer' = [peer EXCEPT ![s] = [p EXCEPT !.call = "dial"]]
             /\ conn' = [conn EXCEPT ![s] = Installed(s, "direct")]
    <2>1. \A f \in {"current", "transport", "began", "step", "pc"} :
             [p EXCEPT !.call = "dial"][f] = p[f]
      BY <1>3 DEF PeerType
    <2>2. [p EXCEPT !.call = "dial"].call = "dial"
      BY <1>3 DEF PeerType
    <2> QED
      BY <1>1, <1>2, <1>3, <1>4, <2>1, <2>2 DEF Elsewhere, Replaces
  <1>5. CASE peer' = [peer EXCEPT ![s] = Returned(@, "error")] /\ UNCHANGED conn
    BY <1>1, <1>2, <1>5, ReturnedFields DEF Elsewhere, KeepsPlace
  <1>6. CASE peer' = [peer EXCEPT ![s] = Returned(p, "error")]
             /\ conn' = [conn EXCEPT ![s] = Unfinished(s, "direct")]
    BY <1>1, <1>2, <1>3, <1>6, ReturnedFields DEF Elsewhere, Replaces
  <1> QED
    BY <1>4, <1>5, <1>6 DEF Connect, p

LEMMA DialPlaces ==
    ASSUME Types, NEW s \in Sides, Dial(s)
    PROVE  /\ Elsewhere(s) /\ UNCHANGED <<inbox, relaying, announced>>
           /\ peer'[s].call \in {"start", "wait", "returned"}
           /\ peer'[s].began = peer[s].began /\ peer'[s].pc = peer[s].pc
           /\ \/ /\ peer'[s].step = "loop" /\ UNCHANGED conn
                 /\ peer'[s].current = peer[s].current
                 /\ peer'[s].transport = peer[s].transport
              \/ /\ peer'[s].step = peer[s].step
                 /\ conn'[s] = ClosedConn(s)
                 /\ peer'[s].current = ClosedPeer(peer[s]).current
                 /\ peer'[s].transport = ClosedPeer(peer[s]).transport
  <1>1. peer \in [Sides -> PeerType] /\ peer[s] \in PeerType
        /\ conn \in [Sides -> [Kinds -> ConnType]]
        /\ "error" \in MaybeKind \cup {"error"}
    BY TypesParts, TwoSides DEF PeerOK, ConnOK
  <1>2. UNCHANGED <<inbox, relaying, announced>>
    BY DEF Dial, signals, callUnchanged
  <1>3. CASE /\ peer' = [peer EXCEPT
                   ![s].call = IF s = "initiator" THEN "start" ELSE "wait",
                   ![s].step = "loop"]
             /\ UNCHANGED conn
    <2>1. /\ \A f \in {"current", "transport", "began", "pc"} : peer'[s][f] = peer[s][f]
          /\ peer'[s].step = "loop" /\ peer'[s].call \in {"start", "wait"}
          /\ \A t \in Sides \ {s} : peer'[t] = peer[t]
      BY <1>1, <1>3 DEF PeerType
    <2> QED
      BY <1>2, <1>3, <2>1 DEF Elsewhere
  <1>4. CASE /\ peer' = [peer EXCEPT ![s] = Returned(ClosedPeer(@), "error")]
             /\ conn' = [conn EXCEPT ![s] = ClosedConn(s)]
    <2>1. ClosedPeer(peer[s]) \in PeerType
          /\ \A f \in {"began", "step", "pc"} : ClosedPeer(peer[s])[f] = peer[s][f]
      BY <1>1, ClosedPeerFields
    <2> QED
      BY <1>1, <1>2, <1>4, <2>1, ReturnedFields DEF Elsewhere
  <1> QED
    BY <1>3, <1>4 DEF Dial

LEMMA ClosePlaces ==
    ASSUME Types, NEW s \in Sides, Close(s)
    PROVE  /\ Elsewhere(s) /\ UNCHANGED <<relaying, announced>>
           /\ inbox' = inbox \/ PeerLeft(s)
           /\ \A f \in {"call", "began", "step", "pc"} : peer'[s][f] = peer[s][f]
           /\ conn'[s] = ClosedConn(s)
           /\ peer'[s].current = ClosedPeer(peer[s]).current
           /\ peer'[s].transport = ClosedPeer(peer[s]).transport
  <1>1. peer \in [Sides -> PeerType] /\ peer[s] \in PeerType
        /\ conn \in [Sides -> [Kinds -> ConnType]]
    BY TypesParts DEF PeerOK, ConnOK
  <1>2. \A f \in {"call", "began", "step", "pc"} : ClosedPeer(peer[s])[f] = peer[s][f]
    BY <1>1, ClosedPeerFields
  <1> QED
    BY <1>1, <1>2 DEF Close, Elsewhere, callUnchanged, signals

LEMMA RestartPlaces ==
    ASSUME Types, NEW s \in Sides, Restart(s)
    PROVE  /\ s = "responder" /\ peer[s].step = "askRestart"
           /\ Elsewhere(s) /\ UNCHANGED <<relaying, announced>>
           /\ peer'[s].step \in {"loop", "ended"} /\ peer'[s].call = peer[s].call
           /\ \/ /\ Replaces(s, "relay")
                 /\ inbox' = inbox \/ SendSignal(s, [type |-> "transport_ready"])
              \/ /\ KeepsConnections(s) /\ UNCHANGED conn /\ peer'[s].began = peer[s].began
                 /\ inbox' = inbox \/ SendSignal(s, [type |-> "transport_unavailable"])
  <1>1. peer \in [Sides -> PeerType] /\ peer[s] \in PeerType /\ GoodPeer(s, peer[s])
        /\ conn \in [Sides -> [Kinds -> ConnType]] /\ "relay" \in Kinds
    BY TypesParts, OwnPeer, TwoSides DEF PeerOK, ConnOK
  <1>2. s = "responder" /\ peer[s].step = "askRestart" /\ UNCHANGED <<relaying, announced>>
    BY <1>1, TwoSides DEF Restart, GoodPeer, loopUnchanged
  <1> DEFINE p == ReplaceConnection(peer[s], "relay")
  <1>3. p \in PeerType /\ p.current = "relay" /\ p.transport = "none"
        /\ p.began = peer[s].began /\ p.call = peer[s].call
    BY <1>1, ReplaceFields
  <1>4. CASE /\ conn' = [conn EXCEPT ![s] = Installed(s, "relay")]
             /\ peer' = [peer EXCEPT ![s] = IF sock[s] = "open"
                                            THEN [p EXCEPT !.step = "loop"]
                                            ELSE LoopFailed(p)]
             /\ SendSignal(s, [type |-> "transport_ready"])
    <2> HIDE DEF p
    <2> DEFINE q == IF sock[s] = "open" THEN [p EXCEPT !.step = "loop"] ELSE LoopFailed(p)
    <2>1. q.step \in {"loop", "ended"}
          /\ \A f \in {"current", "transport", "began", "call"} : q[f] = p[f]
      <3>1. CASE sock[s] = "open"
        BY <1>3, <3>1 DEF PeerType
      <3>2. CASE sock[s] # "open"
        BY <1>3, <3>2, LoopFailedFields
      <3> QED
        BY <3>1, <3>2
    <2>2. peer' = [peer EXCEPT ![s] = q]
      BY <1>4
    <2> HIDE DEF q
    <2> QED
      BY <1>1, <1>2, <1>3, <1>4, <2>1, <2>2 DEF Elsewhere, Replaces
  <1>5. CASE /\ SendSignal(s, [type |-> "transport_unavailable"])
             /\ peer' = [peer EXCEPT ![s].step = "loop"] /\ UNCHANGED conn
    <2>1. /\ \A f \in {"current", "transport", "began", "call"} : peer'[s][f] = peer[s][f]
          /\ peer'[s].step = "loop" /\ \A t \in Sides \ {s} : peer'[t] = peer[t]
      BY <1>1, <1>5 DEF PeerType
    <2> QED
      BY <1>2, <1>5, <2>1 DEF Elsewhere, KeepsConnections
  <1>6. CASE /\ peer' = [peer EXCEPT ![s] = LoopFailed(@)] /\ UNCHANGED <<conn, signals>>
    BY <1>2, <1>6, LoopFailedPlaces DEF signals, KeepsConnections
  <1> QED
    BY <1>4, <1>5, <1>6 DEF Restart, p

LEMMA ReadyPlaces ==
    ASSUME Types, NEW s \in Sides, Ready(s)
    PROVE  /\ s = "initiator" /\ peer[s].step = "askReady"
           /\ Elsewhere(s) /\ UNCHANGED <<inbox, relaying, announced>>
           /\ peer'[s].call = peer[s].call
           /\ \/ /\ Replaces(s, "relay") /\ peer'[s].step \in {"makeOffer", "ended"}
              \/ /\ KeepsConnections(s) /\ UNCHANGED conn /\ peer'[s].began = peer[s].began
                 /\ peer'[s].step = "ended"
  <1>1. peer \in [Sides -> PeerType] /\ peer[s] \in PeerType /\ GoodPeer(s, peer[s])
        /\ conn \in [Sides -> [Kinds -> ConnType]] /\ "relay" \in Kinds
    BY TypesParts, OwnPeer, TwoSides DEF PeerOK, ConnOK
  <1>2. s = "initiator" /\ peer[s].step = "askReady"
        /\ UNCHANGED <<inbox, relaying, announced>>
    BY <1>1, TwoSides DEF Ready, GoodPeer, loopUnchanged, signals
  <1> DEFINE p == ReplaceConnection(peer[s], "relay")
  <1>3. p \in PeerType /\ p.current = "relay" /\ p.transport = "none"
        /\ p.began = peer[s].began /\ p.call = peer[s].call
    BY <1>1, ReplaceFields
  <1>4. CASE /\ conn' = [conn EXCEPT ![s] = Installed(s, "relay")]
             /\ peer' = [peer EXCEPT ![s] = [p EXCEPT !.step = "makeOffer"]]
    <2> HIDE DEF p
    <2>1. [p EXCEPT !.step = "makeOffer"].step = "makeOffer"
          /\ \A f \in {"current", "transport", "began", "call"} :
                [p EXCEPT !.step = "makeOffer"][f] = p[f]
      BY <1>3 DEF PeerType
    <2> QED
      BY <1>1, <1>2, <1>3, <1>4, <2>1 DEF Elsewhere, Replaces
  <1>5. CASE peer' = [peer EXCEPT ![s] = LoopFailed(@)] /\ UNCHANGED conn
    BY <1>2, <1>5, LoopFailedPlaces DEF KeepsConnections
  <1>6. CASE /\ conn' = [conn EXCEPT ![s] = Unfinished(s, "relay")]
             /\ peer' = [peer EXCEPT ![s] = LoopFailed(p)]
    <2> HIDE DEF p
    <2> QED
      BY <1>1, <1>2, <1>3, <1>6, LoopFailedFields DEF Elsewhere, Replaces
  <1> QED
    BY <1>4, <1>5, <1>6 DEF Ready, p

LEMMA BeginRelayPlaces ==
    ASSUME Types, BeginRelay
    PROVE  /\ \A t \in Sides : KeepsPlace(t) /\ peer'[t].call \in {peer[t].call, "wait"}
           /\ relaying # "no" /\ relaying' = "done" /\ UNCHANGED announced
           /\ \/ inbox' = inbox
              \/ SendSignal("initiator", [type |-> "transport_restart"])
  <1>1. peer \in [Sides -> PeerType] /\ peer["initiator"] \in PeerType
        /\ "initiator" \in Sides
    BY TypesParts, TwoSides DEF PeerOK
  <1> DEFINE p == [peer["initiator"] EXCEPT
                      !.call = IF relaying = "connect" THEN "wait" ELSE @]
  <1>2. p \in PeerType /\ p.call \in {peer["initiator"].call, "wait"}
        /\ \A f \in {"current", "transport", "began", "step", "pc"} :
              p[f] = peer["initiator"][f]
    BY <1>1 DEF PeerType
  <1>3. peer' = [peer EXCEPT !["initiator"] = p]
        \/ peer' = [peer EXCEPT !["initiator"] = Fail(p)]
    BY DEF BeginRelay
  <1>4. /\ relaying # "no" /\ relaying' = "done" /\ UNCHANGED <<announced, conn>>
        /\ \/ inbox' = inbox
           \/ SendSignal("initiator", [type |-> "transport_restart"])
    BY DEF BeginRelay, callUnchanged, signals
  <1> HIDE DEF p
  <1>5. \A t \in Sides :
           /\ \A f \in {"current", "transport", "began", "step", "pc"} :
                 peer'[t][f] = peer[t][f]
           /\ peer'[t].call \in {peer[t].call, "wait"}
    BY <1>1, <1>2, <1>3, FailFields
  <1> QED
    BY <1>4, <1>5 DEF KeepsPlace

(* Steps that leave every connection where it is. *)
LEMMA OwnedKept ==
    ASSUME ConnectionInv, \A s \in Sides : KeepsPlace(s)
    PROVE  ConnectionInv'
  BY DEF ConnectionInv, TransportIsCurrent, OnlyCurrentLives, KeepsPlace

LEMMA OwnedKeptHere ==
    ASSUME Types, ConnectionInv, NEW s \in Sides, Elsewhere(s), KeepsConnections(s)
    PROVE  ConnectionInv'
  <1>1. Owned(peer'[s], conn'[s])
    BY OwnedSides DEF Owned, KeepsConnections
  <1> QED
    BY <1>1, OwnedStep DEF Elsewhere

LEMMA OwnedReplaced ==
    ASSUME Types, ConnectionInv, NEW s \in Sides, NEW k \in Kinds, Elsewhere(s),
           Replaces(s, k)
    PROVE  ConnectionInv'
  <1>1. Owned(peer'[s], conn'[s])
    BY OwnedSides, ConnStates DEF Owned, Replaces
  <1> QED
    BY <1>1, OwnedStep DEF Elsewhere

LEMMA OwnedClosed ==
    ASSUME Types, ConnectionInv, NEW s \in Sides, Elsewhere(s),
           conn'[s] = ClosedConn(s),
           peer'[s].current = ClosedPeer(peer[s]).current,
           peer'[s].transport = ClosedPeer(peer[s]).transport
    PROVE  ConnectionInv'
  <1>1. Owned(peer[s], conn[s]) /\ peer[s] \in PeerType /\ "direct" \in Kinds
    BY OwnedSides, TypesParts, TwoSides DEF PeerOK
  <1>2. Owned(peer'[s], conn'[s])
    <2>1. CASE peer[s].closed
      BY <1>1, <2>1, ConnStates, ClosedPeerFields DEF Owned
    <2>2. CASE ~peer[s].closed
      BY <1>1, <2>2, ConnStates, ClosedPeerFields DEF Owned
    <2> QED
      BY <2>1, <2>2
  <1> QED
    BY <1>2, OwnedStep DEF Elsewhere

LEMMA ConnectionStep ==
    ASSUME Types, ConnectionInv, [Next]_vars
    PROVE  ConnectionInv'
  <1>1. CASE UNCHANGED vars
    BY <1>1 DEF vars, ConnectionInv, TransportIsCurrent, OnlyCurrentLives
  <1>2. ASSUME NEW s \in Sides, Connect(s)
        PROVE  ConnectionInv'
    <2>1. CASE KeepsPlace(s)
      <3>1. \A t \in Sides : KeepsPlace(t)
        BY <1>2, <2>1, ConnectPlaces DEF Elsewhere, KeepsPlace
      <3> QED
        BY <3>1, OwnedKept
    <2>2. CASE Replaces(s, "direct")
      BY <1>2, <2>2, ConnectPlaces, OwnedReplaced, TwoSides
    <2> QED
      BY <1>2, <2>1, <2>2, ConnectPlaces
  <1>3. ASSUME NEW s \in Sides, Dial(s)
        PROVE  ConnectionInv'
    <2>1. CASE /\ peer'[s].step = "loop" /\ UNCHANGED conn
               /\ peer'[s].current = peer[s].current
               /\ peer'[s].transport = peer[s].transport
      <3>1. Owned(peer'[s], conn'[s])
        BY <2>1, OwnedSides DEF Owned
      <3> QED
        BY <1>3, <3>1, DialPlaces, OwnedStep DEF Elsewhere
    <2>2. CASE /\ conn'[s] = ClosedConn(s)
               /\ peer'[s].current = ClosedPeer(peer[s]).current
               /\ peer'[s].transport = ClosedPeer(peer[s]).transport
      BY <1>3, <2>2, DialPlaces, OwnedClosed
    <2> QED
      BY <1>3, <2>1, <2>2, DialPlaces
  <1>4. ASSUME NEW s \in Sides, TakeResult(s) \/ TakeError(s) \/ CtxDone(s)
        PROVE  ConnectionInv'
    BY <1>4, CallPlaces, OwnedKept
  <1>5. CASE NegotiationStarted \/ DirectTimeout \/ RelayTimeout
    BY <1>5, CallPlaces, OwnedKept, TwoSides
  <1>6. CASE BeginRelay
    BY <1>6, BeginRelayPlaces, OwnedKept
  <1>7. ASSUME NEW s \in Sides, Close(s)
        PROVE  ConnectionInv'
    BY <1>7, ClosePlaces, OwnedClosed
  <1>8. ASSUME NEW s \in Sides, PeerJoined \/ SocketLost(s) \/ ServerError(s)
        PROVE  ConnectionInv'
    BY <1>8 DEF PeerJoined, SocketLost, ServerError, netUnchanged, ConnectionInv,
       TransportIsCurrent, OnlyCurrentLives
  <1>9. ASSUME NEW s \in Sides, NEW k \in Kinds,
               Callbacks(s, k) \/ OnConnectionFailed(s, k) \/ OnChannelError(s, k)
        PROVE  ConnectionInv'
    BY <1>9, CallbackPlaces, OwnedKept DEF Callbacks
  <1>10. ASSUME NEW k \in Kinds, Link(k)
         PROVE  ConnectionInv'
    BY <1>10, CallbackPlaces, OwnedKept, TwoSides
  <1>11. ASSUME NEW s \in Sides,
                \/ LoopEnds(s) \/ HandlePeerJoined(s) \/ MakeOffer(s) \/ SendDescription(s)
                \/ HandleOffer(s) \/ HandleAnswer(s) \/ HandleCandidate(s)
                \/ HandleRestart(s) \/ HandleRefusal(s)
         PROVE  ConnectionInv'
    BY <1>11, LoopEndsPlaces, PeerJoinedPlaces, MakeOfferPlaces, SendDescriptionPlaces,
       HandleOfferPlaces, HandleAnswerPlaces, HandleCandidatePlaces, HandleRestartPlaces,
       HandleRefusalPlaces, OwnedKeptHere
  <1>12. ASSUME NEW s \in Sides, Restart(s) \/ Ready(s)
         PROVE  ConnectionInv'
    BY <1>12, RestartPlaces, ReadyPlaces, OwnedKeptHere, OwnedReplaced, TwoSides
  <1> QED
    BY <1>1, <1>2, <1>3, <1>4, <1>5, <1>6, <1>7, <1>8, <1>9, <1>10, <1>11, <1>12, TwoSides
    DEF Next, Call, SignalLoop

LEMMA ConnectionInit ==
    ASSUME Init
    PROVE  ConnectionInv
  BY DEF Init, ConnectionInv, TransportIsCurrent, OnlyCurrentLives, NewPeer, NoConn

(***************************************************************************)
(* The transport that Peer hands out is the channel of its current         *)
(* connection: an OnOpen callback of a connection that has been replaced,  *)
(* or that Close has taken away, never sets it.                            *)
(***************************************************************************)
THEOREM TransportBelongs == Spec => []TransportIsCurrent
  <1>1. Init => Types /\ ConnectionInv
    BY TypesInit, ConnectionInit
  <1>2. Types /\ ConnectionInv /\ [Next]_vars => Types' /\ ConnectionInv'
    BY TypesStep, ConnectionStep
  <1>3. ConnectionInv => TransportIsCurrent
    BY DEF ConnectionInv
  <1> QED
    BY <1>1, <1>2, <1>3, PTL DEF Spec

(* Nobody closes a Peer but Close, also where Connect calls it. *)
LEMMA ClosedStep ==
    ASSUME Types, [Next]_vars, NEW s \in Sides
    PROVE  peer'[s].closed = peer[s].closed \/ Dial(s) \/ Close(s)
  <1>0. /\ peer \in [Sides -> PeerType] /\ "initiator" \in Sides
        /\ \A t \in Sides : peer[t] \in PeerType
        /\ "error" \in MaybeKind \cup {"error"} /\ Kinds \subseteq MaybeKind \cup {"error"}
        /\ "direct" \in Kinds /\ "relay" \in Kinds
    BY TypesParts, TwoSides DEF PeerOK, MaybeKind
  <1>1. ASSUME NEW t \in Sides, NEW p \in PeerType, p.closed = peer[t].closed,
               peer' = [peer EXCEPT ![t] = p]
        PROVE  peer'[s].closed = peer[s].closed
    BY <1>0, <1>1
  <1>2. ASSUME NEW q \in PeerType
        PROVE  /\ Fail(q) \in PeerType /\ Fail(q).closed = q.closed
               /\ LoopFailed(q) \in PeerType /\ LoopFailed(q).closed = q.closed
               /\ \A r \in MaybeKind \cup {"error"} :
                     Returned(q, r) \in PeerType /\ Returned(q, r).closed = q.closed
               /\ \A k \in Kinds : /\ ReplaceConnection(q, k) \in PeerType
                                    /\ ReplaceConnection(q, k).closed = q.closed
               /\ \A k \in Kinds : /\ KeepCandidate(q, k) \in PeerType
                                    /\ KeepCandidate(q, k).closed = q.closed
    BY <1>2, FailFields, LoopFailedFields, ReturnedFields, ReplaceFields, KeepFields
  <1>3. ASSUME NEW q \in PeerType
        PROVE  /\ \A c \in {"dial", "direct", "ask", "wait"} :
                     LET z == [q EXCEPT !.call = c]
                     IN  z \in PeerType /\ z.closed = q.closed
               /\ \A x \in {"loop", "makeOffer", "askRestart", "askReady", "ended"} :
                     LET z == [q EXCEPT !.step = x]
                     IN  z \in PeerType /\ z.closed = q.closed
    BY DEF PeerType
  <1>4. CASE UNCHANGED peer
    BY <1>4
  <1>5. ASSUME NEW t \in Sides, Connect(t)
        PROVE  peer'[s].closed = peer[s].closed
    <2>1. CASE peer' = [peer EXCEPT ![t] = [ReplaceConnection(@, "direct")
                                               EXCEPT !.call = "dial"]]
      <3> DEFINE r == ReplaceConnection(peer[t], "direct")
                 p == [r EXCEPT !.call = "dial"]
      <3>1. r \in PeerType /\ r.closed = peer[t].closed
        BY <1>0, <1>2
      <3>2. peer' = [peer EXCEPT ![t] = p]
        BY <2>1
      <3> HIDE DEF r
      <3>3. p \in PeerType /\ p.closed = r.closed
        BY <1>3, <3>1
      <3> HIDE DEF p
      <3> QED
        BY <1>1, <3>1, <3>2, <3>3
    <2>2. CASE peer' = [peer EXCEPT ![t] = Returned(@, "error")]
      <3>1. /\ Returned(peer[t], "error") \in PeerType
            /\ Returned(peer[t], "error").closed = peer[t].closed
        BY <1>0, <1>2
      <3> QED
        BY <1>1, <2>2, <3>1
    <2>3. CASE peer' = [peer EXCEPT ![t] = Returned(ReplaceConnection(@, "direct"), "error")]
      <3> DEFINE r == ReplaceConnection(peer[t], "direct")
                 p == Returned(r, "error")
      <3>1. r \in PeerType /\ r.closed = peer[t].closed
        BY <1>0, <1>2
      <3>2. peer' = [peer EXCEPT ![t] = p]
        BY <2>3
      <3> HIDE DEF r
      <3>3. p \in PeerType /\ p.closed = r.closed
        BY <1>0, <1>2, <3>1
      <3> HIDE DEF p
      <3> QED
        BY <1>1, <3>1, <3>2, <3>3
    <2> QED
      BY <1>5, <2>1, <2>2, <2>3 DEF Connect
  <1>6. ASSUME NEW t \in Sides, t # s, Dial(t) \/ Close(t)
        PROVE  peer'[s].closed = peer[s].closed
    BY <1>0, <1>6, DialPlaces, ClosePlaces DEF Elsewhere
  <1>7. ASSUME NEW t \in Sides, TakeResult(t) \/ TakeError(t) \/ CtxDone(t)
        PROVE  peer'[s].closed = peer[s].closed
    <2>1. CASE TakeResult(t)
      <3>1. Returned(peer[t], peer[t].result) \in PeerType
            /\ Returned(peer[t], peer[t].result).closed = peer[t].closed
        BY <1>0, <1>2, <2>1 DEF TakeResult
      <3>2. \A q \in PeerType : [q EXCEPT !.result = "taken"].closed = q.closed
        BY DEF PeerType
      <3> QED
        BY <1>0, <2>1, <3>1, <3>2 DEF TakeResult
    <2>2. CASE TakeError(t)
      <3>1. Returned(peer[t], "error") \in PeerType
            /\ Returned(peer[t], "error").closed = peer[t].closed
        BY <1>0, <1>2
      <3>2. \A q \in PeerType : [q EXCEPT !.error = "taken"].closed = q.closed
        BY DEF PeerType
      <3>3. \/ peer' = [peer EXCEPT ![t] = Returned(@, "error")]
            \/ peer' = [peer EXCEPT ![t] = [Returned(@, "error") EXCEPT !.error = "taken"]]
        BY <2>2 DEF TakeError
      <3> QED
        BY <1>0, <3>1, <3>2, <3>3
    <2>3. CASE CtxDone(t)
      BY <1>0, <2>3 DEF CtxDone, PeerType
    <2> QED
      BY <1>7, <2>1, <2>2, <2>3
  <1>8. CASE NegotiationStarted \/ RelayTimeout \/ DirectTimeout
    <2>1. CASE NegotiationStarted
      BY <1>0, <2>1 DEF NegotiationStarted, PeerType
    <2>2. CASE RelayTimeout
      BY <1>0, <1>1, <1>2, <2>2 DEF RelayTimeout
    <2>3. CASE DirectTimeout
      <3>1. \/ peer' = [peer EXCEPT !["initiator"] = Returned(@, "error")]
            \/ \E c \in {"ask", "wait"} : peer' = [peer EXCEPT !["initiator"].call = c]
        BY <2>3 DEF DirectTimeout
      <3>2. ASSUME NEW c \in {"ask", "wait"}, peer' = [peer EXCEPT !["initiator"].call = c]
            PROVE  peer'[s].closed = peer[s].closed
        <4> DEFINE p == [peer["initiator"] EXCEPT !.call = c]
        <4>1. p \in PeerType /\ p.closed = peer["initiator"].closed
          BY <1>0, <1>3
        <4>2. peer' = [peer EXCEPT !["initiator"] = p]
          BY <3>2
        <4> HIDE DEF p
        <4> QED
          BY <1>0, <1>1, <4>1, <4>2
      <3>3. /\ Returned(peer["initiator"], "error") \in PeerType
            /\ Returned(peer["initiator"], "error").closed = peer["initiator"].closed
        BY <1>0, <1>2
      <3> QED
        BY <1>0, <1>1, <3>1, <3>2, <3>3
    <2> QED
      BY <1>8, <2>1, <2>2, <2>3
  <1>9. CASE BeginRelay
    <2> DEFINE p == [peer["initiator"] EXCEPT
                       !.call = IF relaying = "connect" THEN "wait" ELSE @]
    <2>1. p \in PeerType /\ p.closed = peer["initiator"].closed
      BY <1>0 DEF PeerType
    <2>2. \/ peer' = [peer EXCEPT !["initiator"] = p]
          \/ peer' = [peer EXCEPT !["initiator"] = Fail(p)]
      BY <1>9 DEF BeginRelay
    <2> HIDE DEF p
    <2> QED
      BY <1>0, <1>1, <1>2, <2>1, <2>2
  <1>10. PeerJoined \/ (\E t \in Sides : SocketLost(t) \/ ServerError(t)) => UNCHANGED peer
    BY DEF PeerJoined, SocketLost, ServerError
  <1>11. ASSUME NEW t \in Sides, NEW k \in Kinds,
                Callbacks(t, k) \/ OnConnectionFailed(t, k) \/ OnChannelError(t, k) \/ Link(k)
         PROVE  peer'[s].closed = peer[s].closed
    <2>1. \/ UNCHANGED peer
          \/ peer' = [peer EXCEPT ![t].transport = k]
          \/ peer' = [peer EXCEPT ![t].result = IF @ = "none" THEN k ELSE @]
          \/ peer' = [peer EXCEPT ![t] = Fail(@)]
      BY <1>11 DEF Callbacks, OnICECandidate, SendCandidate, OnOpen, PublishResult,
                   OnConnectionFailed, OnChannelError, Link, callbackUnchanged
    <2>2. CASE \/ peer' = [peer EXCEPT ![t].transport = k]
               \/ peer' = [peer EXCEPT ![t].result = IF @ = "none" THEN k ELSE @]
      BY <1>0, <2>2 DEF PeerType
    <2> QED
      BY <1>0, <1>1, <1>2, <2>1, <2>2
  <1>12. ASSUME NEW t \in Sides, SignalLoop(t)
         PROVE  peer'[s].closed = peer[s].closed
    <2>1. CASE \/ peer' = [peer EXCEPT ![t] = LoopFailed(@)]
               \/ \E x \in {"ended", "loop", "askRestart", "askReady"} :
                     peer' = [peer EXCEPT ![t].step = x]
      <3>1. CASE peer' = [peer EXCEPT ![t] = LoopFailed(@)]
        <4>1. LoopFailed(peer[t]) \in PeerType /\ LoopFailed(peer[t]).closed = peer[t].closed
          BY <1>0, <1>2
        <4> QED
          BY <1>1, <3>1, <4>1
      <3>2. ASSUME NEW x \in {"ended", "loop", "askRestart", "askReady"},
                   peer' = [peer EXCEPT ![t].step = x]
            PROVE  peer'[s].closed = peer[s].closed
        <4> DEFINE p == [peer[t] EXCEPT !.step = x]
        <4>1. p \in PeerType /\ p.closed = peer[t].closed
          BY <1>0, <1>3
        <4>2. peer' = [peer EXCEPT ![t] = p]
          BY <3>2
        <4> HIDE DEF p
        <4> QED
          BY <1>1, <4>1, <4>2
      <3> QED
        BY <2>1, <3>1, <3>2
    <2>2. CASE HandlePeerJoined(t)
      BY <1>0, <2>2 DEF HandlePeerJoined, PeerType
    <2>3. CASE MakeOffer(t) \/ SendDescription(t)
      <3>1. \/ peer' = [peer EXCEPT ![t] = LoopFailed(@)]
            \/ peer' = [peer EXCEPT ![t].step = "sendOffer", ![t].pc = peer[t].current]
            \/ peer' = [peer EXCEPT ![t].step = "loop", ![t].pc = "none"]
        BY <2>3 DEF MakeOffer, SendDescription
      <3>2. CASE \/ peer' = [peer EXCEPT ![t].step = "sendOffer", ![t].pc = peer[t].current]
                 \/ peer' = [peer EXCEPT ![t].step = "loop", ![t].pc = "none"]
        BY <1>0, <3>2 DEF PeerType
      <3> QED
        BY <2>1, <3>1, <3>2
    <2>4. CASE HandleOffer(t) \/ HandleAnswer(t)
      <3>1. \/ peer' = [peer EXCEPT ![t] = LoopFailed(@)]
            \/ peer' = [peer EXCEPT ![t].pending = {}, ![t].step = "sendAnswer",
                                    ![t].pc = peer[t].current]
            \/ peer' = [peer EXCEPT ![t].pending = {}]
        BY <2>4 DEF HandleOffer, HandleAnswer
      <3>2. CASE \/ peer' = [peer EXCEPT ![t].pending = {}, ![t].step = "sendAnswer",
                                         ![t].pc = peer[t].current]
                 \/ peer' = [peer EXCEPT ![t].pending = {}]
        BY <1>0, <3>2 DEF PeerType
      <3> QED
        BY <2>1, <3>1, <3>2
    <2>5. CASE HandleCandidate(t)
      <3>1. UNCHANGED peer \/ peer' = [peer EXCEPT ![t] = KeepCandidate(@, Head(inbox[t]).of)]
        BY <2>5 DEF HandleCandidate
      <3>2. Head(inbox[t]).of \in Kinds
        BY <2>5, TakeFacts, SignalFields, TypesParts DEF HandleCandidate
      <3> QED
        BY <1>0, <1>1, <1>2, <3>1, <3>2
    <2>6. CASE Restart(t)
      <3> DEFINE p == ReplaceConnection(peer[t], "relay")
      <3>1. p \in PeerType /\ p.closed = peer[t].closed
        BY <1>0, <1>2
      <3>2. \/ peer' = [peer EXCEPT ![t] = [p EXCEPT !.step = "loop"]]
            \/ peer' = [peer EXCEPT ![t] = LoopFailed(p)]
            \/ peer' = [peer EXCEPT ![t].step = "loop"]
            \/ peer' = [peer EXCEPT ![t] = LoopFailed(@)]
        BY <2>6 DEF Restart
      <3> HIDE DEF p
      <3>3. CASE peer' = [peer EXCEPT ![t] = [p EXCEPT !.step = "loop"]]
        BY <1>0, <1>1, <1>3, <3>1, <3>3
      <3> QED
        BY <1>0, <1>1, <1>2, <2>1, <3>1, <3>2, <3>3
    <2>7. CASE Ready(t)
      <3> DEFINE p == ReplaceConnection(peer[t], "relay")
      <3>1. p \in PeerType /\ p.closed = peer[t].closed
        BY <1>0, <1>2
      <3>2. \/ peer' = [peer EXCEPT ![t] = [p EXCEPT !.step = "makeOffer"]]
            \/ peer' = [peer EXCEPT ![t] = LoopFailed(p)]
            \/ peer' = [peer EXCEPT ![t] = LoopFailed(@)]
        BY <2>7 DEF Ready
      <3> HIDE DEF p
      <3>3. CASE peer' = [peer EXCEPT ![t] = [p EXCEPT !.step = "makeOffer"]]
        BY <1>0, <1>1, <1>3, <3>1, <3>3
      <3> QED
        BY <1>0, <1>1, <1>2, <2>1, <3>1, <3>2, <3>3
    <2>8. LoopEnds(t) \/ HandleRestart(t) \/ HandleRefusal(t)
             => \/ peer' = [peer EXCEPT ![t] = LoopFailed(@)]
                \/ \E x \in {"ended", "loop", "askRestart", "askReady"} :
                      peer' = [peer EXCEPT ![t].step = x]
      BY DEF LoopEnds, HandleRestart, HandleRefusal
    <2> QED
      BY <1>12, <2>1, <2>2, <2>3, <2>4, <2>5, <2>6, <2>7, <2>8 DEF SignalLoop
  <1> QED
    BY <1>4, <1>5, <1>6, <1>7, <1>8, <1>9, <1>10, <1>11, <1>12, TwoSides
       DEF Next, Call, vars

(***************************************************************************)
(* A connection begins to run in Connect, Restart or Ready, each after its *)
(* request for ICE servers.                                                *)
(***************************************************************************)
LEMMA LiveStep ==
    ASSUME Types, ConnectionInv, [Next]_vars, NEW s \in Sides, NEW k \in Kinds,
           conn'[s][k].state = "live", ~AwaitsServers(s)
    PROVE  conn[s][k].state = "live"
  <1>1. ASSUME NEW t \in Sides, Connect(t) \/ Restart(t) \/ Ready(t)
        PROVE  conn[s][k].state = "live"
    <2>1. t # s
      BY <1>1, ConnectPlaces, RestartPlaces, ReadyPlaces DEF AwaitsServers
    <2>2. conn'[s] = conn[s]
      BY <1>1, <2>1, ConnectPlaces, RestartPlaces, ReadyPlaces DEF Elsewhere
    <2> QED
      BY <2>2
  <1>2. ASSUME NEW t \in Sides, Dial(t) \/ Close(t)
        PROVE  conn[s][k].state = "live"
    <2>1. CASE t # s
      BY <1>2, <2>1, DialPlaces, ClosePlaces DEF Elsewhere
    <2>2. CASE t = s
      <3>1. UNCHANGED conn \/ conn'[s] = ClosedConn(s)
        BY <1>2, <2>2, DialPlaces, ClosePlaces
      <3>2. CASE conn'[s] = ClosedConn(s)
        <4>1. peer[s].closed
          BY <3>2, OwnedSides, ConnStates
        <4> QED
          BY <3>2, <4>1, OwnedSides, ConnStates
      <3> QED
        BY <3>1, <3>2
    <2> QED
      BY <2>1, <2>2
  <1>3. (\E t \in Sides : TakeResult(t) \/ TakeError(t) \/ CtxDone(t))
        \/ NegotiationStarted \/ DirectTimeout \/ RelayTimeout \/ BeginRelay
        \/ (\E t \in Sides, j \in Kinds : Callbacks(t, j) \/ OnConnectionFailed(t, j)
                                          \/ OnChannelError(t, j))
        \/ (\E j \in Kinds : Link(j)) => KeepsPlace(s)
    BY CallPlaces, BeginRelayPlaces, CallbackPlaces, TwoSides DEF Callbacks
  <1>4. UNCHANGED vars \/ PeerJoined \/ (\E t \in Sides : SocketLost(t) \/ ServerError(t))
           => UNCHANGED conn
    BY DEF vars, PeerJoined, SocketLost, ServerError, netUnchanged
  <1>5. ASSUME NEW t \in Sides,
               \/ LoopEnds(t) \/ HandlePeerJoined(t) \/ MakeOffer(t) \/ SendDescription(t)
               \/ HandleOffer(t) \/ HandleAnswer(t) \/ HandleCandidate(t)
               \/ HandleRestart(t) \/ HandleRefusal(t)
        PROVE  conn[s][k].state = "live"
    <2>1. Elsewhere(t) /\ KeepsConnections(t)
      BY <1>5, LoopEndsPlaces, PeerJoinedPlaces, MakeOfferPlaces, SendDescriptionPlaces,
         HandleOfferPlaces, HandleAnswerPlaces, HandleCandidatePlaces, HandleRestartPlaces,
         HandleRefusalPlaces
    <2> QED
      BY <2>1 DEF Elsewhere, KeepsConnections
  <1>6. KeepsPlace(s) \/ UNCHANGED conn => conn[s][k].state = "live"
    BY DEF KeepsPlace
  <1> QED
    BY <1>1, <1>2, <1>3, <1>4, <1>5, <1>6 DEF Next, Call, SignalLoop

(* What runs when its Peer is closed escapes it. *)
LEMMA ClosingStep ==
    ASSUME Types, ConnectionInv, NEW s \in Sides, NEW k \in Kinds, Dial(s) \/ Close(s),
           conn'[s][k].state = "live", peer'[s].closed
    PROVE  peer[s].closed
  <1>1. peer \in [Sides -> PeerType] /\ peer[s] \in PeerType
    BY TypesParts DEF PeerOK
  <1>2. CASE conn'[s] = ClosedConn(s)
    BY <1>2, OwnedSides, ConnStates
  <1>3. CASE Dial(s) /\ UNCHANGED conn /\ peer'[s].step = "loop"
    <2>1. CASE peer' = [peer EXCEPT
                ![s].call = IF s = "initiator" THEN "start" ELSE "wait",
                ![s].step = "loop"]
      BY <1>1, <2>1 DEF PeerType
    <2>2. CASE conn' = [conn EXCEPT ![s] = ClosedConn(s)]
      BY <1>2, <2>2, TypesParts DEF ConnOK
    <2> QED
      BY <1>3, <2>1, <2>2 DEF Dial
  <1> QED
    BY <1>2, <1>3, DialPlaces, ClosePlaces

(***************************************************************************)
(* replaceConnection, Close and the failing ends of Connect close what     *)
(* they replace: no connection but the current one is ever left running,   *)
(* and in a closed Peer none but one installed behind the back of Close,   *)
(* by a call or handler that was asking for ICE servers.                   *)
(***************************************************************************)
THEOREM NothingElseIsOrphaned == Spec => OrphanedByCloseOnly
  <1>1. Init => Types /\ ConnectionInv
    BY TypesInit, ConnectionInit
  <1>2. Types /\ ConnectionInv /\ [Next]_vars => Types' /\ ConnectionInv'
    BY TypesStep, ConnectionStep
  <1>3. Types /\ ConnectionInv /\ ConnectionInv' /\ [Next]_vars
           => [/\ OnlyCurrentLives'
               /\ \A s \in Sides, k \in Kinds :
                     conn'[s][k].state = "live" /\ peer'[s].closed
                     => \/ AwaitsServers(s)
                        \/ conn[s][k].state = "live" /\ peer[s].closed]_vars
    <2> SUFFICES ASSUME Types, ConnectionInv, ConnectionInv', [Next]_vars
                 PROVE  /\ OnlyCurrentLives'
                        /\ \A s \in Sides, k \in Kinds :
                              conn'[s][k].state = "live" /\ peer'[s].closed
                              => \/ AwaitsServers(s)
                                 \/ conn[s][k].state = "live" /\ peer[s].closed
      OBVIOUS
    <2>1. OnlyCurrentLives'
      BY DEF ConnectionInv
    <2>2. ASSUME NEW s \in Sides, NEW k \in Kinds, conn'[s][k].state = "live",
                 peer'[s].closed, ~AwaitsServers(s)
          PROVE  conn[s][k].state = "live" /\ peer[s].closed
      <3>1. conn[s][k].state = "live"
        BY <2>2, LiveStep
      <3>2. peer[s].closed
        BY <2>2, ClosedStep, ClosingStep
      <3> QED
        BY <3>1, <3>2
    <2> QED
      BY <2>1, <2>2
  <1> QED
    BY <1>1, <1>2, <1>3, PTL DEF Spec, OrphanedByCloseOnly

-----------------------------------------------------------------------------
(* The handover *)

(* The inbox of side t may have gained signal m, as its last. *)
Gains(t, m) ==
    /\ \A i \in 1 .. Len(inbox'[t]) :
          \/ i \in 1 .. Len(inbox[t]) /\ inbox'[t][i] = inbox[t][i]
          \/ i = Len(inbox[t]) + 1 /\ inbox'[t][i] = m
    /\ \A s \in Sides \ {t} : inbox'[s] = inbox[s]

(* The inbox of side s has lost its first signal, or all of them. *)
Loses(s) ==
    /\ \A i \in 1 .. Len(inbox'[s]) :
          i + 1 \in 1 .. Len(inbox[s]) /\ inbox'[s][i] = inbox[s][i + 1]
    /\ \A t \in Sides \ {s} : inbox'[t] = inbox[t]

LEMMA GainsFacts ==
    ASSUME inbox \in [Sides -> Seq(Signal)], NEW t \in Sides, NEW m,
           inbox' = inbox \/ Deliver(t, m)
    PROVE  Gains(t, m)
  <1>1. CASE inbox' = inbox
    BY <1>1 DEF Gains
  <1>2. CASE inbox' = [inbox EXCEPT ![t] = Append(@, m)]
    BY <1>2 DEF Gains
  <1> QED
    BY <1>1, <1>2, DeliverCases

LEMMA SendGains ==
    ASSUME inbox \in [Sides -> Seq(Signal)], NEW s \in Sides, NEW m,
           inbox' = inbox \/ SendSignal(s, m)
    PROVE  Gains(Other(s), m)
  BY GainsFacts, TwoSides DEF SendSignal

LEMMA LosesFacts ==
    ASSUME inbox \in [Sides -> Seq(Signal)], NEW s \in Sides,
           \/ inbox' = [inbox EXCEPT ![s] = <<>>]
           \/ inbox[s] # <<>> /\ inbox' = [inbox EXCEPT ![s] = Tail(@)]
    PROVE  Loses(s)
  <1>1. \A t \in Sides \ {s} : inbox'[t] = inbox[t]
    OBVIOUS
  <1>2. \A i \in 1 .. Len(inbox'[s]) :
           i + 1 \in 1 .. Len(inbox[s]) /\ inbox'[s][i] = inbox[s][i + 1]
    <2>1. CASE inbox' = [inbox EXCEPT ![s] = <<>>]
      BY <2>1
    <2>2. CASE inbox[s] # <<>> /\ inbox' = [inbox EXCEPT ![s] = Tail(@)]
      <3>1. inbox'[s] = Tail(inbox[s]) /\ inbox[s] \in Seq(Signal)
        BY <2>2
      <3> QED
        BY <2>2, <3>1
    <2> QED
      BY <2>1, <2>2
  <1> QED
    BY <1>1, <1>2 DEF Loses

(* A signal x in the inbox of t that fits the session still does after the step. *)
StillFits(t, x) == Fits(t, x) => Fits(t, x)'

(* A side gains a signal that fits and may come last. *)
LEMMA QueueGains ==
    ASSUME Types, QueueInv, NEW t \in Sides, NEW m, Gains(t, m),
           \A s \in Sides, x \in Signal : StillFits(s, x),
           Fits(t, m)',
           \A i \in 1 .. Len(inbox[t]) : MayPrecede(inbox[t][i], m)
    PROVE  QueueInv'
  <1>0. inbox \in [Sides -> Seq(Signal)]
    BY TypesParts DEF InboxType
  <1>1. \A s \in Sides : \A i \in 1 .. Len(inbox[s]) : inbox[s][i] \in Signal
    BY <1>0
  <1>2. \A s \in Sides : \A i \in 1 .. Len(inbox[s]) :
           inbox'[s][i] = inbox[s][i] => Fits(s, inbox[s][i])'
    BY <1>1 DEF QueueInv, StillFits, Fits, Offered, Changed, Describes
  <1>3. \A s \in Sides : \A i \in 1 .. Len(inbox'[s]) :
           \/ i \in 1 .. Len(inbox[s]) /\ inbox'[s][i] = inbox[s][i]
           \/ s = t /\ i = Len(inbox[s]) + 1 /\ inbox'[s][i] = m
    BY <1>0 DEF Gains
  <1>4. \A s \in Sides : \A i \in 1 .. Len(inbox'[s]) : Fits(s, inbox[s][i])'
    <2> SUFFICES ASSUME NEW s \in Sides, NEW i \in 1 .. Len(inbox'[s])
                 PROVE  Fits(s, inbox[s][i])'
      OBVIOUS
    <2>1. CASE i \in 1 .. Len(inbox[s]) /\ inbox'[s][i] = inbox[s][i]
      BY <1>2, <2>1
    <2>2. CASE s = t /\ inbox'[s][i] = m
      BY <2>2 DEF Fits, Offered, Changed, Describes
    <2> QED
      BY <1>3, <2>1, <2>2
  <1>5. \A s \in Sides : \A i, j \in 1 .. Len(inbox'[s]) :
           j < i => MayPrecede(inbox'[s][j], inbox'[s][i])
    <2> SUFFICES ASSUME NEW s \in Sides, NEW i \in 1 .. Len(inbox'[s]),
                        NEW j \in 1 .. Len(inbox'[s]), j < i
                 PROVE  MayPrecede(inbox'[s][j], inbox'[s][i])
      OBVIOUS
    <2>0. Len(inbox[s]) \in Nat
      BY <1>0
    <2>1. CASE i \in 1 .. Len(inbox[s]) /\ inbox'[s][i] = inbox[s][i]
      <3>1. j \in 1 .. Len(inbox[s]) /\ inbox'[s][j] = inbox[s][j]
        BY <1>3, <2>0, <2>1
      <3> QED
        BY <2>1, <3>1 DEF QueueInv
    <2>2. CASE s = t /\ i = Len(inbox[s]) + 1 /\ inbox'[s][i] = m
      <3>1. j \in 1 .. Len(inbox[s]) /\ inbox'[s][j] = inbox[s][j]
        BY <1>3, <2>0, <2>2
      <3> QED
        BY <2>2, <3>1
    <2> QED
      BY <1>3, <2>1, <2>2
  <1> QED
    BY <1>4, <1>5 DEF QueueInv, MayPrecede, Describes

(* A side handles its first signal: those behind it may follow it. *)
LEMMA QueueLoses ==
    ASSUME Types, QueueInv, NEW s \in Sides, Loses(s),
           \A t \in Sides, x \in Signal :
              (x.type \in ToSide(t) /\ (t = s => MayPrecede(inbox[s][1], x)))
                 => StillFits(t, x)
    PROVE  QueueInv'
  <1>0. inbox \in [Sides -> Seq(Signal)]
    BY TypesParts DEF InboxType
  <1>1. \A t \in Sides : \A i \in 1 .. Len(inbox[t]) :
           /\ inbox[t][i] \in Signal /\ Fits(t, inbox[t][i])
           /\ inbox[t][i].type \in ToSide(t)
    BY <1>0, TypesParts, TwoSides DEF QueueInv, InboxType, ToSide
  <1>2. \A t \in Sides \ {s} : \A i \in 1 .. Len(inbox'[t]) : Fits(t, inbox[t][i])'
    BY <1>1 DEF Loses, StillFits, Fits, Offered, Changed, Describes
  <1>3. \A i \in 1 .. Len(inbox'[s]) : Fits(s, inbox[s][i])'
    <2> SUFFICES ASSUME NEW i \in 1 .. Len(inbox'[s])
                 PROVE  Fits(s, inbox[s][i])'
      OBVIOUS
    <2>1. i + 1 \in 1 .. Len(inbox[s]) /\ inbox'[s][i] = inbox[s][i + 1]
          /\ 1 \in 1 .. Len(inbox[s]) /\ 1 < i + 1
      BY <1>0 DEF Loses
    <2>2. MayPrecede(inbox[s][1], inbox[s][i + 1])
      BY <2>1 DEF QueueInv
    <2> DEFINE x == inbox[s][i + 1]
    <2>3. x \in Signal /\ Fits(s, x) /\ MayPrecede(inbox[s][1], x) /\ inbox'[s][i] = x
          /\ x.type \in ToSide(s)
      BY <1>1, <2>1, <2>2
    <2> HIDE DEF x
    <2> QED
      BY <2>3 DEF StillFits, Fits, Offered, Changed, Describes
  <1>4. \A t \in Sides : \A i, j \in 1 .. Len(inbox'[t]) :
           j < i => MayPrecede(inbox'[t][j], inbox'[t][i])
    <2> SUFFICES ASSUME NEW t \in Sides, NEW i \in 1 .. Len(inbox'[t]),
                        NEW j \in 1 .. Len(inbox'[t]), j < i
                 PROVE  MayPrecede(inbox'[t][j], inbox'[t][i])
      OBVIOUS
    <2>1. CASE t = s
      <3>1. /\ i + 1 \in 1 .. Len(inbox[s]) /\ inbox'[s][i] = inbox[s][i + 1]
            /\ j + 1 \in 1 .. Len(inbox[s]) /\ inbox'[s][j] = inbox[s][j + 1]
            /\ j + 1 < i + 1
        BY <2>1 DEF Loses
      <3> QED
        BY <2>1, <3>1 DEF QueueInv
    <2>2. CASE t # s
      BY <2>2 DEF Loses, QueueInv
    <2> QED
      BY <2>1, <2>2
  <1> QED
    BY <1>2, <1>3, <1>4 DEF QueueInv, MayPrecede, Describes

(***************************************************************************)
(* A step is calm for side s if its loop at most returns to its select or  *)
(* ends, and its connections are at most closed, or its first is made.     *)
(***************************************************************************)
Calm(s) ==
    /\ \/ peer'[s].current \in {peer[s].current, "none"}
       \/ peer'[s].current = "direct" /\ ~Changed(s)
    /\ peer'[s].began = peer[s].began
    /\ \/ peer'[s].step = peer[s].step /\ peer'[s].pc = peer[s].pc
       \/ peer'[s].step \in {"loop", "ended"}
    /\ peer'[s].call \in {"idle", "dial"} =>
          peer[s].call \in {"idle", "dial"} /\ peer'[s].step = peer[s].step
    /\ peer'[s].call = "direct" => peer[s].call = "direct" \/ peer[s].began
    /\ conn'[s]["relay"].state = "none" <=> conn[s]["relay"].state = "none"
    /\ \A k \in Kinds : conn'[s][k].remote \in {"none", conn[s][k].remote}

(* The relay is asked for after the first offer, and then once. *)
RelayingStep ==
    \/ relaying' = relaying
    \/ relaying # "no" /\ relaying' = "done"
    \/ relaying = "no" /\ Offered /\ relaying' # "no"

PlaceInv == CurrentInv /\ OrderInv /\ DescriptionMatches

LEMMA CalmPlaces ==
    ASSUME Types, PlaceInv, \A s \in Sides : Calm(s), RelayingStep, announced => announced'
    PROVE  /\ PlaceInv'
           /\ \A s \in Sides, x \in Signal : StillFits(s, x)
  <1> USE TwoSides
  <1>1. \A s \in Sides : Changed(s)' <=> Changed(s)
    BY DEF Calm, Changed
  <1>2. CurrentInv'
    BY <1>1 DEF PlaceInv, CurrentInv, Calm
  <1>3. Offered => Offered'
    BY <1>1 DEF Offered, Calm
  <1>4. OrderInv'
    <2>1. /\ peer'["initiator"].began => announced'
          /\ peer'["initiator"].step \in {"makeOffer", "sendOffer"} =>
                peer'["initiator"].began
          /\ peer'["initiator"].call = "direct" => peer'["initiator"].began
      BY DEF PlaceInv, OrderInv, Calm
    <2>2. relaying' # "no" => Offered'
      BY <1>3 DEF PlaceInv, OrderInv, RelayingStep
    <2>3. /\ Changed("responder")' \/ peer'["responder"].step = "askRestart" =>
                relaying' = "done"
          /\ Changed("initiator")' \/ peer'["initiator"].step = "askReady" =>
                Changed("responder")'
      BY <1>1 DEF PlaceInv, OrderInv, Calm, RelayingStep
    <2>4. /\ peer'["initiator"].step = "sendOffer" =>
                (peer'["initiator"].pc = "relay" <=> Changed("initiator")')
          /\ peer'["responder"].step = "sendAnswer" /\ peer'["responder"].pc = "direct" =>
                Offered' /\ ~Changed("responder")'
          /\ peer'["responder"].step = "sendAnswer" /\ peer'["responder"].pc = "relay" =>
                Changed("initiator")'
      BY <1>1, <1>3 DEF PlaceInv, OrderInv, Calm
    <2>5. conn'["initiator"]["direct"].remote # "none" => Offered'
      BY <1>3 DEF PlaceInv, OrderInv, Calm
    <2> QED
      BY <2>1, <2>2, <2>3, <2>4, <2>5 DEF OrderInv
  <1>5. DescriptionMatches'
    BY DEF PlaceInv, DescriptionMatches, Calm
  <1>6. ASSUME NEW s \in Sides, NEW x \in Signal
        PROVE  StillFits(s, x)
    <2>1. Offered' \/ ~Offered
      BY <1>3
    <2>2. relaying = "done" => relaying' = "done"
      BY DEF RelayingStep, PlaceInv, OrderInv
    <2>3. Fits(s, x) => Fits(s, x)'
      BY <1>1, <2>1, <2>2 DEF Fits, Calm
    <2> QED
      BY <2>3 DEF StillFits
  <1> QED
    BY <1>2, <1>4, <1>5, <1>6 DEF PlaceInv

(* Signals that take no part in the handover fit at any time, behind any other. *)
LEMMA HarmlessFits ==
    ASSUME NEW t \in Sides, NEW m,
           m.type \in {"ice_candidate", "transport_unavailable", "peer_left", "error"}
    PROVE  /\ Fits(t, m)'
           /\ \A i \in 1 .. Len(inbox[t]) : MayPrecede(inbox[t][i], m)
  BY DEF Fits, MayPrecede, Describes

LEMMA HandoverParts == HandoverInv <=> PlaceInv /\ QueueInv
  BY DEF HandoverInv, PlaceInv

LEMMA HandoverAfter ==
    ASSUME PlaceInv', QueueInv'
    PROVE  HandoverInv'
  BY DEF HandoverInv, PlaceInv

(* Calm steps, with whatever happens to the inboxes. *)
LEMMA CalmGains ==
    ASSUME Types, HandoverInv, \A s \in Sides : Calm(s), RelayingStep,
           announced => announced', NEW t \in Sides, NEW m, Gains(t, m),
           m.type \in {"ice_candidate", "transport_unavailable", "peer_left", "error"}
    PROVE  HandoverInv'
  <1>1. PlaceInv' /\ \A s \in Sides, x \in Signal : StillFits(s, x)
    BY CalmPlaces, HandoverParts
  <1>2. QueueInv'
    BY <1>1, HarmlessFits, QueueGains, HandoverParts
  <1> QED
    BY <1>1, <1>2, HandoverAfter

LEMMA CalmLoses ==
    ASSUME Types, HandoverInv, \A s \in Sides : Calm(s), RelayingStep,
           announced => announced', NEW t \in Sides, Loses(t)
    PROVE  HandoverInv'
  <1>1. PlaceInv' /\ \A s \in Sides, x \in Signal : StillFits(s, x)
    BY CalmPlaces, HandoverParts
  <1>2. QueueInv'
    BY <1>1, QueueLoses, HandoverParts
  <1> QED
    BY <1>1, <1>2, HandoverAfter

LEMMA CalmSame ==
    ASSUME Types, HandoverInv, \A s \in Sides : Calm(s), RelayingStep,
           announced => announced', inbox' = inbox
    PROVE  HandoverInv'
  <1> DEFINE m == [type |-> "error"]
  <1>1. "initiator" \in Sides /\ m.type = "error" /\ inbox \in [Sides -> Seq(Signal)]
    BY TwoSides, TypesParts DEF InboxType
  <1>2. Gains("initiator", m)
    BY <1>1, GainsFacts
  <1> QED
    BY <1>1, <1>2, CalmGains

-----------------------------------------------------------------------------
(* Which steps are calm. *)
LEMMA KeptIsCalm ==
    ASSUME NEW s \in Sides, KeepsPlace(s),
           peer'[s].call \in {peer[s].call, "direct", "ask", "wait", "returned"},
           peer'[s].call = "direct" /\ peer[s].call # "direct" => peer[s].began
    PROVE  Calm(s)
  BY TwoSides DEF KeepsPlace, Calm

LEMMA ElsewhereIsCalm ==
    ASSUME NEW s \in Sides, NEW t \in Sides, t # s, Elsewhere(s)
    PROVE  Calm(t)
  BY DEF Elsewhere, Calm

LEMMA LoopIsCalm ==
    ASSUME Types, CurrentInv, NEW s \in Sides, KeepsConnections(s),
           peer'[s].began = peer[s].began, peer[s].step # "off",
           peer'[s].step \in {"loop", "ended"},
           \A k \in Kinds : conn'[s][k].remote = conn[s][k].remote
    PROVE  Calm(s)
  BY TwoSides DEF KeepsConnections, Calm, CurrentInv

LEMMA ClosedIsCalm ==
    ASSUME Types, CurrentInv, NEW s \in Sides,
           conn'[s] = ClosedConn(s),
           peer'[s].current = ClosedPeer(peer[s]).current,
           peer'[s].began = peer[s].began,
           peer'[s].step = peer[s].step, peer'[s].pc = peer[s].pc,
           peer'[s].call \in {peer[s].call, "start", "wait", "returned"}
    PROVE  Calm(s)
  <1>0. peer[s] \in PeerType /\ "relay" \in Kinds
    BY TypesParts, TwoSides DEF PeerOK
  <1>1. peer'[s].current \in {peer[s].current, "none"}
    BY <1>0, ClosedPeerFields
  <1>2. \A k \in Kinds : conn'[s][k].remote \in {"none", conn[s][k].remote}
    BY ConnChanges
  <1>3. conn'[s]["relay"].state = "none" <=> conn[s]["relay"].state = "none"
    BY <1>0, ConnChanges DEF CurrentInv, Changed
  <1> QED
    BY <1>1, <1>2, <1>3 DEF Calm

-----------------------------------------------------------------------------
(* The steps of the handover *)

(* The session is complete: the initiator is told, for the first time. *)
LEMMA PeerJoinedHandover ==
    ASSUME Types, HandoverInv, PeerJoined
    PROVE  HandoverInv'
  <1> DEFINE m == [type |-> "peer_joined"]
  <1>1. UNCHANGED <<peer, conn, relaying>> /\ announced' = TRUE /\ announced = FALSE
        /\ Deliver("initiator", m) /\ "initiator" \in Sides
    BY TypesParts, TwoSides DEF PeerJoined, netUnchanged, RestOK
  <1>2. /\ PlaceInv'
        /\ \A s \in Sides, x \in Signal : StillFits(s, x)
    BY <1>1, CalmPlaces, HandoverParts DEF Calm, RelayingStep
  <1>3. ~peer["initiator"].began
    BY <1>1 DEF HandoverInv, OrderInv
  <1>4. Fits("initiator", m)'
    BY <1>1, <1>3 DEF Fits, Describes
  <1>5. \A i \in 1 .. Len(inbox["initiator"]) : MayPrecede(inbox["initiator"][i], m)
    BY <1>1 DEF HandoverInv, QueueInv, Fits, MayPrecede, Describes
  <1>6. Gains("initiator", m)
    BY <1>1, GainsFacts, TypesParts DEF InboxType
  <1> HIDE DEF m
  <1> QED
    BY <1>1, <1>2, <1>4, <1>5, <1>6, QueueGains, HandoverParts, HandoverAfter

(* beginRelay asks the responder to change, after the first offer. *)
LEMMA BeginRelayHandover ==
    ASSUME Types, HandoverInv, BeginRelay
    PROVE  HandoverInv'
  <1> DEFINE m == [type |-> "transport_restart"]
  <1>1. /\ \A s \in Sides : Calm(s)
        /\ relaying # "no" /\ relaying' = "done" /\ UNCHANGED announced
        /\ inbox' = inbox \/ SendSignal("initiator", m)
    BY BeginRelayPlaces, KeptIsCalm
  <1>2. /\ PlaceInv'
        /\ \A s \in Sides, x \in Signal : StillFits(s, x)
    BY <1>1, CalmPlaces, HandoverParts DEF RelayingStep
  <1>3. Fits("responder", m)'
    BY <1>1 DEF Fits, Describes
  <1>4. \A i \in 1 .. Len(inbox["responder"]) : MayPrecede(inbox["responder"][i], m)
    BY DEF MayPrecede, Describes
  <1>5. Gains("responder", m) /\ "responder" \in Sides
    BY <1>1, SendGains, TypesParts, TwoSides DEF InboxType
  <1> HIDE DEF m
  <1> QED
    BY <1>2, <1>3, <1>4, <1>5, QueueGains, HandoverParts, HandoverAfter

(* The initiator begins: it has not begun before, so nothing has been offered. *)
LEMMA BeganHandover ==
    ASSUME Types, HandoverInv, NEW s \in Sides, HandlePeerJoined(s)
    PROVE  HandoverInv'
  <1> USE TwoSides
  <1>0. InboxType
    BY TypesParts
  <1>1. /\ s = "initiator" /\ Elsewhere(s) /\ KeepsConnections(s)
        /\ peer'[s].began = TRUE /\ peer'[s].step = "makeOffer"
        /\ UNCHANGED <<conn, relaying, announced>>
        /\ Take(s, {"peer_joined"}) /\ inbox' = [inbox EXCEPT ![s] = Tail(@)]
    BY PeerJoinedPlaces
  <1>2. inbox[s] # <<>> /\ inbox[s][1].type = "peer_joined" /\ 1 \in 1 .. Len(inbox[s])
    BY <1>0, <1>1, TakeFacts
  <1>3. announced /\ ~peer["initiator"].began
    BY <1>1, <1>2 DEF HandoverInv, QueueInv, Fits
  <1>4. ~Offered /\ relaying = "no" /\ ~Changed("responder") /\ ~Changed("initiator")
        /\ conn["initiator"]["direct"].remote = "none"
    BY <1>3 DEF HandoverInv, OrderInv, Offered
  <1>5. \A t \in Sides : Changed(t)' <=> Changed(t)
    BY <1>1 DEF Changed
  <1>6. CurrentInv'
    BY <1>1, <1>5 DEF HandoverInv, CurrentInv, Elsewhere, KeepsConnections, Take
  <1>7. OrderInv'
    BY <1>1, <1>3, <1>4, <1>5 DEF HandoverInv, OrderInv, Elsewhere, KeepsConnections
  <1>8. DescriptionMatches'
    BY <1>1 DEF HandoverInv, DescriptionMatches
  <1>9. ASSUME NEW t \in Sides, NEW x \in Signal, x.type \in ToSide(t),
               t = s => MayPrecede(inbox[s][1], x)
        PROVE  StillFits(t, x)
    <2>1. Fits(t, x) => ~Describes(x, "direct") /\ ~Describes(x, "relay")
                        /\ x.type # "transport_restart" /\ x.type # "transport_ready"
      BY <1>4 DEF Fits
    <2>2. CASE x.type = "peer_joined"
      <3>1. t # "initiator"
        BY <1>1, <1>2, <1>9, <2>2 DEF MayPrecede
      <3> QED
        BY <1>9, <2>2, <3>1 DEF ToSide, ToResponder
    <2>3. CASE x.type # "peer_joined"
      BY <2>1, <2>3 DEF StillFits, Fits
    <2> QED
      BY <2>2, <2>3
  <1>10. Loses(s)
    BY <1>0, <1>1, <1>2, LosesFacts DEF InboxType
  <1>11. QueueInv'
    BY <1>9, <1>10, QueueLoses, HandoverParts
  <1> QED
    BY <1>6, <1>7, <1>8, <1>11 DEF HandoverInv

(* sendOffer describes the current connection. *)
LEMMA MakeOfferHandover ==
    ASSUME Types, HandoverInv, NEW s \in Sides, MakeOffer(s)
    PROVE  HandoverInv'
  <1> USE TwoSides
  <1>0. inbox \in [Sides -> Seq(Signal)]
    BY TypesParts DEF InboxType
  <1>1. /\ s = "initiator" /\ Elsewhere(s) /\ KeepsConnections(s)
        /\ peer'[s].began = peer[s].began
        /\ \A k \in Kinds : conn'[s][k].remote = conn[s][k].remote
        /\ \/ peer'[s].step = "ended"
           \/ /\ peer'[s].step = "sendOffer" /\ peer'[s].pc = peer[s].current
              /\ peer[s].current \in Kinds
        /\ UNCHANGED <<inbox, relaying, announced>>
        /\ peer[s].step = "makeOffer"
    BY MakeOfferPlaces
  <1>2. CASE peer'[s].step = "ended"
    <2>1. \A t \in Sides : Calm(t)
      BY <1>1, <1>2, LoopIsCalm, ElsewhereIsCalm DEF HandoverInv
    <2> QED
      BY <1>1, <2>1, CalmSame DEF RelayingStep
  <1>3. CASE /\ peer'[s].step = "sendOffer" /\ peer'[s].pc = peer[s].current
             /\ peer[s].current \in Kinds
    <2>1. \A t \in Sides : Changed(t)' <=> Changed(t)
      BY <1>1 DEF Changed, Elsewhere, KeepsConnections
    <2>2. Offered' <=> Offered
      BY <1>1, <1>3, <2>1 DEF Offered
    <2>3. CurrentInv'
      BY <1>1, <1>3, <2>1 DEF HandoverInv, CurrentInv, Elsewhere, KeepsConnections
    <2>4. OrderInv'
      BY <1>1, <1>3, <2>1, <2>2
      DEF HandoverInv, OrderInv, CurrentInv, Elsewhere, KeepsConnections
    <2>5. DescriptionMatches'
      BY <1>1 DEF HandoverInv, DescriptionMatches, Elsewhere
    <2>6. \A t \in Sides, x \in Signal : StillFits(t, x)
      BY <1>1, <1>3, <2>1, <2>2 DEF StillFits, Fits, Elsewhere
    <2> DEFINE m == [type |-> "error"]
    <2>7. Gains(s, m) /\ m.type = "error"
      BY <1>0, <1>1, GainsFacts
    <2>8. QueueInv'
      BY <2>6, <2>7, HarmlessFits, QueueGains, HandoverParts
    <2> QED
      BY <2>3, <2>4, <2>5, <2>8 DEF HandoverInv
  <1> QED
    BY <1>1, <1>2, <1>3

(* A description of the direct connection is sent before anyone changes. *)
LEMMA SendDescriptionHandover ==
    ASSUME Types, HandoverInv, NEW s \in Sides, SendDescription(s)
    PROVE  HandoverInv'
  <1> USE TwoSides
  <1> DEFINE t == Other(s)
  <1>d. PICK m : /\ m.type \in {"offer", "answer"} /\ m.of = peer[s].pc
                 /\ inbox' = inbox \/ SendSignal(s, m)
    BY SendDescriptionPlaces
  <1>0. inbox \in [Sides -> Seq(Signal)] /\ t \in Sides
        /\ m.type \in {"offer", "answer"} /\ m.of = peer[s].pc
    BY <1>d, TypesParts DEF InboxType
  <1>1. /\ Elsewhere(s) /\ KeepsConnections(s)
        /\ peer'[s].began = peer[s].began /\ peer'[s].step \in {"loop", "ended"}
        /\ UNCHANGED <<conn, relaying, announced>> /\ peer[s].pc \in Kinds
        /\ s = "initiator" => peer[s].step = "sendOffer"
        /\ s = "responder" => peer[s].step = "sendAnswer"
        /\ inbox' = inbox \/ SendSignal(s, m)
    BY <1>d, SendDescriptionPlaces
  <1>2. \A r \in Sides : Calm(r)
    BY <1>1, LoopIsCalm, ElsewhereIsCalm DEF HandoverInv
  <1>3. /\ PlaceInv'
        /\ \A r \in Sides, x \in Signal : StillFits(r, x)
    BY <1>1, <1>2, CalmPlaces, HandoverParts DEF RelayingStep
  <1>4. Gains(t, m)
    BY <1>0, <1>1, SendGains
  <1>5. \A r \in Sides : Changed(r)' <=> Changed(r)
    BY <1>1 DEF Changed
  <1>6. CASE peer[s].pc = "direct"
    <2>1. CASE s = "initiator"
      <3>1. ~Changed("initiator") /\ relaying = "no" /\ peer["initiator"].began
        BY <1>1, <1>6, <2>1 DEF HandoverInv, OrderInv, Offered
      <3>2. Offered'
        BY <1>1, <2>1, <3>1 DEF Offered
      <3>3. ~Changed("responder") /\ peer["responder"].step # "askRestart"
        BY <3>1 DEF HandoverInv, OrderInv
      <3>4. t = "responder" /\ peer'[t].step = peer[t].step
        BY <1>1, <2>1 DEF Elsewhere
      <3>5. peer[t].step # "askReady"
        BY <3>4 DEF Types, RoleInv
      <3>6. Fits(t, m)'
        BY <1>0, <1>5, <1>6, <3>2, <3>3, <3>4, <3>5 DEF Fits, Describes
      <3>7. \A i \in 1 .. Len(inbox[t]) :
               inbox[t][i].type \notin {"transport_restart", "transport_ready"}
        BY <1>0, <3>1, <3>3, <3>4 DEF HandoverInv, QueueInv, Fits
      <3>8. \A i \in 1 .. Len(inbox[t]) : MayPrecede(inbox[t][i], m)
        BY <1>0, <3>7 DEF MayPrecede
      <3> QED
        BY <1>0, <1>3, <1>4, <3>6, <3>8, QueueGains, HandoverParts, HandoverAfter
    <2>2. CASE s = "responder"
      <3>1. Offered /\ ~Changed("responder")
        BY <1>1, <1>6, <2>2 DEF HandoverInv, OrderInv
      <3>2. Offered'
        BY <1>1, <1>5, <2>2, <3>1 DEF Offered, Elsewhere
      <3>3. ~Changed("initiator") /\ peer["initiator"].step # "askReady"
        BY <3>1 DEF HandoverInv, OrderInv
      <3>4. t = "initiator" /\ peer'[t].step = peer[t].step
        BY <1>1, <2>2 DEF Elsewhere
      <3>5. peer[t].step # "askRestart"
        BY <3>4 DEF Types, RoleInv
      <3>6. Fits(t, m)'
        BY <1>0, <1>5, <1>6, <3>2, <3>3, <3>4, <3>5 DEF Fits, Describes
      <3>7. \A i \in 1 .. Len(inbox[t]) :
               inbox[t][i].type \notin {"transport_restart", "transport_ready"}
        BY <1>0, <3>1, <3>3, <3>4 DEF HandoverInv, QueueInv, Fits, Types, RoleInv, ToInitiator
      <3>8. \A i \in 1 .. Len(inbox[t]) : MayPrecede(inbox[t][i], m)
        BY <1>0, <3>7 DEF MayPrecede
      <3> QED
        BY <1>0, <1>3, <1>4, <3>6, <3>8, QueueGains, HandoverParts, HandoverAfter
    <2> QED
      BY <2>1, <2>2
  <1>7. CASE peer[s].pc = "relay"
    <2>1. Changed("initiator")
      BY <1>1, <1>7 DEF HandoverInv, OrderInv
    <2>2. Fits(t, m)'
      BY <1>0, <1>5, <1>7, <2>1 DEF Fits, Describes
    <2>3. \A i \in 1 .. Len(inbox[t]) : MayPrecede(inbox[t][i], m)
      BY <1>0, <1>7 DEF MayPrecede, Describes
    <2> QED
      BY <1>0, <1>3, <1>4, <2>2, <2>3, QueueGains, HandoverParts, HandoverAfter
  <1> QED
    BY <1>1, <1>6, <1>7

(* An answer is made for the connection that the offer describes. *)
LEMMA OfferHandover ==
    ASSUME Types, HandoverInv, NEW s \in Sides, HandleOffer(s)
    PROVE  HandoverInv'
  <1> USE TwoSides
  <1>0. InboxType
    BY TypesParts
  <1>1. /\ s = "responder" /\ Elsewhere(s) /\ KeepsConnections(s)
        /\ Handled(s, {"offer"}) /\ Head(inbox[s]).of \in Kinds
        /\ peer'[s].began = peer[s].began
        /\ \/ /\ peer'[s].step = "ended"
              /\ \A k \in Kinds : conn'[s][k].remote = conn[s][k].remote
           \/ /\ peer'[s].step = "sendAnswer" /\ peer'[s].pc = peer[s].current
              /\ peer[s].current \in Kinds
              /\ \A k \in Kinds : conn'[s][k].remote =
                    IF k = peer[s].current THEN Head(inbox[s]).of ELSE conn[s][k].remote
    BY HandleOfferPlaces
  <1>2. /\ inbox[s] # <<>> /\ 1 \in 1 .. Len(inbox[s]) /\ Head(inbox[s]) = inbox[s][1]
        /\ inbox[s][1].type = "offer" /\ peer[s].step = "loop"
    BY <1>0, <1>1, TakeFacts DEF Handled, Take
  <1>3. Loses(s) /\ UNCHANGED <<relaying, announced>>
    BY <1>0, <1>1, <1>2, LosesFacts DEF InboxType, Handled
  <1>4. CASE /\ peer'[s].step = "ended"
             /\ \A k \in Kinds : conn'[s][k].remote = conn[s][k].remote
    <2>1. \A t \in Sides : Calm(t)
      BY <1>1, <1>2, <1>4, LoopIsCalm, ElsewhereIsCalm DEF HandoverInv
    <2> QED
      BY <1>3, <2>1, CalmLoses DEF RelayingStep
  <1>5. CASE /\ peer'[s].step = "sendAnswer" /\ peer'[s].pc = peer[s].current
             /\ peer[s].current \in Kinds
             /\ \A k \in Kinds : conn'[s][k].remote =
                   IF k = peer[s].current THEN Head(inbox[s]).of ELSE conn[s][k].remote
    <2>1. \A t \in Sides : Changed(t)' <=> Changed(t)
      BY <1>1 DEF Changed, Elsewhere, KeepsConnections
    <2>2. Offered' <=> Offered
      BY <1>1, <2>1 DEF Offered, Elsewhere
    <2>3. Fits(s, inbox[s][1])
      BY <1>2 DEF HandoverInv, QueueInv
    <2>4. /\ Head(inbox[s]).of = "direct" => Offered /\ ~Changed("responder")
          /\ Head(inbox[s]).of = "relay" => Changed("initiator") /\ Changed("responder")
      BY <1>1, <1>2, <2>3 DEF Fits, Describes, HandoverInv, OrderInv
    <2>5. Head(inbox[s]).of = peer[s].current
      BY <1>1, <1>5, <2>4 DEF HandoverInv, CurrentInv
    <2>6. CurrentInv'
      BY <1>1, <1>2, <1>5, <2>1 DEF HandoverInv, CurrentInv, Elsewhere, KeepsConnections
    <2>7. OrderInv'
      BY <1>1, <1>3, <1>5, <2>1, <2>2, <2>4, <2>5
      DEF HandoverInv, OrderInv, Elsewhere, KeepsConnections
    <2>8. DescriptionMatches'
      BY <1>1, <1>5, <2>5 DEF HandoverInv, DescriptionMatches, Elsewhere
    <2>9. \A t \in Sides, x \in Signal : StillFits(t, x)
      BY <1>1, <1>3, <1>5, <2>1, <2>2 DEF StillFits, Fits, Elsewhere
    <2>10. QueueInv'
      BY <1>3, <2>9, QueueLoses, HandoverParts
    <2> QED
      BY <2>6, <2>7, <2>8, <2>10 DEF HandoverInv
  <1> QED
    BY <1>1, <1>4, <1>5

(* An answer is given to the connection that it describes. *)
LEMMA AnswerHandover ==
    ASSUME Types, HandoverInv, NEW s \in Sides, HandleAnswer(s)
    PROVE  HandoverInv'
  <1> USE TwoSides
  <1>0. InboxType
    BY TypesParts
  <1>1. /\ s = "initiator" /\ Elsewhere(s) /\ KeepsConnections(s)
        /\ Handled(s, {"answer"}) /\ Head(inbox[s]).of \in Kinds
        /\ peer'[s].began = peer[s].began
        /\ \/ /\ peer'[s].step = "ended"
              /\ \A k \in Kinds : conn'[s][k].remote = conn[s][k].remote
           \/ /\ peer'[s].step = "loop" /\ peer[s].current \in Kinds
              /\ \A k \in Kinds : conn'[s][k].remote =
                    IF k = peer[s].current THEN Head(inbox[s]).of ELSE conn[s][k].remote
    BY HandleAnswerPlaces
  <1>2. /\ inbox[s] # <<>> /\ 1 \in 1 .. Len(inbox[s]) /\ Head(inbox[s]) = inbox[s][1]
        /\ inbox[s][1].type = "answer" /\ peer[s].step = "loop"
    BY <1>0, <1>1, TakeFacts DEF Handled, Take
  <1>3. Loses(s) /\ UNCHANGED <<relaying, announced>>
    BY <1>0, <1>1, <1>2, LosesFacts DEF InboxType, Handled
  <1>4. CASE /\ peer'[s].step = "ended"
             /\ \A k \in Kinds : conn'[s][k].remote = conn[s][k].remote
    <2>1. \A t \in Sides : Calm(t)
      BY <1>1, <1>2, <1>4, LoopIsCalm, ElsewhereIsCalm DEF HandoverInv
    <2> QED
      BY <1>3, <2>1, CalmLoses DEF RelayingStep
  <1>5. CASE /\ peer'[s].step = "loop" /\ peer[s].current \in Kinds
             /\ \A k \in Kinds : conn'[s][k].remote =
                   IF k = peer[s].current THEN Head(inbox[s]).of ELSE conn[s][k].remote
    <2>1. \A t \in Sides : Changed(t)' <=> Changed(t)
      BY <1>1 DEF Changed, Elsewhere, KeepsConnections
    <2>2. Offered' <=> Offered
      BY <1>1, <1>2, <1>5, <2>1 DEF Offered, Elsewhere
    <2>3. Fits(s, inbox[s][1])
      BY <1>2 DEF HandoverInv, QueueInv
    <2>4. /\ Head(inbox[s]).of = "direct" => Offered /\ ~Changed("initiator")
          /\ Head(inbox[s]).of = "relay" => Changed("initiator")
      BY <1>1, <1>2, <2>3 DEF Fits, Describes
    <2>5. Head(inbox[s]).of = peer[s].current
      BY <1>1, <1>5, <2>4 DEF HandoverInv, CurrentInv
    <2>6. CurrentInv'
      BY <1>1, <1>2, <1>5, <2>1 DEF HandoverInv, CurrentInv, Elsewhere, KeepsConnections
    <2>7. conn'["initiator"]["direct"].remote # "none" => Offered
      BY <1>1, <1>5, <2>4, <2>5 DEF HandoverInv, OrderInv
    <2>8. OrderInv'
      BY <1>1, <1>3, <1>5, <2>1, <2>2, <2>7
      DEF HandoverInv, OrderInv, Elsewhere, KeepsConnections
    <2>9. DescriptionMatches'
      BY <1>1, <1>5, <2>5 DEF HandoverInv, DescriptionMatches, Elsewhere
    <2>10. \A t \in Sides, x \in Signal : StillFits(t, x)
      BY <1>1, <1>3, <1>5, <2>1, <2>2 DEF StillFits, Fits, Elsewhere
    <2>11. QueueInv'
      BY <1>3, <2>10, QueueLoses, HandoverParts
    <2> QED
      BY <2>6, <2>8, <2>9, <2>11 DEF HandoverInv
  <1> QED
    BY <1>1, <1>4, <1>5

(* A side that is told of the handover has no direct description left to read. *)
LEMMA AskHandover ==
    ASSUME Types, HandoverInv, NEW s \in Sides, HandleRestart(s)
    PROVE  HandoverInv'
  <1> USE TwoSides
  <1>0. InboxType
    BY TypesParts
  <1>1. /\ Elsewhere(s) /\ KeepsConnections(s) /\ UNCHANGED conn
        /\ peer'[s].began = peer[s].began
        /\ \/ /\ s = "responder" /\ peer'[s].step = "askRestart"
              /\ Handled(s, {"transport_restart"})
           \/ /\ s = "initiator" /\ peer'[s].step = "askReady"
              /\ Handled(s, {"transport_ready"})
    BY HandleRestartPlaces
  <1>2. /\ inbox[s] # <<>> /\ 1 \in 1 .. Len(inbox[s]) /\ peer[s].step = "loop"
        /\ s = "responder" => inbox[s][1].type = "transport_restart"
        /\ s = "initiator" => inbox[s][1].type = "transport_ready"
    BY <1>0, <1>1, TakeFacts DEF Handled, Take
  <1>3. Loses(s) /\ UNCHANGED <<relaying, announced>>
    BY <1>0, <1>1, <1>2, LosesFacts DEF InboxType, Handled
  <1>4. \A t \in Sides : Changed(t)' <=> Changed(t)
    BY <1>1 DEF Changed
  <1>5. Offered' <=> Offered
    BY <1>1, <1>2, <1>4 DEF Offered, Elsewhere
  <1>6. Fits(s, inbox[s][1])
    BY <1>2 DEF HandoverInv, QueueInv
  <1>7. /\ s = "responder" => relaying = "done"
        /\ s = "initiator" => Changed("responder")
    BY <1>2, <1>6 DEF Fits
  <1>8. CurrentInv'
    BY <1>1, <1>2, <1>4 DEF HandoverInv, CurrentInv, Elsewhere, KeepsConnections
  <1>9. OrderInv'
    BY <1>1, <1>2, <1>3, <1>4, <1>5, <1>7
    DEF HandoverInv, OrderInv, Elsewhere, KeepsConnections
  <1>10. DescriptionMatches'
    BY <1>1 DEF HandoverInv, DescriptionMatches
  <1>11. ASSUME NEW t \in Sides, NEW x \in Signal, t = s => MayPrecede(inbox[s][1], x)
         PROVE  StillFits(t, x)
    <2>1. t = s => ~Describes(x, "direct")
      BY <1>2, <1>11 DEF MayPrecede
    <2> QED
      BY <1>1, <1>3, <1>4, <1>5, <2>1 DEF StillFits, Fits, Elsewhere
  <1>12. QueueInv'
    BY <1>3, <1>11, QueueLoses, HandoverParts
  <1> QED
    BY <1>8, <1>9, <1>10, <1>12 DEF HandoverInv

(* The responder changes when it was asked to, and says so. *)
LEMMA RestartHandover ==
    ASSUME Types, HandoverInv, NEW s \in Sides, Restart(s)
    PROVE  HandoverInv'
  <1> USE TwoSides
  <1>0. inbox \in [Sides -> Seq(Signal)]
    BY TypesParts DEF InboxType
  <1>1. /\ s = "responder" /\ peer[s].step = "askRestart"
        /\ Elsewhere(s) /\ UNCHANGED <<relaying, announced>>
        /\ peer'[s].step \in {"loop", "ended"} /\ peer'[s].call = peer[s].call
        /\ \/ /\ Replaces(s, "relay")
              /\ inbox' = inbox \/ SendSignal(s, [type |-> "transport_ready"])
           \/ /\ KeepsConnections(s) /\ UNCHANGED conn /\ peer'[s].began = peer[s].began
              /\ inbox' = inbox \/ SendSignal(s, [type |-> "transport_unavailable"])
    BY RestartPlaces
  <1>2. relaying = "done"
    BY <1>1 DEF HandoverInv, OrderInv
  <1>3. CASE /\ Replaces(s, "relay")
             /\ inbox' = inbox \/ SendSignal(s, [type |-> "transport_ready"])
    <2>1. Changed("responder")' /\ (Changed("initiator")' <=> Changed("initiator"))
      BY <1>1, <1>3, ConnChanges DEF Changed, Elsewhere, Replaces
    <2>2. Offered' <=> Offered
      BY <1>1, <2>1 DEF Offered, Elsewhere
    <2>3. CurrentInv'
      BY <1>1, <1>3, <2>1 DEF HandoverInv, CurrentInv, Elsewhere, Replaces
    <2>4. OrderInv'
      BY <1>1, <1>2, <2>1, <2>2 DEF HandoverInv, OrderInv, Elsewhere
    <2>5. DescriptionMatches'
      BY <1>1, <1>3, ConnChanges DEF HandoverInv, DescriptionMatches, Elsewhere, Replaces
    <2>6. \A t \in Sides, x \in Signal : StillFits(t, x)
      BY <1>1, <2>1, <2>2 DEF StillFits, Fits, Elsewhere
    <2> DEFINE m == [type |-> "transport_ready"]
    <2>7. Gains("initiator", m)
      BY <1>0, <1>1, <1>3, SendGains
    <2>8. Fits("initiator", m)'
      BY <2>1 DEF Fits, Describes
    <2>9. \A i \in 1 .. Len(inbox["initiator"]) : MayPrecede(inbox["initiator"][i], m)
      BY DEF MayPrecede, Describes
    <2> HIDE DEF m
    <2>10. QueueInv'
      BY <2>6, <2>7, <2>8, <2>9, QueueGains, HandoverParts
    <2> QED
      BY <2>3, <2>4, <2>5, <2>10 DEF HandoverInv
  <1>4. CASE /\ KeepsConnections(s) /\ UNCHANGED conn /\ peer'[s].began = peer[s].began
             /\ inbox' = inbox \/ SendSignal(s, [type |-> "transport_unavailable"])
    <2>1. \A t \in Sides : Calm(t)
      BY <1>1, <1>4, LoopIsCalm, ElsewhereIsCalm DEF HandoverInv
    <2> DEFINE m == [type |-> "transport_unavailable"]
    <2>2. Gains("initiator", m) /\ m.type = "transport_unavailable"
      BY <1>0, <1>1, <1>4, SendGains
    <2> QED
      BY <1>1, <2>1, <2>2, CalmGains DEF RelayingStep
  <1> QED
    BY <1>1, <1>3, <1>4

(* The initiator changes after the responder, and offers the relay. *)
LEMMA ReadyHandover ==
    ASSUME Types, HandoverInv, NEW s \in Sides, Ready(s)
    PROVE  HandoverInv'
  <1> USE TwoSides
  <1>0. inbox \in [Sides -> Seq(Signal)]
    BY TypesParts DEF InboxType
  <1>1. /\ s = "initiator" /\ peer[s].step = "askReady"
        /\ Elsewhere(s) /\ UNCHANGED <<inbox, relaying, announced>>
        /\ peer'[s].call = peer[s].call
        /\ \/ /\ Replaces(s, "relay") /\ peer'[s].step \in {"makeOffer", "ended"}
           \/ /\ KeepsConnections(s) /\ UNCHANGED conn /\ peer'[s].began = peer[s].began
              /\ peer'[s].step = "ended"
    BY ReadyPlaces
  <1>2. Changed("responder") /\ relaying = "done" /\ peer["initiator"].began
    BY <1>1 DEF HandoverInv, OrderInv, Offered
  <1>3. CASE Replaces(s, "relay") /\ peer'[s].step \in {"makeOffer", "ended"}
    <2>1. Changed("initiator")' /\ (Changed("responder")' <=> Changed("responder"))
      BY <1>1, <1>3, ConnChanges DEF Changed, Elsewhere, Replaces
    <2>2. Offered' /\ peer'["initiator"].began
      BY <1>1, <1>2, <1>3, <2>1 DEF Offered, Replaces
    <2>3. CurrentInv'
      BY <1>1, <1>3, <2>1 DEF HandoverInv, CurrentInv, Elsewhere, Replaces
    <2>4. OrderInv'
      BY <1>1, <1>2, <1>3, <2>1, <2>2 DEF HandoverInv, OrderInv, Elsewhere
    <2>5. DescriptionMatches'
      BY <1>1, <1>3, ConnChanges DEF HandoverInv, DescriptionMatches, Elsewhere, Replaces
    <2>6. \A t \in Sides, x \in Signal : StillFits(t, x)
      BY <1>1, <1>2, <2>1, <2>2 DEF StillFits, Fits, Elsewhere
    <2> DEFINE m == [type |-> "error"]
    <2>7. Gains(s, m) /\ m.type = "error"
      BY <1>0, <1>1, GainsFacts
    <2>8. QueueInv'
      BY <2>6, <2>7, HarmlessFits, QueueGains, HandoverParts
    <2> QED
      BY <2>3, <2>4, <2>5, <2>8 DEF HandoverInv
  <1>4. CASE /\ KeepsConnections(s) /\ UNCHANGED conn /\ peer'[s].began = peer[s].began
             /\ peer'[s].step = "ended"
    <2>1. \A t \in Sides : Calm(t)
      BY <1>1, <1>4, LoopIsCalm, ElsewhereIsCalm DEF HandoverInv
    <2> QED
      BY <1>1, <2>1, CalmSame DEF RelayingStep
  <1> QED
    BY <1>1, <1>3, <1>4

(* Connect makes the direct connection before anything is said. *)
LEMMA ConnectHandover ==
    ASSUME Types, HandoverInv, NEW s \in Sides, Connect(s) \/ Dial(s)
    PROVE  HandoverInv'
  <1> USE TwoSides
  <1>1. CASE Connect(s)
    <2>1. /\ Elsewhere(s) /\ UNCHANGED <<inbox, relaying, announced>>
          /\ peer[s].call = "idle" /\ peer'[s].call \in {"dial", "returned"}
          /\ peer'[s].step = peer[s].step /\ peer'[s].pc = peer[s].pc
          /\ KeepsPlace(s) \/ Replaces(s, "direct")
      BY <1>1, ConnectPlaces
    <2>2. ~Changed(s) /\ peer[s].current # "relay"
      BY <2>1 DEF HandoverInv, CurrentInv
    <2>3. CASE KeepsPlace(s)
      BY <2>1, <2>3, CalmSame, ElsewhereIsCalm DEF Calm, KeepsPlace, RelayingStep
    <2>4. CASE Replaces(s, "direct")
      <3>1. conn'[s]["relay"].state = conn[s]["relay"].state
            /\ \A k \in Kinds : conn'[s][k].remote \in {"none", conn[s][k].remote}
        BY <2>2, <2>4, ConnChanges DEF Replaces
      <3>2. Calm(s)
        BY <2>1, <2>2, <2>4, <3>1 DEF Calm, Replaces
      <3> QED
        BY <2>1, <3>2, CalmSame, ElsewhereIsCalm DEF RelayingStep
    <2> QED
      BY <2>1, <2>3, <2>4
  <1>2. CASE Dial(s)
    <2>1. /\ Elsewhere(s) /\ UNCHANGED <<inbox, relaying, announced>>
          /\ peer'[s].call \in {"start", "wait", "returned"}
          /\ peer'[s].began = peer[s].began /\ peer'[s].pc = peer[s].pc
          /\ \/ /\ peer'[s].step = "loop" /\ UNCHANGED conn
                /\ peer'[s].current = peer[s].current
             \/ /\ peer'[s].step = peer[s].step
                /\ conn'[s] = ClosedConn(s)
                /\ peer'[s].current = ClosedPeer(peer[s]).current
      BY <1>2, DialPlaces
    <2>2. Calm(s)
      <3>1. CASE /\ peer'[s].step = "loop" /\ UNCHANGED conn
                 /\ peer'[s].current = peer[s].current
        BY <2>1, <3>1 DEF Calm
      <3>2. CASE /\ peer'[s].step = peer[s].step
                 /\ conn'[s] = ClosedConn(s)
                 /\ peer'[s].current = ClosedPeer(peer[s]).current
        BY <2>1, <3>2, ClosedIsCalm DEF HandoverInv
      <3> QED
        BY <2>1, <3>1, <3>2
    <2> QED
      BY <2>1, <2>2, CalmSame, ElsewhereIsCalm DEF RelayingStep
  <1> QED
    BY <1>1, <1>2

(* Close, and what the server tells because of it or of its own. *)
LEMMA LeavingHandover ==
    ASSUME Types, HandoverInv, NEW s \in Sides,
           Close(s) \/ SocketLost(s) \/ ServerError(s)
    PROVE  HandoverInv'
  <1> USE TwoSides
  <1>0. inbox \in [Sides -> Seq(Signal)]
    BY TypesParts DEF InboxType
  <1>1. /\ \A t \in Sides : Calm(t)
        /\ UNCHANGED <<relaying, announced>>
    <2>1. CASE Close(s)
      BY <2>1, ClosePlaces, ClosedIsCalm, ElsewhereIsCalm DEF HandoverInv
    <2>2. CASE SocketLost(s) \/ ServerError(s)
      BY <2>2 DEF SocketLost, ServerError, netUnchanged, Calm
    <2> QED
      BY <2>1, <2>2
  <1>2. \E t \in Sides, m \in {[type |-> "peer_left"], [type |-> "error"]} :
           inbox' = inbox \/ Deliver(t, m)
    BY ClosePlaces DEF SocketLost, ServerError, PeerLeft
  <1>3. PICK t \in Sides, m \in {[type |-> "peer_left"], [type |-> "error"]} :
           Gains(t, m)
    BY <1>0, <1>2, GainsFacts
  <1>4. m.type \in {"peer_left", "error"}
    OBVIOUS
  <1> QED
    BY <1>1, <1>3, <1>4, CalmGains DEF RelayingStep

(* Connect waits and callbacks run: the relay is asked for after the first offer. *)
LEMMA WaitHandover ==
    ASSUME Types, HandoverInv, NEW s \in Sides,
           \/ TakeResult(s) \/ TakeError(s) \/ CtxDone(s)
           \/ NegotiationStarted \/ DirectTimeout \/ RelayTimeout
    PROVE  HandoverInv'
  <1>1. /\ \A t \in Sides : /\ KeepsPlace(t)
                            /\ peer'[t].call \in {peer[t].call, "direct", "ask",
                                                  "wait", "returned"}
        /\ \A t \in Sides : peer'[t].call = "direct" /\ peer[t].call # "direct"
                            => peer[t].began
        /\ UNCHANGED <<inbox, announced>>
        /\ \/ relaying' = relaying
           \/ /\ peer["initiator"].call = "direct"
              /\ peer["initiator"].step \notin {"makeOffer", "sendOffer"}
              /\ relaying = "no" /\ relaying' = "connect"
    BY CallPlaces
  <1>2. \A t \in Sides : Calm(t)
    BY <1>1, KeptIsCalm
  <1>3. RelayingStep
    BY <1>1 DEF RelayingStep, HandoverInv, OrderInv, Offered
  <1> QED
    BY <1>1, <1>2, <1>3, CalmSame

LEMMA CallbackHandover ==
    ASSUME Types, HandoverInv, NEW s \in Sides, NEW k \in Kinds,
           \/ OnICECandidate(s, k) \/ SendCandidate(s, k) \/ OnOpen(s, k)
           \/ PublishResult(s, k) \/ OnConnectionFailed(s, k) \/ OnChannelError(s, k)
           \/ Link(k)
    PROVE  HandoverInv'
  <1>0. inbox \in [Sides -> Seq(Signal)]
    BY TypesParts DEF InboxType
  <1> DEFINE m == [type |-> "ice_candidate", of |-> k]
  <1>1. /\ \A t \in Sides : KeepsPlace(t) /\ peer'[t].call = peer[t].call
        /\ UNCHANGED announced
        /\ inbox' = inbox \/ SendSignal(s, m)
        /\ \/ relaying' = relaying
           \/ /\ relaying = "no" /\ relaying' = "callback"
              /\ conn["initiator"]["direct"].remote # "none"
    BY CallbackPlaces
  <1>2. \A t \in Sides : Calm(t)
    BY <1>1, KeptIsCalm
  <1>3. RelayingStep
    BY <1>1 DEF RelayingStep, HandoverInv, OrderInv
  <1>4. Gains(Other(s), m) /\ m.type = "ice_candidate" /\ Other(s) \in Sides
    BY <1>0, <1>1, SendGains, TwoSides
  <1> HIDE DEF m
  <1> QED
    BY <1>1, <1>2, <1>3, <1>4, CalmGains

(* The loop ends, or handles what has no part in the handover. *)
LEMMA LoopHandover ==
    ASSUME Types, HandoverInv, NEW s \in Sides,
           LoopEnds(s) \/ HandleCandidate(s) \/ HandleRefusal(s)
    PROVE  HandoverInv'
  <1> USE TwoSides
  <1>0. InboxType
    BY TypesParts
  <1>1. CASE LoopEnds(s)
    <2>1. /\ Elsewhere(s) /\ KeepsConnections(s)
          /\ peer'[s].began = peer[s].began /\ peer'[s].step = "ended"
          /\ UNCHANGED <<conn, relaying, announced>>
          /\ inbox' = [inbox EXCEPT ![s] = <<>>] /\ peer[s].step = "loop"
      BY <1>1, LoopEndsPlaces DEF LoopEnds
    <2>2. \A t \in Sides : Calm(t)
      BY <2>1, LoopIsCalm, ElsewhereIsCalm DEF HandoverInv
    <2>3. Loses(s)
      BY <1>0, <2>1, LosesFacts DEF InboxType
    <2> QED
      BY <2>1, <2>2, <2>3, CalmLoses DEF RelayingStep
  <1>2. CASE HandleCandidate(s) \/ HandleRefusal(s)
    <2>1. /\ Elsewhere(s)
          /\ \/ KeepsPlace(s) /\ KeepsConnections(s)
             \/ /\ KeepsConnections(s) /\ UNCHANGED conn
                /\ peer'[s].began = peer[s].began /\ peer'[s].step = "ended"
          /\ \E types : Handled(s, types)
      BY <1>2, HandleCandidatePlaces, HandleRefusalPlaces
    <2>2. inbox[s] # <<>> /\ peer[s].step = "loop" /\ UNCHANGED <<relaying, announced>>
          /\ \/ inbox' = [inbox EXCEPT ![s] = <<>>]
             \/ inbox' = [inbox EXCEPT ![s] = Tail(@)]
      BY <2>1 DEF Handled, Take
    <2>3. Calm(s)
      <3>1. CASE KeepsPlace(s) /\ KeepsConnections(s)
        BY <3>1 DEF KeepsPlace, KeepsConnections, Calm
      <3>2. CASE /\ KeepsConnections(s) /\ UNCHANGED conn
                 /\ peer'[s].began = peer[s].began /\ peer'[s].step = "ended"
        BY <2>2, <3>2, LoopIsCalm DEF HandoverInv
      <3> QED
        BY <2>1, <3>1, <3>2
    <2>4. Loses(s)
      BY <1>0, <2>2, LosesFacts DEF InboxType
    <2> QED
      BY <2>1, <2>2, <2>3, <2>4, ElsewhereIsCalm, CalmLoses DEF RelayingStep
  <1> QED
    BY <1>1, <1>2

LEMMA HandoverStep ==
    ASSUME Types, HandoverInv, [Next]_vars
    PROVE  HandoverInv'
  <1>1. CASE UNCHANGED vars
    <2>1. \A s \in Sides : Calm(s)
      BY <1>1 DEF vars, Calm
    <2> QED
      BY <1>1, <2>1, CalmSame DEF vars, RelayingStep
  <1>2. ASSUME NEW s \in Sides, Call(s) \/ CtxDone(s)
        PROVE  HandoverInv'
    BY <1>2, ConnectHandover, WaitHandover DEF Call
  <1>3. ASSUME NEW s \in Sides, Close(s) \/ SocketLost(s) \/ ServerError(s)
        PROVE  HandoverInv'
    BY <1>3, LeavingHandover
  <1>4. ASSUME NEW s \in Sides, SignalLoop(s)
        PROVE  HandoverInv'
    BY <1>4, LoopHandover, BeganHandover, MakeOfferHandover, SendDescriptionHandover,
       OfferHandover, AnswerHandover, AskHandover, RestartHandover, ReadyHandover
    DEF SignalLoop
  <1>5. ASSUME NEW s \in Sides, NEW k \in Kinds,
               Callbacks(s, k) \/ OnConnectionFailed(s, k) \/ OnChannelError(s, k)
        PROVE  HandoverInv'
    BY <1>5, CallbackHandover DEF Callbacks
  <1>6. ASSUME NEW k \in Kinds, Link(k)
        PROVE  HandoverInv'
    BY <1>6, CallbackHandover, TwoSides
  <1>7. CASE NegotiationStarted \/ DirectTimeout \/ RelayTimeout
    BY <1>7, WaitHandover, TwoSides
  <1>8. CASE BeginRelay \/ PeerJoined
    BY <1>8, BeginRelayHandover, PeerJoinedHandover
  <1> QED
    BY <1>1, <1>2, <1>3, <1>4, <1>5, <1>6, <1>7, <1>8 DEF Next

LEMMA HandoverInit ==
    ASSUME Init
    PROVE  HandoverInv
  <1>1. /\ \A s \in Sides : peer[s] = NewPeer /\ inbox[s] = <<>> /\ conn[s]["relay"] = NoConn
        /\ \A s \in Sides, k \in Kinds : conn[s][k] = NoConn
        /\ relaying = "no"
    BY TwoSides DEF Init
  <1>2. CurrentInv
    BY <1>1 DEF CurrentInv, NewPeer, NoConn, Changed
  <1>3. OrderInv
    BY <1>1, TwoSides DEF OrderInv, NewPeer, NoConn, Changed
  <1>4. QueueInv
    BY <1>1 DEF QueueInv
  <1>5. DescriptionMatches
    BY <1>1 DEF DescriptionMatches, NoConn
  <1> QED
    BY <1>2, <1>3, <1>4, <1>5 DEF HandoverInv

(***************************************************************************)
(* handleSignal never gives a connection the description of another kind:  *)
(* whatever is in flight when the two ends change to the relay, and        *)
(* whichever fault comes in between, an offer or an answer reaches the     *)
(* connection it was made for or none at all.                              *)
(***************************************************************************)
THEOREM DescriptionsMatch == Spec => []DescriptionMatches
  <1>1. Init => Types /\ HandoverInv
    BY TypesInit, HandoverInit
  <1>2. Types /\ HandoverInv /\ [Next]_vars => Types' /\ HandoverInv'
    BY TypesStep, HandoverStep
  <1>3. HandoverInv => DescriptionMatches
    BY DEF HandoverInv
  <1> QED
    BY <1>1, <1>2, <1>3, PTL DEF Spec

-----------------------------------------------------------------------------
(***************************************************************************)
(* Candidates.  replaceConnection forgets the candidates it had set aside, *)
(* and handleSignal gives a candidate to whichever connection is current.  *)
(* That neither loses one which is still needed follows from the order of  *)
(* the signals: a candidate is gathered only after the description of its  *)
(* connection (LocalInv), each side changes to the relay once and not      *)
(* before it is told (OnceInv), and without a fault nobody closes in       *)
(* between (CalmInv).                                                      *)
(***************************************************************************)

(* Without a fault nobody closes and both loops read on. *)
CalmSide(s) ==
    /\ ~peer[s].closed /\ ~peer[s].ctx /\ peer[s].step # "ended"
    /\ sock[s] = "open" <=> peer[s].step # "off"
    /\ peer[s].call # "idle" =>
          peer[s].current # "none" /\ conn[s]["direct"].state # "none"
    /\ announced => sock[s] = "open"

Refusals == {"transport_unavailable", "peer_left", "error"}

CalmInv ==
    \A s \in Sides :
        /\ CalmSide(s)
        /\ \A i \in 1 .. Len(inbox[s]) : inbox[s][i].type \notin Refusals

(* The description of connection k is on its way. *)
Describing(k) ==
    \/ \E s \in Sides : \E i \in 1 .. Len(inbox[s]) : Describes(inbox[s][i], k)
    \/ \E s \in Sides : peer[s].step \in {"sendOffer", "sendAnswer"} /\ peer[s].pc = k

LocalInv ==
    /\ \A s \in Sides, k \in Kinds :
          /\ conn[s][k].local => announced /\ \A t \in Sides : conn[t][k].state # "none"
          /\ conn[s][k].state = "live" /\ conn[s][k].candidate # "none" => conn[s][k].local
    /\ \A k \in Kinds : Describing(k) => conn["initiator"][k].local

(* Each side is told once to change to the relay, and then changes. *)
Announces(m) == m.type \in {"transport_restart", "transport_ready"}

Asking(s) == peer[s].step \in {"askRestart", "askReady"}

OnceInv ==
    \A t \in Sides :
        /\ Asking(t) => ~Changed(t)
        /\ \A i \in 1 .. Len(inbox[t]) :
              Announces(inbox[t][i]) =>
                  /\ ~Changed(t) /\ ~Asking(t)
                  /\ \A j \in 1 .. Len(inbox[t]) : Announces(inbox[t][j]) => i = j

Smooth == CalmInv /\ LocalInv /\ OnceInv

(* Side s has sent the candidate of its live connection k; side t has it. *)
Waits(s, k) ==
    /\ conn[s][k].candidate = "done" /\ conn[s][k].state = "live"
    /\ conn[Other(s)][k].state # "closed"

Holds(t, k) == peer[t].current = k /\ (k \in peer[t].pending \/ k \in conn[t][k].added)

Told(t, k) == \E i \in 1 .. Len(inbox[t]) : inbox[t][i] = Candidate(k)

KeptInv ==
    \A s \in Sides, k \in Kinds :
        Waits(s, k) => Told(Other(s), k) \/ Holds(Other(s), k)

ReachInv == ~faulty => (Smooth /\ (~dropped => KeptInv))

-----------------------------------------------------------------------------
(* What the steps leave alone *)

Stays(s) ==
    /\ \A f \in {"current", "step", "pc", "closed", "ctx", "pending"} :
          peer'[s][f] = peer[s][f]
    /\ peer'[s].call = "idle" <=> peer[s].call = "idle"
    /\ \A k \in Kinds, f \in {"state", "local", "added"} : conn'[s][k][f] = conn[s][k][f]

KeepsCandidates(s) ==
    \A k \in Kinds : conn'[s][k].candidate = conn[s][k].candidate

LEMMA CalmAfter ==
    ASSUME CalmInv, \A s \in Sides : CalmSide(s)',
           \/ inbox' = inbox
           \/ \E s \in Sides : Loses(s)
           \/ \E t \in Sides : \E m : Gains(t, m) /\ m.type \notin Refusals
    PROVE  CalmInv'
  <1>1. \A s \in Sides : \A i \in 1 .. Len(inbox[s]) : inbox[s][i].type \notin Refusals
    BY DEF CalmInv
  <1>2. \A s \in Sides : \A i \in 1 .. Len(inbox'[s]) : inbox'[s][i].type \notin Refusals
    <2>1. CASE inbox' = inbox
      BY <1>1, <2>1
    <2>2. ASSUME NEW s \in Sides, Loses(s)
          PROVE  \A t \in Sides : \A i \in 1 .. Len(inbox'[t]) : inbox'[t][i].type \notin Refusals
      BY <1>1, <2>2 DEF Loses
    <2>3. ASSUME NEW t \in Sides, NEW m, Gains(t, m), m.type \notin Refusals
          PROVE  \A s \in Sides : \A i \in 1 .. Len(inbox'[s]) : inbox'[s][i].type \notin Refusals
      BY <1>1, <2>3 DEF Gains
    <2> QED
      BY <2>1, <2>2, <2>3
  <1>3. Refusals' = Refusals
    BY DEF Refusals
  <1> QED
    BY <1>2, <1>3 DEF CalmInv

(* A step that tells nobody to change. *)
LEMMA OnceKept ==
    ASSUME Types, OnceInv,
           \A t \in Sides : (Changed(t)' <=> Changed(t)) /\ (Asking(t)' => Asking(t)),
           \/ inbox' = inbox
           \/ \E s \in Sides : Loses(s)
           \/ \E t \in Sides : \E m : Gains(t, m) /\ ~Announces(m)
    PROVE  OnceInv'
  <1>0. inbox \in [Sides -> Seq(Signal)] /\ \A t \in Sides : Len(inbox[t]) \in Nat
    BY TypesParts DEF InboxType
  <1> DEFINE Once(t) ==
        \A i \in 1 .. Len(inbox'[t]) :
            Announces(inbox'[t][i]) =>
                /\ ~Changed(t) /\ ~Asking(t)
                /\ \A j \in 1 .. Len(inbox'[t]) : Announces(inbox'[t][j]) => i = j
  <1>1. \A t \in Sides : Once(t)
    <2>1. CASE inbox' = inbox
      BY <2>1 DEF OnceInv
    <2>2. ASSUME NEW s \in Sides, Loses(s), NEW t \in Sides
          PROVE  Once(t)
      <3>1. CASE t = s
        <4> SUFFICES ASSUME NEW i \in 1 .. Len(inbox'[s]), Announces(inbox'[s][i])
                     PROVE  /\ ~Changed(s) /\ ~Asking(s)
                            /\ \A j \in 1 .. Len(inbox'[s]) :
                                  Announces(inbox'[s][j]) => i = j
          BY <3>1
        <4>1. i + 1 \in 1 .. Len(inbox[s]) /\ Announces(inbox[s][i + 1])
          BY <2>2 DEF Loses
        <4>2. /\ ~Changed(s) /\ ~Asking(s)
              /\ \A j \in 1 .. Len(inbox[s]) : Announces(inbox[s][j]) => i + 1 = j
          BY <4>1 DEF OnceInv
        <4>3. \A j \in 1 .. Len(inbox'[s]) : Announces(inbox'[s][j]) => i + 1 = j + 1
          BY <2>2, <4>2 DEF Loses
        <4> QED
          BY <4>2, <4>3
      <3>2. CASE t # s
        BY <2>2, <3>2 DEF OnceInv, Loses
      <3> QED
        BY <3>1, <3>2
    <2>3. ASSUME NEW t \in Sides, NEW m, Gains(t, m), ~Announces(m), NEW s \in Sides
          PROVE  Once(s)
      <3>1. \A i \in 1 .. Len(inbox'[s]) :
               Announces(inbox'[s][i]) => i \in 1 .. Len(inbox[s]) /\ inbox'[s][i] = inbox[s][i]
        BY <1>0, <2>3 DEF Gains
      <3> QED
        BY <3>1 DEF OnceInv
    <2> QED
      BY <2>1, <2>2, <2>3
  <1>2. \A t \in Sides : Asking(t)' => ~Changed(t)'
    BY DEF OnceInv
  <1>3. \A t \in Sides : \A i \in 1 .. Len(inbox'[t]) :
            Announces(inbox'[t][i]) =>
                /\ ~Changed(t)' /\ ~Asking(t)'
                /\ \A j \in 1 .. Len(inbox'[t]) : Announces(inbox'[t][j]) => i = j
    BY <1>1
  <1> QED
    BY <1>2, <1>3 DEF OnceInv, Announces

(* No description is put on its way. *)
LEMMA DescribingKept ==
    ASSUME NEW k \in Kinds,
           \A s \in Sides : \/ peer'[s].step = peer[s].step /\ peer'[s].pc = peer[s].pc
                           \/ peer'[s].step \notin {"sendOffer", "sendAnswer"},
           \/ inbox' = inbox
           \/ \E s \in Sides : Loses(s)
           \/ \E t \in Sides : \E m : Gains(t, m) /\ m.type \notin {"offer", "answer"},
           Describing(k)'
    PROVE  Describing(k)
  <1>1. CASE \E s \in Sides : peer'[s].step \in {"sendOffer", "sendAnswer"} /\ peer'[s].pc = k
    BY <1>1 DEF Describing
  <1>2. CASE \E s \in Sides : \E i \in 1 .. Len(inbox'[s]) : Describes(inbox'[s][i], k)
    <2>1. PICK s \in Sides : \E i \in 1 .. Len(inbox'[s]) : Describes(inbox'[s][i], k)
      BY <1>2
    <2>2. \E j \in 1 .. Len(inbox[s]) : Describes(inbox[s][j], k)
      BY <2>1 DEF Gains, Loses, Describes
    <2> QED
      BY <2>2 DEF Describing
  <1> QED
    BY <1>1, <1>2 DEF Describing, Describes

(* What is in an inbox stays there until it is handled. *)
LEMMA ToldGains ==
    ASSUME Types, NEW t \in Sides, NEW m, inbox' = inbox \/ Deliver(t, m)
    PROVE  \A s \in Sides, k \in Kinds : Told(s, k) => Told(s, k)'
  <1>1. inbox \in [Sides -> Seq(Signal)]
    BY TypesParts DEF InboxType
  <1>2. CASE inbox' = inbox
    BY <1>2 DEF Told, Candidate
  <1>3. CASE inbox' = [inbox EXCEPT ![t] = Append(@, m)]
    <2>1. \A s \in Sides : \A i \in 1 .. Len(inbox[s]) :
             i \in 1 .. Len(inbox'[s]) /\ inbox'[s][i] = inbox[s][i]
      BY <1>1, <1>3
    <2> QED
      BY <2>1 DEF Told, Candidate
  <1> QED
    BY <1>1, <1>2, <1>3, DeliverCases

LEMMA ToldTaken ==
    ASSUME Types, NEW s \in Sides, inbox[s] # <<>>, inbox' = [inbox EXCEPT ![s] = Tail(@)],
           NEW t \in Sides, NEW k \in Kinds, Told(t, k)
    PROVE  Told(t, k)' \/ (t = s /\ Head(inbox[s]) = Candidate(k))
  <1>1. inbox \in [Sides -> Seq(Signal)] /\ inbox[s] \in Seq(Signal)
    BY TypesParts DEF InboxType
  <1>2. CASE t = s
    <2>1. PICK i \in 1 .. Len(inbox[s]) : inbox[s][i] = Candidate(k)
      BY <1>2 DEF Told
    <2>2. CASE i = 1
      BY <1>1, <1>2, <2>1, <2>2
    <2>3. CASE i # 1
      <3>1. inbox'[s] = Tail(inbox[s]) /\ i - 1 \in 1 .. Len(Tail(inbox[s]))
            /\ Tail(inbox[s])[i - 1] = inbox[s][i]
        BY <1>1, <2>1, <2>3
      <3> QED
        BY <1>2, <2>1, <3>1 DEF Told, Candidate
    <2> QED
      BY <2>2, <2>3
  <1>3. CASE t # s
    BY <1>1, <1>3 DEF Told, Candidate
  <1> QED
    BY <1>2, <1>3

LEMMA ToldDelivered ==
    ASSUME Types, NEW t \in Sides, NEW k \in Kinds, Deliver(t, Candidate(k)),
           CalmSide(t), sock[t] = "open", ~dropped'
    PROVE  Told(t, k)'
  <1>1. inbox \in [Sides -> Seq(Signal)] /\ inbox[t] \in Seq(Signal)
    BY TypesParts DEF InboxType
  <1>2. inbox' = [inbox EXCEPT ![t] = Append(@, Candidate(k))]
    BY DEF Deliver, CalmSide
  <1>3. inbox'[t][Len(inbox[t]) + 1] = Candidate(k) /\ Len(inbox[t]) + 1 \in 1 .. Len(inbox'[t])
    BY <1>1, <1>2
  <1> QED
    BY <1>3 DEF Told, Candidate

(* The candidates are where they were, or with the connection that waits for them. *)
LEMMA KeptAfter ==
    ASSUME KeptInv,
           \A s \in Sides, k \in Kinds : Waits(s, k)' => Waits(s, k),
           \A t \in Sides, k \in Kinds :
              /\ Waits(Other(t), k)' /\ Told(t, k) => Told(t, k)' \/ Holds(t, k)'
              /\ Waits(Other(t), k)' /\ Holds(t, k) => Holds(t, k)'
    PROVE  KeptInv'
  <1> SUFFICES ASSUME NEW s \in Sides, NEW k \in Kinds, Waits(s, k)'
               PROVE  Told(Other(s), k)' \/ Holds(Other(s), k)'
    BY DEF KeptInv, Waits, Told, Holds, Candidate
  <1>1. Other(s) \in Sides /\ Other(Other(s)) = s
    BY DEF Sides, Other
  <1>2. Waits(s, k)
    OBVIOUS
  <1>3. Told(Other(s), k) \/ Holds(Other(s), k)
    BY <1>2 DEF KeptInv
  <1> QED
    BY <1>1, <1>3

-----------------------------------------------------------------------------
(* Steps that leave the connections, the loops and the sockets alone *)

LEMMA StaysCall ==
    ASSUME Types, NEW s \in Sides,
           \/ TakeResult(s) \/ TakeError(s) \/ NegotiationStarted \/ DirectTimeout
           \/ BeginRelay,
           relaying # "no" => peer["initiator"].call # "idle"
    PROVE  /\ \A t \in Sides : Stays(t) /\ KeepsCandidates(t)
           /\ UNCHANGED <<sock, announced>>
  <1>0. peer \in [Sides -> PeerType] /\ "initiator" \in Sides /\ peer[s] \in PeerType
        /\ peer["initiator"] \in PeerType /\ "error" \in MaybeKind \cup {"error"}
        /\ \A k \in Kinds : k \in MaybeKind \cup {"error"}
    BY TypesParts, TwoSides DEF PeerOK, MaybeKind
  <1>1. UNCHANGED <<sock, announced, conn>>
    BY DEF TakeResult, TakeError, NegotiationStarted, DirectTimeout, BeginRelay,
       signals, callUnchanged
  <1>2. \A t \in Sides :
           /\ \A f \in {"current", "step", "pc", "closed", "ctx", "pending"} :
                 peer'[t][f] = peer[t][f]
           /\ peer'[t].call = "idle" <=> peer[t].call = "idle"
    <2>1. CASE TakeResult(s)
      <3>1. Returned(peer[s], peer[s].result) \in PeerType
            /\ \A f \in {"current", "step", "pc", "closed", "ctx", "pending"} :
                  Returned(peer[s], peer[s].result)[f] = peer[s][f]
            /\ Returned(peer[s], peer[s].result).call = "returned"
        BY <1>0, <2>1 DEF TakeResult, Returned, PeerType
      <3>2. \A q \in PeerType : \A f \in {"current", "step", "pc", "closed", "ctx", "pending",
                                          "call"} :
               [q EXCEPT !.result = "taken"][f] = q[f]
        BY DEF PeerType
      <3> QED
        BY <1>0, <2>1, <3>1, <3>2 DEF TakeResult, Waiting
    <2>2. CASE TakeError(s)
      <3>1. Returned(peer[s], "error") \in PeerType
            /\ \A f \in {"current", "step", "pc", "closed", "ctx", "pending"} :
                  Returned(peer[s], "error")[f] = peer[s][f]
            /\ Returned(peer[s], "error").call = "returned"
        BY <1>0 DEF Returned, PeerType
      <3>2. \A q \in PeerType : \A f \in {"current", "step", "pc", "closed", "ctx", "pending",
                                          "call"} :
               [q EXCEPT !.error = "taken"][f] = q[f]
        BY DEF PeerType
      <3>3. CASE peer' = [peer EXCEPT ![s] = Returned(@, "error")]
        BY <1>0, <2>2, <3>1, <3>3 DEF TakeError, Waiting
      <3>4. CASE peer' = [peer EXCEPT ![s] = [Returned(@, "error") EXCEPT
                                                !.error = "taken"]]
        BY <1>0, <2>2, <3>1, <3>2, <3>4 DEF TakeError, Waiting
      <3> QED
        BY <2>2, <3>3, <3>4 DEF TakeError
    <2>3. CASE NegotiationStarted
      BY <1>0, <2>3 DEF NegotiationStarted, PeerType
    <2>4. CASE DirectTimeout
      <3>1. CASE options.allowRelay
        <4>1. PICK c \in {"ask", "wait"} :
                 peer' = [peer EXCEPT !["initiator"] =
                             [peer["initiator"] EXCEPT !.call = c]]
          BY <2>4, <3>1 DEF DirectTimeout
        <4> QED
          BY <1>0, <2>4, <4>1 DEF PeerType, DirectTimeout
      <3>2. CASE ~options.allowRelay
        <4>1. peer' = [peer EXCEPT !["initiator"] = Returned(@, "error")]
          BY <2>4, <3>2 DEF DirectTimeout
        <4> QED
          BY <1>0, <2>4, <4>1, ReturnedFields DEF DirectTimeout
      <3> QED
        BY <3>1, <3>2
    <2>5. CASE BeginRelay
      <3> DEFINE p == [peer["initiator"] EXCEPT
                          !.call = IF relaying = "connect" THEN "wait" ELSE @]
      <3>1. peer["initiator"].call # "idle"
        BY <2>5 DEF BeginRelay
      <3>2. p \in PeerType /\ (p.call = "idle" <=> peer["initiator"].call = "idle")
            /\ \A f \in {"current", "step", "pc", "closed", "ctx", "pending"} :
                  p[f] = peer["initiator"][f]
        BY <1>0, <3>1 DEF PeerType
      <3>3. peer' = [peer EXCEPT !["initiator"] = p]
            \/ peer' = [peer EXCEPT !["initiator"] = Fail(p)]
        BY <2>5 DEF BeginRelay
      <3> HIDE DEF p
      <3> QED
        BY <1>0, <3>2, <3>3, FailFields
    <2> QED
      BY <2>1, <2>2, <2>3, <2>4, <2>5
  <1> QED
    BY <1>1, <1>2 DEF Stays, KeepsCandidates

LEMMA StaysCallback ==
    ASSUME Types, NEW s \in Sides, NEW k \in Kinds,
           \/ OnICECandidate(s, k) \/ SendCandidate(s, k) \/ OnOpen(s, k)
           \/ PublishResult(s, k) \/ OnConnectionFailed(s, k) \/ Link(k)
    PROVE  /\ \A t \in Sides : Stays(t)
           /\ \A t \in Sides, j \in Kinds :
                 \/ conn'[t][j].candidate = conn[t][j].candidate
                 \/ /\ t = s /\ j = k
                    /\ OnICECandidate(s, k) \/ SendCandidate(s, k)
           /\ UNCHANGED <<sock, announced>>
  <1>0. peer \in [Sides -> PeerType] /\ peer[s] \in PeerType
        /\ conn \in [Sides -> [Kinds -> ConnType]] /\ conn[s][k] \in ConnType
    BY TypesParts DEF PeerOK, ConnOK
  <1>1. UNCHANGED <<sock, announced>>
    BY DEF OnICECandidate, SendCandidate, OnOpen, PublishResult, OnConnectionFailed,
       Link, callbackUnchanged
  <1>2. \A t \in Sides :
           /\ \A f \in {"current", "step", "pc", "closed", "ctx", "pending"} :
                 peer'[t][f] = peer[t][f]
           /\ peer'[t].call = peer[t].call
    <2>1. CASE UNCHANGED peer
      BY <2>1
    <2>2. CASE peer' = [peer EXCEPT ![s].transport = k]
      BY <1>0, <2>2 DEF PeerType
    <2>3. CASE PublishResult(s, k)
      BY <1>0, <2>3 DEF PublishResult, PeerType
    <2>4. CASE peer' = [peer EXCEPT ![s] = Fail(@)]
      BY <1>0, <2>4, FailFields
    <2> QED
      BY <2>1, <2>2, <2>3, <2>4 DEF OnICECandidate, SendCandidate, OnOpen,
         OnConnectionFailed, Link
  <1>3. \A t \in Sides, j \in Kinds :
           /\ \A f \in {"state", "local", "added"} : conn'[t][j][f] = conn[t][j][f]
           /\ \/ conn'[t][j].candidate = conn[t][j].candidate
              \/ /\ t = s /\ j = k
                 /\ OnICECandidate(s, k) \/ SendCandidate(s, k)
    <2>1. CASE UNCHANGED conn
      BY <2>1
    <2>2. CASE Link(k)
      BY <1>0, <2>2 DEF Link, ConnType
    <2>3. CASE /\ OnICECandidate(s, k) \/ SendCandidate(s, k)
               /\ \E x : conn' = [conn EXCEPT ![s][k].candidate = x]
      BY <1>0, <2>3 DEF ConnType
    <2>4. CASE \E x : conn' = [conn EXCEPT ![s][k].channel = x]
      BY <1>0, <2>4 DEF ConnType
    <2> QED
      BY <2>1, <2>2, <2>3, <2>4 DEF OnICECandidate, SendCandidate, OnOpen,
         PublishResult, OnConnectionFailed
  <1> QED
    BY <1>1, <1>2, <1>3 DEF Stays

LEMMA StayCalm ==
    ASSUME CalmInv, NEW s \in Sides, Stays(s), sock' = sock,
           announced' => announced \/ sock[s] = "open"
    PROVE  CalmSide(s)'
  <1>1. CalmSide(s) /\ "direct" \in Kinds
    BY TwoSides DEF CalmInv
  <1> QED
    BY <1>1 DEF CalmSide, Stays

LEMMA StayLocal ==
    ASSUME LocalInv, \A s \in Sides : Stays(s), announced => announced',
           \/ inbox' = inbox
           \/ \E t \in Sides : \E m : Gains(t, m) /\ m.type \notin {"offer", "answer"},
           \A s \in Sides, k \in Kinds :
              conn'[s][k].candidate # "none" /\ conn[s][k].state = "live" =>
                 conn[s][k].local
    PROVE  LocalInv'
  <1> USE TwoSides
  <1>1. \A k \in Kinds : Describing(k)' => conn'["initiator"][k].local
    <2> SUFFICES ASSUME NEW k \in Kinds, Describing(k)'
                 PROVE  conn'["initiator"][k].local
      OBVIOUS
    <2>1. Describing(k)
      BY DescribingKept DEF Stays
    <2> QED
      BY <2>1 DEF LocalInv, Stays
  <1>2. \A s \in Sides, k \in Kinds :
          /\ conn'[s][k].local => announced' /\ \A t \in Sides : conn'[t][k].state # "none"
          /\ conn'[s][k].state = "live" /\ conn'[s][k].candidate # "none" => conn'[s][k].local
    BY DEF LocalInv, Stays
  <1> QED
    BY <1>1, <1>2 DEF LocalInv, Describing

LEMMA StayOnce ==
    ASSUME Types, OnceInv, \A s \in Sides : Stays(s),
           \/ inbox' = inbox
           \/ \E t \in Sides : \E m : Gains(t, m) /\ ~Announces(m)
    PROVE  OnceInv'
  <1>1. \A t \in Sides : (Changed(t)' <=> Changed(t)) /\ (Asking(t)' => Asking(t))
    BY TwoSides DEF Stays, Changed, Asking
  <1> QED
    BY <1>1, OnceKept

LEMMA StayKept ==
    ASSUME KeptInv, \A s \in Sides : Stays(s), \A s \in Sides : KeepsCandidates(s),
           \A s \in Sides, k \in Kinds : Told(s, k) => Told(s, k)'
    PROVE  KeptInv'
  <1>1. \A s \in Sides, k \in Kinds : Waits(s, k)' => Waits(s, k)
    BY TwoSides DEF Waits, Stays, KeepsCandidates
  <1>2. \A s \in Sides, k \in Kinds : Holds(s, k) => Holds(s, k)'
    BY DEF Holds, Stays
  <1> QED
    BY <1>1, <1>2, KeptAfter

(* Whoever begins the relay has sent an offer, and so both ends are connected. *)
LEMMA BegunIsCalled ==
    ASSUME Types, HandoverInv, CalmInv, relaying # "no"
    PROVE  /\ peer["initiator"].call # "idle"
           /\ announced /\ \A s \in Sides : sock[s] = "open" /\ peer[s].step # "off"
                                            /\ peer[s].call # "idle"
  <1>1. announced
    BY DEF HandoverInv, OrderInv, Offered
  <1>2. \A s \in Sides : sock[s] = "open" /\ peer[s].step # "off" /\ peer[s].call # "idle"
    BY <1>1 DEF CalmInv, CalmSide, HandoverInv, CurrentInv
  <1> QED
    BY <1>1, <1>2, TwoSides

LEMMA CallReach ==
    ASSUME Types, HandoverInv, Smooth, NEW s \in Sides,
           \/ TakeResult(s) \/ TakeError(s) \/ NegotiationStarted \/ DirectTimeout
    PROVE  Smooth' /\ (KeptInv => KeptInv')
  <1>1. /\ \A t \in Sides : Stays(t) /\ KeepsCandidates(t)
        /\ UNCHANGED <<sock, announced>>
    BY StaysCall, BegunIsCalled DEF Smooth
  <1>2. inbox' = inbox
    BY DEF TakeResult, TakeError, NegotiationStarted, DirectTimeout, signals
  <1>3. CalmInv'
    BY <1>1, <1>2, StayCalm, CalmAfter DEF Smooth
  <1>4. LocalInv'
    BY <1>1, <1>2, StayLocal DEF Smooth, LocalInv, KeepsCandidates
  <1>5. OnceInv'
    BY <1>1, <1>2, StayOnce DEF Smooth
  <1>6. \A t \in Sides, k \in Kinds : Told(t, k) => Told(t, k)'
    BY <1>2 DEF Told, Candidate
  <1>7. KeptInv => KeptInv'
    BY <1>1, <1>6, StayKept
  <1> QED
    BY <1>3, <1>4, <1>5, <1>7 DEF Smooth

(* Side t is told to change, for the first time. *)
LEMMA OnceTold ==
    ASSUME Types, OnceInv, NEW t \in Sides, NEW m, Gains(t, m),
           \A i \in 1 .. Len(inbox[t]) : ~Announces(inbox[t][i]),
           ~Changed(t)', ~Asking(t)',
           \A s \in Sides \ {t} :
              \/ (Changed(s)' <=> Changed(s)) /\ (Asking(s)' <=> Asking(s))
              \/ ~Asking(s)' /\ \A i \in 1 .. Len(inbox[s]) : ~Announces(inbox[s][i])
    PROVE  OnceInv'
  <1>0. inbox \in [Sides -> Seq(Signal)] /\ Len(inbox[t]) \in Nat
    BY TypesParts DEF InboxType
  <1>1. \A i \in 1 .. Len(inbox'[t]) :
           Announces(inbox'[t][i]) =>
              \A j \in 1 .. Len(inbox'[t]) : Announces(inbox'[t][j]) => i = j
    <2>1. \A i \in 1 .. Len(inbox'[t]) :
             Announces(inbox'[t][i]) => i = Len(inbox[t]) + 1
      BY DEF Gains
    <2> QED
      BY <2>1
  <1>2. \A s \in Sides : Asking(s)' => ~Changed(s)'
    BY DEF OnceInv
  <1>3. \A s \in Sides : \A i \in 1 .. Len(inbox'[s]) :
            Announces(inbox'[s][i]) =>
                /\ ~Changed(s)' /\ ~Asking(s)'
                /\ \A j \in 1 .. Len(inbox'[s]) : Announces(inbox'[s][j]) => i = j
    <2>1. \A s \in Sides \ {t} : inbox'[s] = inbox[s]
      BY DEF Gains
    <2> QED
      BY <1>1, <2>1 DEF OnceInv
  <1> QED
    BY <1>2, <1>3 DEF OnceInv, Announces

LEMMA BeginRelayReach ==
    ASSUME Types, HandoverInv, Smooth, BeginRelay, ~faulty, ~faulty'
    PROVE  Smooth' /\ (KeptInv => KeptInv')
  <1> USE TwoSides
  <1> DEFINE m == [type |-> "transport_restart"]
             t == "responder"
  <1>0. inbox \in [Sides -> Seq(Signal)] /\ t = Other("initiator") /\ t \in Sides
    BY TypesParts DEF InboxType
  <1>1. relaying # "no" /\ relaying # "done" /\ peer["initiator"].call # "idle"
    BY BegunIsCalled DEF BeginRelay, Smooth
  <1>2. /\ \A s \in Sides : Stays(s) /\ KeepsCandidates(s)
        /\ UNCHANGED <<sock, announced>>
    BY <1>1, StaysCall
  <1>3. inbox' = inbox \/ SendSignal("initiator", m)
    BY DEF BeginRelay, signals
  <1>4. inbox' = inbox \/ Deliver(t, m)
    BY <1>0, <1>3 DEF SendSignal
  <1>5. Gains(t, m) /\ m.type = "transport_restart"
    BY <1>0, <1>4, GainsFacts
  <1> HIDE DEF m
  <1>6. CalmInv'
    BY <1>2, <1>5, StayCalm, CalmAfter DEF Smooth, Refusals
  <1>7. LocalInv'
    BY <1>2, <1>5, StayLocal DEF Smooth, LocalInv, KeepsCandidates
  <1>8. OnceInv'
    <2>1. \A s \in Sides : (Changed(s)' <=> Changed(s)) /\ (Asking(s)' <=> Asking(s))
      BY <1>2 DEF Stays, Changed, Asking
    <2>2. ~Changed(t) /\ ~Asking(t)
      BY <1>1 DEF HandoverInv, OrderInv, Asking, Types, RoleInv
    <2>3. \A i \in 1 .. Len(inbox[t]) : ~Announces(inbox[t][i])
      BY <1>1 DEF HandoverInv, QueueInv, Fits, Announces, Types, RoleInv, ToResponder
    <2> QED
      BY <1>5, <2>1, <2>2, <2>3, OnceTold DEF Smooth
  <1>9. \A s \in Sides, k \in Kinds : Told(s, k) => Told(s, k)'
    BY <1>4, ToldGains
  <1>10. KeptInv => KeptInv'
    BY <1>2, <1>9, StayKept
  <1> QED
    BY <1>6, <1>7, <1>8, <1>10 DEF Smooth

LEMMA PeerJoinedReach ==
    ASSUME Types, HandoverInv, Smooth, PeerJoined
    PROVE  Smooth' /\ (KeptInv => KeptInv')
  <1> USE TwoSides
  <1> DEFINE m == [type |-> "peer_joined"]
             t == "initiator"
  <1>0. inbox \in [Sides -> Seq(Signal)] /\ t \in Sides
    BY TypesParts DEF InboxType
  <1>1. UNCHANGED <<peer, conn, sock>> /\ announced' /\ Deliver(t, m)
        /\ \A s \in Sides : sock[s] = "open"
    BY DEF PeerJoined, netUnchanged
  <1>2. \A s \in Sides : Stays(s) /\ KeepsCandidates(s)
    BY <1>1 DEF Stays, KeepsCandidates
  <1>5. Gains(t, m) /\ m.type = "peer_joined"
    BY <1>0, <1>1, GainsFacts
  <1> HIDE DEF m
  <1>6. CalmInv'
    BY <1>1, <1>2, <1>5, StayCalm, CalmAfter DEF Smooth, Refusals
  <1>7. LocalInv'
    BY <1>1, <1>2, <1>5, StayLocal DEF Smooth, LocalInv, KeepsCandidates
  <1>8. OnceInv'
    BY <1>2, <1>5, StayOnce DEF Smooth, Announces
  <1>9. \A s \in Sides, k \in Kinds : Told(s, k) => Told(s, k)'
    BY <1>1, ToldGains
  <1>10. KeptInv => KeptInv'
    BY <1>2, <1>9, StayKept
  <1> QED
    BY <1>6, <1>7, <1>8, <1>10 DEF Smooth

(* A candidate is sent, and stays in flight until it is handled. *)
LEMMA CallbackReach ==
    ASSUME Types, ConnectionInv, Smooth, NEW s \in Sides, NEW k \in Kinds,
           \/ OnICECandidate(s, k) \/ SendCandidate(s, k) \/ OnOpen(s, k)
           \/ PublishResult(s, k) \/ OnConnectionFailed(s, k) \/ Link(k)
    PROVE  Smooth' /\ (KeptInv /\ ~dropped' => KeptInv')
  <1> USE TwoSides
  <1> DEFINE m == Candidate(k)
             t == Other(s)
  <1>0. inbox \in [Sides -> Seq(Signal)] /\ t \in Sides /\ Other(t) = s
    BY TypesParts DEF InboxType
  <1>1. /\ \A r \in Sides : Stays(r)
        /\ \A r \in Sides, j \in Kinds :
              \/ conn'[r][j].candidate = conn[r][j].candidate
              \/ r = s /\ j = k /\ (OnICECandidate(s, k) \/ SendCandidate(s, k))
        /\ UNCHANGED <<sock, announced>>
    BY StaysCallback
  <1>2. inbox' = inbox \/ SendSignal(s, m)
    BY DEF OnICECandidate, SendCandidate, OnOpen, PublishResult, OnConnectionFailed,
       Link, signals, Candidate
  <1>3. inbox' = inbox \/ Deliver(t, m)
    BY <1>2 DEF SendSignal
  <1>4. Gains(t, m) /\ m.type = "ice_candidate"
    BY <1>0, <1>3, GainsFacts DEF Candidate
  <1>5. conn[s][k].state = "live" /\ conn[s][k].candidate # "none" => conn[s][k].local
    BY DEF Smooth, LocalInv
  <1>6. OnICECandidate(s, k) => conn[s][k].state = "live" /\ conn[s][k].local
    BY DEF OnICECandidate
  <1>7. SendCandidate(s, k) => conn[s][k].candidate = "active" /\ SendSignal(s, m)
    BY DEF SendCandidate, Candidate
  <1>8. conn[s][k].local => sock[s] = "open" /\ sock[t] = "open"
    BY <1>0 DEF Smooth, LocalInv, CalmInv, CalmSide
  <1> HIDE DEF m
  <1>9. CalmInv'
    BY <1>1, <1>4, StayCalm, CalmAfter DEF Smooth, Refusals
  <1>10. LocalInv'
    <2>1. \A r \in Sides, j \in Kinds :
             conn'[r][j].candidate # "none" /\ conn[r][j].state = "live" => conn[r][j].local
      BY <1>1, <1>5, <1>6, <1>7 DEF Smooth, LocalInv
    <2> QED
      BY <1>1, <1>4, <2>1, StayLocal DEF Smooth
  <1>11. OnceInv'
    BY <1>1, <1>4, StayOnce DEF Smooth, Announces
  <1>12. ASSUME KeptInv, ~dropped'
         PROVE  KeptInv'
    <2>1. \A r \in Sides, j \in Kinds : Told(r, j) => Told(r, j)'
      BY <1>0, <1>3, ToldGains
    <2>2. \A r \in Sides, j \in Kinds : Holds(r, j) => Holds(r, j)'
      BY <1>1 DEF Holds, Stays
    <2>3. OnICECandidate(s, k) => conn'[s][k].candidate = "active"
      <3>1. conn \in [Sides -> [Kinds -> ConnType]] /\ conn[s][k] \in ConnType
        BY TypesParts DEF ConnOK
      <3>2. ASSUME OnICECandidate(s, k)
            PROVE  peer[s].current = k /\ sock[s] = "open"
        BY <1>6, <1>8, <3>2 DEF ConnectionInv, OnlyCurrentLives
      <3> QED
        BY <3>1, <3>2 DEF OnICECandidate, ConnType
    <2>4. SendCandidate(s, k) /\ conn[s][k].state = "live" => Told(t, k)'
      <3> SUFFICES ASSUME SendCandidate(s, k), conn[s][k].state = "live"
                   PROVE  Told(t, k)'
        OBVIOUS
      <3>1. sock[s] = "open" /\ sock[t] = "open"
        BY <1>5, <1>7, <1>8
      <3>2. Deliver(t, Candidate(k)) /\ CalmSide(t)
        BY <1>0, <1>7, <3>1 DEF SendSignal, m, Smooth, CalmInv
      <3> QED
        BY <1>0, <1>12, <3>1, <3>2, ToldDelivered
    <2> SUFFICES ASSUME NEW r \in Sides, NEW j \in Kinds, Waits(r, j)'
                 PROVE  Told(Other(r), j)' \/ Holds(Other(r), j)'
      BY DEF KeptInv, Waits, Told, Holds, Candidate
    <2>5. CASE conn'[r][j].candidate = conn[r][j].candidate
      <3>1. Waits(r, j)
        BY <1>1, <2>5 DEF Waits, Stays
      <3> QED
        BY <1>12, <2>1, <2>2, <3>1 DEF KeptInv
    <2>6. CASE r = s /\ j = k /\ (OnICECandidate(s, k) \/ SendCandidate(s, k))
      <3>1. conn'[s][k].candidate = "done" /\ conn[s][k].state = "live"
        BY <1>1, <2>6 DEF Waits, Stays
      <3> QED
        BY <2>3, <2>4, <2>6, <3>1
    <2> QED
      BY <1>1, <2>5, <2>6
  <1> QED
    BY <1>9, <1>10, <1>11, <1>12 DEF Smooth

-----------------------------------------------------------------------------
(* The steps of one side *)

(* replaceConnection: the new connection knows nothing, the old one is closed. *)
LEMMA InstalledFields ==
    ASSUME Types, NEW s \in Sides, NEW k \in Kinds, NEW j \in Kinds
    PROVE  LET c == Installed(s, k)[j] IN
           /\ j = k => /\ c.state = "live" /\ ~c.local /\ c.candidate = "none"
           /\ j # k /\ j = peer[s].current => c.state = "closed" /\ ~c.local
           /\ j # k /\ j # peer[s].current => c = conn[s][j]
           /\ c.local => conn[s][j].local
           /\ conn[s][j].state # "none" => c.state # "none"
  <1>1. NoConn.local = FALSE /\ [NoConn EXCEPT !.state = "live"].local = FALSE
        /\ [NoConn EXCEPT !.state = "live"].state = "live"
        /\ [NoConn EXCEPT !.state = "live"].candidate = "none"
    BY DEF NoConn
  <1>2. \A c : ClosePrevious(c).state = "closed" /\ ClosePrevious(c).local = FALSE
    BY DEF ClosePrevious, NoConn
  <1> QED
    BY <1>1, <1>2 DEF Installed

(* A side keeps calm if it does not close and its loop goes on. *)
LEMMA LoopCalm ==
    ASSUME CalmInv, NEW s \in Sides, Elsewhere(s), UNCHANGED <<sock, announced>>,
           peer'[s].closed = peer[s].closed, peer'[s].ctx = peer[s].ctx,
           peer[s].step # "off", peer'[s].step \notin {"off", "ended"},
           peer'[s].call = peer[s].call,
           peer'[s].current \in {peer[s].current} \cup Kinds,
           conn[s]["direct"].state # "none" => conn'[s]["direct"].state # "none"
    PROVE  \A t \in Sides : CalmSide(t)'
  <1>1. \A t \in Sides \ {s} : CalmSide(t)'
    BY DEF CalmInv, CalmSide, Elsewhere
  <1>2. CalmSide(s)'
    BY TwoSides DEF CalmInv, CalmSide
  <1> QED
    BY <1>1, <1>2

(* A loop that is under way has a connection. *)
LEMMA LoopHasCurrent ==
    ASSUME Types, HandoverInv, CalmInv, NEW s \in Sides, peer[s].step # "off"
    PROVE  /\ peer[s].current \in Kinds /\ sock[s] = "open"
           /\ conn[s]["direct"].state # "none"
           /\ peer[s].call \notin {"idle", "dial"}
  <1>1. peer[s] \in PeerType
    BY TypesParts DEF PeerOK
  <1>2. peer[s].call \notin {"idle", "dial"}
    BY DEF HandoverInv, CurrentInv
  <1> QED
    BY <1>1, <1>2 DEF CalmInv, CalmSide, PeerType, MaybeKind

(* The connections and what waits for them stay as they are. *)
LEMMA MoveKept ==
    ASSUME KeptInv, UNCHANGED conn,
           \A t \in Sides : /\ peer'[t].current = peer[t].current
                            /\ peer'[t].pending = peer[t].pending,
           \A t \in Sides, k \in Kinds : Told(t, k) => Told(t, k)'
    PROVE  KeptInv'
  <1>1. \A s \in Sides, k \in Kinds : Waits(s, k)' => Waits(s, k)
    BY DEF Waits
  <1>2. \A s \in Sides, k \in Kinds : Holds(s, k) => Holds(s, k)'
    BY DEF Holds
  <1> QED
    BY <1>1, <1>2, KeptAfter

LEMMA ConnectReach ==
    ASSUME Types, HandoverInv, Smooth, NEW s \in Sides, Connect(s), ~faulty, ~faulty'
    PROVE  Smooth' /\ KeptInv'
  <1> USE TwoSides
  <1>0. peer \in [Sides -> PeerType] /\ peer[s] \in PeerType
        /\ conn \in [Sides -> [Kinds -> ConnType]] /\ "direct" \in Kinds
    BY TypesParts DEF PeerOK, ConnOK
  <1> DEFINE p == ReplaceConnection(peer[s], "direct")
  <1>1. p \in PeerType /\ p.current = "direct"
        /\ \A f \in {"closed", "ctx", "step", "pc"} : p[f] = peer[s][f]
    BY <1>0, ReplaceFields
  <1>2. /\ peer' = [peer EXCEPT ![s] = [p EXCEPT !.call = "dial"]]
        /\ conn' = [conn EXCEPT ![s] = Installed(s, "direct")]
        /\ UNCHANGED <<inbox, sock, announced>> /\ peer[s].call = "idle"
    BY DEF Connect, Fault, signals, callUnchanged
  <1> HIDE DEF p
  <1>3. /\ peer'[s].current = "direct" /\ peer'[s].call = "dial"
        /\ \A f \in {"closed", "ctx", "step", "pc"} : peer'[s][f] = peer[s][f]
    BY <1>0, <1>1, <1>2 DEF PeerType
  <1>4. Elsewhere(s) /\ conn'[s] = Installed(s, "direct")
    BY <1>0, <1>2 DEF Elsewhere
  <1>5. peer[s].step = "off" /\ ~Changed(s)
    BY <1>2 DEF HandoverInv, CurrentInv
  <1>6. ~announced /\ \A r \in Sides, k \in Kinds : ~conn[r][k].local
    BY <1>5 DEF Smooth, CalmInv, CalmSide, LocalInv
  <1>7. CalmInv'
    <2>1. \A t \in Sides \ {s} : CalmSide(t)'
      BY <1>2, <1>4 DEF Smooth, CalmInv, CalmSide, Elsewhere
    <2>2. conn'[s]["direct"].state = "live"
      BY <1>4, InstalledFields
    <2>3. CalmSide(s)'
      BY <1>2, <1>3, <2>2 DEF Smooth, CalmInv, CalmSide
    <2> QED
      BY <1>2, <2>1, <2>3, CalmAfter DEF Smooth
  <1>8. \A r \in Sides, k \in Kinds :
           /\ ~conn'[r][k].local
           /\ conn'[r][k].state = "live" => conn'[r][k].candidate = "none"
    <2>1. \A k \in Kinds : /\ ~conn'[s][k].local
                           /\ conn'[s][k].state = "live" => conn'[s][k].candidate = "none"
      BY <1>4, <1>6, InstalledFields DEF Smooth, LocalInv
    <2> QED
      BY <1>4, <1>6, <2>1 DEF Elsewhere, Smooth, LocalInv
  <1>9. LocalInv'
    <2>1. \A k \in Kinds : ~Describing(k)'
      BY <1>2, <1>3, <1>4, <1>6, DescribingKept DEF Elsewhere, Smooth, LocalInv
    <2> QED
      BY <1>8, <2>1 DEF LocalInv, Describing
  <1>10. OnceInv'
    <2>1. Changed(s)' <=> Changed(s)
      BY <1>4, <1>5, InstalledFields DEF Changed, HandoverInv, CurrentInv
    <2>2. \A t \in Sides : (Changed(t)' <=> Changed(t)) /\ (Asking(t)' => Asking(t))
      BY <1>3, <1>4, <2>1 DEF Elsewhere, Changed, Asking
    <2> QED
      BY <1>2, <2>2, OnceKept DEF Smooth
  <1>11. KeptInv'
    BY <1>8 DEF KeptInv, Waits
  <1> QED
    BY <1>7, <1>9, <1>10, <1>11 DEF Smooth

LEMMA DialReach ==
    ASSUME Types, HandoverInv, Smooth, NEW s \in Sides, Dial(s), ~faulty, ~faulty'
    PROVE  Smooth' /\ (KeptInv => KeptInv')
  <1> USE TwoSides
  <1>0. peer \in [Sides -> PeerType] /\ peer[s] \in PeerType
        /\ sock \in [Sides -> {"none", "open", "down"}]
    BY TypesParts DEF PeerOK, RestOK
  <1>1. /\ sock' = [sock EXCEPT ![s] = "open"]
        /\ peer' = [peer EXCEPT
                ![s].call = IF s = "initiator" THEN "start" ELSE "wait",
                ![s].step = "loop"]
        /\ UNCHANGED <<conn, inbox, announced>> /\ peer[s].call = "dial"
    BY DEF Dial, Fault, signals, callUnchanged
  <1>2. /\ \A f \in {"current", "closed", "ctx", "pending", "pc"} : peer'[s][f] = peer[s][f]
        /\ peer'[s].step = "loop" /\ peer'[s].call # "idle" /\ Elsewhere(s)
        /\ sock'[s] = "open" /\ \A t \in Sides \ {s} : sock'[t] = sock[t]
    BY <1>0, <1>1 DEF PeerType, Elsewhere
  <1>3. CalmInv'
    <2>1. \A t \in Sides \ {s} : CalmSide(t)'
      <3>1. \A t \in Sides \ {s} : /\ peer'[t] = peer[t] /\ conn'[t] = conn[t]
                                    /\ sock'[t] = sock[t] /\ announced' = announced
        BY <1>1, <1>2 DEF Elsewhere
      <3> QED
        BY <3>1 DEF Smooth, CalmInv, CalmSide
    <2>2. CalmSide(s)'
      BY <1>1, <1>2 DEF Smooth, CalmInv, CalmSide
    <2> QED
      BY <1>1, <2>1, <2>2, CalmAfter DEF Smooth
  <1>4. LocalInv'
    <2>1. \A k \in Kinds : Describing(k)' => Describing(k)
      BY <1>1, <1>2, DescribingKept DEF Elsewhere
    <2> QED
      BY <1>1, <2>1 DEF LocalInv, Describing, Smooth
  <1>5. OnceInv'
    <2>1. \A t \in Sides : (Changed(t)' <=> Changed(t)) /\ (Asking(t)' => Asking(t))
      BY <1>1, <1>2 DEF Elsewhere, Changed, Asking
    <2> QED
      BY <1>1, <2>1, OnceKept DEF Smooth
  <1>6. \A t \in Sides, k \in Kinds : Told(t, k) => Told(t, k)'
    BY <1>1 DEF Told, Candidate
  <1>7. KeptInv => KeptInv'
    BY <1>1, <1>2, <1>6, MoveKept DEF Elsewhere
  <1> QED
    BY <1>3, <1>4, <1>5, <1>7 DEF Smooth

LEMMA HandlePeerJoinedReach ==
    ASSUME Types, HandoverInv, Smooth, NEW s \in Sides, HandlePeerJoined(s)
    PROVE  Smooth' /\ (KeptInv => KeptInv')
  <1> USE TwoSides
  <1>0. peer \in [Sides -> PeerType] /\ peer[s] \in PeerType
        /\ inbox \in [Sides -> Seq(Signal)]
    BY TypesParts DEF PeerOK, InboxType
  <1>1. /\ s = "initiator" /\ Elsewhere(s) /\ UNCHANGED <<conn, announced>>
        /\ inbox' = [inbox EXCEPT ![s] = Tail(@)] /\ Take(s, {"peer_joined"})
        /\ peer'[s].step = "makeOffer"
    BY PeerJoinedPlaces
  <1>2. /\ \A f \in {"current", "closed", "ctx", "pending", "call"} :
              peer'[s][f] = peer[s][f]
        /\ UNCHANGED sock
    BY <1>0 DEF HandlePeerJoined, PeerType, loopUnchanged
  <1>3. inbox[s] # <<>> /\ Head(inbox[s]).type = "peer_joined" /\ peer[s].step = "loop"
    BY <1>1 DEF Take
  <1>4. Loses(s)
    BY <1>0, <1>1, <1>3, LosesFacts
  <1>5. CalmInv'
    <2>1. \A t \in Sides : CalmSide(t)'
      BY <1>1, <1>2, <1>3, LoopCalm DEF Smooth
    <2> QED
      BY <1>4, <2>1, CalmAfter DEF Smooth
  <1>6. LocalInv'
    <2>1. \A k \in Kinds : Describing(k)' => Describing(k)
      BY <1>1, <1>4, DescribingKept DEF Elsewhere
    <2> QED
      BY <1>1, <2>1 DEF LocalInv, Describing, Smooth
  <1>7. OnceInv'
    <2>1. \A t \in Sides : (Changed(t)' <=> Changed(t)) /\ (Asking(t)' => Asking(t))
      BY <1>1 DEF Elsewhere, Changed, Asking
    <2> QED
      BY <1>4, <2>1, OnceKept DEF Smooth
  <1>8. \A t \in Sides, k \in Kinds : Told(t, k) => Told(t, k)'
    BY <1>1, <1>3, ToldTaken DEF Candidate
  <1>9. KeptInv => KeptInv'
    BY <1>1, <1>2, <1>8, MoveKept DEF Elsewhere
  <1> QED
    BY <1>5, <1>6, <1>7, <1>9 DEF Smooth

(* The connection that is described is there at both ends. *)
LEMMA MakeOfferReach ==
    ASSUME Types, HandoverInv, Smooth, NEW s \in Sides, MakeOffer(s)
    PROVE  Smooth' /\ (KeptInv => KeptInv')
  <1> USE TwoSides
  <1> DEFINE k == peer[s].current
  <1>0. peer \in [Sides -> PeerType] /\ peer[s] \in PeerType
        /\ conn \in [Sides -> [Kinds -> ConnType]]
    BY TypesParts DEF PeerOK, ConnOK
  <1>1. s = "initiator" /\ peer[s].step = "makeOffer"
        /\ UNCHANGED <<inbox, announced, sock, dropped>>
    BY MakeOfferPlaces DEF MakeOffer, loopUnchanged, signals
  <1>2. k \in Kinds /\ k # "none" /\ conn[s]["direct"].state # "none"
    BY <1>1, LoopHasCurrent DEF Smooth
  <1>3. /\ conn' = [conn EXCEPT ![s][k].local = TRUE]
        /\ peer' = [peer EXCEPT ![s].step = "sendOffer", ![s].pc = k]
    BY <1>2 DEF MakeOffer
  <1>4. /\ Elsewhere(s) /\ peer'[s].step = "sendOffer" /\ peer'[s].pc = k
        /\ \A f \in {"current", "closed", "ctx", "pending", "call"} :
              peer'[s][f] = peer[s][f]
    BY <1>0, <1>3 DEF PeerType, Elsewhere
  <1>5. \A t \in Sides, j \in Kinds :
           /\ \A f \in {"state", "added", "candidate"} : conn'[t][j][f] = conn[t][j][f]
           /\ conn'[t][j].local <=> (conn[t][j].local \/ (t = s /\ j = k))
    BY <1>0, <1>2, <1>3 DEF ConnType
  <1> HIDE DEF k
  <1>6. announced /\ \A t \in Sides : conn[t][k].state # "none"
    <2>1. announced
      BY <1>1 DEF HandoverInv, OrderInv
    <2>2. \A t \in Sides : conn[t]["direct"].state # "none"
      BY <2>1, LoopHasCurrent DEF Smooth, CalmInv, CalmSide
    <2>3. k = "relay" => \A t \in Sides : Changed(t)
      BY <1>1 DEF HandoverInv, CurrentInv, OrderInv, k
    <2> QED
      BY <1>2, <2>1, <2>2, <2>3 DEF Changed
  <1>7. CalmInv'
    <2>1. \A t \in Sides : CalmSide(t)'
      BY <1>1, <1>4, <1>5, LoopCalm DEF Smooth
    <2> QED
      BY <1>1, <2>1, CalmAfter DEF Smooth
  <1>8. LocalInv'
    <2>1. \A j \in Kinds : Describing(j)' => Describing(j) \/ j = k
      BY <1>1, <1>4 DEF Describing, Describes, Elsewhere
    <2>2. \A j \in Kinds : Describing(j)' => conn'["initiator"][j].local
      BY <1>1, <1>5, <2>1 DEF LocalInv, Smooth
    <2>3. \A t \in Sides, j \in Kinds :
             /\ conn'[t][j].local => announced' /\ \A r \in Sides : conn'[r][j].state # "none"
             /\ conn'[t][j].state = "live" /\ conn'[t][j].candidate # "none"
                   => conn'[t][j].local
      BY <1>1, <1>5, <1>6 DEF LocalInv, Smooth
    <2> QED
      BY <2>2, <2>3 DEF LocalInv, Describing
  <1>9. OnceInv'
    <2>1. \A t \in Sides : (Changed(t)' <=> Changed(t)) /\ (Asking(t)' => Asking(t))
      BY <1>4, <1>5 DEF Elsewhere, Changed, Asking
    <2> QED
      BY <1>1, <2>1, OnceKept DEF Smooth
  <1>10. ASSUME KeptInv
         PROVE  KeptInv'
    <2>1. \A t \in Sides, j \in Kinds : Waits(t, j)' => Waits(t, j)
      BY <1>5 DEF Waits
    <2>2. \A t \in Sides, j \in Kinds : Holds(t, j) => Holds(t, j)'
      BY <1>4, <1>5 DEF Holds, Elsewhere
    <2>3. \A t \in Sides, j \in Kinds : Told(t, j) => Told(t, j)'
      BY <1>1 DEF Told, Candidate
    <2> QED
      BY <1>10, <2>1, <2>2, <2>3, KeptAfter
  <1> QED
    BY <1>7, <1>8, <1>9, <1>10 DEF Smooth

LEMMA SendDescriptionReach ==
    ASSUME Types, HandoverInv, Smooth, NEW s \in Sides, SendDescription(s)
    PROVE  Smooth' /\ (KeptInv => KeptInv')
  <1> USE TwoSides
  <1> DEFINE k == peer[s].pc
             t == Other(s)
  <1>0. peer \in [Sides -> PeerType] /\ peer[s] \in PeerType /\ t \in Sides
        /\ inbox \in [Sides -> Seq(Signal)]
    BY TypesParts DEF PeerOK, InboxType
  <1>1. /\ Elsewhere(s) /\ UNCHANGED <<conn, announced, sock>> /\ k \in Kinds
        /\ peer[s].step \in {"sendOffer", "sendAnswer"}
    BY SendDescriptionPlaces DEF SendDescription, loopUnchanged
  <1>2. sock[s] = "open"
    BY <1>1, LoopHasCurrent DEF Smooth
  <1>3. PICK m : /\ m.type \in {"offer", "answer"} /\ m.of = k /\ SendSignal(s, m)
    BY <1>2 DEF SendDescription
  <1>4. /\ peer'[s].step = "loop"
        /\ \A f \in {"current", "closed", "ctx", "pending", "call"} :
              peer'[s][f] = peer[s][f]
    BY <1>0, <1>2 DEF SendDescription, PeerType
  <1>5. inbox' = inbox \/ Deliver(t, m)
    BY <1>3 DEF SendSignal
  <1>6. Gains(t, m)
    BY <1>0, <1>5, GainsFacts
  <1>7. CalmInv'
    <2>1. \A r \in Sides : CalmSide(r)'
      BY <1>1, <1>4, LoopCalm DEF Smooth
    <2> QED
      BY <1>0, <1>3, <1>6, <2>1, CalmAfter DEF Smooth, Refusals
  <1>8. LocalInv'
    <2>1. \A j \in Kinds : Describing(j)' => Describing(j)
      <3> SUFFICES ASSUME NEW j \in Kinds, Describing(j)'
                   PROVE  Describing(j)
        OBVIOUS
      <3>1. \A r \in Sides : peer'[r].step \in {"sendOffer", "sendAnswer"}
                             => peer[r].step = peer'[r].step /\ peer[r].pc = peer'[r].pc
        BY <1>1, <1>4 DEF Elsewhere
      <3>2. \A r \in Sides : \A i \in 1 .. Len(inbox'[r]) :
               \/ i \in 1 .. Len(inbox[r]) /\ inbox'[r][i] = inbox[r][i]
               \/ inbox'[r][i] = m
        BY <1>6 DEF Gains
      <3>3. Describes(m, j) => Describing(j)
        BY <1>1, <1>3 DEF Describes, Describing
      <3>4. CASE \E r \in Sides : peer'[r].step \in {"sendOffer", "sendAnswer"}
                                  /\ peer'[r].pc = j
        BY <3>1, <3>4 DEF Describing
      <3>5. CASE \E r \in Sides : \E i \in 1 .. Len(inbox'[r]) : Describes(inbox'[r][i], j)
        BY <3>2, <3>3, <3>5 DEF Describing
      <3> QED
        BY <3>4, <3>5 DEF Describing, Describes
    <2> QED
      BY <1>1, <2>1 DEF LocalInv, Describing, Smooth
  <1>9. OnceInv'
    <2>1. \A r \in Sides : (Changed(r)' <=> Changed(r)) /\ (Asking(r)' => Asking(r))
      BY <1>1, <1>4 DEF Elsewhere, Changed, Asking
    <2> QED
      BY <1>0, <1>3, <1>6, <2>1, OnceKept DEF Smooth, Announces
  <1>10. \A r \in Sides, j \in Kinds : Told(r, j) => Told(r, j)'
    BY <1>0, <1>5, ToldGains
  <1>11. KeptInv => KeptInv'
    BY <1>1, <1>4, <1>10, MoveKept DEF Elsewhere
  <1> QED
    BY <1>7, <1>8, <1>9, <1>11 DEF Smooth

(***************************************************************************)
(* An offer or an answer is for the current connection of whoever handles  *)
(* it, which the initiator has described.                                  *)
(***************************************************************************)
LEMMA HeadIsCurrent ==
    ASSUME Types, HandoverInv, Smooth, NEW s \in Sides, Take(s, {"offer", "answer"})
    PROVE  /\ Head(inbox[s]).of = peer[s].current /\ peer[s].current \in Kinds
           /\ Describing(peer[s].current)
           /\ conn["initiator"][peer[s].current].local
  <1> USE TwoSides
  <1> DEFINE m == Head(inbox[s])
  <1>1. peer[s].current \in Kinds
    BY LoopHasCurrent DEF Take, Smooth
  <1>2. /\ m = inbox[s][1] /\ 1 \in 1 .. Len(inbox[s]) /\ m \in Signal
        /\ m.type \in {"offer", "answer"}
    BY TypesParts, TakeFacts
  <1>3. m.of \in Kinds /\ Fits(s, m)
    BY <1>2, SignalFields DEF HandoverInv, QueueInv
  <1> HIDE DEF m
  <1>4. m.of = peer[s].current
    <2>1. CASE m.of = "direct"
      <3>1. ~Changed(s)
        BY <1>2, <1>3, <2>1 DEF Fits, Describes
      <3> QED
        BY <1>1, <2>1, <3>1 DEF HandoverInv, CurrentInv
    <2>2. CASE m.of = "relay"
      <3>1. Changed("initiator") /\ Changed("responder")
        BY <1>2, <1>3, <2>2 DEF Fits, Describes, HandoverInv, OrderInv
      <3> QED
        BY <1>1, <2>2, <3>1 DEF HandoverInv, CurrentInv
    <2> QED
      BY <1>3, <2>1, <2>2
  <1>5. Describing(peer[s].current)
    BY <1>2, <1>4 DEF Describing, Describes
  <1> QED
    BY <1>1, <1>4, <1>5 DEF Smooth, LocalInv, m

(* The candidates that were set aside are added with the description. *)
LEMMA HandleOfferReach ==
    ASSUME Types, HandoverInv, Smooth, NEW s \in Sides, HandleOffer(s)
    PROVE  Smooth' /\ (KeptInv => KeptInv')
  <1> USE TwoSides
  <1> DEFINE k == peer[s].current
             c == [Described(s, k, Head(inbox[s]).of) EXCEPT !.local = TRUE]
  <1>0. peer \in [Sides -> PeerType] /\ peer[s] \in PeerType /\ peer[s].pending \subseteq Kinds
        /\ inbox \in [Sides -> Seq(Signal)] /\ conn \in [Sides -> [Kinds -> ConnType]]
    BY TypesParts DEF PeerOK, InboxType, ConnOK, PeerType
  <1>1. Take(s, {"offer"}) /\ UNCHANGED <<announced, sock>>
    BY DEF HandleOffer, loopUnchanged
  <1>2. inbox[s] # <<>> /\ Head(inbox[s]).type = "offer" /\ peer[s].step = "loop"
    BY <1>1 DEF Take
  <1>3. k \in Kinds /\ Describing(k) /\ conn["initiator"][k].local
    BY <1>1, HeadIsCurrent DEF Take
  <1>4. conn[s]["direct"].state # "none"
    BY <1>2, LoopHasCurrent DEF Smooth
  <1>5. /\ conn' = [conn EXCEPT ![s][k] = c]
        /\ peer' = [peer EXCEPT ![s].pending = {}, ![s].step = "sendAnswer", ![s].pc = k]
    BY <1>3 DEF HandleOffer, Kinds
  <1>6. /\ Elsewhere(s) /\ peer'[s].step = "sendAnswer" /\ peer'[s].pc = k
        /\ peer'[s].pending = {}
        /\ \A f \in {"current", "closed", "ctx", "call"} : peer'[s][f] = peer[s][f]
    BY <1>0, <1>5 DEF PeerType, Elsewhere
  <1>7. inbox' = [inbox EXCEPT ![s] = Tail(@)]
    BY <1>6 DEF HandleOffer, Taken
  <1>8. /\ c.state = conn[s][k].state /\ c.candidate = conn[s][k].candidate
        /\ c.local /\ c.added = conn[s][k].added \cup peer[s].pending
    BY <1>0, <1>3 DEF Described, ConnType
  <1> HIDE DEF c
  <1>9. \A t \in Sides, j \in Kinds :
           /\ conn'[t][j].state = conn[t][j].state
           /\ conn'[t][j].candidate = conn[t][j].candidate
           /\ (t # s \/ j # k) => conn'[t][j] = conn[t][j]
           /\ t = s /\ j = k => conn'[t][j] = c
    BY <1>0, <1>3, <1>5, <1>8 DEF ConnType
  <1> HIDE DEF k
  <1>10. Loses(s)
    BY <1>0, <1>2, <1>7, LosesFacts
  <1>11. CalmInv'
    <2>1. \A t \in Sides : CalmSide(t)'
      BY <1>1, <1>2, <1>6, <1>9, LoopCalm DEF Smooth
    <2> QED
      BY <1>10, <2>1, CalmAfter DEF Smooth
  <1>12. LocalInv'
    <2>0. s = "responder"
      BY HandleOfferPlaces
    <2>1. \A j \in Kinds : Describing(j)' => Describing(j)
      <3> SUFFICES ASSUME NEW j \in Kinds, Describing(j)'
                   PROVE  Describing(j)
        OBVIOUS
      <3>1. CASE \E r \in Sides : peer'[r].step \in {"sendOffer", "sendAnswer"}
                                  /\ peer'[r].pc = j
        BY <1>3, <1>6, <3>1 DEF Describing, Elsewhere
      <3>2. CASE \E r \in Sides : \E i \in 1 .. Len(inbox'[r]) : Describes(inbox'[r][i], j)
        BY <1>10, <3>2 DEF Describing, Loses
      <3> QED
        BY <3>1, <3>2 DEF Describing, Describes
    <2>2. \A j \in Kinds : Describing(j)' => conn'["initiator"][j].local
      BY <1>9, <2>0, <2>1 DEF LocalInv, Smooth
    <2>3. \A t \in Sides, j \in Kinds :
             /\ conn'[t][j].local => announced' /\ \A r \in Sides : conn'[r][j].state # "none"
             /\ conn'[t][j].state = "live" /\ conn'[t][j].candidate # "none"
                   => conn'[t][j].local
      <3> SUFFICES ASSUME NEW t \in Sides, NEW j \in Kinds
                   PROVE  /\ conn'[t][j].local => announced' /\ \A r \in Sides : conn'[r][j].state # "none"
                          /\ conn'[t][j].state = "live" /\ conn'[t][j].candidate # "none"
                                => conn'[t][j].local
        OBVIOUS
      <3>1. CASE t = s /\ j = k
        BY <1>1, <1>3, <1>8, <1>9, <3>1 DEF LocalInv, Smooth
      <3>2. CASE t # s \/ j # k
        BY <1>1, <1>9, <3>2 DEF LocalInv, Smooth
      <3> QED
        BY <3>1, <3>2
    <2> QED
      BY <2>2, <2>3 DEF LocalInv, Describing
  <1>13. OnceInv'
    <2>1. \A t \in Sides : (Changed(t)' <=> Changed(t)) /\ (Asking(t)' => Asking(t))
      BY <1>6, <1>9 DEF Elsewhere, Changed, Asking
    <2> QED
      BY <1>10, <2>1, OnceKept DEF Smooth
  <1>14. ASSUME KeptInv
         PROVE  KeptInv'
    <2>1. \A t \in Sides, j \in Kinds : Waits(t, j)' => Waits(t, j)
      BY <1>9 DEF Waits
    <2>2. \A t \in Sides, j \in Kinds : Holds(t, j) => Holds(t, j)'
      <3>1. \A j \in Kinds : Holds(s, j) => Holds(s, j)'
        BY <1>3, <1>6, <1>8, <1>9 DEF Holds, k
      <3>2. \A t \in Sides \ {s}, j \in Kinds : Holds(t, j) => Holds(t, j)'
        BY <1>6, <1>9 DEF Holds, Elsewhere
      <3> QED
        BY <3>1, <3>2
    <2>3. \A j \in Kinds : Head(inbox[s]) # Candidate(j)
      BY <1>2 DEF Candidate
    <2>4. \A t \in Sides, j \in Kinds : Told(t, j) => Told(t, j)'
      BY <1>2, <1>7, <2>3, ToldTaken
    <2> QED
      BY <1>14, <2>1, <2>2, <2>4, KeptAfter
  <1> QED
    BY <1>11, <1>12, <1>13, <1>14 DEF Smooth

LEMMA HandleAnswerReach ==
    ASSUME Types, HandoverInv, Smooth, NEW s \in Sides, HandleAnswer(s)
    PROVE  Smooth' /\ (KeptInv => KeptInv')
  <1> USE TwoSides
  <1> DEFINE k == peer[s].current
             c == Described(s, k, Head(inbox[s]).of)
  <1>0. peer \in [Sides -> PeerType] /\ peer[s] \in PeerType /\ peer[s].pending \subseteq Kinds
        /\ inbox \in [Sides -> Seq(Signal)] /\ conn \in [Sides -> [Kinds -> ConnType]]
    BY TypesParts DEF PeerOK, InboxType, ConnOK, PeerType
  <1>1. Take(s, {"answer"}) /\ UNCHANGED <<announced, sock>> /\ s = "initiator"
    BY HandleAnswerPlaces DEF HandleAnswer, loopUnchanged
  <1>2. inbox[s] # <<>> /\ Head(inbox[s]).type = "answer" /\ peer[s].step = "loop"
    BY <1>1 DEF Take
  <1>3. k \in Kinds /\ conn[s][k].local
    BY <1>1, HeadIsCurrent DEF Take
  <1>5. /\ conn' = [conn EXCEPT ![s][k] = c]
        /\ peer' = [peer EXCEPT ![s].pending = {}]
    BY <1>3 DEF HandleAnswer, Kinds
  <1>6. /\ Elsewhere(s) /\ peer'[s].pending = {}
        /\ \A f \in {"current", "closed", "ctx", "call", "step", "pc"} :
              peer'[s][f] = peer[s][f]
    BY <1>0, <1>5 DEF PeerType, Elsewhere
  <1>7. inbox' = [inbox EXCEPT ![s] = Tail(@)]
    BY <1>2, <1>6 DEF HandleAnswer, Taken
  <1>8. /\ c.state = conn[s][k].state /\ c.candidate = conn[s][k].candidate
        /\ c.local /\ c.added = conn[s][k].added \cup peer[s].pending
    BY <1>0, <1>3 DEF Described, ConnType
  <1> HIDE DEF c
  <1>9. \A t \in Sides, j \in Kinds :
           /\ conn'[t][j].state = conn[t][j].state
           /\ conn'[t][j].candidate = conn[t][j].candidate
           /\ conn'[t][j].local <=> conn[t][j].local
           /\ (t # s \/ j # k) => conn'[t][j] = conn[t][j]
           /\ t = s /\ j = k => conn'[t][j] = c
    BY <1>0, <1>3, <1>5, <1>8 DEF ConnType
  <1> HIDE DEF k
  <1>10. Loses(s)
    BY <1>0, <1>2, <1>7, LosesFacts
  <1>11. CalmInv'
    <2>1. \A t \in Sides : CalmSide(t)'
      BY <1>1, <1>2, <1>6, <1>9, LoopCalm DEF Smooth
    <2> QED
      BY <1>10, <2>1, CalmAfter DEF Smooth
  <1>12. LocalInv'
    <2>1. \A j \in Kinds : Describing(j)' => Describing(j)
      BY <1>6, <1>10, DescribingKept DEF Elsewhere
    <2> QED
      BY <1>1, <1>9, <2>1 DEF LocalInv, Describing, Smooth
  <1>13. OnceInv'
    <2>1. \A t \in Sides : (Changed(t)' <=> Changed(t)) /\ (Asking(t)' => Asking(t))
      BY <1>6, <1>9 DEF Elsewhere, Changed, Asking
    <2> QED
      BY <1>10, <2>1, OnceKept DEF Smooth
  <1>14. ASSUME KeptInv
         PROVE  KeptInv'
    <2>1. \A t \in Sides, j \in Kinds : Waits(t, j)' => Waits(t, j)
      BY <1>9 DEF Waits
    <2>2. \A t \in Sides, j \in Kinds : Holds(t, j) => Holds(t, j)'
      <3>1. \A j \in Kinds : Holds(s, j) => Holds(s, j)'
        BY <1>3, <1>6, <1>8, <1>9 DEF Holds, k
      <3>2. \A t \in Sides \ {s}, j \in Kinds : Holds(t, j) => Holds(t, j)'
        BY <1>6, <1>9 DEF Holds, Elsewhere
      <3> QED
        BY <3>1, <3>2
    <2>3. \A j \in Kinds : Head(inbox[s]) # Candidate(j)
      BY <1>2 DEF Candidate
    <2>4. \A t \in Sides, j \in Kinds : Told(t, j) => Told(t, j)'
      BY <1>2, <1>7, <2>3, ToldTaken
    <2> QED
      BY <1>14, <2>1, <2>2, <2>4, KeptAfter
  <1> QED
    BY <1>11, <1>12, <1>13, <1>14 DEF Smooth

(* A candidate is added or set aside by the connection that waits for it. *)
LEMMA HandleCandidateReach ==
    ASSUME Types, ConnectionInv, HandoverInv, Smooth, NEW s \in Sides, HandleCandidate(s)
    PROVE  Smooth' /\ (KeptInv => KeptInv')
  <1> USE TwoSides
  <1> DEFINE k == peer[s].current
             of == Head(inbox[s]).of
  <1>0. peer \in [Sides -> PeerType] /\ peer[s] \in PeerType /\ peer[s].pending \subseteq Kinds
        /\ inbox \in [Sides -> Seq(Signal)] /\ conn \in [Sides -> [Kinds -> ConnType]]
    BY TypesParts DEF PeerOK, InboxType, ConnOK, PeerType
  <1>1. Take(s, {"ice_candidate"}) /\ UNCHANGED <<announced, sock>>
    BY DEF HandleCandidate, loopUnchanged
  <1>2. inbox[s] # <<>> /\ peer[s].step = "loop"
    BY <1>1 DEF Take
  <1>3. k \in Kinds /\ k # "none" /\ of \in Kinds
    BY <1>1, <1>2, LoopHasCurrent, TakeFacts, SignalFields, TypesParts DEF Smooth
  <1>4. /\ Elsewhere(s)
        /\ \A f \in {"current", "closed", "ctx", "call", "step", "pc"} :
              peer'[s][f] = peer[s][f]
        /\ peer[s].pending \subseteq peer'[s].pending
        /\ \A t \in Sides, j \in Kinds :
              /\ conn'[t][j].state = conn[t][j].state
              /\ conn'[t][j].candidate = conn[t][j].candidate
              /\ conn'[t][j].local <=> conn[t][j].local
              /\ conn[t][j].added \subseteq conn'[t][j].added
        /\ of \in peer'[s].pending \/ of \in conn'[s][k].added
    <2>1. CASE peer' = [peer EXCEPT ![s] = KeepCandidate(@, of)] /\ UNCHANGED conn
      <3>1. /\ \A f \in {"current", "closed", "ctx", "call", "step", "pc"} :
                  KeepCandidate(peer[s], of)[f] = peer[s][f]
            /\ KeepCandidate(peer[s], of).pending = peer[s].pending \cup {of}
        BY <1>0, <1>3 DEF KeepCandidate, PeerType
      <3> QED
        BY <1>0, <2>1, <3>1 DEF Elsewhere
    <2>2. CASE UNCHANGED peer /\ conn' = [conn EXCEPT ![s][k].added = @ \cup {of}]
      <3> DEFINE c == [conn[s][k] EXCEPT !.added = @ \cup {of}]
      <3>1. conn' = [conn EXCEPT ![s][k] = c] /\ conn[s][k] \in ConnType
        BY <1>0, <1>3, <2>2
      <3>2. /\ c.state = conn[s][k].state /\ c.candidate = conn[s][k].candidate
            /\ c.local = conn[s][k].local /\ c.added = conn[s][k].added \cup {of}
        BY <3>1 DEF ConnType
      <3> HIDE DEF c
      <3>3. /\ conn'[s][k] = c
            /\ \A j \in Kinds \ {k} : conn'[s][j] = conn[s][j]
            /\ \A t \in Sides \ {s} : conn'[t] = conn[t]
        BY <1>0, <1>3, <3>1
      <3> HIDE DEF k, of
      <3>4. \A t \in Sides, j \in Kinds :
               t # s \/ j # k => conn'[t][j] = conn[t][j]
        BY <3>3
      <3> QED
        BY <1>3, <2>2, <3>2, <3>3, <3>4 DEF Elsewhere
    <2> QED
      BY <1>3, <2>1, <2>2 DEF HandleCandidate
  <1>5. inbox' = [inbox EXCEPT ![s] = Tail(@)]
    BY <1>2, <1>4 DEF HandleCandidate, Taken
  <1>6. Loses(s)
    BY <1>0, <1>2, <1>5, LosesFacts
  <1>7. peer'[s].current = k
    BY <1>4
  <1> HIDE DEF k, of
  <1>8. CalmInv'
    <2>1. \A t \in Sides : CalmSide(t)'
      BY <1>1, <1>2, <1>4, LoopCalm DEF Smooth
    <2> QED
      BY <1>6, <2>1, CalmAfter DEF Smooth
  <1>9. LocalInv'
    <2>1. \A j \in Kinds : Describing(j)' => Describing(j)
      BY <1>4, <1>6, DescribingKept DEF Elsewhere
    <2> QED
      BY <1>1, <1>4, <2>1 DEF LocalInv, Describing, Smooth
  <1>10. OnceInv'
    <2>1. \A t \in Sides : (Changed(t)' <=> Changed(t)) /\ (Asking(t)' => Asking(t))
      BY <1>4 DEF Elsewhere, Changed, Asking
    <2> QED
      BY <1>6, <2>1, OnceKept DEF Smooth
  <1>11. ASSUME KeptInv
         PROVE  KeptInv'
    <2>1. \A t \in Sides, j \in Kinds : Waits(t, j)' => Waits(t, j)
      BY <1>4 DEF Waits
    <2>2. \A t \in Sides, j \in Kinds : Holds(t, j) => Holds(t, j)'
      BY <1>4 DEF Holds, Elsewhere
    <2>3. ASSUME NEW j \in Kinds, Waits(Other(s), j), Head(inbox[s]) = Candidate(j)
          PROVE  Holds(s, j)'
      <3>1. of = j
        BY <2>3 DEF Candidate, of
      <3>2. conn[Other(s)][j].local
        BY <2>3 DEF Waits, Smooth, LocalInv
      <3>3. conn[s][j].state # "none" /\ conn[s][j].state # "closed"
        BY <2>3, <3>2 DEF Waits, Smooth, LocalInv
      <3>4. conn[s][j].state = "live"
        BY <1>0, <3>3 DEF ConnType
      <3>5. k = j
        BY <3>4 DEF ConnectionInv, OnlyCurrentLives, k
      <3> QED
        BY <1>4, <1>7, <3>1, <3>5 DEF Holds
    <2>4. \A t \in Sides, j \in Kinds :
             Waits(Other(t), j) /\ Told(t, j) => Told(t, j)' \/ Holds(t, j)'
      <3> SUFFICES ASSUME NEW t \in Sides, NEW j \in Kinds,
                          Waits(Other(t), j), Told(t, j)
                   PROVE  Told(t, j)' \/ Holds(t, j)'
        OBVIOUS
      <3>1. Told(t, j)' \/ (t = s /\ Head(inbox[s]) = Candidate(j))
        BY <1>2, <1>5, ToldTaken
      <3>2. CASE t = s /\ Head(inbox[s]) = Candidate(j)
        <4>1. Holds(s, j)'
          BY <2>3, <3>2
        <4> QED
          BY <3>2, <4>1
      <3> QED
        BY <3>1, <3>2
    <2>5. \A t \in Sides, j \in Kinds :
             /\ Waits(Other(t), j)' /\ Told(t, j) => Told(t, j)' \/ Holds(t, j)'
             /\ Waits(Other(t), j)' /\ Holds(t, j) => Holds(t, j)'
      BY <2>1, <2>2, <2>4
    <2> QED
      BY <1>11, <2>1, <2>5, KeptAfter
  <1> QED
    BY <1>8, <1>9, <1>10, <1>11 DEF Smooth

(* A side starts to change, and is not told to again. *)
LEMMA HandleRestartReach ==
    ASSUME Types, HandoverInv, Smooth, NEW s \in Sides, HandleRestart(s)
    PROVE  Smooth' /\ (KeptInv => KeptInv')
  <1> USE TwoSides
  <1>0. peer \in [Sides -> PeerType] /\ peer[s] \in PeerType
        /\ inbox \in [Sides -> Seq(Signal)] /\ Len(inbox[s]) \in Nat
    BY TypesParts DEF PeerOK, InboxType
  <1>1. /\ Elsewhere(s) /\ UNCHANGED <<conn, announced, sock>>
        /\ peer'[s].step \in {"askRestart", "askReady"}
    BY HandleRestartPlaces DEF HandleRestart, loopUnchanged, Handled
  <1>2. /\ inbox[s] # <<>> /\ peer[s].step = "loop"
        /\ Take(s, {"transport_restart", "transport_ready"})
        /\ Announces(Head(inbox[s]))
    BY DEF HandleRestart, Take, Announces
  <1>3. \A f \in {"current", "closed", "ctx", "pending", "call"} :
           peer'[s][f] = peer[s][f]
    BY <1>0 DEF HandleRestart, PeerType
  <1>4. inbox' = [inbox EXCEPT ![s] = Tail(@)]
    BY <1>1 DEF HandleRestart, Taken
  <1>5. Loses(s)
    BY <1>0, <1>2, <1>4, LosesFacts
  <1>6. CalmInv'
    <2>1. \A t \in Sides : CalmSide(t)'
      BY <1>1, <1>2, <1>3, LoopCalm DEF Smooth
    <2> QED
      BY <1>5, <2>1, CalmAfter DEF Smooth
  <1>7. LocalInv'
    <2>1. \A j \in Kinds : Describing(j)' => Describing(j)
      BY <1>1, <1>5, DescribingKept DEF Elsewhere
    <2> QED
      BY <1>1, <2>1 DEF LocalInv, Describing, Smooth
  <1>8. OnceInv'
    <2>1. Head(inbox[s]) = inbox[s][1] /\ 1 \in 1 .. Len(inbox[s])
      BY <1>2, TypesParts, TakeFacts
    <2>2. ~Changed(s) /\ \A i \in 1 .. Len(inbox[s]) : Announces(inbox[s][i]) => i = 1
      BY <1>2, <2>1 DEF Smooth, OnceInv
    <2>3. \A i \in 1 .. Len(inbox'[s]) : ~Announces(inbox'[s][i])
      BY <1>0, <1>5, <2>2 DEF Loses
    <2>4. \A t \in Sides : Changed(t)' <=> Changed(t)
      BY <1>1 DEF Changed
    <2>5. \A t \in Sides \ {s} : inbox'[t] = inbox[t] /\ (Asking(t)' <=> Asking(t))
      BY <1>1, <1>5 DEF Loses, Elsewhere, Asking
    <2>6. \A t \in Sides :
             /\ Asking(t)' => ~Changed(t)'
             /\ \A i \in 1 .. Len(inbox'[t]) :
                   Announces(inbox'[t][i]) =>
                      /\ ~Changed(t)' /\ ~Asking(t)'
                      /\ \A j \in 1 .. Len(inbox'[t]) : Announces(inbox'[t][j]) => i = j
      BY <2>2, <2>3, <2>4, <2>5 DEF Smooth, OnceInv
    <2> QED
      BY <2>6 DEF OnceInv, Announces
  <1>9. \A j \in Kinds : Head(inbox[s]) # Candidate(j)
    BY <1>2 DEF Candidate, Announces
  <1>10. \A t \in Sides, j \in Kinds : Told(t, j) => Told(t, j)'
    BY <1>2, <1>4, <1>9, ToldTaken
  <1>11. KeptInv => KeptInv'
    BY <1>1, <1>3, <1>10, MoveKept DEF Elsewhere
  <1> QED
    BY <1>6, <1>7, <1>8, <1>11 DEF Smooth

(* The responder changes once, before the initiator knows of its relay. *)
LEMMA RestartReach ==
    ASSUME Types, HandoverInv, Smooth, NEW s \in Sides, Restart(s), ~faulty, ~faulty'
    PROVE  Smooth' /\ KeptInv'
  <1> USE TwoSides
  <1> DEFINE p == ReplaceConnection(peer[s], "relay")
             m == [type |-> "transport_ready"]
             I == "initiator"
  <1>0. peer \in [Sides -> PeerType] /\ peer[s] \in PeerType
        /\ conn \in [Sides -> [Kinds -> ConnType]]
        /\ inbox \in [Sides -> Seq(Signal)] /\ I \in Sides
    BY TypesParts DEF PeerOK, ConnOK, InboxType
  <1>1. s = "responder" /\ peer[s].step = "askRestart" /\ UNCHANGED <<announced, sock>>
    BY RestartPlaces DEF Restart, loopUnchanged
  <1>2. ~Changed(s) /\ \A i \in 1 .. Len(inbox[s]) : ~Announces(inbox[s][i])
    BY <1>1 DEF Smooth, OnceInv, Asking
  <1>3. /\ ~Changed(I) /\ ~Asking(I)
        /\ \A i \in 1 .. Len(inbox[I]) : ~Announces(inbox[I][i])
    <2>1. ~Changed(I) /\ ~Asking(I)
      BY <1>1, <1>2 DEF HandoverInv, OrderInv, Asking, Types, RoleInv
    <2>2. \A i \in 1 .. Len(inbox[I]) : ~Announces(inbox[I][i])
      BY <1>1, <1>2 DEF HandoverInv, QueueInv, Fits, Announces, Types, RoleInv, ToInitiator
    <2> QED
      BY <2>1, <2>2
  <1>4. peer[s].current = "direct" /\ sock[s] = "open"
    BY <1>1, <1>2, LoopHasCurrent DEF Smooth, HandoverInv, CurrentInv
  <1>5. ~peer[s].ctx
    BY DEF Smooth, CalmInv, CalmSide
  <1>6. /\ conn' = [conn EXCEPT ![s] = Installed(s, "relay")]
        /\ peer' = [peer EXCEPT ![s] = [p EXCEPT !.step = "loop"]]
        /\ SendSignal(s, m)
    BY <1>4, <1>5 DEF Restart, NoServers, Fault
  <1>7. p \in PeerType /\ p.current = "relay"
        /\ \A f \in {"closed", "ctx", "call"} : p[f] = peer[s][f]
    BY <1>0, ReplaceFields
  <1> HIDE DEF p
  <1>8. [p EXCEPT !.step = "loop"].step = "loop"
        /\ \A f \in {"closed", "ctx", "call", "current"} : [p EXCEPT !.step = "loop"][f] = p[f]
    BY <1>7 DEF PeerType
  <1>9. /\ Elsewhere(s) /\ conn'[s] = Installed(s, "relay")
        /\ peer'[s].step = "loop" /\ peer'[s].current = "relay"
        /\ \A f \in {"closed", "ctx", "call"} : peer'[s][f] = peer[s][f]
    BY <1>0, <1>6, <1>7, <1>8 DEF Elsewhere
  <1>10. Gains(I, m) /\ m.type = "transport_ready"
    <2>1. Deliver(I, m)
      BY <1>1, <1>4, <1>6 DEF SendSignal
    <2> QED
      BY <1>0, <2>1, GainsFacts
  <1> HIDE DEF m
  <1>11. /\ conn'[s]["relay"].state = "live" /\ ~conn'[s]["relay"].local
         /\ conn'[s]["relay"].candidate = "none"
         /\ conn'[s]["direct"].state = "closed" /\ ~conn'[s]["direct"].local
         /\ conn'[I] = conn[I]
    BY <1>1, <1>4, <1>9, InstalledFields DEF Elsewhere
  <1>12. \A t \in Sides, j \in Kinds : conn[t][j].local => j = "direct"
    BY <1>2 DEF Smooth, LocalInv, Changed
  <1>13. CalmInv'
    <2>1. \A t \in Sides : CalmSide(t)'
      BY <1>1, <1>9, <1>11, LoopCalm DEF Smooth
    <2> QED
      BY <1>0, <1>10, <2>1, CalmAfter DEF Smooth, Refusals
  <1>14. LocalInv'
    <2>1. \A j \in Kinds : Describing(j)' => Describing(j)
      BY <1>0, <1>9, <1>10, DescribingKept DEF Elsewhere
    <2>2. \A j \in Kinds : Describing(j)' => conn'[I][j].local
      BY <1>11, <2>1 DEF Smooth, LocalInv
    <2>3. \A t \in Sides, j \in Kinds :
             /\ conn'[t][j].local => announced' /\ \A r \in Sides : conn'[r][j].state # "none"
             /\ conn'[t][j].state = "live" /\ conn'[t][j].candidate # "none"
                   => conn'[t][j].local
      BY <1>1, <1>11 DEF Smooth, LocalInv
    <2> QED
      BY <2>2, <2>3 DEF LocalInv, Describing
  <1>15. OnceInv'
    <2>1. ~Changed(I)' /\ ~Asking(I)' /\ ~Asking(s)'
      BY <1>1, <1>3, <1>9, <1>11 DEF Changed, Asking, Elsewhere
    <2> QED
      BY <1>0, <1>1, <1>2, <1>3, <1>10, <2>1, OnceTold DEF Smooth
  <1>16. \A t \in Sides, j \in Kinds : ~Waits(t, j)'
    BY <1>1, <1>11, <1>12 DEF Waits, Smooth, LocalInv
  <1> QED
    BY <1>13, <1>14, <1>15, <1>16 DEF Smooth, KeptInv, Waits

(* The initiator changes once, before any side describes the relay. *)
LEMMA ReadyReach ==
    ASSUME Types, HandoverInv, Smooth, NEW s \in Sides, Ready(s), ~faulty, ~faulty'
    PROVE  Smooth' /\ KeptInv'
  <1> USE TwoSides
  <1> DEFINE p == ReplaceConnection(peer[s], "relay")
             R == "responder"
  <1>0. peer \in [Sides -> PeerType] /\ peer[s] \in PeerType
        /\ conn \in [Sides -> [Kinds -> ConnType]] /\ R \in Sides
    BY TypesParts DEF PeerOK, ConnOK
  <1>1. s = "initiator" /\ peer[s].step = "askReady"
        /\ UNCHANGED <<inbox, announced, sock>>
    BY ReadyPlaces DEF Ready, loopUnchanged
  <1>2. ~Changed(s) /\ \A i \in 1 .. Len(inbox[s]) : ~Announces(inbox[s][i])
    BY <1>1 DEF Smooth, OnceInv, Asking
  <1>3. Changed(R)
    BY <1>1 DEF HandoverInv, OrderInv
  <1>4. peer[s].current = "direct"
    BY <1>1, <1>2, LoopHasCurrent DEF Smooth, HandoverInv, CurrentInv
  <1>5. ~peer[s].ctx
    BY DEF Smooth, CalmInv, CalmSide
  <1>6. /\ conn' = [conn EXCEPT ![s] = Installed(s, "relay")]
        /\ peer' = [peer EXCEPT ![s] = [p EXCEPT !.step = "makeOffer"]]
    BY <1>5 DEF Ready, NoServers, Fault
  <1>7. p \in PeerType /\ p.current = "relay"
        /\ \A f \in {"closed", "ctx", "call"} : p[f] = peer[s][f]
    BY <1>0, ReplaceFields
  <1> HIDE DEF p
  <1>8. [p EXCEPT !.step = "makeOffer"].step = "makeOffer"
        /\ \A f \in {"closed", "ctx", "call", "current"} :
              [p EXCEPT !.step = "makeOffer"][f] = p[f]
    BY <1>7 DEF PeerType
  <1>9. /\ Elsewhere(s) /\ conn'[s] = Installed(s, "relay")
        /\ peer'[s].step = "makeOffer" /\ peer'[s].current = "relay"
        /\ \A f \in {"closed", "ctx", "call"} : peer'[s][f] = peer[s][f]
    BY <1>0, <1>6, <1>7, <1>8 DEF Elsewhere
  <1>11. /\ conn'[s]["relay"].state = "live" /\ ~conn'[s]["relay"].local
         /\ conn'[s]["relay"].candidate = "none"
         /\ conn'[s]["direct"].state = "closed" /\ ~conn'[s]["direct"].local
         /\ conn'[R] = conn[R]
    BY <1>1, <1>4, <1>9, InstalledFields DEF Elsewhere
  <1>12. \A t \in Sides, j \in Kinds : conn[t][j].local => j = "direct"
    BY <1>2 DEF Smooth, LocalInv, Changed
  <1>13. CalmInv'
    <2>1. \A t \in Sides : CalmSide(t)'
      BY <1>1, <1>9, <1>11, LoopCalm DEF Smooth
    <2> QED
      BY <1>1, <2>1, CalmAfter DEF Smooth
  <1>14. LocalInv'
    <2>1. \A j \in Kinds : Describing(j)' => Describing(j)
      BY <1>1, <1>9, DescribingKept DEF Elsewhere
    <2>2. ~Describing("relay")
      BY <1>12 DEF Smooth, LocalInv
    <2>3. ~Describing("direct")
      <3>1. \A t \in Sides : \A i \in 1 .. Len(inbox[t]) : ~Describes(inbox[t][i], "direct")
        BY <1>1, <1>3 DEF HandoverInv, QueueInv, Fits
      <3>2. \A t \in Sides : ~(/\ peer[t].step \in {"sendOffer", "sendAnswer"}
                              /\ peer[t].pc = "direct")
        BY <1>1, <1>3 DEF HandoverInv, OrderInv, Types, RoleInv
      <3> QED
        BY <3>1, <3>2 DEF Describing
    <2>4. \A t \in Sides, j \in Kinds :
             /\ conn'[t][j].local => announced' /\ \A r \in Sides : conn'[r][j].state # "none"
             /\ conn'[t][j].state = "live" /\ conn'[t][j].candidate # "none"
                   => conn'[t][j].local
      BY <1>1, <1>11 DEF Smooth, LocalInv
    <2> QED
      BY <2>1, <2>2, <2>3, <2>4 DEF LocalInv, Describing
  <1>15. OnceInv'
    <2>1. ~Asking(s)' /\ (Changed(R)' <=> Changed(R)) /\ (Asking(R)' <=> Asking(R))
      BY <1>1, <1>9, <1>11 DEF Changed, Asking, Elsewhere
    <2>2. \A t \in Sides : Asking(t)' => ~Changed(t)'
      BY <1>1, <2>1 DEF Smooth, OnceInv
    <2>3. \A t \in Sides : \A i \in 1 .. Len(inbox'[t]) :
             Announces(inbox'[t][i]) =>
                /\ ~Changed(t)' /\ ~Asking(t)'
                /\ \A j \in 1 .. Len(inbox'[t]) : Announces(inbox'[t][j]) => i = j
      BY <1>1, <1>2, <2>1 DEF Smooth, OnceInv
    <2> QED
      BY <2>2, <2>3 DEF OnceInv, Announces
  <1>16. \A t \in Sides, j \in Kinds : ~Waits(t, j)'
    BY <1>1, <1>11, <1>12 DEF Waits, Smooth, LocalInv
  <1> QED
    BY <1>13, <1>14, <1>15, <1>16 DEF Smooth, KeptInv, Waits

(* No fault has happened before a state without one, no signal was lost before. *)
LEMMA FaultsStay ==
    ASSUME Types, [Next]_vars
    PROVE  (faulty => faulty') /\ (dropped => dropped')
  <1>0. faulty \in BOOLEAN /\ dropped \in BOOLEAN
    BY TypesParts DEF RestOK
  <1>1. \A t, m : Deliver(t, m) => (dropped => dropped')
    BY <1>0 DEF Deliver
  <1>2. \A s, m : SendSignal(s, m) => (dropped => dropped')
    BY <1>1 DEF SendSignal
  <1>3. \A k : Fault(k) => faulty'
    BY DEF Fault
  <1> DEFINE Goal == (faulty => faulty') /\ (dropped => dropped')
  <1> SUFFICES Goal
    OBVIOUS
  <1>4. CASE UNCHANGED vars
    BY <1>4 DEF vars
  <1>5. ASSUME NEW s \in Sides, Call(s) \/ CtxDone(s)
        PROVE  Goal
    <2>1. UNCHANGED dropped
      BY <1>5 DEF Call, Connect, Dial, TakeResult, TakeError, CtxDone, signals
    <2>2. UNCHANGED faulty \/ \E k : Fault(k)
      BY <1>5 DEF Call, Connect, Dial, TakeResult, TakeError, CtxDone
    <2> QED
      BY <1>3, <2>1, <2>2
  <1>6. ASSUME NEW s \in Sides, Close(s) \/ SocketLost(s) \/ ServerError(s)
        PROVE  Goal
    <2>1. UNCHANGED dropped \/ \E t, m : Deliver(t, m)
      BY <1>6 DEF Close, SocketLost, ServerError, PeerLeft, signals
    <2>2. \E k : Fault(k)
      BY <1>6 DEF Close, SocketLost, ServerError
    <2> QED
      BY <1>1, <1>3, <2>1, <2>2
  <1>7. ASSUME NEW s \in Sides,
               \/ LoopEnds(s) \/ HandlePeerJoined(s) \/ HandleOffer(s) \/ HandleAnswer(s)
               \/ HandleCandidate(s) \/ HandleRestart(s) \/ HandleRefusal(s)
        PROVE  Goal
    BY <1>7 DEF LoopEnds, HandlePeerJoined, HandleOffer, HandleAnswer, HandleCandidate,
       HandleRestart, HandleRefusal
  <1>8. ASSUME NEW s \in Sides, MakeOffer(s) \/ SendDescription(s) \/ Restart(s) \/ Ready(s)
        PROVE  Goal
    <2>1. UNCHANGED dropped \/ \E m : SendSignal(s, m)
      BY <1>8 DEF MakeOffer, SendDescription, Restart, Ready, signals
    <2>2. UNCHANGED faulty \/ \E k : Fault(k)
      BY <1>8 DEF MakeOffer, SendDescription, Restart, Ready, NoServers
    <2> QED
      BY <1>2, <1>3, <2>1, <2>2
  <1>9. ASSUME NEW s \in Sides, NEW k \in Kinds,
               Callbacks(s, k) \/ OnConnectionFailed(s, k) \/ OnChannelError(s, k)
        PROVE  Goal
    <2>1. UNCHANGED dropped \/ \E m : SendSignal(s, m)
      BY <1>9 DEF Callbacks, OnICECandidate, SendCandidate, OnOpen, PublishResult,
         OnConnectionFailed, OnChannelError, signals
    <2>2. UNCHANGED faulty \/ \E j : Fault(j)
      BY <1>9 DEF Callbacks, OnICECandidate, SendCandidate, OnOpen, PublishResult,
         OnConnectionFailed, OnChannelError
    <2> QED
      BY <1>2, <1>3, <2>1, <2>2
  <1>10. CASE \/ NegotiationStarted \/ DirectTimeout \/ BeginRelay \/ RelayTimeout
              \/ PeerJoined
    <2>1. UNCHANGED dropped \/ (\E m : SendSignal("initiator", m)) \/ \E t, m : Deliver(t, m)
      BY <1>10 DEF NegotiationStarted, DirectTimeout, BeginRelay, RelayTimeout, PeerJoined,
         signals
    <2>2. UNCHANGED faulty \/ \E j : Fault(j)
      BY <1>10 DEF NegotiationStarted, DirectTimeout, BeginRelay, RelayTimeout, PeerJoined
    <2> QED
      BY <1>1, <1>2, <1>3, <2>1, <2>2
  <1>11. ASSUME NEW s \in Sides, SignalLoop(s)
         PROVE  Goal
    BY <1>7, <1>8, <1>11 DEF SignalLoop
  <1>12. ASSUME NEW k \in Kinds, Link(k)
         PROVE  Goal
    BY <1>12 DEF Link, signals
  <1> HIDE DEF Goal
  <1> QED
    BY <1>4, <1>5, <1>6, <1>9, <1>10, <1>11, <1>12 DEF Next

(* Without a fault the loops find nothing that ends them. *)
LEMMA NothingEnds ==
    ASSUME Types, Smooth, NEW s \in Sides
    PROVE  ~LoopEnds(s) /\ ~HandleRefusal(s)
  <1>1. ~LoopEnds(s)
    BY DEF LoopEnds, Smooth, CalmInv, CalmSide
  <1>2. ASSUME HandleRefusal(s)
        PROVE  FALSE
    <2>1. Head(inbox[s]) = inbox[s][1] /\ 1 \in 1 .. Len(inbox[s])
          /\ Head(inbox[s]).type \in Refusals
      BY <1>2, TypesParts, TakeFacts DEF HandleRefusal, Refusals
    <2> QED
      BY <2>1 DEF Smooth, CalmInv
  <1> QED
    BY <1>1, <1>2

LEMMA ReachStep ==
    ASSUME Types, ConnectionInv, HandoverInv, ReachInv, [Next]_vars
    PROVE  ReachInv'
  <1> SUFFICES ASSUME ~faulty'
               PROVE  Smooth' /\ (~dropped' => KeptInv')
    BY DEF ReachInv
  <1>1. ~faulty /\ (dropped => dropped') /\ Smooth /\ (~dropped => KeptInv)
    BY FaultsStay DEF ReachInv
  <1> DEFINE Goal == Smooth' /\ (KeptInv /\ ~dropped' => KeptInv')
  <1> SUFFICES Goal
    BY <1>1
  <1>2. CASE UNCHANGED vars
    BY <1>1, <1>2 DEF vars, Smooth, CalmInv, CalmSide, LocalInv, Describing, Describes,
       OnceInv, Changed, Asking, Announces, Refusals, KeptInv, Waits, Told, Holds, Candidate
  <1>3. ASSUME NEW s \in Sides, Call(s)
        PROVE  Goal
    BY <1>1, <1>3, ConnectReach, DialReach, CallReach DEF Call
  <1>4. ASSUME NEW s \in Sides, SignalLoop(s)
        PROVE  Goal
    BY <1>1, <1>4, NothingEnds, HandlePeerJoinedReach, MakeOfferReach,
       SendDescriptionReach, HandleOfferReach, HandleAnswerReach, HandleCandidateReach,
       HandleRestartReach, RestartReach, ReadyReach
    DEF SignalLoop
  <1>5. ASSUME NEW s \in Sides, NEW k \in Kinds, Callbacks(s, k) \/ OnConnectionFailed(s, k)
        PROVE  Goal
    BY <1>1, <1>5, CallbackReach DEF Callbacks
  <1>6. ASSUME NEW k \in Kinds, Link(k)
        PROVE  Goal
    BY <1>1, <1>6, CallbackReach, TwoSides
  <1>7. CASE NegotiationStarted \/ DirectTimeout
    BY <1>1, <1>7, CallReach, TwoSides
  <1>8. CASE BeginRelay \/ PeerJoined
    BY <1>1, <1>8, BeginRelayReach, PeerJoinedReach
  <1>9. /\ ~RelayTimeout
        /\ \A s \in Sides : ~CtxDone(s) /\ ~Close(s) /\ ~SocketLost(s) /\ ~ServerError(s)
        /\ \A s \in Sides, k \in Kinds : ~OnChannelError(s, k)
    BY DEF RelayTimeout, CtxDone, Close, SocketLost, ServerError, OnChannelError, Fault
  <1> HIDE DEF Goal
  <1> QED
    BY <1>2, <1>3, <1>4, <1>5, <1>6, <1>7, <1>8, <1>9 DEF Next

LEMMA ReachInit ==
    ASSUME Init
    PROVE  ReachInv
  <1>1. \A s \in Sides : peer[s] = NewPeer /\ inbox[s] = <<>> /\ sock[s] = "none"
                         /\ \A k \in Kinds : conn[s][k] = NoConn
    BY DEF Init
  <1>2. ~announced
    BY DEF Init
  <1>3. CalmInv
    BY <1>1, <1>2 DEF CalmInv, CalmSide, NewPeer
  <1>4. LocalInv
    BY <1>1 DEF LocalInv, Describing, NewPeer, NoConn
  <1>5. OnceInv
    BY <1>1 DEF OnceInv, Asking, NewPeer
  <1>6. KeptInv
    BY <1>1 DEF KeptInv, Waits, NoConn
  <1> QED
    BY <1>3, <1>4, <1>5, <1>6 DEF ReachInv, Smooth

LEMMA ReachIsKept ==
    ASSUME ReachInv
    PROVE  CandidateReaches
  <1> SUFFICES ASSUME ~dropped, ~faulty, NEW s \in Sides, NEW k \in Kinds, Waits(s, k)
               PROVE  \/ InFlight(Other(s), k)
                      \/ /\ peer[Other(s)].current = k
                         /\ k \in peer[Other(s)].pending \cup conn[Other(s)][k].added
    BY DEF CandidateReaches, Waits
  <1>1. Told(Other(s), k) \/ Holds(Other(s), k)
    BY DEF ReachInv, KeptInv
  <1>2. Told(Other(s), k) => InFlight(Other(s), k)
    BY DEF Told, InFlight
  <1> QED
    BY <1>1, <1>2 DEF Holds

(***************************************************************************)
(* As long as no call has failed and no signal was dropped for a full      *)
(* inbox, the candidate of a live connection is never lost: it is on its   *)
(* way, set aside by handleSignal until the description comes, or added by *)
(* flushCandidates at the other side, however the exchange of candidates   *)
(* and the replacement of the direct connection by the relay               *)
(* (replaceConnection) fall together.                                      *)
(***************************************************************************)
THEOREM CandidatesReach == Spec => []CandidateReaches
  <1>1. Init => Types /\ ConnectionInv /\ HandoverInv /\ ReachInv
    BY TypesInit, ConnectionInit, HandoverInit, ReachInit
  <1>2. Types /\ ConnectionInv /\ HandoverInv /\ ReachInv /\ [Next]_vars
        => Types' /\ ConnectionInv' /\ HandoverInv' /\ ReachInv'
    BY TypesStep, ConnectionStep, HandoverStep, ReachStep
  <1>3. ReachInv => CandidateReaches
    BY ReachIsKept
  <1> QED
    BY <1>1, <1>2, <1>3, PTL DEF Spec
=============================================================================
