-------------------------------- MODULE Peer --------------------------------
(***************************************************************************)
(* Peer.Connect at both ends of a session: the direct connection, the      *)
(* handover to a relayed one, and the signalling WebSockets between them.  *)
(* At each end run the caller of Connect, signalLoop, the readLoop of the  *)
(* WebSocket and the callbacks of every peer connection; they share the    *)
(* fields of Peer under its mutex.                                         *)
(*                                                                         *)
(* relayStarted lets the initiator ask for a relay once, so each end makes *)
(* at most one connection of each kind and a connection is its kind.  One  *)
(* ICE candidate stands for all that a connection gathers.                 *)
(*                                                                         *)
(* The server and readLoop pass a signal on at once, into the inbox of the *)
(* other side: a slow network shows as a signalLoop that comes late.       *)
(***************************************************************************)
EXTENDS Naturals, Sequences, FiniteSets

CONSTANTS
    QueueSize,  \* capacity of Signaling.messages
    Sessions    \* AllowRelay of the initiator, the kinds ICE can connect, and the
                \* bound: the kinds of faults of which one may happen

FaultKinds == {"ice", "setup", "dial", "socket", "server", "ctx", "slow", "lost",
               "close"}

ASSUME PeerAssumption ==
    /\ QueueSize \in Nat \ {0}
    /\ Sessions \subseteq [allowRelay : BOOLEAN, works : SUBSET {"direct", "relay"},
                           faults : SUBSET FaultKinds]

Sides == {"initiator", "responder"}

Other(s) == IF s = "initiator" THEN "responder" ELSE "initiator"

Kinds == {"direct", "relay"}

VARIABLES
    options,    \* the session
    peer,       \* the Peer of each side and where its goroutines are
    conn,       \* the peer connections of each side
    linked,     \* kinds whose two connections have found each other
    relaying,   \* who runs beginRelay; "no" until relayStarted
    sock,       \* the signalling WebSocket of each side
    inbox,      \* Signaling.messages of each side
    announced,  \* the server has seen both peers
    dropped,    \* history: a signal found the inbox full
    faulty      \* the fault of the session has happened

vars == <<options, peer, conn, linked, relaying, sock, inbox, announced,
          dropped, faulty>>

-----------------------------------------------------------------------------
Signal == [type : {"peer_joined", "transport_restart", "transport_ready",
                   "transport_unavailable", "peer_left", "error"}]
          \cup [type : {"offer", "answer", "ice_candidate"}, of : Kinds]

(* Peer: its fields, where Connect is and where signalLoop is. *)
NewPeer == [current |-> "none", transport |-> "none", pending |-> {},
            closed |-> FALSE, ctx |-> FALSE, result |-> "none", error |-> "none",
            began |-> FALSE, call |-> "idle", returned |-> "none",
            step |-> "off", pc |-> "none"]

NoConn == [state |-> "none", local |-> FALSE, remote |-> "none", added |-> {},
           candidate |-> "none", channel |-> "none"]

MaybeKind == Kinds \cup {"none"}

(***************************************************************************)
(* The fields have their types, the inbox its capacity, and only the       *)
(* initiator is ever told to offer.                                        *)
(***************************************************************************)
TypeOK ==
    /\ options \in Sessions
    /\ peer \in [Sides ->
           [current : MaybeKind, transport : MaybeKind, pending : SUBSET Kinds,
            closed : BOOLEAN, ctx : BOOLEAN, result : MaybeKind \cup {"taken"},
            error : {"none", "set", "taken"}, began : BOOLEAN,
            call : {"idle", "dial", "start", "direct", "ask", "wait", "returned"},
            returned : MaybeKind \cup {"error"},
            step : {"off", "loop", "makeOffer", "sendOffer", "sendAnswer",
                    "askRestart", "askReady", "ended"},
            pc : MaybeKind]]
    /\ conn \in [Sides -> [Kinds ->
           [state : {"none", "live", "closed"}, local : BOOLEAN, remote : MaybeKind,
            added : SUBSET Kinds, candidate : {"none", "active", "done"},
            channel : {"none", "open", "current", "done"}]]]
    /\ linked \subseteq Kinds
    /\ relaying \in {"no", "connect", "callback", "done"}
    /\ sock \in [Sides -> {"none", "open", "down"}]
    /\ inbox \in [Sides -> Seq(Signal)]
    /\ \A s \in Sides : Len(inbox[s]) <= QueueSize
    /\ {announced, dropped, faulty} \subseteq BOOLEAN
    /\ ~peer["responder"].began

Init ==
    /\ options \in Sessions
    /\ peer = [s \in Sides |-> NewPeer]
    /\ conn = [s \in Sides |-> [k \in Kinds |-> NoConn]]
    /\ linked = {} /\ relaying = "no"
    /\ sock = [s \in Sides |-> "none"]
    /\ inbox = [s \in Sides |-> <<>>]
    /\ announced = FALSE /\ dropped = FALSE /\ faulty = FALSE

Fault(k) ==
    /\ k \in options.faults /\ ~faulty
    /\ faulty' = TRUE

-----------------------------------------------------------------------------
(* fail keeps the first error, which only Connect reads. *)
Fail(p) == [p EXCEPT !.error = IF @ = "none" /\ p.call # "returned" THEN "set" ELSE @]

(* signalLoop ends with an error. *)
LoopFailed(p) == [Fail(p) EXCEPT !.step = "ended", !.pc = "none"]

(* Connect returns. *)
Returned(p, r) == [p EXCEPT !.call = "returned", !.returned = r]

(* Mutant: off by one. *)
RoomBeyond(queue) == Len(queue) <= QueueSize

HasRoom(queue) == Len(queue) < QueueSize

(* readLoop of side t receives signal m, and drops it if it does not fit. *)
Deliver(t, m) ==
    LET read == sock[t] = "open" /\ peer[t].step # "ended"
    IN  /\ inbox' = IF read /\ HasRoom(inbox[t])
                    THEN [inbox EXCEPT ![t] = Append(@, m)] ELSE inbox
        /\ dropped' = (dropped \/ (read /\ ~HasRoom(inbox[t])))

(* signaling.Send; the server forwards the signal to the other side. *)
SendSignal(s, m) ==
    IF sock[s] = "open" THEN Deliver(Other(s), m)
                        ELSE UNCHANGED <<inbox, dropped>>

(* Mutant: the connection that is replaced is left to itself. *)
LeavePrevious(c) == c

(* A closed connection keeps nothing but the callbacks that are under way. *)
ClosePrevious(c) ==
    [NoConn EXCEPT !.state = "closed", !.candidate = c.candidate, !.channel = c.channel]

(* replaceConnection, as far as the connections of side s are concerned. *)
Installed(s, k) ==
    [j \in Kinds |-> IF j = k THEN [NoConn EXCEPT !.state = "live"]
                     ELSE IF j = peer[s].current THEN ClosePrevious(conn[s][j])
                     ELSE conn[s][j]]

(* The data channel of the new connection cannot be created. *)
Unfinished(s, k) == [Installed(s, k) EXCEPT ![k].state = "closed"]

(* Mutant: the responder says that it is ready but keeps its connection. *)
KeepCurrent(p, k) == IF k = "direct" \/ p.began THEN [p EXCEPT !.current = k] ELSE p

(* replaceConnection, as far as the fields of Peer are concerned. *)
ReplaceConnection(p, k) ==
    [p EXCEPT !.current = k, !.transport = "none", !.pending = {}]

-----------------------------------------------------------------------------
(* Connect *)

callUnchanged == <<options, linked, announced>>

(* An action that sends nothing and handles nothing. *)
signals == <<inbox, dropped>>

(* Ask for the ICE servers and make the direct connection. *)
Connect(s) ==
    /\ peer[s].call = "idle"
    /\ \/ /\ peer' = [peer EXCEPT ![s] = [ReplaceConnection(@, "direct")
                                             EXCEPT !.call = "dial"]]
          /\ conn' = [conn EXCEPT ![s] = Installed(s, "direct")]
          /\ UNCHANGED faulty
       \/ /\ Fault("ice") \/ Fault("setup")
          /\ peer' = [peer EXCEPT ![s] = Returned(@, "error")]
          /\ UNCHANGED conn
       \/ /\ s = "initiator" /\ Fault("setup")
          /\ peer' = [peer EXCEPT ![s] = Returned(ReplaceConnection(@, "direct"),
                                                 "error")]
          /\ conn' = [conn EXCEPT ![s] = Unfinished(s, "direct")]
    /\ UNCHANGED <<callUnchanged, relaying, sock, signals>>

(* The server tells a peer that the other one has gone. *)
PeerLeft(s) == Deliver(Other(s), [type |-> "peer_left"])

(***************************************************************************)
(* Peer.Close, but for closing the WebSocket.  It closes what it finds; a  *)
(* handler that is under way may still install a connection.               *)
(***************************************************************************)
ClosedPeer(p) ==
    IF p.closed THEN p
    ELSE [p EXCEPT !.closed = TRUE, !.current = "none", !.transport = "none"]

ClosedConn(s) ==
    [k \in Kinds |-> IF k = peer[s].current /\ ~peer[s].closed
                     THEN ClosePrevious(conn[s][k])
                     ELSE conn[s][k]]

(* signaling.Dial, and the two goroutines that depend on it. *)
Dial(s) ==
    /\ peer[s].call = "dial"
    /\ \/ /\ sock' = [sock EXCEPT ![s] = "open"]
          /\ peer' = [peer EXCEPT
                ![s].call = IF s = "initiator" THEN "start" ELSE "wait",
                ![s].step = "loop"]
          /\ UNCHANGED <<conn, faulty>>
       \/ /\ Fault("dial")
          /\ peer' = [peer EXCEPT ![s] = Returned(ClosedPeer(@), "error")]
          /\ conn' = [conn EXCEPT ![s] = ClosedConn(s)]
          /\ UNCHANGED sock
    /\ UNCHANGED <<callUnchanged, relaying, signals>>

(* The waits of Connect, and what ends all of them. *)
Waiting(s) == peer[s].call \in {"start", "direct", "wait"}

TakeResult(s) ==
    /\ Waiting(s) /\ peer[s].result \in Kinds
    /\ peer' = [peer EXCEPT
          ![s] = [Returned(@, peer[s].result) EXCEPT !.result = "taken"]]
    /\ UNCHANGED <<callUnchanged, conn, relaying, sock, signals, faulty>>

TakeError(s) ==
    /\ Waiting(s)
    /\ \/ /\ peer[s].error = "set" /\ UNCHANGED faulty
          /\ peer' = [peer EXCEPT ![s] = [Returned(@, "error") EXCEPT !.error = "taken"]]
       \/ /\ peer[s].ctx
          /\ peer' = [peer EXCEPT ![s] = Returned(@, "error")]
    /\ UNCHANGED <<callUnchanged, conn, relaying, sock, signals, faulty>>

(* The context given to Connect ends, during the call or after it. *)
CtxDone(s) ==
    /\ Fault("ctx") /\ peer[s].call \notin {"idle", "dial"}
    /\ peer' = [peer EXCEPT ![s].ctx = TRUE]
    /\ UNCHANGED <<callUnchanged, conn, relaying, sock, signals>>

NegotiationStarted ==
    /\ peer["initiator"].call = "start" /\ peer["initiator"].began
    /\ peer' = [peer EXCEPT !["initiator"].call = "direct"]
    /\ UNCHANGED <<callUnchanged, conn, relaying, sock, signals, faulty>>

MayBeginRelay == relaying = "no" /\ ~peer["initiator"].closed

(***************************************************************************)
(* The timer of the direct attempt: fall back to the relay, or give up.    *)
(* Its default is 18 seconds, longer than sending the first offer may take *)
(* (a signal has a write deadline of 10 seconds).                          *)
(***************************************************************************)
DirectTimeout ==
    /\ peer["initiator"].call = "direct"
    /\ peer["initiator"].step \notin {"makeOffer", "sendOffer"}
    /\ IF options.allowRelay
       THEN /\ relaying' = IF MayBeginRelay THEN "connect" ELSE relaying
            /\ peer' = [peer EXCEPT !["initiator"].call =
                            IF MayBeginRelay THEN "ask" ELSE "wait"]
       ELSE /\ peer' = [peer EXCEPT !["initiator"] = Returned(@, "error")]
            /\ UNCHANGED relaying
    /\ UNCHANGED <<callUnchanged, conn, sock, signals, faulty>>

(* beginRelay: make sure there is a relay, then ask the responder to change. *)
BeginRelay ==
    /\ relaying \in {"connect", "callback"}
    /\ relaying' = "done"
    /\ LET p == [peer["initiator"] EXCEPT
                    !.call = IF relaying = "connect" THEN "wait" ELSE @]
       IN  \/ /\ sock["initiator"] = "open"
              /\ SendSignal("initiator", [type |-> "transport_restart"])
              /\ peer' = [peer EXCEPT !["initiator"] = p]
              /\ UNCHANGED faulty
           \/ /\ \/ sock["initiator"] # "open" /\ UNCHANGED faulty
                 \/ Fault("ice")
              /\ peer' = [peer EXCEPT !["initiator"] = Fail(p)]
              /\ UNCHANGED signals
    /\ UNCHANGED <<callUnchanged, conn, sock>>

(* The relay is not there within 30 seconds. *)
RelayTimeout ==
    /\ Fault("slow")
    /\ peer["initiator"].call = "wait"
    /\ peer' = [peer EXCEPT !["initiator"] = Returned(@, "error")]
    /\ UNCHANGED <<callUnchanged, conn, relaying, sock, signals>>

(* The application closes its Peer. *)
Close(s) ==
    /\ Fault("close") /\ ~peer[s].closed
    /\ peer' = [peer EXCEPT ![s] = ClosedPeer(@)]
    /\ conn' = [conn EXCEPT ![s] = ClosedConn(s)]
    /\ IF sock[s] = "open"
       THEN sock' = [sock EXCEPT ![s] = "down"] /\ PeerLeft(s)
       ELSE UNCHANGED <<sock, signals>>
    /\ UNCHANGED <<callUnchanged, relaying>>

-----------------------------------------------------------------------------
(* The WebSocket *)

netUnchanged == <<options, conn, linked, relaying>>

(* The session is complete: the server tells the initiator. *)
PeerJoined ==
    /\ ~announced /\ \A s \in Sides : sock[s] = "open"
    /\ announced' = TRUE
    /\ Deliver("initiator", [type |-> "peer_joined"])
    /\ UNCHANGED <<netUnchanged, peer, sock, faulty>>

SocketLost(s) ==
    /\ Fault("socket") /\ sock[s] = "open"
    /\ sock' = [sock EXCEPT ![s] = "down"]
    /\ PeerLeft(s)
    /\ UNCHANGED <<netUnchanged, peer, announced>>

(* The server refuses, or a browser says that its direct attempt failed. *)
ServerError(s) ==
    /\ Fault("server") /\ sock[s] = "open"
    /\ Deliver(s, [type |-> "error"])
    /\ UNCHANGED <<netUnchanged, peer, sock, announced>>

-----------------------------------------------------------------------------
(* signalLoop and handleSignal *)

loopUnchanged == <<options, linked, relaying, sock, announced>>

(* The loop is at its select and takes a signal of one of the types. *)
Take(s, types) ==
    /\ peer[s].step = "loop" /\ inbox[s] # <<>>
    /\ Head(inbox[s]).type \in types

(* What is left once it has been handled; nobody reads on after the loop. *)
Taken(s) ==
    inbox' = [inbox EXCEPT ![s] = IF peer'[s].step = "ended" THEN <<>> ELSE Tail(@)]

(***************************************************************************)
(* The read loop has ended: it leaves an error behind and closes messages. *)
(* When both are ready the select takes either; only the error is passed   *)
(* on to Connect.  The end of the context also ends the loop.              *)
(***************************************************************************)
LoopEnds(s) ==
    /\ peer[s].step = "loop"
    /\ \/ sock[s] = "down" /\ peer' = [peer EXCEPT ![s] = LoopFailed(@)]
       \/ /\ peer[s].ctx \/ (sock[s] = "down" /\ inbox[s] = <<>>)
          /\ peer' = [peer EXCEPT ![s].step = "ended"]
    /\ inbox' = [inbox EXCEPT ![s] = <<>>]
    /\ UNCHANGED <<loopUnchanged, conn, dropped, faulty>>

HandlePeerJoined(s) ==
    /\ Take(s, {"peer_joined"})
    /\ peer' = [peer EXCEPT ![s].began = TRUE, ![s].step = "makeOffer"]
    /\ Taken(s)
    /\ UNCHANGED <<loopUnchanged, conn, dropped, faulty>>

(* sendOffer: describe the connection, which also starts gathering, ... *)
MakeOffer(s) ==
    LET k == peer[s].current IN
    /\ peer[s].step = "makeOffer"
    /\ IF k = "none"
       THEN peer' = [peer EXCEPT ![s] = LoopFailed(@)] /\ UNCHANGED conn
       ELSE /\ conn' = [conn EXCEPT ![s][k].local = TRUE]
            /\ peer' = [peer EXCEPT ![s].step = "sendOffer", ![s].pc = k]
    /\ UNCHANGED <<loopUnchanged, signals, faulty>>

(* ... and send the description, as an offer or as an answer. *)
SendDescription(s) ==
    /\ peer[s].step \in {"sendOffer", "sendAnswer"}
    /\ IF sock[s] = "open"
       THEN /\ SendSignal(s, [type |-> IF peer[s].step = "sendOffer" THEN "offer"
                                                                     ELSE "answer",
                              of |-> peer[s].pc])
            /\ peer' = [peer EXCEPT ![s].step = "loop", ![s].pc = "none"]
       ELSE peer' = [peer EXCEPT ![s] = LoopFailed(@)] /\ UNCHANGED signals
    /\ UNCHANGED <<loopUnchanged, conn, faulty>>

(* Mutant: the candidates that were set aside are forgotten. *)
DescribedOnly(s, k, of) == [conn[s][k] EXCEPT !.remote = of]

(* SetRemoteDescription and flushCandidates on connection k of side s. *)
Described(s, k, of) ==
    [conn[s][k] EXCEPT !.remote = of, !.added = @ \cup peer[s].pending]

HandleOffer(s) ==
    LET k == peer[s].current IN
    /\ Take(s, {"offer"})
    /\ IF k = "none"
       THEN peer' = [peer EXCEPT ![s] = LoopFailed(@)] /\ UNCHANGED conn
       ELSE /\ conn' = [conn EXCEPT ![s][k] = [Described(s, k, Head(inbox[s]).of)
                                                  EXCEPT !.local = TRUE]]
            /\ peer' = [peer EXCEPT ![s].pending = {}, ![s].step = "sendAnswer",
                                    ![s].pc = k]
    /\ Taken(s)
    /\ UNCHANGED <<loopUnchanged, dropped, faulty>>

(* An answer is only accepted by a connection that has made an offer. *)
HandleAnswer(s) ==
    LET k == peer[s].current IN
    /\ Take(s, {"answer"})
    /\ IF k = "none" \/ (k # "none" /\ ~conn[s][k].local)
       THEN peer' = [peer EXCEPT ![s] = LoopFailed(@)] /\ UNCHANGED conn
       ELSE /\ conn' = [conn EXCEPT ![s][k] = Described(s, k, Head(inbox[s]).of)]
            /\ peer' = [peer EXCEPT ![s].pending = {}]
    /\ Taken(s)
    /\ UNCHANGED <<loopUnchanged, dropped, faulty>>

(* Mutant: a candidate without a description to go with is thrown away. *)
ForgetCandidate(p, of) == p

KeepCandidate(p, of) == [p EXCEPT !.pending = @ \cup {of}]

HandleCandidate(s) ==
    LET k == peer[s].current
        of == Head(inbox[s]).of
    IN  /\ Take(s, {"ice_candidate"})
        /\ \/ k = "none" /\ UNCHANGED <<peer, conn>>
           \/ /\ k # "none" /\ conn[s][k].remote = "none"
              /\ peer' = [peer EXCEPT ![s] = KeepCandidate(@, of)]
              /\ UNCHANGED conn
           \/ /\ k # "none" /\ conn[s][k].remote # "none"
              /\ conn' = [conn EXCEPT ![s][k].added = @ \cup {of}]
              /\ UNCHANGED peer
        /\ Taken(s)
        /\ UNCHANGED <<loopUnchanged, dropped, faulty>>

(* Both coordination messages first ask the service for relay servers. *)
HandleRestart(s) ==
    /\ Take(s, {"transport_restart", "transport_ready"})
    /\ peer' = [peer EXCEPT ![s].step =
            IF Head(inbox[s]).type = "transport_restart" THEN "askRestart"
                                                         ELSE "askReady"]
    /\ Taken(s)
    /\ UNCHANGED <<loopUnchanged, conn, dropped, faulty>>

(* The request for relay servers fails, or its context has ended. *)
NoServers(s) == Fault("ice") \/ (peer[s].ctx /\ UNCHANGED faulty)

(* The responder changes to the relay and says so. *)
Restart(s) ==
    /\ peer[s].step = "askRestart"
    /\ \/ /\ conn' = [conn EXCEPT ![s] = Installed(s, "relay")]
          /\ LET p == ReplaceConnection(peer[s], "relay")
             IN  peer' = [peer EXCEPT ![s] = IF sock[s] = "open"
                                             THEN [p EXCEPT !.step = "loop"]
                                             ELSE LoopFailed(p)]
          /\ SendSignal(s, [type |-> "transport_ready"])
          /\ UNCHANGED faulty
       \/ /\ NoServers(s)
          /\ SendSignal(s, [type |-> "transport_unavailable"])
          /\ peer' = [peer EXCEPT ![s].step = "loop"]
          /\ UNCHANGED conn
       \/ /\ Fault("setup")
          /\ peer' = [peer EXCEPT ![s] = LoopFailed(@)]
          /\ UNCHANGED <<conn, signals>>
    /\ UNCHANGED loopUnchanged

(* The initiator follows and offers the relayed connection. *)
Ready(s) ==
    /\ peer[s].step = "askReady"
    /\ \/ /\ conn' = [conn EXCEPT ![s] = Installed(s, "relay")]
          /\ peer' = [peer EXCEPT ![s] = [ReplaceConnection(@, "relay")
                                             EXCEPT !.step = "makeOffer"]]
          /\ UNCHANGED faulty
       \/ /\ NoServers(s) \/ Fault("setup")
          /\ peer' = [peer EXCEPT ![s] = LoopFailed(@)]
          /\ UNCHANGED conn
       \/ /\ Fault("setup")
          /\ peer' = [peer EXCEPT ![s] = LoopFailed(ReplaceConnection(@, "relay"))]
          /\ conn' = [conn EXCEPT ![s] = Unfinished(s, "relay")]
    /\ UNCHANGED <<loopUnchanged, signals>>

HandleRefusal(s) ==
    /\ Take(s, {"transport_unavailable", "peer_left", "error"})
    /\ peer' = [peer EXCEPT ![s] = LoopFailed(@)]
    /\ Taken(s)
    /\ UNCHANGED <<loopUnchanged, conn, dropped, faulty>>

-----------------------------------------------------------------------------
(* Callbacks of a peer connection *)

callbackUnchanged == <<options, sock, announced>>

(***************************************************************************)
(* OnICECandidate: looks under the mutex whether the connection is the     *)
(* current one and sends the candidate afterwards.                         *)
(***************************************************************************)
OnICECandidate(s, k) ==
    /\ conn[s][k].state = "live" /\ conn[s][k].local
    /\ conn[s][k].candidate = "none"
    /\ conn' = [conn EXCEPT ![s][k].candidate =
            IF peer[s].current = k /\ sock[s] = "open" THEN "active" ELSE "done"]
    /\ UNCHANGED <<callbackUnchanged, peer, linked, relaying, signals, faulty>>

SendCandidate(s, k) ==
    /\ conn[s][k].candidate = "active"
    /\ conn' = [conn EXCEPT ![s][k].candidate = "done"]
    /\ SendSignal(s, [type |-> "ice_candidate", of |-> k])
    /\ UNCHANGED <<callbackUnchanged, peer, linked, relaying, faulty>>

(***************************************************************************)
(* ICE finds a path once the ends have each other's descriptions and one   *)
(* of them a candidate of the other.  The data channel opens at both ends. *)
(***************************************************************************)
Reachable(k) ==
    /\ k \in options.works /\ k \notin linked
    /\ \A s \in Sides : conn[s][k].state = "live" /\ conn[s][k].remote = k
                        /\ conn[s][k].local

Link(k) ==
    /\ Reachable(k) /\ \E s \in Sides : k \in conn[s][k].added
    /\ linked' = linked \cup {k}
    /\ conn' = [s \in Sides |-> [conn[s] EXCEPT ![k].channel = "open"]]
    /\ UNCHANGED <<callbackUnchanged, peer, relaying, signals, faulty>>

(* Mutant: a callback of a connection that has been replaced is taken too. *)
AnyLive(s, k) == ~peer[s].closed

IsActive(s, k) == peer[s].current = k /\ ~peer[s].closed

(* OnOpen: the channel becomes the transport if its connection is current, *)
OnOpen(s, k) ==
    /\ conn[s][k].channel = "open"
    /\ IF IsActive(s, k)
       THEN /\ peer' = [peer EXCEPT ![s].transport = k]
            /\ conn' = [conn EXCEPT ![s][k].channel = "current"]
       ELSE /\ conn' = [conn EXCEPT ![s][k].channel = "done"]
            /\ UNCHANGED peer
    /\ UNCHANGED <<callbackUnchanged, linked, relaying, signals, faulty>>

(* and, after a look at the candidate pair, the first one is the result. *)
PublishResult(s, k) ==
    /\ conn[s][k].channel = "current"
    /\ conn' = [conn EXCEPT ![s][k].channel = "done"]
    /\ peer' = [peer EXCEPT ![s].result = IF @ = "none" THEN k ELSE @]
    /\ UNCHANGED <<callbackUnchanged, linked, relaying, signals, faulty>>

(* ICE gives up where there is no path, or loses the path it had. *)
OnConnectionFailed(s, k) ==
    /\ conn[s][k].state = "live" /\ conn[s][k].remote # "none"
    /\ \/ k \notin options.works /\ UNCHANGED faulty
       \/ k \in linked /\ Fault("lost")
       \/ k \in linked /\ conn[Other(s)][k].state = "closed" /\ UNCHANGED faulty
    /\ peer[s].current = k
    /\ \/ /\ k = "relay" /\ peer' = [peer EXCEPT ![s] = Fail(@)]
          /\ UNCHANGED relaying
       \/ /\ k = "direct" /\ s = "initiator" /\ options.allowRelay
          /\ MayBeginRelay
          /\ relaying' = "callback"
          /\ UNCHANGED peer
    /\ UNCHANGED <<callbackUnchanged, conn, linked, signals>>

(* OnError of a channel, which may belong to a replaced connection. *)
OnChannelError(s, k) ==
    /\ Fault("lost") /\ conn[s][k].channel # "none"
    /\ peer' = [peer EXCEPT ![s] = Fail(@)]
    /\ UNCHANGED <<callbackUnchanged, conn, linked, relaying, signals>>

-----------------------------------------------------------------------------
Call(s) == Connect(s) \/ Dial(s) \/ TakeResult(s) \/ TakeError(s)

SignalLoop(s) ==
    \/ LoopEnds(s) \/ HandlePeerJoined(s) \/ MakeOffer(s) \/ SendDescription(s)
    \/ HandleOffer(s) \/ HandleAnswer(s) \/ HandleCandidate(s)
    \/ HandleRestart(s) \/ Restart(s) \/ Ready(s) \/ HandleRefusal(s)

Callbacks(s, k) ==
    \/ OnICECandidate(s, k) \/ SendCandidate(s, k)
    \/ OnOpen(s, k) \/ PublishResult(s, k)

Next ==
    \/ \E s \in Sides :
          \/ Call(s) \/ CtxDone(s) \/ Close(s)
          \/ SocketLost(s) \/ ServerError(s)
          \/ SignalLoop(s)
          \/ \E k \in Kinds :
                Callbacks(s, k) \/ OnConnectionFailed(s, k) \/ OnChannelError(s, k)
    \/ NegotiationStarted \/ DirectTimeout \/ BeginRelay \/ RelayTimeout
    \/ PeerJoined
    \/ \E k \in Kinds : Link(k)

Spec == Init /\ [][Next]_vars

(***************************************************************************)
(* Goroutines run, messages arrive and are handled, timers expire and ICE  *)
(* finds a path once each end has the candidates of the other.             *)
(***************************************************************************)
Fairness ==
    /\ \A s \in Sides :
          /\ WF_vars(Call(s)) /\ WF_vars(SignalLoop(s))
          /\ \A k \in Kinds : WF_vars(Callbacks(s, k))
    /\ WF_vars(NegotiationStarted) /\ WF_vars(DirectTimeout) /\ WF_vars(BeginRelay)
    /\ WF_vars(PeerJoined)
    /\ \A k \in Kinds :
          WF_vars((\A s \in Sides : k \in conn[s][k].added) /\ Link(k))

FairSpec == Spec /\ Fairness

-----------------------------------------------------------------------------
(***************************************************************************)
(* The two ends change connections one after the other, with descriptions  *)
(* in flight.  handleSignal never gives the description of one connection  *)
(* to another: the handover orders restart, ready and the new offer.       *)
(***************************************************************************)
DescriptionMatches ==
    \A s \in Sides, k \in Kinds : conn[s][k].remote \in {k, "none"}

Candidate(k) == [type |-> "ice_candidate", of |-> k]

InFlight(s, k) ==
    \E i \in DOMAIN inbox[s] : inbox[s][i] = Candidate(k)

(***************************************************************************)
(* Candidates are sent by a callback and overtake their description; the   *)
(* pending ones are thrown away when the connection is replaced.  None     *)
(* that a live connection waits for is lost this way: it is in flight, set *)
(* aside, or added.                                                        *)
(***************************************************************************)
CandidateReaches ==
    ~dropped /\ ~faulty =>
        \A s \in Sides, k \in Kinds :
            LET t == Other(s) IN
            /\ conn[s][k].candidate = "done" /\ conn[s][k].state = "live"
            /\ conn[t][k].state # "closed"
            => \/ InFlight(t, k)
               \/ peer[t].current = k /\ k \in peer[t].pending \cup conn[t][k].added

(***************************************************************************)
(* An OnOpen callback may run after its connection was replaced.  Peer's   *)
(* transport always belongs to its current connection.                     *)
(***************************************************************************)
TransportIsCurrent ==
    \A s \in Sides : peer[s].transport \in {peer[s].current, "none"}

(* A connection that runs is the current one of its Peer. *)
OnlyCurrentLives ==
    \A s \in Sides, k \in Kinds : conn[s][k].state = "live" => peer[s].current = k

(* Connect, or a handler, asks for ICE servers and makes a connection next. *)
AwaitsServers(s) ==
    peer[s].call = "idle" \/ peer[s].step \in {"askRestart", "askReady"}

(***************************************************************************)
(* Whatever is replaced, refused or abandoned is closed, and Close leaves  *)
(* no connection running.  The one way to a connection that nobody will    *)
(* close: replaceConnection does not look at closed, so Connect or a       *)
(* handler whose request for ICE servers Close has overtaken puts a        *)
(* running connection into the closed Peer, where a second Close returns   *)
(* at once.                                                                *)
(***************************************************************************)
OrphanedByCloseOnly ==
    [][/\ OnlyCurrentLives'
       /\ \A s \in Sides, k \in Kinds :
             conn'[s][k].state = "live" /\ peer'[s].closed
             => \/ AwaitsServers(s)
                \/ conn[s][k].state = "live" /\ peer[s].closed]_vars

(***************************************************************************)
(* With a relay that works, and nothing lost, Connect returns a channel at *)
(* both ends, whether or not ICE finds a direct path and whenever the      *)
(* timer of the direct attempt expires.                                    *)
(***************************************************************************)
Connected ==
    /\ options.allowRelay /\ "relay" \in options.works
    /\ [](~faulty /\ ~dropped)
    => <>(\A s \in Sides : peer[s].returned \in Kinds)

(***************************************************************************)
(* README.md: "direct-first WebRTC peer connection with optional TURN      *)
(* fallback".  A channel that Connect has returned is not closed by the    *)
(* fallback: without a fault nobody takes it away.                         *)
(***************************************************************************)
ReturnedChannelKept ==
    \A s \in Sides : peer[s].returned \in Kinds =>
        conn[s][peer[s].returned].state = "live"
=============================================================================
