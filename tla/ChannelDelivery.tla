--------------------------- MODULE ChannelDelivery ---------------------------
(***************************************************************************)
(* What parallelChannel does with messages that arrive before the          *)
(* application has set its handlers, and how it reports that it closed.    *)
(* Every underlying channel has a read loop that calls deliver; OnMessage, *)
(* OnClose and Close are called by the application.  Handlers run outside  *)
(* the mutex.                                                              *)
(***************************************************************************)
EXTENDS Integers, Sequences, FiniteSets, SequencesExt

CONSTANTS
    Channels,       \* the primary channel and the lanes
    MaxMessages,    \* bound: messages that arrive on each channel
    BufferLimit     \* room in pendingMessages

ASSUME DeliveryAssumption ==
    Channels # {} /\ IsFiniteSet(Channels) /\ MaxMessages \in Nat /\ BufferLimit \in Nat

VARIABLES
    arrived,    \* messages each channel has received
    handler,    \* onMessage is set
    buffered,   \* pendingMessages
    flushing,   \* what OnMessage has taken from it and not handled yet
    calling,    \* the message each read loop is about to hand over
    dropped,    \* messages for which there was no room
    handled,    \* messages in the order the handler saw them
    closed,     \* closeOnce has run
    onClose,    \* onClose is set
    notifying,  \* goroutines that are about to call the close handler
    notified    \* how often it was called

messageVars == <<arrived, handler, buffered, flushing, calling, dropped, handled>>
closeVars   == <<closed, onClose, notifying, notified>>
vars        == <<messageVars, closeVars>>

Message == Channels \X (1 .. MaxMessages)

None == <<>>    \* a read loop that waits for a message

(* No more messages are held back than the limit admits. *)
TypeOK ==
    /\ arrived \in [Channels -> 0 .. MaxMessages]
    /\ handler \in BOOLEAN
    /\ buffered \in Seq(Message) /\ Len(buffered) <= BufferLimit
    /\ flushing \in Seq(Message)
    /\ calling \in [Channels -> Message \cup {None}]
    /\ dropped \subseteq Message
    /\ handled \in Seq(Message)
    /\ closed \in BOOLEAN /\ onClose \in BOOLEAN
    /\ notifying \in Nat /\ notified \in Nat

Init ==
    /\ arrived = [c \in Channels |-> 0]
    /\ handler = FALSE /\ buffered = <<>> /\ flushing = <<>>
    /\ calling = [c \in Channels |-> None]
    /\ dropped = {} /\ handled = <<>>
    /\ closed = FALSE /\ onClose = FALSE /\ notifying = 0 /\ notified = 0

-----------------------------------------------------------------------------
(* Mutant: off by one. *)
OverLimit == Len(buffered) <= BufferLimit

HasRoom == Len(buffered) < BufferLimit

(* deliver, up to the unlock. *)
Deliver(c) ==
    /\ arrived[c] < MaxMessages /\ calling[c] = None
    /\ arrived' = [arrived EXCEPT ![c] = @ + 1]
    /\ LET m == <<c, arrived[c] + 1>> IN
       \/ /\ handler
          /\ calling' = [calling EXCEPT ![c] = m]
          /\ UNCHANGED <<buffered, dropped>>
       \/ /\ ~handler
          /\ IF HasRoom
             THEN buffered' = Append(buffered, m) /\ UNCHANGED dropped
             ELSE dropped' = dropped \cup {m} /\ UNCHANGED buffered
          /\ UNCHANGED calling
    /\ UNCHANGED <<handler, flushing, handled, closeVars>>

(* deliver, the call. *)
CallHandler(c) ==
    /\ calling[c] # None
    /\ handled' = Append(handled, calling[c])
    /\ calling' = [calling EXCEPT ![c] = None]
    /\ UNCHANGED <<arrived, handler, buffered, flushing, dropped, closeVars>>

(* Mutant: what has been buffered is forgotten. *)
TakeNothing == <<>>

TakeBuffered == buffered

OnMessage ==
    /\ ~handler
    /\ handler' = TRUE
    /\ flushing' = TakeBuffered
    /\ buffered' = <<>>
    /\ UNCHANGED <<arrived, calling, dropped, handled, closeVars>>

FlushOne ==
    /\ flushing # <<>>
    /\ handled' = Append(handled, Head(flushing))
    /\ flushing' = Tail(flushing)
    /\ UNCHANGED <<arrived, handler, buffered, calling, dropped, closeVars>>

-----------------------------------------------------------------------------
(* shutdown calls the handler it found under the mutex, if any. *)
NotifyIfSet == IF onClose THEN 1 ELSE 0

Shutdown ==
    /\ ~closed
    /\ closed' = TRUE
    /\ notifying' = notifying + NotifyIfSet
    /\ UNCHANGED <<messageVars, onClose, notified>>

(* Mutant: a channel that has closed already is not noticed. *)
NeverLate == 0

NotifyIfClosed == IF closed THEN 1 ELSE 0

OnClose ==
    /\ ~onClose
    /\ onClose' = TRUE
    /\ notifying' = notifying + NotifyIfClosed
    /\ UNCHANGED <<messageVars, closed, notified>>

CallCloseHandler ==
    /\ notifying > 0
    /\ notifying' = notifying - 1
    /\ notified' = notified + 1
    /\ UNCHANGED <<messageVars, closed, onClose>>

-----------------------------------------------------------------------------
Next ==
    \/ \E c \in Channels : Deliver(c) \/ CallHandler(c)
    \/ OnMessage \/ FlushOne
    \/ Shutdown \/ OnClose \/ CallCloseHandler

Spec == Init /\ [][Next]_vars

-----------------------------------------------------------------------------
Arrived == {m \in Message : m[2] <= arrived[m[1]]}

Waiting == ToSet(buffered) \cup ToSet(flushing) \cup ({calling[c] : c \in Channels} \ {None})

(***************************************************************************)
(* deliver and OnMessage decide under the same mutex: a message that races *)
(* with the registration of the handler is neither lost nor handled twice. *)
(***************************************************************************)
HandledOnce ==
    /\ Arrived = Waiting \cup ToSet(handled) \cup dropped
    /\ Cardinality(Arrived) = Len(buffered) + Len(flushing) + Len(handled)
          + Cardinality({c \in Channels : calling[c] # None}) + Cardinality(dropped)

(***************************************************************************)
(* The close handler is called when the channel closes, or when it is set  *)
(* after that: once, however shutdown and OnClose interleave.              *)
(***************************************************************************)
ClosedOnce == notified + notifying = (IF closed /\ onClose THEN 1 ELSE 0)

-----------------------------------------------------------------------------
(***************************************************************************)
(* parallel_channel.go: "parallelChannel preserves the protocol/control    *)
(* ordering of the primary channel".  The handler sees the messages of a   *)
(* channel in the order in which they arrived.                             *)
(***************************************************************************)
OrderPreserved ==
    \A i, j \in DOMAIN handled :
        i < j /\ handled[i][1] = handled[j][1] => handled[i][2] < handled[j][2]
=============================================================================
