------------------------ MODULE ChannelDeliveryProofs ------------------------
(***************************************************************************)
(* Proofs about ChannelDelivery, for any number of channels and messages   *)
(* and for buffers of any size.                                            *)
(***************************************************************************)
EXTENDS ChannelDelivery, FiniteSetTheorems, SequenceTheorems, TLAPS

-----------------------------------------------------------------------------
(* Types *)

LEMMA TypesInit ==
    ASSUME Init
    PROVE  TypeOK
  <1>1. <<>> \in Seq(Message) /\ Len(<<>>) = 0
    OBVIOUS
  <1>2. arrived \in [Channels -> 0 .. MaxMessages]
    BY DeliveryAssumption DEF Init
  <1>3. calling \in [Channels -> Message \cup {None}]
    BY DEF Init
  <1>4. handler \in BOOLEAN /\ closed \in BOOLEAN /\ onClose \in BOOLEAN
    BY DEF Init
  <1>5. notifying \in Nat /\ notified \in Nat /\ Len(buffered) <= BufferLimit
    BY <1>1, DeliveryAssumption DEF Init
  <1>6. /\ buffered \in Seq(Message) /\ flushing \in Seq(Message)
        /\ handled \in Seq(Message) /\ dropped \subseteq Message
    BY <1>1 DEF Init
  <1> QED
    BY <1>2, <1>3, <1>4, <1>5, <1>6 DEF TypeOK

LEMMA TypesStep ==
    ASSUME TypeOK, [Next]_vars
    PROVE  TypeOK'
  <1> USE DeliveryAssumption
  <1>1. ASSUME NEW c \in Channels, Deliver(c)
        PROVE  TypeOK'
    <2> DEFINE m == <<c, arrived[c] + 1>>
    <2>1. arrived[c] + 1 \in 1 .. MaxMessages /\ m \in Message
      BY <1>1 DEF TypeOK, Deliver, Message
    <2>2. arrived' \in [Channels -> 0 .. MaxMessages]
      BY <1>1, <2>1 DEF TypeOK, Deliver
    <2> HIDE DEF m
    <2>3. calling' \in [Channels -> Message \cup {None}]
      BY <1>1, <2>1 DEF TypeOK, Deliver, m
    <2>4. buffered' \in Seq(Message) /\ Len(buffered') <= BufferLimit
      <3>1. buffered' = buffered \/ (HasRoom /\ buffered' = Append(buffered, m))
        BY <1>1 DEF Deliver, m
      <3>2. buffered \in Seq(Message) /\ Len(buffered) <= BufferLimit
        BY DEF TypeOK
      <3>3. CASE HasRoom /\ buffered' = Append(buffered, m)
        BY <2>1, <3>2, <3>3 DEF HasRoom
      <3> QED
        BY <3>1, <3>2, <3>3
    <2>5. dropped' \subseteq Message
      BY <1>1, <2>1 DEF TypeOK, Deliver, m
    <2> QED
      BY <1>1, <2>2, <2>3, <2>4, <2>5 DEF TypeOK, Deliver, closeVars
  <1>2. ASSUME NEW c \in Channels, CallHandler(c)
        PROVE  TypeOK'
    BY <1>2 DEF TypeOK, CallHandler, closeVars
  <1>3. CASE OnMessage
    BY <1>3 DEF TypeOK, OnMessage, TakeBuffered, closeVars
  <1>4. CASE FlushOne
    <2>1. flushing \in Seq(Message) /\ handled \in Seq(Message) /\ flushing # <<>>
      BY <1>4 DEF TypeOK, FlushOne
    <2>2. Head(flushing) \in Message /\ Tail(flushing) \in Seq(Message)
      BY <2>1
    <2>3. flushing' \in Seq(Message) /\ handled' \in Seq(Message)
      BY <1>4, <2>1, <2>2 DEF FlushOne
    <2> QED
      BY <1>4, <2>3 DEF TypeOK, FlushOne, closeVars
  <1>5. CASE Shutdown \/ OnClose \/ CallCloseHandler
    <2>1. closed' \in BOOLEAN /\ onClose' \in BOOLEAN
      BY <1>5 DEF TypeOK, Shutdown, OnClose, CallCloseHandler
    <2>2. NotifyIfSet \in {0, 1} /\ NotifyIfClosed \in {0, 1}
      BY DEF NotifyIfSet, NotifyIfClosed
    <2>3. notifying \in Nat /\ notified \in Nat
      BY DEF TypeOK
    <2>4. \/ notifying' = notifying + NotifyIfSet /\ notified' = notified
          \/ notifying' = notifying + NotifyIfClosed /\ notified' = notified
          \/ notifying > 0 /\ notifying' = notifying - 1 /\ notified' = notified + 1
      BY <1>5 DEF Shutdown, OnClose, CallCloseHandler
    <2>5. notifying' \in Nat /\ notified' \in Nat
      BY <2>2, <2>3, <2>4
    <2>6. UNCHANGED messageVars
      BY <1>5 DEF Shutdown, OnClose, CallCloseHandler
    <2> QED
      BY <2>1, <2>5, <2>6 DEF TypeOK, messageVars
  <1>6. CASE UNCHANGED vars
    BY <1>6 DEF TypeOK, vars, messageVars, closeVars
  <1> QED
    BY <1>1, <1>2, <1>3, <1>4, <1>5, <1>6 DEF Next

(***************************************************************************)
(* The fields of parallelChannel keep their types; deliver never holds     *)
(* back more messages than the limit of pendingMessages.                   *)
(***************************************************************************)
THEOREM DeliveryTypes == Spec => []TypeOK
  BY TypesInit, TypesStep, PTL DEF Spec

-----------------------------------------------------------------------------
(* Closing *)

LEMMA ClosedOnceStep ==
    ASSUME TypeOK, ClosedOnce, [Next]_vars
    PROVE  ClosedOnce'
  <1>1. CASE UNCHANGED closeVars
    BY <1>1 DEF closeVars, ClosedOnce
  <1>2. CASE Shutdown
    BY <1>2 DEF TypeOK, ClosedOnce, Shutdown, NotifyIfSet
  <1>3. CASE OnClose
    BY <1>3 DEF TypeOK, ClosedOnce, OnClose, NotifyIfClosed
  <1>4. CASE CallCloseHandler
    BY <1>4 DEF TypeOK, ClosedOnce, CallCloseHandler
  <1> QED
    BY <1>1, <1>2, <1>3, <1>4
    DEF Next, Deliver, CallHandler, OnMessage, FlushOne, vars, closeVars

(***************************************************************************)
(* shutdown and OnClose both look at closed under the mutex: the close     *)
(* handler is called, or about to be called, exactly once as soon as the   *)
(* channel has closed and the handler is set, in whichever order.          *)
(***************************************************************************)
THEOREM CloseIsToldOnce == Spec => []ClosedOnce
  <1>1. Init => TypeOK /\ ClosedOnce
    <2>1. Init => notified = 0 /\ notifying = 0 /\ ~(closed /\ onClose)
      BY DEF Init
    <2> QED
      BY <2>1, TypesInit DEF ClosedOnce
  <1>2. TypeOK /\ ClosedOnce /\ [Next]_vars => TypeOK' /\ ClosedOnce'
    BY TypesStep, ClosedOnceStep
  <1> QED
    BY <1>1, <1>2, PTL DEF Spec

-----------------------------------------------------------------------------
(* Messages *)

(* What a sequence holds when it grows at its end or loses its head. *)
LEMMA ToSetAppend ==
    ASSUME NEW S, NEW seq \in Seq(S), NEW e \in S
    PROVE  ToSet(Append(seq, e)) = ToSet(seq) \cup {e}
  <1>1. Len(seq) \in Nat /\ DOMAIN seq = 1 .. Len(seq)
        /\ DOMAIN Append(seq, e) = 1 .. Len(seq) + 1
    OBVIOUS
  <1>2. /\ \A i \in 1 .. Len(seq) : Append(seq, e)[i] = seq[i]
        /\ Append(seq, e)[Len(seq) + 1] = e
    OBVIOUS
  <1>3. \A i : i \in 1 .. Len(seq) + 1 <=> i \in 1 .. Len(seq) \/ i = Len(seq) + 1
    BY <1>1
  <1> QED
    BY <1>1, <1>2, <1>3 DEF ToSet

LEMMA ToSetTail ==
    ASSUME NEW S, NEW seq \in Seq(S), seq # <<>>
    PROVE  ToSet(seq) = ToSet(Tail(seq)) \cup {Head(seq)}
  <1>1. Len(seq) \in Nat /\ DOMAIN seq = 1 .. Len(seq) /\ Len(seq) >= 1
        /\ DOMAIN Tail(seq) = 1 .. Len(seq) - 1
    OBVIOUS
  <1>2. /\ \A i \in 1 .. Len(seq) - 1 : Tail(seq)[i] = seq[i + 1]
        /\ Head(seq) = seq[1]
    OBVIOUS
  <1>3. ToSet(seq) \subseteq ToSet(Tail(seq)) \cup {Head(seq)}
    <2> SUFFICES ASSUME NEW i \in 1 .. Len(seq)
                 PROVE  seq[i] \in ToSet(Tail(seq)) \cup {Head(seq)}
      BY <1>1 DEF ToSet
    <2>1. CASE i = 1
      BY <1>2, <2>1
    <2>2. CASE i # 1
      <3>1. i - 1 \in 1 .. Len(seq) - 1 /\ Tail(seq)[i - 1] = seq[i]
        BY <1>1, <1>2, <2>2
      <3> QED
        BY <1>1, <3>1 DEF ToSet
    <2> QED
      BY <2>1, <2>2
  <1>4. ToSet(Tail(seq)) \cup {Head(seq)} \subseteq ToSet(seq)
    <2>1. \A i \in 1 .. Len(seq) - 1 : i + 1 \in 1 .. Len(seq)
      BY <1>1
    <2> QED
      BY <1>1, <1>2, <2>1 DEF ToSet
  <1> QED
    BY <1>3, <1>4

(* The read loops that are about to call the handler. *)
Callers == {c \in Channels : calling[c] # None}

LEMMA Finiteness ==
    ASSUME TypeOK
    PROVE  /\ IsFiniteSet(Arrived) /\ IsFiniteSet(Callers) /\ IsFiniteSet(dropped)
           /\ Cardinality(Arrived) \in Nat /\ Cardinality(Callers) \in Nat
           /\ Cardinality(dropped) \in Nat
  <1>1. IsFiniteSet(1 .. MaxMessages)
    BY FS_Interval, DeliveryAssumption
  <1>2. IsFiniteSet(Message)
    BY <1>1, FS_Product, DeliveryAssumption DEF Message
  <1>3. /\ Arrived \in SUBSET Message /\ Callers \in SUBSET Channels
        /\ dropped \in SUBSET Message
    BY DEF Arrived, Callers, TypeOK
  <1>4. IsFiniteSet(Arrived) /\ IsFiniteSet(Callers) /\ IsFiniteSet(dropped)
    BY <1>2, <1>3, FS_Subset, DeliveryAssumption
  <1> QED
    BY <1>4, FS_CardinalityType

(* A message that arrives has not arrived before. *)
LEMMA ArrivalIsNew ==
    ASSUME TypeOK, NEW c \in Channels, arrived[c] < MaxMessages,
           arrived' = [arrived EXCEPT ![c] = @ + 1]
    PROVE  LET m == <<c, arrived[c] + 1>> IN
           m \in Message /\ m # None /\ m \notin Arrived /\ Arrived' = Arrived \cup {m}
  <1> DEFINE m == <<c, arrived[c] + 1>>
  <1>1. arrived \in [Channels -> 0 .. MaxMessages] /\ MaxMessages \in Nat
    BY DeliveryAssumption DEF TypeOK
  <1>2. m \in Message /\ m[1] = c /\ m[2] = arrived[c] + 1
    BY <1>1 DEF Message
  <1>3. m # None
    BY DEF None
  <1>4. m \notin Arrived
    BY <1>1, <1>2 DEF Arrived
  <1>5. \A x \in Message : /\ x[1] \in Channels /\ x[2] \in 1 .. MaxMessages
                           /\ x = <<x[1], x[2]>>
    BY DEF Message
  <1>6. \A x \in Message : x \in Arrived' <=> (x \in Arrived \/ x = m)
    <2> SUFFICES ASSUME NEW x \in Message
                 PROVE  x[2] <= arrived'[x[1]] <=> (x[2] <= arrived[x[1]] \/ x = m)
      BY DEF Arrived
    <2>1. CASE x[1] = c
      <3>1. x[2] <= arrived[c] + 1 <=> (x[2] <= arrived[c] \/ x[2] = arrived[c] + 1)
        BY <1>1, <1>5
      <3>2. x[2] = arrived[c] + 1 <=> x = m
        BY <1>2, <1>5, <2>1
      <3> QED
        BY <1>1, <2>1, <3>1, <3>2
    <2>2. CASE x[1] # c
      BY <1>1, <1>2, <1>5, <2>2
    <2> QED
      BY <2>1, <2>2
  <1>7. Arrived' = Arrived \cup {m}
    BY <1>2, <1>6 DEF Arrived
  <1> QED
    BY <1>2, <1>3, <1>4, <1>7

(***************************************************************************)
(* OnMessage sets the handler once, so nothing is being flushed before.    *)
(***************************************************************************)
FlushAfterHandler == ~handler => flushing = <<>>

OnceInv == FlushAfterHandler /\ HandledOnce

(* The messages that read loops are about to hand over. *)
Called == {calling[c] : c \in Channels} \ {None}

Everywhere == ToSet(buffered) \cup ToSet(flushing) \cup Called \cup ToSet(handled) \cup dropped

Counted == Len(buffered) + Len(flushing) + Len(handled) + Cardinality(Callers)
              + Cardinality(dropped)

LEMMA HandledOnceParts ==
    HandledOnce <=> Arrived = Everywhere /\ Cardinality(Arrived) = Counted
  BY DEF HandledOnce, Waiting, Called, Callers, Everywhere, Counted

(* The lengths that are added up. *)
LEMMA Lengths ==
    ASSUME TypeOK
    PROVE  Len(buffered) \in Nat /\ Len(flushing) \in Nat /\ Len(handled) \in Nat
  BY DEF TypeOK

LEMMA EmptyToSet == ToSet(<<>>) = {} /\ Len(<<>>) = 0
  BY DEF ToSet

(* deliver puts a message that arrives in exactly one place. *)
LEMMA DeliverOnce ==
    ASSUME TypeOK, OnceInv, NEW c \in Channels, Deliver(c)
    PROVE  OnceInv'
  <1> DEFINE m == <<c, arrived[c] + 1>>
  <1>1. m \in Message /\ m # None /\ m \notin Arrived /\ Arrived' = Arrived \cup {m}
    BY ArrivalIsNew DEF Deliver
  <1>2. Cardinality(Arrived') = Cardinality(Arrived) + 1
    BY <1>1, FS_AddElement, Finiteness
  <1>3. Arrived = Everywhere /\ Cardinality(Arrived) = Counted
    BY HandledOnceParts DEF OnceInv
  <1>4. UNCHANGED <<handler, flushing, handled>>
    BY DEF Deliver
  <1>5. FlushAfterHandler'
    BY <1>4 DEF OnceInv, FlushAfterHandler
  <1>6. CASE calling' = [calling EXCEPT ![c] = m] /\ UNCHANGED <<buffered, dropped>>
    <2>1. calling[c] = None /\ calling \in [Channels -> Message \cup {None}]
      BY DEF Deliver, TypeOK
    <2>2. c \notin Callers /\ Callers' = Callers \cup {c}
      BY <1>1, <1>6, <2>1 DEF Callers
    <2>3. Called' = Called \cup {m}
      BY <1>1, <1>6, <2>1 DEF Called
    <2>4. Cardinality(Callers') = Cardinality(Callers) + 1
      BY <2>2, FS_AddElement, Finiteness
    <2>5. Everywhere' = Everywhere \cup {m}
      BY <1>4, <1>6, <2>3 DEF Everywhere
    <2>6. Counted' = Counted + 1
      BY <1>4, <1>6, <2>4, Lengths, Finiteness DEF Counted
    <2> QED
      BY <1>1, <1>2, <1>3, <1>5, <2>5, <2>6, HandledOnceParts
      DEF OnceInv, HandledOnce, Waiting, Called, Callers, Everywhere, Counted
  <1>7. CASE buffered' = Append(buffered, m) /\ UNCHANGED <<calling, dropped>>
    <2>1. ToSet(buffered') = ToSet(buffered) \cup {m} /\ Len(buffered') = Len(buffered) + 1
      BY <1>1, <1>7, ToSetAppend DEF TypeOK
    <2>2. Everywhere' = Everywhere \cup {m}
      BY <1>4, <1>7, <2>1 DEF Everywhere, Called
    <2>3. Counted' = Counted + 1
      BY <1>4, <1>7, <2>1, Lengths, Finiteness DEF Counted, Callers
    <2> QED
      BY <1>1, <1>2, <1>3, <1>5, <2>2, <2>3
      DEF OnceInv, HandledOnce, Waiting, Called, Callers, Everywhere, Counted
  <1>8. CASE dropped' = dropped \cup {m} /\ UNCHANGED <<calling, buffered>>
    <2>1. m \notin dropped
      BY <1>1, <1>3 DEF Everywhere
    <2>2. Cardinality(dropped') = Cardinality(dropped) + 1
      BY <1>8, <2>1, FS_AddElement, Finiteness
    <2>3. Everywhere' = Everywhere \cup {m}
      BY <1>4, <1>8 DEF Everywhere, Called
    <2>4. Counted' = Counted + 1
      BY <1>4, <1>8, <2>2, Lengths, Finiteness DEF Counted, Callers
    <2> QED
      BY <1>1, <1>2, <1>3, <1>5, <2>3, <2>4
      DEF OnceInv, HandledOnce, Waiting, Called, Callers, Everywhere, Counted
  <1> QED
    BY <1>6, <1>7, <1>8 DEF Deliver

(* The other steps take a message from one place to the next. *)
LEMMA MoveOnce ==
    ASSUME TypeOK, OnceInv, arrived' = arrived, FlushAfterHandler',
           Everywhere' = Everywhere, Counted' = Counted
    PROVE  OnceInv'
  <1>1. Arrived = Everywhere /\ Cardinality(Arrived) = Counted
    BY HandledOnceParts DEF OnceInv
  <1>2. Arrived' = Arrived
    BY DEF Arrived
  <1> QED
    BY <1>1, <1>2
    DEF OnceInv, HandledOnce, Waiting, Called, Callers, Everywhere, Counted

LEMMA CallOnce ==
    ASSUME TypeOK, OnceInv, NEW c \in Channels, CallHandler(c)
    PROVE  OnceInv'
  <1>1. /\ calling \in [Channels -> Message \cup {None}] /\ calling[c] # None
        /\ handled \in Seq(Message) /\ calling[c] \in Message
        /\ handled' = Append(handled, calling[c])
        /\ calling' = [calling EXCEPT ![c] = None]
        /\ UNCHANGED <<arrived, handler, buffered, flushing, dropped>>
    BY DEF CallHandler, TypeOK
  <1>2. ToSet(handled') = ToSet(handled) \cup {calling[c]}
        /\ Len(handled') = Len(handled) + 1
    BY <1>1, ToSetAppend
  <1>3. Called = Called' \cup {calling[c]}
        \/ Called = Called'
    BY <1>1 DEF Called
  <1>4. calling[c] \in Called
    BY <1>1 DEF Called
  <1>5. Everywhere' = Everywhere
    BY <1>1, <1>2, <1>3, <1>4 DEF Everywhere
  <1>6. c \in Callers /\ Callers' = Callers \ {c}
    BY <1>1 DEF Callers
  <1>7. Cardinality(Callers') = Cardinality(Callers) - 1
    BY <1>6, FS_RemoveElement, Finiteness
  <1>8. Counted' = Counted
    BY <1>1, <1>2, <1>7, Lengths, Finiteness DEF Counted
  <1> QED
    BY <1>1, <1>5, <1>8, MoveOnce DEF OnceInv, FlushAfterHandler

LEMMA OnMessageOnce ==
    ASSUME TypeOK, OnceInv, OnMessage
    PROVE  OnceInv'
  <1>1. /\ flushing = <<>> /\ buffered' = <<>> /\ flushing' = buffered /\ handler'
        /\ UNCHANGED <<arrived, calling, dropped, handled>>
    BY DEF OnMessage, TakeBuffered, OnceInv, FlushAfterHandler
  <1>2. Everywhere' = Everywhere
    BY <1>1, EmptyToSet DEF Everywhere, Called
  <1>3. Counted' = Counted
    BY <1>1, EmptyToSet, Lengths, Finiteness DEF Counted, Callers
  <1> QED
    BY <1>1, <1>2, <1>3, MoveOnce DEF FlushAfterHandler

LEMMA FlushOnce ==
    ASSUME TypeOK, OnceInv, FlushOne
    PROVE  OnceInv'
  <1>1. /\ flushing \in Seq(Message) /\ flushing # <<>> /\ handled \in Seq(Message)
        /\ handled' = Append(handled, Head(flushing)) /\ flushing' = Tail(flushing)
        /\ UNCHANGED <<arrived, handler, buffered, calling, dropped>>
    BY DEF FlushOne, TypeOK
  <1>2. Head(flushing) \in Message /\ Len(flushing') = Len(flushing) - 1
    BY <1>1
  <1>3. ToSet(handled') = ToSet(handled) \cup {Head(flushing)}
        /\ Len(handled') = Len(handled) + 1
    BY <1>1, <1>2, ToSetAppend
  <1>4. ToSet(flushing) = ToSet(flushing') \cup {Head(flushing)}
    BY <1>1, ToSetTail
  <1>5. Everywhere' = Everywhere
    BY <1>1, <1>3, <1>4 DEF Everywhere, Called
  <1>6. Counted' = Counted
    BY <1>1, <1>2, <1>3, Lengths, Finiteness DEF Counted, Callers
  <1>7. FlushAfterHandler'
    BY <1>1 DEF OnceInv, FlushAfterHandler
  <1> QED
    BY <1>1, <1>5, <1>6, <1>7, MoveOnce

LEMMA OnceStep ==
    ASSUME TypeOK, OnceInv, [Next]_vars
    PROVE  OnceInv'
  <1>1. CASE UNCHANGED messageVars
    <2>1. Everywhere' = Everywhere /\ Counted' = Counted
      BY <1>1 DEF messageVars, Everywhere, Counted, Called, Callers
    <2> QED
      BY <1>1, <2>1, MoveOnce DEF messageVars, OnceInv, FlushAfterHandler
  <1> QED
    BY <1>1, DeliverOnce, CallOnce, OnMessageOnce, FlushOnce
    DEF Next, Shutdown, OnClose, CallCloseHandler, vars

LEMMA OnceInit ==
    ASSUME Init
    PROVE  OnceInv
  <1>1. TypeOK
    BY TypesInit
  <1>2. Arrived = {}
    <2>1. \A x \in Message : x[1] \in Channels /\ x[2] \in 1 .. MaxMessages
      BY DEF Message
    <2>2. \A x \in Message : ~(x[2] <= arrived[x[1]])
      BY <2>1, DeliveryAssumption DEF Init
    <2> QED
      BY <2>2 DEF Arrived
  <1>3. Called = {} /\ Callers = {}
    BY DEF Init, Called, Callers
  <1>4. Everywhere = {}
    BY <1>3, EmptyToSet DEF Init, Everywhere
  <1>5. Cardinality({}) = 0
    BY FS_EmptySet
  <1>6. Counted = 0
    BY <1>3, <1>5, EmptyToSet DEF Init, Counted
  <1> QED
    BY <1>2, <1>4, <1>5, <1>6, HandledOnceParts DEF OnceInv, FlushAfterHandler, Init

(***************************************************************************)
(* deliver and OnMessage decide under one mutex: of the messages that have *)
(* arrived, each is held back, about to be handled, handled or dropped for *)
(* want of room, and is so exactly once, however many read loops race with *)
(* the registration of the handler.                                        *)
(***************************************************************************)
THEOREM MessagesAreHandledOnce == Spec => []HandledOnce
  <1>1. Init => TypeOK /\ OnceInv
    BY TypesInit, OnceInit
  <1>2. TypeOK /\ OnceInv /\ [Next]_vars => TypeOK' /\ OnceInv'
    BY TypesStep, OnceStep
  <1>3. OnceInv => HandledOnce
    BY DEF OnceInv
  <1> QED
    BY <1>1, <1>2, <1>3, PTL DEF Spec
=============================================================================
