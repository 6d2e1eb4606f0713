--------------------------- MODULE DeliveryProofs ---------------------------
(***************************************************************************)
(* Proofs that a commit is final: the receiver never turns down what it    *)
(* has committed, and no handler disturbs it while it verifies and renames *)
(* the file; that what is in flight stays within the window; and that an   *)
(* event queue with room for a window never makes a cancel deregister a    *)
(* loop that still has a checkpoint to store.                              *)
(*                                                                         *)
(* They rest on an account of the chunks of the registered transfer (each  *)
(* is in one place, no two overlap, and all lie between what the loop has  *)
(* written and what SendFile has sent) and of the controls (file_end and   *)
(* file_cancel are sent once, after the last chunk).  A lane that repeats  *)
(* a chunk (fault "dup") breaks it, and the theorems with it.              *)
(***************************************************************************)
EXTENDS DurabilityProofs, FiniteSetTheorems

USE DEF TypeOK, TransferIDs

-----------------------------------------------------------------------------
(* The account of chunks *)

IsChunk(e) == e.type = "chunk"

(* Chunks of the registered transfer that the loop has not written. *)
Unwritten ==
    {c \in lanes : c.id = rid} \cup {e \in Range(rEvents) : IsChunk(e)} \cup rPending

(* A chunk carries something, and no more than the file has. *)
Within(c) == c.length >= 1 /\ c.offset + c.length <= Size

(* Two chunks have no byte in common. *)
Apart(c, d) == c.offset + c.length <= d.offset \/ d.offset + d.length <= c.offset

(* No transfer is registered, and nothing is left of the last one. *)
EmptyInv == rpc = "none" => rEvents = <<>> /\ rPending = {} /\ ~rEnd

FlowInv ==
    rpc # "none" =>
        /\ rExpected <= Size
        /\ \A c \in Unwritten : c.id = rid /\ Within(c) /\ rExpected <= c.offset
        /\ \A c, d \in Unwritten : c # d => Apart(c, d)

(* Nothing is twice in a queue. *)
NoRepeats(q) == \A i, j \in 1 .. Len(q) : i < j => q[i] # q[j]

(* No chunk is in two places. *)
PlaceInv ==
    rpc # "none" =>
        /\ \A c \in lanes : c \notin rPending /\ c \notin Range(rEvents)
        /\ \A c \in rPending : c \notin Range(rEvents)
        /\ NoRepeats(rEvents)

(***************************************************************************)
(* SendFile is ahead of the loop; until it has the answer there is nothing *)
(* to write, and the answer says where the part file ends.                 *)
(***************************************************************************)
IsAnswer(m) == m.type \in {"file_accept", "resume_state"}

Unanswered ==
    /\ Unwritten = {} /\ rExpected % ChunkSize = 0
    /\ sAccept \in {Empty, rExpected}
    /\ \A m \in Range(toSender) : IsAnswer(m) /\ m.id = rid => m.n = rExpected

Ahead ==
    /\ rExpected <= sOffset
    /\ \A c \in Unwritten : c.offset + c.length <= sOffset

AheadInv ==
    rpc # "none" =>
        /\ rid <= sid
        /\ Sending(rid) => IF spc = "waitAccept" THEN Unanswered ELSE Ahead

-----------------------------------------------------------------------------
(* The account of controls *)

(* SendFile is not done with its chunks. *)
Producing(id) == Sending(id) /\ spc \in {"waitAccept", "stream", "waitAck", "waitBuffer"}

Flies(type, id) == \E m \in Range(toReceiver) : m.type = type /\ m.id = id

CancelFlies(id) == id \in cancelReceiver \/ Flies("file_cancel", id)

(* No transfer has two controls of one type in a queue. *)
Unique(q) == \A i, j \in 1 .. Len(q) : i < j /\ q[i].type = q[j].type => q[i].id # q[j].id

(***************************************************************************)
(* Nothing follows a file_cancel, and no chunk a file_end; neither comes   *)
(* before the offer was answered.                                          *)
(***************************************************************************)
WireInv ==
    /\ Unique(toReceiver)
    /\ \A m \in Range(toReceiver) :
          /\ m.id <= sid
          /\ m.type = "file_end" => ~Producing(m.id) /\ ~Fresh(m.id)
          /\ m.type = "file_cancel" => ~Sending(m.id) /\ m.id \notin cancelReceiver
    /\ \A id \in cancelReceiver : id <= sid /\ ~Sending(id)

EndEvent == [type |-> "end"]

CancelEvent == [type |-> "cancel"]

Ended == rEnd \/ EndEvent \in Range(rEvents)

(* What the loop has been told, it is not told again. *)
ToldInv ==
    rpc # "none" =>
        /\ Ended => ~Flies("file_end", rid) /\ ~Producing(rid)
        /\ rEnd => EndEvent \notin Range(rEvents)
        /\ CancelEvent \in Range(rEvents) => ~CancelFlies(rid) /\ ~Sending(rid)

Completing == {"complete", "remove", "rename", "unlink", "finish"}

CommitInv ==
    /\ rpc \in Streaming \cup {"opened"} => rid \notin committed
    /\ rpc \in Completing => rEnd /\ rExpected = Size
    /\ \A c \in lanes : c.id \notin committed
    /\ \A id \in committed : id <= sid /\ ~Producing(id)

-----------------------------------------------------------------------------
(* Cancels from the receiver *)

(* SendFile was told, is being told or will be told that its file is refused. *)
Refused(id) ==
    \/ id \in cancelSender
    \/ \E m \in Range(toSender) : m.type = "file_cancel" /\ m.id = id
    \/ sOutcome[id] = "cancelled"
    \/ Sending(id) /\ sCancel

RefusalInv ==
    \A id \in TransferIDs : Refused(id) => ~Fresh(id) /\ ~Registered(id) /\ id \notin committed

(* Before startReceive has answered nothing comes but a cancel. *)
OpenedInv ==
    rpc = "opened" =>
        /\ Unwritten = {} /\ ~Ended /\ ~Flies("file_end", rid)
        /\ \A m \in Range(toSender) : m.type # "file_cancel" => m.id # rid
        /\ \A l \in rLeaving : l.id # rid
        /\ Sending(rid) => spc = "waitAccept" /\ sAccept = Empty

AccountInv ==
    /\ EmptyInv /\ FlowInv /\ PlaceInv /\ AheadInv
    /\ WireInv /\ ToldInv /\ CommitInv /\ RefusalInv

-----------------------------------------------------------------------------
(* Queues *)

(* A queue without repetitions that gets something new has none either. *)
LEMMA NoRepeatsAppend ==
    ASSUME NEW S, NEW q \in Seq(S), NEW e \in S, NoRepeats(q), e \notin Range(q)
    PROVE  NoRepeats(Append(q, e))
  <1>1. /\ Len(Append(q, e)) = Len(q) + 1 /\ Len(q) \in Nat
        /\ \A i \in 1 .. Len(q) : Append(q, e)[i] = q[i]
        /\ Append(q, e)[Len(q) + 1] = e
    BY AppendProperties
  <1>2. \A i \in 1 .. Len(q) : q[i] \in Range(q)
    BY RangeEquality
  <1> QED
    BY <1>1, <1>2 DEF NoRepeats

(* What is taken from it is not in it any more. *)
LEMMA NoRepeatsTail ==
    ASSUME NEW S, NEW q \in Seq(S), q # <<>>, NoRepeats(q)
    PROVE  NoRepeats(Tail(q)) /\ Head(q) \notin Range(Tail(q))
  <1>1. /\ Tail(q) \in Seq(S) /\ Len(Tail(q)) = Len(q) - 1 /\ Len(q) \in Nat \ {0}
        /\ \A i \in 1 .. Len(q) - 1 : Tail(q)[i] = q[i + 1]
        /\ Head(q) = q[1]
    BY HeadTailProperties, EmptySeq
  <1>2. Range(Tail(q)) = {Tail(q)[i] : i \in 1 .. Len(q) - 1}
    BY <1>1, RangeEquality
  <1>3. NoRepeats(Tail(q))
    BY <1>1 DEF NoRepeats
  <1>4. ASSUME NEW i \in 1 .. Len(q) - 1
        PROVE  q[i + 1] # q[1]
    BY <1>1 DEF NoRepeats
  <1> QED
    BY <1>1, <1>2, <1>3, <1>4

(* A control of which the queue has none yet may follow. *)
LEMMA UniqueAppend ==
    ASSUME NEW q \in Seq(ToReceiver), NEW m \in ToReceiver, Unique(q),
           \A k \in Range(q) : k.type = m.type => k.id # m.id
    PROVE  Unique(Append(q, m))
  <1>1. /\ Len(Append(q, m)) = Len(q) + 1 /\ Len(q) \in Nat
        /\ \A i \in 1 .. Len(q) : Append(q, m)[i] = q[i]
        /\ Append(q, m)[Len(q) + 1] = m
    BY AppendProperties
  <1>2. \A i \in 1 .. Len(q) : q[i] \in Range(q)
    BY RangeEquality
  <1> QED
    BY <1>1, <1>2 DEF Unique

(* A control that is handled leaves none of its type behind. *)
LEMMA UniqueTail ==
    ASSUME NEW q \in Seq(ToReceiver), q # <<>>, Unique(q)
    PROVE  /\ Unique(Tail(q))
           /\ \A k \in Range(Tail(q)) : k.type = Head(q).type => k.id # Head(q).id
  <1>1. /\ Tail(q) \in Seq(ToReceiver) /\ Len(Tail(q)) = Len(q) - 1 /\ Len(q) \in Nat \ {0}
        /\ \A i \in 1 .. Len(q) - 1 : Tail(q)[i] = q[i + 1]
        /\ Head(q) = q[1]
    BY HeadTailProperties, EmptySeq
  <1>2. Range(Tail(q)) = {Tail(q)[i] : i \in 1 .. Len(q) - 1}
    BY <1>1, RangeEquality
  <1>3. Unique(Tail(q))
    BY <1>1 DEF Unique
  <1>4. ASSUME NEW i \in 1 .. Len(q) - 1, q[i + 1].type = q[1].type
        PROVE  q[i + 1].id # q[1].id
    BY <1>1, <1>4 DEF Unique
  <1> QED
    BY <1>1, <1>2, <1>3, <1>4

-----------------------------------------------------------------------------
(* Where chunks go *)

(* A chunk is written. *)
ChunkWritten(c) ==
    /\ c.offset = rExpected /\ rPending' = rPending \ {c}
    /\ rExpected' = rExpected + c.length

(* A control was taken from the channel and put into the event queue. *)
Handled(type, id) ==
    /\ toReceiver # <<>> /\ Head(toReceiver).type = type /\ Head(toReceiver).id = id
    /\ toReceiver' = Tail(toReceiver) /\ UNCHANGED cancelReceiver

ControlHeard(e) ==
    \/ e = EndEvent /\ Handled("file_end", rid)
    \/ e = CancelEvent /\ Handled("file_cancel", rid)
    \/ /\ e = CancelEvent /\ rid \in cancelReceiver
       /\ cancelReceiver' = cancelReceiver \ {rid} /\ UNCHANGED toReceiver

ChunksMove ==
    \/ /\ UNCHANGED <<rEvents, rPending, rExpected>>
       /\ lanes' \subseteq lanes \/ SendChunk
    \/ /\ UNCHANGED <<lanes, rPending, rExpected>>
       /\ \E e \in {EndEvent, CancelEvent} : ControlHeard(e) /\ rEvents' = Append(rEvents, e)
    \/ /\ UNCHANGED <<rPending, rExpected>>
       /\ \E c \in lanes : /\ c.id = rid /\ lanes' = lanes \ {c}
                           /\ rEvents' = Append(rEvents, c)
    \/ /\ UNCHANGED <<lanes, rExpected>> /\ rEvents # <<>> /\ rEvents' = Tail(rEvents)
       /\ \/ UNCHANGED rPending
          \/ IsChunk(Head(rEvents)) /\ rPending' = rPending \cup {Head(rEvents)}
    \/ /\ UNCHANGED <<lanes, rEvents>>
       /\ \E c \in rPending : ChunkWritten(c)

(* What a step does with the chunks of a transfer that stays registered. *)
LEMMA ChunksStep ==
    ASSUME "dup" \notin Faults, IInv, [Next]_vars, rpc # "none", rpc' # "none"
    PROVE  ChunksMove
  <1>1. SendFile \/ SenderSteps \/ SenderHandlers \/ CtxDone \/ SendRefused \/ SourceChange \/ PeerCancel
           => UNCHANGED <<rEvents, rPending, rExpected>>
    BY DEF SendFile, SenderSteps, SenderHandlers, Accepted, SendChunk, SendEnd, Block,
           Wake, WaitForBuffer, Completed, Cancelled, SenderTimeout, HandleAccept,
           HandleAck, HandleCancelOfSender, CtxDone, SendRefused, SourceChange,
           PeerCancel, receiverSide, loopVars
  <1>2. lanes' \subseteq lanes \/ SendChunk
    BY NewChunks
  <1>3. CASE UNCHANGED <<rEvents, rPending, rExpected>>
    BY <1>2, <1>3 DEF ChunksMove
  <1>4. CASE TakeChunk
    BY <1>4 DEF TakeChunk, Take, ReceiveFailed, Finish, ChunksMove, IsChunk, senderSide
  <1>5. CASE TakeEnd
    BY <1>5 DEF TakeEnd, Take, ChunksMove, senderSide
  <1>6. TakeCancel \/ EndDeadline \/ LoopClosed \/ FinishReceiver \/ DiskError \/ Crash
        \/ PowerLoss => rpc' = "none"
    BY DEF TakeCancel, EndDeadline, LoopClosed, FinishReceiver, DiskError, Crash, PowerLoss,
           ReceiveFailed, Finish, noReceiver
  <1>7. ASSUME NEW late \in BOOLEAN, WriteChunk(late)
        PROVE  ChunksMove
    BY <1>7, WriteChunkFacts DEF WritesChunk, ChunksMove, ChunkWritten
  <1>8. (\E late \in BOOLEAN : Sidecar(late))
        \/ StartLoop \/ Sync \/ Drained \/ RemoveDestination \/ Unlink
        => UNCHANGED <<rEvents, rPending, rExpected>>
    BY DEF Sidecar, StartLoop, Sync, Drained, RemoveDestination, Unlink, loopVars
  <1>9. Complete \/ Rename => UNCHANGED <<rEvents, rPending, rExpected>>
    BY DEF Complete, Rename, ReceiveFailed, Finish, loopVars
  <1>10. ASSUME NEW o \in starting, StartReceive(o)
         PROVE  FALSE
    BY <1>10 DEF StartReceive
  <1>11. (\E l \in rLeaving : Leave(l)) \/ Refusals \/ HandleFileStart
         => UNCHANGED <<rEvents, rPending, rExpected>>
    BY DEF Leave, Refusals, StartRefused, HandleFileStart, receiverCore, loopVars
  <1>12. CASE HandleFileEnd
    BY <1>12 DEF HandleFileEnd, receiverCore, Registered, ChunksMove, EndEvent, ControlHeard,
                 Handled
  <1>13. CASE HandleChunk
    BY <1>13 DEF HandleChunk, receiverCore, Registered, ChunksMove, Fault
  <1>14. CASE HandleCancelOfReceiver
    BY <1>14 DEF HandleCancelOfReceiver, Registered, ReceiveFailed, Finish, loopVars,
                 ChunksMove, CancelEvent, ControlHeard, Handled
  <1>15. Close \/ Reconnect \/ LaneLost \/ UserFile \/ UNCHANGED vars
         => UNCHANGED <<rEvents, rPending, rExpected>>
    BY DEF Close, Reconnect, LaneLost, UserFile, vars, loopVars
  <1> QED
    BY <1>1, <1>3, <1>4, <1>5, <1>6, <1>7, <1>8, <1>9, <1>10, <1>11, <1>12, <1>13,
       <1>14, <1>15
       DEF Next, Quiescent, ReceiverSteps, ReceiverHandlers, Environment

(* An event is a chunk, a file_end or a file_cancel. *)
LEMMA EventKinds ==
    ASSUME IInv
    PROVE  /\ \A e \in Range(rEvents) : e \in Event /\ (IsChunk(e) => e \in Chunk)
           /\ EndEvent \in Event /\ CancelEvent \in Event
           /\ ~IsChunk(EndEvent) /\ ~IsChunk(CancelEvent) /\ EndEvent # CancelEvent
           /\ \A e \in Event : \/ e \in Chunk /\ IsChunk(e)
                               \/ e = EndEvent /\ e.type = "end"
                               \/ e = CancelEvent /\ e.type = "cancel"
  <1>1. rEvents \in Seq(Event)
    BY DEF IInv, ReceiverTypeOK
  <1>2. Range(rEvents) \subseteq Event
    BY <1>1, RangeEquality
  <1>3. EndEvent \in Event /\ CancelEvent \in Event /\ ~IsChunk(EndEvent)
        /\ ~IsChunk(CancelEvent) /\ EndEvent.type = "end" /\ CancelEvent.type = "cancel"
    BY DEF Event, EndEvent, CancelEvent, IsChunk
  <1>4. ASSUME NEW e \in Event
        PROVE  \/ e \in Chunk /\ IsChunk(e)
               \/ e = EndEvent /\ e.type = "end"
               \/ e = CancelEvent /\ e.type = "cancel"
    BY DEF Event, EndEvent, CancelEvent, IsChunk, Chunk
  <1>5. \A e \in Event : IsChunk(e) => e \in Chunk
    BY <1>3, <1>4
  <1>6. EndEvent # CancelEvent
    BY <1>3
  <1> QED
    BY <1>2, <1>3, <1>4, <1>5, <1>6

(* What is unwritten are chunks. *)
LEMMA UnwrittenType ==
    ASSUME IInv
    PROVE  /\ Unwritten \subseteq Chunk
           /\ \A c \in Unwritten : c.offset \in Nat /\ c.length \in Nat
  <1>1. Unwritten \subseteq Chunk
    BY EventKinds DEF Unwritten, IInv, NetTypeOK, ReceiverTypeOK
  <1>2. \A c \in Chunk : c.offset \in Nat /\ c.length \in Nat
    BY DEF Chunk
  <1> QED
    BY <1>1, <1>2

(* Nothing is read of a file but what is left of it. *)
LEMMA ReadLengthRange ==
    ASSUME IInv, sOffset < Size, ReadLength > 0
    PROVE  ReadLength \in Nat /\ ReadLength >= 1 /\ sOffset + ReadLength <= Size
  <1>1. source.len \in Nat /\ sOffset \in Nat /\ Size \in Nat /\ ChunkSize \in Nat
    BY ProtocolAssumption DEF IInv, SenderTypeOK
  <1> QED
    BY <1>1 DEF ReadLength, LargerOf, SmallerOf

(* Chunks stay as they are, but for one that SendFile sends. *)
LEMMA UnwrittenStep ==
    ASSUME "dup" \notin Faults, IInv, [Next]_vars, rpc # "none", rpc' # "none"
    PROVE  /\ rid' = rid
           /\ \A c \in Unwritten' :
                 \/ c \in Unwritten
                 \/ /\ SendChunk /\ open /\ sid = rid /\ c.id = rid
                    /\ UNCHANGED <<rEvents, rPending, rExpected>>
                    /\ c.offset = sOffset /\ c.length = ReadLength
                    /\ sOffset' = sOffset + ReadLength
                    /\ spc = "stream" /\ spc' = "stream" /\ sOffset < Size /\ ReadLength > 0
  <1>1. ChunksMove
    BY ChunksStep
  <1>2. rid' = rid
    BY RegistryStep DEF StartReceive
  <1> SUFFICES ASSUME NEW c \in Unwritten', c \notin Unwritten
               PROVE  /\ SendChunk /\ open /\ sid = rid /\ c.id = rid
                      /\ UNCHANGED <<rEvents, rPending, rExpected>>
                      /\ c.offset = sOffset /\ c.length = ReadLength
                      /\ sOffset' = sOffset + ReadLength
                      /\ spc = "stream" /\ spc' = "stream" /\ sOffset < Size /\ ReadLength > 0
    BY <1>2
  <1>3. rEvents \in Seq(Event) /\ lanes \subseteq Chunk
    BY DEF IInv, ReceiverTypeOK, NetTypeOK
  <1>4. CASE UNCHANGED <<rEvents, rPending, rExpected>> /\ lanes' \subseteq lanes
    BY <1>2, <1>4 DEF Unwritten
  <1>5. CASE UNCHANGED <<rEvents, rPending, rExpected>> /\ SendChunk
    <2>1. c \in lanes' /\ c \notin lanes /\ c.id = rid
      BY <1>2, <1>5 DEF Unwritten
    <2> QED
      BY <1>5, <2>1 DEF SendChunk
  <1>6. ASSUME UNCHANGED <<lanes, rPending, rExpected>>,
               NEW e \in {EndEvent, CancelEvent}, rEvents' = Append(rEvents, e)
        PROVE  FALSE
    <2>1. Range(rEvents') = Range(rEvents) \cup {e} /\ ~IsChunk(e)
      BY <1>3, <1>6, EventKinds, RangeAppend
    <2> QED
      BY <1>2, <1>6, <2>1 DEF Unwritten
  <1>7. ASSUME UNCHANGED <<rPending, rExpected>>, NEW d \in lanes, d.id = rid,
               lanes' = lanes \ {d}, rEvents' = Append(rEvents, d)
        PROVE  FALSE
    <2>1. d \in Event
      BY <1>3 DEF Event
    <2>2. Range(rEvents') = Range(rEvents) \cup {d}
      BY <1>3, <1>7, <2>1, RangeAppend
    <2> QED
      BY <1>2, <1>7, <2>2 DEF Unwritten
  <1>8. CASE /\ UNCHANGED <<lanes, rExpected>> /\ rEvents # <<>> /\ rEvents' = Tail(rEvents)
             /\ \/ UNCHANGED rPending
                \/ IsChunk(Head(rEvents)) /\ rPending' = rPending \cup {Head(rEvents)}
    <2>1. Range(rEvents') \subseteq Range(rEvents) /\ Head(rEvents) \in Range(rEvents)
      BY <1>3, <1>8, RangeTail
    <2> QED
      BY <1>2, <1>8, <2>1 DEF Unwritten
  <1>9. ASSUME UNCHANGED <<lanes, rEvents>>, NEW d \in rPending, ChunkWritten(d)
        PROVE  FALSE
    BY <1>2, <1>9 DEF Unwritten, ChunkWritten
  <1> QED
    BY <1>1, <1>4, <1>5, <1>6, <1>7, <1>8, <1>9 DEF ChunksMove

(* What the loop is told was on its way. *)
LEMMA HeardFlew ==
    ASSUME IInv, NEW e, ControlHeard(e)
    PROVE  \/ e = EndEvent /\ Flies("file_end", rid)
           \/ e = CancelEvent /\ CancelFlies(rid)
  <1>1. toReceiver # <<>> => Head(toReceiver) \in Range(toReceiver)
    BY RangeTail DEF IInv, NetTypeOK
  <1> QED
    BY <1>1 DEF ControlHeard, Handled, Flies, CancelFlies

(* No chunk is put in two places. *)
LEMMA PlaceNext ==
    ASSUME "dup" \notin Faults, IInv, EmptyInv, FlowInv, PlaceInv, AheadInv, ToldInv,
           [Next]_vars
    PROVE  PlaceInv'
  <1> SUFFICES ASSUME rpc' # "none"
               PROVE  /\ \A c \in lanes' : c \notin rPending' /\ c \notin Range(rEvents')
                      /\ \A c \in rPending' : c \notin Range(rEvents')
                      /\ NoRepeats(rEvents')
    BY DEF PlaceInv
  <1>1. CASE rpc = "none"
    <2>1. \E o \in starting : StartReceive(o)
      BY <1>1, RegistryStep
    <2>2. rEvents' = <<>> /\ rPending' = {}
      BY <1>1, <2>1 DEF EmptyInv, StartReceive
    <2> QED
      BY <2>2, RangeEmpty DEF NoRepeats
  <1> SUFFICES ASSUME rpc # "none"
               PROVE  /\ \A c \in lanes' : c \notin rPending' /\ c \notin Range(rEvents')
                      /\ \A c \in rPending' : c \notin Range(rEvents')
                      /\ NoRepeats(rEvents')
    BY <1>1
  <1>2. ChunksMove
    BY ChunksStep
  <1>3. /\ \A c \in lanes : c \notin rPending /\ c \notin Range(rEvents)
        /\ \A c \in rPending : c \notin Range(rEvents)
        /\ NoRepeats(rEvents)
    BY DEF PlaceInv
  <1>4. /\ rEvents \in Seq(Event) /\ lanes \subseteq Chunk /\ rPending \subseteq Chunk
        /\ \A c \in Chunk : IsChunk(c) /\ c \in Event
    BY DEF IInv, ReceiverTypeOK, NetTypeOK, Event, Chunk, IsChunk
  <1>5. CASE UNCHANGED <<rEvents, rPending, rExpected>> /\ lanes' \subseteq lanes
    BY <1>3, <1>5
  <1>6. CASE UNCHANGED <<rEvents, rPending, rExpected>> /\ SendChunk
    <2> SUFFICES ASSUME NEW c \in lanes', c \notin lanes, c \in rPending \cup Range(rEvents)
                 PROVE  FALSE
      BY <1>3, <1>6
    <2>1. c.id = sid /\ c.offset = sOffset /\ spc = "stream"
      BY <1>6 DEF SendChunk
    <2>2. IInv'
      BY NextInv
    <2>3. c \in Chunk /\ IsChunk(c)
      BY <1>4, <2>2 DEF IInv, NetTypeOK
    <2>4. c \in Unwritten
      BY <2>3 DEF Unwritten
    <2>5. c.id = rid /\ Within(c)
      BY <2>4 DEF FlowInv
    <2>6. Ahead
      BY <2>1, <2>5 DEF AheadInv, Sending
    <2>7. c.offset + c.length <= sOffset /\ c.length >= 1
      BY <2>4, <2>5, <2>6 DEF Ahead, Within
    <2>8. c.offset \in Nat /\ c.length \in Nat
      BY <2>4, UnwrittenType
    <2> QED
      BY <2>1, <2>7, <2>8
  <1>7. ASSUME UNCHANGED <<lanes, rPending, rExpected>>,
               NEW e \in {EndEvent, CancelEvent}, ControlHeard(e),
               rEvents' = Append(rEvents, e)
        PROVE  /\ \A c \in lanes' : c \notin rPending' /\ c \notin Range(rEvents')
               /\ \A c \in rPending' : c \notin Range(rEvents')
               /\ NoRepeats(rEvents')
    <2>1. e \notin Range(rEvents)
      BY <1>7, HeardFlew DEF ToldInv, Ended
    <2>2. e \in Event /\ ~IsChunk(e)
      BY EventKinds
    <2>3. Range(rEvents') = Range(rEvents) \cup {e} /\ NoRepeats(rEvents')
      BY <1>3, <1>4, <1>7, <2>1, <2>2, RangeAppend, NoRepeatsAppend
    <2> QED
      BY <1>3, <1>4, <1>7, <2>2, <2>3
  <1>8. ASSUME UNCHANGED <<rPending, rExpected>>, NEW d \in lanes, d.id = rid,
               lanes' = lanes \ {d}, rEvents' = Append(rEvents, d)
        PROVE  /\ \A c \in lanes' : c \notin rPending' /\ c \notin Range(rEvents')
               /\ \A c \in rPending' : c \notin Range(rEvents')
               /\ NoRepeats(rEvents')
    <2>1. d \in Event /\ d \notin Range(rEvents)
      BY <1>3, <1>4
    <2>2. Range(rEvents') = Range(rEvents) \cup {d} /\ NoRepeats(rEvents')
      BY <1>3, <1>4, <1>8, <2>1, RangeAppend, NoRepeatsAppend
    <2> QED
      BY <1>3, <1>8, <2>2
  <1>9. CASE /\ UNCHANGED <<lanes, rExpected>> /\ rEvents # <<>> /\ rEvents' = Tail(rEvents)
             /\ \/ UNCHANGED rPending
                \/ IsChunk(Head(rEvents)) /\ rPending' = rPending \cup {Head(rEvents)}
    <2>1. Range(rEvents') \subseteq Range(rEvents) /\ Head(rEvents) \in Range(rEvents)
      BY <1>4, <1>9, RangeTail
    <2>2. NoRepeats(rEvents') /\ Head(rEvents) \notin Range(rEvents')
      BY <1>3, <1>4, <1>9, NoRepeatsTail
    <2> QED
      BY <1>3, <1>9, <2>1, <2>2
  <1>10. ASSUME UNCHANGED <<lanes, rEvents>>, NEW d \in rPending, ChunkWritten(d)
         PROVE  /\ \A c \in lanes' : c \notin rPending' /\ c \notin Range(rEvents')
                /\ \A c \in rPending' : c \notin Range(rEvents')
                /\ NoRepeats(rEvents')
    BY <1>3, <1>10 DEF ChunkWritten
  <1> QED
    BY <1>2, <1>5, <1>6, <1>7, <1>8, <1>9, <1>10 DEF ChunksMove

(* Only file_end makes the loop end. *)
LEMMA EndStep ==
    ASSUME [Next]_vars
    PROVE  TakeEnd \/ UNCHANGED rEnd \/ (rpc' = "none" /\ rEnd' = FALSE)
  <1>1. ReceiverSteps => TakeEnd \/ UNCHANGED rEnd \/ (rpc' = "none" /\ rEnd' = FALSE)
    BY DEF ReceiverSteps, StartReceive, StartLoop, TakeChunk, TakeCancel, EndDeadline,
           LoopClosed, WriteChunk, Sidecar, Sync, Drained, Complete, RemoveDestination, Rename,
           Unlink, FinishReceiver, Leave, ReceiveFailed, Finish, loopVars
  <1>2. HandleCancelOfReceiver \/ DiskError \/ Crash \/ PowerLoss
           => UNCHANGED rEnd \/ (rpc' = "none" /\ rEnd' = FALSE)
    BY DEF HandleCancelOfReceiver, DiskError, Crash, PowerLoss, ReceiveFailed, Finish,
           noReceiver, loopVars
  <1> QED
    BY <1>1, <1>2, ReceiverFrame

(* A transfer that leaves the registry leaves no events behind. *)
LEMMA EmptyNext ==
    ASSUME EmptyInv, [Next]_vars
    PROVE  EmptyInv'
  <1>1. rpc' = "none" => rEvents' = <<>> /\ rPending' = {}
    <2>1. (\E o \in starting : StartReceive(o)) => rpc' = "opened"
      BY DEF StartReceive
    <2> QED
      BY <2>1, EventsStep DEF EventsChange, EmptyInv, Registered
  <1>2. rpc' = "none" /\ rpc # "none" => ~rEnd'
    <2>1. ReceiverSteps /\ rpc' = "none" /\ rpc # "none" => rEnd' = FALSE
      BY DEF ReceiverSteps, StartReceive, StartLoop, TakeChunk, TakeEnd, TakeCancel,
             EndDeadline, LoopClosed, WriteChunk, Sidecar, Sync, Drained, Complete,
             RemoveDestination, Rename, Unlink, FinishReceiver, Leave, ReceiveFailed, Finish,
             AfterComplete
    <2>2. /\ HandleCancelOfReceiver \/ DiskError \/ Crash \/ PowerLoss
          /\ rpc' = "none" /\ rpc # "none"
          => rEnd' = FALSE
      BY DEF HandleCancelOfReceiver, DiskError, Crash, PowerLoss, ReceiveFailed, Finish,
             noReceiver
    <2> QED
      BY <2>1, <2>2, ReceiverFrame
  <1>3. rpc' = "none" /\ rpc = "none" => ~rEnd'
    <2>1. TakeEnd => rpc # "none"
      BY DEF TakeEnd, Take
    <2> QED
      BY <2>1, EndStep DEF EmptyInv
  <1> QED
    BY <1>1, <1>2, <1>3 DEF EmptyInv

(* When a transfer starts there are no chunks of it. *)
LEMMA StartEmpty ==
    ASSUME IInv, EmptyInv, OfferInv, FreshInv, NEW o \in starting, StartReceive(o)
    PROVE  /\ Unwritten' = {} /\ o.id \in TransferIDs /\ rid' = o.id /\ rpc' = "opened"
           /\ Fresh(o.id) /\ Untouched(o.id)
           /\ rExpected' \in Nat /\ rExpected' <= Size /\ rExpected' % ChunkSize = 0
           /\ rEvents' = <<>> /\ rPending' = {} /\ rEnd' = FALSE
           /\ UNCHANGED senderVars /\ UNCHANGED <<toSender, toReceiver, lanes, cancelReceiver,
                                                  cancelSender, committed>>
  <1>1. o.id \in TransferIDs
    BY DEF IInv, ReceiverTypeOK, Offer
  <1>2. Fresh(o.id)
    BY DEF Fresh, Offered
  <1>3. Untouched(o.id)
    BY <1>1, <1>2 DEF FreshInv
  <1>4. /\ rpc = "none" /\ rid' = o.id /\ rpc' = "opened" /\ rExpected' = ResumePoint(o)
        /\ UNCHANGED <<rEvents, rPending, rEnd>>
        /\ UNCHANGED senderVars /\ UNCHANGED <<toSender, toReceiver, lanes, cancelReceiver,
                                               cancelSender, committed>>
    BY DEF StartReceive, senderSide
  <1>5. rEvents' = <<>> /\ rPending' = {} /\ rEnd' = FALSE
    BY <1>4 DEF EmptyInv, IInv, ReceiverTypeOK
  <1>6. Unwritten' = {}
    BY <1>3, <1>4, <1>5, RangeEmpty DEF Unwritten, Untouched
  <1>7. Size \in Nat /\ ChunkSize \in Nat \ {0}
    BY ProtocolAssumption
  <1>8. 0 % ChunkSize = 0
    BY <1>7
  <1>9. ResumePoint(o) \in Nat /\ ResumePoint(o) <= Size /\ ResumePoint(o) % ChunkSize = 0
    BY <1>7, <1>8, ResumedPart, ResumePointType
  <1> QED
    BY <1>1, <1>2, <1>3, <1>4, <1>5, <1>6, <1>9

(* Chunks do not overlap, and are written in the order of the file. *)
LEMMA FlowNext ==
    ASSUME "dup" \notin Faults, IInv, EmptyInv, OfferInv, FreshInv, FlowInv, PlaceInv,
           AheadInv, [Next]_vars
    PROVE  FlowInv'
  <1> SUFFICES ASSUME rpc' # "none"
               PROVE  /\ rExpected' <= Size
                      /\ \A c \in Unwritten' :
                            c.id = rid' /\ Within(c) /\ rExpected' <= c.offset
                      /\ \A c, d \in Unwritten' : c # d => Apart(c, d)
    BY DEF FlowInv, Within, Apart
  <1>1. CASE rpc = "none"
    <2>1. PICK o \in starting : StartReceive(o)
      BY <1>1, RegistryStep
    <2> QED
      BY <2>1, StartEmpty
  <1> SUFFICES ASSUME rpc # "none"
               PROVE  /\ rExpected' <= Size
                      /\ \A c \in Unwritten' :
                            c.id = rid' /\ Within(c) /\ rExpected' <= c.offset
                      /\ \A c, d \in Unwritten' : c # d => Apart(c, d)
    BY <1>1
  <1>2. /\ rExpected <= Size
        /\ \A c \in Unwritten : c.id = rid /\ Within(c) /\ rExpected <= c.offset
        /\ \A c, d \in Unwritten : c # d => Apart(c, d)
    BY DEF FlowInv
  <1>3. rid' = rid
    BY UnwrittenStep
  <1>4. rExpected \in Nat /\ sOffset \in Nat /\ Size \in Nat
    BY ProtocolAssumption DEF IInv, ReceiverTypeOK, SenderTypeOK
  <1>5. CASE Unwritten' \subseteq Unwritten /\ UNCHANGED rExpected
    BY <1>2, <1>3, <1>5
  <1>6. CASE \E c \in Unwritten' : c \notin Unwritten
    <2>1. PICK c \in Unwritten' : c \notin Unwritten
      BY <1>6
    <2>2. /\ SendChunk /\ sid = rid /\ c.id = rid /\ UNCHANGED rExpected
          /\ c.offset = sOffset /\ c.length = ReadLength
          /\ spc = "stream" /\ sOffset < Size /\ ReadLength > 0
      BY <2>1, UnwrittenStep
    <2>3. ReadLength \in Nat /\ Within(c)
      BY <2>2, ReadLengthRange DEF Within
    <2>4. Ahead
      BY <2>2 DEF AheadInv, Sending
    <2>5. \A d \in Unwritten' :
             \/ d \in Unwritten
             \/ d.offset = c.offset /\ d.id = rid /\ d \in lanes' /\ d \notin lanes
      BY <1>3, <2>1, <2>2, UnwrittenStep DEF Unwritten
    <2>6. \A d \in Unwritten' : d \in Unwritten \/ d = c
      <3>1. c \in lanes' /\ c \notin lanes
        BY <1>3, <2>1, <2>2, UnwrittenStep DEF Unwritten
      <3>2. \A d \in lanes' : d \in lanes \/ d = c
        BY <2>2, <3>1 DEF SendChunk
      <3> QED
        BY <2>5, <3>2
    <2>7. \A d \in Unwritten : Apart(d, c) /\ Apart(c, d)
      BY <2>2, <2>4 DEF Ahead, Apart
    <2>8. rExpected <= c.offset
      BY <2>2, <2>4 DEF Ahead
    <2> QED
      BY <1>2, <1>3, <2>2, <2>3, <2>6, <2>7, <2>8
  <1>7. ASSUME UNCHANGED <<lanes, rEvents>>, NEW d \in rPending, ChunkWritten(d)
        PROVE  /\ rExpected' <= Size
               /\ \A c \in Unwritten' : c.id = rid' /\ Within(c) /\ rExpected' <= c.offset
               /\ \A c, e \in Unwritten' : c # e => Apart(c, e)
    <2>1. /\ d \in Unwritten /\ Within(d)
          /\ d.offset = rExpected /\ rExpected' = rExpected + d.length
      BY <1>2, <1>7 DEF Unwritten, ChunkWritten
    <2>2. Unwritten' \subseteq Unwritten \ {d}
      BY <1>3, <1>7 DEF Unwritten, ChunkWritten, PlaceInv
    <2>3. rExpected' <= Size
      BY <2>1 DEF Within
    <2>4. ASSUME NEW c \in Unwritten'
          PROVE  c.id = rid' /\ Within(c) /\ rExpected' <= c.offset
      <3>1. c \in Unwritten /\ c # d
        BY <2>2
      <3>2. Within(c) /\ c.id = rid /\ rExpected <= c.offset /\ Apart(c, d)
        BY <1>2, <2>1, <3>1
      <3>3. c.offset \in Nat /\ c.length \in Nat /\ d.offset \in Nat /\ d.length \in Nat
        BY <2>1, <3>1, UnwrittenType
      <3>4. rExpected' <= c.offset
        BY <1>4, <2>1, <3>2, <3>3 DEF Apart, Within
      <3> QED
        BY <1>3, <3>2, <3>4
    <2> QED
      BY <1>2, <2>2, <2>3, <2>4
  <1>8. UNCHANGED rExpected
        \/ \E d \in rPending : ChunkWritten(d) /\ UNCHANGED <<lanes, rEvents>>
    BY ChunksStep DEF ChunksMove
  <1> QED
    BY <1>5, <1>6, <1>7, <1>8

-----------------------------------------------------------------------------
(* Where SendFile is *)

CallMoves ==
    \/ SendFile /\ spc = "idle" /\ spc' = "waitAccept" /\ sid' = sid + 1
    \/ /\ UNCHANGED sid
       /\ \/ spc' = "idle"
          \/ Accepted
          \/ SendChunk /\ spc = "stream" /\ spc' = "stream"
          \/ SendEnd /\ spc = "stream" /\ spc' = "final" /\ UNCHANGED sOffset
          \/ UNCHANGED <<spc, sOffset>>
          \/ /\ UNCHANGED sOffset
             /\ <<spc, spc'>> \in {<<"stream", "waitAck">>, <<"waitAck", "stream">>,
                                   <<"stream", "waitBuffer">>, <<"waitBuffer", "stream">>,
                                   <<"final", "waitFinal">>, <<"waitFinal", "final">>}

(* The steps of SendFile are these. *)
LEMMA CallsMove ==
    ASSUME [Next]_vars
    PROVE  CallMoves
  <1>1. SendFile => CallMoves
    BY DEF SendFile, CallMoves
  <1>2. SenderSteps => CallMoves
    BY DEF SenderSteps, Accepted, SendChunk, SendEnd, Block, Wake, WaitForBuffer,
           Completed, Cancelled, SenderTimeout, SenderReturn, CallMoves
  <1>3. SenderHandlers \/ SourceChange \/ UNCHANGED senderVars => CallMoves
    BY DEF SenderHandlers, HandleAccept, HandleAck, HandleCancelOfSender, SourceChange,
           senderVars, CallMoves
  <1>4. CtxDone \/ SendRefused \/ PeerCancel => CallMoves
    BY DEF CtxDone, SendRefused, PeerCancel, SenderReturn, CallMoves
  <1> QED
    BY <1>1, <1>2, <1>3, <1>4, SenderFrame

(* A call that has ended, or is done with its chunks, stays so. *)
LEMMA CallsEnd ==
    ASSUME IInv, [Next]_vars
    PROVE  /\ sid' \in Nat /\ sid \in Nat /\ sid <= sid'
           /\ \A id \in Nat : id <= sid /\ Sending(id)' => Sending(id) /\ sid' = sid /\ sid = id
           /\ \A id \in Nat : id <= sid /\ Producing(id)' => Producing(id)
  <1>1. sid \in Nat
    BY DEF IInv, SenderTypeOK
  <1>2. CallMoves
    BY CallsMove
  <1>3. sid' \in Nat /\ sid <= sid'
    BY <1>1, <1>2 DEF CallMoves
  <1>4. ASSUME NEW id \in Nat, id <= sid, Sending(id)'
        PROVE  Sending(id) /\ sid' = sid /\ sid = id
    <2>1. sid' = sid
      BY <1>1, <1>2, <1>4 DEF CallMoves, Sending
    <2>2. spc # "idle"
      BY <1>1, <1>2, <1>4, <2>1 DEF CallMoves, Sending, Accepted
    <2> QED
      BY <1>4, <2>1, <2>2 DEF Sending
  <1>5. ASSUME NEW id \in Nat, id <= sid, Producing(id)'
        PROVE  Producing(id)
    <2>1. Sending(id) /\ sid' = sid
      BY <1>4, <1>5 DEF Producing
    <2>2. spc' \in {"waitAccept", "stream", "waitAck", "waitBuffer"}
      BY <1>5 DEF Producing
    <2>3. spc \in {"waitAccept", "stream", "waitAck", "waitBuffer"}
      BY <1>1, <1>2, <2>1, <2>2 DEF CallMoves, Accepted
    <2> QED
      BY <2>1, <2>3 DEF Producing
  <1> QED
    BY <1>1, <1>3, <1>4, <1>5

(* SendFile takes an answer from the receiver only. *)
LEMMA AcceptStep ==
    ASSUME [Next]_vars
    PROVE  \/ UNCHANGED sAccept
           \/ spc' = "idle"
           \/ Accepted
           \/ /\ toSender # <<>> /\ IsAnswer(Head(toSender)) /\ Sending(Head(toSender).id)
              /\ sAccept' = Head(toSender).n
  <1>1. SendFile \/ SourceChange \/ UNCHANGED senderVars => UNCHANGED sAccept
    BY DEF SendFile, SourceChange, senderVars
  <1>2. SenderSteps \/ CtxDone \/ SendRefused \/ PeerCancel => UNCHANGED sAccept \/ spc' = "idle" \/ Accepted
    BY DEF SenderSteps, SendChunk, SendEnd, Block, Wake, WaitForBuffer, Completed, Cancelled,
           SenderTimeout, SenderReturn, CtxDone, SendRefused, PeerCancel
  <1>3. SenderHandlers =>
           \/ UNCHANGED sAccept
           \/ /\ toSender # <<>> /\ IsAnswer(Head(toSender)) /\ Sending(Head(toSender).id)
              /\ sAccept' = Head(toSender).n
    BY DEF SenderHandlers, HandleAccept, HandleAck, HandleCancelOfSender, IsAnswer
  <1> QED
    BY <1>1, <1>2, <1>3, SenderFrame

(* The receiver's answer says what it has. *)
LEMMA AnswerSaid ==
    ASSUME IInv, [Next]_vars, rpc # "none", rpc' # "none",
           NEW m \in Range(toSender'), IsAnswer(m), m.id = rid
    PROVE  m \in Range(toSender) \/ (m.n = rExpected /\ rpc = "opened" /\ rpc' = "loop")
  <1>1. m \in Range(toSender) \/ Said(m)
    BY NewMessages DEF NothingElseSaid
  <1>2. CASE Said(m)
    BY <1>2 DEF Said, SaysAccept, SaysProgress, SaysCheckpoint, SaysCommit, IsAnswer,
                ProgressType
  <1> QED
    BY <1>1, <1>2

(* SendFile stays ahead: it sends on from what it was told is written. *)
LEMMA AheadNext ==
    ASSUME "dup" \notin Faults, IInv, EmptyInv, OfferInv, FreshInv, FlowInv,
           AheadInv, [Next]_vars
    PROVE  AheadInv'
  <1> SUFFICES ASSUME rpc' # "none"
               PROVE  /\ rid' <= sid'
                      /\ Sending(rid)' => IF spc' = "waitAccept" THEN Unanswered' ELSE Ahead'
    BY DEF AheadInv
  <1>0. sid \in Nat /\ sid' \in Nat /\ sid <= sid' /\ rid \in Nat /\ rExpected \in Nat
        /\ Size \in Nat /\ sOffset \in Nat /\ Empty = -1
    BY CallsEnd, ProtocolAssumption DEF IInv, ReceiverTypeOK, SenderTypeOK, Empty
  <1>1. CASE rpc = "none"
    <2>1. PICK o \in starting : StartReceive(o)
      BY <1>1, RegistryStep
    <2>2. o.id <= sid
      BY DEF OfferInv
    <2>3. rid' = o.id /\ sid' = sid /\ spc' = spc /\ sAccept' = sAccept /\ toSender' = toSender
      BY <2>1, StartEmpty DEF senderVars
    <2>4. Sending(rid)' => spc = "waitAccept" /\ sAccept = Empty
      BY <2>1, <2>3, StartEmpty DEF Untouched, Sending
    <2>5. \A m \in Range(toSender') : ~(IsAnswer(m) /\ m.id = rid')
      BY <2>1, <2>3, StartEmpty DEF Untouched, IsAnswer
    <2>6. Unwritten' = {} /\ rExpected' % ChunkSize = 0
      BY <2>1, StartEmpty
    <2> QED
      BY <2>2, <2>3, <2>4, <2>5, <2>6 DEF Unanswered
  <1>2. CASE rpc # "none"
    <2>1. rid' = rid /\ rid <= sid
      BY <1>2, UnwrittenStep DEF AheadInv
    <2>2. rid' <= sid'
      BY <1>0, <2>1
    <2> SUFFICES ASSUME Sending(rid)'
                 PROVE  IF spc' = "waitAccept" THEN Unanswered' ELSE Ahead'
      BY <2>2
    <2>3. Sending(rid) /\ sid' = sid /\ sid = rid /\ spc # "idle" /\ spc' # "idle"
      BY <1>0, <2>1, CallsEnd DEF Sending
    <2>4. CallMoves
      BY CallsMove
    <2>5. UNCHANGED rExpected
          \/ \E d \in rPending : ChunkWritten(d) /\ UNCHANGED <<lanes, rEvents>>
      BY <1>2, ChunksStep DEF ChunksMove
    <2>6. CASE spc' = "waitAccept"
      <3>1. spc = "waitAccept"
        BY <1>0, <2>3, <2>4, <2>6 DEF CallMoves, Accepted
      <3>2. Unanswered
        BY <1>2, <2>3, <3>1 DEF AheadInv
      <3>3. Unwritten' = {}
        BY <1>2, <3>1, <3>2, UnwrittenStep DEF Unanswered
      <3>4. UNCHANGED rExpected
        BY <2>5, <3>2 DEF Unanswered, Unwritten
      <3>5. \A m \in Range(toSender') : IsAnswer(m) /\ m.id = rid' => m.n = rExpected'
        BY <1>2, <2>1, <3>2, <3>4, AnswerSaid DEF Unanswered
      <3>6. toSender # <<>> => Head(toSender) \in Range(toSender)
        BY RangeTail DEF IInv, NetTypeOK
      <3>7. ~Accepted
        BY <2>6 DEF Accepted
      <3>8. sAccept' \in {Empty, rExpected'}
        BY <2>3, <3>2, <3>4, <3>6, <3>7, AcceptStep DEF Unanswered, Sending
      <3> QED
        BY <2>6, <3>2, <3>3, <3>4, <3>5, <3>8 DEF Unanswered
    <2>7. CASE Accepted
      <3>1. spc = "waitAccept" /\ sAccept # Empty /\ spc' = "stream"
            /\ sOffset' = ResumeOffset(sAccept)
            /\ UNCHANGED <<rExpected, rid, rEvents, rPending, lanes>>
        BY <2>7 DEF Accepted, receiverSide, loopVars, netVars
      <3>2. Unanswered
        BY <1>2, <2>3, <3>1 DEF AheadInv
      <3>3. sAccept = rExpected /\ rExpected <= Size /\ rExpected % ChunkSize = 0
        BY <1>2, <3>1, <3>2 DEF Unanswered, FlowInv
      <3>4. ResumeOffset(sAccept) = rExpected
        BY <1>0, <3>3 DEF ResumeOffset
      <3>5. Unwritten' = {}
        BY <3>1, <3>2 DEF Unanswered, Unwritten
      <3> QED
        BY <1>0, <3>1, <3>4, <3>5 DEF Ahead
    <2>8. CASE spc' # "waitAccept" /\ ~Accepted
      <3>1. spc # "waitAccept"
        BY <1>0, <2>3, <2>4, <2>8 DEF CallMoves
      <3>2. Ahead
        BY <1>2, <2>3, <3>1 DEF AheadInv
      <3>3. sOffset' \in Nat /\ sOffset <= sOffset'
        <4>1. SendChunk /\ spc' = "stream" => sOffset' = sOffset + ReadLength /\ ReadLength > 0
                                              /\ sOffset < Size
          BY DEF SendChunk, SenderReturn
        <4>2. CASE SendChunk /\ spc' = "stream"
          BY <1>0, <4>1, <4>2, ReadLengthRange
        <4>3. CASE UNCHANGED sOffset
          BY <1>0, <4>3
        <4> QED
          BY <1>0, <2>3, <2>4, <2>8, <4>2, <4>3 DEF CallMoves
      <3>4. ASSUME NEW c \in Unwritten'
            PROVE  c.offset + c.length <= sOffset'
        <4>1. CASE c \in Unwritten
          <5>1. c.offset + c.length <= sOffset /\ c.offset \in Nat /\ c.length \in Nat
            BY <3>2, <4>1, UnwrittenType DEF Ahead
          <5> QED
            BY <1>0, <3>3, <5>1
        <4>2. CASE c \notin Unwritten
          <5>1. c.offset = sOffset /\ c.length = ReadLength /\ sOffset' = sOffset + ReadLength
            BY <1>2, <4>2, UnwrittenStep
          <5> QED
            BY <3>3, <5>1
        <4> QED
          BY <4>1, <4>2
      <3>5. rExpected' <= sOffset'
        <4>1. CASE UNCHANGED rExpected
          BY <1>0, <3>2, <3>3, <4>1 DEF Ahead
        <4>2. ASSUME NEW d \in rPending, ChunkWritten(d)
              PROVE  rExpected' <= sOffset'
          <5>1. d \in Unwritten
            BY DEF Unwritten
          <5>2. d.offset + d.length <= sOffset /\ d.offset \in Nat /\ d.length \in Nat
            BY <3>2, <5>1, UnwrittenType DEF Ahead
          <5>3. rExpected' = d.offset + d.length
            BY <4>2 DEF ChunkWritten
          <5> QED
            BY <1>0, <3>3, <5>2, <5>3
        <4> QED
          BY <2>5, <4>1, <4>2
      <3> QED
        BY <2>8, <3>4, <3>5 DEF Ahead
    <2> QED
      BY <2>6, <2>7, <2>8
  <1> QED
    BY <1>1, <1>2

-----------------------------------------------------------------------------
(* Where controls go *)

WireMoves ==
    \/ /\ SendFile /\ UNCHANGED cancelReceiver
       /\ toReceiver' = Append(toReceiver,
               [type |-> "file_start", id |-> sid + 1, ver |-> source.ver])
    \/ /\ SendEnd /\ spc = "stream" /\ spc' = "final" /\ UNCHANGED <<sid, cancelReceiver>>
       /\ toReceiver' = Append(toReceiver,
               [type |-> "file_end", id |-> sid, ver |-> sDigest])
    \/ /\ PeerCancel /\ spc # "idle" /\ spc' = "idle" /\ UNCHANGED sid
       /\ \/ /\ UNCHANGED cancelReceiver
             /\ toReceiver' = Append(toReceiver,
                     [type |-> "file_cancel", id |-> sid, ver |-> sDigest])
          \/ UNCHANGED toReceiver /\ cancelReceiver' = cancelReceiver \cup {sid}
    \/ toReceiver # <<>> /\ toReceiver' = Tail(toReceiver) /\ UNCHANGED cancelReceiver
    \/ toReceiver' \in {toReceiver, <<>>} /\ cancelReceiver' \subseteq cancelReceiver

(* What a step does with the controls towards the receiver. *)
LEMMA WireStep ==
    ASSUME [Next]_vars
    PROVE  WireMoves
  <1>1. CASE SendFile
    BY <1>1 DEF SendFile, WireMoves
  <1>2. CASE SendEnd
    BY <1>2 DEF SendEnd, SenderReturn, WireMoves
  <1>3. CASE PeerCancel
    BY <1>3 DEF PeerCancel, SenderReturn, WireMoves
  <1>4. CASE UNCHANGED <<toReceiver, cancelReceiver>>
    BY <1>4 DEF WireMoves
  <1>5. Accepted \/ SendChunk \/ Block \/ Wake \/ WaitForBuffer \/ Completed \/ Cancelled
        \/ SenderTimeout \/ SenderHandlers \/ CtxDone \/ SendRefused \/ SourceChange
        => UNCHANGED <<toReceiver, cancelReceiver>>
    BY DEF Accepted, SendChunk, Block, Wake, WaitForBuffer, Completed, Cancelled,
           SenderTimeout, SenderHandlers, HandleAccept, HandleAck, HandleCancelOfSender,
           CtxDone, SendRefused, SourceChange, SenderReturn, netVars
  <1>6. ReceiverSteps \/ Refusals \/ DiskError \/ HandleChunk
        => UNCHANGED <<toReceiver, cancelReceiver>>
    BY DEF ReceiverSteps, StartReceive, StartLoop, TakeChunk, TakeEnd, TakeCancel,
           EndDeadline, LoopClosed, WriteChunk, Sidecar, Sync, Drained, Complete,
           RemoveDestination, Rename, Unlink, FinishReceiver, Leave, senderSide,
           Refusals, StartRefused, DiskError, HandleChunk
  <1>7. CASE HandleFileStart \/ HandleFileEnd
    BY <1>7 DEF HandleFileStart, HandleFileEnd, WireMoves
  <1>8. CASE HandleCancelOfReceiver
    BY <1>8 DEF HandleCancelOfReceiver, WireMoves
  <1>9. CASE Close \/ Crash \/ PowerLoss
    BY <1>9 DEF Close, Crash, PowerLoss, Disconnect, WireMoves
  <1>10. Reconnect \/ LaneLost \/ UserFile \/ UNCHANGED vars
         => UNCHANGED <<toReceiver, cancelReceiver>>
    BY DEF Reconnect, LaneLost, UserFile, netVars, vars
  <1> QED
    BY <1>1, <1>2, <1>3, <1>4, <1>5, <1>6, <1>7, <1>8, <1>9, <1>10
       DEF Next, Quiescent, SenderSteps, ReceiverHandlers, Environment

(* The controls on the wire are controls, with ids of transfers. *)
LEMMA ControlTypes ==
    ASSUME IInv
    PROVE  /\ toReceiver \in Seq(ToReceiver) /\ cancelReceiver \subseteq TransferIDs
           /\ \A m \in Range(toReceiver) : m \in ToReceiver /\ m.id \in TransferIDs
           /\ \A id \in TransferIDs : id \in Nat
           /\ toReceiver # <<>> => Head(toReceiver) \in Range(toReceiver)
  <1>1. toReceiver \in Seq(ToReceiver) /\ cancelReceiver \subseteq TransferIDs
    BY DEF IInv, NetTypeOK
  <1>2. Range(toReceiver) \subseteq ToReceiver
    BY <1>1, RangeEquality
  <1>3. \A m \in ToReceiver : m.id \in TransferIDs
    BY DEF ToReceiver
  <1>4. \A id \in TransferIDs : id \in Nat
    BY ProtocolAssumption
  <1> QED
    BY <1>1, <1>2, <1>3, <1>4, RangeTail

(* What is on its way was, unless SendFile has just sent it. *)
LEMMA NewControls ==
    ASSUME IInv, [Next]_vars
    PROVE  /\ \A m \in Range(toReceiver') :
                 \/ m \in Range(toReceiver)
                 \/ SendFile /\ m.type = "file_start" /\ m.id = sid + 1
                 \/ SendEnd /\ spc = "stream" /\ spc' = "final" /\ sid' = sid
                    /\ m.type = "file_end" /\ m.id = sid
                 \/ PeerCancel /\ spc # "idle" /\ spc' = "idle" /\ sid' = sid
                    /\ UNCHANGED cancelReceiver /\ m.type = "file_cancel" /\ m.id = sid
           /\ \A id \in cancelReceiver' :
                 \/ id \in cancelReceiver
                 \/ PeerCancel /\ spc # "idle" /\ spc' = "idle" /\ sid' = sid
                    /\ UNCHANGED toReceiver /\ id = sid
  <1>1. toReceiver \in Seq(ToReceiver) /\ sDigest \in Versions /\ source.ver \in Versions
        /\ sid \in 0 .. MaxTransfers /\ (spc # "idle" => sid \in TransferIDs)
    BY ControlTypes DEF IInv, SenderTypeOK
  <1>2. SendFile => sid + 1 \in TransferIDs
    BY <1>1, ProtocolAssumption DEF SendFile
  <1>3. ASSUME NEW t \in {"file_start", "file_end", "file_cancel"}, NEW i \in TransferIDs,
               NEW v \in Versions,
               toReceiver' = Append(toReceiver, [type |-> t, id |-> i, ver |-> v]),
               NEW m \in Range(toReceiver')
        PROVE  m \in Range(toReceiver) \/ (m.type = t /\ m.id = i)
    <2>1. [type |-> t, id |-> i, ver |-> v] \in ToReceiver
      BY DEF ToReceiver
    <2>2. Range(toReceiver') = Range(toReceiver) \cup {[type |-> t, id |-> i, ver |-> v]}
      BY <1>1, <1>3, <2>1, RangeAppend
    <2> QED
      BY <2>2
  <1>4. toReceiver # <<>> => Range(Tail(toReceiver)) \subseteq Range(toReceiver)
    BY <1>1, RangeTail
  <1>5. Range(<<>>) = {}
    BY RangeEmpty
  <1>6. ASSUME NEW m \in Range(toReceiver')
        PROVE    \/ m \in Range(toReceiver)
                 \/ SendFile /\ m.type = "file_start" /\ m.id = sid + 1
                 \/ SendEnd /\ spc = "stream" /\ spc' = "final" /\ sid' = sid
                    /\ m.type = "file_end" /\ m.id = sid
                 \/ PeerCancel /\ spc # "idle" /\ spc' = "idle" /\ sid' = sid
                    /\ UNCHANGED cancelReceiver /\ m.type = "file_cancel" /\ m.id = sid
    BY <1>1, <1>2, <1>3, <1>4, <1>5, WireStep DEF WireMoves
  <1>7. ASSUME NEW id \in cancelReceiver'
        PROVE    \/ id \in cancelReceiver
                 \/ PeerCancel /\ spc # "idle" /\ spc' = "idle" /\ sid' = sid
                    /\ UNCHANGED toReceiver /\ id = sid
    BY WireStep DEF WireMoves
  <1> QED
    BY <1>6, <1>7

(* A control is sent once: SendFile ends or is cancelled once. *)
LEMMA WireNext ==
    ASSUME IInv, CallInv, OfferInv, FreshInv, WireInv, [Next]_vars
    PROVE  WireInv'
  <1>0. /\ sid \in Nat /\ sid' \in Nat /\ sid <= sid'
        /\ spc # "idle" => sid \in TransferIDs
        /\ source.ver \in Versions /\ sDigest \in Versions
        /\ SendFile => sid + 1 \in TransferIDs /\ sid' = sid + 1
    BY CallsEnd, ProtocolAssumption DEF IInv, SenderTypeOK, SendFile
  <1>1. ASSUME NEW m \in Range(toReceiver)
        PROVE  /\ m.id \in TransferIDs /\ m.id \in Nat
               /\ m.id <= sid
               /\ m.type = "file_end" => ~Producing(m.id) /\ ~Fresh(m.id)
               /\ m.type = "file_cancel" => ~Sending(m.id) /\ m.id \notin cancelReceiver
    BY ControlTypes DEF WireInv
  <1>2. Unique(toReceiver)'
    <2>1. ASSUME NEW t \in {"file_start", "file_end", "file_cancel"}, NEW i \in TransferIDs,
                 NEW v \in Versions, \A k \in Range(toReceiver) : k.type = t => k.id # i,
                 toReceiver' = Append(toReceiver, [type |-> t, id |-> i, ver |-> v])
          PROVE  Unique(toReceiver')
      <3>1. [type |-> t, id |-> i, ver |-> v] \in ToReceiver
        BY DEF ToReceiver
      <3> QED
        BY <2>1, <3>1, UniqueAppend, ControlTypes DEF WireInv
    <2>2. \A k \in Range(toReceiver) : k.id # sid + 1
      BY <1>0, <1>1
    <2>3. spc = "stream" => \A k \in Range(toReceiver) : k.type = "file_end" => k.id # sid
      BY <1>1 DEF Producing, Sending
    <2>4. spc # "idle" => \A k \in Range(toReceiver) : k.type = "file_cancel" => k.id # sid
      BY <1>1 DEF Sending
    <2>5. toReceiver # <<>> => Unique(Tail(toReceiver))
      BY UniqueTail, ControlTypes DEF WireInv
    <2>6. Unique(<<>>)
      BY DEF Unique
    <2>7. CASE SendFile /\ toReceiver' = Append(toReceiver,
                   [type |-> "file_start", id |-> sid + 1, ver |-> source.ver])
      BY <1>0, <2>1, <2>2, <2>7
    <2>8. CASE spc = "stream" /\ toReceiver' = Append(toReceiver,
                   [type |-> "file_end", id |-> sid, ver |-> sDigest])
      BY <1>0, <2>1, <2>3, <2>8
    <2>9. CASE spc # "idle" /\ toReceiver' = Append(toReceiver,
                   [type |-> "file_cancel", id |-> sid, ver |-> sDigest])
      BY <1>0, <2>1, <2>4, <2>9
    <2> QED
      BY <2>5, <2>6, <2>7, <2>8, <2>9, WireStep DEF WireMoves, WireInv
  <1>3. ASSUME NEW m \in Range(toReceiver')
        PROVE  /\ m.id <= sid'
               /\ m.type = "file_end" => ~Producing(m.id)' /\ ~Fresh(m.id)'
               /\ m.type = "file_cancel" => ~Sending(m.id)' /\ m.id \notin cancelReceiver'
    <2>1. CASE m \in Range(toReceiver)
      <3>1. m.id <= sid'
        BY <1>0, <1>1, <2>1
      <3>2. m.type = "file_end" => ~Producing(m.id)' /\ ~Fresh(m.id)'
        BY <1>1, <2>1, CallsEnd, FreshShrinks
      <3>3. m.type = "file_cancel" => ~Sending(m.id)'
        BY <1>1, <2>1, CallsEnd
      <3>4. m.type = "file_cancel" => m.id \notin cancelReceiver'
        BY <1>1, <2>1, NewControls DEF Sending
      <3> QED
        BY <3>1, <3>2, <3>3, <3>4
    <2>2. CASE SendFile /\ m.type = "file_start" /\ m.id = sid + 1
      BY <1>0, <2>2
    <2>3. CASE SendEnd /\ spc = "stream" /\ spc' = "final" /\ sid' = sid
               /\ m.type = "file_end" /\ m.id = sid
      <3>1. sid \in TransferIDs /\ Sending(sid)
        BY <1>0, <2>3 DEF Sending
      <3>2. ~Fresh(sid)
        BY <2>3, <3>1 DEF FreshInv, Untouched
      <3>3. ~Fresh(sid)'
        BY <2>3, <3>1, <3>2, FreshShrinks
      <3>4. ~Producing(m.id)'
        BY <2>3 DEF Producing
      <3> QED
        BY <1>0, <2>3, <3>3, <3>4
    <2>4. CASE PeerCancel /\ spc # "idle" /\ spc' = "idle" /\ sid' = sid
               /\ UNCHANGED cancelReceiver /\ m.type = "file_cancel" /\ m.id = sid
      BY <1>0, <2>4 DEF Sending, WireInv
    <2> QED
      BY <2>1, <2>2, <2>3, <2>4, NewControls
  <1>4. ASSUME NEW id \in cancelReceiver'
        PROVE  id <= sid' /\ ~Sending(id)'
    <2>1. CASE id \in cancelReceiver
      <3>1. id \in Nat /\ id <= sid /\ ~Sending(id)
        BY <2>1, ControlTypes DEF WireInv
      <3> QED
        BY <1>0, <3>1, CallsEnd
    <2>2. CASE id = sid /\ spc' = "idle" /\ sid' = sid
      BY <1>0, <2>2 DEF Sending
    <2> QED
      BY <2>1, <2>2, NewControls
  <1> QED
    BY <1>2, <1>3, <1>4 DEF WireInv

(* The loop is told something by a handler only. *)
LEMMA NewEvents ==
    ASSUME "dup" \notin Faults, IInv, [Next]_vars, rpc # "none", rpc' # "none",
           NEW e \in {EndEvent, CancelEvent}, e \in Range(rEvents'), e \notin Range(rEvents)
    PROVE  ControlHeard(e)
  <1>1. ChunksMove
    BY ChunksStep
  <1>2. rEvents \in Seq(Event) /\ lanes \subseteq Chunk /\ Chunk \subseteq Event
    BY DEF IInv, ReceiverTypeOK, NetTypeOK, Event
  <1>3. e \in Event /\ ~IsChunk(e)
    BY EventKinds
  <1>4. \A c \in lanes : IsChunk(c)
    BY <1>2 DEF Chunk, IsChunk
  <1>5. ASSUME NEW f \in {EndEvent, CancelEvent}, ControlHeard(f), rEvents' = Append(rEvents, f)
        PROVE  ControlHeard(e)
    <2>1. Range(rEvents') = Range(rEvents) \cup {f}
      BY <1>2, <1>5, EventKinds, RangeAppend
    <2>2. e = f
      BY <2>1
    <2> QED
      BY <1>5, <2>2
  <1>6. ASSUME NEW c \in lanes, rEvents' = Append(rEvents, c)
        PROVE  FALSE
    <2>1. Range(rEvents') = Range(rEvents) \cup {c}
      BY <1>2, <1>6, RangeAppend
    <2> QED
      BY <1>3, <1>4, <2>1
  <1>7. rEvents # <<>> => Range(Tail(rEvents)) \subseteq Range(rEvents)
    BY <1>2, RangeTail
  <1> QED
    BY <1>1, <1>5, <1>6, <1>7 DEF ChunksMove

(* After a control was handled there is none like it. *)
LEMMA HeardOnce ==
    ASSUME IInv, WireInv, AheadInv, [Next]_vars, rpc # "none", rpc' # "none",
           NEW e, ControlHeard(e)
    PROVE  /\ e = EndEvent => ~Flies("file_end", rid)' /\ ~Producing(rid)'
           /\ e = CancelEvent => ~CancelFlies(rid)' /\ ~Sending(rid)'
  <1>1. rid' = rid /\ rid \in Nat /\ rid <= sid
    BY RegistryStep DEF StartReceive, AheadInv, IInv, ReceiverTypeOK
  <1>2. EndEvent # CancelEvent
    BY EventKinds
  <1>3. ASSUME NEW t, Handled(t, rid)
        PROVE  /\ Head(toReceiver) \in Range(toReceiver)
               /\ ~Flies(t, rid)' /\ UNCHANGED cancelReceiver
    BY <1>1, <1>3, UniqueTail, ControlTypes DEF Handled, WireInv, Flies
  <1>4. CASE e = EndEvent
    <2>1. Handled("file_end", rid)
      BY <1>2, <1>4 DEF ControlHeard
    <2>2. ~Producing(rid)
      BY <1>3, <2>1 DEF Handled, WireInv
    <2>3. ~Producing(rid)'
      BY <1>1, <2>2, CallsEnd DEF Producing, Sending
    <2> QED
      BY <1>2, <1>3, <1>4, <2>1, <2>3
  <1>5. CASE e = CancelEvent
    <2>1. ~Sending(rid) /\ ~CancelFlies(rid)'
      <3>1. CASE Handled("file_cancel", rid)
        BY <1>1, <1>3, <3>1 DEF Handled, WireInv, CancelFlies
      <3>2. CASE rid \in cancelReceiver /\ cancelReceiver' = cancelReceiver \ {rid}
                 /\ UNCHANGED toReceiver
        BY <1>1, <3>2 DEF WireInv, CancelFlies, Flies
      <3> QED
        BY <1>2, <1>5, <3>1, <3>2 DEF ControlHeard
    <2>2. ~Sending(rid)'
      BY <1>1, <2>1, CallsEnd DEF Sending
    <2> QED
      BY <1>2, <1>5, <2>1, <2>2
  <1> QED
    BY <1>4, <1>5

(* Nothing that the loop was told is sent once more. *)
LEMMA NotAgain ==
    ASSUME IInv, [Next]_vars, rpc # "none", rpc' # "none"
    PROVE  /\ ~Flies("file_end", rid) /\ ~Producing(rid) => ~Flies("file_end", rid)'
           /\ ~CancelFlies(rid) /\ ~Sending(rid) => ~CancelFlies(rid)'
  <1>1. rid' = rid
    BY RegistryStep DEF StartReceive
  <1>2. ~Flies("file_end", rid) /\ ~Producing(rid) => ~Flies("file_end", rid)'
    BY <1>1, NewControls DEF Flies, Producing, Sending
  <1>3. ~CancelFlies(rid) /\ ~Sending(rid) => ~CancelFlies(rid)'
    BY <1>1, NewControls DEF CancelFlies, Flies, Sending
  <1> QED
    BY <1>2, <1>3

(* What was handled does not come again. *)
LEMMA ToldNext ==
    ASSUME "dup" \notin Faults, IInv, EmptyInv, OfferInv, FreshInv, PlaceInv, AheadInv, WireInv,
           ToldInv, [Next]_vars
    PROVE  ToldInv'
  <1> SUFFICES ASSUME rpc' # "none"
               PROVE  /\ Ended' => ~Flies("file_end", rid)' /\ ~Producing(rid)'
                      /\ rEnd' => EndEvent \notin Range(rEvents')
                      /\ CancelEvent \in Range(rEvents') => ~CancelFlies(rid)' /\ ~Sending(rid)'
    BY DEF ToldInv, EndEvent, CancelEvent
  <1>1. CASE rpc = "none"
    <2>1. PICK o \in starting : StartReceive(o)
      BY <1>1, RegistryStep
    <2>2. rEvents' = <<>> /\ rEnd' = FALSE
      BY <2>1, StartEmpty
    <2> QED
      BY <2>2, RangeEmpty DEF Ended, EndEvent
  <1>2. CASE rpc # "none"
    <2>1. rid' = rid /\ rid \in Nat /\ rid <= sid
      BY <1>2, RegistryStep DEF StartReceive, AheadInv, IInv, ReceiverTypeOK
    <2>2. TakeEnd => EndEvent \in Range(rEvents) /\ EndEvent \notin Range(rEvents')
      <3> SUFFICES ASSUME TakeEnd
                   PROVE  EndEvent \in Range(rEvents) /\ EndEvent \notin Range(rEvents')
        OBVIOUS
      <3>1. rEvents # <<>> /\ Head(rEvents).type = "end" /\ rEvents' = Tail(rEvents)
        BY DEF TakeEnd, Take
      <3>2. rEvents \in Seq(Event) /\ NoRepeats(rEvents)
        BY <1>2 DEF IInv, ReceiverTypeOK, PlaceInv
      <3>3. Head(rEvents) \in Range(rEvents) /\ Head(rEvents) \notin Range(rEvents')
        BY <3>1, <3>2, RangeTail, NoRepeatsTail
      <3>4. Head(rEvents) = EndEvent
        BY <3>1, <3>3, EventKinds DEF IsChunk
      <3> QED
        BY <3>3, <3>4
    <2>3. rEnd' => rEnd \/ TakeEnd
      BY EndStep
    <2>4. Ended' => Ended \/ ControlHeard(EndEvent)
      BY <1>2, <2>2, <2>3, NewEvents DEF Ended, EndEvent
    <2>5. Ended => ~Flies("file_end", rid)' /\ ~Producing(rid)'
      BY <1>2, <2>1, NotAgain, CallsEnd DEF ToldInv, Producing, Sending
    <2>6. rEnd' => EndEvent \notin Range(rEvents')
      <3>1. CASE TakeEnd
        BY <2>2, <3>1
      <3>2. CASE rEnd
        BY <1>2, <3>2, NewEvents, HeardFlew, EventKinds DEF ToldInv, Ended
      <3> QED
        BY <2>3, <3>1, <3>2
    <2>7. CancelEvent \in Range(rEvents) => ~CancelFlies(rid)' /\ ~Sending(rid)'
      BY <1>2, <2>1, NotAgain, CallsEnd DEF ToldInv, Sending
    <2>8. CancelEvent \in Range(rEvents')
             => CancelEvent \in Range(rEvents) \/ ControlHeard(CancelEvent)
      BY <1>2, NewEvents
    <2> QED
      BY <1>2, <2>4, <2>5, <2>6, <2>7, <2>8, HeardOnce
  <1> QED
    BY <1>1, <1>2

-----------------------------------------------------------------------------
(* What is committed *)

(* The order of the loop's phases. *)
LEMMA PhaseStep ==
    ASSUME IInv, [Next]_vars, rpc # "none", rpc' # "none"
    PROVE  /\ rpc' \in Streaming \cup {"opened"}
                 => rpc \in Streaming \cup {"opened"} /\ UNCHANGED committed
           /\ rpc' = "opened" => rpc = "opened"
           /\ rpc' \in Completing
                 => \/ rpc \in Completing /\ UNCHANGED <<rEnd, rExpected>>
                    \/ rEnd' = TRUE /\ rExpected' = Size
  <1> DEFINE Order ==
               /\ rpc' \in Streaming \cup {"opened"}
                     => rpc \in Streaming \cup {"opened"} /\ UNCHANGED committed
               /\ rpc' = "opened" => rpc = "opened"
               /\ rpc' \in Completing
                     => \/ rpc \in Completing /\ UNCHANGED <<rEnd, rExpected>>
                        \/ rEnd' = TRUE /\ rExpected' = Size
  <1>1. CASE StartLoop \/ Sync
    BY <1>1 DEF StartLoop, Sync, Streaming, Completing
  <1>2. CASE TakeChunk
    BY <1>2 DEF TakeChunk, Take, Streaming, Completing, ReceiveFailed, Finish, diskVars
  <1>3. CASE TakeEnd
    BY <1>3 DEF TakeEnd, Take, AfterComplete, Streaming, Completing, diskVars
  <1>4. CASE Drained
    BY <1>4 DEF Drained, AfterComplete, Streaming, Completing, loopVars, diskVars, IInv,
                ReceiverTypeOK
  <1>5. TakeCancel \/ EndDeadline \/ LoopClosed \/ FinishReceiver \/ DiskError \/ Crash
        \/ PowerLoss => rpc' = "none"
    BY DEF TakeCancel, EndDeadline, LoopClosed, FinishReceiver, DiskError, Crash, PowerLoss,
           ReceiveFailed, Finish, noReceiver
  <1>6. ASSUME NEW late \in BOOLEAN, WriteChunk(late) \/ Sidecar(late)
        PROVE  Order
    BY <1>6 DEF WriteChunk, Sidecar, Streaming, Completing
  <1>7. CASE Complete \/ RemoveDestination \/ Unlink
    BY <1>7 DEF Complete, RemoveDestination, Unlink, ReceiveFailed, Finish, Streaming,
                Completing, loopVars, diskVars
  <1>8. CASE Rename
    BY <1>8 DEF Rename, ReceiveFailed, Finish, Streaming, Completing, loopVars
  <1>9. ASSUME NEW o \in starting, StartReceive(o)
        PROVE  FALSE
    BY <1>9 DEF StartReceive
  <1>10. CASE UNCHANGED <<rpc, rEnd, rExpected, committed>>
    BY <1>10
  <1>11. (\E l \in rLeaving : Leave(l)) => UNCHANGED <<rpc, rEnd, rExpected, committed>>
    BY DEF Leave, loopVars
  <1>12. HandleCancelOfReceiver => UNCHANGED <<rpc, rEnd, rExpected, committed>>
    BY DEF HandleCancelOfReceiver, ReceiveFailed, Finish, loopVars, diskVars
  <1> QED
    BY <1>1, <1>2, <1>3, <1>4, <1>5, <1>6, <1>7, <1>8, <1>9, <1>10, <1>11, <1>12,
       ReceiverFrame DEF ReceiverSteps

(* When the file is complete there are no chunks left. *)
LEMMA NothingLeft ==
    ASSUME IInv, FlowInv, CommitInv, rpc \in Completing
    PROVE  Unwritten = {}
  <1>1. rpc # "none" /\ rExpected = Size /\ Size \in Nat
    BY ProtocolAssumption DEF CommitInv, Completing
  <1>2. ASSUME NEW c \in Unwritten
        PROVE  FALSE
    <2>1. Within(c) /\ Size <= c.offset /\ c.offset \in Nat /\ c.length \in Nat
      BY <1>1, UnwrittenType DEF FlowInv
    <2> QED
      BY <1>1, <2>1 DEF Within
  <1> QED
    BY <1>2

(* When complete() runs, every chunk has been written and none is left. *)
LEMMA CommitNext ==
    ASSUME IInv, EmptyInv, OfferInv, FreshInv, FlowInv, AheadInv, ToldInv, CommitInv,
           [Next]_vars
    PROVE  CommitInv'
  <1>0. /\ sid \in Nat /\ sid' \in Nat /\ sid <= sid' /\ rid \in Nat
        /\ committed \subseteq TransferIDs /\ \A id \in TransferIDs : id \in Nat
    BY CallsEnd, ControlTypes DEF IInv, ReceiverTypeOK, DiskTypeOK
  <1>1. CASE rpc = "none" /\ rpc' # "none"
    <2>1. PICK o \in starting : StartReceive(o)
      BY <1>1, RegistryStep
    <2>2. /\ rpc' = "opened" /\ rid' = o.id /\ o.id \notin committed
          /\ UNCHANGED <<committed, lanes, spc, sid>>
      BY <2>1, StartEmpty DEF Untouched, senderVars
    <2> QED
      BY <2>2 DEF CommitInv, Completing, Producing, Sending
  <1>2. CASE rpc # "none" \/ rpc' = "none"
    <2>1. rpc' \in Streaming \cup {"opened"} => rid' \notin committed'
      <3>1. CASE rpc' = "none"
        BY <3>1 DEF Streaming
      <3>2. CASE rpc # "none" /\ rpc' # "none"
        <4>1. rid' = rid
          BY <3>2, RegistryStep DEF StartReceive
        <4> QED
          BY <3>2, <4>1, PhaseStep DEF CommitInv
      <3> QED
        BY <1>2, <3>1, <3>2
    <2>2. rpc' \in Completing => rEnd' /\ rExpected' = Size
      BY <1>2, PhaseStep DEF CommitInv, Completing
    <2>3. CASE UNCHANGED committed
      <3>1. ASSUME NEW c \in lanes'
            PROVE  c.id \notin committed'
        <4>1. CASE c \in lanes
          BY <2>3, <4>1 DEF CommitInv
        <4>2. CASE c \notin lanes
          <5>1. c.id = sid /\ spc = "stream"
            BY <4>2, NewChunks
          <5>2. Producing(sid)
            BY <5>1 DEF Producing, Sending
          <5> QED
            BY <2>3, <5>1, <5>2 DEF CommitInv
        <4> QED
          BY <4>1, <4>2
      <3>2. ASSUME NEW id \in committed'
            PROVE  id <= sid' /\ ~Producing(id)'
        <4>1. id \in Nat /\ id <= sid /\ ~Producing(id)
          BY <1>0, <2>3 DEF CommitInv
        <4> QED
          BY <1>0, <4>1, CallsEnd
      <3> QED
        BY <2>1, <2>2, <3>1, <3>2 DEF CommitInv
    <2>4. CASE Rename /\ committed' = committed \cup {rid}
      <3>1. rpc = "rename" /\ UNCHANGED <<lanes, spc, sid>>
        BY <2>4 DEF Rename, senderSide, senderVars
      <3>2. Unwritten = {} /\ rEnd
        BY <3>1, NothingLeft DEF Completing, CommitInv
      <3>3. rid <= sid /\ ~Producing(rid)
        BY <3>1, <3>2 DEF AheadInv, ToldInv, Ended
      <3>4. \A c \in lanes : c.id # rid
        BY <3>2 DEF Unwritten
      <3>5. \A c \in lanes' : c.id \notin committed'
        BY <2>4, <3>1, <3>4 DEF CommitInv
      <3>6. \A id \in committed' : id <= sid' /\ ~Producing(id)'
        BY <2>4, <3>1, <3>3 DEF CommitInv, Producing, Sending
      <3> QED
        BY <2>1, <2>2, <3>5, <3>6 DEF CommitInv
    <2> QED
      BY <2>3, <2>4, CommittedGrows
  <1> QED
    BY <1>1, <1>2

-----------------------------------------------------------------------------
(* Refusals *)

(* The step in which the receiver turns a transfer down. *)
TurnedDown(id) ==
    \/ \E o \in starting : StartRefused(o) /\ o.id = id
    \/ /\ Registered(id) /\ rpc' = "none" /\ UNCHANGED committed
       /\ rpc \in Streaming \cup {"opened"} \/ (QueueFull /\ CancelFlies(id))
    \/ HandleChunk /\ ~Registered(id) /\ \E c \in lanes : c.id = id

(* Only the transfer that is refused gets a cancel. *)
LEMMA CancelSent ==
    ASSUME IInv, NEW i \in TransferIDs, SendCancelToSender(i)
    PROVE  /\ cancelSender' \subseteq cancelSender \cup {i}
           /\ \A m \in Range(toSender') :
                 m.type = "file_cancel" /\ m.id # i => m \in Range(toSender)
  <1>1. [type |-> "file_cancel", id |-> i, n |-> 0] \in ToSender
    BY DEF ToSender
  <1>2. toSender \in Seq(ToSender)
    BY DEF IInv, NetTypeOK
  <1>3. Range(AfterSend(toSender, [type |-> "file_cancel", id |-> i, n |-> 0]))
           \subseteq Range(toSender) \cup {[type |-> "file_cancel", id |-> i, n |-> 0]}
    BY <1>1, <1>2, RangeAfterSend
  <1> QED
    BY <1>3 DEF SendCancelToSender

(* A cancel on its way to SendFile. *)
Refusing(id) ==
    id \in cancelSender \/ \E m \in Range(toSender) : m.type = "file_cancel" /\ m.id = id

(* A step that sends no cancel. *)
Silent == \A m \in Range(toSender') : m \in Range(toSender) \/ m.type # "file_cancel"

(* Answers, progress, checkpoints and commits are no cancels. *)
LEMMA SilentSteps ==
    ASSUME IInv,
           \/ StartLoop \/ Unlink
           \/ \E late \in BOOLEAN : WriteChunk(late) \/ Sidecar(late)
           \/ \E l \in rLeaving : Leave(l)
    PROVE  Silent
  <1>1. toSender \in Seq(ToSender)
    BY DEF IInv, NetTypeOK
  <1>2. ASSUME NEW t \in {"file_accept", "resume_state", "file_ack"}, NEW i \in TransferIDs,
               NEW n \in Nat,
               toSender' = AfterSend(toSender, [type |-> t, id |-> i, n |-> n])
        PROVE  Silent
    <2>1. [type |-> t, id |-> i, n |-> n] \in ToSender
      BY DEF ToSender
    <2>2. Range(toSender') \subseteq Range(toSender) \cup {[type |-> t, id |-> i, n |-> n]}
      BY <1>1, <1>2, <2>1, RangeAfterSend
    <2> QED
      BY <2>2 DEF Silent
  <1>3. CASE StartLoop
    <2>1. rid \in TransferIDs /\ rExpected \in Nat
      BY <1>3 DEF StartLoop, IInv, ReceiverTypeOK
    <2> QED
      BY <1>2, <1>3, <2>1 DEF StartLoop
  <1>4. CASE Unlink
    <2>1. rid \in TransferIDs /\ Size \in Nat
      BY <1>4, ProtocolAssumption DEF Unlink, IInv, ReceiverTypeOK
    <2> QED
      BY <1>2, <1>4, <2>1 DEF Unlink
  <1>5. ProgressType # "file_cancel"
    BY DEF ProgressType
  <1>6. ASSUME NEW late \in BOOLEAN, WriteChunk(late)
        PROVE  Silent
    <2>1. rpc = "drain" /\ rExpected' \in Nat
      BY <1>6, WriteChunkStep DEF WriteChunk, IInv, ReceiverTypeOK
    <2>2. \/ toSender' = toSender
          \/ rpc' = "drain" /\ Progress(toSender, rExpected', late)
      BY <1>6 DEF WriteChunk
    <2> QED
      BY <1>1, <1>5, <2>1, <2>2, ProgressSaid DEF Silent, SaysProgress
  <1>7. ASSUME NEW late \in BOOLEAN, Sidecar(late)
        PROVE  Silent
    <2> DEFINE q == CheckpointAck(toSender, rid, rDurable)
    <2>1. /\ rpc = "sidecar" /\ rpc' = "drain" /\ rExpected' = rExpected
          /\ rid \in TransferIDs /\ rDurable \in Nat /\ rExpected \in Nat
      BY <1>7 DEF Sidecar, IInv, ReceiverTypeOK
    <2>2. q \in Seq(ToSender)
      BY <1>1, <2>1, CheckpointAckType
    <2>3. Progress(q, rExpected', late)
      BY <1>7, <2>1 DEF Sidecar
    <2>4. \A m \in Range(q) : m \in Range(toSender) \/ m.type # "file_cancel"
      BY <1>1, <2>1, CheckpointAckSaid
    <2>5. \A m \in Range(toSender') : m \in Range(q) \/ SaysProgress(m)
      BY <2>1, <2>2, <2>3, ProgressSaid
    <2> HIDE DEF q
    <2> QED
      BY <1>5, <2>4, <2>5 DEF Silent, SaysProgress
  <1>8. ASSUME NEW l \in rLeaving, Leave(l)
        PROVE  Silent
    <2>1. l.id \in TransferIDs /\ l.n \in Nat
      BY DEF IInv, ReceiverTypeOK, Leaving
    <2>2. UNCHANGED toSender \/ toSender' = CheckpointAck(toSender, l.id, l.n)
      BY <1>8 DEF Leave
    <2> QED
      BY <1>1, <2>1, <2>2, CheckpointAckSaid DEF Silent
  <1> QED
    BY <1>3, <1>4, <1>6, <1>7, <1>8

(* A cancel that is new was sent by a transfer that was turned down. *)
LEMMA NewCancels ==
    ASSUME IInv, [Next]_vars, NEW id \in TransferIDs, Refusing(id)', ~Refusing(id)
    PROVE  TurnedDown(id)
  <1>1. ASSUME NEW i \in TransferIDs, SendCancelToSender(i)
        PROVE  i = id
    BY <1>1, CancelSent DEF Refusing
  <1>2. rpc # "none" => rid \in TransferIDs
    BY DEF IInv, ReceiverTypeOK
  <1>3. ASSUME ReceiveFailed, rpc # "none"
        PROVE  Registered(id) /\ rpc' = "none"
    BY <1>1, <1>2, <1>3 DEF ReceiveFailed, Finish, Registered
  <1>4. ASSUME NEW o \in starting, StartRefused(o)
        PROVE  TurnedDown(id)
    <2>1. o.id \in TransferIDs
      BY DEF IInv, ReceiverTypeOK, Offer
    <2> QED
      BY <1>1, <1>4, <2>1 DEF StartRefused, TurnedDown
  <1>5. ASSUME cancelSender' \subseteq cancelSender, Silent
        PROVE  FALSE
    BY <1>5 DEF Refusing, Silent
  <1>6. CASE HandleChunk
    <2>1. PICK c \in lanes :
             IF Registered(c.id)
             THEN UNCHANGED <<toSender, cancelSender>>
             ELSE SendCancelToSender(c.id) \/ UNCHANGED <<toSender, cancelSender>>
      BY <1>6 DEF HandleChunk
    <2>2. c.id \in TransferIDs
      BY DEF IInv, NetTypeOK, Chunk
    <2>3. ~UNCHANGED <<toSender, cancelSender>>
      BY <1>5 DEF Silent
    <2>4. ~Registered(c.id) /\ c.id = id
      BY <1>1, <2>1, <2>2, <2>3
    <2> QED
      BY <1>6, <2>4 DEF TurnedDown
  <1>7. CASE HandleCancelOfReceiver
    <2>1. PICK i \in TransferIDs :
             /\ \/ /\ toReceiver # <<>> /\ Head(toReceiver).type = "file_cancel"
                   /\ i = Head(toReceiver).id
                \/ i \in cancelReceiver
             /\ \/ UNCHANGED <<toSender, cancelSender>>
                \/ Registered(i) /\ QueueFull /\ ReceiveFailed
      BY <1>7 DEF HandleCancelOfReceiver
    <2>2. Registered(i) /\ QueueFull /\ ReceiveFailed
      BY <1>5, <2>1 DEF Silent
    <2>3. Registered(id) /\ rpc' = "none" /\ i = id
      BY <1>3, <2>2 DEF Registered
    <2>4. CancelFlies(id)
      BY <2>1, <2>3, ControlTypes DEF CancelFlies, Flies
    <2>5. UNCHANGED committed
      BY <1>7 DEF HandleCancelOfReceiver, diskVars
    <2> QED
      BY <2>2, <2>3, <2>4, <2>5 DEF TurnedDown
  <1>8. CASE (TakeChunk \/ EndDeadline \/ Complete \/ Rename \/ DiskError)
             /\ ~UNCHANGED <<toSender, cancelSender>>
    <2>1. ReceiveFailed /\ rpc \in Streaming \cup {"opened"} /\ UNCHANGED committed
      BY <1>8
         DEF TakeChunk, Take, EndDeadline, Complete, Rename, DiskError, Streaming,
             diskVars
    <2>2. rpc # "none"
      BY <2>1 DEF Streaming
    <2> QED
      BY <1>3, <2>1, <2>2 DEF TurnedDown
  <1>9. \/ \E o \in starting : StartRefused(o)
        \/ HandleChunk \/ HandleCancelOfReceiver
        \/ (TakeChunk \/ EndDeadline \/ Complete \/ Rename \/ DiskError)
           /\ ~UNCHANGED <<toSender, cancelSender>>
        \/ cancelSender' \subseteq cancelSender /\ Silent
    <2>0. /\ toSender # <<>> => Range(Tail(toSender)) \subseteq Range(toSender)
          /\ Range(<<>>) = {}
      BY RangeTail, RangeEmpty DEF IInv, NetTypeOK
    <2>1. SendFile \/ SenderSteps \/ SenderHandlers \/ CtxDone \/ SendRefused \/ SourceChange \/ PeerCancel
             => cancelSender' \subseteq cancelSender /\ Silent
      BY <2>0
         DEF Silent, SendFile, SenderSteps, SenderHandlers, Accepted, SendChunk, SendEnd,
             Block, Wake, WaitForBuffer, Completed, Cancelled, SenderTimeout, HandleAccept, HandleAck,
             HandleCancelOfSender, CtxDone, SendRefused, SourceChange, PeerCancel, netVars
    <2>2. StartLoop \/ TakeEnd \/ TakeCancel \/ LoopClosed
          \/ (\E late \in BOOLEAN : WriteChunk(late) \/ Sidecar(late))
          \/ Sync \/ Drained \/ RemoveDestination \/ Unlink \/ FinishReceiver
          \/ (\E l \in rLeaving : Leave(l)) \/ (\E o \in starting : StartReceive(o))
          \/ HandleFileStart \/ HandleFileEnd
             => UNCHANGED cancelSender /\ Silent
      BY SilentSteps
         DEF Silent, StartLoop, TakeEnd, TakeCancel, LoopClosed, WriteChunk, Sidecar, Sync,
             Drained, RemoveDestination, Unlink, FinishReceiver, Leave, StartReceive,
             HandleFileStart, HandleFileEnd
    <2>3. Close \/ Crash \/ PowerLoss \/ Reconnect \/ LaneLost \/ UserFile \/ UNCHANGED vars
             => cancelSender' \subseteq cancelSender /\ Silent
      BY <2>0
         DEF Silent, Close, Crash, PowerLoss, Disconnect, Reconnect, LaneLost, UserFile,
             netVars, vars
    <2>4. UNCHANGED <<toSender, cancelSender>> => cancelSender' \subseteq cancelSender /\ Silent
      BY DEF Silent
    <2> QED
      BY <2>1, <2>2, <2>3, <2>4
         DEF Next, Quiescent, ReceiverSteps, Refusals, ReceiverHandlers, Environment
  <1> QED
    BY <1>4, <1>5, <1>6, <1>7, <1>8, <1>9

(* SendFile learns of a refusal from a cancel that was on its way. *)
LEMMA HeardRefusal ==
    ASSUME IInv, CallInv, [Next]_vars, NEW id \in TransferIDs, Refused(id)'
    PROVE  Refused(id) \/ Refusing(id)'
  <1>1. ASSUME sOutcome'[id] = "cancelled", sOutcome[id] # "cancelled"
        PROVE  Sending(id) /\ sCancel
    <2>1. sOutcome \in [TransferIDs -> {"none", "completed", "failed", "cancelled"}]
      BY DEF IInv, SenderTypeOK
    <2>2. ASSUME NEW t \in {"completed", "failed"}, SenderReturn(t)
          PROVE  FALSE
      BY <1>1, <2>1, <2>2 DEF SenderReturn
    <2>3. ASSUME Cancelled
          PROVE  Sending(id) /\ sCancel
      BY <1>1, <2>1, <2>3 DEF Cancelled, Waiting, SenderReturn, Sending
    <2>4. Cancelled \/ (\E t \in {"completed", "failed"} : SenderReturn(t)) \/ UNCHANGED sOutcome
      BY SenderFrame
         DEF SendFile, SenderSteps, SenderHandlers, Accepted, SendChunk, SendEnd, Block,
             Wake, WaitForBuffer, Completed, SenderTimeout, HandleAccept, HandleAck,
             HandleCancelOfSender, CtxDone, SendRefused, SourceChange, PeerCancel,
             senderVars
    <2> QED
      BY <1>1, <2>2, <2>3, <2>4
  <1>2. ASSUME Sending(id)', sCancel', ~(Sending(id) /\ sCancel)
        PROVE  Refusing(id)
    <2>1. CASE SendFile
      BY <1>2, <2>1 DEF SendFile, CallInv
    <2>2. CASE HandleCancelOfSender
      <3>1. Sending(id) /\ ~sCancel
        BY <1>2, <2>2 DEF HandleCancelOfSender, Sending
      <3>2. PICK i \in TransferIDs :
               /\ \/ /\ toSender # <<>> /\ Head(toSender).type = "file_cancel"
                     /\ i = Head(toSender).id
                  \/ i \in cancelSender
               /\ sCancel' = (sCancel \/ Sending(i))
        BY <2>2 DEF HandleCancelOfSender
      <3>3. i = id
        BY <1>2, <3>1, <3>2 DEF Sending
      <3>4. toSender # <<>> => Head(toSender) \in Range(toSender)
        BY RangeTail DEF IInv, NetTypeOK
      <3> QED
        BY <3>2, <3>3, <3>4 DEF Refusing
    <2>3. SendFile \/ HandleCancelOfSender \/ spc' = "idle"
          \/ (UNCHANGED <<sid, sCancel>> /\ spc # "idle") \/ UNCHANGED <<spc, sid, sCancel>>
      BY SenderFrame
         DEF SenderSteps, SenderHandlers, Accepted, SendChunk, SendEnd, Block, Wake,
             WaitForBuffer, Completed, Cancelled, SenderTimeout, HandleAccept, HandleAck,
             CtxDone, SendRefused, SourceChange, PeerCancel, SenderReturn, senderVars
    <2> QED
      BY <1>2, <2>1, <2>2, <2>3 DEF Sending
  <1> QED
    BY <1>1, <1>2 DEF Refused, Refusing

(***************************************************************************)
(* While complete() runs, the queue holds at most a cancel: the loop has   *)
(* written every chunk and has taken the file_end.                         *)
(***************************************************************************)
LEMMA CompletingQueue ==
    ASSUME IInv, FlowInv, PlaceInv, ToldInv, CommitInv, rpc \in Completing
    PROVE  Len(rEvents) <= 1 /\ (CancelFlies(rid) => Len(rEvents) = 0)
  <1>1. Unwritten = {} /\ rEnd /\ rpc # "none"
    BY NothingLeft DEF CommitInv, Completing
  <1>2. rEvents \in Seq(Event) /\ Len(rEvents) \in Nat
    BY LenProperties DEF IInv, ReceiverTypeOK
  <1>3. ASSUME NEW e \in Range(rEvents)
        PROVE  e = CancelEvent
    BY <1>1, EventKinds DEF ToldInv, Unwritten
  <1>4. \A i \in 1 .. Len(rEvents) : rEvents[i] \in Range(rEvents)
    BY <1>2, RangeEquality
  <1>5. Len(rEvents) <= 1
    <2>1. ASSUME Len(rEvents) >= 2
          PROVE  FALSE
      <3>1. 1 \in 1 .. Len(rEvents) /\ 2 \in 1 .. Len(rEvents)
        BY <1>2, <2>1
      <3>2. rEvents[1] = rEvents[2]
        BY <1>3, <1>4, <3>1
      <3> QED
        BY <1>1, <3>1, <3>2 DEF PlaceInv, NoRepeats
    <2> QED
      BY <1>2, <2>1
  <1>6. ASSUME CancelFlies(rid), Len(rEvents) # 0
        PROVE  FALSE
    <2>1. 1 \in 1 .. Len(rEvents)
      BY <1>2, <1>6
    <2>2. CancelEvent \in Range(rEvents)
      BY <1>3, <1>4, <2>1
    <2> QED
      BY <1>1, <1>6, <2>2 DEF ToldInv
  <1> QED
    BY <1>5, <1>6

(* What is turned down was not committed and is not offered any more. *)
LEMMA TurnedDownIsOver ==
    ASSUME IInv, OfferInv, FreshInv, FlowInv, PlaceInv, ToldInv, CommitInv, [Next]_vars,
           NEW id \in TransferIDs, TurnedDown(id)
    PROVE  ~Fresh(id)' /\ ~Registered(id)' /\ id \notin committed'
  <1>1. ASSUME NEW o \in starting, StartRefused(o), o.id = id
        PROVE  ~Fresh(id)' /\ ~Registered(id)' /\ id \notin committed'
    <2>1. Untouched(id)
      BY <1>1 DEF FreshInv, Fresh, Offered
    <2>2. UNCHANGED <<rpc, rid, committed>>
      BY <1>1 DEF StartRefused, loopVars, diskVars
    <2> QED
      BY <1>1, <2>1, <2>2, StartedIsNotFresh DEF Untouched, Registered
  <1>2. ASSUME Registered(id), rpc' = "none", UNCHANGED committed,
               rpc \in Streaming \cup {"opened"} \/ (QueueFull /\ CancelFlies(id))
        PROVE  ~Fresh(id)' /\ ~Registered(id)' /\ id \notin committed'
    <2>1. ~Fresh(id)'
      BY <1>2, FreshShrinks DEF FreshInv, Untouched
    <2>2. id \notin committed
      <3>1. CASE rpc \in Streaming \cup {"opened"}
        BY <1>2, <3>1 DEF CommitInv, Registered
      <3>2. CASE rpc \in Completing /\ QueueFull /\ CancelFlies(id)
        <4>1. CancelFlies(rid)
          BY <1>2, <3>2 DEF Registered
        <4>2. Len(rEvents) = 0
          BY <3>2, <4>1, CompletingQueue
        <4> QED
          BY <3>2, <4>2, TransferAssumption DEF QueueFull
      <3>3. rpc \in Streaming \cup {"opened"} \cup Completing
        BY <1>2 DEF Registered, IInv, ReceiverTypeOK, ReceiverPC, Streaming, Completing
      <3> QED
        BY <1>2, <3>1, <3>2, <3>3
    <2> QED
      BY <1>2, <2>1, <2>2 DEF Registered
  <1>3. ASSUME HandleChunk, ~Registered(id), NEW c \in lanes, c.id = id
        PROVE  ~Fresh(id)' /\ ~Registered(id)' /\ id \notin committed'
    <2>1. ~Fresh(id)'
      BY <1>3, FreshShrinks DEF FreshInv, Untouched
    <2>2. UNCHANGED <<rpc, rid, committed>>
      BY <1>3 DEF HandleChunk, receiverCore, diskVars
    <2> QED
      BY <1>3, <2>1, <2>2 DEF CommitInv, Registered
  <1> QED
    BY <1>1, <1>2, <1>3 DEF TurnedDown

(* What was refused stays refused: it is not offered, registered or committed. *)
LEMMA RefusalNext ==
    ASSUME IInv, CallInv, OfferInv, FreshInv, FlowInv, PlaceInv, ToldInv, CommitInv,
           RefusalInv, [Next]_vars
    PROVE  RefusalInv'
  <1> SUFFICES ASSUME NEW id \in TransferIDs, Refused(id)'
               PROVE  ~Fresh(id)' /\ ~Registered(id)' /\ id \notin committed'
    BY DEF RefusalInv
  <1>1. CASE Refused(id)
    <2>1. ~Fresh(id) /\ ~Registered(id) /\ id \notin committed
      BY <1>1 DEF RefusalInv
    <2>2. ASSUME NEW o \in starting, StartReceive(o)
          PROVE  ~Registered(id)'
      BY <2>1, <2>2 DEF StartReceive, Registered, Fresh, Offered
    <2>3. ~Registered(id)'
      BY <2>1, <2>2, RegistryStep DEF Registered
    <2>4. id \notin committed'
      BY <2>1, CommittedGrows DEF Registered, Rename
    <2> QED
      BY <2>1, <2>3, <2>4, FreshShrinks
  <1>2. CASE ~Refused(id)
    <2>1. Refusing(id)' /\ ~Refusing(id)
      BY <1>2, HeardRefusal DEF Refused, Refusing
    <2> QED
      BY <2>1, NewCancels, TurnedDownIsOver
  <1> QED
    BY <1>1, <1>2

-----------------------------------------------------------------------------
(* The account holds *)

(* The account holds at the beginning, *)
LEMMA AccountInit == Init => AccountInv /\ OfferInv /\ FreshInv
  <1> SUFFICES ASSUME Init
               PROVE  AccountInv /\ OfferInv /\ FreshInv
    OBVIOUS
  <1>1. OfferInv /\ FreshInv
    BY DurableInit DEF DurableInv
  <1>2. EmptyInv /\ FlowInv /\ PlaceInv /\ AheadInv /\ ToldInv
    BY DEF Init, EmptyInv, FlowInv, PlaceInv, AheadInv, ToldInv
  <1>3. Range(toReceiver) = {} /\ Range(toSender) = {}
    BY RangeEmpty DEF Init
  <1>4. WireInv
    BY <1>3 DEF Init, WireInv, Unique
  <1>5. CommitInv
    BY DEF Init, CommitInv, Streaming, Completing
  <1>6. RefusalInv
    BY <1>3 DEF Init, RefusalInv, Refused, Sending
  <1> QED
    BY <1>1, <1>2, <1>4, <1>5, <1>6 DEF AccountInv

(* is kept by every step, *)
LEMMA AccountNext ==
    ASSUME "dup" \notin Faults
    PROVE  IInv /\ AgreementInv /\ AccountInv /\ OfferInv /\ FreshInv /\ [Next]_vars
              => (AccountInv /\ OfferInv /\ FreshInv)'
  <1> SUFFICES ASSUME IInv, AgreementInv, AccountInv, OfferInv, FreshInv, [Next]_vars
               PROVE  (AccountInv /\ OfferInv /\ FreshInv)'
    OBVIOUS
  <1>1. /\ EmptyInv /\ FlowInv /\ PlaceInv /\ AheadInv
        /\ WireInv /\ ToldInv /\ CommitInv /\ RefusalInv
    BY DEF AccountInv
  <1>2. CallInv
    BY DEF AgreementInv
  <1>3. OfferInv' /\ FreshInv'
    BY <1>2, OfferNext, FreshNext
  <1>4. EmptyInv' /\ FlowInv'
    BY <1>1, EmptyNext, FlowNext
  <1>5. PlaceInv' /\ AheadInv'
    BY <1>1, PlaceNext, AheadNext
  <1>6. WireInv' /\ ToldInv'
    BY <1>1, <1>2, WireNext, ToldNext
  <1>7. CommitInv' /\ RefusalInv'
    BY <1>1, <1>2, CommitNext, RefusalNext
  <1> QED
    BY <1>3, <1>4, <1>5, <1>6, <1>7 DEF AccountInv

(* and so in every behaviour without repeated chunks. *)
LEMMA AccountAlways ==
    ASSUME "dup" \notin Faults
    PROVE  Spec => [](AccountInv /\ OfferInv /\ FreshInv)
  BY AccountInit, AccountNext, SpecInv, AgreementAlways, PTL DEF Spec

(***************************************************************************)
(* A file_cancel never concerns a file that is at its destination: not one *)
(* that is on its way, and not one that SendFile has returned with.  This  *)
(* is about receiveFailed, whoever calls it (the loop, the handler that    *)
(* meets a full queue), about handleMessage, which cancels chunks of       *)
(* transfers it does not know, and about startReceive.  A lane that        *)
(* repeats a chunk is excluded: the repetition may come after the commit,  *)
(* and is then answered by a cancel.                                       *)
(***************************************************************************)
THEOREM CommitIsFinal ==
    ASSUME "dup" \notin Faults
    PROVE  Spec => []CancelledNotCommitted
  <1>1. IInv /\ RefusalInv => CancelledNotCommitted
    <2> SUFFICES ASSUME IInv, RefusalInv, NEW id \in committed
                 PROVE  /\ id \notin cancelSender
                        /\ sOutcome[id] # "cancelled"
                        /\ \A k \in DOMAIN toSender :
                              ~(toSender[k].type = "file_cancel" /\ toSender[k].id = id)
      BY DEF CancelledNotCommitted
    <2>1. id \in TransferIDs
      BY DEF IInv, DiskTypeOK
    <2>2. ~Refused(id)
      BY <2>1 DEF RefusalInv
    <2>3. \A k \in DOMAIN toSender : toSender[k] \in Range(toSender)
      BY DEF Range
    <2> QED
      BY <2>2, <2>3 DEF Refused
  <1> QED
    BY <1>1, SpecInv, AccountAlways, PTL DEF AccountInv

-----------------------------------------------------------------------------
(* The commit is left alone *)

(* Until startReceive has answered, SendFile waits and sends nothing. *)
LEMMA OpenedNext ==
    ASSUME "dup" \notin Faults, IInv, EmptyInv, OfferInv, FreshInv, AheadInv, WireInv, OpenedInv,
           [Next]_vars
    PROVE  OpenedInv'
  <1> SUFFICES ASSUME rpc' = "opened"
               PROVE  OpenedInv'
    BY DEF OpenedInv
  <1>1. CASE rpc = "none"
    <2>1. PICK o \in starting : StartReceive(o)
      BY <1>1, RegistryStep
    <2>2. /\ Unwritten' = {} /\ rid' = o.id /\ Fresh(o.id) /\ Untouched(o.id)
          /\ rEvents' = <<>> /\ rEnd' = FALSE
          /\ UNCHANGED <<toSender, toReceiver, rLeaving, spc, sid, sAccept>>
      BY <2>1, StartEmpty DEF StartReceive, senderVars
    <2>3. ~Ended'
      BY <2>2, RangeEmpty DEF Ended
    <2>4. ~Flies("file_end", rid)'
      BY <2>2 DEF WireInv, Flies
    <2> QED
      BY <2>2, <2>3, <2>4 DEF OpenedInv, Untouched, Sending
  <1>2. CASE rpc # "none"
    <2>1. rpc = "opened" /\ rid' = rid /\ rid \in Nat /\ rid <= sid
      <3>1. rpc = "opened"
        BY <1>2, PhaseStep
      <3>2. rid' = rid
        BY <1>2, UnwrittenStep
      <3> QED
        BY <1>2, <3>1, <3>2 DEF AheadInv, IInv, ReceiverTypeOK
    <2>2. /\ Unwritten = {} /\ ~Ended /\ ~Flies("file_end", rid)
          /\ \A m \in Range(toSender) : m.type # "file_cancel" => m.id # rid
          /\ \A l \in rLeaving : l.id # rid
          /\ Sending(rid) => spc = "waitAccept" /\ sAccept = Empty
      BY <2>1 DEF OpenedInv
    <2>3. Unwritten' = {}
      BY <2>1, <2>2, UnwrittenStep DEF Sending
    <2>4. ~Flies("file_end", rid)'
      <3>1. ASSUME NEW m \in Range(toReceiver'), m.type = "file_end"
            PROVE  m.id # rid
        BY <2>2, <3>1, NewControls DEF Flies, Sending
      <3> QED
        BY <2>1, <3>1 DEF Flies
    <2>5. ~Ended'
      <3>1. rEnd' = rEnd
        BY <2>1, EndStep DEF TakeEnd, Take
      <3>2. ASSUME EndEvent \in Range(rEvents')
            PROVE  FALSE
        <4>1. ControlHeard(EndEvent)
          BY <2>1, <2>2, <3>2, NewEvents DEF Ended
        <4>2. EndEvent # CancelEvent
          BY EventKinds
        <4> QED
          BY <2>2, <4>1, <4>2, HeardFlew
      <3> QED
        BY <2>2, <3>1, <3>2 DEF Ended
    <2>6. ASSUME NEW m \in Range(toSender'), m.type # "file_cancel"
          PROVE  m.id # rid
      <3>1. ~SaysAccept(m) /\ ~SaysProgress(m) /\ ~SaysCommit(m)
        BY <2>1 DEF SaysAccept, SaysProgress, SaysCommit
      <3>2. SaysCheckpoint(m) => m.id # rid
        BY <2>1, <2>2 DEF SaysCheckpoint
      <3> QED
        BY <2>2, <2>6, <3>1, <3>2, NewMessages DEF NothingElseSaid, Said
    <2>7. ASSUME NEW k \in rLeaving'
          PROVE  k.id # rid
      <3>1. rLeaving' \subseteq rLeaving \/ \E l \in rLeaving : Leave(l)
        BY <2>1, ReceiverFrame
           DEF ReceiverSteps, StartReceive, StartLoop, TakeChunk, TakeEnd, TakeCancel, Take,
               EndDeadline, LoopClosed, WriteChunk, Sidecar, Sync, Drained, Complete,
               RemoveDestination, Rename, Unlink, FinishReceiver, HandleCancelOfReceiver,
               DiskError, Crash, PowerLoss, noReceiver
      <3>2. ASSUME NEW l \in rLeaving, Leave(l)
            PROVE  k.id # rid
        <4>1. k \in rLeaving \/ k = [l EXCEPT !.step = "meta"]
          BY <3>2 DEF Leave
        <4>2. l \in Leaving
          BY DEF IInv, ReceiverTypeOK
        <4> QED
          BY <2>2, <4>1, <4>2 DEF Leaving
      <3> QED
        BY <2>2, <3>1, <3>2
    <2>8. ASSUME Sending(rid)'
          PROVE  spc' = "waitAccept" /\ sAccept' = Empty
      <3>1. Sending(rid) /\ spc = "waitAccept" /\ sAccept = Empty /\ spc' # "idle"
        BY <2>1, <2>2, <2>8, CallsEnd DEF Sending
      <3>2. ~Accepted
        BY <3>1 DEF Accepted
      <3>3. spc' = "waitAccept"
        BY <3>1, <3>2, CallsMove DEF CallMoves
      <3>4. sAccept' = Empty
        <4>1. ASSUME toSender # <<>>, IsAnswer(Head(toSender)), Sending(Head(toSender).id)
              PROVE  FALSE
          <5>1. Head(toSender) \in Range(toSender)
            BY <4>1, RangeTail DEF IInv, NetTypeOK
          <5>2. Head(toSender).id = rid
            BY <3>1, <4>1 DEF Sending
          <5> QED
            BY <2>2, <4>1, <5>1, <5>2 DEF IsAnswer
        <4> QED
          BY <3>1, <3>2, <4>1, AcceptStep
      <3> QED
        BY <3>3, <3>4
    <2> QED
      BY <2>1, <2>3, <2>4, <2>5, <2>6, <2>7, <2>8 DEF OpenedInv, Sending
  <1> QED
    BY <1>1, <1>2

(* So it is in every behaviour without repeated chunks. *)
LEMMA OpenedAlways ==
    ASSUME "dup" \notin Faults
    PROVE  Spec => []OpenedInv
  <1>1. Init => OpenedInv
    BY DEF Init, OpenedInv
  <1>2. IInv /\ AccountInv /\ OfferInv /\ FreshInv /\ OpenedInv /\ [Next]_vars => OpenedInv'
    BY OpenedNext DEF AccountInv
  <1> QED
    BY <1>1, <1>2, SpecInv, AccountAlways, PTL DEF Spec

(* Only a cancel can wait for the loop before it has started. *)
LEMMA OpenedQueue ==
    ASSUME IInv, PlaceInv, OpenedInv, rpc = "opened"
    PROVE  Len(rEvents) <= 1
  <1>1. Unwritten = {} /\ ~Ended
    BY DEF OpenedInv
  <1>2. rEvents \in Seq(Event) /\ Len(rEvents) \in Nat
    BY LenProperties DEF IInv, ReceiverTypeOK
  <1>3. ASSUME NEW e \in Range(rEvents)
        PROVE  e = CancelEvent
    BY <1>1, EventKinds DEF Ended, Unwritten
  <1>4. ASSUME Len(rEvents) >= 2
        PROVE  FALSE
    <2>1. 1 \in 1 .. Len(rEvents) /\ 2 \in 1 .. Len(rEvents)
      BY <1>2, <1>4
    <2>2. rEvents[1] \in Range(rEvents) /\ rEvents[2] \in Range(rEvents)
      BY <1>2, <2>1, RangeEquality
    <2>3. rEvents[1] = rEvents[2]
      BY <1>3, <2>2
    <2> QED
      BY <2>1, <2>3 DEF PlaceInv, NoRepeats
  <1> QED
    BY <1>2, <1>4

(***************************************************************************)
(* The handler of file_cancel finds the queue of a transfer full only      *)
(* while its chunks are streamed: it never closes the file under           *)
(* startReceive, which has yet to answer, or under complete(), which       *)
(* verifies and renames it.  The code's queue has room for 256 events;    *)
(* two are enough.                                                         *)
(***************************************************************************)
THEOREM CommitIsUndisturbed ==
    ASSUME "dup" \notin Faults, QueueSize >= 2
    PROVE  Spec => []CommitUndisturbed
  <1>1. IInv /\ AccountInv /\ OpenedInv => CommitUndisturbed
    <2> SUFFICES ASSUME IInv, AccountInv, OpenedInv, QueueFull
                 PROVE  rpc \in {"none", "loop", "drain", "sync", "sidecar"}
      BY DEF CommitUndisturbed
    <2>1. Len(rEvents) \in Nat /\ Len(rEvents) >= 2
      BY LenProperties, TransferAssumption DEF QueueFull, IInv, ReceiverTypeOK
    <2>2. rpc # "opened"
      BY <2>1, OpenedQueue DEF AccountInv
    <2>3. rpc \notin Completing
      BY <2>1, CompletingQueue DEF AccountInv
    <2> QED
      BY <2>2, <2>3 DEF IInv, ReceiverTypeOK, ReceiverPC, Completing
  <1> QED
    BY <1>1, SpecInv, AccountAlways, OpenedAlways, PTL

-----------------------------------------------------------------------------
(* Sums over sets of chunks *)

(* What a function that sums up lengths computes from smaller sets. *)
SumOf(f, s) ==
    IF s = {} THEN 0 ELSE (CHOOSE c \in s : TRUE).length + f[s \ {CHOOSE c \in s : TRUE}]

(* PendingBytes is defined by recursion over the subsets. *)
LEMMA SumDefinition ==
    ASSUME NEW S
    PROVE  PendingBytes(S) = (CHOOSE f : f = [s \in SUBSET S |-> SumOf(f, s)])[S]
  BY DEF PendingBytes, MapThenSumSet, MapThenFoldSet, SumOf

(***************************************************************************)
(* The recursion has one solution: of two, a smallest subset on which they *)
(* differ could be made smaller.                                           *)
(***************************************************************************)
LEMMA SumUnique ==
    ASSUME NEW S, IsFiniteSet(S), NEW f, NEW g,
           f = [s \in SUBSET S |-> SumOf(f, s)],
           g = [s \in SUBSET S |-> SumOf(g, s)]
    PROVE  f = g
  <1> DEFINE T == {s \in SUBSET S : f[s] # g[s]}
             R == StrictSubsetOrdering(S)
  <1>1. CASE T = {}
    BY <1>1
  <1>2. CASE T # {}
    <2>1. IsWellFoundedOn(R, FiniteSubsetsOf(S))
      BY FS_StrictSubsetOrderingWellFounded
    <2>2. T \subseteq FiniteSubsetsOf(S)
      BY FS_FiniteSubsetsOfFinite
    <2> HIDE DEF T, R
    <2>3. PICK s \in T : \A t \in T : ~(<<t, s>> \in R)
      BY <1>2, <2>1, <2>2, WFMin
    <2>4. s \in SUBSET S /\ f[s] # g[s]
      BY DEF T
    <2>5. f[s] = SumOf(f, s) /\ g[s] = SumOf(g, s)
      BY <2>4
    <2>6. s # {}
      BY <2>4, <2>5 DEF SumOf
    <2> DEFINE x == CHOOSE c \in s : TRUE
    <2>7. x \in s
      BY <2>6
    <2>8. f[s \ {x}] # g[s \ {x}]
      BY <2>4, <2>5, <2>6 DEF SumOf
    <2> HIDE DEF x
    <2>9. s \ {x} \in T /\ <<s \ {x}, s>> \in R
      BY <2>4, <2>7, <2>8 DEF T, R, StrictSubsetOrdering
    <2> QED
      BY <2>3, <2>9
  <1> QED
    BY <1>1, <1>2

(* Any function that satisfies the recursion is the sum. *)
LEMMA SumIsMeasure ==
    ASSUME NEW S, IsFiniteSet(S), NEW m, m = [s \in SUBSET S |-> SumOf(m, s)]
    PROVE  PendingBytes(S) = m[S]
  <1> DEFINE f == CHOOSE g : g = [s \in SUBSET S |-> SumOf(g, s)]
  <1>1. f = [s \in SUBSET S |-> SumOf(f, s)]
    OBVIOUS
  <1> HIDE DEF f
  <1>2. f = m
    BY <1>1, SumUnique
  <1> QED
    BY <1>2, SumDefinition DEF f

(* The places in the file that a chunk fills. *)
Bytes(c) == c.offset .. c.offset + c.length - 1

BytesOf(s) == UNION {Bytes(c) : c \in s}

(* An interval of n places. *)
LEMMA IntervalCount ==
    ASSUME NEW k \in Nat, NEW n \in Nat
    PROVE  IsFiniteSet(k .. k + n - 1) /\ Cardinality(k .. k + n - 1) = n
  <1> DEFINE l == k + n - 1
  <1>1. l \in Int /\ k \in Int
    OBVIOUS
  <1>2. (IF k > l THEN 0 ELSE l - k + 1) = n
    OBVIOUS
  <1> HIDE DEF l
  <1>3. IsFiniteSet(k .. l) /\ Cardinality(k .. l) = IF k > l THEN 0 ELSE l - k + 1
    BY <1>1, FS_Interval
  <1>4. IsFiniteSet(k .. l) /\ Cardinality(k .. l) = n
    BY <1>2, <1>3
  <1> QED
    BY <1>4 DEF l

(* A chunk has as many bytes as its length says. *)
LEMMA BytesCount ==
    ASSUME NEW c, c.offset \in Nat, c.length \in Nat
    PROVE  IsFiniteSet(Bytes(c)) /\ Cardinality(Bytes(c)) = c.length
  <1>1. PICK k \in Nat : k = c.offset
    OBVIOUS
  <1>2. PICK n \in Nat : n = c.length
    OBVIOUS
  <1>3. IsFiniteSet(k .. k + n - 1) /\ Cardinality(k .. k + n - 1) = n
    BY IntervalCount
  <1> QED
    BY <1>1, <1>2, <1>3 DEF Bytes

(* Chunks that lie apart have as many bytes as their lengths add up to. *)
LEMMA SumIsCount ==
    ASSUME NEW S, IsFiniteSet(S),
           \A c \in S : c.offset \in Nat /\ c.length \in Nat,
           \A c, d \in S : c # d => Apart(c, d)
    PROVE  PendingBytes(S) = Cardinality(BytesOf(S))
  <1> DEFINE m == [s \in SUBSET S |-> Cardinality(BytesOf(s))]
  <1>1. ASSUME NEW s \in SUBSET S
        PROVE  IsFiniteSet(BytesOf(s))
    <2>1. IsFiniteSet(s)
      BY FS_Subset
    <2> DEFINE f == [c \in s |-> Bytes(c)]
    <2>2. f \in Surjection(s, {Bytes(c) : c \in s})
      BY DEF Surjection
    <2> HIDE DEF f
    <2>4. IsFiniteSet({Bytes(c) : c \in s})
      BY <2>1, <2>2, FS_Surjection
    <2>3. \A b \in {Bytes(c) : c \in s} : IsFiniteSet(b)
      BY BytesCount
    <2> QED
      BY <2>3, <2>4, FS_UNION DEF BytesOf
  <1>2. ASSUME NEW s \in SUBSET S
        PROVE  m[s] = SumOf(m, s)
    <2>1. CASE s = {}
      <3>1. BytesOf(s) = {}
        BY <2>1 DEF BytesOf
      <3> QED
        BY <2>1, <3>1, FS_EmptySet DEF SumOf
    <2>2. CASE s # {}
      <3> DEFINE x == CHOOSE c \in s : TRUE
                 r == s \ {x}
      <3>1. x \in s /\ r \in SUBSET S
        BY <2>2
      <3>2. SumOf(m, s) = x.length + Cardinality(BytesOf(r))
        BY <2>2, <3>1 DEF SumOf
      <3> HIDE DEF x
      <3>3. BytesOf(s) = Bytes(x) \cup BytesOf(r)
        BY <3>1 DEF BytesOf
      <3>4. ASSUME NEW b \in Bytes(x), b \in BytesOf(r)
            PROVE  FALSE
        <4>1. PICK d \in r : b \in Bytes(d)
          BY <3>4 DEF BytesOf
        <4>2. Apart(x, d) /\ x.offset \in Nat /\ x.length \in Nat /\ d.offset \in Nat
              /\ d.length \in Nat
          BY <3>1
        <4> QED
          BY <3>4, <4>1, <4>2 DEF Apart, Bytes
      <3>5. Bytes(x) \cap BytesOf(r) = {}
        BY <3>4
      <3>6. IsFiniteSet(Bytes(x)) /\ Cardinality(Bytes(x)) = x.length /\ x.length \in Nat
        BY <3>1, BytesCount
      <3>7. IsFiniteSet(BytesOf(r)) /\ Cardinality(BytesOf(r)) \in Nat
        BY <1>1, <3>1, FS_CardinalityType
      <3> HIDE DEF r
      <3>8. Cardinality(BytesOf(s)) = x.length + Cardinality(BytesOf(r))
        <4>1. Cardinality(Bytes(x) \cup BytesOf(r)) =
                 Cardinality(Bytes(x)) + Cardinality(BytesOf(r))
                 - Cardinality(Bytes(x) \cap BytesOf(r))
          BY <3>6, <3>7, FS_Union
        <4>2. Cardinality(Bytes(x) \cap BytesOf(r)) = 0
          BY <3>5, FS_EmptySet
        <4> QED
          BY <3>3, <3>6, <3>7, <4>1, <4>2
      <3> QED
        BY <3>2, <3>8
    <2> QED
      BY <2>1, <2>2
  <1>3. m = [s \in SUBSET S |-> SumOf(m, s)]
    BY <1>2
  <1>4. m[S] = Cardinality(BytesOf(S))
    OBVIOUS
  <1> HIDE DEF m
  <1> QED
    BY <1>3, <1>4, SumIsMeasure

(* Of finitely many chunks one is the first. *)
LEMMA LeastOffset ==
    ASSUME NEW S, IsFiniteSet(S), S # {}, \A c \in S : c.offset \in Nat
    PROVE  \E c \in S : \A d \in S : c.offset <= d.offset
  <1> DEFINE Upto(c) == {d \in S : d.offset <= c.offset}
             T == {Upto(c) : c \in S}
             R == StrictSubsetOrdering(S)
  <1>1. IsWellFoundedOn(R, FiniteSubsetsOf(S))
    BY FS_StrictSubsetOrderingWellFounded
  <1>2. T \subseteq FiniteSubsetsOf(S) /\ T # {}
    <2>1. T \subseteq SUBSET S /\ T # {}
      OBVIOUS
    <2> HIDE DEF T
    <2> QED
      BY <2>1, FS_FiniteSubsetsOfFinite
  <1>3. \E t \in T : \A u \in T : ~(<<u, t>> \in R)
    <2> HIDE DEF T, R
    <2> QED
      BY <1>1, <1>2, WFMin
  <1>4. PICK c \in S : \A d \in S : ~(<<Upto(d), Upto(c)>> \in R)
    BY <1>3
  <1>5. ASSUME NEW d \in S, d.offset < c.offset
        PROVE  FALSE
    <2>1. Upto(d) \subseteq Upto(c)
      BY <1>5
    <2>2. c \in Upto(c) /\ c \notin Upto(d)
      BY <1>5
    <2>3. Upto(d) \in SUBSET S /\ Upto(c) \in SUBSET S
      OBVIOUS
    <2> HIDE DEF Upto
    <2>4. <<Upto(d), Upto(c)>> \in R
      BY <2>1, <2>2, <2>3 DEF StrictSubsetOrdering
    <2> QED
      BY <1>4, <2>4
  <1> QED
    BY <1>4, <1>5

(* Chunks that lie apart, and within less than w bytes, have less than w bytes. *)
LEMMA SumBounded ==
    ASSUME NEW S, NEW w \in Nat \ {0}, NEW n \in Nat,
           \A c \in S : c.offset \in Nat /\ c.length \in Nat /\ c.offset <= n /\ c.length >= 1,
           \A c, d \in S : (c # d => Apart(c, d)) /\ d.offset + d.length < c.offset + w
    PROVE  PendingBytes(S) < w
  <1>1. IsFiniteSet(S)
    <2> DEFINE f == [c \in S |-> c.offset]
    <2>1. f \in Injection(S, 0 .. n)
      <3>1. f \in [S -> 0 .. n]
        OBVIOUS
      <3>2. ASSUME NEW c \in S, NEW d \in S, f[c] = f[d]
            PROVE  c = d
        <4>1. c.offset = d.offset
          BY <3>2
        <4>2. c # d => Apart(c, d)
          OBVIOUS
        <4> QED
          BY <4>1, <4>2 DEF Apart
      <3> QED
        BY <3>1, <3>2 DEF Injection, IsInjective
    <2>2. IsFiniteSet(0 .. n)
      BY FS_Interval
    <2> HIDE DEF f
    <2> QED
      BY <2>1, <2>2, FS_Injection
  <1>2. PendingBytes(S) = Cardinality(BytesOf(S))
    BY <1>1, SumIsCount
  <1>3. CASE S = {}
    <2>1. BytesOf(S) = {}
      BY <1>3 DEF BytesOf
    <2> QED
      BY <1>2, <2>1, FS_EmptySet
  <1>4. CASE S # {}
    <2>1. PICK c \in S : \A d \in S : c.offset <= d.offset
      BY <1>1, <1>4, LeastOffset
    <2>5. BytesOf(S) \subseteq c.offset .. c.offset + w - 2
      <3> SUFFICES ASSUME NEW d \in S, NEW b \in Bytes(d)
                   PROVE  b \in c.offset .. c.offset + w - 2
        BY DEF BytesOf
      <3> QED
        BY <2>1 DEF Bytes
    <2>6. /\ IsFiniteSet(c.offset .. c.offset + w - 2)
          /\ Cardinality(c.offset .. c.offset + w - 2) = w - 1
      <3>1. PICK k \in Nat : k = c.offset
        OBVIOUS
      <3>2. PICK l \in Nat : l = w - 1
        OBVIOUS
      <3>3. IsFiniteSet(k .. k + l - 1) /\ Cardinality(k .. k + l - 1) = l
        BY IntervalCount
      <3>4. k + l - 1 = c.offset + w - 2
        BY <3>1, <3>2
      <3> QED
        BY <3>1, <3>2, <3>3, <3>4
    <2>7. Cardinality(BytesOf(S)) <= w - 1 /\ Cardinality(BytesOf(S)) \in Nat
      BY <2>5, <2>6, FS_Subset, FS_CardinalityType
    <2> QED
      BY <1>2, <2>7
  <1> QED
    BY <1>3, <1>4

-----------------------------------------------------------------------------
(* The window *)

(* Chunks on their way to the disk, of any transfer. *)
Afoot == lanes \cup {e \in Range(rEvents) : IsChunk(e)} \cup rPending

(* No two chunks of a transfer overlap, and all lie within one window and a chunk. *)
SpanInv ==
    /\ \A c \in Afoot : Within(c)
    /\ \A c, d \in Afoot : c.id = d.id =>
          /\ c # d => Apart(c, d)
          /\ d.offset + d.length < c.offset + Window + ChunkSize

(* An offset that the running call of SendFile is going to be told is written. *)
Reported(n) ==
    \/ \E m \in Range(toSender) :
          m.type \in {"file_ack", "file_progress"} /\ m.id = sid /\ m.n = n
    \/ \E l \in rLeaving : l.step = "sidecar" /\ l.id = sid /\ l.n = n

(***************************************************************************)
(* What SendFile was told, or will be told, lies before every chunk of its *)
(* own that is not written, and they lie before its offset.                *)
(***************************************************************************)
Paced ==
    /\ \A n \in Nat : Reported(n) \/ n = sReceived =>
          n <= sOffset /\ \A c \in Afoot : c.id = sid => n <= c.offset
    /\ \A c \in Afoot : c.id = sid => c.offset + c.length <= sOffset

Unpaced == (\A c \in Afoot : c.id # sid) /\ \A n \in Nat : ~Reported(n)

PaceInv == spc # "idle" => IF spc = "waitAccept" THEN Unpaced ELSE Paced

(* While chunks of an earlier call are written the latest gets no answer. *)
EarlierInv == rpc # "none" /\ rid # sid /\ Unwritten # {} => Untouched(sid)

(* The loop writes only what SendFile sent once it had the answer. *)
WritingInv ==
    /\ rpc \in {"drain", "sync", "sidecar"} /\ Sending(rid) => spc # "waitAccept"
    /\ rpc = "sidecar" => rDurable = rExpected

WindowInv == SpanInv /\ PaceInv /\ EarlierInv /\ WritingInv

(* What is afoot are chunks. *)
LEMMA AfootType ==
    ASSUME IInv
    PROVE  /\ Afoot \subseteq Chunk
           /\ \A c \in Afoot : c.offset \in Nat /\ c.length \in Nat /\ c.id \in TransferIDs
  <1>1. Afoot \subseteq Chunk
    BY EventKinds DEF Afoot, IInv, NetTypeOK, ReceiverTypeOK
  <1>2. \A c \in Chunk : c.offset \in Nat /\ c.length \in Nat /\ c.id \in TransferIDs
    BY DEF Chunk
  <1> QED
    BY <1>1, <1>2

(* Chunks are those that were there, and one that SendFile sends. *)
LEMMA AfootStep ==
    ASSUME IInv, [Next]_vars, NEW c \in Afoot', c \notin Afoot
    PROVE  /\ SendChunk /\ spc = "stream" /\ spc' = "stream" /\ UNCHANGED <<sid, sReceived>>
           /\ sOffset < Size /\ ~WindowFull /\ ReadLength > 0
           /\ c.id = sid /\ c.offset = sOffset /\ c.length = ReadLength
           /\ c.index = sOffset \div ChunkSize /\ sOffset' = sOffset + ReadLength
           /\ UNCHANGED <<rEvents, rPending, toSender, rLeaving>>
           /\ \A d \in Afoot' : d \in Afoot \/ d = c
  <1>1. rEvents \in Seq(Event) /\ lanes \subseteq Chunk
    BY DEF IInv, ReceiverTypeOK, NetTypeOK
  <1>2. {e \in Range(rEvents') : IsChunk(e)} \cup rPending' \subseteq Afoot
    <2>1. CASE rEvents' = <<>> /\ rPending' = {}
      BY <2>1, RangeEmpty
    <2>2. CASE UNCHANGED rEvents /\ rPending' \subseteq rPending
      BY <2>2 DEF Afoot
    <2>3. ASSUME UNCHANGED rPending, NEW t \in {"end", "cancel"},
                 rEvents' = Append(rEvents, [type |-> t])
          PROVE  {e \in Range(rEvents') : IsChunk(e)} \cup rPending' \subseteq Afoot
      <3>1. [type |-> t] \in Event /\ ~IsChunk([type |-> t])
        BY DEF Event, IsChunk
      <3>2. Range(rEvents') = Range(rEvents) \cup {[type |-> t]}
        BY <1>1, <2>3, <3>1, RangeAppend
      <3> QED
        BY <2>3, <3>1, <3>2 DEF Afoot
    <2>4. ASSUME UNCHANGED rPending, NEW d \in lanes, rEvents' = Append(rEvents, d)
          PROVE  {e \in Range(rEvents') : IsChunk(e)} \cup rPending' \subseteq Afoot
      <3>1. d \in Event
        BY <1>1 DEF Event
      <3>2. Range(rEvents') = Range(rEvents) \cup {d}
        BY <1>1, <2>4, <3>1, RangeAppend
      <3> QED
        BY <2>4, <3>2 DEF Afoot
    <2>5. CASE /\ rEvents # <<>> /\ rEvents' = Tail(rEvents)
               /\ \/ UNCHANGED rPending
                  \/ /\ Head(rEvents).type = "chunk"
                     /\ rPending' = rPending \cup {Head(rEvents)}
      <3>1. Range(rEvents') \subseteq Range(rEvents) /\ Head(rEvents) \in Range(rEvents)
        BY <1>1, <2>5, RangeTail
      <3> QED
        BY <2>5, <3>1 DEF Afoot, IsChunk
    <2> QED
      BY <2>1, <2>2, <2>3, <2>4, <2>5, EventsStep DEF EventsChange
  <1>3. c \in lanes' /\ c \notin lanes
    BY <1>2 DEF Afoot
  <1>4. SendChunk
    BY <1>3, NewChunks
  <1>5. open
    BY <1>3, <1>4 DEF SendChunk
  <1> DEFINE s == [type |-> "chunk", id |-> sid, index |-> sOffset \div ChunkSize,
                   offset |-> sOffset, length |-> ReadLength, ver |-> source.ver]
  <1>6. /\ lanes' = lanes \cup {s} /\ s.id = sid /\ s.offset = sOffset /\ s.length = ReadLength
        /\ s.index = sOffset \div ChunkSize
        /\ spc = "stream" /\ spc' = "stream" /\ UNCHANGED <<sid, sReceived>>
        /\ sOffset < Size /\ ~WindowFull /\ ReadLength > 0
        /\ sOffset' = sOffset + ReadLength
        /\ UNCHANGED <<rEvents, rPending, toSender, rLeaving>>
    BY <1>4, <1>5 DEF SendChunk, receiverSide, loopVars
  <1> HIDE DEF s
  <1>7. c = s /\ \A d \in Afoot' : d \in Afoot \/ d = s
    BY <1>2, <1>3, <1>6 DEF Afoot
  <1> QED
    BY <1>4, <1>6, <1>7

(* The window keeps chunks together. *)
LEMMA SpanNext ==
    ASSUME IInv, SpanInv, PaceInv, [Next]_vars
    PROVE  SpanInv'
  <1>1. CASE Afoot' \subseteq Afoot
    <2>1. /\ \A c \in Afoot' : Within(c)
          /\ \A c, d \in Afoot' : c.id = d.id =>
                /\ c # d => Apart(c, d)
                /\ d.offset + d.length < c.offset + Window + ChunkSize
      BY <1>1 DEF SpanInv
    <2> QED
      BY <2>1 DEF SpanInv, Within, Apart
  <1>2. ASSUME NEW s \in Afoot', s \notin Afoot
        PROVE  SpanInv'
    <2>1. /\ spc = "stream" /\ sOffset < Size /\ ~WindowFull /\ ReadLength > 0
          /\ s.id = sid /\ s.offset = sOffset /\ s.length = ReadLength
          /\ \A d \in Afoot' : d \in Afoot \/ d = s
      BY <1>2, AfootStep
    <2>2. /\ sOffset \in Nat /\ sReceived \in Nat /\ ChunkSize \in Nat \ {0}
          /\ Window \in Nat \ {0} /\ source.len \in Nat /\ Size \in Nat
      BY ProtocolAssumption, TransferAssumption DEF IInv, SenderTypeOK
    <2>3. ReadLength \in Nat /\ ReadLength >= 1 /\ sOffset + ReadLength <= Size
      BY <2>1, ReadLengthRange
    <2>4. ReadLength <= ChunkSize
      BY <2>1, <2>2 DEF ReadLength, LargerOf, SmallerOf
    <2>5. sOffset < sReceived + Window
      BY <2>1, <2>2 DEF WindowFull
    <2>6. Paced
      BY <2>1 DEF PaceInv
    <2>7. Within(s) /\ s.offset + s.length < s.offset + Window + ChunkSize
      BY <2>1, <2>2, <2>3, <2>4 DEF Within
    <2>8. ASSUME NEW c \in Afoot, c.id = sid
          PROVE  /\ Apart(c, s) /\ Apart(s, c)
                 /\ s.offset + s.length < c.offset + Window + ChunkSize
                 /\ c.offset + c.length < s.offset + Window + ChunkSize
      <3>1. sReceived <= c.offset /\ c.offset + c.length <= sOffset
        BY <2>2, <2>6, <2>8 DEF Paced
      <3>2. c.offset \in Nat /\ c.length \in Nat
        BY AfootType
      <3> QED
        BY <2>1, <2>2, <2>3, <2>4, <2>5, <3>1, <3>2 DEF Apart
    <2>9. /\ \A c \in Afoot' : Within(c)
          /\ \A c, d \in Afoot' : c.id = d.id =>
                /\ c # d => Apart(c, d)
                /\ d.offset + d.length < c.offset + Window + ChunkSize
      BY <2>1, <2>7, <2>8 DEF SpanInv
    <2> QED
      BY <2>9 DEF SpanInv, Within, Apart
  <1> QED
    BY <1>1, <1>2

(* An earlier call's chunks are written while the latest gets no answer. *)
LEMMA EarlierNext ==
    ASSUME "dup" \notin Faults, IInv, CallInv, EmptyInv, OfferInv, FreshInv, AheadInv,
           EarlierInv, [Next]_vars
    PROVE  EarlierInv'
  <1> SUFFICES ASSUME rpc' # "none", rid' # sid', Unwritten' # {}
               PROVE  Untouched(sid)'
    BY DEF EarlierInv
  <1>1. rpc # "none"
    <2>1. ASSUME NEW o \in starting, StartReceive(o)
          PROVE  FALSE
      BY <2>1, StartEmpty
    <2> QED
      BY <2>1, RegistryStep
  <1>2. rid' = rid
    BY <1>1, UnwrittenStep
  <1>3. /\ sid \in 0 .. MaxTransfers /\ MaxTransfers \in Nat
        /\ rid \in TransferIDs /\ rid <= sid
    BY <1>1, ProtocolAssumption DEF IInv, SenderTypeOK, ReceiverTypeOK, AheadInv
  <1>4. CASE SendFile
    <2>1. PICK id \in TransferIDs : id = sid + 1
      BY <1>3, <1>4 DEF SendFile
    <2>2. sid' = id
      BY <1>4, <2>1 DEF SendFile
    <2>3. Untouched(id)
      BY <1>3, <2>1 DEF FreshInv, Fresh
    <2>4. Untouched(id)'
      BY <1>1, <2>3, UntouchedNext DEF StartReceive
    <2> QED
      BY <2>2, <2>4 DEF Untouched
  <1>5. CASE ~SendFile
    <2>1. sid' = sid
      BY <1>5, CallsMove DEF CallMoves
    <2>2. Unwritten # {}
      BY <1>1, <1>2, <2>1, UnwrittenStep
    <2>3. PICK id \in TransferIDs : id = sid
      BY <1>3
    <2>4. Untouched(id)
      BY <1>1, <1>2, <2>1, <2>2, <2>3 DEF EarlierInv
    <2>5. Untouched(id)'
      BY <1>1, <2>4, UntouchedNext DEF StartReceive
    <2> QED
      BY <2>1, <2>3, <2>5 DEF Untouched
  <1> QED
    BY <1>4, <1>5

(* How the loop comes to write and to store a checkpoint. *)
LEMMA WritingStep ==
    ASSUME [Next]_vars, rpc' \in {"drain", "sync", "sidecar"}
    PROVE  /\ rpc # "none" /\ rid' = rid
           /\ \/ rpc \in {"drain", "sync", "sidecar"}
              \/ TakeChunk /\ rEvents # <<>> /\ IsChunk(Head(rEvents)) /\ UNCHANGED senderVars
           /\ rpc' = "sidecar" =>
                 \/ UNCHANGED <<rpc, rDurable, rExpected>>
                 \/ rDurable' = rExpected /\ rExpected' = rExpected
  <1>1. CASE ReceiverSteps
    BY <1>1
       DEF ReceiverSteps, StartReceive, StartLoop, TakeChunk, TakeEnd, TakeCancel,
           EndDeadline, LoopClosed, WriteChunk, Sidecar, Sync, Drained, Complete,
           RemoveDestination, Rename, Unlink, FinishReceiver, Leave, ReceiveFailed, Finish,
           AfterComplete, loopVars, Take, IsChunk, senderSide
  <1>2. CASE HandleCancelOfReceiver
    BY <1>2 DEF HandleCancelOfReceiver, ReceiveFailed, Finish, loopVars
  <1>3. CASE DiskError \/ Crash \/ PowerLoss
    BY <1>3 DEF DiskError, Crash, PowerLoss, ReceiveFailed, Finish, noReceiver
  <1> QED
    BY <1>1, <1>2, <1>3, ReceiverFrame

(* A loop that writes has a sender beyond the answer. *)
LEMMA WritingNext ==
    ASSUME IInv, AheadInv, WritingInv, [Next]_vars
    PROVE  WritingInv'
  <1>1. rpc' = "sidecar" => rDurable' = rExpected'
    BY WritingStep DEF WritingInv
  <1>2. ASSUME rpc' \in {"drain", "sync", "sidecar"}, Sending(rid)'
        PROVE  spc' # "waitAccept"
    <2>1. rpc # "none" /\ rid' = rid /\ rid <= sid /\ rid \in Nat
      BY <1>2, WritingStep DEF AheadInv, IInv, ReceiverTypeOK
    <2>2. Sending(rid) /\ sid' = sid
      BY <1>2, <2>1, CallsEnd DEF Sending
    <2>3. spc # "waitAccept"
      <3>1. CASE rpc \in {"drain", "sync", "sidecar"}
        BY <2>2, <3>1 DEF WritingInv
      <3>2. CASE rEvents # <<>> /\ IsChunk(Head(rEvents))
        <4>1. Head(rEvents) \in Range(rEvents)
          BY <3>2, RangeTail DEF IInv, ReceiverTypeOK
        <4>2. Unwritten # {}
          BY <3>2, <4>1 DEF Unwritten
        <4> QED
          BY <2>1, <2>2, <4>2 DEF AheadInv, Unanswered
      <3> QED
        BY <1>2, <3>1, <3>2, WritingStep
    <2> QED
      BY <2>2, <2>3, CallsMove DEF CallMoves, Accepted, IInv, SenderTypeOK
  <1> QED
    BY <1>1, <1>2 DEF WritingInv

(* Whatever is reported to SendFile is where the loop stands, or stood. *)
LEMMA ReportStep ==
    ASSUME IInv, WritingInv, CommitInv, [Next]_vars, sid' = sid, NEW n \in Nat, Reported(n)'
    PROVE  \/ Reported(n)
           \/ /\ Registered(sid) /\ rpc \in {"drain", "sidecar", "unlink"}
              /\ rpc' # "none" /\ rid' = rid /\ n = rExpected'
           \/ Registered(sid) /\ rpc = "sidecar" /\ n = rExpected
  <1>1. ASSUME NEW m \in Range(toSender'), m.type \in {"file_ack", "file_progress"},
               m.id = sid, m.n = n
        PROVE  \/ Reported(n)
               \/ /\ Registered(sid) /\ rpc \in {"drain", "sidecar", "unlink"}
                  /\ rpc' # "none" /\ rid' = rid /\ n = rExpected'
    <2>1. CASE m \in Range(toSender)
      BY <1>1, <2>1 DEF Reported
    <2>2. CASE SaysProgress(m)
      <3>1. rpc \in {"drain", "sidecar"} /\ rpc' = "drain" /\ m.id = rid /\ n = rExpected'
        BY <1>1, <2>2 DEF SaysProgress
      <3> QED
        BY <1>1, <3>1, WritingStep DEF Registered
    <2>3. CASE SaysCheckpoint(m)
      <3>1. CASE rpc = "sidecar" /\ rpc' = "drain" /\ m.id = rid /\ m.n = rDurable
        <4>1. n = rExpected
          BY <1>1, <3>1 DEF WritingInv
        <4>2. rExpected' = rExpected
          <5>1. ReceiverSteps => UNCHANGED rExpected
            BY <3>1
               DEF ReceiverSteps, StartReceive, StartLoop, TakeChunk, TakeEnd, TakeCancel,
                   EndDeadline, LoopClosed, WriteChunk, Sidecar, Sync, Drained, Complete,
                   RemoveDestination, Rename, Unlink, FinishReceiver, Leave, loopVars, Take
          <5>2. HandleCancelOfReceiver \/ DiskError \/ Crash \/ PowerLoss
                   => UNCHANGED rExpected
            BY <3>1 DEF HandleCancelOfReceiver, DiskError, Crash, PowerLoss, ReceiveFailed,
                        Finish, noReceiver, loopVars
          <5> QED
            BY <5>1, <5>2, ReceiverFrame
        <4> QED
          BY <1>1, <3>1, <4>1, <4>2, WritingStep DEF Registered
      <3>2. CASE \E l \in rLeaving : l.step = "sidecar" /\ m.id = l.id /\ m.n = l.n
        BY <1>1, <3>2 DEF Reported
      <3> QED
        BY <2>3, <3>1, <3>2 DEF SaysCheckpoint
    <2>4. CASE SaysCommit(m)
      <3>1. rpc = "unlink" /\ rpc' = "finish" /\ m.id = rid /\ n = Size
        BY <1>1, <2>4 DEF SaysCommit
      <3>2. rExpected = Size
        BY <3>1 DEF CommitInv, Completing
      <3>3. rid' = rid
        BY <3>1, RegistryStep DEF StartReceive
      <3>4. rExpected' = rExpected
        <4>1. ReceiverSteps => UNCHANGED rExpected
          BY <3>1
             DEF ReceiverSteps, StartReceive, StartLoop, TakeChunk, TakeEnd, TakeCancel,
                 EndDeadline, LoopClosed, WriteChunk, Sidecar, Sync, Drained, Complete,
                 RemoveDestination, Rename, Unlink, FinishReceiver, Leave, loopVars, Take
        <4>2. HandleCancelOfReceiver \/ DiskError \/ Crash \/ PowerLoss
                 => UNCHANGED rExpected
          BY <3>1 DEF HandleCancelOfReceiver, DiskError, Crash, PowerLoss, ReceiveFailed,
                      Finish, noReceiver, loopVars
        <4> QED
          BY <4>1, <4>2, ReceiverFrame
      <3> QED
        BY <1>1, <3>1, <3>2, <3>3, <3>4 DEF Registered
    <2> QED
      BY <1>1, <2>1, <2>2, <2>3, <2>4, NewMessages
         DEF NothingElseSaid, Said, SaysAccept
  <1>2. ASSUME NEW k \in rLeaving', k.step = "sidecar", k.id = sid, k.n = n
        PROVE  Reported(n) \/ (Registered(sid) /\ rpc = "sidecar" /\ n = rExpected)
    <2>1. CASE k \in rLeaving
      BY <1>2, <2>1 DEF Reported
    <2>2. CASE HandleCancelOfReceiver /\ k \notin rLeaving
      BY <1>2, <2>2 DEF HandleCancelOfReceiver, Registered, WritingInv
    <2>3. ReceiverSteps /\ k \notin rLeaving => FALSE
      <3>1. ASSUME NEW l \in rLeaving, Leave(l), k \notin rLeaving
            PROVE  FALSE
        <4>1. k = [l EXCEPT !.step = "meta"]
          BY <3>1 DEF Leave
        <4>2. l \in Leaving
          BY DEF IInv, ReceiverTypeOK
        <4>3. k.step = "meta"
          BY <4>1, <4>2 DEF Leaving
        <4> QED
          BY <1>2, <4>3
      <3>2. Complete => k \in rLeaving
        BY <1>2 DEF Complete
      <3>3. ReceiverSteps => \/ \E l \in rLeaving : Leave(l)
                             \/ Complete
                             \/ UNCHANGED rLeaving
        BY DEF ReceiverSteps, StartReceive, StartLoop, TakeChunk, TakeEnd, TakeCancel,
               EndDeadline, LoopClosed, WriteChunk, Sidecar, Sync, Drained,
               RemoveDestination, Rename, Unlink, FinishReceiver
      <3> QED
        BY <3>1, <3>2, <3>3
    <2>4. DiskError \/ Crash \/ PowerLoss => k \in rLeaving
      BY DEF DiskError, Crash, PowerLoss, noReceiver
    <2> QED
      BY <2>1, <2>2, <2>3, <2>4, ReceiverFrame
  <1> QED
    BY <1>1, <1>2 DEF Reported

(* SendFile's counter is what it was told. *)
LEMMA ReceivedStep ==
    ASSUME [Next]_vars, IInv, spc # "idle", spc' # "idle"
    PROVE  \/ UNCHANGED sReceived
           \/ Accepted
           \/ Reported(sReceived')
  <1>1. SourceChange \/ UNCHANGED senderVars => UNCHANGED sReceived
    BY DEF SourceChange, senderVars
  <1>2. SendFile => spc = "idle"
    BY DEF SendFile
  <1>3. SenderSteps \/ CtxDone \/ SendRefused \/ PeerCancel
           => UNCHANGED sReceived \/ spc' = "idle" \/ Accepted
    BY DEF SenderSteps, SendChunk, SendEnd, Block, Wake, WaitForBuffer, Completed, Cancelled,
           SenderTimeout, SenderReturn, CtxDone, SendRefused, PeerCancel
  <1>4. HandleAccept \/ HandleCancelOfSender => UNCHANGED sReceived
    BY DEF HandleAccept, HandleCancelOfSender
  <1>5. CASE HandleAck
    <2>1. toSender # <<>> /\ Head(toSender) \in Range(toSender)
      BY <1>5, RangeTail DEF HandleAck, IInv, NetTypeOK
    <2> QED
      BY <1>5, <2>1 DEF HandleAck, Sending, LargerOf, Reported
  <1> QED
    BY <1>1, <1>2, <1>3, <1>4, <1>5, SenderFrame DEF SenderHandlers

(* The offset of a running call only grows. *)
LEMMA OffsetGrows ==
    ASSUME IInv, [Next]_vars, spc # "idle", spc' # "idle", ~Accepted
    PROVE  sOffset' \in Nat /\ sOffset \in Nat /\ sOffset <= sOffset'
  <1>1. sOffset \in Nat
    BY DEF IInv, SenderTypeOK
  <1>2. SendChunk /\ spc' = "stream" =>
           sOffset' = sOffset + ReadLength /\ ReadLength > 0 /\ sOffset < Size
    BY DEF SendChunk, SenderReturn
  <1>3. CASE SendChunk /\ spc' = "stream"
    BY <1>1, <1>2, <1>3, ReadLengthRange
  <1>4. CASE UNCHANGED sOffset
    BY <1>1, <1>4
  <1> QED
    BY <1>3, <1>4, CallsMove DEF CallMoves

(* An offer leaves no chunk and no report of the new call behind. *)
LEMMA PaceStart ==
    ASSUME IInv, EmptyInv, FlowInv, AheadInv, FreshInv, SendFile
    PROVE  Unpaced'
  <1>1. PICK id \in TransferIDs : id = sid + 1
    BY ProtocolAssumption DEF SendFile, IInv, SenderTypeOK
  <1>2. sid \in Nat
    BY DEF IInv, SenderTypeOK
  <1>3. Untouched(id)
    BY <1>1, <1>2 DEF FreshInv, Fresh
  <1>4. /\ sid' = id /\ UNCHANGED <<lanes, rEvents, rPending, toSender, rLeaving>>
    BY <1>1 DEF SendFile, receiverSide, loopVars
  <1>5. ASSUME NEW c \in Afoot, c.id = id
        PROVE  FALSE
    <2>1. c \notin lanes
      BY <1>3, <1>5 DEF Untouched
    <2>2. rpc # "none"
      BY <2>1, RangeEmpty DEF Afoot, EmptyInv
    <2>3. c \in Unwritten
      BY <2>1 DEF Afoot, Unwritten
    <2>4. c.id = rid /\ rid <= sid /\ rid \in Nat
      BY <2>2, <2>3 DEF FlowInv, AheadInv, IInv, ReceiverTypeOK
    <2> QED
      BY <1>1, <1>2, <1>5, <2>4
  <1>6. ASSUME NEW n \in Nat, Reported(n)'
        PROVE  FALSE
    BY <1>3, <1>4, <1>6 DEF Reported, Untouched
  <1> QED
    BY <1>4, <1>5, <1>6 DEF Unpaced, Afoot

(* SendFile is told of nothing that is still afoot. *)
LEMMA PaceNext ==
    ASSUME "dup" \notin Faults, IInv, EmptyInv, FlowInv, AheadInv, ToldInv, CommitInv,
           FreshInv, PaceInv, WritingInv, FlowInv', AheadInv', [Next]_vars
    PROVE  PaceInv'
  <1> SUFFICES ASSUME spc' # "idle"
               PROVE  IF spc' = "waitAccept" THEN Unpaced' ELSE Paced'
    BY DEF PaceInv
  <1>1. CASE SendFile
    BY <1>1, PaceStart DEF SendFile
  <1> SUFFICES ASSUME ~SendFile
               PROVE  IF spc' = "waitAccept" THEN Unpaced' ELSE Paced'
    BY <1>1
  <1>2. sid' = sid /\ spc # "idle"
    BY CallsMove DEF CallMoves, Accepted, SendChunk
  <1>3. /\ sid \in Nat /\ sOffset \in Nat /\ sReceived \in Nat /\ rExpected \in Nat
        /\ sReceived' \in Nat /\ rExpected' \in Nat
    BY NextInv DEF IInv, SenderTypeOK, ReceiverTypeOK
  <1>4. \A c \in Afoot' : c.offset \in Nat /\ c.length \in Nat
    <2> SUFFICES ASSUME NEW c \in Afoot'
                 PROVE  c.offset \in Nat /\ c.length \in Nat
      OBVIOUS
    <2>1. CASE c \in Afoot
      BY <2>1, AfootType
    <2>2. CASE c \notin Afoot
      BY <1>3, <2>2, AfootStep, ReadLengthRange
    <2> QED
      BY <2>1, <2>2
  <1>5. CASE spc' = "waitAccept"
    <2>1. spc = "waitAccept"
      BY <1>2, <1>5, CallsMove DEF CallMoves, Accepted
    <2>2. Unpaced
      BY <2>1 DEF PaceInv
    <2>3. \A c \in Afoot' : c.id # sid'
      BY <1>2, <2>1, <2>2, AfootStep DEF Unpaced
    <2>4. ASSUME NEW n \in Nat, Reported(n)'
          PROVE  FALSE
      <3>1. Registered(sid) /\ rpc \in {"drain", "sidecar", "unlink"}
        BY <1>2, <2>2, <2>4, ReportStep DEF Unpaced
      <3>2. Sending(rid) /\ Producing(rid)
        BY <1>2, <2>1, <3>1 DEF Registered, Sending, Producing
      <3>3. rpc = "unlink"
        BY <2>1, <3>1, <3>2 DEF WritingInv
      <3> QED
        BY <3>2, <3>3 DEF CommitInv, Completing, ToldInv, Ended
    <2> QED
      BY <1>5, <2>3, <2>4 DEF Unpaced
  <1>6. CASE Accepted
    <2>1. /\ spc = "waitAccept" /\ spc' = "stream"
          /\ sOffset' = ResumeOffset(sAccept) /\ sReceived' = ResumeOffset(sAccept)
          /\ UNCHANGED <<lanes, rEvents, rPending, toSender, rLeaving>>
      BY <1>6 DEF Accepted, receiverSide, loopVars, netVars
    <2>2. Unpaced
      BY <2>1 DEF PaceInv
    <2>3. \A c \in Afoot' : c.id # sid'
      BY <1>2, <2>1, <2>2 DEF Afoot, Unpaced
    <2>4. \A n \in Nat : ~Reported(n)'
      BY <1>2, <2>1, <2>2 DEF Reported, Unpaced
    <2>5. sReceived' <= sOffset'
      BY <1>3, <2>1
    <2> QED
      BY <2>1, <2>3, <2>4, <2>5 DEF Paced
  <1>7. CASE spc' # "waitAccept" /\ ~Accepted
    <2>1. spc # "waitAccept"
      BY <1>2, <1>7, CallsMove DEF CallMoves, SendChunk
    <2>2. Paced
      BY <1>2, <2>1 DEF PaceInv
    <2>3. sOffset' \in Nat /\ sOffset <= sOffset'
      BY <1>2, <1>7, OffsetGrows
    <2>4. ASSUME NEW c \in Afoot', c.id = sid'
          PROVE  c.offset + c.length <= sOffset'
      <3>1. CASE c \in Afoot
        BY <1>2, <1>3, <1>4, <2>2, <2>3, <2>4, <3>1 DEF Paced
      <3>2. CASE c \notin Afoot
        BY <1>4, <2>3, <3>2, AfootStep
      <3> QED
        BY <3>1, <3>2
    <2>5. ASSUME NEW n \in Nat, n <= sOffset, \A c \in Afoot : c.id = sid => n <= c.offset
          PROVE  n <= sOffset' /\ \A c \in Afoot' : c.id = sid' => n <= c.offset
      <3>1. n <= sOffset'
        BY <1>3, <2>3, <2>5
      <3>2. ASSUME NEW c \in Afoot', c.id = sid'
            PROVE  n <= c.offset
        <4>1. CASE c \in Afoot
          BY <1>2, <2>5, <3>2, <4>1
        <4>2. CASE c \notin Afoot
          BY <2>5, <4>2, AfootStep
        <4> QED
          BY <4>1, <4>2
      <3> QED
        BY <3>1, <3>2
    <2>6. ASSUME NEW n \in Nat, Reported(n)
          PROVE  n <= sOffset' /\ \A c \in Afoot' : c.id = sid' => n <= c.offset
      BY <2>2, <2>5, <2>6 DEF Paced
    <2>7. ASSUME NEW n \in Nat, Reported(n)'
          PROVE  n <= sOffset' /\ \A c \in Afoot' : c.id = sid' => n <= c.offset
      <3>1. CASE Reported(n)
        BY <2>6, <3>1
      <3>2. CASE Registered(sid) /\ rpc = "sidecar" /\ n = rExpected
        <4>1. rpc # "none" /\ rid = sid /\ Sending(rid)
          BY <1>2, <3>2 DEF Registered, Sending
        <4>2. rExpected <= sOffset
          BY <2>1, <4>1 DEF AheadInv, Ahead
        <4>3. \A c \in Afoot : c.id = sid => n <= c.offset
          BY <3>2, <4>1 DEF FlowInv, Afoot, Unwritten
        <4> QED
          BY <2>5, <3>2, <4>2, <4>3
      <3>3. CASE Registered(sid) /\ rpc' # "none" /\ rid' = rid /\ n = rExpected'
        <4>1. rid' = sid' /\ Sending(rid)'
          BY <1>2, <3>3 DEF Registered, Sending
        <4>2. rExpected' <= sOffset'
          BY <1>7, <3>3, <4>1 DEF AheadInv, Ahead
        <4>3. \A c \in Afoot' : c.id = sid' => n <= c.offset
          BY <3>3, <4>1 DEF FlowInv, Afoot, Unwritten
        <4> QED
          BY <3>3, <4>2, <4>3
      <3> QED
        BY <1>2, <2>7, <3>1, <3>2, <3>3, ReportStep
    <2>8. sReceived' <= sOffset' /\ \A c \in Afoot' : c.id = sid' => sReceived' <= c.offset
      <3>1. CASE UNCHANGED sReceived
        BY <1>3, <2>2, <2>5, <3>1 DEF Paced
      <3>2. CASE Reported(sReceived')
        BY <1>3, <2>6, <3>2
      <3> QED
        BY <1>2, <1>7, <3>1, <3>2, ReceivedStep
    <2> QED
      BY <1>7, <2>4, <2>7, <2>8 DEF Paced
  <1> QED
    BY <1>5, <1>6, <1>7

(* Nothing is afoot when the managers are created. *)
LEMMA WindowInit == Init => WindowInv
  BY RangeEmpty
     DEF Init, WindowInv, SpanInv, PaceInv, EarlierInv, WritingInv, Afoot, Unwritten

(* The invariant is inductive. *)
LEMMA WindowNext ==
    ASSUME "dup" \notin Faults
    PROVE  IInv /\ AgreementInv /\ AccountInv /\ OfferInv /\ FreshInv /\ WindowInv /\ [Next]_vars
              => WindowInv'
  <1> SUFFICES ASSUME IInv, AgreementInv, AccountInv, OfferInv, FreshInv, WindowInv, [Next]_vars
               PROVE  WindowInv'
    OBVIOUS
  <1>1. EmptyInv /\ FlowInv /\ PlaceInv /\ AheadInv /\ ToldInv /\ CommitInv
    BY DEF AccountInv
  <1>2. SpanInv /\ PaceInv /\ EarlierInv /\ WritingInv /\ CallInv
    BY DEF WindowInv, AgreementInv
  <1>3. SpanInv'
    BY <1>2, SpanNext
  <1>4. FlowInv' /\ AheadInv'
    BY <1>1, FlowNext, AheadNext
  <1>5. PaceInv'
    BY <1>1, <1>2, <1>4, PaceNext
  <1>6. EarlierInv' /\ WritingInv'
    BY <1>1, <1>2, EarlierNext, WritingNext
  <1> QED
    BY <1>3, <1>5, <1>6 DEF WindowInv

(* Chunks in flight are of one transfer. *)
LEMMA WindowBounds ==
    ASSUME IInv, EmptyInv, FlowInv, WindowInv
    PROVE  MemoryBounded
  <1>1. InFlight \subseteq Afoot
    BY DEF InFlight, Afoot, IsChunk, Range
  <1>2. \A c, d \in InFlight : c.id = d.id
    <2>1. CASE rpc = "none"
      <3>1. \A c \in InFlight : c.id = sid
        BY <2>1, RangeEmpty DEF InFlight, EmptyInv
      <3> QED
        BY <3>1
    <2>2. CASE rpc # "none"
      <3>1. \A c \in InFlight : (c.id = sid /\ c \in lanes) \/ (c \in Unwritten /\ c.id = rid)
        <4>1. ASSUME NEW c \in InFlight
              PROVE  (c.id = sid /\ c \in lanes) \/ c \in Unwritten
          <5>1. CASE c \in lanes /\ c.id = sid
            BY <5>1
          <5>2. CASE c \in rPending
            BY <5>2 DEF Unwritten
          <5>3. ASSUME NEW k \in DOMAIN rEvents, rEvents[k].type = "chunk", c = rEvents[k]
                PROVE  c \in Unwritten
            BY <5>3 DEF Unwritten, IsChunk, Range
          <5> QED
            BY <5>1, <5>2, <5>3 DEF InFlight
        <4>2. \A c \in Unwritten : c.id = rid
          BY <2>2 DEF FlowInv
        <4> QED
          BY <4>1, <4>2
      <3>2. rid # sid /\ Unwritten # {} => \A c \in lanes : c.id # sid
        BY <2>2 DEF WindowInv, EarlierInv, Untouched
      <3> QED
        BY <3>1, <3>2
    <2> QED
      BY <2>1, <2>2
  <1>3. Size \in Nat /\ Window + ChunkSize \in Nat \ {0}
    BY ProtocolAssumption, TransferAssumption
  <1>4. \A c \in InFlight : /\ c.offset \in Nat /\ c.length \in Nat
                            /\ c.offset <= Size /\ c.length >= 1
    <2> SUFFICES ASSUME NEW c \in InFlight
                 PROVE  /\ c.offset \in Nat /\ c.length \in Nat
                        /\ c.offset <= Size /\ c.length >= 1
      OBVIOUS
    <2>1. c.offset \in Nat /\ c.length \in Nat /\ Within(c)
      BY <1>1, AfootType DEF WindowInv, SpanInv
    <2> QED
      BY <1>3, <2>1 DEF Within
  <1>5. \A c, d \in InFlight : /\ c # d => Apart(c, d)
                               /\ d.offset + d.length < c.offset + (Window + ChunkSize)
    <2> SUFFICES ASSUME NEW c \in InFlight, NEW d \in InFlight
                 PROVE  /\ c # d => Apart(c, d)
                        /\ d.offset + d.length < c.offset + (Window + ChunkSize)
      OBVIOUS
    <2>1. /\ c # d => Apart(c, d)
          /\ d.offset + d.length < c.offset + Window + ChunkSize
      BY <1>1, <1>2 DEF WindowInv, SpanInv
    <2> QED
      BY <1>4, <2>1, ProtocolAssumption, TransferAssumption
  <1> HIDE DEF InFlight
  <1>6. PendingBytes(InFlight) < Window + ChunkSize
    BY <1>3, <1>4, <1>5, SumBounded
  <1> QED
    BY <1>6 DEF MemoryBounded

(***************************************************************************)
(* What SendFile has sent and receiveLoop has not written, in lanes, in    *)
(* the event queue and in the reorder buffer, is always less than a window *)
(* and a chunk, of one transfer, through crashes, cancels and retries: the *)
(* window of SendFile counts from what it was told is written.  A lane     *)
(* that repeats a chunk is excluded: the repetition is in flight again.    *)
(***************************************************************************)
THEOREM MemoryIsBounded ==
    ASSUME "dup" \notin Faults
    PROVE  Spec => []MemoryBounded
  <1>1. Spec => []WindowInv
    BY WindowInit, WindowNext, SpecInv, AgreementAlways, AccountAlways, PTL DEF Spec
  <1>2. IInv /\ AccountInv /\ WindowInv => MemoryBounded
    BY WindowBounds DEF AccountInv
  <1> QED
    BY <1>1, <1>2, SpecInv, AccountAlways, PTL
-----------------------------------------------------------------------------
(***************************************************************************)
(* Room in the event queue.  The chunks of one window have so many         *)
(* different indices as there are chunk sizes in it, so a queue with room  *)
(* for three events more is never found full by a cancel.                  *)
(***************************************************************************)
Aligned(n) == n = (n \div ChunkSize) * ChunkSize

(* Chunks lie where their index says, in a source that keeps its size. *)
AlignInv ==
    /\ spc # "idle" => source.len = Size
    /\ spc \notin {"idle", "waitAccept"} /\ sOffset < Size => Aligned(sOffset)
    /\ \A c \in Afoot : c.offset = c.index * ChunkSize

(* A multiple of a positive number is its quotient times the number. *)
LEMMA Multiple ==
    ASSUME NEW n \in Nat, NEW q \in Nat \ {0}, n % q = 0
    PROVE  n = (n \div q) * q
  <1>1. n = q * (n \div q) + (n % q) /\ n \div q \in Nat
    OBVIOUS
  <1> QED
    BY <1>1

(* A factor that is the same on both sides is left out. *)
LEMMA Factor ==
    ASSUME NEW i \in Nat, NEW j \in Nat, NEW k \in Int, NEW q \in Nat \ {0},
           j * q < (i * q) + (k * q)
    PROVE  j < i + k
  <1>1. j * q < (i + k) * q
    OBVIOUS
  <1>2. CASE j >= i + k
    <2>1. PICK e \in Nat : e = j - (i + k)
      BY <1>2
    <2>2. j * q = ((i + k) * q) + (e * q) /\ e * q >= 0
      BY <2>1
    <2> QED
      BY <1>1, <2>2
  <1> QED
    BY <1>2

(* A queue holds finitely many things. *)
LEMMA RangeIsFinite ==
    ASSUME NEW S, NEW q \in Seq(S)
    PROVE  IsFiniteSet(Range(q))
  <1>1. Len(q) \in Nat /\ Range(q) = {q[i] : i \in 1 .. Len(q)}
    BY LenProperties, RangeEquality
  <1>2. IsFiniteSet(1 .. Len(q))
    BY <1>1, FS_Interval
  <1>3. [i \in 1 .. Len(q) |-> q[i]] \in Surjection(1 .. Len(q), Range(q))
    BY <1>1 DEF Surjection
  <1> QED
    BY <1>2, <1>3, FS_Surjection

(* Behind a chunk of the full size the offset is aligned again. *)
LEMMA AlignedNext ==
    ASSUME NEW n \in Nat, Aligned(n)
    PROVE  Aligned(n + ChunkSize)
  <1>1. ChunkSize \in Nat \ {0}
    BY ProtocolAssumption
  <1>2. PICK i \in Nat : i = n \div ChunkSize
    BY <1>1
  <1>3. n + ChunkSize = (i + 1) * ChunkSize /\ i + 1 \in Nat
    BY <1>1, <1>2 DEF Aligned
  <1>4. ((i + 1) * ChunkSize) \div ChunkSize = i + 1
    BY <1>1, <1>3
  <1> QED
    BY <1>3, <1>4 DEF Aligned

(* SendFile resumes at a chunk. *)
LEMMA AlignedResume == \A n : Aligned(ResumeOffset(n))
  <1>1. ChunkSize \in Nat \ {0} /\ Size \in Nat
    BY ProtocolAssumption
  <1>2. 0 % ChunkSize = 0
    BY <1>1
  <1>3. ASSUME NEW n
        PROVE  ResumeOffset(n) \in Nat /\ ResumeOffset(n) % ChunkSize = 0
    BY <1>1, <1>2 DEF ResumeOffset
  <1> QED
    BY <1>1, <1>3, Multiple DEF Aligned

(* Chunk after chunk is read in full while nobody edits the file. *)
LEMMA AlignNext ==
    ASSUME "source" \notin Faults, IInv, AlignInv, [Next]_vars
    PROVE  AlignInv'
  <1>1. spc' # "idle" => source'.len = Size
    <2>1. SendFile => source'.len = Size
      BY DEF SendFile
    <2>2. SenderSteps \/ SenderHandlers \/ CtxDone \/ SendRefused \/ PeerCancel
             => UNCHANGED source /\ (spc' # "idle" => spc # "idle")
      BY DEF SenderSteps, SenderHandlers, Accepted, SendChunk, SendEnd, Block, Wake,
             WaitForBuffer, Completed, Cancelled, SenderTimeout, HandleAccept, HandleAck,
             HandleCancelOfSender, CtxDone, SendRefused, PeerCancel, SenderReturn
    <2>3. SourceChange => spc' = "idle"
      BY DEF SourceChange, Fault
    <2>4. UNCHANGED senderVars => UNCHANGED <<source, spc>>
      BY DEF senderVars
    <2> QED
      BY <2>1, <2>2, <2>3, <2>4, SenderFrame DEF AlignInv
  <1>2. ASSUME spc' \notin {"idle", "waitAccept"}, sOffset' < Size
        PROVE  Aligned(sOffset')
    <2>1. CASE Accepted
      BY <2>1, AlignedResume DEF Accepted
    <2>2. CASE SendChunk /\ spc = "stream" /\ spc' = "stream"
      <3>1. /\ sOffset' = sOffset + ReadLength /\ ReadLength > 0 /\ sOffset < Size
            /\ source.len = Size /\ Aligned(sOffset)
        BY <2>2 DEF SendChunk, SenderReturn, AlignInv
      <3>2. sOffset \in Nat /\ Size \in Nat /\ ChunkSize \in Nat \ {0}
        BY ProtocolAssumption DEF IInv, SenderTypeOK
      <3>3. ReadLength = ChunkSize
        BY <1>2, <3>1, <3>2 DEF ReadLength, LargerOf, SmallerOf
      <3> QED
        BY <3>1, <3>2, <3>3, AlignedNext
    <2>3. CASE UNCHANGED sOffset /\ spc \notin {"idle", "waitAccept"}
      BY <1>2, <2>3 DEF AlignInv
    <2> QED
      BY <1>2, <2>1, <2>2, <2>3, CallsMove DEF CallMoves
  <1>3. ASSUME NEW c \in Afoot'
        PROVE  c.offset = c.index * ChunkSize
    <2>1. CASE c \in Afoot
      BY <2>1 DEF AlignInv
    <2>2. CASE c \notin Afoot
      <3>1. c.offset = sOffset /\ c.index = sOffset \div ChunkSize
            /\ spc = "stream" /\ sOffset < Size
        BY <2>2, AfootStep
      <3> QED
        BY <3>1 DEF AlignInv, Aligned
    <2> QED
      BY <2>1, <2>2
  <1> QED
    BY <1>1, <1>2, <1>3 DEF AlignInv

(* The indices of two chunks of a transfer differ, by less than the window allows. *)
LEMMA IndexSpan ==
    ASSUME IInv, SpanInv, AlignInv, QueueSize \in Nat, Window <= (QueueSize - 3) * ChunkSize,
           NEW c \in Afoot, NEW d \in Afoot, c.id = d.id
    PROVE  /\ c.index \in Nat /\ d.index \in Nat
           /\ d.index < c.index + (QueueSize - 2)
           /\ c # d => c.index # d.index
           /\ c.offset <= d.offset => c.index <= d.index
  <1>1. ChunkSize \in Nat \ {0} /\ Window \in Nat /\ Size \in Nat
    BY ProtocolAssumption, TransferAssumption
  <1>2. /\ c.index \in Nat /\ c.offset \in Nat /\ c.length \in Nat
        /\ d.index \in Nat /\ d.offset \in Nat /\ d.length \in Nat
    BY AfootType DEF Chunk
  <1>3. PICK i \in Nat, j \in Nat : i = c.index /\ j = d.index
    BY <1>2
  <1>4. c.offset = i * ChunkSize /\ d.offset = j * ChunkSize
    BY <1>3 DEF AlignInv
  <1>5. /\ c # d => Apart(c, d)
        /\ d.offset + d.length < c.offset + Window + ChunkSize
        /\ c.length >= 1 /\ d.length >= 1
    BY DEF SpanInv, Within
  <1>6. j < i + (QueueSize - 2)
    <2>1. PICK k \in Int : k = QueueSize - 2
      OBVIOUS
    <2>2. (QueueSize - 3) * ChunkSize + ChunkSize = k * ChunkSize
      BY <1>1, <2>1
    <2>3. j * ChunkSize < (i * ChunkSize) + (k * ChunkSize)
      <3> DEFINE x == i * ChunkSize
                 y == j * ChunkSize
                 z == (QueueSize - 3) * ChunkSize
      <3>1. x \in Int /\ y \in Int /\ z \in Int
        BY <1>1
      <3>2. y + d.length < x + Window + ChunkSize /\ d.length >= 1 /\ Window <= z
        BY <1>4, <1>5
      <3>3. z + ChunkSize = k * ChunkSize
        BY <2>2
      <3> HIDE DEF x, y, z
      <3>4. y < x + (z + ChunkSize)
        BY <1>1, <1>2, <3>1, <3>2
      <3> QED
        BY <3>3, <3>4 DEF x, y
    <2>4. j < i + k
      BY <1>1, <2>3, Factor
    <2> QED
      BY <2>1, <2>4
  <1>7. c # d => i # j
    BY <1>2, <1>4, <1>5 DEF Apart
  <1>8. ASSUME c.offset <= d.offset
        PROVE  i <= j
    <2>1. CASE j < i
      <3>1. ~(i * ChunkSize <= j * ChunkSize)
        <4>1. PICK e \in Nat \ {0} : i = j + e
          <5>1. i - j \in Nat \ {0} /\ i = j + (i - j)
            BY <2>1
          <5> QED
            BY <5>1
        <4>2. i * ChunkSize = j * ChunkSize + e * ChunkSize /\ e * ChunkSize > 0
          BY <1>1, <4>1
        <4> QED
          BY <1>1, <4>2
      <3> QED
        BY <1>4, <1>8, <3>1
    <2> QED
      BY <2>1
  <1> QED
    BY <1>3, <1>6, <1>7, <1>8

(* A queue that is full has a cancel in it: chunks and file_end leave room. *)
LEMMA FullQueue ==
    ASSUME IInv, EmptyInv, FlowInv, PlaceInv, SpanInv, AlignInv,
           Window <= (QueueSize - 3) * ChunkSize, QueueFull
    PROVE  CancelEvent \in Range(rEvents)
  <1> SUFFICES ASSUME CancelEvent \notin Range(rEvents)
               PROVE  FALSE
    OBVIOUS
  <1>1. /\ QueueSize \in Nat /\ Window \in Nat \ {0} /\ ChunkSize \in Nat \ {0}
        /\ rEvents \in Seq(Event) /\ Len(rEvents) \in Nat /\ Len(rEvents) >= QueueSize
    BY ProtocolAssumption, TransferAssumption, LenProperties
       DEF QueueFull, IInv, ReceiverTypeOK
  <1>2. QueueSize >= 4
    <2>1. CASE QueueSize <= 3
      <3>1. PICK k \in Nat : QueueSize = 3 - k
        <4>1. 3 - QueueSize \in Nat
          BY <1>1, <2>1
        <4> QED
          BY <1>1, <4>1
      <3>2. (QueueSize - 3) * ChunkSize = - (k * ChunkSize) /\ k * ChunkSize >= 0
        BY <1>1, <3>1
      <3> QED
        BY <1>1, <3>2
    <2> QED
      BY <1>1, <2>1
  <1>3. rpc # "none"
    BY <1>1, <1>2 DEF EmptyInv
  <1> DEFINE Chunks == {e \in Range(rEvents) : IsChunk(e)}
  <1>4. /\ \A i \in 1 .. Len(rEvents) : rEvents[i] \in Range(rEvents)
        /\ \A e \in Range(rEvents) : e = EndEvent \/ e \in Chunks
        /\ EndEvent \notin Chunks
    BY <1>1, RangeEquality, EventKinds
  <1>5. Chunks \subseteq Afoot /\ \A c, d \in Chunks : c.id = d.id
    BY <1>3 DEF Afoot, FlowInv, Unwritten
  <1>6. \A c, d \in Chunks :
           /\ c.index \in Nat /\ d.index < c.index + (QueueSize - 2)
           /\ c # d => c.index # d.index
           /\ c.offset <= d.offset => c.index <= d.index
           /\ c.offset \in Nat
    BY <1>1, <1>5, IndexSpan, AfootType
  <1>7. IsFiniteSet(Chunks)
    <2>1. IsFiniteSet(Range(rEvents))
      BY <1>1, RangeIsFinite
    <2> QED
      BY <2>1, FS_Subset
  <1> HIDE DEF Chunks
  <1>8. PICK m \in Nat : \A c \in Chunks : m <= c.index /\ c.index < m + (QueueSize - 2)
    <2>1. CASE Chunks = {}
      BY <2>1
    <2>2. CASE Chunks # {}
      <3>1. PICK c \in Chunks : \A d \in Chunks : c.offset <= d.offset
        BY <1>6, <1>7, <2>2, LeastOffset
      <3> QED
        BY <1>6, <3>1
    <2> QED
      BY <2>1, <2>2
  <1> DEFINE P == m .. m + (QueueSize - 1) - 1
             g == [i \in 1 .. Len(rEvents) |->
                      IF rEvents[i] \in Chunks THEN rEvents[i].index + 1 ELSE m]
  <1>9. g \in [1 .. Len(rEvents) -> P]
    <2> SUFFICES ASSUME NEW i \in 1 .. Len(rEvents)
                 PROVE  (IF rEvents[i] \in Chunks THEN rEvents[i].index + 1 ELSE m) \in P
      OBVIOUS
    <2>1. CASE rEvents[i] \in Chunks
      <3>1. PICK n \in Nat : n = rEvents[i].index
        BY <1>6, <2>1
      <3>2. m <= n /\ n < m + (QueueSize - 2)
        BY <1>8, <2>1, <3>1
      <3> QED
        BY <1>1, <2>1, <3>1, <3>2
    <2>2. CASE rEvents[i] \notin Chunks
      BY <1>1, <1>2, <2>2
    <2> QED
      BY <2>1, <2>2
  <1>10. \A x, y \in 1 .. Len(rEvents) : x # y => g[x] # g[y]
    <2> SUFFICES ASSUME NEW x \in 1 .. Len(rEvents), NEW y \in 1 .. Len(rEvents), x # y
                 PROVE  g[x] # g[y]
      OBVIOUS
    <2>1. rEvents[x] # rEvents[y]
      <3>1. x < y \/ y < x
        BY <1>1
      <3> QED
        BY <1>3, <3>1 DEF PlaceInv, NoRepeats
    <2>2. CASE rEvents[x] \in Chunks /\ rEvents[y] \in Chunks
      <3>1. rEvents[x].index # rEvents[y].index /\ rEvents[x].index \in Nat
            /\ rEvents[y].index \in Nat
        BY <1>6, <2>1, <2>2
      <3> QED
        BY <2>2, <3>1
    <2>3. CASE rEvents[x] \in Chunks /\ rEvents[y] \notin Chunks
      <3>1. rEvents[x].index \in Nat /\ m <= rEvents[x].index
        BY <1>6, <1>8, <2>3
      <3> QED
        BY <2>3, <3>1
    <2>4. CASE rEvents[x] \notin Chunks /\ rEvents[y] \in Chunks
      <3>1. rEvents[y].index \in Nat /\ m <= rEvents[y].index
        BY <1>6, <1>8, <2>4
      <3> QED
        BY <2>4, <3>1
    <2>5. CASE rEvents[x] \notin Chunks /\ rEvents[y] \notin Chunks
      BY <1>4, <2>1, <2>5
    <2> QED
      BY <2>2, <2>3, <2>4, <2>5
  <1> HIDE DEF g
  <1>11. IsFiniteSet(P) /\ Cardinality(P) = QueueSize - 1
    <2>1. QueueSize - 1 \in Nat
      BY <1>1, <1>2
    <2> QED
      BY <2>1, IntervalCount
  <1>12. IsFiniteSet(1 .. Len(rEvents)) /\ Cardinality(1 .. Len(rEvents)) = Len(rEvents)
    <2>1. IsFiniteSet(1 .. 1 + Len(rEvents) - 1)
          /\ Cardinality(1 .. 1 + Len(rEvents) - 1) = Len(rEvents)
      BY <1>1, IntervalCount
    <2>2. 1 + Len(rEvents) - 1 = Len(rEvents)
      BY <1>1
    <2> QED
      BY <2>1, <2>2
  <1> HIDE DEF P
  <1>13. Cardinality(P) < Cardinality(1 .. Len(rEvents))
    BY <1>1, <1>11, <1>12
  <1>14. \E x, y \in 1 .. Len(rEvents) : x # y /\ g[x] = g[y]
    BY <1>9, <1>11, <1>12, <1>13, FS_PigeonHole
  <1> QED
    BY <1>10, <1>14

(* So a cancel does not find the queue full: the transfer has none in it yet. *)
LEMMA CancelFits ==
    ASSUME IInv, AccountInv, SpanInv, AlignInv,
           Window <= (QueueSize - 3) * ChunkSize, HandleCancelOfReceiver
    PROVE  UNCHANGED rLeaving
  <1>1. PICK id \in TransferIDs :
           /\ CancelFlies(id)
           /\ UNCHANGED rLeaving \/ (Registered(id) /\ QueueFull)
    <2>1. toReceiver # <<>> => Head(toReceiver) \in Range(toReceiver)
      BY RangeTail DEF IInv, NetTypeOK
    <2> QED
      BY <2>1 DEF HandleCancelOfReceiver, CancelFlies, Flies
  <1>2. CASE Registered(id) /\ QueueFull
    <2>1. CancelEvent \in Range(rEvents)
      BY <1>2, FullQueue DEF AccountInv
    <2> QED
      BY <1>1, <1>2, <2>1 DEF AccountInv, ToldInv, Registered
  <1> QED
    BY <1>1, <1>2

(***************************************************************************)
(* A receiveLoop that the handler of file_cancel has deregistered on a     *)
(* full queue may store its sidecar beside the part file of a later        *)
(* transfer.  With a queue for the chunks of one window and three events   *)
(* more that never happens, whoever cancels and whenever: no hypothesis    *)
(* about behaviours is left in the theorems that need its absence.         *)
(***************************************************************************)
THEOREM CancelsFindRoom ==
    ASSUME "dup" \notin Faults, "source" \notin Faults,
           Window <= (QueueSize - 3) * ChunkSize
    PROVE  Spec => []NoStaleCheckpoint
  <1>1. Spec => []WindowInv
    BY WindowInit, WindowNext, SpecInv, AgreementAlways, AccountAlways, PTL DEF Spec
  <1>2. Init => AlignInv /\ NoStaleCheckpoint
    BY RangeEmpty DEF Init, AlignInv, NoStaleCheckpoint, Afoot
  <1>3. IInv /\ AccountInv /\ WindowInv /\ AlignInv /\ NoStaleCheckpoint /\ [Next]_vars
           => AlignInv' /\ NoStaleCheckpoint'
    <2> SUFFICES ASSUME IInv, AccountInv, WindowInv, AlignInv, NoStaleCheckpoint, [Next]_vars
                 PROVE  AlignInv' /\ NoStaleCheckpoint'
      OBVIOUS
    <2>1. HandleCancelOfReceiver => UNCHANGED rLeaving
      BY CancelFits DEF WindowInv
    <2> QED
      BY <2>1, AlignNext, StaleStep
  <1> QED
    BY <1>1, <1>2, <1>3, SpecInv, AccountAlways, PTL DEF Spec

(***************************************************************************)
(* What is acknowledged as durable is durable, and what a retry keeps is a *)
(* synced prefix of the file: through cancels, crashes and power losses,   *)
(* if the queue has room for a window and nobody edits the file while it   *)
(* is sent.                                                                *)
(***************************************************************************)
THEOREM PromisesAreKept ==
    ASSUME "dup" \notin Faults, "source" \notin Faults,
           Window <= (QueueSize - 3) * ChunkSize
    PROVE  Spec => []AckedIsDurable /\ []ResumePointSound
  BY CancelsFindRoom, AcksAreDurable, ResumeIsSound, PTL
=============================================================================
