--------------------------- MODULE TransferProofs ---------------------------
(***************************************************************************)
(* Proofs about Transfer, for files, chunks, windows, queues and numbers   *)
(* of attempts of any size, and for any number and kind of faults.         *)
(***************************************************************************)
EXTENDS Transfer, SequenceTheorems, TLAPS

-----------------------------------------------------------------------------
(* Facts about the operators of the model *)

(* Content builds a sequence of bytes: what a chunk carries can be written. *)
LEMMA ContentType ==
    ASSUME NEW ver \in Versions, NEW from \in Nat, NEW n \in Nat
    PROVE  /\ Content(ver, from, n) \in Seq(Byte)
           /\ Len(Content(ver, from, n)) = n
  <1>1. \A k \in 1 .. n : from + k - 1 \in Nat
    OBVIOUS
  <1>2. Content(ver, from, n) \in [1 .. n -> Byte]
    BY <1>1 DEF Content, Byte
  <1> QED
    BY <1>2

(* Writing at the end of a file appends to it. *)
LEMMA WriteAtEnd ==
    ASSUME NEW S, NEW data \in Seq(S), NEW bytes \in Seq(S)
    PROVE  WriteAt(data, Len(data), bytes) = data \o bytes
  <1> DEFINE w == WriteAt(data, Len(data), bytes)
  <1>1. LargerOf(Len(data), Len(data) + Len(bytes)) = Len(data) + Len(bytes)
    BY DEF LargerOf
  <1>2. w = [k \in 1 .. Len(data) + Len(bytes) |->
                IF k > Len(data) /\ k <= Len(data) + Len(bytes)
                THEN bytes[k - Len(data)] ELSE data[k]]
    BY <1>1 DEF WriteAt
  <1>3. \A k \in 1 .. Len(data) + Len(bytes) : w[k] = (data \o bytes)[k]
    BY <1>2, ConcatProperties
  <1>4. \A k \in 1 .. Len(data) + Len(bytes) : w[k] \in S
    BY <1>2, ElementOfSeq
  <1>5. w \in Seq(S) /\ Len(w) = Len(data) + Len(bytes)
    BY <1>2, <1>4
  <1> QED
    BY <1>3, <1>5, ConcatProperties, SeqEqual

(* A file that is hashed from its start to its end is hashed as it is. *)
LEMMA WholeSubSeq ==
    ASSUME NEW S, NEW s \in Seq(S)
    PROVE  SubSeq(s, 1, Len(s)) = s
  OBVIOUS

-----------------------------------------------------------------------------
(* The inductive invariant *)

(* The program counters between the opening of the part file and its rename. *)
Streaming == {"loop", "drain", "sync", "sidecar", "complete", "remove", "rename"}

(***************************************************************************)
(* While a transfer is registered the part file ends where the loop        *)
(* expects the next byte, the running hash has seen exactly the bytes on   *)
(* disk, and after complete() has compared digests they are those of the   *)
(* offered file.                                                           *)
(***************************************************************************)
PartInv ==
    /\ rpc \in Streaming \cup {"opened"} => Len(part.data) = rExpected
    /\ rpc \in Streaming => rHash = part.data
    /\ rpc \in {"remove", "rename"} => rHash = FileOf(rDigest)

IInv == TypeOK /\ PartInv /\ CommitIntegrity

USE DEF TypeOK, TransferIDs

-----------------------------------------------------------------------------
(* Steps of the sender leave the receiver and its disk alone. *)
LEMMA ReceiverSideUnchanged ==
    ASSUME IInv, UNCHANGED receiverSide
    PROVE  ReceiverTypeOK' /\ DiskTypeOK' /\ PartInv' /\ CommitIntegrity'
  BY DEF IInv, receiverSide, loopVars, diskVars, ReceiverTypeOK, DiskTypeOK,
         PartInv, CommitIntegrity

(* A SendFile call that returns leaves a well-typed sender. *)
LEMMA SenderReturnType ==
    ASSUME SenderTypeOK, NEW outcome \in {"completed", "failed", "cancelled"},
           SenderReturn(outcome)
    PROVE  SenderTypeOK'
  BY DEF SenderTypeOK, SenderReturn, SenderPC, Empty

(* SendFile, up to the offer. *)
LEMMA SendFileStep ==
    ASSUME IInv, SendFile
    PROVE  IInv'
  <1>1. NetTypeOK'
    BY ProtocolAssumption DEF SendFile, IInv, NetTypeOK, SenderTypeOK, ToReceiver
  <1>2. SenderTypeOK'
    BY ProtocolAssumption DEF SendFile, IInv, SenderTypeOK, SenderPC
  <1> QED
    BY <1>1, <1>2, ReceiverSideUnchanged DEF IInv, SendFile

(* SendFile takes the answer to its offer. *)
LEMMA AcceptedStep ==
    ASSUME IInv, Accepted
    PROVE  IInv'
  <1>1. ResumeOffset(sAccept) \in Nat
    BY ProtocolAssumption DEF ResumeOffset
  <1>2. SenderTypeOK'
    BY <1>1 DEF Accepted, IInv, SenderTypeOK, SenderPC
  <1>3. NetTypeOK'
    BY DEF Accepted, IInv, NetTypeOK, netVars
  <1> QED
    BY <1>2, <1>3, ReceiverSideUnchanged DEF IInv, Accepted

(* SendFile reads a chunk and sends it. *)
LEMMA SendChunkStep ==
    ASSUME IInv, SendChunk
    PROVE  IInv'
  <1>1. ReadLength \in Nat
    BY ProtocolAssumption DEF IInv, SenderTypeOK, ReadLength, LargerOf, SmallerOf
  <1>2. sOffset \div ChunkSize \in Nat
    BY ProtocolAssumption DEF IInv, SenderTypeOK
  <1>3. CASE open
    <2>1. SenderTypeOK'
      BY <1>1, <1>3 DEF SendChunk, IInv, SenderTypeOK, SenderPC
    <2>2. lanes' \subseteq Chunk
      BY <1>1, <1>2, <1>3 DEF SendChunk, IInv, NetTypeOK, SenderTypeOK, Chunk
    <2>3. NetTypeOK'
      BY <2>2 DEF SendChunk, IInv, NetTypeOK
    <2> QED
      BY <2>1, <2>3, ReceiverSideUnchanged DEF IInv, SendChunk
  <1>4. CASE ~open
    <2>1. SenderTypeOK'
      BY <1>4, SenderReturnType DEF SendChunk, IInv
    <2>2. NetTypeOK'
      BY <1>4 DEF SendChunk, IInv, NetTypeOK
    <2> QED
      BY <2>1, <2>2, ReceiverSideUnchanged DEF IInv, SendChunk
  <1> QED
    BY <1>3, <1>4

(* SendFile ends its loop with file_end. *)
LEMMA SendEndStep ==
    ASSUME IInv, SendEnd
    PROVE  IInv'
  <1>1. SenderTypeOK'
    BY SenderReturnType DEF SendEnd, IInv, SenderTypeOK, SenderPC
  <1>2. [type |-> "file_end", id |-> sid, ver |-> sDigest] \in ToReceiver
    BY DEF SendEnd, IInv, SenderTypeOK, ToReceiver
  <1>3. toReceiver' \in Seq(ToReceiver)
    BY <1>2, AppendProperties DEF SendEnd, IInv, NetTypeOK
  <1>4. NetTypeOK'
    BY <1>3 DEF SendEnd, IInv, NetTypeOK
  <1> QED
    BY <1>1, <1>4, ReceiverSideUnchanged DEF IInv, SendEnd

(* SendFile goes to sleep and wakes up. *)
LEMMA SenderWaitStep ==
    ASSUME IInv, Block \/ Wake \/ WaitForBuffer
    PROVE  IInv'
  <1>1. SenderTypeOK'
    BY SenderReturnType DEF Block, Wake, WaitForBuffer, IInv, SenderTypeOK, SenderPC
  <1>2. NetTypeOK'
    BY DEF Block, Wake, WaitForBuffer, IInv, NetTypeOK, netVars
  <1> QED
    BY <1>1, <1>2, ReceiverSideUnchanged DEF IInv, Block, Wake, WaitForBuffer

(* SendFile returns: with success, cancelled, or too late. *)
LEMMA SenderReturnStep ==
    ASSUME IInv, Completed \/ Cancelled \/ SenderTimeout \/ CtxDone \/ SendRefused
    PROVE  IInv'
  <1>1. SenderTypeOK'
    BY SenderReturnType DEF Completed, Cancelled, SenderTimeout, CtxDone, SendRefused, IInv
  <1>2. NetTypeOK'
    BY DEF Completed, Cancelled, SenderTimeout, CtxDone, SendRefused, IInv, NetTypeOK, netVars
  <1>3. faults' \in Nat
    BY DEF Completed, Cancelled, SenderTimeout, CtxDone, SendRefused, Fault, IInv
  <1>4. UNCHANGED receiverSide
    BY DEF Completed, Cancelled, SenderTimeout, CtxDone, SendRefused
  <1> QED
    BY <1>1, <1>2, <1>3, <1>4, ReceiverSideUnchanged DEF IInv

(* The oldest control in flight is a control. *)
LEMMA ToSenderHead ==
    ASSUME NetTypeOK, toSender # <<>>
    PROVE  Head(toSender).n \in Nat /\ Tail(toSender) \in Seq(ToSender)
  <1>1. Head(toSender) \in ToSender /\ Tail(toSender) \in Seq(ToSender)
    BY HeadTailProperties DEF NetTypeOK
  <1> QED
    BY <1>1 DEF ToSender

(* handleControl at the sender. *)
LEMMA SenderHandlerStep ==
    ASSUME IInv, SenderHandlers
    PROVE  IInv'
  <1>1. CASE HandleAccept
    <2>1. Head(toSender).n \in Nat /\ Tail(toSender) \in Seq(ToSender)
      BY <1>1, ToSenderHead DEF HandleAccept, IInv
    <2>2. SenderTypeOK'
      BY <1>1, <2>1 DEF HandleAccept, IInv, SenderTypeOK
    <2>3. NetTypeOK'
      BY <1>1, <2>1 DEF HandleAccept, IInv, NetTypeOK
    <2> QED
      BY <1>1, <2>2, <2>3, ReceiverSideUnchanged DEF IInv, HandleAccept
  <1>2. CASE HandleAck
    <2>1. Head(toSender).n \in Nat /\ Tail(toSender) \in Seq(ToSender)
      BY <1>2, ToSenderHead DEF HandleAck, IInv
    <2>2. SenderTypeOK'
      BY <1>2, <2>1 DEF HandleAck, IInv, SenderTypeOK, LargerOf, SignalAfterAck
    <2>3. NetTypeOK'
      BY <1>2, <2>1 DEF HandleAck, IInv, NetTypeOK
    <2> QED
      BY <1>2, <2>2, <2>3, ReceiverSideUnchanged DEF IInv, HandleAck
  <1>3. CASE HandleCancelOfSender
    <2>1. toSender # <<>> => Tail(toSender) \in Seq(ToSender)
      BY ToSenderHead DEF IInv
    <2>2. SenderTypeOK'
      BY <1>3 DEF HandleCancelOfSender, IInv, SenderTypeOK, Sending
    <2>3. NetTypeOK'
      BY <1>3, <2>1 DEF HandleCancelOfSender, IInv, NetTypeOK
    <2> QED
      BY <1>3, <2>2, <2>3, ReceiverSideUnchanged DEF IInv, HandleCancelOfSender
  <1> QED
    BY <1>1, <1>2, <1>3 DEF SenderHandlers

-----------------------------------------------------------------------------
(* Messages the receiver sends are messages. *)
LEMMA AfterSendType ==
    ASSUME NEW queue \in Seq(ToSender), NEW id \in TransferIDs, NEW n \in Nat,
           NEW type \in {"file_accept", "resume_state", "file_ack",
                         "file_progress", "file_cancel"}
    PROVE  AfterSend(queue, [type |-> type, id |-> id, n |-> n]) \in Seq(ToSender)
  <1>1. [type |-> type, id |-> id, n |-> n] \in ToSender
    BY DEF ToSender
  <1>2. Append(queue, [type |-> type, id |-> id, n |-> n]) \in Seq(ToSender)
    BY <1>1, AppendProperties
  <1> QED
    BY <1>2 DEF AfterSend

(* A file_cancel on either channel is a message. *)
LEMMA SendCancelType ==
    ASSUME NetTypeOK, NEW id \in TransferIDs, SendCancelToSender(id)
    PROVE  /\ toSender' \in Seq(ToSender)
           /\ cancelSender' \subseteq TransferIDs
  BY AfterSendType DEF NetTypeOK, SendCancelToSender

(* finishReceiver leaves no transfer registered. *)
LEMMA FinishType ==
    ASSUME IInv, rpc # "none",
           NEW outcome \in {"completed", "failed", "cancelled"}, Finish(outcome),
           starting' \subseteq Offer, rLeaving' \subseteq Leaving
    PROVE  ReceiverTypeOK' /\ PartInv'
  <1>1. AnyVersion \in Versions
    BY ProtocolAssumption DEF AnyVersion
  <1>2. <<>> \in Seq(Event) /\ <<>> \in Seq(Byte)
    OBVIOUS
  <1>3. rOutcome' \in [TransferIDs -> {"none", "completed", "failed", "cancelled",
                                       "rejected", "refused"}]
    BY DEF IInv, ReceiverTypeOK, Finish
  <1>4. rpc' \in ReceiverPC /\ rid' \in 0 .. MaxTransfers /\ rDigest' \in Versions
    BY <1>1, ProtocolAssumption DEF Finish, ReceiverPC
  <1>5. /\ rpc' = "none" /\ rEnd' \in BOOLEAN /\ rPending' \subseteq Chunk
        /\ rExpected' \in Nat /\ rIndex' \in Nat
        /\ rDurable' \in Nat /\ rProgress' \in Nat
    BY DEF Finish
  <1>6. rEvents' \in Seq(Event) /\ rHash' \in Seq(Byte)
    BY <1>2 DEF Finish
  <1>7. ReceiverTypeOK'
    BY <1>3, <1>4, <1>5, <1>6 DEF ReceiverTypeOK
  <1>8. PartInv'
    BY <1>5 DEF PartInv, Streaming
  <1> QED
    BY <1>7, <1>8

(***************************************************************************)
(* A step of the receiver that changes nothing the sender owns, and keeps  *)
(* the messages well typed, keeps the types of the sender and the channel. *)
(***************************************************************************)
LEMMA SenderSideUnchanged ==
    ASSUME IInv, UNCHANGED senderSide,
           toSender' \in Seq(ToSender), cancelSender' \subseteq TransferIDs
    PROVE  NetTypeOK' /\ SenderTypeOK'
  BY DEF IInv, senderSide, senderVars, NetTypeOK, SenderTypeOK

(* The records that stand for a missing file are well typed. *)
LEMMA NoRecordTypes ==
    /\ NoFile \in [present : BOOLEAN, data : Seq(Byte), synced : Nat]
    /\ NoMeta \in [present : BOOLEAN, ver : Versions, n : Nat]
    /\ NoDest \in [present : BOOLEAN, id : 0 .. MaxTransfers, ver : Versions,
                   data : Seq(Byte)]
  <1>1. AnyVersion \in Versions
    BY ProtocolAssumption DEF AnyVersion
  <1>2. <<>> \in Seq(Byte)
    OBVIOUS
  <1> QED
    BY <1>1, <1>2, ProtocolAssumption DEF NoFile, NoMeta, NoDest

-----------------------------------------------------------------------------
(* startReceive *)

(* startReceive turns an offer down. *)
LEMMA StartRefusedStep ==
    ASSUME IInv, NEW o \in starting, StartRefused(o)
    PROVE  IInv'
  <1>1. o.id \in TransferIDs
    BY DEF IInv, ReceiverTypeOK, Offer
  <1>2. NetTypeOK' /\ SenderTypeOK'
    BY <1>1, SendCancelType, SenderSideUnchanged DEF StartRefused, IInv
  <1>3. ReceiverTypeOK'
    BY <1>1 DEF StartRefused, IInv, ReceiverTypeOK, loopVars
  <1>4. faults' \in Nat
    BY DEF StartRefused, Fault, IInv
  <1>5. DiskTypeOK' /\ PartInv' /\ CommitIntegrity'
    BY DEF StartRefused, IInv, DiskTypeOK, PartInv, CommitIntegrity, loopVars, diskVars
  <1> QED
    BY <1>2, <1>3, <1>4, <1>5 DEF IInv

(* The file is continued at its end. *)
LEMMA ResumePointType ==
    ASSUME IInv, NEW o
    PROVE  /\ ResumePoint(o) \in Nat
           /\ ResumePoint(o) # 0 => Len(part.data) = ResumePoint(o)
  BY DEF IInv, DiskTypeOK, ResumePoint, MatchingPartial

(* startReceive opens the part file: emptied, or at its end. *)
LEMMA StartReceiveStep ==
    ASSUME IInv, NEW o \in starting, StartReceive(o)
    PROVE  IInv'
  <1> DEFINE n == ResumePoint(o)
  <1>1. o.id \in TransferIDs /\ o.ver \in Versions
    BY DEF IInv, ReceiverTypeOK, Offer
  <1>2. n \in Nat /\ n \div ChunkSize \in Nat
    BY ResumePointType, ProtocolAssumption
  <1>3. NetTypeOK' /\ SenderTypeOK'
    BY SenderSideUnchanged DEF StartReceive, IInv, NetTypeOK
  <1>4. ReceiverTypeOK'
    BY <1>1, <1>2 DEF StartReceive, IInv, ReceiverTypeOK, ReceiverPC
  <1>5. part' \in [present : BOOLEAN, data : Seq(Byte), synced : Nat]
    BY DEF StartReceive, IInv, DiskTypeOK
  <1>6. DiskTypeOK'
    BY <1>5 DEF StartReceive, IInv, DiskTypeOK
  <1>7. Len(part'.data) = rExpected'
    BY ResumePointType DEF StartReceive
  <1>8. PartInv'
    BY <1>7 DEF StartReceive, PartInv, Streaming
  <1>9. CommitIntegrity'
    BY DEF StartReceive, IInv, CommitIntegrity
  <1> QED
    BY <1>3, <1>4, <1>6, <1>8, <1>9 DEF IInv, StartReceive

(* receiveLoop hashes what it kept, which is the whole part file. *)
LEMMA StartLoopStep ==
    ASSUME IInv, StartLoop
    PROVE  IInv'
  <1>1. part.data \in Seq(Byte) /\ Len(part.data) = rExpected
    BY DEF StartLoop, IInv, DiskTypeOK, PartInv
  <1>2. rHash' = part.data
    BY <1>1, WholeSubSeq DEF StartLoop
  <1>3. toSender' \in Seq(ToSender)
    BY AfterSendType DEF StartLoop, IInv, NetTypeOK, ReceiverTypeOK
  <1>4. NetTypeOK' /\ SenderTypeOK'
    BY <1>3, SenderSideUnchanged DEF StartLoop, IInv, NetTypeOK
  <1>5. ReceiverTypeOK'
    BY <1>1, <1>2 DEF StartLoop, IInv, ReceiverTypeOK, ReceiverPC
  <1>6. DiskTypeOK'
    BY DEF StartLoop, IInv, DiskTypeOK, ReceiverTypeOK
  <1>7. PartInv' /\ CommitIntegrity'
    BY <1>1, <1>2 DEF StartLoop, IInv, PartInv, CommitIntegrity
  <1> QED
    BY <1>4, <1>5, <1>6, <1>7 DEF IInv, StartLoop

-----------------------------------------------------------------------------
(* receiveLoop *)

(* receiveFailed, whatever made the transfer fail, if the disk is sound. *)
LEMMA ReceiveFailedStep ==
    ASSUME IInv, rpc # "none", ReceiveFailed, UNCHANGED senderSide,
           starting' \subseteq Offer, rLeaving' \subseteq Leaving, faults' \in Nat,
           DiskTypeOK', CommitIntegrity'
    PROVE  IInv'
  <1>1. rid \in TransferIDs
    BY DEF IInv, ReceiverTypeOK
  <1>2. NetTypeOK' /\ SenderTypeOK'
    BY <1>1, SendCancelType, SenderSideUnchanged DEF ReceiveFailed, IInv
  <1>3. ReceiverTypeOK' /\ PartInv'
    BY FinishType DEF ReceiveFailed
  <1> QED
    BY <1>2, <1>3 DEF IInv

(* A step that leaves the disk alone keeps what is said about it. *)
LEMMA DiskUnchanged ==
    ASSUME IInv, UNCHANGED diskVars
    PROVE  DiskTypeOK' /\ CommitIntegrity'
  BY DEF IInv, diskVars, DiskTypeOK, CommitIntegrity

(* The event queue holds events. *)
LEMMA EventsTail ==
    ASSUME IInv, rEvents # <<>>
    PROVE  Head(rEvents) \in Event /\ Tail(rEvents) \in Seq(Event)
  BY HeadTailProperties DEF IInv, ReceiverTypeOK

(* receiveLoop validates a chunk and sets it aside. *)
LEMMA TakeChunkStep ==
    ASSUME IInv, TakeChunk
    PROVE  IInv'
  <1> DEFINE c == Head(rEvents)
  <1>1. rpc = "loop" /\ Tail(rEvents) \in Seq(Event) /\ c \in Chunk
    BY EventsTail DEF TakeChunk, Take, Event
  <1>2. UNCHANGED diskVars /\ UNCHANGED senderSide /\ UNCHANGED faults
        /\ UNCHANGED <<starting, rLeaving>>
    BY DEF TakeChunk
  <1>3. CASE ReceiveFailed
    BY <1>1, <1>2, <1>3, ReceiveFailedStep, DiskUnchanged DEF IInv, ReceiverTypeOK
  <1>4. CASE ~ReceiveFailed
    <2>1. /\ rEvents' = Tail(rEvents)
          /\ rPending' \in {rPending, rPending \cup {c}}
          /\ rpc' \in {"loop", "drain"}
          /\ UNCHANGED <<toSender, cancelSender, rid, rDigest, rExpected, rIndex, rHash,
                         rDurable, rProgress, rEnd, rOutcome>>
      BY <1>1, <1>4 DEF TakeChunk
    <2>2. NetTypeOK' /\ SenderTypeOK'
      BY <1>2, <2>1, SenderSideUnchanged DEF IInv, NetTypeOK
    <2>3. ReceiverTypeOK'
      BY <1>1, <1>2, <2>1 DEF IInv, ReceiverTypeOK, ReceiverPC
    <2>4. PartInv'
      BY <1>1, <1>2, <2>1 DEF IInv, PartInv, Streaming, diskVars
    <2> QED
      BY <1>2, <2>2, <2>3, <2>4, DiskUnchanged DEF IInv
  <1> QED
    BY <1>3, <1>4

(* receiveLoop takes file_end. *)
LEMMA TakeEndStep ==
    ASSUME IInv, TakeEnd
    PROVE  IInv'
  <1>1. rpc = "loop" /\ Tail(rEvents) \in Seq(Event)
    BY EventsTail DEF TakeEnd, Take
  <1>2. rpc' \in {"loop", "complete"}
    BY DEF TakeEnd, AfterComplete
  <1>3. NetTypeOK' /\ SenderTypeOK'
    BY SenderSideUnchanged DEF TakeEnd, IInv, NetTypeOK
  <1>4. ReceiverTypeOK'
    BY <1>1, <1>2 DEF TakeEnd, IInv, ReceiverTypeOK, ReceiverPC
  <1>5. PartInv'
    BY <1>1, <1>2 DEF TakeEnd, IInv, PartInv, Streaming, diskVars
  <1> QED
    BY <1>3, <1>4, <1>5, DiskUnchanged DEF IInv, TakeEnd

(* A cancelled or interrupted loop. *)
LEMMA LoopEndStep ==
    ASSUME IInv, TakeCancel \/ LoopClosed
    PROVE  IInv'
  <1>1. rpc # "none" /\ \E outcome \in {"failed", "cancelled"} : Finish(outcome)
    BY DEF TakeCancel, Take, LoopClosed
  <1>2. UNCHANGED <<senderSide, toSender, cancelSender, starting, rLeaving, faults>>
        /\ UNCHANGED diskVars
    BY DEF TakeCancel, LoopClosed
  <1>3. NetTypeOK' /\ SenderTypeOK'
    BY <1>2, SenderSideUnchanged DEF IInv, NetTypeOK
  <1>4. ReceiverTypeOK' /\ PartInv'
    BY <1>1, <1>2, FinishType DEF IInv, ReceiverTypeOK
  <1> QED
    BY <1>2, <1>3, <1>4, DiskUnchanged DEF IInv

(* The completion timer expires. *)
LEMMA EndDeadlineStep ==
    ASSUME IInv, EndDeadline
    PROVE  IInv'
  BY ReceiveFailedStep, DiskUnchanged DEF EndDeadline, IInv, ReceiverTypeOK

(* The flow-control acknowledgement is a message. *)
LEMMA ProgressType1 ==
    ASSUME IInv, rpc # "none", NEW queue \in Seq(ToSender), NEW expected \in Nat,
           NEW late, Progress(queue, expected, late)
    PROVE  toSender' \in Seq(ToSender) /\ rProgress' \in Nat
  BY AfterSendType DEF IInv, ReceiverTypeOK, Progress, ProgressType

(* receiveLoop appends to the part file what it feeds to the hash. *)
LEMMA WriteChunkStep ==
    ASSUME IInv, NEW late \in BOOLEAN, WriteChunk(late)
    PROVE  IInv'
  <1>1. PICK c \in NextPending :
           /\ rPending' = rPending \ {c}
           /\ part' = [part EXCEPT !.data = WriteAt(@, rExpected, ChunkData(c))]
           /\ rHash' = rHash \o ChunkData(c)
           /\ rExpected' = rExpected + c.length
           /\ IF CheckpointDue(rExpected + c.length)
              THEN rpc' = "sync" /\ UNCHANGED <<toSender, rProgress>>
              ELSE rpc' = "drain" /\ Progress(toSender, rExpected + c.length, late)
    BY DEF WriteChunk
  <1>2. c \in Chunk
    BY DEF NextPending, IInv, ReceiverTypeOK
  <1> DEFINE d == ChunkData(c)
  <1>3. d \in Seq(Byte) /\ Len(d) = c.length /\ c.length \in Nat
    BY <1>2, ContentType DEF Chunk, ChunkData
  <1>4. /\ rpc = "drain"
        /\ part.data \in Seq(Byte) /\ Len(part.data) = rExpected
        /\ rHash = part.data
        /\ rExpected \in Nat /\ rExpected + c.length \in Nat
    <2>1. rpc = "drain"
      BY DEF WriteChunk
    <2>2. part.data \in Seq(Byte) /\ rExpected \in Nat
      BY DEF IInv, DiskTypeOK, ReceiverTypeOK
    <2>3. Len(part.data) = rExpected /\ rHash = part.data
      BY <2>1 DEF IInv, PartInv, Streaming
    <2> QED
      BY <1>3, <2>1, <2>2, <2>3
  <1> HIDE DEF d
  <1>5. WriteAt(part.data, Len(part.data), d) = part.data \o d
    BY <1>3, <1>4, WriteAtEnd
  <1>6. /\ part.data \o d \in Seq(Byte)
        /\ Len(part.data \o d) = Len(part.data) + Len(d)
    BY <1>3, <1>4, ConcatProperties
  <1>7. part' = [part EXCEPT !.data = part.data \o d] /\ rHash' = part.data \o d
    BY <1>1, <1>4, <1>5 DEF d
  <1>8. toSender' \in Seq(ToSender) /\ rProgress' \in Nat /\ rpc' \in {"sync", "drain"}
    <2>1. CASE CheckpointDue(rExpected + c.length)
      BY <1>1, <2>1 DEF IInv, NetTypeOK, ReceiverTypeOK
    <2>2. CASE ~CheckpointDue(rExpected + c.length)
      <3>1. rpc' = "drain" /\ Progress(toSender, rExpected + c.length, late)
        BY <1>1, <2>2
      <3>2. toSender \in Seq(ToSender) /\ rpc # "none"
        BY <1>4 DEF IInv, NetTypeOK
      <3> QED
        BY <1>4, <3>1, <3>2, ProgressType1
    <2> QED
      BY <2>1, <2>2
  <1>9. NetTypeOK' /\ SenderTypeOK'
    BY <1>8, SenderSideUnchanged DEF WriteChunk, IInv, NetTypeOK
  <1>10. ReceiverTypeOK'
    <2>1. rHash' \in Seq(Byte)
      BY <1>6, <1>7
    <2>2. rPending' \subseteq Chunk /\ rExpected' \in Nat
      BY <1>1, <1>4 DEF IInv, ReceiverTypeOK
    <2>3. rIndex' \in Nat /\ rpc' \in ReceiverPC
      BY <1>8 DEF WriteChunk, IInv, ReceiverTypeOK, ReceiverPC
    <2> QED
      BY <1>4, <1>8, <2>1, <2>2, <2>3 DEF WriteChunk, IInv, ReceiverTypeOK
  <1>11. DiskTypeOK'
    BY <1>6, <1>7 DEF WriteChunk, IInv, DiskTypeOK
  <1>12. part'.data = part.data \o d
    BY <1>7 DEF IInv, DiskTypeOK
  <1>13. PartInv'
    BY <1>1, <1>3, <1>4, <1>6, <1>7, <1>8, <1>12 DEF PartInv, Streaming
  <1>14. CommitIntegrity'
    BY DEF WriteChunk, IInv, CommitIntegrity
  <1> QED
    BY <1>9, <1>10, <1>11, <1>13, <1>14 DEF IInv, WriteChunk

(* checkpoint: File.Sync. *)
LEMMA SyncStep ==
    ASSUME IInv, Sync
    PROVE  IInv'
  <1>1. Len(part.data) \in Nat
    BY DEF IInv, DiskTypeOK
  <1>2. NetTypeOK' /\ SenderTypeOK'
    BY SenderSideUnchanged DEF Sync, IInv, NetTypeOK
  <1>3. ReceiverTypeOK'
    BY DEF Sync, IInv, ReceiverTypeOK, ReceiverPC
  <1>4. DiskTypeOK' /\ part'.data = part.data
    BY <1>1 DEF Sync, IInv, DiskTypeOK
  <1>5. PartInv' /\ CommitIntegrity'
    BY <1>4 DEF Sync, IInv, PartInv, Streaming, CommitIntegrity
  <1> QED
    BY <1>2, <1>3, <1>4, <1>5 DEF IInv, Sync

(* The durable acknowledgement is a message. *)
LEMMA CheckpointAckType ==
    ASSUME NEW queue \in Seq(ToSender), NEW id \in TransferIDs, NEW n \in Nat
    PROVE  CheckpointAck(queue, id, n) \in Seq(ToSender)
  BY AfterSendType DEF CheckpointAck

(* checkpoint: the sidecar and the acknowledgement. *)
LEMMA SidecarStep ==
    ASSUME IInv, NEW late \in BOOLEAN, Sidecar(late)
    PROVE  IInv'
  <1>1. CheckpointAck(toSender, rid, rDurable) \in Seq(ToSender)
    BY CheckpointAckType DEF Sidecar, IInv, NetTypeOK, ReceiverTypeOK
  <1>2. toSender' \in Seq(ToSender) /\ rProgress' \in Nat
    BY <1>1, ProgressType1 DEF Sidecar, IInv, ReceiverTypeOK
  <1>3. NetTypeOK' /\ SenderTypeOK'
    BY <1>2, SenderSideUnchanged DEF Sidecar, IInv, NetTypeOK
  <1>4. ReceiverTypeOK'
    BY <1>2 DEF Sidecar, IInv, ReceiverTypeOK, ReceiverPC
  <1>5. DiskTypeOK'
    BY DEF Sidecar, IInv, DiskTypeOK, ReceiverTypeOK
  <1>6. PartInv' /\ CommitIntegrity'
    BY DEF Sidecar, IInv, PartInv, Streaming, CommitIntegrity
  <1> QED
    BY <1>3, <1>4, <1>5, <1>6 DEF IInv, Sidecar

(* receiveLoop has written all that is contiguous. *)
LEMMA DrainedStep ==
    ASSUME IInv, Drained
    PROVE  IInv'
  <1>1. rpc' \in {"loop", "complete"}
    BY DEF Drained, AfterComplete
  <1>2. NetTypeOK' /\ SenderTypeOK'
    BY SenderSideUnchanged DEF Drained, IInv, NetTypeOK
  <1>3. ReceiverTypeOK'
    BY <1>1 DEF Drained, IInv, ReceiverTypeOK, ReceiverPC, loopVars
  <1>4. PartInv'
    BY <1>1 DEF Drained, IInv, PartInv, Streaming, loopVars, diskVars
  <1> QED
    BY <1>2, <1>3, <1>4, DiskUnchanged DEF IInv, Drained

-----------------------------------------------------------------------------
(* Verification and commit *)

(* complete compares the digests. *)
LEMMA CompleteStep ==
    ASSUME IInv, Complete
    PROVE  IInv'
  <1>1. CASE DigestMatches
    <2>1. rpc' \in {"remove", "rename"} /\ UNCHANGED <<loopVars, rLeaving, rOutcome>>
          /\ UNCHANGED <<toSender, cancelSender, starting>>
      BY <1>1 DEF Complete
    <2>2. NetTypeOK' /\ SenderTypeOK'
      BY <2>1, SenderSideUnchanged DEF Complete, IInv, NetTypeOK
    <2>3. ReceiverTypeOK'
      BY <2>1 DEF Complete, IInv, ReceiverTypeOK, ReceiverPC, loopVars
    <2>4. PartInv'
      BY <1>1, <2>1
         DEF Complete, DigestMatches, IInv, PartInv, Streaming, loopVars, diskVars
    <2> QED
      BY <2>2, <2>3, <2>4, DiskUnchanged DEF IInv, Complete
  <1>2. CASE ~DigestMatches
    <2>1. [step |-> "part", id |-> rid, ver |-> rDigest, n |-> 0] \in Leaving
      BY DEF Complete, IInv, ReceiverTypeOK, Leaving
    <2>2. rLeaving' \subseteq Leaving
      BY <1>2, <2>1 DEF Complete, IInv, ReceiverTypeOK
    <2> QED
      BY <1>2, <2>2, ReceiveFailedStep, DiskUnchanged DEF Complete, IInv, ReceiverTypeOK
  <1> QED
    BY <1>1, <1>2

(* complete removes the old destination. *)
LEMMA RemoveDestinationStep ==
    ASSUME IInv, RemoveDestination
    PROVE  IInv'
  <1>1. NetTypeOK' /\ SenderTypeOK'
    BY SenderSideUnchanged DEF RemoveDestination, IInv, NetTypeOK
  <1>2. ReceiverTypeOK'
    BY DEF RemoveDestination, IInv, ReceiverTypeOK, ReceiverPC, loopVars
  <1>3. DiskTypeOK' /\ CommitIntegrity'
    BY NoRecordTypes
       DEF RemoveDestination, IInv, DiskTypeOK, CommitIntegrity, NoDest
  <1>4. PartInv'
    BY DEF RemoveDestination, IInv, PartInv, Streaming, loopVars
  <1> QED
    BY <1>1, <1>2, <1>3, <1>4 DEF IInv, RemoveDestination

(***************************************************************************)
(* The heart of CommitIntegrity: what is renamed is what was hashed, and   *)
(* what was hashed is what was offered.                                    *)
(***************************************************************************)
LEMMA RenameStep ==
    ASSUME IInv, Rename
    PROVE  IInv'
  <1>1. part.data = FileOf(rDigest) /\ part.data \in Seq(Byte) /\ rDigest \in Versions
        /\ rid \in TransferIDs
    BY DEF Rename, IInv, PartInv, Streaming, DiskTypeOK, ReceiverTypeOK
  <1>2. CASE part.present
    <2>1. UNCHANGED <<loopVars, rLeaving, rOutcome, starting>> /\ rpc' = "unlink"
          /\ UNCHANGED <<toSender, cancelSender>>
      BY <1>2 DEF Rename
    <2>2. NetTypeOK' /\ SenderTypeOK'
      BY <2>1, SenderSideUnchanged DEF Rename, IInv, NetTypeOK
    <2>3. ReceiverTypeOK'
      BY <2>1 DEF Rename, IInv, ReceiverTypeOK, ReceiverPC, loopVars
    <2>6. dest' = [present |-> TRUE, id |-> rid, ver |-> rDigest, data |-> part.data]
          /\ part' = NoFile /\ committed' = committed \cup {rid} /\ meta' = meta
      BY <1>2 DEF Rename
    <2>7. dest' \in [present : BOOLEAN, id : 0 .. MaxTransfers, ver : Versions,
                     data : Seq(Byte)]
      BY <1>1, <2>6, ProtocolAssumption
    <2>4. DiskTypeOK' /\ CommitIntegrity'
      BY <1>1, <2>6, <2>7, NoRecordTypes DEF IInv, DiskTypeOK, CommitIntegrity
    <2>5. PartInv'
      BY <2>1 DEF PartInv, Streaming
    <2> QED
      BY <2>2, <2>3, <2>4, <2>5 DEF IInv, Rename
  <1>3. CASE ~part.present
    <2>1. UNCHANGED diskVars
      BY <1>3 DEF Rename, diskVars
    <2> QED
      BY <1>3, <2>1, ReceiveFailedStep, DiskUnchanged DEF Rename, IInv, ReceiverTypeOK
  <1> QED
    BY <1>2, <1>3

(* complete removes the sidecar and acknowledges the commit. *)
LEMMA UnlinkStep ==
    ASSUME IInv, Unlink
    PROVE  IInv'
  <1>1. toSender' \in Seq(ToSender)
    BY AfterSendType, ProtocolAssumption DEF Unlink, IInv, NetTypeOK, ReceiverTypeOK
  <1>2. NetTypeOK' /\ SenderTypeOK'
    BY <1>1, SenderSideUnchanged DEF Unlink, IInv, NetTypeOK
  <1>3. ReceiverTypeOK' /\ PartInv'
    BY DEF Unlink, IInv, ReceiverTypeOK, ReceiverPC, loopVars, PartInv, Streaming
  <1>4. DiskTypeOK' /\ CommitIntegrity'
    BY NoRecordTypes DEF Unlink, IInv, DiskTypeOK, CommitIntegrity
  <1> QED
    BY <1>2, <1>3, <1>4 DEF IInv, Unlink

(* complete deregisters the transfer. *)
LEMMA FinishReceiverStep ==
    ASSUME IInv, FinishReceiver
    PROVE  IInv'
  <1>1. NetTypeOK' /\ SenderTypeOK'
    BY SenderSideUnchanged DEF FinishReceiver, IInv, NetTypeOK
  <1>2. ReceiverTypeOK' /\ PartInv'
    BY FinishType DEF FinishReceiver, IInv, ReceiverTypeOK
  <1> QED
    BY <1>1, <1>2, DiskUnchanged DEF IInv, FinishReceiver

(* A file operation of the receiver fails. *)
LEMMA DiskErrorStep ==
    ASSUME IInv, DiskError
    PROVE  IInv'
  <1>1. part' \in [present : BOOLEAN, data : Seq(Byte), synced : Nat]
    <2>1. CASE UNCHANGED part
      BY <2>1 DEF IInv, DiskTypeOK
    <2>2. CASE rpc = "drain" /\ ~UNCHANGED part
      <3>1. PICK c \in NextPending : \E n \in 0 .. c.length :
               part' = [part EXCEPT !.data =
                           WriteAt(@, rExpected, Content(c.ver, c.offset, n))]
        BY <2>2 DEF DiskError
      <3>2. c.ver \in Versions /\ c.offset \in Nat /\ c.length \in Nat
        BY DEF NextPending, IInv, ReceiverTypeOK, Chunk
      <3>3. PICK n \in 0 .. c.length :
               part' = [part EXCEPT !.data =
                           WriteAt(@, rExpected, Content(c.ver, c.offset, n))]
        BY <3>1
      <3> DEFINE d == Content(c.ver, c.offset, n)
      <3>4. d \in Seq(Byte)
        BY <3>2, <3>3, ContentType
      <3>5. part.data \in Seq(Byte) /\ Len(part.data) = rExpected
        BY <2>2 DEF IInv, PartInv, Streaming, DiskTypeOK
      <3> HIDE DEF d
      <3>8. WriteAt(part.data, Len(part.data), d) = part.data \o d
        BY <3>4, <3>5, WriteAtEnd
      <3>9. part.data \o d \in Seq(Byte)
        BY <3>4, <3>5, ConcatProperties
      <3>6. WriteAt(part.data, Len(part.data), d) \in Seq(Byte)
        BY <3>8, <3>9
      <3>7. part' = [part EXCEPT !.data = WriteAt(part.data, Len(part.data), d)]
        BY <3>3, <3>5 DEF d
      <3> QED
        BY <3>6, <3>7 DEF IInv, DiskTypeOK
    <2> QED
      BY <2>1, <2>2 DEF DiskError
  <1>2. DiskTypeOK' /\ CommitIntegrity'
    BY <1>1 DEF DiskError, IInv, DiskTypeOK, CommitIntegrity
  <1>3. rpc # "none" /\ faults' \in Nat
    BY DEF DiskError, Fault, IInv
  <1> QED
    BY <1>2, <1>3, ReceiveFailedStep DEF DiskError, IInv, ReceiverTypeOK

(* A goroutine goes on after its transfer has been deregistered. *)
LEMMA LeaveStep ==
    ASSUME IInv, NEW l \in rLeaving, Leave(l)
    PROVE  IInv'
  <1>1. l \in Leaving
    BY DEF IInv, ReceiverTypeOK
  <1>2. toSender' \in Seq(ToSender)
    BY <1>1, CheckpointAckType DEF Leave, Leaving, IInv, NetTypeOK
  <1>3. NetTypeOK' /\ SenderTypeOK'
    BY <1>2, SenderSideUnchanged DEF Leave, IInv, NetTypeOK
  <1>4. [l EXCEPT !.step = "meta"] \in Leaving
    BY <1>1 DEF Leaving
  <1>5. rLeaving' \subseteq Leaving
    BY <1>4 DEF Leave, IInv, ReceiverTypeOK
  <1>6. ReceiverTypeOK'
    BY <1>5 DEF Leave, IInv, ReceiverTypeOK, loopVars
  <1>7. part' \in [present : BOOLEAN, data : Seq(Byte), synced : Nat]
        /\ part'.data = part.data
    BY DEF Leave, IInv, DiskTypeOK
  <1>8. meta' \in [present : BOOLEAN, ver : Versions, n : Nat]
    <2>1. l.ver \in Versions /\ l.n \in Nat
      BY <1>1 DEF Leaving
    <2>2. \/ meta' = meta \/ meta' = NoMeta
          \/ meta' = [present |-> TRUE, ver |-> l.ver, n |-> l.n]
      BY DEF Leave
    <2>3. [present |-> TRUE, ver |-> l.ver, n |-> l.n]
             \in [present : BOOLEAN, ver : Versions, n : Nat]
      BY <2>1
    <2>4. meta \in [present : BOOLEAN, ver : Versions, n : Nat]
      BY DEF IInv, DiskTypeOK
    <2> QED
      BY <2>2, <2>3, <2>4, NoRecordTypes
  <1>9. DiskTypeOK' /\ CommitIntegrity'
    BY <1>7, <1>8 DEF Leave, IInv, DiskTypeOK, CommitIntegrity
  <1>10. PartInv'
    BY <1>7 DEF Leave, IInv, PartInv, Streaming, loopVars
  <1> QED
    BY <1>3, <1>6, <1>9, <1>10 DEF IInv, Leave

-----------------------------------------------------------------------------
(* Handlers of the receiver *)

(***************************************************************************)
(* A handler touches the queues, the cancels and the offers, no more.      *)
(***************************************************************************)
LEMMA HandlerFrame ==
    ASSUME IInv, UNCHANGED receiverCore, NetTypeOK', faults' \in Nat,
           rEvents' \in Seq(Event), starting' \subseteq Offer
    PROVE  IInv'
  <1>1. SenderTypeOK'
    BY DEF receiverCore, senderVars, IInv, SenderTypeOK
  <1>2. ReceiverTypeOK'
    BY DEF receiverCore, IInv, ReceiverTypeOK
  <1>3. DiskTypeOK' /\ CommitIntegrity'
    BY DiskUnchanged DEF receiverCore
  <1>4. PartInv'
    BY DEF receiverCore, diskVars, IInv, PartInv
  <1> QED
    BY <1>1, <1>2, <1>3, <1>4 DEF IInv

(* The oldest control in flight is a control. *)
LEMMA ToReceiverHead ==
    ASSUME IInv, toReceiver # <<>>
    PROVE  Head(toReceiver) \in ToReceiver /\ Tail(toReceiver) \in Seq(ToReceiver)
  BY HeadTailProperties DEF IInv, NetTypeOK

(* handleControl: file_start. *)
LEMMA HandleFileStartStep ==
    ASSUME IInv, HandleFileStart
    PROVE  IInv'
  <1>1. Head(toReceiver) \in ToReceiver /\ Tail(toReceiver) \in Seq(ToReceiver)
    BY ToReceiverHead DEF HandleFileStart
  <1>2. [id |-> Head(toReceiver).id, ver |-> Head(toReceiver).ver] \in Offer
    BY <1>1 DEF ToReceiver, Offer
  <1>3. starting' \subseteq Offer
    BY <1>2 DEF HandleFileStart, IInv, ReceiverTypeOK
  <1>4. NetTypeOK'
    BY <1>1 DEF HandleFileStart, receiverCore, IInv, NetTypeOK
  <1> QED
    BY <1>3, <1>4, HandlerFrame DEF HandleFileStart, IInv, ReceiverTypeOK

(* handleControl: file_end. *)
LEMMA HandleFileEndStep ==
    ASSUME IInv, HandleFileEnd
    PROVE  IInv'
  <1>1. Tail(toReceiver) \in Seq(ToReceiver)
    BY ToReceiverHead DEF HandleFileEnd
  <1>2. [type |-> "end"] \in Event
    BY DEF Event
  <1>3. Append(rEvents, [type |-> "end"]) \in Seq(Event)
    BY <1>2, AppendProperties DEF IInv, ReceiverTypeOK
  <1>4. rEvents' \in Seq(Event)
    BY <1>3 DEF HandleFileEnd, IInv, ReceiverTypeOK
  <1>5. NetTypeOK'
    BY <1>1 DEF HandleFileEnd, receiverCore, IInv, NetTypeOK
  <1> QED
    BY <1>4, <1>5, HandlerFrame DEF HandleFileEnd, IInv, ReceiverTypeOK

(* handleMessage: a chunk. *)
LEMMA HandleChunkStep ==
    ASSUME IInv, HandleChunk
    PROVE  IInv'
  <1>1. PICK c \in lanes :
          /\ \/ lanes' = lanes \ {c} /\ UNCHANGED faults
             \/ Fault("dup") /\ UNCHANGED lanes
          /\ IF Registered(c.id)
             THEN /\ rEvents' = Append(rEvents, c)
                  /\ UNCHANGED <<toSender, cancelSender>>
             ELSE /\ SendCancelToSender(c.id) \/ UNCHANGED <<toSender, cancelSender>>
                  /\ UNCHANGED rEvents
    BY DEF HandleChunk
  <1>2. c \in Chunk /\ c \in Event /\ c.id \in TransferIDs
    BY DEF IInv, NetTypeOK, Chunk, Event
  <1>3. Append(rEvents, c) \in Seq(Event)
    BY <1>2, AppendProperties DEF IInv, ReceiverTypeOK
  <1>4. rEvents' \in Seq(Event)
    BY <1>1, <1>3 DEF IInv, ReceiverTypeOK
  <1>5. toSender' \in Seq(ToSender) /\ cancelSender' \subseteq TransferIDs
    BY <1>1, <1>2, SendCancelType DEF IInv, NetTypeOK
  <1>6. lanes' \subseteq Chunk /\ faults' \in Nat
    BY <1>1 DEF IInv, NetTypeOK, Fault
  <1>7. NetTypeOK'
    BY <1>5, <1>6 DEF HandleChunk, receiverCore, IInv, NetTypeOK
  <1> QED
    BY <1>4, <1>6, <1>7, HandlerFrame DEF HandleChunk, IInv, ReceiverTypeOK

(* handleControl: file_cancel, which may fail the transfer under the loop. *)
LEMMA HandleCancelOfReceiverStep ==
    ASSUME IInv, HandleCancelOfReceiver
    PROVE  IInv'
  <1>1. PICK id \in TransferIDs :
          \/ /\ ~Registered(id)
             /\ UNCHANGED <<toSender, cancelSender, rpc, loopVars, rLeaving, rOutcome>>
          \/ /\ Registered(id) /\ ~QueueFull
             /\ rEvents' = Append(rEvents, [type |-> "cancel"])
             /\ UNCHANGED <<toSender, cancelSender, rpc, rid, rDigest, rPending,
                            rExpected, rIndex, rHash, rDurable, rProgress, rEnd,
                            rLeaving, rOutcome>>
          \/ /\ Registered(id) /\ QueueFull
             /\ rLeaving' = IF rpc = "sidecar"
                            THEN rLeaving \cup {[step |-> "sidecar", id |-> rid,
                                                 ver |-> rDigest, n |-> rDurable]}
                            ELSE rLeaving
             /\ ReceiveFailed
    BY DEF HandleCancelOfReceiver
  <1>2. toReceiver' \in Seq(ToReceiver) /\ cancelReceiver' \subseteq TransferIDs
    BY ToReceiverHead DEF HandleCancelOfReceiver, IInv, NetTypeOK
  <1>3. UNCHANGED <<senderVars, open, lanes, starting, diskVars, faults>>
    BY DEF HandleCancelOfReceiver
  <1>4. SenderTypeOK'
    BY <1>3 DEF senderVars, IInv, SenderTypeOK
  <1>5. DiskTypeOK' /\ CommitIntegrity'
    BY <1>3, DiskUnchanged
  <1>6. CASE ~(Registered(id) /\ QueueFull)
    <2>1. [type |-> "cancel"] \in Event
      BY DEF Event
    <2>2. Append(rEvents, [type |-> "cancel"]) \in Seq(Event)
      BY <2>1, AppendProperties DEF IInv, ReceiverTypeOK
    <2>3. rEvents' \in Seq(Event) /\ UNCHANGED <<toSender, cancelSender, rpc, rid, rDigest,
              rPending, rExpected, rIndex, rHash, rDurable, rProgress, rEnd, rLeaving,
              rOutcome>>
      BY <1>1, <1>6, <2>2 DEF loopVars, IInv, ReceiverTypeOK
    <2>4. NetTypeOK'
      BY <1>2, <1>3, <2>3 DEF IInv, NetTypeOK
    <2> QED
      BY <1>3, <2>3, <2>4, HandlerFrame DEF receiverCore, IInv, ReceiverTypeOK
  <1>7. CASE Registered(id) /\ QueueFull
    <2>1. rpc # "none" /\ rid \in TransferIDs /\ ReceiveFailed
      BY <1>1, <1>7 DEF Registered
    <2>2. [step |-> "sidecar", id |-> rid, ver |-> rDigest, n |-> rDurable] \in Leaving
      BY <2>1 DEF IInv, ReceiverTypeOK, Leaving
    <2>3. rLeaving' \subseteq Leaving
      BY <1>1, <1>7, <2>2 DEF IInv, ReceiverTypeOK
    <2>4. ReceiverTypeOK' /\ PartInv'
      BY <1>3, <2>1, <2>3, FinishType DEF ReceiveFailed, IInv, ReceiverTypeOK
    <2>5. toSender' \in Seq(ToSender) /\ cancelSender' \subseteq TransferIDs
      BY <2>1, SendCancelType DEF ReceiveFailed, IInv
    <2>6. NetTypeOK'
      BY <1>2, <1>3, <2>5 DEF IInv, NetTypeOK
    <2> QED
      BY <1>3, <1>4, <1>5, <2>4, <2>6 DEF IInv
  <1> QED
    BY <1>6, <1>7

-----------------------------------------------------------------------------
(* The environment *)

(* A channel that closes leaves nothing in flight. *)
LEMMA DisconnectType ==
    ASSUME Disconnect
    PROVE  NetTypeOK'
  <1>1. <<>> \in Seq(ToReceiver) /\ <<>> \in Seq(ToSender)
    OBVIOUS
  <1> QED
    BY <1>1 DEF Disconnect, NetTypeOK

(* The channel closes. *)
LEMMA CloseStep ==
    ASSUME IInv, Close
    PROVE  IInv'
  <1>1. NetTypeOK'
    BY DisconnectType DEF Close
  <1>2. SenderTypeOK' /\ faults' \in Nat
    BY DEF Close, Fault, senderVars, IInv, SenderTypeOK
  <1> QED
    BY <1>1, <1>2, ReceiverSideUnchanged DEF IInv, Close, receiverSide

(* A receiver that has died runs no transfer. *)
LEMMA NoReceiverType ==
    ASSUME IInv, noReceiver, UNCHANGED rOutcome
    PROVE  ReceiverTypeOK' /\ PartInv'
  <1>1. AnyVersion \in Versions
    BY ProtocolAssumption DEF AnyVersion
  <1>2. <<>> \in Seq(Event) /\ <<>> \in Seq(Byte)
    OBVIOUS
  <1>3. rpc' = "none" /\ rpc' \in ReceiverPC /\ rid' \in 0 .. MaxTransfers
    BY ProtocolAssumption DEF noReceiver, ReceiverPC
  <1>4. rEvents' \in Seq(Event) /\ rHash' \in Seq(Byte)
    BY <1>2 DEF noReceiver
  <1>5. /\ rDigest' \in Versions /\ rPending' \subseteq Chunk /\ rEnd' \in BOOLEAN
        /\ rExpected' \in Nat /\ rIndex' \in Nat
        /\ rDurable' \in Nat /\ rProgress' \in Nat
        /\ starting' \subseteq Offer /\ rLeaving' \subseteq Leaving
    BY <1>1 DEF noReceiver
  <1>6. ReceiverTypeOK'
    BY <1>3, <1>4, <1>5 DEF IInv, ReceiverTypeOK
  <1>7. PartInv'
    BY <1>3 DEF PartInv, Streaming
  <1> QED
    BY <1>6, <1>7

(* The receiving process dies. *)
LEMMA CrashStep ==
    ASSUME IInv, Crash
    PROVE  IInv'
  <1>1. NetTypeOK'
    BY DisconnectType DEF Crash
  <1>2. SenderTypeOK' /\ faults' \in Nat
    BY DEF Crash, Fault, senderVars, IInv, SenderTypeOK
  <1> QED
    BY <1>1, <1>2, NoReceiverType, DiskUnchanged DEF IInv, Crash

(* The receiving machine dies; the part file may get shorter. *)
LEMMA PowerLossStep ==
    ASSUME IInv, PowerLoss
    PROVE  IInv'
  <1>1. NetTypeOK'
    BY DisconnectType DEF PowerLoss
  <1>2. SenderTypeOK' /\ faults' \in Nat
    BY DEF PowerLoss, Fault, senderVars, IInv, SenderTypeOK
  <1>3. part.data \in Seq(Byte) /\ part.synced \in Nat /\ Len(part.data) \in Nat
    BY DEF IInv, DiskTypeOK
  <1>4. PICK k \in SmallerOf(part.synced, Len(part.data)) .. Len(part.data) :
            part' = [part EXCEPT !.data = SubSeq(@, 1, k), !.synced = k]
    BY DEF PowerLoss
  <1>5. k \in 0 .. Len(part.data)
    BY <1>3, <1>4 DEF SmallerOf
  <1>6. SubSeq(part.data, 1, k) \in Seq(Byte)
    BY <1>3, <1>5, SubSeqProperties
  <1>7. part' \in [present : BOOLEAN, data : Seq(Byte), synced : Nat]
    <2>1. part \in [present : BOOLEAN, data : Seq(Byte), synced : Nat]
      BY DEF IInv, DiskTypeOK
    <2>2. k \in Nat
      BY <1>3, <1>5
    <2> QED
      BY <1>4, <1>6, <2>1, <2>2
  <1>8. meta' \in [present : BOOLEAN, ver : Versions, n : Nat]
    BY NoRecordTypes DEF PowerLoss, IInv, DiskTypeOK
  <1>9. DiskTypeOK' /\ CommitIntegrity'
    BY <1>7, <1>8 DEF PowerLoss, IInv, DiskTypeOK, CommitIntegrity
  <1> QED
    BY <1>1, <1>2, <1>9, NoReceiverType DEF IInv, PowerLoss

(* A new connection, or a lane that loses a chunk. *)
LEMMA ChannelFaultStep ==
    ASSUME IInv, Reconnect \/ LaneLost
    PROVE  IInv'
  <1>1. NetTypeOK'
    BY DEF Reconnect, LaneLost, IInv, NetTypeOK
  <1>2. SenderTypeOK' /\ faults' \in Nat
    BY DEF Reconnect, LaneLost, Fault, senderVars, IInv, SenderTypeOK
  <1>3. UNCHANGED receiverSide
    BY DEF Reconnect, LaneLost, receiverSide
  <1> QED
    BY <1>1, <1>2, <1>3, ReceiverSideUnchanged DEF IInv

(* The source file changes while it is sent. *)
LEMMA SourceChangeStep ==
    ASSUME IInv, SourceChange
    PROVE  IInv'
  <1>1. NetTypeOK' /\ faults' \in Nat
    BY DEF SourceChange, Fault, netVars, IInv, NetTypeOK
  <1>2. source' \in [ver : Versions, len : Nat]
    BY TransferAssumption DEF SourceChange
  <1>3. SenderTypeOK'
    BY <1>2 DEF SourceChange, IInv, SenderTypeOK
  <1> QED
    BY <1>1, <1>3, ReceiverSideUnchanged DEF IInv, SourceChange

(* A file that no transfer has written appears. *)
LEMMA UserFileStep ==
    ASSUME IInv, UserFile
    PROVE  IInv'
  <1>1. NetTypeOK' /\ SenderTypeOK' /\ faults' \in Nat
    BY DEF UserFile, Fault, netVars, senderVars, IInv, NetTypeOK, SenderTypeOK
  <1>2. dest' \in [present : BOOLEAN, id : 0 .. MaxTransfers, ver : Versions,
                    data : Seq(Byte)] /\ dest'.id = 0
    BY NoRecordTypes DEF UserFile, NoDest
  <1>3. DiskTypeOK' /\ CommitIntegrity'
    BY <1>2 DEF UserFile, IInv, DiskTypeOK, CommitIntegrity
  <1>4. ReceiverTypeOK' /\ PartInv'
    BY DEF UserFile, loopVars, IInv, ReceiverTypeOK, PartInv
  <1> QED
    BY <1>1, <1>3, <1>4 DEF IInv

(* The sending peer gives up. *)
LEMMA PeerCancelStep ==
    ASSUME IInv, PeerCancel
    PROVE  IInv'
  <1>1. SenderTypeOK' /\ faults' \in Nat
    BY SenderReturnType DEF PeerCancel, Fault, IInv
  <1>2. sid \in TransferIDs /\ sDigest \in Versions
    BY DEF PeerCancel, IInv, SenderTypeOK
  <1>3. [type |-> "file_cancel", id |-> sid, ver |-> sDigest] \in ToReceiver
    BY <1>2 DEF ToReceiver
  <1>4. toReceiver' \in Seq(ToReceiver) /\ cancelReceiver' \subseteq TransferIDs
    <2>1. toReceiver \in Seq(ToReceiver) /\ cancelReceiver \subseteq TransferIDs
      BY DEF IInv, NetTypeOK
    <2>2. Append(toReceiver, [type |-> "file_cancel", id |-> sid, ver |-> sDigest])
             \in Seq(ToReceiver)
      BY <1>3, <2>1, AppendProperties
    <2> QED
      BY <1>2, <2>1, <2>2 DEF PeerCancel
  <1>5. NetTypeOK'
    BY <1>4 DEF PeerCancel, IInv, NetTypeOK
  <1> QED
    BY <1>1, <1>5, ReceiverSideUnchanged DEF IInv, PeerCancel

-----------------------------------------------------------------------------
(* The invariant of the specification *)

(* The invariant holds when the managers are created. *)
LEMMA InitInv == Init => IInv
  <1> SUFFICES ASSUME Init PROVE IInv
    OBVIOUS
  <1>1. AnyVersion \in Versions
    BY ProtocolAssumption DEF AnyVersion
  <1>2. /\ <<>> \in Seq(ToReceiver) /\ <<>> \in Seq(ToSender)
        /\ <<>> \in Seq(Event) /\ <<>> \in Seq(Byte)
    OBVIOUS
  <1>3. NetTypeOK /\ faults \in Nat
    BY <1>2 DEF Init, NetTypeOK
  <1>4. SenderTypeOK
    <2>1. source \in [ver : Versions, len : Nat]
      BY ProtocolAssumption DEF Init
    <2>2. sOutcome \in [TransferIDs -> {"none", "completed", "failed", "cancelled"}]
      BY DEF Init
    <2>3. sid \in 0 .. MaxTransfers /\ spc \in SenderPC /\ spc = "idle"
      BY ProtocolAssumption DEF Init, SenderPC
    <2>4. /\ sStart \in Nat /\ sOffset \in Nat /\ sAcked \in Nat /\ sReceived \in Nat
          /\ sSignal \in BOOLEAN /\ sCancel \in BOOLEAN /\ sAccept \in Nat \cup {Empty}
          /\ sDigest \in Versions
      BY <1>1 DEF Init
    <2> QED
      BY <2>1, <2>2, <2>3, <2>4 DEF SenderTypeOK
  <1>5. ReceiverTypeOK
    <2>1. rEvents \in Seq(Event) /\ rHash \in Seq(Byte)
      BY <1>2 DEF Init
    <2>2. rOutcome \in [TransferIDs -> {"none", "completed", "failed", "cancelled",
                                        "rejected", "refused"}]
      BY DEF Init
    <2>3. rid \in 0 .. MaxTransfers /\ rpc \in ReceiverPC /\ rpc = "none"
      BY ProtocolAssumption DEF Init, ReceiverPC
    <2>4. /\ rExpected \in Nat /\ rIndex \in Nat /\ rDurable \in Nat /\ rProgress \in Nat
          /\ rEnd \in BOOLEAN /\ rDigest \in Versions /\ starting \subseteq Offer
          /\ rPending \subseteq Chunk /\ rLeaving \subseteq Leaving
      BY <1>1 DEF Init
    <2> QED
      BY <2>1, <2>2, <2>3, <2>4 DEF ReceiverTypeOK
  <1>6. DiskTypeOK
    BY NoRecordTypes DEF Init, DiskTypeOK
  <1>7. PartInv /\ CommitIntegrity
    BY DEF Init, PartInv, Streaming, CommitIntegrity, NoDest
  <1> QED
    BY <1>3, <1>4, <1>5, <1>6, <1>7 DEF IInv

(* Every step of the sending manager keeps the invariant. *)
LEMMA SenderStep ==
    ASSUME IInv, SendFile \/ SenderSteps \/ SenderHandlers
    PROVE  IInv'
  BY SendFileStep, AcceptedStep, SendChunkStep, SendEndStep, SenderWaitStep,
     SenderReturnStep, SenderHandlerStep DEF SenderSteps

(* Every step of startReceive and receiveLoop keeps the invariant. *)
LEMMA ReceiverStep ==
    ASSUME IInv, ReceiverSteps
    PROVE  IInv'
  <1>1. CASE \E o \in starting : StartReceive(o)
    BY <1>1, StartReceiveStep
  <1>2. CASE StartLoop \/ TakeChunk \/ TakeEnd \/ TakeCancel \/ EndDeadline \/ LoopClosed
    BY <1>2, StartLoopStep, TakeChunkStep, TakeEndStep, LoopEndStep, EndDeadlineStep
  <1>3. CASE \E late \in BOOLEAN : WriteChunk(late) \/ Sidecar(late)
    BY <1>3, WriteChunkStep, SidecarStep
  <1>4. CASE Sync \/ Drained \/ Complete \/ RemoveDestination \/ Rename \/ Unlink
            \/ FinishReceiver
    BY <1>4, SyncStep, DrainedStep, CompleteStep, RemoveDestinationStep, RenameStep,
       UnlinkStep, FinishReceiverStep
  <1>5. CASE \E l \in rLeaving : Leave(l)
    BY <1>5, LeaveStep
  <1> QED
    BY <1>1, <1>2, <1>3, <1>4, <1>5 DEF ReceiverSteps

(* Every fault keeps the invariant. *)
LEMMA EnvironmentStep ==
    ASSUME IInv, Environment
    PROVE  IInv'
  BY SenderReturnStep, DiskErrorStep, CloseStep, CrashStep, PowerLossStep,
     ChannelFaultStep, SourceChangeStep, UserFileStep, PeerCancelStep DEF Environment

(* So does a step that changes nothing. *)
LEMMA StutterStep ==
    ASSUME IInv, UNCHANGED vars
    PROVE  IInv'
  <1>1. NetTypeOK' /\ SenderTypeOK' /\ faults' \in Nat
    BY DEF vars, netVars, senderVars, IInv, NetTypeOK, SenderTypeOK
  <1> QED
    BY <1>1, ReceiverSideUnchanged DEF vars, receiverSide, IInv

(* The invariant is inductive. *)
LEMMA NextInv == IInv /\ [Next]_vars => IInv'
  <1> SUFFICES ASSUME IInv, [Next]_vars PROVE IInv'
    OBVIOUS
  <1>1. CASE SendFile \/ SenderSteps \/ SenderHandlers
    BY <1>1, SenderStep
  <1>2. CASE ReceiverSteps
    BY <1>2, ReceiverStep
  <1>3. CASE Refusals
    BY <1>3, StartRefusedStep DEF Refusals
  <1>4. CASE ReceiverHandlers
    BY <1>4, HandleFileStartStep, HandleFileEndStep, HandleChunkStep,
       HandleCancelOfReceiverStep DEF ReceiverHandlers
  <1>5. CASE Environment
    BY <1>5, EnvironmentStep
  <1>6. CASE Quiescent \/ UNCHANGED vars
    BY <1>6, StutterStep DEF Quiescent
  <1> QED
    BY <1>1, <1>2, <1>3, <1>4, <1>5, <1>6 DEF Next

(* It holds of every behaviour. *)
LEMMA SpecInv == Spec => []IInv
  BY InitInv, NextInv, PTL DEF Spec

(***************************************************************************)
(* Type correctness: SendFile, receiveLoop and their handlers keep every   *)
(* field in the type it is declared with, for any sizes and faults.        *)
(***************************************************************************)
THEOREM TypeCorrect == Spec => []TypeOK
  <1>1. IInv => TypeOK
    BY DEF IInv
  <1> QED
    BY <1>1, SpecInv, PTL

(***************************************************************************)
(* Integrity of the commit: a destination that receiveLoop has renamed     *)
(* into place holds the file whose SHA-256 was offered, whatever crashed,  *)
(* was cancelled, resumed, reordered or changed on the way.                *)
(***************************************************************************)
THEOREM Integrity == Spec => []CommitIntegrity
  <1>1. IInv => CommitIntegrity
    BY DEF IInv
  <1> QED
    BY <1>1, SpecInv, PTL
=============================================================================
