--------------------------- MODULE AgreementProofs ---------------------------
(***************************************************************************)
(* Proofs about what the two ends of a transfer tell each other: what the  *)
(* messages to the sender mean when they are sent, that SendFile's success *)
(* means a commit, and that its goroutine never sleeps through a message.  *)
(***************************************************************************)
EXTENDS TransferProofs

USE DEF TypeOK, TransferIDs

-----------------------------------------------------------------------------
(* Queues as sets of messages *)

(* Sending adds one message to those in flight. *)
LEMMA RangeAppend ==
    ASSUME NEW S, NEW q \in Seq(S), NEW m \in S
    PROVE  Range(Append(q, m)) = Range(q) \cup {m}
  <1>1. Append(q, m) \in Seq(S) /\ Len(Append(q, m)) = Len(q) + 1
    BY AppendProperties
  <1>2. Range(Append(q, m)) = {Append(q, m)[i] : i \in 1 .. Len(q) + 1}
    BY <1>1, RangeEquality
  <1>3. Range(q) = {q[i] : i \in 1 .. Len(q)}
    BY RangeEquality
  <1>4. \A i \in 1 .. Len(q) : Append(q, m)[i] = q[i]
    BY AppendProperties
  <1>5. Append(q, m)[Len(q) + 1] = m /\ Len(q) \in Nat
    BY AppendProperties
  <1> HIDE DEF Range
  <1> QED
    BY <1>2, <1>3, <1>4, <1>5

(* Handling a message takes the oldest one and adds none. *)
LEMMA RangeTail ==
    ASSUME NEW S, NEW q \in Seq(S), q # <<>>
    PROVE  Range(Tail(q)) \subseteq Range(q) /\ Head(q) \in Range(q)
  <1>1. Tail(q) \in Seq(S) /\ Len(Tail(q)) = Len(q) - 1 /\ Len(q) \in Nat \ {0}
    BY HeadTailProperties, EmptySeq
  <1>2. Range(Tail(q)) = {Tail(q)[i] : i \in 1 .. Len(q) - 1}
    BY <1>1, RangeEquality
  <1>3. Range(q) = {q[i] : i \in 1 .. Len(q)}
    BY RangeEquality
  <1>4. \A i \in 1 .. Len(q) - 1 : Tail(q)[i] = q[i + 1]
    BY HeadTailProperties
  <1>5. Head(q) = q[1]
    BY HeadTailProperties
  <1> QED
    BY <1>1, <1>2, <1>3, <1>4, <1>5

(* A channel that has closed has lost everything. *)
LEMMA RangeEmpty == Range(<<>>) = {}
  BY DEF Range

(* Sending on an open or closed channel adds at most the message sent. *)
LEMMA RangeAfterSend ==
    ASSUME NEW q \in Seq(ToSender), NEW m \in ToSender
    PROVE  Range(AfterSend(q, m)) \subseteq Range(q) \cup {m}
  BY RangeAppend DEF AfterSend

-----------------------------------------------------------------------------
(* What the receiver says, and when *)

(* The answer to an offer gives the offset at which the part file ends. *)
SaysAccept(m) ==
    /\ m.type \in {"file_accept", "resume_state"}
    /\ rpc = "opened" /\ rpc' = "loop"
    /\ m.id = rid /\ m.n = rExpected

(* Progress is reported short of the end of the file. *)
SaysProgress(m) ==
    /\ m.type = ProgressType
    /\ rpc \in {"drain", "sidecar"} /\ rpc' = "drain"
    /\ m.id = rid /\ m.n = rExpected' /\ m.n < Size

(***************************************************************************)
(* A checkpoint is acknowledged after the sync, by the loop or by one that *)
(* has already been deregistered.                                          *)
(***************************************************************************)
SaysCheckpoint(m) ==
    /\ m.type = "file_ack"
    /\ m.n < Size \/ m.id \notin CommitAck
    /\ \/ rpc = "sidecar" /\ rpc' = "drain" /\ m.id = rid /\ m.n = rDurable
       \/ \E l \in rLeaving : l.step = "sidecar" /\ m.id = l.id /\ m.n = l.n

(* The commit is acknowledged after the rename. *)
SaysCommit(m) ==
    m.type = "file_ack" /\ rpc = "unlink" /\ rpc' = "finish" /\ m.id = rid /\ m.n = Size

Said(m) ==
    \/ m.type = "file_cancel"
    \/ SaysAccept(m) \/ SaysProgress(m) \/ SaysCheckpoint(m) \/ SaysCommit(m)

NothingElseSaid == \A m \in Range(toSender') : m \in Range(toSender) \/ Said(m)

(* file_cancel is a message of its own. *)
LEMMA CancelSaid ==
    ASSUME IInv, NEW id \in TransferIDs, SendCancelToSender(id)
    PROVE  NothingElseSaid
  <1> DEFINE m == [type |-> "file_cancel", id |-> id, n |-> 0]
  <1>1. m \in ToSender /\ m.type = "file_cancel"
    BY DEF ToSender
  <1>2. toSender \in Seq(ToSender)
    BY DEF IInv, NetTypeOK
  <1>3. toSender' = toSender \/ toSender' = AfterSend(toSender, m)
    BY DEF SendCancelToSender
  <1> HIDE DEF m
  <1> QED
    BY <1>1, <1>2, <1>3, RangeAfterSend DEF NothingElseSaid, Said

(* Progress says nothing but progress. *)
LEMMA ProgressSaid ==
    ASSUME IInv, rpc \in {"drain", "sidecar"}, rpc' = "drain",
           NEW queue \in Seq(ToSender), NEW late,
           rExpected' \in Nat, Progress(queue, rExpected', late)
    PROVE  \A m \in Range(toSender') : m \in Range(queue) \/ SaysProgress(m)
  <1> DEFINE p == [type |-> ProgressType, id |-> rid, n |-> rExpected']
  <1>1. p \in ToSender
    BY DEF IInv, ReceiverTypeOK, ProgressType, ToSender
  <1>2. CASE rExpected' < Size /\ (late \/ rExpected' - rProgress >= ProgressInterval)
    <2>1. toSender' = AfterSend(queue, p)
      BY <1>2 DEF Progress
    <2>2. SaysProgress(p)
      BY <1>2 DEF SaysProgress
    <2> QED
      BY <1>1, <2>1, <2>2, RangeAfterSend
  <1>3. CASE ~(rExpected' < Size /\ (late \/ rExpected' - rProgress >= ProgressInterval))
    BY <1>3 DEF Progress
  <1> QED
    BY <1>2, <1>3

(* A checkpoint is acknowledged short of the end, or for a legacy sender. *)
LEMMA CheckpointAckSaid ==
    ASSUME NEW queue \in Seq(ToSender), NEW id \in TransferIDs, NEW n \in Nat
    PROVE  \A m \in Range(CheckpointAck(queue, id, n)) :
              \/ m \in Range(queue)
              \/ /\ m.type = "file_ack" /\ m.id = id /\ m.n = n
                 /\ n < Size \/ id \notin CommitAck
  <1> DEFINE a == [type |-> "file_ack", id |-> id, n |-> n]
  <1>1. a \in ToSender /\ a.type = "file_ack" /\ a.id = id /\ a.n = n
    BY DEF ToSender
  <1> HIDE DEF a
  <1>2. CheckpointAck(queue, id, n) =
            IF n < Size \/ id \notin CommitAck THEN AfterSend(queue, a) ELSE queue
    BY DEF CheckpointAck, a
  <1> QED
    BY <1>1, <1>2, RangeAfterSend

(* The sender's own steps and handlers say nothing. *)
LEMMA SenderSaysNothing ==
    ASSUME IInv, SendFile \/ SenderSteps \/ SenderHandlers
    PROVE  NothingElseSaid
  <1>1. CASE UNCHANGED toSender
    BY <1>1 DEF NothingElseSaid
  <1>2. CASE toSender # <<>> /\ toSender' = Tail(toSender)
    BY <1>2, RangeTail DEF NothingElseSaid, IInv, NetTypeOK
  <1>3. SendFile \/ SenderSteps => UNCHANGED toSender
    BY DEF SendFile, SenderSteps, Accepted, SendChunk, SendEnd, Block, Wake,
           WaitForBuffer, Completed, Cancelled, SenderTimeout, netVars
  <1>4. SenderHandlers => UNCHANGED toSender \/ (toSender # <<>> /\ toSender' = Tail(toSender))
    BY DEF SenderHandlers, HandleAccept, HandleAck, HandleCancelOfSender
  <1> QED
    BY <1>1, <1>2, <1>3, <1>4

(* startReceive answers an offer. *)
LEMMA StartLoopSays ==
    ASSUME IInv, StartLoop
    PROVE  NothingElseSaid
  <1> DEFINE m == [type |-> IF rExpected > 0 THEN "resume_state" ELSE "file_accept",
                   id |-> rid, n |-> rExpected]
  <1>1. rid \in TransferIDs /\ rExpected \in Nat /\ toSender \in Seq(ToSender)
    BY DEF StartLoop, IInv, ReceiverTypeOK, NetTypeOK
  <1>2. m \in ToSender
    BY <1>1 DEF ToSender
  <1>3. toSender' = AfterSend(toSender, m) /\ SaysAccept(m)
    BY DEF StartLoop, SaysAccept
  <1> HIDE DEF m
  <1> QED
    BY <1>1, <1>2, <1>3, RangeAfterSend DEF NothingElseSaid, Said

(* receiveLoop reports what it has written. *)
LEMMA WriteChunkSays ==
    ASSUME IInv, NEW late \in BOOLEAN, WriteChunk(late)
    PROVE  NothingElseSaid
  <1>1. rpc = "drain" /\ toSender \in Seq(ToSender) /\ rExpected' \in Nat
    BY WriteChunkStep DEF WriteChunk, IInv, NetTypeOK, ReceiverTypeOK
  <1>2. \/ toSender' = toSender
        \/ rpc' = "drain" /\ Progress(toSender, rExpected', late)
    BY DEF WriteChunk
  <1> QED
    BY <1>1, <1>2, ProgressSaid DEF NothingElseSaid, Said

(* receiveLoop acknowledges a checkpoint. *)
LEMMA SidecarSays ==
    ASSUME IInv, NEW late \in BOOLEAN, Sidecar(late)
    PROVE  NothingElseSaid
  <1> DEFINE q == CheckpointAck(toSender, rid, rDurable)
  <1>1. /\ rpc = "sidecar" /\ rpc' = "drain" /\ rExpected' = rExpected
        /\ rid \in TransferIDs /\ rDurable \in Nat /\ rExpected \in Nat
        /\ toSender \in Seq(ToSender)
    BY DEF Sidecar, IInv, ReceiverTypeOK, NetTypeOK
  <1>2. q \in Seq(ToSender)
    BY <1>1, CheckpointAckType
  <1>3. Progress(q, rExpected', late)
    BY <1>1 DEF Sidecar
  <1>4. \A m \in Range(toSender') : m \in Range(q) \/ SaysProgress(m)
    BY <1>1, <1>2, <1>3, ProgressSaid
  <1>5. \A m \in Range(q) : m \in Range(toSender) \/ SaysCheckpoint(m)
    BY <1>1, CheckpointAckSaid DEF SaysCheckpoint
  <1> QED
    BY <1>4, <1>5 DEF NothingElseSaid, Said

(* complete acknowledges the commit. *)
LEMMA UnlinkSays ==
    ASSUME IInv, Unlink
    PROVE  NothingElseSaid
  <1> DEFINE m == [type |-> "file_ack", id |-> rid, n |-> Size]
  <1>1. rid \in TransferIDs /\ toSender \in Seq(ToSender)
    BY DEF Unlink, IInv, ReceiverTypeOK, NetTypeOK
  <1>2. m \in ToSender
    BY <1>1, ProtocolAssumption DEF ToSender
  <1>3. toSender' = AfterSend(toSender, m) /\ SaysCommit(m)
    BY DEF Unlink, SaysCommit
  <1> HIDE DEF m
  <1> QED
    BY <1>1, <1>2, <1>3, RangeAfterSend DEF NothingElseSaid, Said

(* A goroutine that was deregistered acknowledges its last checkpoint. *)
LEMMA LeaveSays ==
    ASSUME IInv, NEW l \in rLeaving, Leave(l)
    PROVE  NothingElseSaid
  <1>1. l.id \in TransferIDs /\ l.n \in Nat /\ toSender \in Seq(ToSender)
    BY DEF IInv, ReceiverTypeOK, NetTypeOK, Leaving
  <1>2. \/ UNCHANGED toSender
        \/ l.step = "sidecar" /\ toSender' = CheckpointAck(toSender, l.id, l.n)
    BY DEF Leave
  <1> QED
    BY <1>1, <1>2, CheckpointAckSaid DEF NothingElseSaid, Said, SaysCheckpoint

(* Every other step of the receiver is silent, or a file_cancel. *)
LEMMA ReceiverSays ==
    ASSUME IInv,
           \/ \E o \in starting : StartReceive(o) \/ StartRefused(o)
           \/ TakeChunk \/ TakeEnd \/ TakeCancel \/ EndDeadline \/ LoopClosed
           \/ Sync \/ Drained \/ Complete \/ RemoveDestination \/ Rename
           \/ FinishReceiver \/ DiskError \/ ReceiverHandlers
    PROVE  NothingElseSaid
  <1>1. CASE UNCHANGED toSender
    BY <1>1 DEF NothingElseSaid
  <1>2. ReceiveFailed /\ rpc # "none" => NothingElseSaid
    BY CancelSaid DEF ReceiveFailed, IInv, ReceiverTypeOK
  <1>3. CASE \E o \in starting : StartReceive(o) \/ StartRefused(o)
    <2>1. PICK o \in starting : StartReceive(o) \/ StartRefused(o)
      BY <1>3
    <2>2. o.id \in TransferIDs
      BY DEF IInv, ReceiverTypeOK, Offer
    <2> QED
      BY <1>1, <2>1, <2>2, CancelSaid DEF StartReceive, StartRefused
  <1>4. CASE TakeChunk \/ TakeEnd \/ TakeCancel \/ EndDeadline \/ LoopClosed
    BY <1>1, <1>2, <1>4
       DEF TakeChunk, TakeEnd, TakeCancel, EndDeadline, LoopClosed, Take
  <1>5. CASE Sync \/ Drained \/ Complete \/ RemoveDestination \/ Rename \/ FinishReceiver
             \/ DiskError
    BY <1>1, <1>2, <1>5
       DEF Sync, Drained, Complete, RemoveDestination, Rename, FinishReceiver, DiskError
  <1>6. CASE HandleFileStart \/ HandleFileEnd
    BY <1>1, <1>6 DEF HandleFileStart, HandleFileEnd
  <1>7. CASE HandleChunk
    <2>1. PICK c \in lanes : \/ UNCHANGED toSender
                             \/ SendCancelToSender(c.id)
      BY <1>7 DEF HandleChunk
    <2>2. c.id \in TransferIDs
      BY DEF IInv, NetTypeOK, Chunk
    <2> QED
      BY <1>1, <2>1, <2>2, CancelSaid
  <1>8. CASE HandleCancelOfReceiver
    BY <1>1, <1>2, <1>8 DEF HandleCancelOfReceiver, Registered
  <1> QED
    BY <1>3, <1>4, <1>5, <1>6, <1>7, <1>8 DEF ReceiverHandlers

(***************************************************************************)
(* Every message that a step puts on its way to the sender is one of the   *)
(* five above, true when it is sent.                                       *)
(***************************************************************************)
LEMMA NewMessages ==
    ASSUME IInv, [Next]_vars
    PROVE  NothingElseSaid
  <1>1. CASE UNCHANGED toSender
    BY <1>1 DEF NothingElseSaid
  <1>2. CASE SendFile \/ SenderSteps \/ SenderHandlers
    BY <1>2, SenderSaysNothing
  <1>3. CASE ReceiverSteps \/ Refusals \/ ReceiverHandlers
    BY <1>3, ReceiverSays, StartLoopSays, WriteChunkSays, SidecarSays, UnlinkSays, LeaveSays
       DEF ReceiverSteps, Refusals
  <1>4. CASE Environment
    <2>1. Disconnect => NothingElseSaid
      BY RangeEmpty DEF Disconnect, NothingElseSaid
    <2>2. CASE CtxDone \/ SendRefused \/ SourceChange \/ UserFile \/ PeerCancel \/ Reconnect \/ LaneLost
      BY <1>1, <2>2
         DEF CtxDone, SendRefused, SourceChange, UserFile, PeerCancel, Reconnect,
             LaneLost, netVars
    <2>3. CASE Close \/ Crash \/ PowerLoss
      BY <2>1, <2>3 DEF Close, Crash, PowerLoss
    <2> QED
      BY <1>4, <2>2, <2>3, ReceiverSays DEF Environment
  <1> QED
    BY <1>1, <1>2, <1>3, <1>4 DEF Next, Quiescent, vars, netVars

-----------------------------------------------------------------------------
(* Who changes what *)

(* The variables of SendFile change only in its own steps and handlers. *)
LEMMA SenderFrame ==
    ASSUME [Next]_vars
    PROVE  \/ SendFile \/ SenderSteps \/ SenderHandlers \/ CtxDone \/ SendRefused \/ PeerCancel
           \/ SourceChange
           \/ UNCHANGED senderVars
  <1>1. ReceiverSteps => UNCHANGED senderVars
    BY DEF ReceiverSteps, StartReceive, StartLoop, TakeChunk, TakeEnd, TakeCancel,
           EndDeadline, LoopClosed, WriteChunk, Sidecar, Sync, Drained, Complete,
           RemoveDestination, Rename, Unlink, FinishReceiver, Leave, senderSide
  <1>2. Refusals \/ ReceiverHandlers => UNCHANGED senderVars
    BY DEF Refusals, StartRefused, ReceiverHandlers, HandleFileStart, HandleFileEnd,
           HandleChunk, HandleCancelOfReceiver, receiverCore, senderSide
  <1>3. Environment => CtxDone \/ SendRefused \/ PeerCancel \/ SourceChange \/ UNCHANGED senderVars
    BY DEF Environment, DiskError, Close, Crash, PowerLoss, Reconnect, LaneLost, UserFile,
           senderSide
  <1> QED
    BY <1>1, <1>2, <1>3 DEF Next, Quiescent, vars

(***************************************************************************)
(* The registered transfer changes only in the receiver's steps, in a      *)
(* crash, and by a handler that fails it.                                  *)
(***************************************************************************)
LEMMA ReceiverFrame ==
    ASSUME [Next]_vars
    PROVE  \/ ReceiverSteps \/ HandleCancelOfReceiver
           \/ DiskError \/ Crash \/ PowerLoss
           \/ UNCHANGED <<rpc, rid, rDigest, rPending, rExpected, rIndex, rHash, rDurable,
                          rProgress, rEnd, rLeaving, part, meta, committed>>
  <1>1. SendFile \/ SenderSteps \/ SenderHandlers => UNCHANGED receiverSide
    BY DEF SendFile, SenderSteps, SenderHandlers, Accepted, SendChunk, SendEnd, Block,
           Wake, WaitForBuffer, Completed, Cancelled, SenderTimeout, HandleAccept,
           HandleAck, HandleCancelOfSender
  <1>2. CtxDone \/ SendRefused \/ PeerCancel \/ SourceChange => UNCHANGED receiverSide
    BY DEF CtxDone, SendRefused, PeerCancel, SourceChange
  <1> QED
    BY <1>1, <1>2
       DEF Next, Quiescent, vars, Environment, Refusals, StartRefused, ReceiverHandlers,
           HandleFileStart, HandleFileEnd, HandleChunk, Close, Reconnect, LaneLost,
           UserFile, receiverCore, receiverSide, loopVars, diskVars

(* A transfer is committed by the rename of its part file, and for good. *)
LEMMA CommittedGrows ==
    ASSUME [Next]_vars
    PROVE  \/ UNCHANGED committed
           \/ Rename /\ part.present /\ committed' = committed \cup {rid}
  <1>1. ReceiverSteps => Rename \/ UNCHANGED committed
    BY DEF ReceiverSteps, StartReceive, StartLoop, TakeChunk, TakeEnd, TakeCancel,
           EndDeadline, LoopClosed, WriteChunk, Sidecar, Sync, Drained, Complete,
           RemoveDestination, Unlink, FinishReceiver, Leave, diskVars
  <1>2. HandleCancelOfReceiver \/ DiskError \/ Crash \/ PowerLoss => UNCHANGED committed
    BY DEF HandleCancelOfReceiver, DiskError, Crash, PowerLoss, diskVars
  <1>3. Rename => UNCHANGED committed \/ (part.present /\ committed' = committed \cup {rid})
    BY DEF Rename
  <1> QED
    BY <1>1, <1>2, <1>3, ReceiverFrame

(* The receiver acknowledges and deregisters only what it has renamed. *)
LEMMA AfterRename ==
    ASSUME [Next]_vars, rpc' \in {"unlink", "finish"}
    PROVE  \/ rpc \in {"unlink", "finish"} /\ rid' = rid
           \/ rid' \in committed'
  <1>1. CASE ReceiverSteps
    BY <1>1
       DEF ReceiverSteps, StartReceive, StartLoop, TakeChunk, TakeEnd, TakeCancel,
           EndDeadline, LoopClosed, WriteChunk, Sidecar, Sync, Drained, Complete,
           RemoveDestination, Rename, Unlink, FinishReceiver, Leave, ReceiveFailed, Finish,
           AfterComplete, loopVars, Take
  <1>2. CASE HandleCancelOfReceiver
    BY <1>2 DEF HandleCancelOfReceiver, ReceiveFailed, Finish, loopVars
  <1>3. CASE DiskError \/ Crash \/ PowerLoss
    BY <1>3 DEF DiskError, Crash, PowerLoss, ReceiveFailed, Finish, noReceiver
  <1> QED
    BY <1>1, <1>2, <1>3, ReceiverFrame

-----------------------------------------------------------------------------
(* SendFile's success is the receiver's commit *)

(***************************************************************************)
(* A call of SendFile that is still running has no outcome, a call that is *)
(* still to come has none either, and no counter survives a call.          *)
(***************************************************************************)
CallInv ==
    /\ spc = "idle" => sAcked = 0 /\ sReceived = 0 /\ sOffset = 0 /\ sAccept = Empty
                       /\ ~sSignal /\ ~sCancel
    /\ spc # "idle" => sOutcome[sid] = "none"
    /\ \A id \in TransferIDs : id > sid => sOutcome[id] = "none"

(* An acknowledgement of the whole file, to a sender that relies on it. *)
FinalAck(m) == m.type = "file_ack" /\ m.id \in CommitAck /\ m.n >= Size

(***************************************************************************)
(* Such an acknowledgement follows the rename: in flight, and recorded by  *)
(* a call that did not start at the end of the file.                       *)
(***************************************************************************)
FinalAckInv ==
    /\ \A m \in Range(toSender) : FinalAck(m) => m.id \in committed
    /\ rpc \in {"unlink", "finish"} => rid \in committed
    /\ spc # "idle" /\ sid \in CommitAck /\ sStart < Size /\ sAcked >= Size
           => sid \in committed

AgreementInv == CallInv /\ FinalAckInv /\ CompletedImpliesCommitted

(* SendFile ends in one of its ways. *)
LEMMA SenderReturnCall ==
    ASSUME IInv, CallInv, NEW outcome \in {"completed", "failed", "cancelled"},
           spc # "idle", SenderReturn(outcome)
    PROVE  /\ CallInv'
           /\ spc' = "idle" /\ sid' = sid /\ sStart' = sStart
           /\ sOutcome'[sid] = outcome
           /\ \A id \in TransferIDs : id # sid => sOutcome'[id] = sOutcome[id]
  BY DEF IInv, SenderTypeOK, CallInv, SenderReturn

(* Every step keeps the books of the calls of SendFile. *)
LEMMA CallStep ==
    ASSUME IInv, CallInv, [Next]_vars
    PROVE  CallInv'
  <1>1. CASE SendFile
    BY <1>1, ProtocolAssumption DEF SendFile, IInv, SenderTypeOK, CallInv
  <1>2. CASE Accepted \/ Block \/ Wake
    BY <1>2 DEF Accepted, Block, Wake, IInv, SenderTypeOK, CallInv
  <1>3. CASE SendChunk \/ WaitForBuffer
    BY <1>3, SenderReturnCall DEF SendChunk, WaitForBuffer, CallInv
  <1>4. CASE SendEnd
    BY <1>4, SenderReturnCall DEF SendEnd, CallInv
  <1>5. CASE Completed \/ Cancelled \/ SenderTimeout \/ CtxDone \/ SendRefused \/ PeerCancel
    BY <1>5, SenderReturnCall
       DEF Completed, Cancelled, SenderTimeout, CtxDone, SendRefused, PeerCancel, Waiting,
           TimedWait
  <1>6. CASE SenderHandlers
    <2>1. UNCHANGED <<spc, sid, sOutcome, sOffset>>
      BY <1>6 DEF SenderHandlers, HandleAccept, HandleAck, HandleCancelOfSender
    <2>2. spc = "idle" => UNCHANGED <<sAcked, sReceived, sAccept, sSignal>>
      BY <1>6 DEF SenderHandlers, HandleAccept, HandleAck, HandleCancelOfSender, Sending
    <2>3. spc = "idle" /\ ~sCancel => ~sCancel'
      BY <1>6 DEF SenderHandlers, HandleAccept, HandleAck, HandleCancelOfSender, Sending
    <2> QED
      BY <2>1, <2>2, <2>3 DEF CallInv
  <1>7. CASE SourceChange
    BY <1>7 DEF SourceChange, CallInv
  <1>8. CASE UNCHANGED senderVars
    BY <1>8 DEF senderVars, CallInv
  <1> QED
    BY <1>1, <1>2, <1>3, <1>4, <1>5, <1>6, <1>7, <1>8, SenderFrame DEF SenderSteps

(* The acknowledgements in flight and the receiver's position. *)
LEMMA FinalAcksInFlight ==
    ASSUME IInv, FinalAckInv, [Next]_vars
    PROVE  /\ \A m \in Range(toSender') : FinalAck(m) => m.id \in committed'
           /\ rpc' \in {"unlink", "finish"} => rid' \in committed'
           /\ committed \subseteq committed'
  <1>1. committed \subseteq committed'
    BY CommittedGrows
  <1>2. ASSUME NEW m \in Range(toSender'), FinalAck(m)
        PROVE  m.id \in committed'
    <2>1. CASE m \in Range(toSender)
      BY <1>1, <1>2, <2>1 DEF FinalAckInv
    <2>2. CASE Said(m)
      <3>1. m.n < Size => ~(m.n >= Size)
        <4>1. m \in ToSender
          BY NextInv, RangeOfSeq DEF IInv, NetTypeOK
        <4>2. m.n \in Nat
          BY <4>1 DEF ToSender
        <4> QED
          BY <4>2, ProtocolAssumption
      <3>2. SaysCommit(m)
        BY <1>2, <2>2, <3>1
           DEF FinalAck, Said, SaysAccept, SaysProgress, SaysCheckpoint
      <3> QED
        BY <1>1, <3>2 DEF SaysCommit, FinalAckInv
    <2> QED
      BY <2>1, <2>2, NewMessages DEF NothingElseSaid
  <1>3. ASSUME rpc' \in {"unlink", "finish"}
        PROVE  rid' \in committed'
    BY <1>1, <1>3, AfterRename DEF FinalAckInv
  <1> QED
    BY <1>1, <1>2, <1>3

(* SendFile starts at the end of the file only when it was told to. *)
LEMMA ResumeOffsetRange ==
    ASSUME NEW n
    PROVE  ResumeOffset(n) \in 0 .. Size
  BY ProtocolAssumption DEF ResumeOffset

(* What SendFile has recorded, and what it reports. *)
LEMMA FinalAckRecorded ==
    ASSUME IInv, AgreementInv, [Next]_vars
    PROVE  /\ spc' # "idle" /\ sid' \in CommitAck /\ sStart' < Size /\ sAcked' >= Size
                  => sid' \in committed'
           /\ CompletedImpliesCommitted'
  <1>1. committed \subseteq committed'
    BY CommittedGrows
  <1> DEFINE Recorded == spc # "idle" /\ sid \in CommitAck /\ sStart < Size /\ sAcked >= Size
                           => sid \in committed
             Reported == sid \in CommitAck /\ sStart < Size =>
                           (sOutcome[sid] = "completed" => sid \in committed)
  <1>2. Recorded /\ Reported
    BY DEF AgreementInv, FinalAckInv, CompletedImpliesCommitted
  <1>3. spc # "idle" => sOutcome[sid] = "none"
    BY DEF AgreementInv, CallInv
  <1>4. CASE SendFile
    <2>1. /\ sid' = sid + 1 /\ sid' \in TransferIDs /\ sStart' = 0 /\ sAcked' = sAcked
          /\ sAcked = 0 /\ sOutcome' = sOutcome
      BY <1>4, ProtocolAssumption DEF SendFile, IInv, SenderTypeOK, AgreementInv, CallInv
    <2>2. sOutcome[sid + 1] = "none"
      BY <2>1 DEF AgreementInv, CallInv, IInv, SenderTypeOK
    <2> QED
      BY <2>1, <2>2, ProtocolAssumption DEF CompletedImpliesCommitted
  <1>5. CASE Accepted
    BY <1>1, <1>2, <1>3, <1>5, ResumeOffsetRange, ProtocolAssumption
       DEF Accepted, CompletedImpliesCommitted
  <1>6. CASE HandleAck
    <2>1. /\ UNCHANGED <<spc, sid, sStart, sOutcome>>
          /\ sAcked' = sAcked \/ (/\ Head(toSender).type = "file_ack"
                                  /\ Head(toSender).id = sid
                                  /\ sAcked' = LargerOf(sAcked, Head(toSender).n))
      BY <1>6 DEF HandleAck, Sending
    <2>2. toSender # <<>> /\ Head(toSender) \in Range(toSender) /\ Head(toSender).n \in Nat
      BY <1>6, RangeTail, ToSenderHead DEF HandleAck, IInv, NetTypeOK
    <2>3. sAcked' >= Size => sAcked >= Size \/ (sid \in CommitAck => FinalAck(Head(toSender)))
      BY <2>1, <2>2 DEF LargerOf, FinalAck
    <2>4. FinalAck(Head(toSender)) => Head(toSender).id \in committed
      BY <2>2 DEF AgreementInv, FinalAckInv
    <2> QED
      BY <1>1, <1>2, <2>1, <2>2, <2>3, <2>4 DEF LargerOf, CompletedImpliesCommitted
  <1>7. CASE Completed
    <2>1. spc = "final" /\ sAcked >= Size /\ SenderReturn("completed")
      BY <1>7 DEF Completed
    <2> QED
      BY <1>1, <1>2, <2>1, SenderReturnCall DEF CompletedImpliesCommitted, AgreementInv
  <1>8. CASE \E o \in {"failed", "cancelled"} : SenderReturn(o) /\ spc # "idle"
    BY <1>1, <1>8, SenderReturnCall DEF CompletedImpliesCommitted, AgreementInv
  <1>9. CASE UNCHANGED <<spc, sid, sStart, sAcked, sOutcome>>
    BY <1>1, <1>2, <1>9 DEF CompletedImpliesCommitted
  <1>10. CASE SenderSteps \/ CtxDone \/ SendRefused \/ PeerCancel
    <2>1. SendChunk \/ SendEnd \/ Block \/ Wake \/ WaitForBuffer =>
             \/ UNCHANGED <<spc, sid, sStart, sAcked, sOutcome>>
             \/ SenderReturn("failed") /\ spc # "idle"
             \/ UNCHANGED <<sid, sStart, sAcked, sOutcome>> /\ spc # "idle"
      BY DEF SendChunk, SendEnd, Block, Wake, WaitForBuffer
    <2>2. Cancelled \/ SenderTimeout \/ CtxDone \/ SendRefused \/ PeerCancel =>
             \E o \in {"failed", "cancelled"} : SenderReturn(o) /\ spc # "idle"
      BY DEF Cancelled, SenderTimeout, CtxDone, SendRefused, PeerCancel, Waiting, TimedWait
    <2>3. CASE UNCHANGED <<sid, sStart, sAcked, sOutcome>> /\ spc # "idle"
      BY <1>1, <1>2, <2>3 DEF CompletedImpliesCommitted
    <2> QED
      BY <1>5, <1>7, <1>8, <1>9, <1>10, <2>1, <2>2, <2>3 DEF SenderSteps
  <1>11. HandleAccept \/ HandleCancelOfSender \/ SourceChange \/ UNCHANGED senderVars
            => UNCHANGED <<spc, sid, sStart, sAcked, sOutcome>>
    BY DEF HandleAccept, HandleCancelOfSender, SourceChange, senderVars
  <1> QED
    BY <1>4, <1>6, <1>9, <1>10, <1>11, SenderFrame DEF SenderHandlers

(* The invariant holds when the managers are created. *)
LEMMA AgreementInit == Init => AgreementInv
  <1> SUFFICES ASSUME Init PROVE AgreementInv
    OBVIOUS
  <1>1. CallInv
    BY DEF Init, CallInv
  <1>2. FinalAckInv
    BY RangeEmpty DEF Init, FinalAckInv
  <1>3. CompletedImpliesCommitted
    BY TransferAssumption DEF Init, CompletedImpliesCommitted
  <1> QED
    BY <1>1, <1>2, <1>3 DEF AgreementInv

(* It is inductive. *)
LEMMA AgreementNext == IInv /\ AgreementInv /\ [Next]_vars => AgreementInv'
  BY CallStep, FinalAcksInFlight, FinalAckRecorded DEF AgreementInv, FinalAckInv

(* It holds of every behaviour. *)
LEMMA AgreementAlways == Spec => []AgreementInv
  BY AgreementInit, AgreementNext, SpecInv, PTL DEF Spec

(***************************************************************************)
(* SendFile reports success only when the receiver has renamed the part    *)
(* file, for every call that was not resumed at the very end of the file:  *)
(* under any faults, with any peers, and however often it was tried.       *)
(***************************************************************************)
THEOREM SuccessIsCommit == Spec => []CompletedImpliesCommitted
  <1>1. AgreementInv => CompletedImpliesCommitted
    BY DEF AgreementInv
  <1> QED
    BY <1>1, AgreementAlways, PTL

-----------------------------------------------------------------------------
(* SendFile does not sleep through a message *)

(* NoLostWakeup is inductive: whoever changes a counter leaves a token. *)
LEMMA WakeupStep ==
    ASSUME IInv, NoLostWakeup, [Next]_vars
    PROVE  NoLostWakeup'
  <1>1. CASE spc' \notin {"waitAck", "waitFinal"}
    BY <1>1 DEF NoLostWakeup
  <1>2. CASE UNCHANGED <<spc, sSignal, sOffset, sReceived, sAcked, sid>>
    BY <1>2 DEF NoLostWakeup, WindowFull, MayEnd
  <1>3. CASE Block
    BY <1>3 DEF Block, NoLostWakeup, WindowFull, MayEnd, IInv, SenderTypeOK
  <1>4. CASE HandleAck
    <2>1. sSignal' \/ UNCHANGED <<spc, sSignal, sOffset, sReceived, sAcked, sid>>
      BY <1>4 DEF HandleAck, SignalAfterAck
    <2>2. CASE sSignal'
      BY <2>2 DEF NoLostWakeup
    <2> QED
      BY <1>2, <2>1, <2>2
  <1>5. SendFile \/ Accepted \/ Wake \/ WaitForBuffer \/ Completed \/ Cancelled
        \/ SenderTimeout \/ CtxDone \/ SendRefused \/ PeerCancel => spc' \notin {"waitAck", "waitFinal"}
    BY DEF SendFile, Accepted, Wake, WaitForBuffer, Completed, Cancelled, SenderTimeout,
           CtxDone, SendRefused, PeerCancel, SenderReturn
  <1>6. SendChunk \/ SendEnd => spc' \notin {"waitAck", "waitFinal"}
    BY DEF SendChunk, SendEnd, SenderReturn
  <1>7. HandleAccept \/ HandleCancelOfSender \/ SourceChange \/ UNCHANGED senderVars
            => UNCHANGED <<spc, sSignal, sOffset, sReceived, sAcked, sid>>
    BY DEF HandleAccept, HandleCancelOfSender, SourceChange, senderVars
  <1> QED
    BY <1>1, <1>2, <1>3, <1>4, <1>5, <1>6, <1>7, SenderFrame DEF SenderSteps, SenderHandlers

(***************************************************************************)
(* SendFile reads its counters under sendState.mu and then waits without   *)
(* it: a handler that comes in between leaves a token in the acks channel, *)
(* so a goroutine that sleeps without one still has to wait.               *)
(***************************************************************************)
THEOREM NoWakeupIsLost == Spec => []NoLostWakeup
  <1>1. Init => NoLostWakeup
    BY DEF Init, NoLostWakeup
  <1>2. IInv /\ NoLostWakeup /\ [Next]_vars => NoLostWakeup'
    BY WakeupStep
  <1> QED
    BY <1>1, <1>2, SpecInv, PTL DEF Spec
=============================================================================
