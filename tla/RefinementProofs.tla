-------------------------- MODULE RefinementProofs --------------------------
(***************************************************************************)
(* Proof that the transfer implements FileDelivery: chunks, checkpoints,   *)
(* acknowledgements, retries and crashes are nothing that those who use it *)
(* need to know about.                                                     *)
(***************************************************************************)
EXTENDS DeliveryProofs

USE DEF TypeOK, TransferIDs

-----------------------------------------------------------------------------
(***************************************************************************)
(* A destination that is there is replaced only with leave; without it, a  *)
(* transfer that runs is the first that may get there.                     *)
(***************************************************************************)
DestInv ==
    /\ ~dest.present => dest = NoDest
    /\ ~Overwrite /\ committed # {} => dest.present
    /\ ~Overwrite /\ rpc \in Streaming \cup {"opened"} => committed = {}
    /\ rpc = "remove" => Overwrite

(* Nobody deletes the part file of a transfer that runs. *)
PresentInv ==
    /\ rLeaving = {}
    /\ rpc \in Streaming \cup {"opened"} => part.present

(* The destination is touched when it is replaced, and by somebody else. *)
LEMMA DestStep ==
    ASSUME [Next]_vars
    PROVE  \/ UNCHANGED <<dest, committed>>
           \/ RemoveDestination
           \/ Rename /\ part.present
           \/ UserFile
  BY DEF Next, SendFile, SenderSteps, SenderHandlers, Accepted, SendChunk, SendEnd, Block,
         Wake, WaitForBuffer, Completed, Cancelled, SenderTimeout, HandleAccept,
         HandleAck, HandleCancelOfSender, ReceiverSteps, StartReceive, StartLoop,
         TakeChunk, TakeEnd, TakeCancel, EndDeadline, LoopClosed, WriteChunk, Sidecar,
         Sync, Drained, Complete, Rename, Unlink, FinishReceiver, Leave, Refusals,
         StartRefused, ReceiverHandlers, HandleFileStart, HandleFileEnd, HandleChunk,
         HandleCancelOfReceiver, Environment, CtxDone, SendRefused, DiskError, Close,
         Crash, PowerLoss, Reconnect, LaneLost, SourceChange, PeerCancel, Quiescent,
         receiverSide, receiverCore, diskVars, vars

(* complete() deletes the destination only with Overwrite. *)
LEMMA RemoveNeedsLeave ==
    ASSUME IInv, [Next]_vars, rpc' = "remove"
    PROVE  rpc = "remove" \/ Overwrite
  <1>1. Complete /\ rpc' = "remove" => Overwrite
    BY DEF Complete, ReceiveFailed, Finish
  <1>2. rpc' = "remove" => Complete \/ UNCHANGED rpc
    BY ReceiverFrame
       DEF ReceiverSteps, StartReceive, StartLoop, TakeChunk, TakeEnd, TakeCancel,
           EndDeadline, LoopClosed, WriteChunk, Sidecar, Sync, Drained, RemoveDestination,
           Rename, Unlink, FinishReceiver, Leave, HandleCancelOfReceiver, DiskError,
           Crash, PowerLoss, noReceiver, ReceiveFailed, Finish, AfterComplete
  <1> QED
    BY <1>1, <1>2

(* Only a destination that was free is given to the first transfer. *)
LEMMA DestNext ==
    ASSUME IInv, EmptyInv, OfferInv, FreshInv, DestInv, [Next]_vars
    PROVE  DestInv'
  <1>1. rpc' = "remove" => Overwrite
    BY RemoveNeedsLeave DEF DestInv
  <1>2. CASE UNCHANGED <<dest, committed>>
    <2>1. ASSUME ~Overwrite, rpc' \in Streaming \cup {"opened"}
          PROVE  committed' = {}
      <3>1. rpc' # "none"
        BY <2>1 DEF Streaming
      <3>2. CASE rpc # "none"
        BY <1>2, <2>1, <3>1, <3>2, PhaseStep DEF DestInv
      <3>3. CASE rpc = "none"
        <4>1. \E o \in starting : StartReceive(o)
          BY <3>1, <3>3, RegistryStep
        <4>2. ~dest.present
          BY <2>1, <4>1 DEF StartReceive, DestinationFree
        <4> QED
          BY <1>2, <2>1, <4>2 DEF DestInv
      <3> QED
        BY <3>2, <3>3
    <2> QED
      BY <1>1, <1>2, <2>1 DEF DestInv
  <1>3. CASE RemoveDestination
    <2>1. rpc = "remove" /\ dest' = NoDest /\ Overwrite
      BY <1>3 DEF RemoveDestination, DestInv
    <2> QED
      BY <1>1, <2>1 DEF DestInv
  <1>4. CASE Rename /\ part.present
    <2>1. dest'.present /\ rpc' = "unlink"
      BY <1>4 DEF Rename
    <2> QED
      BY <1>1, <2>1 DEF DestInv, Streaming
  <1>5. CASE UserFile
    <2>1. dest'.present /\ UNCHANGED <<rpc, committed>>
      BY <1>5 DEF UserFile, NoDest
    <2> QED
      BY <1>1, <2>1 DEF DestInv
  <1> QED
    BY <1>2, <1>3, <1>4, <1>5, DestStep

-----------------------------------------------------------------------------
(* A whole part file *)

(* A part file of the whole length is the file, and complete() accepts it. *)
LEMMA WholePart ==
    ASSUME IInv, SyncInv, ContentInv, rpc \in Streaming \cup {"opened"}, rExpected = Size
    PROVE  part.data = FileOf(rDigest)
  <1>1. /\ part.data \in Seq(Byte) /\ Len(part.data) = Size /\ Size \in Nat
        /\ rDigest \in Versions
    BY ProtocolAssumption DEF IInv, PartInv, DiskTypeOK, ReceiverTypeOK
  <1>2. \A i \in 1 .. Size : part.data[i] = <<rDigest, i - 1>>
    BY <1>1 DEF ContentInv, IsPrefixOf
  <1>3. /\ FileOf(rDigest) \in Seq(Byte) /\ Len(FileOf(rDigest)) = Size
    BY <1>1, ContentType DEF FileOf
  <1>4. \A i \in 1 .. Size : FileOf(rDigest)[i] = <<rDigest, i - 1>>
    BY <1>1 DEF FileOf, Content
  <1> QED
    BY <1>1, <1>2, <1>3, <1>4, SeqEqual

(* While the transfer runs, such a part file is stored. *)
LEMMA WholeIsStored ==
    ASSUME IInv, SyncInv, ContentInv, PresentInv, rpc \in Streaming \cup {"opened"},
           rExpected = Size, part.synced >= Size
    PROVE  rDigest \in Stored
  BY WholePart DEF Stored, PresentInv, IInv, ReceiverTypeOK

(* No integrity failure ever deletes the part file of another transfer. *)
LEMMA PresentNext ==
    ASSUME IInv, SyncInv, ContentInv, NoStaleCheckpoint', PresentInv, [Next]_vars
    PROVE  PresentInv'
  <1>0. rLeaving = {}
    BY DEF PresentInv
  <1>1. Complete => UNCHANGED rLeaving /\ rpc' \in {"remove", "rename"} /\ UNCHANGED part
    <2> SUFFICES ASSUME Complete
                 PROVE  UNCHANGED rLeaving /\ rpc' \in {"remove", "rename"} /\ UNCHANGED part
      OBVIOUS
    <2>1. rpc = "complete" /\ rExpected = Size
      BY DEF Complete, SyncInv
    <2>2. DigestMatches
      BY <2>1, WholePart DEF Streaming, IInv, PartInv, DigestMatches
    <2> QED
      BY <2>2 DEF Complete, diskVars
  <1>2. rLeaving' = {}
    <2>1. CASE HandleCancelOfReceiver
      <3>1. \A l \in rLeaving' : l.step = "sidecar"
        BY <1>0, <2>1 DEF HandleCancelOfReceiver
      <3> QED
        BY <3>1 DEF NoStaleCheckpoint
    <2>2. CASE ~HandleCancelOfReceiver
      BY <1>0, <1>1, <2>2, ReceiverFrame
         DEF ReceiverSteps, StartReceive, StartLoop, TakeChunk, TakeEnd, TakeCancel,
             EndDeadline, LoopClosed, WriteChunk, Sidecar, Sync, Drained,
             RemoveDestination, Rename, Unlink, FinishReceiver, DiskError, Crash,
             PowerLoss, noReceiver
    <2> QED
      BY <2>1, <2>2
  <1>3. ASSUME rpc' \in Streaming \cup {"opened"}
        PROVE  part'.present
    <2>0. rpc' # "none"
      BY <1>3 DEF Streaming
    <2>1. CASE rpc = "none"
      <3>1. PICK o \in starting : StartReceive(o)
        BY <2>0, <2>1, RegistryStep
      <3>2. ResumePoint(o) # 0 => part.present
        BY ResumedPart
      <3> QED
        BY <3>1, <3>2 DEF StartReceive
    <2>2. CASE rpc # "none"
      <3>1. rpc \in Streaming \cup {"opened"} /\ part.present
        BY <1>3, <2>0, <2>2, PhaseStep DEF PresentInv
      <3>2. ASSUME NEW late \in BOOLEAN, WriteChunk(late)
            PROVE  part'.present
        BY <3>1, <3>2, WriteChunkFacts
      <3>3. Sync => part'.present
        BY <3>1 DEF Sync, IInv, DiskTypeOK
      <3>4. ~Rename \/ UNCHANGED part
        BY <1>3 DEF Rename, Streaming
      <3>5. \/ UNCHANGED part \/ Sync \/ \E late \in BOOLEAN : WriteChunk(late)
        BY <1>0, <2>0, <2>2, <3>4, ReceiverFrame
           DEF ReceiverSteps, StartReceive, StartLoop, TakeChunk, TakeEnd, TakeCancel,
               EndDeadline, LoopClosed, Sidecar, Drained, Complete, RemoveDestination, Unlink,
               FinishReceiver, HandleCancelOfReceiver, DiskError, ReceiveFailed, Finish, Crash,
               PowerLoss, noReceiver, diskVars
      <3> QED
        BY <3>1, <3>2, <3>3, <3>5
    <2> QED
      BY <2>1, <2>2
  <1> QED
    BY <1>2, <1>3 DEF PresentInv

-----------------------------------------------------------------------------
(* What SendFile is told *)

(* A message that acknowledges the whole file to the running call. *)
Tells(m) ==
    /\ m.type \in {"file_accept", "resume_state", "file_ack"}
    /\ m.id = sid /\ m.n >= Size

ToldTo ==
    \/ spc = "waitAccept" /\ sAccept >= Size
    \/ spc \notin {"idle", "waitAccept"} /\ sAcked >= Size
    \/ spc # "idle" /\ \E m \in Range(toSender) : Tells(m)

(* The receiver has the whole file that was offered. *)
SafelyThere == sid \in committed \/ sDigest \in Stored

(* What SendFile has recorded comes from the answer or from a file_ack. *)
LEMMA AckedStep ==
    ASSUME [Next]_vars
    PROVE  \/ UNCHANGED sAcked \/ spc' = "idle" \/ Accepted
           \/ /\ toSender # <<>> /\ UNCHANGED spc
              /\ LET m == Head(toSender) IN
                    /\ m.type = "file_ack" /\ Sending(m.id)
                    /\ sAcked' = LargerOf(sAcked, m.n)
  BY SenderFrame
     DEF SendFile, SenderSteps, SenderHandlers, SendChunk, SendEnd, Block, Wake,
         WaitForBuffer, Completed, Cancelled, SenderTimeout, HandleAccept, HandleAck,
         HandleCancelOfSender, CtxDone, SendRefused, SourceChange, PeerCancel,
         SenderReturn, senderVars

(* The steps that answer an offer, a checkpoint or a commit touch no file but the sidecar. *)
LEMMA AnswersKeep ==
    ASSUME [Next]_vars,
           \/ rpc = "opened" /\ rpc' = "loop"
           \/ rpc = "sidecar" /\ rpc' = "drain"
           \/ rpc = "unlink" /\ rpc' = "finish"
    PROVE  UNCHANGED senderVars /\ UNCHANGED <<part, dest, committed>>
  BY ReceiverFrame
     DEF ReceiverSteps, StartReceive, StartLoop, TakeChunk, TakeEnd, TakeCancel, Take,
         EndDeadline, LoopClosed, WriteChunk, Sidecar, Sync, Drained, Complete,
         RemoveDestination, Rename, Unlink, FinishReceiver, Leave, HandleCancelOfReceiver,
         DiskError, ReceiveFailed, Finish, Crash, PowerLoss, noReceiver, senderSide

(* What is said about the whole file is true, and nothing else happens then. *)
LEMMA SaidTruly ==
    ASSUME IInv, FlowInv, SyncInv, ContentInv, PresentInv, DigestInv, FinalAckInv, [Next]_vars,
           NEW m, Said(m), Tells(m)
    PROVE  SafelyThere /\ UNCHANGED senderVars /\ UNCHANGED <<part, dest, committed>>
  <1>1. rExpected \in Nat /\ Size \in Nat /\ rDurable \in Nat
    BY ProtocolAssumption DEF IInv, ReceiverTypeOK
  <1>2. ASSUME rpc \in Streaming \cup {"opened"}, rExpected >= Size, rExpected = rDurable,
               rid = sid
        PROVE  SafelyThere
    <2>1. rpc # "none"
      BY <1>2 DEF Streaming
    <2>2. rExpected = Size
      BY <1>1, <1>2, <2>1 DEF FlowInv
    <2>3. part.synced >= Size
      BY <1>1, <1>2, <2>2 DEF SyncInv, IInv, DiskTypeOK
    <2>4. rDigest = sDigest
      BY <1>2, <2>1 DEF DigestInv, Registered
    <2> QED
      BY <1>2, <2>2, <2>3, <2>4, WholeIsStored DEF SafelyThere
  <1>3. CASE SaysAccept(m)
    <2>1. rpc = "opened" /\ rpc' = "loop" /\ rid = sid /\ rExpected >= Size
      BY <1>3 DEF SaysAccept, Tells
    <2>2. rExpected = rDurable
      BY <2>1 DEF SyncInv
    <2> QED
      BY <1>2, <2>1, <2>2, AnswersKeep
  <1>4. CASE SaysCheckpoint(m)
    <2>1. rpc = "sidecar" /\ rpc' = "drain" /\ rid = sid /\ rDurable >= Size
      BY <1>4 DEF SaysCheckpoint, Tells, PresentInv
    <2>2. rExpected = rDurable
      BY <2>1 DEF SyncInv
    <2> QED
      BY <1>2, <2>1, <2>2, AnswersKeep DEF Streaming
  <1>5. CASE SaysCommit(m)
    <2>1. rpc = "unlink" /\ rpc' = "finish" /\ rid = sid
      BY <1>5 DEF SaysCommit, Tells
    <2>2. SafelyThere
      BY <2>1 DEF FinalAckInv, SafelyThere
    <2> QED
      BY <2>1, <2>2, AnswersKeep
  <1>6. ~SaysProgress(m)
    <2>1. SaysProgress(m) => m.n = rExpected' /\ m.n < Size
      BY DEF SaysProgress
    <2>2. rExpected' \in Nat
      BY NextInv DEF IInv, ReceiverTypeOK
    <2> QED
      BY <1>1, <2>1, <2>2 DEF Tells
  <1> QED
    BY <1>3, <1>4, <1>5, <1>6 DEF Said, Tells

(* SendFile is told of the whole file only when it is safe. *)
LEMMA AnswerStep ==
    ASSUME IInv, FlowInv, SyncInv, ContentInv, PresentInv, DigestInv, FinalAckInv, [Next]_vars,
           sid' = sid, ~Told, Told'
    PROVE  SafelyThere /\ UNCHANGED senderVars /\ UNCHANGED <<part, dest, committed>>
  <1>1. (Told <=> ToldTo) /\ (Told' <=> ToldTo')
    BY DEF Told, ToldTo, Tells, Range
  <1>2. /\ toSender \in Seq(ToSender) /\ sid \in Nat /\ Size \in Nat
        /\ sAcked \in Nat /\ sAccept \in Nat \cup {Empty}
    BY ProtocolAssumption DEF IInv, NetTypeOK, SenderTypeOK
  <1>3. toSender # <<>> => Head(toSender) \in Range(toSender) /\ Head(toSender).n \in Nat
    BY <1>2, RangeTail, ToSenderHead DEF IInv
  <1>4. spc # "idle" /\ spc' # "idle"
    BY <1>1, <1>2, CallsMove DEF CallMoves, ToldTo, SendEnd, Accepted
  <1>5. ASSUME NEW m \in Range(toSender'), Tells(m)
        PROVE  m \notin Range(toSender)
    BY <1>1, <1>4, <1>5 DEF ToldTo
  <1>6. ASSUME spc' = "waitAccept", sAccept' >= Size
        PROVE  FALSE
    <2>1. spc = "waitAccept"
      BY <1>2, <1>4, <1>6, CallsMove DEF CallMoves, Accepted
    <2>2. CASE UNCHANGED sAccept
      BY <1>1, <1>6, <2>1, <2>2 DEF ToldTo
    <2>3. CASE toSender # <<>> /\ IsAnswer(Head(toSender)) /\ Sending(Head(toSender).id)
               /\ sAccept' = Head(toSender).n
      BY <1>1, <1>3, <1>4, <1>6, <2>3 DEF ToldTo, Tells, IsAnswer, Sending
    <2>4. ~Accepted
      BY <1>6 DEF Accepted
    <2> QED
      BY <1>4, <2>2, <2>3, <2>4, AcceptStep
  <1>7. ASSUME spc' \notin {"idle", "waitAccept"}, sAcked' >= Size
        PROVE  FALSE
    <2>1. CASE Accepted
      <3>1. spc = "waitAccept" /\ sAccept \in Nat /\ sAcked' = ResumeOffset(sAccept)
        BY <1>2, <2>1 DEF Accepted
      <3>2. sAccept >= Size
        BY <1>2, <1>7, <3>1 DEF ResumeOffset
      <3> QED
        BY <1>1, <3>1, <3>2 DEF ToldTo
    <2>2. CASE UNCHANGED sAcked /\ ~Accepted
      <3>1. spc # "waitAccept"
        BY <1>2, <1>4, <1>7, <2>2, CallsMove DEF CallMoves
      <3> QED
        BY <1>1, <1>4, <1>7, <2>2, <3>1 DEF ToldTo
    <2>3. CASE /\ toSender # <<>> /\ UNCHANGED spc
               /\ Head(toSender).type = "file_ack" /\ Sending(Head(toSender).id)
               /\ sAcked' = LargerOf(sAcked, Head(toSender).n)
      <3>1. sAcked >= Size \/ Head(toSender).n >= Size
        BY <1>2, <1>3, <1>7, <2>3 DEF LargerOf
      <3> QED
        BY <1>1, <1>3, <1>4, <1>7, <2>3, <3>1 DEF ToldTo, Tells, Sending
    <2> QED
      BY <1>4, <2>1, <2>2, <2>3, AckedStep
  <1>8. PICK m \in Range(toSender') : Tells(m)
    <2>1. PICK m \in Range(toSender') : Tells(m)'
      BY <1>1, <1>6, <1>7 DEF ToldTo
    <2>2. Tells(m)
      BY <2>1 DEF Tells
    <2> QED
      BY <2>2
  <1>9. Said(m)
    BY <1>5, <1>8, NewMessages DEF NothingElseSaid
  <1> QED
    BY <1>8, <1>9, SaidTruly

-----------------------------------------------------------------------------
(* The steps of FileDelivery *)

(* A call returns; nothing else happens in that step that FileDelivery sees. *)
Returns(r) ==
    /\ spc # "idle" /\ spc' = "idle"
    /\ sOutcome' = [sOutcome EXCEPT ![sid] = r]
    /\ r = "completed" => spc = "final" /\ sAcked >= Size
    /\ r = "cancelled" => sCancel
    /\ UNCHANGED <<sid, sDigest, part, dest, committed>>

(* A call is made, returns, or goes on unseen. *)
LEMMA ReturnStep ==
    ASSUME [Next]_vars
    PROVE  \/ SendFile
           \/ UNCHANGED <<sid, sDigest, sOutcome>>
           \/ \E r \in {"completed", "failed", "cancelled"} : Returns(r)
  <1>1. ASSUME NEW r \in {"completed", "failed", "cancelled"}, SenderReturn(r), spc # "idle",
               r = "completed" => spc = "final" /\ sAcked >= Size,
               r = "cancelled" => sCancel,
               UNCHANGED receiverSide
        PROVE  Returns(r)
    BY <1>1 DEF SenderReturn, Returns, receiverSide, diskVars
  <1>2. Completed \/ Cancelled \/ SenderTimeout \/ CtxDone \/ SendRefused \/ PeerCancel
           => \E r \in {"completed", "failed", "cancelled"} : Returns(r)
    BY <1>1
       DEF Completed, Cancelled, Waiting, SenderTimeout, TimedWait, CtxDone, SendRefused,
           PeerCancel
  <1>3. SendChunk \/ SendEnd \/ WaitForBuffer
           => \/ UNCHANGED <<sid, sDigest, sOutcome>>
              \/ \E r \in {"completed", "failed", "cancelled"} : Returns(r)
    BY <1>1 DEF SendChunk, SendEnd, WaitForBuffer
  <1>4. Accepted \/ Block \/ Wake \/ SenderHandlers \/ SourceChange \/ UNCHANGED senderVars
           => UNCHANGED <<sid, sDigest, sOutcome>>
    BY DEF Accepted, Block, Wake, SenderHandlers, HandleAccept, HandleAck,
           HandleCancelOfSender, SourceChange, senderVars
  <1> QED
    BY <1>2, <1>3, <1>4, SenderFrame DEF SenderSteps

(* A call that begins has not been told anything. *)
LEMMA NothingToldYet ==
    ASSUME IInv, CallInv, FreshInv, SendFile
    PROVE  ~Told'
  <1>1. /\ spc = "idle" /\ spc' = "waitAccept" /\ sid' = sid + 1 /\ sid' \in TransferIDs
        /\ UNCHANGED <<toSender, sAccept>>
    BY ProtocolAssumption DEF SendFile, IInv, SenderTypeOK
  <1>2. Untouched(sid')
    BY <1>1 DEF FreshInv, Fresh, IInv, SenderTypeOK
  <1>3. \A k \in DOMAIN toSender : toSender[k] \in Range(toSender)
    BY DEF Range
  <1>4. \A k \in DOMAIN toSender' :
           ~(/\ toSender'[k].type \in {"file_accept", "resume_state", "file_ack"}
             /\ toSender'[k].id = sid' /\ toSender'[k].n >= Size)
    BY <1>1, <1>2, <1>3 DEF Untouched
  <1>5. ~(sAccept' >= Size)
    BY <1>1, ProtocolAssumption DEF CallInv, Empty
  <1> QED
    BY <1>1, <1>4, <1>5 DEF Told

-----------------------------------------------------------------------------
(* The refinement *)

(* All that was proved of the transfer, as far as the steps need it. *)
TransferInv ==
    /\ IInv /\ AgreementInv /\ AccountInv /\ DurableInv
    /\ SourceInv /\ ContentInv /\ DestInv /\ PresentInv

(* Nothing is offered, stored or delivered at the beginning. *)
LEMMA DeliveryInit == Init => Delivery!Init
  <1> SUFFICES ASSUME Init
               PROVE  Delivery!Init
    OBVIOUS
  <1>1. AnyVersion \in Versions
    BY ProtocolAssumption DEF AnyVersion
  <1>2. sDigest = AnyVersion /\ sid = 0 /\ dest = NoDest /\ committed = {} /\ ~Told
    BY DEF Init, Told
  <1>3. Stored = {}
    BY DEF Init, Stored, NoFile
  <1>4. sOutcome = [id \in 1 .. MaxTransfers |-> "none"]
    BY DEF Init
  <1> QED
    BY <1>1, <1>2, <1>3, <1>4 DEF Delivery!Init, Delivery!Calls, NoDest

(* SendFile is called. *)
LEMMA OfferIsMade ==
    ASSUME TransferInv, SendFile
    PROVE  Delivery!MakeOffer
  <1>1. /\ sid' = sid + 1 /\ sid' \in 1 .. MaxTransfers /\ sDigest' \in Versions
        /\ UNCHANGED <<sOutcome, dest, committed, part>>
    BY ProtocolAssumption
       DEF SendFile, TransferInv, IInv, SenderTypeOK, receiverSide, diskVars
  <1>2. UNCHANGED Stored
    BY <1>1 DEF Stored
  <1>3. ~Told'
    BY NothingToldYet DEF TransferInv, AgreementInv, DurableInv
  <1>4. Told' = FALSE
    BY <1>3 DEF Told
  <1> QED
    BY <1>1, <1>2, <1>4 DEF Delivery!MakeOffer, Delivery!Calls

(* SendFile returns. *)
LEMMA ReturnIsReport ==
    ASSUME TransferInv, NEW r \in {"completed", "failed", "cancelled"}, Returns(r)
    PROVE  sid \in Delivery!Calls /\ Delivery!Report(r)
  <1>1. /\ sid \in 1 .. MaxTransfers /\ sOutcome[sid] = "none"
        /\ UNCHANGED <<sid, sDigest, dest, committed>>
        /\ sOutcome' = [sOutcome EXCEPT ![sid] = r]
    BY DEF Returns, TransferInv, IInv, SenderTypeOK, AgreementInv, CallInv
  <1>2. UNCHANGED Stored
    BY DEF Returns, Stored
  <1>3. Told' = FALSE
    BY DEF Returns, Told
  <1>4. r = "completed" => Told
    BY DEF Returns, Told
  <1>5. r = "cancelled" => sid \notin committed
    BY <1>1 DEF Returns, TransferInv, AccountInv, RefusalInv, Refused, Sending
  <1> QED
    BY <1>1, <1>2, <1>3, <1>4, <1>5 DEF Delivery!Report, Delivery!Calls

(* The part file gets the name. *)
LEMMA RenameIsCommit ==
    ASSUME TransferInv, [Next]_vars, Rename, part.present
    PROVE  rid \in Delivery!Calls /\ rDigest \in Versions /\ Delivery!Commit(rid, rDigest)
  <1>1. /\ rpc = "rename" /\ rid \in 1 .. MaxTransfers /\ rDigest \in Versions
        /\ rid \in Nat /\ sid \in Nat
    BY DEF Rename, TransferInv, IInv, ReceiverTypeOK, SenderTypeOK
  <1>2. /\ dest' = [present |-> TRUE, id |-> rid, ver |-> rDigest, data |-> part.data]
        /\ part' = NoFile /\ committed' = committed \cup {rid}
        /\ UNCHANGED senderVars /\ UNCHANGED toSender
    BY DEF Rename, senderSide
  <1>3. rDigest \in Stored
    <2>1. rExpected = Size /\ part.synced >= Size
      BY <1>1 DEF TransferInv, DurableInv, SyncInv, Streaming
    <2> QED
      BY <1>1, <2>1, WholeIsStored DEF TransferInv, DurableInv, Streaming
  <1>4. Stored' = {}
    BY <1>2 DEF Stored, NoFile
  <1>5. UNCHANGED Told
    BY <1>2 DEF Told, senderVars
  <1>6. rid <= sid /\ (rid = sid => rDigest = sDigest)
    BY <1>1 DEF TransferInv, AccountInv, AheadInv, DurableInv, DigestInv, Registered
  <1>7. rid \notin committed /\ sOutcome[rid] # "cancelled"
    BY <1>1 DEF TransferInv, AccountInv, CommitInv, Streaming, RefusalInv, Refused, Registered
  <1>8. Overwrite \/ committed = {}
    BY <1>1 DEF TransferInv, DestInv, Streaming
  <1> QED
    BY <1>1, <1>2, <1>3, <1>4, <1>5, <1>6, <1>7, <1>8
       DEF Delivery!Commit, Delivery!Calls, senderVars

(* complete() deletes the old destination. *)
LEMMA RemovalIsRemove ==
    ASSUME TransferInv, RemoveDestination
    PROVE  Delivery!Remove \/ UNCHANGED Delivery!vars
  <1>1. /\ rpc = "remove" /\ dest' = NoDest
        /\ UNCHANGED senderVars /\ UNCHANGED <<toSender, part, committed>>
    BY DEF RemoveDestination, senderSide
  <1>2. UNCHANGED Stored /\ UNCHANGED Told
    BY <1>1 DEF Stored, Told, senderVars
  <1>3. CASE dest.present
    <2>1. Overwrite
      BY <1>1 DEF TransferInv, DestInv
    <2>2. rDigest \in Stored
      <3>1. rExpected = Size /\ part.synced >= Size
        BY <1>1 DEF TransferInv, DurableInv, SyncInv, Streaming
      <3> QED
        BY <1>1, <3>1, WholeIsStored DEF TransferInv, DurableInv, Streaming
    <2>3. AnyVersion \in Versions
      BY ProtocolAssumption DEF AnyVersion
    <2> QED
      BY <1>1, <1>2, <1>3, <2>1, <2>2, <2>3 DEF Delivery!Remove, senderVars, NoDest
  <1>4. CASE ~dest.present
    BY <1>1, <1>2, <1>4 DEF TransferInv, DestInv, Delivery!vars, senderVars
  <1> QED
    BY <1>3, <1>4

(* A file that somebody else has put under the name. *)
LEMMA SomebodysFile ==
    ASSUME NEW f \in [present : BOOLEAN, id : Nat, ver : Versions]
    PROVE  [f EXCEPT !.present = TRUE, !.id = 0]
              = [present |-> TRUE, id |-> 0, ver |-> f.ver]
  <1> DEFINE g == [f EXCEPT !.present = TRUE, !.id = 0]
  <1>1. g \in [present : BOOLEAN, id : Nat, ver : Versions]
    OBVIOUS
  <1>2. g.present = TRUE /\ g.id = 0 /\ g.ver = f.ver
    OBVIOUS
  <1> HIDE DEF g
  <1>3. g = [present |-> TRUE, id |-> 0, ver |-> f.ver]
    BY <1>1, <1>2
  <1> QED
    BY <1>3 DEF g

(* Somebody else creates the destination. *)
LEMMA UserFileIsCreate ==
    ASSUME TransferInv, UserFile
    PROVE  Delivery!Create
  <1>1. /\ ~dest.present /\ dest = NoDest /\ dest' = [NoDest EXCEPT !.present = TRUE]
        /\ UNCHANGED senderVars /\ UNCHANGED <<toSender, part, committed>>
    BY DEF UserFile, netVars, TransferInv, DestInv
  <1>2. UNCHANGED Stored /\ UNCHANGED Told
    BY <1>1 DEF Stored, Told, senderVars
  <1>3. dest'.present = TRUE /\ dest'.id = 0 /\ dest'.ver = dest.ver
    BY <1>1 DEF NoDest
  <1>4. [present |-> dest'.present, id |-> dest'.id, ver |-> dest'.ver]
           = [[present |-> dest.present, id |-> dest.id, ver |-> dest.ver]
                 EXCEPT !.present = TRUE, !.id = 0]
    <2> DEFINE file == [present |-> dest.present, id |-> dest.id, ver |-> dest.ver]
    <2>1. /\ dest.present \in BOOLEAN /\ dest.id \in Nat /\ dest.ver \in Versions
      BY DEF TransferInv, IInv, DiskTypeOK
    <2>2. file \in [present : BOOLEAN, id : Nat, ver : Versions] /\ file.ver = dest.ver
      BY <2>1
    <2> HIDE DEF file
    <2>3. [file EXCEPT !.present = TRUE, !.id = 0]
             = [present |-> TRUE, id |-> 0, ver |-> file.ver]
      BY <2>2, SomebodysFile
    <2>4. [file EXCEPT !.present = TRUE, !.id = 0]
             = [present |-> dest'.present, id |-> dest'.id, ver |-> dest'.ver]
      BY <1>3, <2>2, <2>3
    <2> QED
      BY <2>4 DEF file
  <1> QED
    BY <1>1, <1>2, <1>4 DEF Delivery!Create, senderVars

(* Whatever FileDelivery does not see may change what is stored or lose an answer. *)
LEMMA OtherStep ==
    ASSUME TransferInv, [Next]_vars,
           UNCHANGED <<sid, sDigest, sOutcome, dest, committed>>
    PROVE  Delivery!Answer \/ Delivery!Store
  <1>1. CASE ~Told /\ Told'
    <2>1. SafelyThere /\ UNCHANGED part
      BY <1>1, AnswerStep
         DEF TransferInv, AgreementInv, AccountInv, DurableInv
    <2>2. UNCHANGED Stored
      BY <2>1 DEF Stored
    <2>3. Told' = TRUE
      BY <1>1 DEF Told
    <2> QED
      BY <2>1, <2>2, <2>3 DEF Delivery!Answer, Delivery!Safe, SafelyThere
  <1>2. CASE Told \/ ~Told'
    <2>1. Told' \in {Told, FALSE}
      BY <1>2 DEF Told
    <2>2. Stored' \in SUBSET Versions
      BY DEF Stored
    <2> QED
      BY <2>1, <2>2 DEF Delivery!Store
  <1> QED
    BY <1>1, <1>2

(* Every step is one of FileDelivery, or none that it sees. *)
LEMMA DeliveryNext ==
    ASSUME TransferInv, [Next]_vars
    PROVE  [Delivery!Next]_(Delivery!vars)
  <1>1. CASE SendFile
    BY <1>1, OfferIsMade DEF Delivery!Next
  <1>2. CASE \E r \in {"completed", "failed", "cancelled"} : Returns(r)
    BY <1>2, ReturnIsReport DEF Delivery!Next
  <1>3. CASE Rename /\ part.present
    BY <1>3, RenameIsCommit DEF Delivery!Next
  <1>4. CASE RemoveDestination
    BY <1>4, RemovalIsRemove DEF Delivery!Next
  <1>5. CASE UserFile
    BY <1>5, UserFileIsCreate DEF Delivery!Next
  <1>6. CASE UNCHANGED <<sid, sDigest, sOutcome, dest, committed>>
    BY <1>6, OtherStep DEF Delivery!Next
  <1> QED
    BY <1>1, <1>2, <1>3, <1>4, <1>5, <1>6, ReturnStep, DestStep

(* The invariants hold together. *)
LEMMA TransferInvAlways ==
    ASSUME "dup" \notin Faults, "source" \notin Faults
    PROVE  Spec /\ []NoStaleCheckpoint => []TransferInv
  <1>1. Init => DestInv /\ PresentInv
    BY DEF Init, DestInv, PresentInv, Streaming
  <1>2. IInv /\ AccountInv /\ DurableInv /\ DestInv /\ [Next]_vars => DestInv'
    BY DestNext DEF AccountInv, DurableInv
  <1>3. IInv /\ DurableInv /\ ContentInv /\ NoStaleCheckpoint' /\ PresentInv /\ [Next]_vars
           => PresentInv'
    BY PresentNext DEF DurableInv
  <1> QED
    BY <1>1, <1>2, <1>3, SpecInv, AgreementAlways, AccountAlways, DurableAlways, ContentAlways, PTL
       DEF Spec, TransferInv

(***************************************************************************)
(* The transfer implements FileDelivery (property Delivers): what gets the *)
(* name was offered, is whole and durable, and replaces nothing without    *)
(* leave; SendFile returns with success only when the receiver had the     *)
(* whole file on disk, and a cancelled call has left no file.  Excluded    *)
(* are a lane that repeats a chunk, an edit of the source while it is sent *)
(* and a checkpoint stored after its transfer has left the registry.       *)
(***************************************************************************)
THEOREM TransferDelivers ==
    ASSUME "dup" \notin Faults, "source" \notin Faults
    PROVE  Spec /\ []NoStaleCheckpoint => Delivers
  <1>1. TransferInv /\ [Next]_vars => [Delivery!Next]_(Delivery!vars)
    BY DeliveryNext
  <1> QED
    BY <1>1, DeliveryInit, TransferInvAlways, PTL DEF Spec, Delivers, Delivery!Spec

(***************************************************************************)
(* With a sender that never cancels what it has offered, such as this      *)
(* SDK's, no checkpoint is stored too late: the same without a condition   *)
(* on the behaviour.                                                       *)
(***************************************************************************)
THEOREM DeliversWithoutCancels ==
    ASSUME "dup" \notin Faults, "source" \notin Faults, "cancel" \notin Faults
    PROVE  Spec => Delivers
  BY TransferDelivers, StaleNeedsCancel, PTL

(***************************************************************************)
(* The same with peers that cancel at any time, if the event queue has     *)
(* room for the chunks of a window and three events more.                  *)
(***************************************************************************)
THEOREM DeliversWithRoom ==
    ASSUME "dup" \notin Faults, "source" \notin Faults,
           Window <= (QueueSize - 3) * ChunkSize
    PROVE  Spec => Delivers
  BY TransferDelivers, CancelsFindRoom, PTL

(***************************************************************************)
(* With Overwrite, complete() removes the old destination only when the    *)
(* part file is there, is the whole offered file and is synced to the last *)
(* byte: no earlier transfer deletes it meanwhile.  That rests on every    *)
(* digest being right.  A file edited while it is sent ends in             *)
(* receiveIntegrityFailed, which deletes under the name of the part file   *)
(* when a retry may already write there; this is why "source" is excluded. *)
(***************************************************************************)
THEOREM RemovalIsSafe ==
    ASSUME "dup" \notin Faults, "source" \notin Faults,
           "cancel" \notin Faults \/ Window <= (QueueSize - 3) * ChunkSize
    PROVE  Spec => RemovedOnlyWhenVerified
  <1>1. TransferInv /\ [Next]_vars
           => [dest.present /\ ~dest'.present
               => part.present /\ part.data = FileOf(rDigest) /\ part.synced = Size]_vars
    <2> SUFFICES ASSUME TransferInv, [Next]_vars, dest.present, ~dest'.present
                 PROVE  part.present /\ part.data = FileOf(rDigest) /\ part.synced = Size
      OBVIOUS
    <2>1. rpc = "remove" /\ part.data = FileOf(rDigest) /\ part.synced = Size
      BY Removal DEF TransferInv
    <2>2. part.present
      BY <2>1 DEF TransferInv, PresentInv, Streaming
    <2> QED
      BY <2>1, <2>2
  <1>2. Spec => []NoStaleCheckpoint
    BY StaleNeedsCancel, CancelsFindRoom
  <1> QED
    BY <1>1, <1>2, TransferInvAlways, PTL DEF Spec, RemovedOnlyWhenVerified
=============================================================================
