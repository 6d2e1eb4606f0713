------------------------------ MODULE Transfer ------------------------------
(***************************************************************************)
(* The file transfer as a whole: a sending and a receiving TransferManager *)
(* joined by a channel, in an environment that may close the channel, lose *)
(* a lane, stop the receiver's process or machine, fail a file operation,  *)
(* change the source file or touch the destination.                        *)
(***************************************************************************)
EXTENDS Sender, Receiver

noReceiver ==
    /\ rpc' = "none"
    /\ rid' = 0 /\ rDigest' = AnyVersion
    /\ rEvents' = <<>> /\ rPending' = {}
    /\ rExpected' = 0 /\ rIndex' = 0 /\ rHash' = <<>>
    /\ rDurable' = 0 /\ rProgress' = 0 /\ rEnd' = FALSE
    /\ starting' = {} /\ rLeaving' = {}

(* The channel closes; what is in flight is lost. *)
Disconnect ==
    /\ open' = FALSE
    /\ toReceiver' = <<>> /\ toSender' = <<>> /\ lanes' = {}
    /\ cancelReceiver' = {} /\ cancelSender' = {}

Close ==
    /\ Fault("close") /\ open
    /\ Disconnect
    /\ UNCHANGED <<senderVars, starting, rpc, loopVars, rLeaving, rOutcome, diskVars>>

(* The receiving process dies.  What it wrote is still in the page cache. *)
Crash ==
    /\ Fault("crash")
    /\ Disconnect /\ noReceiver
    /\ UNCHANGED <<senderVars, rOutcome, diskVars>>

(***************************************************************************)
(* The receiving machine dies.  Data that was not synced may be lost from  *)
(* the end of the part file; the sidecar, which is never synced, may come  *)
(* back unreadable.  Creation, truncation and renaming are journalled.     *)
(***************************************************************************)
PowerLoss ==
    /\ Fault("power")
    /\ Disconnect /\ noReceiver
    /\ \E k \in SmallerOf(part.synced, Len(part.data)) .. Len(part.data) :
          part' = [part EXCEPT !.data = SubSeq(@, 1, k), !.synced = k]
    /\ meta' = meta \/ meta' = NoMeta
    /\ UNCHANGED <<senderVars, rOutcome, dest, committed>>

(* Both peers get a new channel and a new TransferManager each. *)
Reconnect ==
    /\ ~open /\ sid < MaxTransfers
    /\ spc = "idle" /\ rpc = "none" /\ starting = {} /\ rLeaving = {}
    /\ open' = TRUE
    /\ UNCHANGED <<toReceiver, toSender, lanes, cancelReceiver, cancelSender, senderVars,
                   starting, rpc, loopVars, rLeaving, rOutcome, diskVars, faults>>

(* A parallel lane dies with a chunk that Send had accepted. *)
LaneLost ==
    /\ Fault("lane")
    /\ \E c \in lanes : lanes' = lanes \ {c}
    /\ UNCHANGED <<open, toReceiver, toSender, cancelReceiver, cancelSender, senderVars,
                   starting, rpc, loopVars, rLeaving, rOutcome, diskVars>>

(* Somebody edits the source file: at any time, or between two transfers. *)
SourceChange ==
    /\ Fault("source") \/ (spc = "idle" /\ Fault("edit"))
    /\ source' \in [ver : Versions, len : SourceLens]
    /\ source' # source
    /\ UNCHANGED <<spc, sid, sDigest, sStart, sOffset, sAcked, sReceived, sSignal, sAccept,
                   sCancel, sOutcome, netVars, receiverSide>>

(* Somebody else creates the destination file. *)
UserFile ==
    /\ Fault("user") /\ ~dest.present
    /\ dest' = [NoDest EXCEPT !.present = TRUE]
    /\ UNCHANGED <<netVars, senderVars, starting, rpc, loopVars, rLeaving, rOutcome,
                   part, meta, committed>>

(* A sender other than this SDK's aborts a transfer it has offered. *)
PeerCancel ==
    /\ Fault("cancel") /\ open /\ spc # "idle"
    /\ IF PriorityChannel
       THEN cancelReceiver' = cancelReceiver \cup {sid} /\ UNCHANGED toReceiver
       ELSE /\ toReceiver' = Append(toReceiver,
                    [type |-> "file_cancel", id |-> sid, ver |-> sDigest])
            /\ UNCHANGED cancelReceiver
    /\ SenderReturn("failed")
    /\ UNCHANGED <<open, toSender, lanes, cancelSender, receiverSide>>

-----------------------------------------------------------------------------
SenderSteps ==
    \/ Accepted \/ SendChunk \/ SendEnd \/ Block \/ Wake \/ WaitForBuffer
    \/ Completed \/ Cancelled \/ SenderTimeout

SenderHandlers == HandleAccept \/ HandleAck \/ HandleCancelOfSender

ReceiverSteps ==
    \/ \E o \in starting : StartReceive(o)
    \/ StartLoop
    \/ TakeChunk \/ TakeEnd \/ TakeCancel \/ EndDeadline \/ LoopClosed
    \/ \E late \in BOOLEAN : WriteChunk(late) \/ Sidecar(late)
    \/ Sync \/ Drained
    \/ Complete \/ RemoveDestination \/ Rename \/ Unlink \/ FinishReceiver
    \/ \E l \in rLeaving : Leave(l)

Refusals == \E o \in starting : StartRefused(o)

ReceiverHandlers ==
    HandleFileStart \/ HandleFileEnd \/ HandleChunk \/ HandleCancelOfReceiver

Environment ==
    \/ CtxDone \/ SendRefused \/ DiskError
    \/ Close \/ Crash \/ PowerLoss \/ Reconnect \/ LaneLost
    \/ SourceChange \/ UserFile \/ PeerCancel

(* No call is running and the caller makes no further one. *)
Quiescent ==
    /\ spc = "idle"
    /\ rpc \in {"none", "loop"} /\ rEvents = <<>> /\ starting = {} /\ rLeaving = {}
    /\ toReceiver = <<>> /\ toSender = <<>> /\ lanes = {}
    /\ cancelReceiver = {} /\ cancelSender = {}
    /\ sid = MaxTransfers \/ source.len # Size
    /\ UNCHANGED vars

Next ==
    \/ SendFile
    \/ SenderSteps \/ SenderHandlers
    \/ ReceiverSteps \/ Refusals \/ ReceiverHandlers
    \/ Environment
    \/ Quiescent

Spec == Init /\ [][Next]_vars

(***************************************************************************)
(* Goroutines run, timers that are armed expire and delivered messages are *)
(* handled; callers and the environment promise nothing.                   *)
(***************************************************************************)
Fairness ==
    /\ WF_vars(SenderSteps)
    /\ WF_vars(SenderHandlers)
    /\ WF_vars(ReceiverSteps)
    /\ WF_vars(Refusals)
    /\ WF_vars(HandleFileStart \/ HandleFileEnd)
    /\ WF_vars(HandleChunk)
    /\ WF_vars(HandleCancelOfReceiver)

FairSpec == Spec /\ Fairness

(***************************************************************************)
(* Only the goroutines of SendFile and receiveLoop, with their timers, are *)
(* sure to go on: either peer, and the network between them, may fall      *)
(* silent for the other at any time, with the channel open.                *)
(***************************************************************************)
SilentSpec == Spec /\ WF_vars(SenderSteps) /\ WF_vars(ReceiverSteps)

-----------------------------------------------------------------------------
(* Safety *)

(* Bytes of the current transfer that are sent and not yet written. *)
InFlight ==
    {c \in lanes : c.id = sid}
        \cup {rEvents[k] : k \in {i \in DOMAIN rEvents : rEvents[i].type = "chunk"}}
        \cup rPending

(***************************************************************************)
(* receiveLoop hashes the bytes as they arrive and commits what is on      *)
(* disk: whatever was resumed, reordered, retried or changed at the        *)
(* source, a destination put there by a transfer holds exactly the file    *)
(* whose digest was offered.                                               *)
(***************************************************************************)
CommitIntegrity == dest.id # 0 => dest.data = FileOf(dest.ver)

(***************************************************************************)
(* SendFile reports success only after the receiver has renamed the part   *)
(* file, unless it resumed at the very end of the file.  This relates the  *)
(* order of checkpoint, rename and file_ack(size) in receiveLoop to the    *)
(* final loop of SendFile.                                                 *)
(***************************************************************************)
CompletedImpliesCommitted ==
    sid \in CommitAck /\ sStart < Size =>
        (sOutcome[sid] = "completed" => sid \in committed)

(***************************************************************************)
(* file_ack is the durable acknowledgement: whatever it acknowledges,      *)
(* in flight or already recorded by the sender, is synced to disk or       *)
(* committed, although progress is reported ahead of it.  (To a sender     *)
(* that does not know file_progress, progress is reported as file_ack.)    *)
(***************************************************************************)
AckedIsDurable ==
    /\ \A k \in DOMAIN toSender :
          /\ toSender[k].type = "file_ack"
          /\ Registered(toSender[k].id) /\ toSender[k].id \in ProgressAck
          => toSender[k].id \in committed \/ toSender[k].n <= part.synced
    /\ Sending(rid) /\ rpc # "none" /\ rid \in ProgressAck
          => rid \in committed \/ sAcked <= part.synced

(***************************************************************************)
(* What matchingPartial lets a retry keep is a prefix of the offered file  *)
(* that has been synced, after any crash or power loss and with other      *)
(* versions of the file received in between.                               *)
(***************************************************************************)
ResumePointSound ==
    \A v \in Versions :
        LET n == MatchingPartial(v)
        IN  n > 0 => /\ SubSeq(part.data, 1, n) = Content(v, 0, n)
                     /\ part.synced >= n

(***************************************************************************)
(* A file_cancel from the receiver means that its transfer has not reached *)
(* the destination: once receiveLoop has renamed the file no failure of    *)
(* its own, of a handler or of the channel makes it take back the commit.  *)
(***************************************************************************)
CancelledNotCommitted ==
    \A id \in committed :
        /\ id \notin cancelSender
        /\ sOutcome[id] # "cancelled"
        /\ \A k \in DOMAIN toSender :
              ~(toSender[k].type = "file_cancel" /\ toSender[k].id = id)

(***************************************************************************)
(* SendFile's window counts from what the receiver has written, so chunks  *)
(* waiting in lanes, in the event queue and in the reorder buffer together *)
(* stay below one window and one chunk.                                    *)
(***************************************************************************)
MemoryBounded == PendingBytes(InFlight) < Window + ChunkSize

(***************************************************************************)
(* SendFile looks at its counters under sendState.mu and waits on the acks *)
(* channel afterwards.  The token left by handleControl bridges the gap: a *)
(* goroutine that sleeps without a token has nothing to wake up for.       *)
(***************************************************************************)
NoLostWakeup ==
    ~sSignal =>
        /\ spc = "waitAck" => IF sOffset < Size THEN WindowFull ELSE ~MayEnd
        /\ spc = "waitFinal" => sAcked < Size

(***************************************************************************)
(* The handler that fails a transfer because its queue is full closes the  *)
(* file under the running loop.  It can only do so while chunks are        *)
(* streamed, never while complete() verifies and renames.                  *)
(***************************************************************************)
CommitUndisturbed ==
    QueueFull => rpc \in {"none", "loop", "drain", "sync", "sidecar"}

(***************************************************************************)
(* With Overwrite, complete() deletes the old destination only when its    *)
(* replacement is there under the name of the part file: whole, verified   *)
(* and synced.  (Not so while an earlier transfer whose digest was wrong   *)
(* has its deletions before it: see Leave.)                                *)
(***************************************************************************)
RemovedOnlyWhenVerified ==
    [][dest.present /\ ~dest'.present
       => part.present /\ part.data = FileOf(rDigest) /\ part.synced = Size]_vars

-----------------------------------------------------------------------------
(* Refinement *)

(* The versions of which the part file is a whole, synced copy. *)
Stored ==
    {v \in Versions :
        part.present /\ part.data = FileOf(v) /\ part.synced >= Size}

(***************************************************************************)
(* The whole file has been acknowledged to the running call: on its way,   *)
(* in the answer it waits for, or in its counter.                          *)
(***************************************************************************)
Told ==
    \/ spc = "waitAccept" /\ sAccept >= Size
    \/ spc \notin {"idle", "waitAccept"} /\ sAcked >= Size
    \/ /\ spc # "idle"
       /\ \E k \in DOMAIN toSender :
             /\ toSender[k].type \in {"file_accept", "resume_state", "file_ack"}
             /\ toSender[k].id = sid /\ toSender[k].n >= Size

Delivery == INSTANCE FileDelivery WITH
    offer     <- [id |-> sid, ver |-> sDigest],
    stored    <- Stored,
    told      <- Told,
    file      <- [present |-> dest.present, id |-> dest.id, ver |-> dest.ver],
    committed <- committed,
    outcome   <- sOutcome

(***************************************************************************)
(* Chunks, acknowledgements, checkpoints, retries and crashes implement    *)
(* the promise of FileDelivery: what gets the name was offered, whole and  *)
(* durable; it replaces nothing without leave; and SendFile returns with   *)
(* success only when the receiver had the whole file on disk, also when it *)
(* resumed at the very end.                                                *)
(***************************************************************************)
Delivers == Delivery!Spec

-----------------------------------------------------------------------------
(* Liveness *)

(***************************************************************************)
(* A call of SendFile returns, whatever becomes of the receiver, of what   *)
(* it answers and of the network: no combination of its waits goes on for  *)
(* ever, except that waitForBuffer, which has no deadline, may never find  *)
(* room on a channel that stays open and delivers nothing more.            *)
(***************************************************************************)
SenderReturns ==
    <>[](spc = "waitBuffer") \/ (spc # "idle" ~> spc = "idle")

(***************************************************************************)
(* Once file_end has arrived, receiveLoop ends: the file is complete, or   *)
(* the completion timer gives up on the missing chunks, also when nothing  *)
(* arrives any more.                                                       *)
(***************************************************************************)
MissingChunkTimesOut == rpc # "none" /\ rEnd ~> rpc = "none"

(***************************************************************************)
(* Without faults and without a single timeout the window, the progress    *)
(* reports and the queues let every offered file through: nobody waits for *)
(* somebody who waits.  Only a second offer for the same destination may   *)
(* be turned down, as receiveLoop acknowledges the first before it lets go *)
(* of the destination.                                                     *)
(***************************************************************************)
Delivered ==
    [](faults = 0) =>
    \A id \in TransferIDs :
        sid = id ~> \/ id \in committed /\ sOutcome[id] = "completed"
                    \/ id > 1 /\ rOutcome[id] = "refused" /\ sOutcome[id] = "cancelled"

-----------------------------------------------------------------------------
(* What the documentation and the comments say, where the code differs *)

(***************************************************************************)
(* docs/protocol-v1.md: file_ack(size) "confirms the verified destination  *)
(* commit", and SendFile waits for it before it reports completion.        *)
(***************************************************************************)
CompletedMeansCommitted ==
    \A id \in TransferIDs : sOutcome[id] = "completed" => id \in committed

(***************************************************************************)
(* docs/protocol-v1.md: "A missing chunk must fail the transfer after a    *)
(* bounded completion timeout".                                            *)
(***************************************************************************)
ReceiverReturns == rpc # "none" ~> rpc = "none"
=============================================================================
