------------------------------ MODULE Receiver ------------------------------
(***************************************************************************)
(* TransferManager.startReceive and receiveLoop, the handlers that feed    *)
(* them, and the three files a transfer leaves on the receiver's disk.     *)
(*                                                                         *)
(* The registry (TransferManager.receivers) holds at most one transfer per *)
(* destination, so it is the transfer rid while rpc # "none".  A goroutine *)
(* that has been deregistered and still has work to do is in rLeaving.     *)
(***************************************************************************)
EXTENDS TransferState

senderSide == <<senderVars, toReceiver, lanes, cancelReceiver, open>>

Registered(id) == rpc # "none" /\ rid = id

(***************************************************************************)
(* finishReceiver and the event reported with it.                          *)
(***************************************************************************)
Finish(outcome) ==
    /\ rpc' = "none"
    /\ rid' = 0 /\ rDigest' = AnyVersion
    /\ rEvents' = <<>> /\ rPending' = {}
    /\ rExpected' = 0 /\ rIndex' = 0 /\ rHash' = <<>>
    /\ rDurable' = 0 /\ rProgress' = 0 /\ rEnd' = FALSE
    /\ rOutcome' = [rOutcome EXCEPT ![rid] = outcome]

(* receiveFailed for the registered transfer. *)
ReceiveFailed ==
    /\ SendCancelToSender(rid)
    /\ Finish("failed")

-----------------------------------------------------------------------------
(* startReceive *)

(* Mutant: the sidecar's digest is not compared. *)
AnyPartial(ver) ==
    IF /\ meta.present
       /\ part.present /\ Len(part.data) = meta.n
       /\ meta.n <= Size /\ meta.n % ChunkSize = 0
    THEN meta.n
    ELSE 0

(* The offset at which the partial file on disk can be continued. *)
MatchingPartial(ver) ==
    IF /\ meta.present /\ meta.ver = ver
       /\ part.present /\ Len(part.data) = meta.n
       /\ meta.n <= Size /\ meta.n % ChunkSize = 0
    THEN meta.n
    ELSE 0

ResumePoint(o) == IF o.id \in Resume THEN MatchingPartial(o.ver) ELSE 0

(* startReceive holds receiveStartMu until it has answered. *)
StartMutexFree == rpc # "opened"

DestinationFree == Overwrite \/ ~dest.present

(***************************************************************************)
(* An offer that is turned down: by the application or its limits, because *)
(* of a file error, because the destination is in use or exists already.   *)
(***************************************************************************)
StartRefused(o) ==
    /\ o \in starting /\ StartMutexFree
    /\ \/ /\ Fault("reject")
          /\ rOutcome' = [rOutcome EXCEPT ![o.id] = "rejected"]
       \/ /\ \/ Fault("io")
             \/ rpc # "none" /\ UNCHANGED faults
             \/ ~DestinationFree /\ UNCHANGED faults
          /\ rOutcome' = [rOutcome EXCEPT ![o.id] = "refused"]
    /\ starting' = starting \ {o}
    /\ SendCancelToSender(o.id)
    /\ UNCHANGED <<senderSide, rpc, loopVars, rLeaving, diskVars>>

(* Open the partial file, emptied unless it is continued, and register. *)
StartReceive(o) ==
    /\ o \in starting /\ rpc = "none"
    /\ DestinationFree
    /\ LET n == ResumePoint(o) IN
       /\ part' = IF n = 0 THEN [present |-> TRUE, data |-> <<>>, synced |-> 0]
                           ELSE part
       /\ rExpected' = n /\ rDurable' = n /\ rProgress' = n
       /\ rIndex' = n \div ChunkSize
    /\ rpc' = "opened"
    /\ rid' = o.id /\ rDigest' = o.ver
    /\ starting' = starting \ {o}
    /\ UNCHANGED <<senderSide, toSender, cancelSender, rEvents, rPending, rHash, rEnd,
                   rLeaving, rOutcome, meta, dest, committed, faults>>

(***************************************************************************)
(* Record the checkpoint, start the loop (which first hashes the bytes     *)
(* that are kept) and answer the offer.                                    *)
(***************************************************************************)
StartLoop ==
    /\ rpc = "opened"
    /\ meta' = [present |-> TRUE, ver |-> rDigest, n |-> rExpected]
    /\ rHash' = SubSeq(part.data, 1, rExpected)
    /\ rpc' = "loop"
    /\ toSender' = AfterSend(toSender,
            [type |-> IF rExpected > 0 THEN "resume_state" ELSE "file_accept",
             id |-> rid, n |-> rExpected])
    /\ UNCHANGED <<senderSide, cancelSender, starting, rid, rDigest, rEvents, rPending,
                   rExpected, rIndex, rDurable, rProgress, rEnd, rLeaving, rOutcome,
                   part, dest, committed, faults>>

-----------------------------------------------------------------------------
(* receiveLoop: taking an event *)

Take(type) ==
    /\ rpc = "loop" /\ rEvents # <<>>
    /\ Head(rEvents).type = type

ValidChunk(c) ==
    /\ c.id = rid /\ c.index < TotalChunks
    /\ c.offset = ChunkOffset(c.index)
    /\ c.length = ChunkLength(c.index)

TakeChunk ==
    /\ Take("chunk")
    /\ LET c == Head(rEvents) IN
       \/ (* a bad header, a duplicate, or too much to reorder *)
          /\ \/ ~ValidChunk(c)
             \/ /\ c.index >= rIndex
                /\ \/ \E p \in rPending : p.index = c.index
                   \/ PendingBytes(rPending \cup {c}) > MaxReorder
          /\ ReceiveFailed
       \/ (* already written *)
          /\ ValidChunk(c) /\ c.index < rIndex
          /\ rEvents' = Tail(rEvents)
          /\ UNCHANGED <<toSender, cancelSender, rpc, rid, rDigest, rPending, rExpected,
                         rIndex, rHash, rDurable, rProgress, rEnd, rOutcome>>
       \/ /\ ValidChunk(c) /\ c.index >= rIndex
          /\ \A p \in rPending : p.index # c.index
          /\ PendingBytes(rPending \cup {c}) <= MaxReorder
          /\ rPending' = rPending \cup {c}
          /\ rEvents' = Tail(rEvents)
          /\ rpc' = "drain"
          /\ UNCHANGED <<toSender, cancelSender, rid, rDigest, rExpected, rIndex, rHash,
                         rDurable, rProgress, rEnd, rOutcome>>
    /\ UNCHANGED <<senderSide, starting, rLeaving, diskVars, faults>>

(* Mutant: file_end is taken for the end of the data. *)
CompleteAtEnd(ended) ==
    IF ended /\ rPending = {} THEN "complete" ELSE "loop"

(* Where complete(end) sends the loop. *)
AfterComplete(ended) ==
    IF ended /\ rExpected = Size /\ rPending = {} THEN "complete" ELSE "loop"

TakeEnd ==
    /\ Take("end")
    /\ rEnd' = TRUE
    /\ rEvents' = Tail(rEvents)
    /\ rpc' = AfterComplete(TRUE)
    /\ UNCHANGED <<senderSide, toSender, cancelSender, starting, rid, rDigest, rPending,
                   rExpected, rIndex, rHash, rDurable, rProgress, rLeaving, rOutcome,
                   diskVars, faults>>

TakeCancel ==
    /\ Take("cancel")
    /\ Finish("cancelled")
    /\ UNCHANGED <<senderSide, toSender, cancelSender, starting, rLeaving, diskVars,
                   faults>>

(* Mutant: the timer is armed only if chunks wait to be reordered. *)
ArmedIfPending == rEnd /\ rPending # {}

EndTimerArmed == rEnd

(* The completion timer, armed by file_end, or a closed channel. *)
EndDeadline ==
    /\ Timers /\ rpc = "loop" /\ EndTimerArmed
    /\ ReceiveFailed
    /\ UNCHANGED <<senderSide, starting, rLeaving, diskVars, faults>>

LoopClosed ==
    /\ rpc = "loop" /\ ~open
    /\ Finish("failed")
    /\ UNCHANGED <<senderSide, toSender, cancelSender, starting, rLeaving, diskVars,
                   faults>>

-----------------------------------------------------------------------------
(* receiveLoop: writing what has become contiguous *)

NextPending == {c \in rPending : c.index = rIndex}

(* Write bytes at position from, over what may be there. *)
WriteAt(data, from, bytes) ==
    [k \in 1 .. LargerOf(Len(data), from + Len(bytes)) |->
        IF k > from /\ k <= from + Len(bytes) THEN bytes[k - from] ELSE data[k]]

(* Mutant: progress is always reported as a durable acknowledgement. *)
ProgressAsAck == "file_ack"

ProgressType == IF rid \in ProgressAck THEN "file_progress" ELSE "file_ack"

(***************************************************************************)
(* The flow-control acknowledgement: due after ProgressInterval bytes, or  *)
(* when 100 ms have gone by since the last one (late).                     *)
(***************************************************************************)
Progress(queue, expected, late) ==
    IF expected < Size /\ (late \/ expected - rProgress >= ProgressInterval)
    THEN /\ toSender' = AfterSend(queue,
                [type |-> ProgressType, id |-> rid, n |-> expected])
         /\ rProgress' = expected
    ELSE /\ toSender' = queue
         /\ UNCHANGED rProgress

CheckpointDue(expected) ==
    expected - rDurable >= DurableInterval \/ expected = Size

WriteChunk(late) ==
    /\ rpc = "drain"
    /\ \E c \in NextPending :
       /\ c.offset = rExpected
       /\ rPending' = rPending \ {c}
       /\ part' = [part EXCEPT !.data = WriteAt(@, rExpected, ChunkData(c))]
       /\ rHash' = rHash \o ChunkData(c)
       /\ rExpected' = rExpected + c.length
       /\ IF CheckpointDue(rExpected + c.length)
          THEN rpc' = "sync" /\ UNCHANGED <<toSender, rProgress>>
          ELSE rpc' = "drain" /\ Progress(toSender, rExpected + c.length, late)
    /\ rIndex' = rIndex + 1
    /\ UNCHANGED <<senderSide, cancelSender, starting, rid, rDigest, rEvents, rDurable,
                   rEnd, rLeaving, rOutcome, meta, dest, committed, faults>>

(* Mutant: the checkpoint does not sync the file. *)
UnsyncedCheckpoint ==
    /\ rpc = "sync"
    /\ rDurable' = rExpected
    /\ rpc' = "sidecar"
    /\ UNCHANGED <<senderSide, toSender, cancelSender, starting, rid, rDigest, rEvents,
                   rPending, rExpected, rIndex, rHash, rProgress, rEnd, rLeaving,
                   rOutcome, diskVars, faults>>

(* checkpoint: File.Sync, then the sidecar and the acknowledgement. *)
Sync ==
    /\ rpc = "sync"
    /\ part' = [part EXCEPT !.synced = Len(part.data)]
    /\ rDurable' = rExpected
    /\ rpc' = "sidecar"
    /\ UNCHANGED <<senderSide, toSender, cancelSender, starting, rid, rDigest, rEvents,
                   rPending, rExpected, rIndex, rHash, rProgress, rEnd, rLeaving,
                   rOutcome, meta, dest, committed, faults>>

(* Mutant: the checkpoint at the end of the file is acknowledged too. *)
AlwaysAck(queue, id, n) ==
    AfterSend(queue, [type |-> "file_ack", id |-> id, n |-> n])

(* Mutant: it is never acknowledged. *)
NeverFinalAck(queue, id, n) ==
    IF n < Size
    THEN AfterSend(queue, [type |-> "file_ack", id |-> id, n |-> n])
    ELSE queue

(* The final acknowledgement is left to the commit, if the sender knows. *)
CheckpointAck(queue, id, n) ==
    IF n < Size \/ id \notin CommitAck
    THEN AfterSend(queue, [type |-> "file_ack", id |-> id, n |-> n])
    ELSE queue

Sidecar(late) ==
    /\ rpc = "sidecar"
    /\ meta' = [present |-> TRUE, ver |-> rDigest, n |-> rDurable]
    /\ Progress(CheckpointAck(toSender, rid, rDurable), rExpected, late)
    /\ rpc' = "drain"
    /\ UNCHANGED <<senderSide, cancelSender, starting, rid, rDigest, rEvents, rPending,
                   rExpected, rIndex, rHash, rDurable, rEnd, rLeaving, rOutcome,
                   part, dest, committed, faults>>

Drained ==
    /\ rpc = "drain" /\ NextPending = {}
    /\ rpc' = AfterComplete(rEnd)
    /\ UNCHANGED <<senderSide, toSender, cancelSender, starting, loopVars, rLeaving,
                   rOutcome, diskVars, faults>>

-----------------------------------------------------------------------------
(* receiveLoop: verification and commit *)

(* Mutant: only the number of bytes is verified. *)
SizeMatches == Len(rHash) = Size

DigestMatches == rHash = FileOf(rDigest)

(***************************************************************************)
(* complete: compare the digests.  receiveIntegrityFailed deregisters the  *)
(* transfer before it deletes the partial files.  (The checkpoint that     *)
(* complete makes when lastDurable lags is never due: the last write of a  *)
(* file is always followed by one.)                                        *)
(***************************************************************************)
Complete ==
    /\ rpc = "complete"
    /\ IF DigestMatches
       THEN /\ rpc' = IF Overwrite THEN "remove" ELSE "rename"
            /\ UNCHANGED <<toSender, cancelSender, loopVars, rLeaving, rOutcome>>
       ELSE /\ rLeaving' = rLeaving \cup
                  {[step |-> "part", id |-> rid, ver |-> rDigest, n |-> 0]}
            /\ ReceiveFailed
    /\ UNCHANGED <<senderSide, starting, diskVars, faults>>

RemoveDestination ==
    /\ rpc = "remove"
    /\ dest' = NoDest
    /\ rpc' = "rename"
    /\ UNCHANGED <<senderSide, toSender, cancelSender, starting, loopVars, rLeaving,
                   rOutcome, part, meta, committed, faults>>

Rename ==
    /\ rpc = "rename"
    /\ IF part.present
       THEN /\ dest' = [present |-> TRUE, id |-> rid, ver |-> rDigest,
                        data |-> part.data]
            /\ part' = NoFile
            /\ committed' = committed \cup {rid}
            /\ rpc' = "unlink"
            /\ UNCHANGED <<toSender, cancelSender, loopVars, rOutcome>>
       ELSE ReceiveFailed /\ UNCHANGED <<part, dest, committed>>
    /\ UNCHANGED <<senderSide, starting, rLeaving, meta, faults>>

(* Mutant: a sidecar that cannot be deleted fails the transfer. *)
UnlinkOrFail ==
    /\ rpc = "unlink"
    /\ ReceiveFailed
    /\ UNCHANGED <<senderSide, starting, rLeaving, diskVars, faults>>

Unlink ==
    /\ rpc = "unlink"
    /\ meta' = NoMeta
    /\ toSender' = AfterSend(toSender, [type |-> "file_ack", id |-> rid, n |-> Size])
    /\ rpc' = "finish"
    /\ UNCHANGED <<senderSide, cancelSender, starting, loopVars, rLeaving, rOutcome,
                   part, dest, committed, faults>>

(* The destination stays reserved until after the acknowledgement. *)
FinishReceiver ==
    /\ rpc = "finish"
    /\ Finish("completed")
    /\ UNCHANGED <<senderSide, toSender, cancelSender, starting, rLeaving, diskVars,
                   faults>>

(***************************************************************************)
(* A file operation of the goroutine fails; a write may have got through   *)
(* in part.                                                                *)
(***************************************************************************)
DiskError ==
    /\ Fault("io")
    /\ \/ /\ rpc \in {"opened", "sync", "sidecar", "complete", "rename"}
          /\ UNCHANGED part
       \/ /\ rpc = "drain"
          /\ \E c \in NextPending : \E n \in 0 .. c.length :
                /\ c.offset = rExpected
                /\ part' = [part EXCEPT !.data =
                               WriteAt(@, rExpected, Content(c.ver, c.offset, n))]
    /\ ReceiveFailed
    /\ UNCHANGED <<senderSide, starting, rLeaving, meta, dest, committed>>

-----------------------------------------------------------------------------
(* What goroutines do after their transfer left the registry. *)
Leave(l) ==
    /\ l \in rLeaving
    /\ \/ /\ l.step = "part"
          /\ part' = [part EXCEPT !.present = FALSE]
          /\ rLeaving' = (rLeaving \ {l}) \cup {[l EXCEPT !.step = "meta"]}
          /\ UNCHANGED <<meta, toSender>>
       \/ /\ l.step = "meta"
          /\ meta' = NoMeta
          /\ rLeaving' = rLeaving \ {l}
          /\ UNCHANGED <<part, toSender>>
       \/ /\ l.step = "sidecar"
          /\ meta' = [present |-> TRUE, ver |-> l.ver, n |-> l.n]
          /\ toSender' = CheckpointAck(toSender, l.id, l.n)
          /\ rLeaving' = rLeaving \ {l}
          /\ UNCHANGED part
    /\ UNCHANGED <<senderSide, cancelSender, starting, rpc, loopVars, rOutcome, dest,
                   committed, faults>>

-----------------------------------------------------------------------------
(* handleMessage and handleControl on the receiving side *)

receiverCore == <<senderVars, open, rpc, rid, rDigest, rPending, rExpected, rIndex,
                  rHash, rDurable, rProgress, rEnd, rLeaving, rOutcome, diskVars>>

QueueFull == Len(rEvents) >= QueueSize

(* Every offer gets a startReceive goroutine. *)
HandleFileStart ==
    /\ toReceiver # <<>>
    /\ LET m == Head(toReceiver) IN
       /\ m.type = "file_start"
       /\ starting' = starting \cup {[id |-> m.id, ver |-> m.ver]}
    /\ toReceiver' = Tail(toReceiver)
    /\ UNCHANGED <<receiverCore, rEvents, toSender, lanes, cancelReceiver,
                   cancelSender, faults>>

(* The handler waits for room in the queue of a registered transfer. *)
HandleFileEnd ==
    /\ toReceiver # <<>>
    /\ LET m == Head(toReceiver) IN
       /\ m.type = "file_end"
       /\ IF Registered(m.id)
          THEN ~QueueFull /\ rEvents' = Append(rEvents, [type |-> "end"])
          ELSE UNCHANGED rEvents
    /\ toReceiver' = Tail(toReceiver)
    /\ UNCHANGED <<receiverCore, toSender, lanes, cancelReceiver, cancelSender,
                   starting, faults>>

(***************************************************************************)
(* A chunk of a transfer that is not registered is answered by a cancel,   *)
(* unless the handler found the transfer just before it left the registry. *)
(* A lane that took a chunk and then failed makes Send repeat it elsewhere *)
(* (fault "dup").                                                          *)
(***************************************************************************)
HandleChunk ==
    /\ \E c \in lanes :
       /\ \/ lanes' = lanes \ {c} /\ UNCHANGED faults
          \/ Fault("dup") /\ UNCHANGED lanes
       /\ IF Registered(c.id)
          THEN /\ ~QueueFull
               /\ rEvents' = Append(rEvents, c)
               /\ UNCHANGED <<toSender, cancelSender>>
          ELSE /\ SendCancelToSender(c.id) \/ UNCHANGED <<toSender, cancelSender>>
               /\ UNCHANGED rEvents
    /\ UNCHANGED <<receiverCore, toReceiver, cancelReceiver, starting>>

(***************************************************************************)
(* file_cancel does not wait for room.  When the queue is full the handler *)
(* itself fails the transfer; the loop notices at its next use of the file *)
(* or of the done channel, but a checkpoint it has synced is still stored. *)
(***************************************************************************)
HandleCancelOfReceiver ==
    /\ \E id \in TransferIDs :
       /\ \/ /\ toReceiver # <<>> /\ Head(toReceiver).type = "file_cancel"
             /\ id = Head(toReceiver).id
             /\ toReceiver' = Tail(toReceiver) /\ UNCHANGED cancelReceiver
          \/ /\ id \in cancelReceiver
             /\ cancelReceiver' = cancelReceiver \ {id} /\ UNCHANGED toReceiver
       /\ \/ /\ ~Registered(id)
             /\ UNCHANGED <<toSender, cancelSender, rpc, loopVars, rLeaving, rOutcome>>
          \/ /\ Registered(id) /\ ~QueueFull
             /\ rEvents' = Append(rEvents, [type |-> "cancel"])
             /\ UNCHANGED <<toSender, cancelSender, rpc, rid, rDigest, rPending,
                            rExpected, rIndex, rHash, rDurable, rProgress, rEnd,
                            rLeaving, rOutcome>>
          \/ /\ Registered(id) /\ QueueFull
             /\ rLeaving' = IF rpc = "sidecar"
                            THEN rLeaving \cup {[step |-> "sidecar", id |-> rid,
                                                 ver |-> rDigest, n |-> rDurable]}
                            ELSE rLeaving
             /\ ReceiveFailed
    /\ UNCHANGED <<senderVars, open, lanes, starting, diskVars, faults>>
=============================================================================
