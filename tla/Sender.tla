------------------------------- MODULE Sender -------------------------------
(***************************************************************************)
(* TransferManager.SendFile and the handlers that feed it.  The goroutine  *)
(* and the message handlers interleave; what they share is the sendState.  *)
(* Pacing only delays a send: what is kept of it is the end of its context. *)
(***************************************************************************)
EXTENDS TransferState

(* A SendFile call returns: its sendState is dropped from the registry. *)
SenderReturn(outcome) ==
    /\ spc' = "idle"
    /\ sOutcome' = [sOutcome EXCEPT ![sid] = outcome]
    /\ sOffset' = 0 /\ sAcked' = 0 /\ sReceived' = 0
    /\ sSignal' = FALSE /\ sAccept' = Empty /\ sCancel' = FALSE
    /\ UNCHANGED <<source, sid, sDigest, sStart>>

receiverSide == <<starting, rpc, loopVars, rLeaving, rOutcome, diskVars>>

-----------------------------------------------------------------------------
(***************************************************************************)
(* Hash the file, register a sendState and offer the file.                 *)
(***************************************************************************)
SendFile ==
    /\ spc = "idle" /\ sid < MaxTransfers
    /\ open /\ source.len = Size
    /\ spc' = "waitAccept"
    /\ sid' = sid + 1
    /\ sDigest' = source.ver
    /\ sStart' = 0
    /\ toReceiver' = Append(toReceiver,
            [type |-> "file_start", id |-> sid + 1, ver |-> source.ver])
    /\ UNCHANGED <<source, sOffset, sAcked, sReceived, sSignal, sAccept, sCancel,
                   sOutcome, open, toSender, lanes, cancelReceiver, cancelSender,
                   receiverSide, faults>>

(* Mutant: the last acknowledged chunk is sent once more. *)
ResumeOneChunkEarly(n) == n - ChunkSize

(* An offset the sender cannot resume from counts as zero. *)
ResumeOffset(n) == IF n \in 0 .. Size /\ n % ChunkSize = 0 THEN n ELSE 0

Accepted ==
    /\ spc = "waitAccept" /\ sAccept # Empty
    /\ spc' = "stream"
    /\ sAccept' = Empty
    /\ sOffset' = ResumeOffset(sAccept)
    /\ sStart' = ResumeOffset(sAccept)
    /\ sAcked' = ResumeOffset(sAccept)
    /\ sReceived' = ResumeOffset(sAccept)
    /\ UNCHANGED <<source, sid, sDigest, sSignal, sCancel, sOutcome, netVars,
                   receiverSide, faults>>

(* Mutant: the comparison admits one chunk too many. *)
WindowOverrun == sOffset - sReceived > Window

WindowFull == sOffset - sReceived >= Window

(* Bytes io.ReadFull gets: the file may have been truncated meanwhile. *)
ReadLength == LargerOf(0, SmallerOf(SmallerOf(ChunkSize, Size - sOffset),
                                    source.len - sOffset))

(***************************************************************************)
(* The index is written as the offset over the chunk size.  Behind a short *)
(* read, which only a truncated file gives, the code counts on by one; but *)
(* a chunk behind a short one is refused by its offset either way.         *)
(***************************************************************************)
SendChunk ==
    /\ spc = "stream" /\ sOffset < Size /\ ~WindowFull
    /\ ReadLength > 0
    /\ IF open
       THEN /\ lanes' = lanes \cup
                  {[type |-> "chunk", id |-> sid, index |-> sOffset \div ChunkSize,
                    offset |-> sOffset, length |-> ReadLength, ver |-> source.ver]}
            /\ sOffset' = sOffset + ReadLength
            /\ UNCHANGED <<source, spc, sid, sDigest, sStart, sAcked, sReceived,
                           sSignal, sAccept, sCancel, sOutcome>>
       ELSE SenderReturn("failed") /\ UNCHANGED lanes
    /\ UNCHANGED <<open, toReceiver, toSender, cancelReceiver, cancelSender,
                   receiverSide, faults>>

(***************************************************************************)
(* This SDK sends file_end as soon as the file is sent.  A legacy sender,  *)
(* which does not set commitAck, waits for file_ack(size) first.           *)
(***************************************************************************)
MayEnd == sid \in CommitAck \/ sAcked >= Size

(***************************************************************************)
(* The loop is left at Size, or at an early end of the source file.        *)
(***************************************************************************)
SendEnd ==
    /\ spc = "stream" /\ MayEnd
    /\ \/ sOffset >= Size
       \/ ~WindowFull /\ ReadLength = 0
    /\ IF open
       THEN /\ spc' = "final"
            /\ toReceiver' = Append(toReceiver,
                    [type |-> "file_end", id |-> sid, ver |-> sDigest])
            /\ UNCHANGED <<source, sid, sDigest, sStart, sOffset, sAcked, sReceived,
                           sSignal, sAccept, sCancel, sOutcome>>
       ELSE SenderReturn("failed") /\ UNCHANGED toReceiver
    /\ UNCHANGED <<open, toSender, lanes, cancelReceiver, cancelSender,
                   receiverSide, faults>>

(***************************************************************************)
(* BufferedAmount counts what a channel has taken and not delivered, so it *)
(* is no more than what is in flight: where there is room for one packet   *)
(* more in this sense, waitForBuffer does not wait.                        *)
(***************************************************************************)
BufferFull == PendingBytes(lanes) + ReadLength > MaxBuffered

(***************************************************************************)
(* Wait: the window is full, the final acknowledgement is missing or the   *)
(* channel has no room for the next packet.  (That chunk is already read;  *)
(* the model reads it when it is sent.)                                    *)
(***************************************************************************)
Block ==
    /\ \/ /\ spc = "stream"
          /\ IF sOffset < Size THEN WindowFull ELSE ~MayEnd
          /\ spc' = "waitAck"
       \/ /\ spc = "final" /\ sAcked < Size
          /\ spc' = "waitFinal"
       \/ /\ spc = "stream" /\ sOffset < Size /\ ~WindowFull
          /\ ReadLength > 0 /\ BufferFull
          /\ spc' = "waitBuffer"
    /\ UNCHANGED <<source, sid, sDigest, sStart, sOffset, sAcked, sReceived, sSignal,
                   sAccept, sCancel, sOutcome, netVars, receiverSide, faults>>

(* A token in the acks channel makes the goroutine look again. *)
Wake ==
    /\ sSignal
    /\ sSignal' = FALSE
    /\ \/ spc = "waitAck" /\ spc' = "stream"
       \/ spc = "waitFinal" /\ spc' = "final"
    /\ UNCHANGED <<source, sid, sDigest, sStart, sOffset, sAcked, sReceived,
                   sAccept, sCancel, sOutcome, netVars, receiverSide, faults>>

(***************************************************************************)
(* waitForBuffer polls until there is room or the channel has closed.  It  *)
(* looks neither at the sendState nor at a clock.                          *)
(***************************************************************************)
WaitForBuffer ==
    /\ spc = "waitBuffer"
    /\ \/ /\ open /\ ~BufferFull
          /\ spc' = "stream"
          /\ UNCHANGED <<source, sid, sDigest, sStart, sOffset, sAcked, sReceived,
                         sSignal, sAccept, sCancel, sOutcome>>
       \/ ~open /\ SenderReturn("failed")
    /\ UNCHANGED <<netVars, receiverSide, faults>>

Completed ==
    /\ spc = "final" /\ sAcked >= Size
    /\ SenderReturn("completed")
    /\ UNCHANGED <<netVars, receiverSide, faults>>

Waiting == spc \in {"waitAccept", "waitAck", "waitFinal"}

Cancelled ==
    /\ Waiting /\ sCancel
    /\ SenderReturn("cancelled")
    /\ UNCHANGED <<netVars, receiverSide, faults>>

(* Mutant: the wait for the final acknowledgement has no deadline. *)
UntimedFinal == spc \in {"waitAccept", "waitAck"}

TimedWait == Waiting

(* No answer for two minutes, or no acknowledgement for 30 seconds. *)
SenderTimeout ==
    /\ Timers /\ TimedWait
    /\ SenderReturn("failed")
    /\ UNCHANGED <<netVars, receiverSide, faults>>

(* Send fails on an open channel: at once, or for 30 seconds for a chunk. *)
SendRefused ==
    /\ Fault("send") /\ open
    /\ spc = "stream"
    /\ IF sOffset < Size THEN ~WindowFull ELSE MayEnd
    /\ SenderReturn("failed")
    /\ UNCHANGED <<netVars, receiverSide>>

(* The context ends where SendFile may wait, or reading the file fails. *)
CtxDone ==
    /\ Fault("ctx")
    /\ Waiting \/ spc \in {"stream", "waitBuffer"}
    /\ SenderReturn("failed")
    /\ UNCHANGED <<netVars, receiverSide>>

-----------------------------------------------------------------------------
(* The sendState registered for id, if any. *)
Sending(id) == spc # "idle" /\ sid = id

(***************************************************************************)
(* handleControl on the sending side, for the oldest control in flight.    *)
(***************************************************************************)
HandleAccept ==
    /\ toSender # <<>>
    /\ LET m == Head(toSender) IN
       /\ m.type \in {"file_accept", "resume_state"}
       /\ sAccept' = IF Sending(m.id) /\ sAccept = Empty THEN m.n ELSE sAccept
    /\ toSender' = Tail(toSender)
    /\ UNCHANGED <<source, spc, sid, sDigest, sStart, sOffset, sAcked, sReceived,
                   sSignal, sCancel, sOutcome, open, toReceiver, lanes,
                   cancelReceiver, cancelSender, receiverSide, faults>>

(* Mutant: only a durable acknowledgement wakes the sender. *)
SignalIfDurable == sSignal \/ Head(toSender).type = "file_ack"

(* acks has room for one token; a second one is dropped. *)
SignalAfterAck == TRUE

HandleAck ==
    /\ toSender # <<>>
    /\ LET m == Head(toSender) IN
       /\ m.type \in {"file_ack", "file_progress"}
       /\ IF Sending(m.id)
          THEN /\ sAcked' = IF m.type = "file_ack" THEN LargerOf(sAcked, m.n)
                                                   ELSE sAcked
               /\ sReceived' = LargerOf(sReceived, m.n)
               /\ sSignal' = SignalAfterAck
          ELSE UNCHANGED <<sAcked, sReceived, sSignal>>
    /\ toSender' = Tail(toSender)
    /\ UNCHANGED <<source, spc, sid, sDigest, sStart, sOffset, sAccept, sCancel,
                   sOutcome, open, toReceiver, lanes, cancelReceiver, cancelSender,
                   receiverSide, faults>>

(* file_cancel, from the primary or from the priority channel. *)
HandleCancelOfSender ==
    \E id \in TransferIDs :
       /\ \/ /\ toSender # <<>> /\ Head(toSender).type = "file_cancel"
             /\ id = Head(toSender).id
             /\ toSender' = Tail(toSender) /\ UNCHANGED cancelSender
          \/ /\ id \in cancelSender
             /\ cancelSender' = cancelSender \ {id} /\ UNCHANGED toSender
       /\ sCancel' = (sCancel \/ Sending(id))
       /\ UNCHANGED <<source, spc, sid, sDigest, sStart, sOffset, sAcked, sReceived,
                      sSignal, sAccept, sOutcome, open, toReceiver, lanes,
                      cancelReceiver, receiverSide, faults>>
=============================================================================
