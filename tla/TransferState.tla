--------------------------- MODULE TransferState ---------------------------
(***************************************************************************)
(* The state of one QuickDrop session: the sending TransferManager, the    *)
(* receiving one, the channel between them and the receiver's disk.  The   *)
(* modules Sender and Receiver give the actions of the two managers,       *)
(* Transfer puts them together with the environment.                       *)
(***************************************************************************)
EXTENDS Protocol, FiniteSets, FiniteSetsExt

CONSTANTS
    Window,             \* maxUnacknowledged
    MaxBuffered,        \* maxBufferedAmount
    DurableInterval,    \* TransferOptions.DurableAckInterval
    ProgressInterval,   \* progressAckInterval
    MaxReorder,         \* TransferOptions.MaxReorderBufferBytes
    QueueSize,          \* receiveEventQueueSize
    Overwrite,          \* TransferOptions.Overwrite
    CommitAck,          \* the transfers whose FileMetadata has commitAck,
    ProgressAck,        \*   progressAck or resume: all of this SDK's,
    Resume,             \*   none of a legacy sender's
    PriorityChannel,    \* both peers announced priorityCancel
    Timers,             \* may the code's timeouts expire?
    SourceLens,         \* lengths the source file is changed to
    Faults,             \* kinds of faults the environment may inject
    MaxFaults           \* bound: how many of them

FaultKinds == {"crash", "power", "close", "lane", "dup", "io", "reject",
               "source", "edit", "user", "cancel", "ctx", "send"}

ASSUME TransferAssumption ==
    /\ Window \in Nat \ {0}
    /\ MaxBuffered \in Nat /\ ChunkSize <= MaxBuffered
    /\ DurableInterval \in Nat \ {0}
    /\ ProgressInterval \in Nat \ {0}
    /\ MaxReorder \in Nat
    /\ QueueSize \in Nat \ {0}
    /\ {Overwrite, PriorityChannel, Timers} \subseteq BOOLEAN
    /\ CommitAck \cup ProgressAck \cup Resume \subseteq TransferIDs
    /\ SourceLens \subseteq Nat
    /\ Faults \subseteq FaultKinds
    /\ MaxFaults \in Nat

VARIABLES
    open,           \* the channel is open
    toReceiver,     \* controls in flight on the ordered primary channel
    toSender,
    lanes,          \* chunks in flight; lanes do not order them
    cancelReceiver, \* file_cancels in flight on the priority channel
    cancelSender,

    source,         \* the file SendFile reads: [ver, len]
    spc,            \* where the SendFile goroutine is
    sid,            \* id of the latest SendFile call, 0 before the first
    sDigest,        \* the digest it offered
    sStart,         \* offset it started to stream from
    sOffset,        \* local variable offset
    sAcked,         \* sendState.acked
    sReceived,      \* sendState.received
    sSignal,        \* sendState.acks holds a token
    sAccept,        \* sendState.accept: the buffered offset, or Empty
    sCancel,        \* sendState.cancel holds an error
    sOutcome,       \* how each SendFile call ended

    starting,       \* offers whose startReceive goroutine waits for its mutex
    rpc,            \* where the goroutine of the registered transfer is
    rid,            \* its id
    rDigest,        \* its metadata.SHA256
    rEvents,        \* receiveState.events
    rPending,       \* pending, the reorder buffer
    rExpected,      \* expectedOffset
    rIndex,         \* expectedIndex
    rHash,          \* what has been fed to the running hash
    rDurable,       \* lastDurable
    rProgress,      \* lastProgressAck
    rEnd,           \* end # nil (and endTimer armed)
    rLeaving,       \* goroutines that run on after finishReceiver
    rOutcome,       \* last event reported for each transfer

    part,           \* <name>.quickdrop.part
    meta,           \* <name>.quickdrop.json
    dest,           \* <name>
    committed,      \* transfers whose part file was renamed to <name>
    faults          \* faults injected so far

netVars    == <<open, toReceiver, toSender, lanes, cancelReceiver, cancelSender>>
senderVars == <<source, spc, sid, sDigest, sStart, sOffset, sAcked, sReceived,
                sSignal, sAccept, sCancel, sOutcome>>
loopVars   == <<rid, rDigest, rEvents, rPending, rExpected, rIndex, rHash,
                rDurable, rProgress, rEnd>>
diskVars   == <<part, meta, dest, committed>>
vars == <<netVars, senderVars, starting, rpc, loopVars, rLeaving, rOutcome,
          diskVars, faults>>

-----------------------------------------------------------------------------
Empty == -1     \* nothing buffered in sendState.accept

Event == Chunk \cup [type : {"end", "cancel"}]

SenderPC == {"idle", "waitAccept", "stream", "waitBuffer", "waitAck", "final",
             "waitFinal"}

(* How many bytes of files a set of chunks carries. *)
PendingBytes(chunks) == MapThenSumSet(LAMBDA c : c.length, chunks)

ReceiverPC == {"none", "opened", "loop", "drain", "sync", "sidecar",
               "complete", "remove", "rename", "unlink", "finish"}

(***************************************************************************)
(* What is left to do for a goroutine whose transfer has left the          *)
(* registry: delete the two partial files, or store a checkpoint it had    *)
(* already synced.                                                         *)
(***************************************************************************)
Leaving == [step : {"part", "meta", "sidecar"}, id : TransferIDs,
            ver : Versions, n : Nat]

NoFile == [present |-> FALSE, data |-> <<>>, synced |-> 0]

AnyVersion == CHOOSE v \in Versions : TRUE

NoMeta == [present |-> FALSE, ver |-> AnyVersion, n |-> 0]

NoDest == [present |-> FALSE, id |-> 0, ver |-> AnyVersion, data |-> <<>>]

NetTypeOK ==
    /\ open \in BOOLEAN
    /\ toReceiver \in Seq(ToReceiver)
    /\ toSender \in Seq(ToSender)
    /\ lanes \subseteq Chunk
    /\ cancelReceiver \subseteq TransferIDs
    /\ cancelSender \subseteq TransferIDs

SenderTypeOK ==
    /\ source \in [ver : Versions, len : Nat]
    /\ spc \in SenderPC
    /\ sid \in 0 .. MaxTransfers
    /\ spc # "idle" => sid \in TransferIDs
    /\ sDigest \in Versions
    /\ sStart \in Nat /\ sOffset \in Nat /\ sAcked \in Nat /\ sReceived \in Nat
    /\ sSignal \in BOOLEAN
    /\ sAccept \in Nat \cup {Empty}
    /\ sCancel \in BOOLEAN
    /\ sOutcome \in [TransferIDs -> {"none", "completed", "failed", "cancelled"}]

ReceiverTypeOK ==
    /\ starting \subseteq Offer
    /\ rpc \in ReceiverPC
    /\ rid \in 0 .. MaxTransfers
    /\ rpc # "none" => rid \in TransferIDs
    /\ rDigest \in Versions
    /\ rEvents \in Seq(Event)
    /\ rPending \subseteq Chunk
    /\ rExpected \in Nat /\ rIndex \in Nat /\ rDurable \in Nat /\ rProgress \in Nat
    /\ rHash \in Seq(Byte)
    /\ rEnd \in BOOLEAN
    /\ rLeaving \subseteq Leaving
    /\ rOutcome \in [TransferIDs -> {"none", "completed", "failed", "cancelled",
                                     "rejected", "refused"}]

DiskTypeOK ==
    /\ part \in [present : BOOLEAN, data : Seq(Byte), synced : Nat]
    /\ meta \in [present : BOOLEAN, ver : Versions, n : Nat]
    /\ dest \in [present : BOOLEAN, id : 0 .. MaxTransfers, ver : Versions,
                 data : Seq(Byte)]
    /\ committed \subseteq TransferIDs

(***************************************************************************)
(* Every field has the type of its Go declaration, and a goroutine that    *)
(* runs has an id: SendFile and receiveLoop never work for nobody.         *)
(***************************************************************************)
TypeOK ==
    /\ NetTypeOK /\ SenderTypeOK /\ ReceiverTypeOK /\ DiskTypeOK
    /\ faults \in Nat

Init ==
    /\ open = TRUE
    /\ toReceiver = <<>> /\ toSender = <<>> /\ lanes = {}
    /\ cancelReceiver = {} /\ cancelSender = {}
    /\ source \in [ver : Versions, len : {Size}]
    /\ spc = "idle" /\ sid = 0 /\ sDigest = AnyVersion
    /\ sStart = 0 /\ sOffset = 0 /\ sAcked = 0 /\ sReceived = 0
    /\ sSignal = FALSE /\ sAccept = Empty /\ sCancel = FALSE
    /\ sOutcome = [id \in TransferIDs |-> "none"]
    /\ starting = {}
    /\ rpc = "none" /\ rid = 0 /\ rDigest = AnyVersion
    /\ rEvents = <<>> /\ rPending = {} /\ rExpected = 0 /\ rIndex = 0
    /\ rHash = <<>> /\ rDurable = 0 /\ rProgress = 0 /\ rEnd = FALSE
    /\ rLeaving = {}
    /\ rOutcome = [id \in TransferIDs |-> "none"]
    /\ part = NoFile /\ meta = NoMeta /\ dest = NoDest
    /\ committed = {} /\ faults = 0

-----------------------------------------------------------------------------
(* The environment spends one of its faults on a fault of kind k. *)
Fault(k) ==
    /\ k \in Faults
    /\ faults < MaxFaults
    /\ faults' = faults + 1

(***************************************************************************)
(* sendControl on a channel that has closed does nothing.                  *)
(***************************************************************************)
AfterSend(queue, msg) == IF open THEN Append(queue, msg) ELSE queue

(***************************************************************************)
(* parallelChannel.SendText: file_cancel has a channel of its own when     *)
(* both peers support it, and is an ordinary control otherwise.            *)
(***************************************************************************)
SendCancelToSender(id) ==
    IF PriorityChannel
    THEN /\ cancelSender' = IF open THEN cancelSender \cup {id} ELSE cancelSender
         /\ UNCHANGED toSender
    ELSE /\ toSender' = AfterSend(toSender, [type |-> "file_cancel", id |-> id, n |-> 0])
         /\ UNCHANGED cancelSender
=============================================================================
