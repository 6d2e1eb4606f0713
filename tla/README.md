# A TLA+ verification of QuickDrop's Go SDK

`quickdrop-go` sends files between two peers over WebRTC. This directory holds
TLA+ models of its core, the TLC configurations that check them, and TLAPS
proofs. Source paths below are relative to the repository.

## 1. Inventory

| Component | State it keeps | Operations | What makes it correct |
|---|---|---|---|
| `transfer` sender (`transfer/manager.go`) | `senders`: one `sendState` per call (accept, acks, cancel, acked, received); local `offset` | `SendFile`; handlers `file_accept`, `resume_state`, `file_ack`, `file_progress`, `file_cancel` | success means committed; bounded memory; no lost wakeup; a call returns unless an open channel stops to take data |
| `transfer` receiver (`transfer/manager.go`) | `receivers`: one `receiveState` per transfer; loop locals (pending, expected, durable, hash, end); three files per destination: part, sidecar, target | `startReceive`, `receiveLoop` (validate, reorder, write, checkpoint, complete), `receiveFailed`, `receiveIntegrityFailed`; handlers `file_start`, chunk, `file_end`, `file_cancel` | only verified files are committed; acknowledged is durable; only matching partial data are resumed; a commit is never taken back |
| `protocol` | none | controls, chunk header, framing, `TotalChunks` | round trip; sound arithmetic |
| `webrtc` lanes (`webrtc/parallel_channel.go`) | lanes, negotiated count, pending candidates, negotiation queue, closed | negotiation over the primary channel, callbacks of peer connections, `Send`, `SendText`, shutdown | the same lanes at both ends; they open; nothing leaks; sends fall back |
| `webrtc` delivery (`webrtc/parallel_channel.go`) | handlers, buffered messages, closed | `deliver`, `OnMessage`, `OnClose`, shutdown | each message once, in order; one close notification |
| `webrtc.Peer` (`webrtc/peer.go`) | peer connection, transport, pending candidates, `relayStarted`, result, error | `Connect`, `signalLoop` and `handleSignal`, direct then relay, callbacks of the peer connections, `Close` | both calls return a channel; descriptions and candidates reach their own connection; whatever is replaced or refused is closed; the reported channel is the live one |
| `signaling` (`signaling/signaling.go`) | WebSocket, queue of 32 signals | `Dial`, `Send`, `readLoop`, `Close` | bounded; nothing lost silently that matters |
| `presence` | WebSocket, queue of 32 messages | send, read loop, heartbeat | as `signaling` |
| `api`, `channel`, `doc.go` | none | HTTP requests; an interface; documentation | |

How they interact: the application calls `Peer.Connect`, gets a
`parallelChannel` and builds a `TransferManager` on it. `SendFile` runs in the
caller's goroutine, every offer gets a `startReceive` goroutine and every
accepted one a `receiveLoop`; the read loop of each DataChannel calls
`handleMessage`. What they share is the two registries, the `sendState`, Go
channels of bounded size and, at the receiver, files that outlive the process.

What is hard: chunks travel on unordered lanes beside an ordered control
channel and a priority channel for cancels; acknowledgements of two kinds
(progress and durable) drive one window; the handler and the loop may both end
a transfer; crashes and power loss separate part file and sidecar; lanes are
negotiated by goroutines and callbacks at two ends that run before and after
each other's announcements. `PROJECT.json` lists the hazards line by line.

## 2. Plan

1. (done) `Protocol`, `TransferState`, `Sender`, `Receiver`, `Transfer`: the
   transfer of files with faults; `TransferProofs`: types and integrity.
2. (done) `ParallelLanes`, `ChannelDelivery`.
3. (done) `Peer` with `signaling`: direct connection, relay fallback,
   candidates of a replaced connection, a direct success that comes late,
   dropped signals.
4. (done) `FileDelivery`: the abstract promise of a transfer, with `Transfer`
   checked to implement it.
5. Two managers on one receive directory, the legacy receiver.
6. (done) Proofs for `Transfer` (`TransferProofs`, `AgreementProofs`,
   `DurabilityProofs`, `DeliveryProofs`), with the refinement of `FileDelivery`
   (`RefinementProofs`), for `ParallelLanes`, `ChannelDelivery` and `Peer`:
   section 5.
7. (done) Proofs that follow data through the queues: `MemoryBounded` for
   `Transfer`, `CandidateKept` for `ParallelLanes`, `CandidateReaches` for
   `Peer`.
8. (done) A bound on the chunks in the event queue (`CancelsFindRoom`), which
   replaces the hypothesis `[]NoStaleCheckpoint` by one on `QueueSize`.

## 3. Modules

`Protocol` has the chunk arithmetic, the messages and the contents of files.
A byte is a version and an offset, so wrong bytes and wrong order both show;
SHA-256 is free of collisions, so a digest is the sequence it digests.

`TransferState` declares the state. Variables that begin with `s` belong to
the `SendFile` call `sid`, those with `r` to the `receiveLoop` of the
registered transfer `rid`. `spc` and `rpc` say where the two goroutines are:

| `spc` | `SendFile` | `rpc` | receiver |
|---|---|---|---|
| `waitAccept` | wait for the answer, 198-206 | `opened` | `startReceive` after registration, 508-511 |
| `stream`, `waitAck` | loop and window, 221-258 | `loop` | the select of `receiveLoop`, 605 |
| `waitBuffer` | `waitForBuffer`, 799-818 | `drain` | writing what is contiguous, 652-687 |
| `final`, `waitFinal` | final loop, 264-281 | `sync`, `sidecar` | `checkpoint`, 551-568 |
| `idle` | no call | `complete`, `remove`, `rename`, `unlink`, `finish` | `complete`, 569-604 |

`Sender` and `Receiver` have one action for every stretch of code between two
points at which another goroutine, a crash or a fault can be noticed. Handlers
are actions on the head of an ordered control queue, on any chunk in `lanes`
or on the priority channel; a handler that blocks on a full queue is a guard.
A goroutine that works on after its transfer left the registry (the deletions
of `receiveIntegrityFailed`; a checkpoint that was synced when the handler
ended the transfer) is in `rLeaving`.

`Transfer` composes them with the environment: a closed channel, a dead lane,
a repeated chunk, the death of the receiving process or machine, failing file
operations, a source file that changes, a destination that appears, a peer
that cancels, and the new pair of managers after a reconnect. On power loss
the part file keeps what was synced and any prefix of the rest; the sidecar,
which the code never syncs, may be lost.

`FileDelivery` says what a transfer promises without any of this: there are
calls of `SendFile`, versions the receiver has in full on stable storage, and
the file under the destination's name. A stored version gets the name at most
once per call and, without `Overwrite`, at most once; an old file goes only
when a successor is stored; the receiver says that it has the file only when
it is committed or stored (`Answer`), success is reported only after that
answer, cancellation only for a file that is not committed.
`Transfer` instantiates it as `Delivery`: `stored` is the set of versions of
which the part file is a whole and synced copy, `told` says that an accept or
an acknowledgement of the whole size has reached the call or is on its way
(`Told`), `outcome` is `sOutcome`, and the offer is `sid` with `sDigest`.
`Delivers` is its specification.

`ParallelLanes` has both ends of the negotiation. `job` is where
`negotiationLoop` is inside `createOffer` or `acceptOffer`; `lane` is the
registry entry and the peer connection of each lane. `ChannelDelivery` has the
critical sections of `deliver`, `OnMessage`, `OnClose` and `shutdown`, and the
handler calls outside the mutex as steps of their own.

`Peer` has both ends of a session. `peer[s]` holds the fields of a `Peer` and
where its goroutines are: `call` is `Connect` (`dial` 107, `start` 114-122,
`direct` 125-149, `ask` in `beginRelay`, `wait` 135-144 or 151-158), `step` is
`signalLoop` (`loop` at its select, `makeOffer` and the sends inside
`handleSignal`, `askRestart` and `askReady` while it asks the service for relay
servers, `ended`). `conn[s][k]` is the peer connection of kind `k` (`direct` or
`relay`; `relayStarted` allows one of each) with the descriptions and
candidates it was given and how far its callbacks are: a callback looks at the
fields under the mutex and acts afterwards, in two steps. `inbox[s]` is
`Signaling.messages`. The server and `readLoop` pass a signal on at once; that
a signal may take long shows as a `signalLoop` that is late to take it. A session (`options`)
fixes whether a relay is allowed, which paths ICE can find and which fault may
happen.

Abstractions that matter:

- One destination name and one sender; files with a digest (this SDK always
  sends one). All versions have the same size and modification time, so the
  digest is what tells them apart.
- `BufferedAmount` counts what a channel has taken and not delivered, and a
  `parallelChannel` reports the least of its channels. So the model lets
  `waitForBuffer` wait, or not, whenever the bytes in flight leave no room for a
  packet (`BufferFull`), and lets it go on once they do. Pacing only delays a
  chunk. A `Send` that fails on an open channel is the fault `send`.
- `ParallelLanes` takes it that `DataChannel.Send` does not fail on an open
  primary channel (`Accepts`); `SendFallsBack` rests on that.
- When the handler has ended a transfer on a full queue, the loop's second
  `file_cancel` is left out: the sender keeps the first.
- A new pair of managers starts when the goroutines of the old one have ended.
- Text messages, events, and `resume_query` (handled as `file_start`) are left
  out.

## 4. Runs

The passing runs take from a few seconds to two and a half minutes on two
workers.

| Run | Instance | Shows |
|---|---|---|
| `stream` | two files of five chunks, the second from a legacy sender (no commitAck, progressAck, resume) and in place of the first or of a file of the user (`Overwrite`); no timers, at most one of six kinds of fault; window of three chunks, event queue of two | `TypeOK`, `MemoryBounded`, `NoLostWakeup`, `RemovedOnlyWhenVerified`, `Delivers`, `Delivered` |
| `faults` | two attempts, two versions, three chunks with a checkpoint after the second, any three of six kinds of fault | `CompletedImpliesCommitted`, `CancelledNotCommitted`, `ResumePointSound`, `AckedIsDurable`, `Delivers` |
| `liveness` | one transfer with `Overwrite` and cancels on the primary channel, two of eleven kinds of fault, event queue of three, reorder buffer of one chunk; nothing is fair but the two goroutines | `CommitIntegrity`, `CommitUndisturbed`, `SenderReturns`, `MissingChunkTimesOut` |
| `negotiation` | requests of 9 (clamped to 4) and 0 (the default, 3), so two lanes; a lane, its set-up or the primary fails at any one step; small queues | `TypeOK`, `LanesAgreed`, `NoConnectionLeak`, `SendFallsBack` |
| `lifecycle` | one lane, two candidates per side, room for one; a lane dies or a side closes | `CandidateKept`, `LanesOpen`, `ShutdownCompletes`, `DeadLaneDropped` |
| `handlers` | three messages on two channels, room for four | `TypeOK`, `HandledOnce`, `ClosedOnce` |
| `connect` | both ends of a session; every combination of paths without a fault, and one fault of any kind where the relay is needed (a refusing server where there is none); room for three signals | `TypeOK`, `DescriptionMatches`, `CandidateReaches`, `TransportIsCurrent`, `OrphanedByCloseOnly`, `Connected` |

Runs that end in a violation, each the shortest history in which the code does
not do what a document or a comment says (details under `findings`):

| Run | Property | What happens |
|---|---|---|
| `completed` | `CompletedMeansCommitted` | a retry at the end of the file succeeds before the rename |
| `abandoned` | `ReceiverReturns` | a sender that gives up leaves the receiver waiting |
| `stale` | `ResumePointSound` | an ended loop stores its old sidecar over a new one |
| `order` | `OrderPreserved` | live messages overtake buffered ones |
| `late` | `ReturnedChannelKept` | a direct channel that opens during the handover is returned and then closed |

Behaviour of the code that the models have and the properties allow for:

- a checkpoint is forgotten when bytes were written after it, since
  `matchingPartial` wants the part file exactly as long as the sidecar says
  (`manager.go:842`);
- with `Overwrite` the old destination is removed before the rename
  (`manager.go:592-595`), and without it a file that appears during the
  transfer is replaced by the rename;
- a transfer whose digest is wrong deletes its partial files after it has left
  the registry (`manager.go:725-726`). A retry may have opened the part file by
  then. It goes on with a file that has no name, removes the old destination
  with `Overwrite` (`manager.go:593`) and fails to rename (`manager.go:595`):
  both files are lost. Only an edit of the source under the first transfer
  makes a digest wrong, so `RemovedOnlyWhenVerified` is checked and proved
  without that fault; no document says what should happen;
- `waitForBuffer` has no deadline (`manager.go:799-818`; the 30 seconds of
  line 785 count only after `Send` has failed). On a channel that stays open
  and delivers nothing more, `SendFile` waits until its context ends.
  `SenderReturns` says that this is its only wait without an end;
- the final acknowledgement leaves before the destination is free
  (`manager.go:600-601`), so an offer that follows at once may be refused
  (`Delivered` allows it for a second transfer);
- a chunk repeated after the commit is answered by a `file_cancel`
  (`manager.go:301-305`), and a `SendFile` that has the final acknowledgement
  and the cancel before it at once may report either: `faults` has no repeated
  chunks, and with them `Delivers` fails;
- `negotiationLoop` runs from `newParallelChannel` on and `start` only at the
  end of `OnOpen`, so an initiator may offer a lane before it has announced its
  capability; the responder drops the offer and the lane stays closed
  (`parallel_channel.go:354`). `LanesOpen` and `CandidateKept` leave these
  histories out;
- `replaceConnection` does not look at `closed` (`peer.go:232-239`): `Connect`,
  or a handler, that waits for ICE servers while `Close` runs puts a running
  connection into the closed `Peer`. A second `Close` returns at once, so nobody
  closes it. `OrphanedByCloseOnly` says that this is the only way to such a
  connection;
- the error handler of a data channel does not look whether its connection was
  replaced, so an error of the old direct channel may end a `Connect` that
  waits for the relay (`peer.go:322`);
- when the WebSocket ends, `signalLoop` may see the closed message channel
  instead of the error and end without reporting it (`peer.go:416`);
- a candidate beyond the limit, and a control beyond the queue, are dropped
  (`parallel_channel.go:323,460`), and so are those that `flushLaneCandidates`
  still had to add when one was refused (`parallel_channel.go:562-566`):
  `CandidateKept` and `LanesOpen` speak of histories in which none of this
  happened.

Bounds. Files have two to five chunks, in most runs a short one at the end:
enough for a chunk to be early, late, missing, last and repeated. Windows and
queues hold two or three chunks so that both fill up. Two attempts are what a
stale partial file needs. The two or three faults of `liveness` and `faults` let
one fault meet the recovery from another; in `stream` the one fault meets an
ordinary transfer or the next one. In `faults` a cancel always finds room in the event queue and the
source does not change under a transfer: with a full queue `ResumePointSound`
fails as `stale` shows, and bytes of a changed source are kept until the digest
refuses them (`CommitIntegrity` in `liveness`, with one transfer; for retries it
is theorem `Integrity`). `liveness` has the repeated chunks, `faults` and
`stream` have not. In `Peer` a connection gathers one candidate and a session
needs at most three signals in one inbox, so only a fault makes it overflow.
Faults there are combined with the relayed session, in which every action of the
handover takes place. In `ParallelLanes` lanes do not influence each other but
for the order in which one job creates them, which two lanes show.

Deadlock is checked in `faults`: every state has a step until
nothing is left to do (`Quiescent`). The other runs end when the transfer or
the negotiation has; there a stall is caught by `Delivered`, `SenderReturns`,
`LanesOpen`, `ShutdownCompletes` and `Connected`.

Fairness. Goroutines that can run do (`WF` on the steps of either side and of
each read loop separately, since a read loop that is blocked does not stop the
others); armed timers expire; messages on an open, reliable channel arrive.
`liveness` assumes less (`SilentSpec`): only `SendFile` and `receiveLoop`, with
their timers, go on; no handler need ever run.
Nothing is assumed of the caller, the environment or, in `ParallelLanes` and
`Peer`, of ICE before both ends have all candidates. In `Peer` the timer of the
direct attempt expires unless a result comes first; the 30 seconds for the
relay run out only as a fault (`slow`). `stream` switches timers
off, so its progress does not come from a timeout.

## 5. Proofs

The theorems hold for every value of the constants that satisfies the named
assumptions: any file size, chunk size, window, interval, queue, number of
attempts and set of faults; any requested number of connections, any number of
candidates, messages and channels; any session. TLC evaluates the assumptions
in every run. They say no more than the code does: sizes are not negative,
chunks, windows, intervals and queues are positive, and there are finitely many
channels and candidates.

| Module | Theorem | Property |
|---|---|---|
| `TransferProofs` | `TypeCorrect` | `TypeOK` |
| | `Integrity` | `CommitIntegrity` |
| `AgreementProofs` | `SuccessIsCommit` | `CompletedImpliesCommitted` |
| | `NoWakeupIsLost` | `NoLostWakeup` |
| `DurabilityProofs` | `AcksAreDurable` | `AckedIsDurable`, given `NoStaleCheckpoint` |
| | `ResumeIsSound` | `ResumePointSound`, given `NoStaleCheckpoint` and a source that nobody edits |
| | `StaleNeedsCancel` | `NoStaleCheckpoint`, if no peer cancels |
| `DeliveryProofs` | `CommitIsFinal` | `CancelledNotCommitted`, if no lane repeats a chunk |
| | `CommitIsUndisturbed` | `CommitUndisturbed`, if no lane repeats a chunk and the event queue has room for two |
| | `MemoryIsBounded` | `MemoryBounded`, if no lane repeats a chunk |
| | `CancelsFindRoom` | `NoStaleCheckpoint`, if the event queue has room for a window and three events, no lane repeats a chunk and nobody edits the source while it is sent |
| | `PromisesAreKept` | `AckedIsDurable` and `ResumePointSound`, under the same conditions |
| `RefinementProofs` | `TransferDelivers` | `Delivers`, given `NoStaleCheckpoint`, no repeated chunk and a source that nobody edits |
| | `DeliversWithoutCancels` | `Delivers`, with faults of any kind but "dup", "source" and "cancel" |
| | `DeliversWithRoom` | `Delivers`, with faults of any kind but "dup" and "source", if the event queue has room as above |
| | `RemovalIsSafe` | `RemovedOnlyWhenVerified`, with faults of any kind but "dup" and "source", if no peer cancels or the event queue has room as above |
| `ParallelLanesProofs` | `LaneTypes` | `TypeOK` |
| | `LanesAreAgreed` | `LanesAgreed` |
| | `NoConnectionLeaks` | `NoConnectionLeak` |
| | `PrimaryIsLastResort` | `SendFallsBack` |
| | `CandidatesAreKept` | `CandidateKept`, which excludes offers before the announcement and dropped candidates |
| `ChannelDeliveryProofs` | `DeliveryTypes` | `TypeOK` |
| | `CloseIsToldOnce` | `ClosedOnce` |
| | `MessagesAreHandledOnce` | `HandledOnce` |
| `PeerProofs` | `PeerTypes` | `TypeOK` |
| | `TransportBelongs` | `TransportIsCurrent` |
| | `NothingElseIsOrphaned` | `OrphanedByCloseOnly` |
| | `DescriptionsMatch` | `DescriptionMatches` |
| | `CandidatesReach` | `CandidateReaches` |

The hypothesis `[]NoStaleCheckpoint` is the absence of the race that run
`stale` shows: a loop that was deregistered by a cancel on a full queue stores
its old sidecar beside the part file of its successor. With that race the
properties are false of the code. `StaleNeedsCancel` shows that only a cancel
can cause it, and `CancelsFindRoom` that it takes a queue that is small for the
window: `Window <= (QueueSize - 3) * ChunkSize` excludes it. With a window of
8 MiB and a queue of 256 (`manager.go:28,31`) that is every chunk size from
33157 bytes on, such as the 60 KiB and 64 KiB that a channel with messages of
64 KiB or more gives; with the 12 KiB of `DefaultChunkSize` a window has 683
chunks, and the race remains. The sender chooses the chunk size
(`metadata.ChunkSize`), so this is a condition on both ends. The run `faults` is
an instance in which it holds, the run `stale` one in which it does not.
`ResumeIsSound` also excludes an edit of the source while it is
sent: then the part file holds bytes of two versions until the digest refuses
them, which `Integrity` covers without any hypothesis.

A lane that repeats a chunk (`"dup"`) is excluded from the theorems of
`DeliveryProofs` and `RefinementProofs`. A repetition that is handled after the
commit is answered by a `file_cancel` (section 4), and repetitions are in flight
beside the window that `SendFile` counts.
The code's event queue has room for 256 events, and this SDK's own sender never
cancels what it has offered.

The arguments:

`Integrity`. `CommitIntegrity` is not inductive: the rename moves the part
file, while `complete` has only looked at the running hash. `PartInv` ties the
two together. From the moment the part file is open its length is
`expectedOffset`; while the loop runs, what has been hashed is what is on disk;
after the comparison both are the offered file. A write at the end of a file
appends (`WriteAtEnd`); `matchingPartial` only accepts a part file that is as
long as its sidecar says, so that rehashing the prefix hashes the whole file
(`ResumePointType`, `WholeSubSeq`); a goroutine that deletes a part file after
deregistering unlinks a name and changes no data. `IInv` is the conjunction of
`TypeOK`, `PartInv` and `CommitIntegrity`.

`SuccessIsCommit`. Whatever speaks of the whole size to a sender that asked for
a commit acknowledgement was sent after the rename (`FinalAckInv`), and what a
`SendFile` call remembers belongs to that call (`CallInv`). Offers are numbered,
so an answer to an earlier call changes nothing in a later one.

`AcksAreDurable`. `DurableInv` follows the promise from the
sync to the sender: an offer in flight has not been started (`OfferInv`,
`FreshInv`), what the loop calls durable is synced (`SyncInv`), a sidecar
promises no more than that unless its transfer has ended (`MetaInv`), so neither
does an acknowledgement (`PromiseInv`); `DigestInv` says that what a transfer
works on is what was offered. The qualification of `AckedIsDurable` is that of
the code: to a sender that does not know `file_progress` every progress report
is a `file_ack`.

`ResumeIsSound`. Every chunk on its way, in the queue or in the part file holds
bytes of the version that its offer names (`SourceInv`, `ContentInv`), through
crashes and through the replacement of one version by another.

`CommitIsFinal`, `CommitIsUndisturbed`. A `file_cancel` from the receiver has
many authors: the loop that fails, the handler that meets a full queue, the
handler of a chunk whose transfer it does not know, `startReceive`. That none
of them speaks of a committed file follows from an account of what is still on
its way (`AccountInv`). Chunks: those of the registered transfer that are not
written are in one place each, carry something, have no byte in common and lie
between `expectedOffset` and the sender's `offset` (`FlowInv`, `PlaceInv`,
`AheadInv`), so that none is left when `expectedOffset` is the size. Controls:
`file_end` and `file_cancel` are sent once, after the last chunk, and the loop
is not told twice (`WireInv`, `ToldInv`). So from `complete` on at most one
cancel can be in the queue (`CompletingQueue`), nothing of the transfer is on a
lane (`CommitInv`), and whoever is refused is neither on offer, registered nor
committed (`RefusalInv`). Before `startReceive` has answered, the sender waits
(`OpenedInv`).

`MemoryIsBounded`. The bytes in flight are a sum over a set of chunks. The
chunks of one transfer are intervals that do not overlap, so the sum is the
number of bytes in their union (`SumIsCount` and the lemmas around it), and the
union lies in an interval shorter than a window and a chunk (`SpanInv`). That
interval moves with what `SendFile` is told: every offset it has been told, or
is about to be told, lies before all chunks that are not written (`PaceInv`). A
chunk of an earlier call may still be in the queue when the next call begins;
as long as the receiver works on it, the new call has no answer and sends
nothing (`EarlierInv`, `WritingInv`).

`CancelsFindRoom`. While nobody edits the source each chunk but the last is read
in full, so every chunk lies where its index says (`AlignInv`). With `SpanInv`
the indices of the chunks in the event queue are different and lie within
`QueueSize - 2` of each other (`IndexSpan`); `file_end` comes once. If a queue of
`QueueSize` events had no cancel in it, two of its events would have the same
index (`FullQueue`, by the pigeonhole principle). So a full queue has a cancel in
it, and `ToldInv` says that no second one comes.

`TransferDelivers`. Each step of the transfer is a step of `FileDelivery` or
one that it does not see: `SendFile` is `MakeOffer`, every return a `Report`,
`Rename` is `Commit`, `RemoveDestination` is `Remove`, `UserFile` is `Create`,
and the steps that send an answer, a checkpoint or the final acknowledgement of
the whole size are `Answer`; a step that says such a thing changes nothing else
(`AnswersKeep`) and says it truly (`SaidTruly`). What the mapping needs besides
the invariants above: a part file of the whole length is the file (`WholePart`)
and is still there (`PresentInv`: no integrity failure ever deletes it), and
without `Overwrite` a running transfer is the first (`DestInv`).

`RemovalIsSafe`. From the comparison of the digest on the part file is the whole
file (`PartInv`) and every byte of it is synced (`Removal`, from `DurableInv`).
That it is still there needs `PresentInv` once more, and so a source that nobody
edits: without that condition the statement is false of the code (section 4).

`ParallelLanes`. `LaneSafety` is the conjunction of what is on the wire
(`WireInv`: no announcement is above what its sender asked for), of the two loops (`LoopInv`: each lane that exists is below the agreed
count; a connection that runs is in the registry or is the one its side's
`negotiationLoop` is about to install, and nothing is installed once the
channel is closed), of the flags and of a `Send` in progress (`SendInv`).

`CandidatesAreKept`. The negotiation queue and the controls on the wire are one
sequence, `Mail`: handling takes its head, sending extends its end. The
announcement comes before anything else in it, so that no offer or candidate
meets a side that does not know the number of lanes (`CapabilityInv`); a lane is
offered once, so that no second lane replaces the one that has the candidates
(`OfferInv`). All this holds as long as `Smooth` does, the premise of
`CandidateKept`: where an offer overtook the announcement the code does throw
candidates away. Candidates wait only where a description is missing (`PlaceInv`).
With these, `KeptInv` says where each candidate is.

`ChannelDelivery`. `HandledOnce` is inductive with one more fact, that nothing
is flushed before the handler is set (`OnceInv`). The places a message can be in
are sequences, read loops and a set; each step moves one message and so keeps
the sum of their sizes in step with the number of arrivals, which makes the
places disjoint.

`Peer`. `TransportIsCurrent` and `OnlyCurrentLives` together (`ConnectionInv`) are
inductive once the types are known: whoever replaces the current connection
closes the old one in the same step (`replaceConnection`). `OrphanedByCloseOnly`
adds one look at each step: which one may leave a running connection in a closed
`Peer` (`LiveStep`, `ClosedStep`, `ClosingStep`). Descriptions
need `HandoverInv`: where each side is in the handover (`CurrentInv`), which
signals may be behind which in an inbox (`OrderInv`), and for which kind of
connection each description in it was made (`QueueInv`): a description made for
the direct connection cannot arrive after `transport_restart` or
`transport_ready` has.

`CandidatesReach`. `replaceConnection` forgets the candidates it had set aside,
and `handleSignal` gives a candidate to whichever connection is current. So a
candidate of the relay must not arrive before its end has changed, and an end
must not change twice. A candidate is gathered only after its connection is
described, which is after both ends have a connection of that kind
(`LocalInv`); `transport_restart` and `transport_ready` reach an end once, and
before it has changed (`OnceInv`); and nothing closes or refuses without a fault
(`CalmInv`). `KeptInv` needs that no signal was dropped, the other three do not.

All inductive invariants were checked with TLC on the runs' instances before
they were proved. There is one lemma per action; facts about sequences and
records that several of them need are lemmas at the top of each module.

Every invariant of the passing runs, the action properties and the refinement
are proved, some under the hypotheses above. Only model-checked are the liveness
properties `Delivered`, `SenderReturns`, `MissingChunkTimesOut`, `LanesOpen`,
`ShutdownCompletes`, `DeadLaneDropped` and `Connected`, which depend on fairness
and so on `ENABLED`, which the prover does not handle.

## 6. Not modelled

- `presence`: a second WebSocket with the read loop of `signaling` and a
  heartbeat, without state shared with the rest.
- The byte layout of packets and the JSON of controls: stateless conversions.
- `api`: stateless HTTP. A request that fails is the fault `ice`.
- System calls in `atomic_replace_*` and `disk_space_*` beyond their success or
  failure; how long pacing and backpressure delay a chunk; `Stats`.
- Two managers that share a receive directory; a transport capability that
  becomes known in mid-session; a `DirectTimeout` shorter than the write
  deadline of a signal, with which `transport_restart` could overtake the first
  offer.
