-------------------------- MODULE DurabilityProofs --------------------------
(***************************************************************************)
(* Proofs about the receiver's disk: what was acknowledged is synced, what *)
(* a retry keeps is a synced prefix of the file it continues, and nothing  *)
(* is deleted before its replacement is safe.                              *)
(*                                                                         *)
(* One race in the code defeats all three: a cancel that finds the event   *)
(* queue full deregisters a transfer whose loop is about to store its      *)
(* sidecar, and the sidecar then describes another transfer's part file.   *)
(* The theorems are about behaviours in which no such goroutine runs, and  *)
(* a theorem of its own shows that only a peer's cancel can start one.     *)
(***************************************************************************)
EXTENDS AgreementProofs

USE DEF TypeOK, TransferIDs

-----------------------------------------------------------------------------
(* Offers are answered once *)

IsStart(m) == m.type = "file_start"

Offered(id) ==
    \/ \E m \in Range(toReceiver) : IsStart(m) /\ m.id = id
    \/ \E o \in starting : o.id = id

(* No startReceive goroutine has decided about the transfer yet. *)
Fresh(id) == id > sid \/ Offered(id)

(* No transfer is offered twice in a queue of controls. *)
Distinct(q) ==
    \A i, j \in 1 .. Len(q) : i < j /\ IsStart(q[i]) /\ IsStart(q[j]) => q[i].id # q[j].id

(***************************************************************************)
(* Every offer is on its way, or waits for its goroutine, at most once;    *)
(* and nobody changes the digest.                                          *)
(***************************************************************************)
OfferInv ==
    /\ Distinct(toReceiver)
    /\ \A o \in starting : \A m \in Range(toReceiver) : IsStart(m) => m.id # o.id
    /\ \A o, p \in starting : o.id = p.id => o = p
    /\ \A m \in Range(toReceiver) :
          IsStart(m) => m.id <= sid /\ (m.id = sid => m.ver = sDigest)
    /\ \A o \in starting : o.id <= sid /\ (o.id = sid => o.ver = sDigest)

(* Of such a transfer there is no trace but the offer. *)
Untouched(id) ==
    /\ \A m \in Range(toSender) : m.type # "file_cancel" => m.id # id
    /\ \A c \in lanes : c.id # id
    /\ ~Registered(id) /\ id \notin committed
    /\ \A l \in rLeaving : l.id # id
    /\ Sending(id) => spc = "waitAccept" /\ sAccept = Empty /\ sAcked = 0

FreshInv == \A id \in TransferIDs : Fresh(id) => Untouched(id)

(* The transfer that is registered has the digest it was offered with. *)
DigestInv == Registered(sid) => rDigest = sDigest

-----------------------------------------------------------------------------
(* What is synced *)

DurableAt(id, n) == id \in committed \/ n <= part.synced

(***************************************************************************)
(* Messages that promise durability: answers, acknowledgements, and, for a *)
(* legacy sender, to which progress is reported as an acknowledgement too, *)
(* the one of the whole file.                                              *)
(***************************************************************************)
Promises(m) ==
    \/ m.type \in {"file_accept", "resume_state"}
    \/ m.type = "file_ack" /\ (m.id \in ProgressAck \/ m.n >= Size)

(***************************************************************************)
(* The checkpoint the loop relies on is synced, and so is all of a file    *)
(* that is complete.                                                       *)
(***************************************************************************)
SyncInv ==
    /\ part.synced <= Len(part.data)
    /\ rpc = "opened" => rExpected = rDurable
    /\ rpc = "sidecar" => rExpected = rDurable
    /\ rpc \in Streaming \cup {"opened"} => rDurable <= part.synced
    /\ rpc \in {"complete", "remove", "rename"} => rExpected = Size
    /\ rpc \in Streaming \ {"sync"} /\ rExpected = Size => part.synced >= Size

(***************************************************************************)
(* The sidecar that will be matched with the part file after a crash does  *)
(* not claim more than was synced.                                         *)
(***************************************************************************)
MetaInv ==
    /\ meta.present /\ part.present /\ Len(part.data) = meta.n => meta.n <= part.synced
    /\ rpc \in Streaming /\ meta.present => meta.n <= part.synced

(* What SendFile has recorded of the registered transfer is durable. *)
Recorded ==
    /\ sAccept # Empty => DurableAt(rid, sAccept)
    /\ rid \in ProgressAck \/ sAcked >= Size => DurableAt(rid, sAcked)

(* Promises in flight and promises recorded by the running SendFile. *)
PromiseInv ==
    /\ \A m \in Range(toSender) :
          Promises(m) /\ Registered(m.id) => DurableAt(m.id, m.n)
    /\ rpc # "none" /\ Sending(rid) => Recorded

(* No goroutine stores a checkpoint of a transfer that has left the registry. *)
NoStaleCheckpoint == \A l \in rLeaving : l.step # "sidecar"

DurableInv == OfferInv /\ FreshInv /\ DigestInv /\ SyncInv /\ MetaInv /\ PromiseInv

-----------------------------------------------------------------------------
(* What is in the part file *)

IsPrefixOf(data, ver, n) == \A i \in 1 .. Len(data) : i <= n => data[i] = <<ver, i - 1>>

(* While a file is sent nobody edits it. *)
SourceInv ==
    /\ spc # "idle" => source.ver = sDigest
    /\ \A c \in lanes : /\ c.id = sid => c.ver = sDigest
                        /\ Registered(c.id) => c.ver = rDigest

(* Every byte that was received is from the offered file, at its place. *)
ContentInv ==
    /\ rpc = "none" => rEvents = <<>> /\ rPending = {}
    /\ \A e \in Range(rEvents) : e.type = "chunk" => e.ver = rDigest
    /\ \A c \in rPending : c.ver = rDigest
    /\ rpc \in Streaming \cup {"opened"} => IsPrefixOf(part.data, rDigest, Len(part.data))
    /\ rpc \in Streaming /\ meta.present => meta.ver = rDigest
    /\ meta.present /\ part.present => IsPrefixOf(part.data, meta.ver, meta.n)

-----------------------------------------------------------------------------
(* Proofs about offers *)

(* Sending a control keeps the offers apart if it is not one of the old ones. *)
LEMMA DistinctAppend ==
    ASSUME NEW q \in Seq(ToReceiver), NEW m \in ToReceiver, Distinct(q),
           \A k \in Range(q) : IsStart(k) /\ IsStart(m) => k.id # m.id
    PROVE  Distinct(Append(q, m))
  <1>1. /\ Append(q, m) \in Seq(ToReceiver) /\ Len(Append(q, m)) = Len(q) + 1
        /\ Len(q) \in Nat
        /\ \A i \in 1 .. Len(q) : Append(q, m)[i] = q[i]
        /\ Append(q, m)[Len(q) + 1] = m
    BY AppendProperties
  <1>2. \A i \in 1 .. Len(q) : q[i] \in Range(q)
    BY RangeEquality
  <1> QED
    BY <1>1, <1>2 DEF Distinct

(* Handling a control keeps the others apart, and apart from it. *)
LEMMA DistinctTail ==
    ASSUME NEW q \in Seq(ToReceiver), q # <<>>, Distinct(q)
    PROVE  /\ Distinct(Tail(q))
           /\ \A k \in Range(Tail(q)) : IsStart(k) /\ IsStart(Head(q)) => k.id # Head(q).id
  <1>1. /\ Tail(q) \in Seq(ToReceiver) /\ Len(Tail(q)) = Len(q) - 1
        /\ Len(q) \in Nat \ {0}
        /\ \A i \in 1 .. Len(q) - 1 : Tail(q)[i] = q[i + 1]
        /\ Head(q) = q[1]
    BY HeadTailProperties, EmptySeq
  <1>2. Range(Tail(q)) = {Tail(q)[i] : i \in 1 .. Len(q) - 1}
    BY <1>1, RangeEquality
  <1>3. Distinct(Tail(q))
    BY <1>1 DEF Distinct
  <1>4. ASSUME NEW i \in 1 .. Len(q) - 1, IsStart(q[i + 1]), IsStart(q[1])
        PROVE  q[i + 1].id # q[1].id
    BY <1>1, <1>4 DEF Distinct
  <1> QED
    BY <1>1, <1>2, <1>3, <1>4

(* What a step does with the offers. *)
OffersChange ==
    \/ /\ SendFile
       /\ toReceiver' = Append(toReceiver,
               [type |-> "file_start", id |-> sid + 1, ver |-> source.ver])
       /\ sid' = sid + 1 /\ sDigest' = source.ver /\ UNCHANGED starting
    \/ /\ UNCHANGED <<sid, sDigest>>
       /\ \/ UNCHANGED starting
             /\ \E m \in ToReceiver : ~IsStart(m) /\ toReceiver' = Append(toReceiver, m)
          \/ /\ toReceiver # <<>> /\ toReceiver' = Tail(toReceiver)
             /\ IF IsStart(Head(toReceiver))
                THEN starting' = starting \cup
                        {[id |-> Head(toReceiver).id, ver |-> Head(toReceiver).ver]}
                ELSE UNCHANGED starting
          \/ starting' \subseteq starting /\ toReceiver' \in {toReceiver, <<>>}

(* Only SendFile makes offers, and only the handler passes them on. *)
LEMMA OffersStep ==
    ASSUME IInv, [Next]_vars
    PROVE  OffersChange
  <1>1. SendFile => OffersChange
    BY DEF SendFile, receiverSide, OffersChange
  <1>2. CASE SenderSteps \/ SenderHandlers \/ CtxDone \/ SendRefused \/ SourceChange \/ PeerCancel
    <2>1. UNCHANGED <<sid, sDigest, starting>>
      BY <1>2
         DEF SenderSteps, SenderHandlers, CtxDone, SendRefused, SourceChange, PeerCancel,
             Accepted, SendChunk, SendEnd, Block, Wake, WaitForBuffer, Completed,
             Cancelled, SenderTimeout, HandleAccept, HandleAck, HandleCancelOfSender,
             SenderReturn, receiverSide
    <2>2. \/ UNCHANGED toReceiver
          \/ /\ spc # "idle"
             /\ \E t \in {"file_end", "file_cancel"} :
                   toReceiver' = Append(toReceiver, [type |-> t, id |-> sid, ver |-> sDigest])
      BY <1>2
         DEF SenderSteps, SenderHandlers, CtxDone, SendRefused, SourceChange, PeerCancel,
             Accepted, SendChunk, SendEnd, Block, Wake, WaitForBuffer, Completed,
             Cancelled, SenderTimeout, HandleAccept, HandleAck, HandleCancelOfSender,
             netVars
    <2>3. spc # "idle" => \A t \in {"file_end", "file_cancel"} :
             [type |-> t, id |-> sid, ver |-> sDigest] \in ToReceiver
             /\ ~IsStart([type |-> t, id |-> sid, ver |-> sDigest])
      BY DEF IInv, SenderTypeOK, ToReceiver, IsStart
    <2> QED
      BY <2>1, <2>2, <2>3 DEF OffersChange
  <1>3. CASE HandleFileStart
    BY <1>3 DEF HandleFileStart, receiverCore, senderVars, IsStart, OffersChange
  <1>4. CASE HandleFileEnd
    BY <1>4 DEF HandleFileEnd, receiverCore, senderVars, IsStart, OffersChange
  <1>5. CASE HandleCancelOfReceiver
    BY <1>5 DEF HandleCancelOfReceiver, senderVars, IsStart, OffersChange
  <1>6. CASE /\ UNCHANGED <<sid, sDigest>> /\ starting' \subseteq starting
             /\ toReceiver' \in {toReceiver, <<>>}
    BY <1>6 DEF OffersChange
  <1>7. ReceiverSteps => /\ UNCHANGED <<sid, sDigest>> /\ starting' \subseteq starting
                         /\ toReceiver' \in {toReceiver, <<>>}
    BY DEF ReceiverSteps, StartReceive, StartLoop, TakeChunk, TakeEnd, TakeCancel,
           EndDeadline, LoopClosed, WriteChunk, Sidecar, Sync, Drained, Complete,
           RemoveDestination, Rename, Unlink, FinishReceiver, Leave, senderSide, senderVars
  <1>8. Refusals \/ HandleChunk \/ DiskError \/ Close \/ Crash \/ PowerLoss \/ Reconnect
        \/ LaneLost \/ UserFile
            => /\ UNCHANGED <<sid, sDigest>> /\ starting' \subseteq starting
               /\ toReceiver' \in {toReceiver, <<>>}
    BY DEF Refusals, StartRefused, HandleChunk, DiskError, Close, Crash, PowerLoss,
           Reconnect, LaneLost, UserFile, Disconnect, noReceiver, senderSide, senderVars,
           receiverCore, netVars
  <1>9. UNCHANGED vars => /\ UNCHANGED <<sid, sDigest>> /\ starting' \subseteq starting
                          /\ toReceiver' \in {toReceiver, <<>>}
    BY DEF vars, senderVars, netVars
  <1> QED
    BY <1>1, <1>2, <1>3, <1>4, <1>5, <1>6, <1>7, <1>8, <1>9
       DEF Next, Quiescent, ReceiverHandlers, Environment

(* The offers stay apart. *)
LEMMA OfferNext ==
    ASSUME IInv, OfferInv, [Next]_vars
    PROVE  OfferInv'
  <1>1. toReceiver \in Seq(ToReceiver) /\ sid \in 0 .. MaxTransfers
    BY DEF IInv, NetTypeOK, SenderTypeOK
  <1>2. CASE SendFile
    <2> DEFINE m == [type |-> "file_start", id |-> sid + 1, ver |-> source.ver]
    <2>1. /\ toReceiver' = Append(toReceiver, m) /\ sid' = sid + 1
          /\ sDigest' = source.ver /\ starting' = starting
      BY <1>2 DEF SendFile, receiverSide
    <2>2. m \in ToReceiver
      BY <1>2, ProtocolAssumption DEF SendFile, IInv, SenderTypeOK, ToReceiver
    <2>3. \A k \in Range(toReceiver) : IsStart(k) => k.id <= sid
      BY DEF OfferInv
    <2>4. m.id = sid + 1 /\ m.ver = source.ver
      OBVIOUS
    <2>5. \A k \in Range(toReceiver) : k.id \in Nat
      <3>1. \A k \in ToReceiver : k.id \in Nat
        BY DEF ToReceiver
      <3> QED
        BY <1>1, <3>1, RangeOfSeq
    <2>6. \A o \in starting : o.id \in Nat /\ o.id <= sid
      BY DEF OfferInv, IInv, ReceiverTypeOK, Offer
    <2> HIDE DEF m
    <2>7. Distinct(toReceiver')
      BY <1>1, <2>1, <2>2, <2>3, <2>4, <2>5, DistinctAppend DEF OfferInv
    <2>8. Range(toReceiver') = Range(toReceiver) \cup {m}
      BY <1>1, <2>1, <2>2, RangeAppend
    <2>9. /\ \A o \in starting' : \A k \in Range(toReceiver') : IsStart(k) => k.id # o.id
          /\ \A o \in starting' : o.id <= sid' /\ (o.id = sid' => o.ver = sDigest')
      BY <1>1, <2>1, <2>4, <2>6, <2>8 DEF OfferInv
    <2>10. \A k \in Range(toReceiver') :
              IsStart(k) => k.id <= sid' /\ (k.id = sid' => k.ver = sDigest')
      BY <1>1, <2>1, <2>3, <2>4, <2>5, <2>8
    <2>11. \A o, p \in starting' : o.id = p.id => o = p
      BY <2>1 DEF OfferInv
    <2> QED
      BY <2>7, <2>9, <2>10, <2>11 DEF OfferInv
  <1>3. CASE /\ UNCHANGED <<sid, sDigest, starting>>
             /\ \E m \in ToReceiver : ~IsStart(m) /\ toReceiver' = Append(toReceiver, m)
    <2>1. PICK m \in ToReceiver : ~IsStart(m) /\ toReceiver' = Append(toReceiver, m)
      BY <1>3
    <2>2. Distinct(toReceiver')
      BY <1>1, <2>1, DistinctAppend DEF OfferInv
    <2>3. Range(toReceiver') = Range(toReceiver) \cup {m}
      BY <1>1, <2>1, RangeAppend
    <2> QED
      BY <1>3, <2>1, <2>2, <2>3 DEF OfferInv
  <1>4. CASE /\ UNCHANGED <<sid, sDigest>>
             /\ toReceiver # <<>> /\ toReceiver' = Tail(toReceiver)
             /\ IF IsStart(Head(toReceiver))
                THEN starting' = starting \cup
                        {[id |-> Head(toReceiver).id, ver |-> Head(toReceiver).ver]}
                ELSE UNCHANGED starting
    <2> DEFINE h == Head(toReceiver)
               o == [id |-> h.id, ver |-> h.ver]
    <2>1. /\ Distinct(toReceiver')
          /\ \A k \in Range(toReceiver') : IsStart(k) /\ IsStart(h) => k.id # h.id
      BY <1>1, <1>4, DistinctTail DEF OfferInv
    <2>2. Range(toReceiver') \subseteq Range(toReceiver) /\ h \in Range(toReceiver)
      BY <1>1, <1>4, RangeTail
    <2>3. starting' = starting \/ (IsStart(h) /\ starting' = starting \cup {o})
      BY <1>4
    <2>4. o.id = h.id /\ o.ver = h.ver
      OBVIOUS
    <2>5. IsStart(h) => h.id <= sid /\ (h.id = sid => h.ver = sDigest)
      BY <2>2 DEF OfferInv
    <2>6. IsStart(h) => \A p \in starting : p.id # h.id
      BY <2>2 DEF OfferInv
    <2> HIDE DEF h, o
    <2> QED
      BY <1>4, <2>1, <2>2, <2>3, <2>4, <2>5, <2>6 DEF OfferInv
  <1>5. CASE /\ UNCHANGED <<sid, sDigest>>
             /\ starting' \subseteq starting /\ toReceiver' \in {toReceiver, <<>>}
    <2>1. Range(toReceiver') \subseteq Range(toReceiver)
      BY <1>5, RangeEmpty
    <2>2. Distinct(toReceiver')
      BY <1>5 DEF OfferInv, Distinct
    <2> QED
      BY <1>5, <2>1, <2>2 DEF OfferInv
  <1> QED
    BY <1>2, <1>3, <1>4, <1>5, OffersStep DEF OffersChange

(* Whoever has been answered is never fresh again. *)
LEMMA FreshShrinks ==
    ASSUME IInv, [Next]_vars, NEW id \in TransferIDs, Fresh(id)'
    PROVE  Fresh(id)
  <1>1. toReceiver \in Seq(ToReceiver) /\ sid \in 0 .. MaxTransfers
    BY DEF IInv, NetTypeOK, SenderTypeOK
  <1>2. CASE SendFile
    <2> DEFINE m == [type |-> "file_start", id |-> sid + 1, ver |-> source.ver]
    <2>1. toReceiver' = Append(toReceiver, m) /\ sid' = sid + 1 /\ starting' = starting
      BY <1>2 DEF SendFile, receiverSide
    <2>2. m \in ToReceiver /\ m.id = sid + 1
      BY <1>2, ProtocolAssumption DEF SendFile, IInv, SenderTypeOK, ToReceiver
    <2> HIDE DEF m
    <2>3. Range(toReceiver') = Range(toReceiver) \cup {m}
      BY <1>1, <2>1, <2>2, RangeAppend
    <2> QED
      BY <1>1, <2>1, <2>2, <2>3 DEF Fresh, Offered
  <1>3. CASE /\ UNCHANGED <<sid, sDigest, starting>>
             /\ \E m \in ToReceiver : ~IsStart(m) /\ toReceiver' = Append(toReceiver, m)
    BY <1>1, <1>3, RangeAppend DEF Fresh, Offered
  <1>4. CASE /\ UNCHANGED <<sid, sDigest>>
             /\ toReceiver # <<>> /\ toReceiver' = Tail(toReceiver)
             /\ IF IsStart(Head(toReceiver))
                THEN starting' = starting \cup
                        {[id |-> Head(toReceiver).id, ver |-> Head(toReceiver).ver]}
                ELSE UNCHANGED starting
    <2>1. /\ Range(toReceiver') \subseteq Range(toReceiver)
          /\ Head(toReceiver) \in Range(toReceiver)
      BY <1>1, <1>4, RangeTail
    <2> QED
      BY <1>4, <2>1 DEF Fresh, Offered
  <1>5. CASE /\ UNCHANGED <<sid, sDigest>>
             /\ starting' \subseteq starting /\ toReceiver' \in {toReceiver, <<>>}
    BY <1>5, RangeEmpty DEF Fresh, Offered
  <1> QED
    BY <1>2, <1>3, <1>4, <1>5, OffersStep DEF OffersChange

(* A transfer enters the registry through startReceive, once and for all. *)
LEMMA RegistryStep ==
    ASSUME [Next]_vars
    PROVE  \/ rpc' = "none"
           \/ rpc # "none" /\ rid' = rid /\ rDigest' = rDigest
           \/ \E o \in starting : StartReceive(o)
  <1>1. CASE ReceiverSteps
    BY <1>1
       DEF ReceiverSteps, StartLoop, TakeChunk, TakeEnd, TakeCancel, EndDeadline, LoopClosed,
           WriteChunk, Sidecar, Sync, Drained, Complete, RemoveDestination, Rename, Unlink,
           FinishReceiver, Leave, ReceiveFailed, Finish, loopVars, Take
  <1>2. CASE HandleCancelOfReceiver
    BY <1>2 DEF HandleCancelOfReceiver, Registered, ReceiveFailed, Finish, loopVars
  <1>3. CASE DiskError \/ Crash \/ PowerLoss
    BY <1>3 DEF DiskError, Crash, PowerLoss, ReceiveFailed, Finish, noReceiver
  <1> QED
    BY <1>1, <1>2, <1>3, ReceiverFrame

(* startReceive has decided: the offer is gone. *)
LEMMA StartedIsNotFresh ==
    ASSUME IInv, OfferInv, NEW o \in starting, StartReceive(o) \/ StartRefused(o)
    PROVE  ~Fresh(o.id)'
  <1>1. starting' = starting \ {o} /\ UNCHANGED <<toReceiver, sid>>
    BY DEF StartReceive, StartRefused, senderSide, senderVars
  <1>2. o.id \in Nat /\ o.id <= sid /\ sid \in Nat
    BY DEF OfferInv, IInv, ReceiverTypeOK, Offer, SenderTypeOK
  <1> QED
    BY <1>1, <1>2 DEF OfferInv, Fresh, Offered

(* Chunks are sent by the running SendFile, once its offer is accepted. *)
LEMMA NewChunks ==
    ASSUME [Next]_vars, NEW c \in lanes', c \notin lanes
    PROVE  SendChunk /\ spc = "stream" /\ c.id = sid /\ c.ver = source.ver
  <1>1. SendFile \/ SenderHandlers \/ CtxDone \/ SendRefused \/ SourceChange \/ PeerCancel
           => UNCHANGED lanes
    BY DEF SendFile, SenderHandlers, CtxDone, SendRefused, SourceChange, PeerCancel,
           HandleAccept, HandleAck, HandleCancelOfSender, netVars
  <1>2. SenderSteps => SendChunk \/ UNCHANGED lanes
    BY DEF SenderSteps, Accepted, SendEnd, Block, Wake, WaitForBuffer, Completed, Cancelled,
           SenderTimeout, netVars
  <1>3. ReceiverSteps \/ Refusals => UNCHANGED lanes
    BY DEF ReceiverSteps, StartReceive, StartLoop, TakeChunk, TakeEnd, TakeCancel,
           EndDeadline, LoopClosed, WriteChunk, Sidecar, Sync, Drained, Complete,
           RemoveDestination, Rename, Unlink, FinishReceiver, Leave, senderSide,
           Refusals, StartRefused
  <1>4. ReceiverHandlers => lanes' \subseteq lanes
    BY DEF ReceiverHandlers, HandleFileStart, HandleFileEnd, HandleChunk,
           HandleCancelOfReceiver
  <1>5. DiskError \/ Close \/ Crash \/ PowerLoss \/ Reconnect \/ LaneLost \/ UserFile
           => lanes' \subseteq lanes
    BY DEF DiskError, Close, Crash, PowerLoss, Reconnect, LaneLost, UserFile, Disconnect,
           senderSide, netVars
  <1>6. UNCHANGED vars => UNCHANGED lanes
    BY DEF vars, netVars
  <1>7. SendChunk
    BY <1>1, <1>2, <1>3, <1>4, <1>5, <1>6 DEF Next, Quiescent, Environment
  <1> QED
    BY <1>7 DEF SendChunk

(* Nothing is said to a transfer that is neither registered nor leaving. *)
LEMMA SaidToRegistered ==
    ASSUME NoStaleCheckpoint, NEW m, Said(m), m.type # "file_cancel"
    PROVE  Registered(m.id)
  BY DEF Said, SaysAccept, SaysProgress, SaysCheckpoint, SaysCommit, NoStaleCheckpoint,
         Registered

LEMMA SaidByWhom ==
    ASSUME NEW m, Said(m), m.type # "file_cancel"
    PROVE  Registered(m.id) \/ \E l \in rLeaving : l.id = m.id
  BY DEF Said, SaysAccept, SaysProgress, SaysCheckpoint, SaysCommit, Registered

(* A goroutine that runs on was that of a registered transfer. *)
LEMMA LeavingIds ==
    ASSUME IInv, [Next]_vars, NEW k \in rLeaving'
    PROVE  \/ \E l \in rLeaving : l.id = k.id
           \/ Registered(k.id)
  <1>1. CASE \E l \in rLeaving : Leave(l)
    <2>1. PICK l \in rLeaving : Leave(l)
      BY <1>1
    <2>2. l \in Leaving /\ [l EXCEPT !.step = "meta"].id = l.id
      BY DEF IInv, ReceiverTypeOK, Leaving
    <2>3. k \in rLeaving \/ k = [l EXCEPT !.step = "meta"]
      BY <2>1 DEF Leave
    <2> QED
      BY <2>2, <2>3
  <1>2. CASE Complete
    BY <1>2 DEF Complete, Registered
  <1>3. CASE HandleCancelOfReceiver
    BY <1>3 DEF HandleCancelOfReceiver, Registered
  <1>4. CASE DiskError \/ Crash \/ PowerLoss
    BY <1>4 DEF DiskError, Crash, PowerLoss, noReceiver
  <1>6. CASE UNCHANGED rLeaving
    BY <1>6
  <1>7. ReceiverSteps => \/ \E l \in rLeaving : Leave(l)
                        \/ Complete
                        \/ UNCHANGED rLeaving
    BY DEF ReceiverSteps, StartReceive, StartLoop, TakeChunk, TakeEnd, TakeCancel,
           EndDeadline, LoopClosed, WriteChunk, Sidecar, Sync, Drained, RemoveDestination,
           Rename, Unlink, FinishReceiver
  <1> QED
    BY <1>1, <1>2, <1>3, <1>4, <1>6, <1>7, ReceiverFrame

(* SendFile does not move before it has an answer. *)
LEMMA SendingUntouched ==
    ASSUME IInv, CallInv, NEW id \in TransferIDs, Untouched(id), [Next]_vars, Sending(id)'
    PROVE  spc' = "waitAccept" /\ sAccept' = Empty /\ sAcked' = 0
  <1>1. CASE SendFile
    BY <1>1 DEF SendFile, CallInv
  <1>2. CASE UNCHANGED <<spc, sid, sAccept, sAcked>>
    BY <1>2 DEF Untouched, Sending
  <1>3. ASSUME toSender # <<>>, Head(toSender).type # "file_cancel"
        PROVE  Head(toSender).id # id
    <2>1. Head(toSender) \in Range(toSender)
      BY <1>3, RangeTail DEF IInv, NetTypeOK
    <2> QED
      BY <1>3, <2>1 DEF Untouched
  <1>4. CASE SenderHandlers
    <2>1. UNCHANGED <<spc, sid>>
      BY <1>4 DEF SenderHandlers, HandleAccept, HandleAck, HandleCancelOfSender
    <2>2. HandleAccept \/ HandleAck => UNCHANGED <<sAccept, sAcked>>
      BY <1>3, <2>1 DEF HandleAccept, HandleAck, Sending
    <2>3. HandleCancelOfSender => UNCHANGED <<sAccept, sAcked>>
      BY DEF HandleCancelOfSender
    <2> QED
      BY <1>2, <1>4, <2>1, <2>2, <2>3 DEF SenderHandlers
  <1>5. CASE SenderSteps \/ CtxDone \/ SendRefused \/ PeerCancel
    <2>1. spc' # "idle" => sid' = sid /\ spc # "idle"
      BY <1>5
         DEF SenderSteps, CtxDone, SendRefused, PeerCancel, Accepted, SendChunk, SendEnd,
             Block, Wake, WaitForBuffer, Completed, Cancelled, SenderTimeout,
             SenderReturn
    <2>2. spc = "waitAccept" /\ sAccept = Empty
      BY <2>1 DEF Untouched, Sending
    <2> QED
      BY <1>5, <2>1, <2>2
         DEF Sending, SenderSteps, CtxDone, SendRefused, PeerCancel, Accepted, SendChunk,
             SendEnd, Block, Wake, WaitForBuffer, Completed, Cancelled, SenderTimeout,
             SenderReturn
  <1>6. SourceChange \/ UNCHANGED senderVars => UNCHANGED <<spc, sid, sAccept, sAcked>>
    BY DEF SourceChange, senderVars
  <1> QED
    BY <1>1, <1>2, <1>4, <1>5, <1>6, SenderFrame

(* Only startReceive leaves a trace of such a transfer. *)
LEMMA UntouchedNext ==
    ASSUME IInv, CallInv, NEW id \in TransferIDs, Untouched(id), [Next]_vars,
           \A o \in starting : StartReceive(o) => o.id # id
    PROVE  Untouched(id)'
  <1>1. ASSUME NEW m \in Range(toSender'), m.type # "file_cancel"
        PROVE  m.id # id
    BY <1>1, NewMessages, SaidByWhom DEF NothingElseSaid, Untouched
  <1>2. ASSUME NEW c \in lanes'
        PROVE  c.id # id
    <2>1. CASE c \in lanes
      BY <2>1 DEF Untouched
    <2>2. CASE c \notin lanes
      BY <2>2, NewChunks DEF Untouched, Sending
    <2> QED
      BY <2>1, <2>2
  <1>3. ~Registered(id)'
    BY RegistryStep DEF Registered, Untouched, StartReceive
  <1>4. id \notin committed'
    BY CommittedGrows DEF Untouched, Registered, Rename
  <1>5. Sending(id)' => spc' = "waitAccept" /\ sAccept' = Empty /\ sAcked' = 0
    BY SendingUntouched
  <1>6. \A l \in rLeaving' : l.id # id
    BY LeavingIds DEF Untouched
  <1> QED
    BY <1>1, <1>2, <1>3, <1>4, <1>5, <1>6 DEF Untouched

(* There is no trace of a transfer before startReceive decides about it. *)
LEMMA FreshNext ==
    ASSUME IInv, CallInv, OfferInv, FreshInv, [Next]_vars
    PROVE  FreshInv'
  <1> SUFFICES ASSUME NEW id \in TransferIDs, Fresh(id)'
               PROVE  Untouched(id)'
    BY DEF FreshInv
  <1>1. Untouched(id)
    BY FreshShrinks DEF FreshInv
  <1>2. \A o \in starting : StartReceive(o) => o.id # id
    BY StartedIsNotFresh
  <1> QED
    BY <1>1, <1>2, UntouchedNext

(* The registered transfer keeps the digest of its offer. *)
LEMMA DigestNext ==
    ASSUME IInv, OfferInv, FreshInv, DigestInv, [Next]_vars
    PROVE  DigestInv'
  <1>1. CASE SendFile
    <2>1. sid' = sid + 1 /\ sid' \in TransferIDs /\ UNCHANGED <<rpc, rid>>
      BY <1>1, ProtocolAssumption DEF SendFile, IInv, SenderTypeOK, receiverSide, loopVars
    <2>2. Fresh(sid')
      BY <2>1 DEF Fresh, IInv, SenderTypeOK
    <2>3. ~Registered(sid')
      BY <2>1, <2>2 DEF FreshInv, Untouched
    <2> QED
      BY <2>1, <2>3 DEF DigestInv, Registered
  <1>2. CASE UNCHANGED <<sid, sDigest>>
    <2>1. ASSUME NEW o \in starting, StartReceive(o)
          PROVE  DigestInv'
      BY <1>2, <2>1 DEF StartReceive, OfferInv, DigestInv, Registered
    <2> QED
      BY <1>2, <2>1, RegistryStep DEF DigestInv, Registered
  <1> QED
    BY <1>1, <1>2, OffersStep DEF OffersChange

-----------------------------------------------------------------------------
(* Proofs about the disk *)

(* What receiveLoop does with the chunk it writes. *)
WritesChunk(c) ==
    /\ c \in rPending /\ c \in Chunk /\ c.offset = rExpected /\ c.index = rIndex
    /\ rPending' = rPending \ {c}
    /\ part'.data = part.data \o ChunkData(c)
    /\ rExpected' = rExpected + c.length /\ rExpected' = Len(part'.data)

(* The bytes that a failing write gets through are the first of its chunk. *)
PartlyWrites(c, n) ==
    /\ c \in rPending /\ c \in Chunk /\ c.offset = rExpected /\ n \in 0 .. c.length
    /\ part'.data = part.data \o Content(c.ver, rExpected, n)

(* A write appends to the part file. *)
LEMMA WriteChunkFacts ==
    ASSUME IInv, NEW late \in BOOLEAN, WriteChunk(late)
    PROVE  /\ \E c \in rPending : WritesChunk(c)
           /\ part'.synced = part.synced /\ part'.present = part.present
           /\ rpc = "drain" /\ rpc' \in {"sync", "drain"}
           /\ rpc' = "drain" => rExpected' # Size
           /\ UNCHANGED <<rid, rDigest, rDurable, meta, committed, rEvents, rEnd, lanes,
                          toReceiver, starting, cancelSender>>
           /\ UNCHANGED senderVars
  <1>1. PICK c \in NextPending :
           /\ c.offset = rExpected
           /\ rPending' = rPending \ {c}
           /\ part' = [part EXCEPT !.data = WriteAt(@, rExpected, ChunkData(c))]
           /\ rExpected' = rExpected + c.length
           /\ IF CheckpointDue(rExpected + c.length)
              THEN rpc' = "sync"
              ELSE rpc' = "drain"
    BY DEF WriteChunk
  <1>2. c \in Chunk /\ c \in rPending /\ c.index = rIndex
    BY DEF NextPending, IInv, ReceiverTypeOK
  <1> DEFINE d == ChunkData(c)
  <1>3. d \in Seq(Byte) /\ Len(d) = c.length
    BY <1>2, ContentType DEF Chunk, ChunkData
  <1>4. /\ rpc = "drain" /\ part.data \in Seq(Byte) /\ Len(part.data) = rExpected
        /\ part \in [present : BOOLEAN, data : Seq(Byte), synced : Nat]
    BY DEF WriteChunk, IInv, PartInv, Streaming, DiskTypeOK
  <1> HIDE DEF d
  <1>5. WriteAt(part.data, rExpected, d) = part.data \o d
    BY <1>3, <1>4, WriteAtEnd
  <1>6. Len(part.data \o d) = rExpected + c.length
    <2>1. Len(part.data \o d) = Len(part.data) + Len(d)
      BY <1>3, <1>4, ConcatProperties
    <2> QED
      BY <1>3, <1>4, <2>1
  <1>7. part'.data = part.data \o d /\ part'.synced = part.synced
        /\ part'.present = part.present
    BY <1>1, <1>4, <1>5 DEF d
  <1>8. WritesChunk(c)
    BY <1>1, <1>2, <1>6, <1>7 DEF WritesChunk, d
  <1>9. rpc' \in {"sync", "drain"} /\ (rpc' = "drain" => rExpected' # Size)
    BY <1>1 DEF CheckpointDue
  <1> QED
    BY <1>2, <1>4, <1>7, <1>8, <1>9 DEF WriteChunk, senderSide

(* A file operation that fails leaves a longer part file, or the same. *)
LEMMA DiskErrorFacts ==
    ASSUME IInv, DiskError
    PROVE  /\ rpc' = "none"
           /\ part'.synced = part.synced /\ part'.present = part.present
           /\ \/ UNCHANGED part
              \/ rpc = "drain" /\ \E c \in rPending, n \in Nat : PartlyWrites(c, n)
           /\ Len(part'.data) \in Nat /\ Len(part'.data) >= Len(part.data)
           /\ UNCHANGED meta
  <1>1. rpc' = "none" /\ UNCHANGED meta
    BY DEF DiskError, ReceiveFailed, Finish
  <1>2. part.data \in Seq(Byte)
        /\ part \in [present : BOOLEAN, data : Seq(Byte), synced : Nat]
    BY DEF IInv, DiskTypeOK
  <1>3. CASE UNCHANGED part
    BY <1>1, <1>2, <1>3
  <1>4. CASE rpc = "drain" /\ ~UNCHANGED part
    <2>1. PICK c \in NextPending, n \in Nat :
             /\ n \in 0 .. c.length /\ c.offset = rExpected
             /\ part' = [part EXCEPT !.data =
                            WriteAt(@, rExpected, Content(c.ver, c.offset, n))]
      <3>1. PICK c \in NextPending : \E n \in 0 .. c.length :
               /\ c.offset = rExpected
               /\ part' = [part EXCEPT !.data =
                              WriteAt(@, rExpected, Content(c.ver, c.offset, n))]
        BY <1>4 DEF DiskError
      <3>2. c.length \in Nat
        BY DEF NextPending, IInv, ReceiverTypeOK, Chunk
      <3> QED
        BY <3>1, <3>2
    <2>2. c \in Chunk /\ c \in rPending
      BY DEF NextPending, IInv, ReceiverTypeOK
    <2> DEFINE d == Content(c.ver, rExpected, n)
    <2>3. d \in Seq(Byte) /\ Len(d) = n
      BY <2>1, <2>2, ContentType DEF Chunk
    <2>4. Len(part.data) = rExpected
      BY <1>4 DEF IInv, PartInv, Streaming
    <2> HIDE DEF d
    <2>5. WriteAt(part.data, rExpected, d) = part.data \o d
      BY <1>2, <2>3, <2>4, WriteAtEnd
    <2>6. Len(part.data \o d) = Len(part.data) + n
      BY <1>2, <2>3, ConcatProperties
    <2>7. part'.data = part.data \o d /\ part'.synced = part.synced
          /\ part'.present = part.present
      BY <1>2, <2>1, <2>5 DEF d
    <2>8. PartlyWrites(c, n)
      BY <2>1, <2>2, <2>7 DEF PartlyWrites, d
    <2> QED
      BY <1>1, <1>2, <1>4, <2>1, <2>2, <2>6, <2>7, <2>8
  <1> QED
    BY <1>3, <1>4 DEF DiskError

(* A power failure cuts the part file, but not into what was synced. *)
LEMMA PowerLossFacts ==
    ASSUME IInv, SyncInv, PowerLoss
    PROVE  /\ rpc' = "none"
           /\ \E k \in part.synced .. Len(part.data) :
                 /\ part'.data = SubSeq(part.data, 1, k) /\ part'.synced = k
                 /\ Len(part'.data) = k
                 /\ \A i \in 1 .. k : part'.data[i] = part.data[i]
           /\ part'.present = part.present
           /\ UNCHANGED meta \/ ~meta'.present
  <1>1. part \in [present : BOOLEAN, data : Seq(Byte), synced : Nat]
        /\ part.data \in Seq(Byte) /\ Len(part.data) \in Nat /\ part.synced \in Nat
        /\ part.synced <= Len(part.data)
    BY DEF IInv, DiskTypeOK, SyncInv
  <1>2. PICK k \in SmallerOf(part.synced, Len(part.data)) .. Len(part.data) :
           part' = [part EXCEPT !.data = SubSeq(@, 1, k), !.synced = k]
    BY DEF PowerLoss
  <1>3. k \in part.synced .. Len(part.data)
    BY <1>1, <1>2 DEF SmallerOf
  <1>4. part'.data = SubSeq(part.data, 1, k) /\ part'.synced = k
        /\ part'.present = part.present
    BY <1>1, <1>2
  <1>5. Len(SubSeq(part.data, 1, k)) = k
        /\ \A i \in 1 .. k : SubSeq(part.data, 1, k)[i] = part.data[i]
    BY <1>1, <1>3, SubSeqProperties
  <1>6. rpc' = "none" /\ (UNCHANGED meta \/ ~meta'.present)
    BY DEF PowerLoss, noReceiver, NoMeta
  <1> QED
    BY <1>3, <1>4, <1>5, <1>6

(* What matchingPartial has looked at. *)
LEMMA ResumedPart ==
    ASSUME IInv, NEW o, ResumePoint(o) # 0
    PROVE  /\ meta.present /\ part.present /\ meta.ver = o.ver
           /\ ResumePoint(o) = meta.n /\ Len(part.data) = meta.n
           /\ meta.n <= Size /\ meta.n % ChunkSize = 0
  BY DEF ResumePoint, MatchingPartial

(* The steps of a receiveLoop that leaves its files alone. *)
LEMMA LoopFacts ==
    ASSUME TakeChunk \/ TakeEnd \/ TakeCancel \/ EndDeadline \/ LoopClosed \/ Drained
    PROVE  /\ UNCHANGED <<part, meta>>
           /\ rpc \in {"loop", "drain"}
           /\ \/ rpc' = "none"
              \/ /\ rpc' \in {"loop", "drain", "complete"}
                 /\ rpc' = "complete" => rExpected = Size
                 /\ UNCHANGED <<rid, rDigest, rExpected, rDurable>>
  BY DEF TakeChunk, TakeEnd, TakeCancel, EndDeadline, LoopClosed, Drained, Take,
         ReceiveFailed, Finish, AfterComplete, loopVars, diskVars

(* The steps of a receiveLoop that commits. *)
LEMMA CommitFacts ==
    ASSUME Complete \/ RemoveDestination \/ FinishReceiver
    PROVE  /\ UNCHANGED <<part, meta>>
           /\ \/ rpc' = "none"
              \/ /\ rpc \in {"complete", "remove"} /\ rpc' \in {"remove", "rename"}
                 /\ UNCHANGED <<rid, rDigest, rExpected, rDurable, rHash, rPending, rEvents>>
  BY DEF Complete, RemoveDestination, FinishReceiver, ReceiveFailed, Finish, loopVars,
         diskVars

(* What the loop relies on stays synced. *)
LEMMA SyncNext ==
    ASSUME IInv, SyncInv, MetaInv, [Next]_vars
    PROVE  SyncInv'
  <1>1. /\ part \in [present : BOOLEAN, data : Seq(Byte), synced : Nat]
        /\ part.data \in Seq(Byte) /\ Len(part.data) \in Nat /\ part.synced \in Nat
        /\ rExpected \in Nat /\ rDurable \in Nat
    BY DEF IInv, DiskTypeOK, ReceiverTypeOK
  <1>2. ASSUME NEW o \in starting, StartReceive(o)
        PROVE  SyncInv'
    <2> DEFINE n == ResumePoint(o)
    <2>1. /\ part' = IF n = 0 THEN [present |-> TRUE, data |-> <<>>, synced |-> 0] ELSE part
          /\ rExpected' = n /\ rDurable' = n /\ rpc' = "opened"
      BY <1>2 DEF StartReceive
    <2>2. n # 0 => n <= part.synced
      BY <1>1, ResumedPart DEF MetaInv
    <2>3. n \in Nat
      BY ResumePointType
    <2> HIDE DEF n
    <2> QED
      BY <1>1, <2>1, <2>2, <2>3, ProtocolAssumption DEF SyncInv, Streaming
  <1>3. CASE StartLoop
    BY <1>1, <1>3, ProtocolAssumption DEF StartLoop, SyncInv, Streaming
  <1>4. CASE TakeChunk \/ TakeEnd \/ TakeCancel \/ EndDeadline \/ LoopClosed \/ Drained
    BY <1>4, LoopFacts DEF SyncInv, Streaming
  <1>5. ASSUME NEW late \in BOOLEAN, WriteChunk(late)
        PROVE  SyncInv'
    <2>1. PICK c \in rPending : WritesChunk(c)
      BY <1>5, WriteChunkFacts
    <2>2. /\ rExpected' = Len(part'.data) /\ rExpected' = rExpected + c.length
          /\ c.length \in Nat /\ part'.synced = part.synced /\ UNCHANGED rDurable
          /\ rpc = "drain" /\ rpc' \in {"sync", "drain"}
          /\ rpc' = "drain" => rExpected' # Size
      BY <1>5, <2>1, WriteChunkFacts DEF WritesChunk, Chunk
    <2>3. rExpected = Len(part.data)
      BY <2>2 DEF IInv, PartInv, Streaming
    <2> QED
      BY <1>1, <2>2, <2>3 DEF SyncInv, Streaming
  <1>6. CASE Sync
    <2>1. /\ part'.synced = Len(part.data) /\ part'.data = part.data
          /\ rDurable' = rExpected /\ rpc' = "sidecar" /\ rExpected' = rExpected
          /\ Len(part.data) = rExpected
      BY <1>1, <1>6 DEF Sync, IInv, PartInv, Streaming
    <2> QED
      BY <1>1, <2>1, ProtocolAssumption DEF SyncInv, Streaming
  <1>7. ASSUME NEW late \in BOOLEAN, Sidecar(late)
        PROVE  SyncInv'
    BY <1>1, <1>7 DEF Sidecar, SyncInv, Streaming
  <1>8. CASE Complete \/ RemoveDestination \/ FinishReceiver
    BY <1>8, CommitFacts DEF SyncInv, Streaming
  <1>9. CASE Rename
    BY <1>1, <1>9 DEF Rename, ReceiveFailed, Finish, NoFile, SyncInv, Streaming
  <1>10. CASE Unlink
    BY <1>10 DEF Unlink, SyncInv, Streaming
  <1>11. ASSUME NEW l \in rLeaving, Leave(l)
         PROVE  SyncInv'
    <2>1. part'.data = part.data /\ part'.synced = part.synced
          /\ UNCHANGED <<rpc, rExpected, rDurable>>
      BY <1>1, <1>11 DEF Leave, loopVars
    <2> QED
      BY <2>1 DEF SyncInv
  <1>12. CASE HandleCancelOfReceiver
    <2>1. UNCHANGED part /\ (rpc' = "none" \/ UNCHANGED <<rpc, rExpected, rDurable>>)
      BY <1>12 DEF HandleCancelOfReceiver, ReceiveFailed, Finish, loopVars, diskVars
    <2> QED
      BY <2>1 DEF SyncInv, Streaming
  <1>13. CASE DiskError
    <2>1. /\ rpc' = "none" /\ part'.synced = part.synced
          /\ Len(part'.data) \in Nat /\ Len(part'.data) >= Len(part.data)
      BY <1>13, DiskErrorFacts
    <2> QED
      BY <1>1, <2>1 DEF SyncInv, Streaming
  <1>14. CASE Crash
    BY <1>14 DEF Crash, noReceiver, diskVars, SyncInv, Streaming
  <1>15. CASE PowerLoss
    BY <1>15, PowerLossFacts DEF SyncInv, Streaming
  <1>16. CASE UNCHANGED <<rpc, rid, rDigest, rPending, rExpected, rIndex, rHash, rDurable,
                          rProgress, rEnd, rLeaving, part, meta, committed>>
    BY <1>16 DEF SyncInv
  <1> QED
    BY <1>2, <1>3, <1>4, <1>5, <1>6, <1>7, <1>8, <1>9, <1>10, <1>11, <1>12, <1>13, <1>14,
       <1>15, <1>16, ReceiverFrame DEF ReceiverSteps

(* The sidecar never claims more than was synced. *)
LEMMA MetaNext ==
    ASSUME IInv, SyncInv, MetaInv, NoStaleCheckpoint, [Next]_vars
    PROVE  MetaInv'
  <1>1. /\ part \in [present : BOOLEAN, data : Seq(Byte), synced : Nat]
        /\ part.data \in Seq(Byte) /\ Len(part.data) \in Nat /\ part.synced \in Nat
        /\ rExpected \in Nat /\ rDurable \in Nat /\ meta.n \in Nat
    BY DEF IInv, DiskTypeOK, ReceiverTypeOK
  <1>2. ASSUME NEW o \in starting, StartReceive(o)
        PROVE  MetaInv'
    <2>1. part' = part \/ (part'.data = <<>> /\ part'.synced = 0)
      BY <1>2 DEF StartReceive
    <2>2. UNCHANGED meta /\ rpc' = "opened"
      BY <1>2 DEF StartReceive
    <2> QED
      BY <1>1, <2>1, <2>2 DEF MetaInv, Streaming
  <1>3. CASE StartLoop
    <2>1. meta'.n = rExpected /\ UNCHANGED part /\ rExpected <= part.synced
      BY <1>3 DEF StartLoop, SyncInv, Streaming
    <2> QED
      BY <2>1 DEF MetaInv
  <1>4. CASE TakeChunk \/ TakeEnd \/ TakeCancel \/ EndDeadline \/ LoopClosed \/ Drained
    BY <1>4, LoopFacts DEF MetaInv, Streaming
  <1>5. ASSUME NEW late \in BOOLEAN, WriteChunk(late)
        PROVE  MetaInv'
    BY <1>5, WriteChunkFacts DEF MetaInv, Streaming
  <1>6. CASE Sync
    <2>1. /\ part'.synced = Len(part.data) /\ part'.data = part.data
          /\ part'.present = part.present /\ UNCHANGED meta /\ rpc = "sync"
          /\ part.synced <= Len(part.data)
      BY <1>1, <1>6 DEF Sync, SyncInv
    <2> QED
      BY <1>1, <2>1 DEF MetaInv, Streaming
  <1>7. ASSUME NEW late \in BOOLEAN, Sidecar(late)
        PROVE  MetaInv'
    <2>1. meta'.n = rDurable /\ UNCHANGED part /\ rDurable <= part.synced
      BY <1>7 DEF Sidecar, SyncInv, Streaming
    <2> QED
      BY <2>1 DEF MetaInv
  <1>8. CASE Complete \/ RemoveDestination \/ FinishReceiver
    BY <1>8, CommitFacts DEF MetaInv, Streaming
  <1>9. CASE Rename
    BY <1>9 DEF Rename, ReceiveFailed, Finish, NoFile, MetaInv, Streaming
  <1>10. CASE Unlink
    BY <1>10 DEF Unlink, NoMeta, MetaInv, Streaming
  <1>11. ASSUME NEW l \in rLeaving, Leave(l)
         PROVE  MetaInv'
    <2>1. l.step # "sidecar"
      BY DEF NoStaleCheckpoint
    <2>2. part'.data = part.data /\ part'.synced = part.synced
          /\ (part'.present => part.present) /\ UNCHANGED rpc
      BY <1>1, <1>11 DEF Leave
    <2>3. UNCHANGED meta \/ ~meta'.present
      BY <1>11, <2>1 DEF Leave, NoMeta
    <2> QED
      BY <2>2, <2>3 DEF MetaInv
  <1>12. CASE HandleCancelOfReceiver
    <2>1. UNCHANGED <<part, meta>> /\ (rpc' = "none" \/ UNCHANGED rpc)
      BY <1>12 DEF HandleCancelOfReceiver, ReceiveFailed, Finish, diskVars
    <2> QED
      BY <2>1 DEF MetaInv, Streaming
  <1>13. CASE DiskError
    <2>1. /\ rpc' = "none" /\ part'.synced = part.synced /\ UNCHANGED meta
          /\ part'.present = part.present /\ (UNCHANGED part \/ rpc = "drain")
      BY <1>13, DiskErrorFacts
    <2> QED
      BY <1>1, <2>1 DEF MetaInv, Streaming
  <1>14. CASE Crash
    BY <1>14 DEF Crash, noReceiver, diskVars, MetaInv, Streaming
  <1>15. CASE PowerLoss
    <2>1. PICK k \in part.synced .. Len(part.data) : part'.synced = k /\ Len(part'.data) = k
      BY <1>15, PowerLossFacts
    <2>2. rpc' = "none" /\ (UNCHANGED meta \/ ~meta'.present)
      BY <1>15, PowerLossFacts
    <2> QED
      BY <1>1, <2>1, <2>2 DEF MetaInv, Streaming
  <1>16. CASE UNCHANGED <<rpc, rid, rDigest, rPending, rExpected, rIndex, rHash, rDurable,
                          rProgress, rEnd, rLeaving, part, meta, committed>>
    BY <1>16 DEF MetaInv
  <1> QED
    BY <1>2, <1>3, <1>4, <1>5, <1>6, <1>7, <1>8, <1>9, <1>10, <1>11, <1>12, <1>13, <1>14,
       <1>15, <1>16, ReceiverFrame DEF ReceiverSteps

-----------------------------------------------------------------------------
(* Proofs about acknowledgements *)

(* While a transfer stays registered, what is durable stays so. *)
LEMMA DurableStays ==
    ASSUME IInv, SyncInv, [Next]_vars, rpc # "none", rpc' # "none", NEW n \in Nat,
           DurableAt(rid, n)
    PROVE  rid' = rid /\ (rid \in committed' \/ n <= part'.synced)
  <1>1. rid' = rid
    BY RegistryStep DEF StartReceive
  <1>2. part \in [present : BOOLEAN, data : Seq(Byte), synced : Nat]
        /\ part.synced \in Nat /\ Len(part.data) \in Nat /\ part.synced <= Len(part.data)
    BY DEF IInv, DiskTypeOK, SyncInv
  <1>3. committed \subseteq committed'
    BY CommittedGrows
  <1>4. \/ part'.synced \in Nat /\ part.synced <= part'.synced
        \/ rid \in committed'
    <2>1. CASE ReceiverSteps
      <3>1. ASSUME NEW o \in starting, StartReceive(o)
            PROVE  FALSE
        BY <3>1 DEF StartReceive
      <3>2. ASSUME NEW late \in BOOLEAN, WriteChunk(late) \/ Sidecar(late)
            PROVE  part'.synced = part.synced
        BY <3>2, WriteChunkFacts DEF Sidecar
      <3>3. StartLoop \/ Unlink => UNCHANGED part
        BY DEF StartLoop, Unlink
      <3>4. Sync => part'.synced = Len(part.data)
        BY <1>2 DEF Sync
      <3>5. Rename => rid \in committed'
        BY DEF Rename, ReceiveFailed, Finish
      <3>6. ASSUME NEW l \in rLeaving, Leave(l)
            PROVE  part'.synced = part.synced
        BY <1>2, <3>6 DEF Leave
      <3> QED
        BY <1>2, <2>1, <3>1, <3>2, <3>3, <3>4, <3>5, <3>6, LoopFacts, CommitFacts
           DEF ReceiverSteps
    <2>2. HandleCancelOfReceiver => UNCHANGED part
      BY DEF HandleCancelOfReceiver, diskVars
    <2>3. DiskError \/ Crash \/ PowerLoss => FALSE
      BY DEF DiskError, Crash, PowerLoss, ReceiveFailed, Finish, noReceiver
    <2> QED
      BY <1>2, <2>1, <2>2, <2>3, ReceiverFrame
  <1> QED
    BY <1>1, <1>2, <1>3, <1>4 DEF DurableAt

(* What is said about durability is true when it is said. *)
LEMMA PromisesTrue ==
    ASSUME IInv, IInv', SyncInv, NoStaleCheckpoint, [Next]_vars, NEW m \in ToSender, Said(m),
           Promises(m), Registered(m.id)
    PROVE  DurableAt(m.id, m.n) \/ (rpc = "unlink" /\ rpc' = "finish" /\ m.id = rid)
  <1>1. part.synced \in Nat /\ rDurable \in Nat /\ m.n \in Nat
    BY DEF IInv, DiskTypeOK, ReceiverTypeOK, ToSender
  <1>2. SaysAccept(m) => DurableAt(m.id, m.n)
    BY <1>1 DEF SaysAccept, SyncInv, Streaming, DurableAt
  <1>3. SaysCheckpoint(m) => DurableAt(m.id, m.n)
    BY <1>1 DEF SaysCheckpoint, NoStaleCheckpoint, SyncInv, Streaming, DurableAt
  <1>4. ~SaysProgress(m)
    BY <1>1, ProtocolAssumption DEF SaysProgress, ProgressType, Promises
  <1>5. m.type # "file_cancel"
    BY DEF Promises
  <1> QED
    BY <1>2, <1>3, <1>4, <1>5 DEF Said, SaysCommit

(* An answer that SendFile takes for its own was promised. *)
LEMMA HeadPromise ==
    ASSUME IInv, PromiseInv, toSender # <<>>, rpc # "none", Head(toSender).id = rid,
           Promises(Head(toSender))
    PROVE  DurableAt(rid, Head(toSender).n)
  <1>1. Head(toSender) \in Range(toSender)
    BY RangeTail DEF IInv, NetTypeOK
  <1> QED
    BY <1>1 DEF PromiseInv, Registered

(* What the running SendFile has recorded remains durable. *)
LEMMA RecordedNext ==
    ASSUME IInv, CallInv, OfferInv, FreshInv, SyncInv, PromiseInv, [Next]_vars,
           rpc' # "none", Sending(rid)'
    PROVE  Recorded'
  <1>1. sAccept \in Nat \cup {Empty} /\ sAcked \in Nat /\ part.synced \in Nat
    BY DEF IInv, SenderTypeOK, DiskTypeOK
  <1>2. IInv'
    BY NextInv
  <1>3. part'.synced \in Nat
    BY <1>2 DEF IInv, DiskTypeOK
  <1>4. ASSUME NEW o \in starting, StartReceive(o)
        PROVE  sAccept' = Empty /\ sAcked' = 0
    <2>1. rid' = o.id /\ UNCHANGED <<spc, sid, sAccept, sAcked>>
      BY <1>4 DEF StartReceive, senderSide, senderVars
    <2>2. o.id \in TransferIDs /\ Fresh(o.id)
      BY DEF IInv, ReceiverTypeOK, Offer, Fresh, Offered
    <2>3. Sending(o.id)
      BY <2>1 DEF Sending
    <2> QED
      BY <2>1, <2>2, <2>3 DEF FreshInv, Untouched
  <1>5. CASE \E o \in starting : StartReceive(o)
    BY <1>3, <1>4, <1>5 DEF DurableAt, Recorded
  <1>6. CASE rpc # "none" /\ SendFile
    <2>1. sAccept' = Empty /\ sAcked' = 0
      BY <1>6 DEF SendFile, CallInv
    <2> QED
      BY <1>3, <2>1 DEF DurableAt, Recorded
  <1>7. CASE rpc # "none" /\ ~SendFile
    <2>1. rid' = rid /\ spc # "idle" /\ sid = rid
      BY <1>7, RegistryStep, SenderFrame
         DEF StartReceive, Sending, SenderSteps, SenderHandlers, CtxDone, SendRefused,
             PeerCancel, SourceChange, Accepted, SendChunk, SendEnd, Block, Wake,
             WaitForBuffer, Completed, Cancelled, SenderTimeout, SenderReturn,
             HandleAccept, HandleAck, HandleCancelOfSender, senderVars
    <2>2. /\ sAccept # Empty => DurableAt(rid, sAccept)
          /\ rid \in ProgressAck \/ sAcked >= Size => DurableAt(rid, sAcked)
      BY <1>7, <2>1 DEF PromiseInv, Sending, Recorded
    <2> DEFINE Before(n) == rid \in committed \/ n <= part.synced
               After(n) == rid' \in committed' \/ n <= part'.synced
    <2>8. \A n \in Nat : Before(n) => After(n)
      BY <1>7, <2>1, DurableStays DEF DurableAt
    <2>9. /\ sAccept # Empty => Before(sAccept)
          /\ rid \in ProgressAck \/ sAcked >= Size => Before(sAcked)
      BY <2>2 DEF DurableAt
    <2>10. ASSUME /\ sAccept' # Empty => After(sAccept')
                  /\ rid' \in ProgressAck \/ sAcked' >= Size => After(sAcked')
           PROVE  Recorded'
      BY <2>10 DEF Recorded, DurableAt
    <2> HIDE DEF Before, After
    <2>3. CASE UNCHANGED <<sAccept, sAcked>>
      BY <1>1, <2>1, <2>3, <2>8, <2>9, <2>10
    <2>4. CASE HandleAccept
      <3>1. Head(toSender).n \in Nat
        BY <2>4, ToSenderHead DEF HandleAccept, IInv
      <3>2. /\ UNCHANGED sAcked
            /\ \/ UNCHANGED sAccept
               \/ /\ sAccept' = Head(toSender).n /\ toSender # <<>>
                  /\ Head(toSender).id = rid /\ Promises(Head(toSender))
        BY <2>1, <2>4 DEF HandleAccept, Sending, Promises
      <3>3. UNCHANGED sAccept \/ Before(Head(toSender).n)
        BY <1>7, <3>2, HeadPromise DEF Before, DurableAt
      <3> QED
        BY <1>1, <1>7, <2>1, <2>8, <2>9, <2>10, <3>1, <3>2, <3>3
    <2>5. CASE HandleAck
      <3>1. Head(toSender).n \in Nat
        BY <2>5, ToSenderHead DEF HandleAck, IInv
      <3>2. /\ UNCHANGED sAccept
            /\ \/ UNCHANGED sAcked
               \/ /\ sAcked' = LargerOf(sAcked, Head(toSender).n) /\ toSender # <<>>
                  /\ Head(toSender).id = rid /\ Head(toSender).type = "file_ack"
        BY <2>1, <2>5 DEF HandleAck, Sending
      <3>3. \/ UNCHANGED sAcked
            \/ sAcked' = Head(toSender).n /\ toSender # <<>> /\ Head(toSender).id = rid
               /\ Head(toSender).type = "file_ack"
        BY <1>1, <3>1, <3>2 DEF LargerOf
      <3>4. \/ UNCHANGED sAcked
            \/ /\ sAcked' = Head(toSender).n
               /\ rid \in ProgressAck \/ sAcked' >= Size => Before(Head(toSender).n)
        BY <1>7, <3>3, HeadPromise DEF Promises, Before, DurableAt
      <3> QED
        BY <1>1, <2>1, <2>8, <2>9, <2>10, <3>1, <3>2, <3>4
    <2>6. CASE Accepted
      <3>1. /\ sAccept # Empty /\ sAccept' = Empty /\ sAcked' = ResumeOffset(sAccept)
            /\ ResumeOffset(sAccept) \in {0, sAccept}
        BY <2>6 DEF Accepted, ResumeOffset
      <3>2. Before(0)
        BY <1>1 DEF Before
      <3> QED
        BY <1>1, <2>1, <2>8, <2>9, <2>10, <3>1, <3>2
    <2>7. SendChunk \/ SendEnd \/ Block \/ Wake \/ WaitForBuffer \/ Completed \/ Cancelled
          \/ SenderTimeout \/ CtxDone \/ SendRefused \/ PeerCancel \/ HandleCancelOfSender \/ SourceChange
          \/ UNCHANGED senderVars => UNCHANGED <<sAccept, sAcked>>
      BY DEF SendChunk, SendEnd, Block, Wake, WaitForBuffer, Completed, Cancelled,
             SenderTimeout, CtxDone, SendRefused, PeerCancel, HandleCancelOfSender,
             SourceChange, senderVars, SenderReturn, Sending
    <2> QED
      BY <1>7, <2>3, <2>4, <2>5, <2>6, <2>7, SenderFrame DEF SenderSteps, SenderHandlers
  <1> QED
    BY <1>5, <1>6, <1>7, RegistryStep

(* Promises are kept. *)
LEMMA PromiseNext ==
    ASSUME IInv, CallInv, FinalAckInv, OfferInv, FreshInv, SyncInv, PromiseInv,
           NoStaleCheckpoint, [Next]_vars
    PROVE  PromiseInv'
  <1>1. IInv'
    BY NextInv
  <1>2. ASSUME NEW m \in Range(toSender'), Promises(m), Registered(m.id)'
        PROVE  DurableAt(m.id, m.n)'
    <2>1. m \in ToSender
      BY <1>1, RangeOfSeq DEF IInv, NetTypeOK
    <2>2. m.n \in Nat /\ m.type # "file_cancel"
      BY <1>2, <2>1 DEF ToSender, Promises
    <2>3. m \in Range(toSender) \/ Said(m)
      BY NewMessages DEF NothingElseSaid
    <2>4. Registered(m.id)
      <3>1. ASSUME NEW o \in starting, StartReceive(o), m.id = o.id
            PROVE  FALSE
        <4>1. o.id \in TransferIDs /\ Fresh(o.id)
          BY DEF IInv, ReceiverTypeOK, Offer, Fresh, Offered
        <4>2. Untouched(o.id)
          BY <4>1 DEF FreshInv
        <4> QED
          BY <2>2, <2>3, <3>1, <4>2, SaidToRegistered DEF Untouched
      <3> QED
        BY <1>2, <3>1, RegistryStep DEF Registered, StartReceive
    <2>5. \/ DurableAt(m.id, m.n)
          \/ rpc = "unlink" /\ rpc' = "finish" /\ m.id = rid
      BY <1>1, <1>2, <2>1, <2>3, <2>4, PromisesTrue DEF PromiseInv
    <2>6. committed \subseteq committed'
      BY CommittedGrows
    <2> QED
      BY <1>2, <2>2, <2>4, <2>5, <2>6, DurableStays DEF Registered, DurableAt, FinalAckInv
  <1>3. rpc' # "none" /\ Sending(rid)' => Recorded'
    BY RecordedNext
  <1> QED
    BY <1>2, <1>3 DEF PromiseInv

-----------------------------------------------------------------------------
(* The theorems about durability *)

(* The invariant holds when the managers are created. *)
LEMMA DurableInit == Init => DurableInv
  <1> SUFFICES ASSUME Init PROVE DurableInv
    OBVIOUS
  <1>1. OfferInv
    BY RangeEmpty DEF Init, OfferInv, Distinct
  <1>2. FreshInv
    BY RangeEmpty DEF Init, FreshInv, Fresh, Offered, Untouched, Registered, Sending
  <1>3. DigestInv
    BY DEF Init, DigestInv, Registered
  <1>4. SyncInv /\ MetaInv
    BY DEF Init, SyncInv, MetaInv, Streaming, NoFile, NoMeta
  <1>5. PromiseInv
    BY RangeEmpty DEF Init, PromiseInv
  <1> QED
    BY <1>1, <1>2, <1>3, <1>4, <1>5 DEF DurableInv

(* It is inductive, as long as no stale checkpoint is stored. *)
LEMMA DurableNext ==
    IInv /\ AgreementInv /\ DurableInv /\ NoStaleCheckpoint /\ [Next]_vars => DurableInv'
  BY OfferNext, FreshNext, DigestNext, SyncNext, MetaNext, PromiseNext
     DEF DurableInv, AgreementInv

(* It holds of every behaviour without one. *)
LEMMA DurableAlways == Spec /\ []NoStaleCheckpoint => []DurableInv
  BY DurableInit, DurableNext, SpecInv, AgreementAlways, PTL DEF Spec

(* The invariant says that what is acknowledged is durable. *)
LEMMA DurableImpliesAcked ==
    ASSUME IInv, DurableInv
    PROVE  AckedIsDurable
  <1>1. ASSUME NEW k \in DOMAIN toSender, toSender[k].type = "file_ack",
               Registered(toSender[k].id), toSender[k].id \in ProgressAck
        PROVE  toSender[k].id \in committed \/ toSender[k].n <= part.synced
    <2>1. toSender[k] \in Range(toSender)
      BY DEF Range
    <2> QED
      BY <1>1, <2>1 DEF DurableInv, PromiseInv, Promises, DurableAt
  <1>2. Sending(rid) /\ rpc # "none" /\ rid \in ProgressAck
           => rid \in committed \/ sAcked <= part.synced
    BY DEF DurableInv, PromiseInv, Recorded, DurableAt
  <1> QED
    BY <1>1, <1>2 DEF AckedIsDurable

(***************************************************************************)
(* What file_ack acknowledges to a sender that knows file_progress, or has *)
(* acknowledged to its running SendFile, is synced or committed: under any *)
(* faults, until a stale checkpoint is stored.                             *)
(***************************************************************************)
THEOREM AcksAreDurable == Spec /\ []NoStaleCheckpoint => []AckedIsDurable
  <1>1. IInv /\ DurableInv => AckedIsDurable
    BY DurableImpliesAcked
  <1> QED
    BY <1>1, DurableAlways, SpecInv, PTL

(* A destination disappears only when complete replaces it. *)
LEMMA Removal ==
    ASSUME IInv, DurableInv, [Next]_vars, dest.present, ~dest'.present
    PROVE  rpc = "remove" /\ part.data = FileOf(rDigest) /\ part.synced = Size
  <1>1. CASE RemoveDestination
    <2>1. rpc = "remove"
      BY <1>1 DEF RemoveDestination
    <2>2. part.data = FileOf(rDigest) /\ Len(part.data) = rExpected
      BY <2>1 DEF IInv, PartInv, Streaming
    <2>3. rExpected = Size /\ part.synced >= Size /\ part.synced <= Len(part.data)
      BY <2>1 DEF DurableInv, SyncInv, Streaming
    <2>4. part.synced \in Nat
      BY DEF IInv, DiskTypeOK
    <2> QED
      BY <2>1, <2>2, <2>3, <2>4, ProtocolAssumption
  <1>2. ReceiverSteps => RemoveDestination \/ UNCHANGED dest \/ dest'.present
    <2>1. Rename => UNCHANGED dest \/ dest'.present
      BY DEF Rename
    <2>2. ReceiverSteps => RemoveDestination \/ Rename \/ UNCHANGED dest
      BY DEF ReceiverSteps, StartReceive, StartLoop, TakeChunk, TakeEnd, TakeCancel,
             EndDeadline, LoopClosed, WriteChunk, Sidecar, Sync, Drained, Complete,
             Unlink, FinishReceiver, Leave, diskVars
    <2> QED
      BY <2>1, <2>2
  <1>3. HandleCancelOfReceiver \/ DiskError \/ Crash \/ PowerLoss \/ Refusals
        \/ HandleFileStart \/ HandleFileEnd \/ HandleChunk \/ Close \/ Reconnect
        \/ LaneLost => UNCHANGED dest
    BY DEF HandleCancelOfReceiver, DiskError, Crash, PowerLoss, Refusals, StartRefused,
           HandleFileStart, HandleFileEnd, HandleChunk, Close, Reconnect, LaneLost,
           diskVars, receiverCore
  <1>4. UserFile => dest'.present
    BY DEF UserFile, NoDest
  <1>5. SendFile \/ SenderSteps \/ SenderHandlers \/ CtxDone \/ SendRefused \/ PeerCancel \/ SourceChange
           => UNCHANGED dest
    BY DEF SendFile, SenderSteps, SenderHandlers, Accepted, SendChunk, SendEnd, Block,
           Wake, WaitForBuffer, Completed, Cancelled, SenderTimeout, HandleAccept,
           HandleAck, HandleCancelOfSender, CtxDone, SendRefused, PeerCancel,
           SourceChange, receiverSide, diskVars
  <1>6. UNCHANGED vars => UNCHANGED dest
    BY DEF vars, diskVars
  <1> QED
    BY <1>1, <1>2, <1>3, <1>4, <1>5, <1>6
       DEF Next, Quiescent, ReceiverHandlers, Environment

-----------------------------------------------------------------------------
(* Where stale checkpoints come from *)

(* Nobody has aborted a transfer from the sending side. *)
NoCancelInv ==
    /\ cancelReceiver = {}
    /\ \A m \in Range(toReceiver) : m.type # "file_cancel"
    /\ NoStaleCheckpoint

(* Controls other than cancels are sent without any. *)
LEMMA ControlsStep ==
    ASSUME "cancel" \notin Faults, IInv, NoCancelInv, [Next]_vars
    PROVE  cancelReceiver' = {} /\ \A m \in Range(toReceiver') : m.type # "file_cancel"
  <1>1. toReceiver \in Seq(ToReceiver)
    BY DEF IInv, NetTypeOK
  <1>2. CASE UNCHANGED <<toReceiver, cancelReceiver>>
    BY <1>2 DEF NoCancelInv
  <1>3. CASE SendFile
    <2> DEFINE m == [type |-> "file_start", id |-> sid + 1, ver |-> source.ver]
    <2>1. toReceiver' = Append(toReceiver, m) /\ UNCHANGED cancelReceiver
      BY <1>3 DEF SendFile
    <2>2. m \in ToReceiver /\ m.type # "file_cancel"
      BY <1>3, ProtocolAssumption DEF SendFile, IInv, SenderTypeOK, ToReceiver
    <2> HIDE DEF m
    <2> QED
      BY <1>1, <2>1, <2>2, RangeAppend DEF NoCancelInv
  <1>4. CASE SendEnd
    <2> DEFINE m == [type |-> "file_end", id |-> sid, ver |-> sDigest]
    <2>1. (UNCHANGED toReceiver \/ toReceiver' = Append(toReceiver, m))
          /\ UNCHANGED cancelReceiver
      BY <1>4 DEF SendEnd
    <2>2. m \in ToReceiver /\ m.type # "file_cancel"
      BY <1>4 DEF SendEnd, IInv, SenderTypeOK, ToReceiver
    <2> HIDE DEF m
    <2>3. CASE toReceiver' = Append(toReceiver, m)
      <3>1. Range(toReceiver') = Range(toReceiver) \cup {m}
        BY <1>1, <2>2, <2>3, RangeAppend
      <3> QED
        BY <2>1, <2>2, <3>1 DEF NoCancelInv
    <2> QED
      BY <1>2, <2>1, <2>3
  <1>5. CASE toReceiver # <<>> /\ toReceiver' = Tail(toReceiver) /\ UNCHANGED cancelReceiver
    BY <1>1, <1>5, RangeTail DEF NoCancelInv
  <1>6. CASE Disconnect
    BY <1>6, RangeEmpty DEF Disconnect
  <1>7. SenderSteps => SendEnd \/ UNCHANGED <<toReceiver, cancelReceiver>>
    BY DEF SenderSteps, Accepted, SendChunk, Block, Wake, WaitForBuffer, Completed, Cancelled,
           SenderTimeout, netVars
  <1>8. SenderHandlers \/ CtxDone \/ SendRefused \/ SourceChange => UNCHANGED <<toReceiver, cancelReceiver>>
    BY DEF SenderHandlers, HandleAccept, HandleAck, HandleCancelOfSender, CtxDone,
           SendRefused, SourceChange, netVars
  <1>9. ReceiverSteps \/ Refusals => UNCHANGED <<toReceiver, cancelReceiver>>
    BY DEF ReceiverSteps, StartReceive, StartLoop, TakeChunk, TakeEnd, TakeCancel,
           EndDeadline, LoopClosed, WriteChunk, Sidecar, Sync, Drained, Complete,
           RemoveDestination, Rename, Unlink, FinishReceiver, Leave, senderSide,
           Refusals, StartRefused
  <1>10. HandleFileStart \/ HandleFileEnd
            => toReceiver # <<>> /\ toReceiver' = Tail(toReceiver) /\ UNCHANGED cancelReceiver
    BY DEF HandleFileStart, HandleFileEnd
  <1>11. HandleChunk \/ DiskError \/ Reconnect \/ LaneLost \/ UserFile
            => UNCHANGED <<toReceiver, cancelReceiver>>
    BY DEF HandleChunk, DiskError, Reconnect, LaneLost, UserFile, senderSide, netVars
  <1>12. HandleCancelOfReceiver => FALSE
    BY <1>1, RangeTail DEF HandleCancelOfReceiver, NoCancelInv
  <1>13. PeerCancel => FALSE
    BY DEF PeerCancel, Fault
  <1>14. Close \/ Crash \/ PowerLoss => Disconnect
    BY DEF Close, Crash, PowerLoss
  <1>15. UNCHANGED vars => UNCHANGED <<toReceiver, cancelReceiver>>
    BY DEF vars, netVars
  <1> QED
    BY <1>2, <1>3, <1>4, <1>5, <1>6, <1>7, <1>8, <1>9, <1>10, <1>11, <1>12, <1>13, <1>14,
       <1>15 DEF Next, Quiescent, ReceiverHandlers, Environment

(* A checkpoint is left to a deregistered goroutine only by the handler of a cancel. *)
LEMMA StaleStep ==
    ASSUME IInv, NoStaleCheckpoint, HandleCancelOfReceiver => UNCHANGED rLeaving, [Next]_vars
    PROVE  NoStaleCheckpoint'
  <1>1. HandleCancelOfReceiver => UNCHANGED rLeaving
    OBVIOUS
  <1>2. ASSUME NEW l \in rLeaving, Leave(l)
        PROVE  NoStaleCheckpoint'
    <2>1. [l EXCEPT !.step = "meta"].step = "meta"
      BY DEF IInv, ReceiverTypeOK, Leaving
    <2>2. rLeaving' \subseteq rLeaving \cup {[l EXCEPT !.step = "meta"]}
      BY <1>2 DEF Leave
    <2> QED
      BY <2>1, <2>2 DEF NoStaleCheckpoint
  <1>3. CASE Complete
    BY <1>3 DEF Complete, NoStaleCheckpoint
  <1>4. CASE UNCHANGED rLeaving \/ rLeaving' = {}
    BY <1>4 DEF NoStaleCheckpoint
  <1>5. ReceiverSteps => \/ UNCHANGED rLeaving \/ Complete
                         \/ \E l \in rLeaving : Leave(l)
    BY DEF ReceiverSteps, StartReceive, StartLoop, TakeChunk, TakeEnd, TakeCancel,
           EndDeadline, LoopClosed, WriteChunk, Sidecar, Sync, Drained,
           RemoveDestination, Rename, Unlink, FinishReceiver
  <1>6. DiskError \/ Crash \/ PowerLoss => UNCHANGED rLeaving \/ rLeaving' = {}
    BY DEF DiskError, Crash, PowerLoss, noReceiver
  <1> QED
    BY <1>1, <1>2, <1>3, <1>4, <1>5, <1>6, ReceiverFrame

(***************************************************************************)
(* The race that leaves a stale sidecar needs a peer that cancels what it  *)
(* has offered: without one no checkpoint outlives its transfer.           *)
(***************************************************************************)
THEOREM StaleNeedsCancel ==
    ASSUME "cancel" \notin Faults
    PROVE  Spec => []NoStaleCheckpoint
  <1>1. Init => NoCancelInv
    BY RangeEmpty DEF Init, NoCancelInv, NoStaleCheckpoint
  <1>2. IInv /\ NoCancelInv /\ [Next]_vars => NoCancelInv'
    <2>1. IInv /\ NoCancelInv /\ HandleCancelOfReceiver => FALSE
      BY RangeTail DEF HandleCancelOfReceiver, NoCancelInv, IInv, NetTypeOK
    <2> QED
      BY <2>1, ControlsStep, StaleStep DEF NoCancelInv
  <1>3. NoCancelInv => NoStaleCheckpoint
    BY DEF NoCancelInv
  <1> QED
    BY <1>1, <1>2, <1>3, SpecInv, PTL DEF Spec

-----------------------------------------------------------------------------
(* Proofs about the content of the part file *)

(* The next bytes of a version continue a prefix of it. *)
LEMMA PrefixAppend ==
    ASSUME NEW data \in Seq(Byte), NEW v \in Versions, NEW n \in Nat,
           IsPrefixOf(data, v, Len(data))
    PROVE  LET d == data \o Content(v, Len(data), n)
           IN  IsPrefixOf(d, v, Len(d))
  <1> DEFINE b == Content(v, Len(data), n)
             d == data \o b
  <1>1. b \in Seq(Byte) /\ Len(b) = n
    BY ContentType
  <1>2. \A k \in 1 .. n : b[k] = <<v, Len(data) + k - 1>>
    BY DEF Content
  <1> HIDE DEF b
  <1>3. /\ Len(d) = Len(data) + n
        /\ \A i \in 1 .. Len(data) + n :
              d[i] = IF i <= Len(data) THEN data[i] ELSE b[i - Len(data)]
    BY <1>1, ConcatProperties
  <1> HIDE DEF d
  <1>4. Len(data) \in Nat
    OBVIOUS
  <1>5. ASSUME NEW i \in 1 .. Len(d)
        PROVE  d[i] = <<v, i - 1>>
    <2>1. CASE i <= Len(data)
      BY <1>3, <1>4, <2>1 DEF IsPrefixOf
    <2>2. CASE i > Len(data)
      <3>1. i - Len(data) \in 1 .. n
        BY <1>3, <1>4, <2>2
      <3>2. b[i - Len(data)] = <<v, Len(data) + (i - Len(data)) - 1>>
        BY <1>2, <3>1
      <3>3. Len(data) + (i - Len(data)) - 1 = i - 1
        BY <1>3, <1>4
      <3> QED
        BY <1>3, <1>4, <2>2, <3>2, <3>3
    <2> QED
      BY <1>3, <1>4, <2>1, <2>2
  <1>6. IsPrefixOf(d, v, Len(d))
    BY <1>5 DEF IsPrefixOf
  <1> QED
    BY <1>6 DEF d, b

(* A copy of a whole prefix is one of every shorter prefix. *)
LEMMA PrefixOfPrefix ==
    ASSUME NEW data \in Seq(Byte), NEW v, NEW n, IsPrefixOf(data, v, Len(data))
    PROVE  IsPrefixOf(data, v, n)
  BY DEF IsPrefixOf

(* Whoever edits the file waits for SendFile to return. *)
LEMMA SourceNext ==
    ASSUME "source" \notin Faults, IInv, OfferInv, FreshInv, DigestInv, SourceInv, [Next]_vars
    PROVE  SourceInv'
  <1>1. spc' # "idle" => source'.ver = sDigest'
    <2>1. SendFile => source'.ver = sDigest'
      BY DEF SendFile
    <2>2. SenderSteps \/ SenderHandlers \/ CtxDone \/ SendRefused \/ PeerCancel
             => UNCHANGED <<source, sDigest>> /\ (spc' # "idle" => spc # "idle")
      BY DEF SenderSteps, SenderHandlers, Accepted, SendChunk, SendEnd, Block, Wake,
             WaitForBuffer, Completed, Cancelled, SenderTimeout, HandleAccept, HandleAck,
             HandleCancelOfSender, CtxDone, SendRefused, PeerCancel, SenderReturn
    <2>3. SourceChange => spc' = "idle"
      BY DEF SourceChange, Fault
    <2>4. UNCHANGED senderVars => UNCHANGED <<source, sDigest, spc>>
      BY DEF senderVars
    <2> QED
      BY <2>1, <2>2, <2>3, <2>4, SenderFrame DEF SourceInv
  <1>2. ASSUME NEW c \in lanes', c \notin lanes
        PROVE  (c.id = sid' => c.ver = sDigest') /\ (Registered(c.id)' => c.ver = rDigest')
    <2>1. SendChunk /\ spc = "stream" /\ c.id = sid /\ c.ver = source.ver
      BY <1>2, NewChunks
    <2>2. UNCHANGED <<sid, sDigest, rpc, rid, rDigest>>
      BY <2>1 DEF SendChunk, receiverSide, loopVars, SenderReturn
    <2> QED
      BY <2>1, <2>2 DEF SourceInv, DigestInv, Registered
  <1>3. ASSUME NEW c \in lanes
        PROVE  (c.id = sid' => c.ver = sDigest') /\ (Registered(c.id)' => c.ver = rDigest')
    <2>1. c.id \in TransferIDs /\ c.id \in Nat
      BY DEF IInv, NetTypeOK, Chunk
    <2>2. ~Fresh(c.id)
      BY <2>1 DEF FreshInv, Untouched
    <2>3. c.id = sid' => c.ver = sDigest'
      <3>1. SendFile => c.id # sid'
        BY <2>1, <2>2 DEF SendFile, Fresh, IInv, SenderTypeOK
      <3> QED
        BY <3>1, OffersStep DEF OffersChange, SourceInv
    <2>4. Registered(c.id)' => c.ver = rDigest'
      <3>1. ASSUME NEW o \in starting, StartReceive(o)
            PROVE  ~Registered(c.id)'
        BY <2>2, <3>1 DEF StartReceive, Registered, Fresh, Offered
      <3> QED
        BY <3>1, RegistryStep DEF SourceInv, Registered
    <2> QED
      BY <2>3, <2>4
  <1> QED
    BY <1>1, <1>2, <1>3 DEF SourceInv

(* The event queue is filled by the handlers of the registered transfer. *)
EventsChange ==
    \/ rpc' = "none" /\ rEvents' = <<>> /\ rPending' = {}
    \/ UNCHANGED rEvents /\ rPending' \subseteq rPending /\ UNCHANGED rpc
    \/ UNCHANGED rEvents /\ rPending' \subseteq rPending /\ rpc # "none" /\ rpc' # "none"
    \/ UNCHANGED <<rEvents, rPending>> /\ \E o \in starting : StartReceive(o)
    \/ UNCHANGED <<rPending, rpc>> /\ rpc # "none"
       /\ \E t \in {"end", "cancel"} : rEvents' = Append(rEvents, [type |-> t])
    \/ UNCHANGED <<rPending, rpc>>
       /\ \E c \in lanes : Registered(c.id) /\ rEvents' = Append(rEvents, c)
    \/ /\ rpc = "loop" /\ rpc' # "none" /\ rEvents # <<>> /\ rEvents' = Tail(rEvents)
       /\ \/ UNCHANGED rPending
          \/ /\ Head(rEvents).type = "chunk" /\ ValidChunk(Head(rEvents))
             /\ Head(rEvents).index >= rIndex
             /\ rPending' = rPending \cup {Head(rEvents)}

(* Nothing else gets into the queue or the reorder buffer. *)
LEMMA EventsStep ==
    ASSUME [Next]_vars
    PROVE  EventsChange
  <1>1. CASE UNCHANGED <<rEvents, rPending, rpc>>
    BY <1>1 DEF EventsChange
  <1>2. SendFile \/ SenderSteps \/ SenderHandlers => UNCHANGED <<rEvents, rPending, rpc>>
    BY DEF SendFile, SenderSteps, SenderHandlers, Accepted, SendChunk, SendEnd, Block,
           Wake, WaitForBuffer, Completed, Cancelled, SenderTimeout, HandleAccept,
           HandleAck, HandleCancelOfSender, receiverSide, loopVars
  <1>3. CASE TakeChunk
    BY <1>3 DEF TakeChunk, Take, ReceiveFailed, Finish, EventsChange
  <1>4. CASE TakeEnd
    BY <1>4 DEF TakeEnd, Take, AfterComplete, EventsChange
  <1>5. CASE TakeCancel \/ EndDeadline \/ LoopClosed
    BY <1>5 DEF TakeCancel, EndDeadline, LoopClosed, ReceiveFailed, Finish, EventsChange
  <1>6. ASSUME NEW late \in BOOLEAN, WriteChunk(late) \/ Sidecar(late)
        PROVE  EventsChange
    BY <1>6 DEF WriteChunk, Sidecar, EventsChange
  <1>7. CASE StartLoop \/ Sync \/ Drained \/ RemoveDestination \/ Unlink
    BY <1>7 DEF StartLoop, Sync, Drained, RemoveDestination, Unlink, loopVars,
                AfterComplete, EventsChange
  <1>8. CASE Complete \/ Rename \/ FinishReceiver
    BY <1>8 DEF Complete, Rename, FinishReceiver, ReceiveFailed, Finish, loopVars,
                EventsChange
  <1>9. ASSUME NEW o \in starting, StartReceive(o)
        PROVE  EventsChange
    BY <1>9 DEF StartReceive, EventsChange
  <1>10. ASSUME NEW l \in rLeaving, Leave(l)
         PROVE  UNCHANGED <<rEvents, rPending, rpc>>
    BY <1>10 DEF Leave, loopVars
  <1>11. Refusals \/ HandleFileStart => UNCHANGED <<rEvents, rPending, rpc>>
    BY DEF Refusals, StartRefused, HandleFileStart, receiverCore, loopVars
  <1>12. CASE HandleFileEnd
    BY <1>12 DEF HandleFileEnd, receiverCore, Registered, EventsChange
  <1>13. CASE HandleChunk
    BY <1>13 DEF HandleChunk, receiverCore, EventsChange
  <1>14. CASE HandleCancelOfReceiver
    BY <1>14 DEF HandleCancelOfReceiver, Registered, ReceiveFailed, Finish, loopVars,
                 EventsChange
  <1>15. CASE DiskError \/ Crash \/ PowerLoss
    BY <1>15 DEF DiskError, Crash, PowerLoss, ReceiveFailed, Finish, noReceiver,
                 EventsChange
  <1>16. CtxDone \/ SendRefused \/ Close \/ Reconnect \/ LaneLost \/ SourceChange \/ UserFile \/ PeerCancel
         \/ UNCHANGED vars => UNCHANGED <<rEvents, rPending, rpc>>
    BY DEF CtxDone, SendRefused, Close, Reconnect, LaneLost, SourceChange, UserFile,
           PeerCancel, vars, receiverSide, loopVars
  <1> QED
    BY <1>1, <1>2, <1>3, <1>4, <1>5, <1>6, <1>7, <1>8, <1>9, <1>10, <1>11, <1>12, <1>13,
       <1>14, <1>15, <1>16
       DEF Next, Quiescent, ReceiverSteps, ReceiverHandlers, Environment

(* What waits to be written is of the offered version. *)
LEMMA QueuesNext ==
    ASSUME IInv, SourceInv, ContentInv, [Next]_vars
    PROVE  /\ rpc' = "none" => rEvents' = <<>> /\ rPending' = {}
           /\ \A e \in Range(rEvents') : e.type = "chunk" => e.ver = rDigest'
           /\ \A c \in rPending' : c.ver = rDigest'
  <1>1. rEvents \in Seq(Event)
    BY DEF IInv, ReceiverTypeOK
  <1>2. CASE rpc' = "none" /\ rEvents' = <<>> /\ rPending' = {}
    BY <1>2, RangeEmpty
  <1>3. CASE rpc' = "none" /\ rpc = "none" /\ UNCHANGED rEvents /\ rPending' \subseteq rPending
    BY <1>3, RangeEmpty DEF ContentInv
  <1>4. CASE \E o \in starting : StartReceive(o)
    <2>1. rpc = "none" /\ rpc' # "none" /\ UNCHANGED <<rEvents, rPending>>
      BY <1>4 DEF StartReceive
    <2> QED
      BY <2>1, RangeEmpty DEF ContentInv
  <1>5. CASE rpc # "none" /\ rpc' # "none"
    <2>1. rDigest' = rDigest
      BY <1>5, RegistryStep DEF StartReceive
    <2>2. CASE UNCHANGED rEvents /\ rPending' \subseteq rPending
      BY <1>5, <2>1, <2>2 DEF ContentInv
    <2>3. CASE UNCHANGED rPending
               /\ \E t \in {"end", "cancel"} : rEvents' = Append(rEvents, [type |-> t])
      <3>1. PICK t \in {"end", "cancel"} : rEvents' = Append(rEvents, [type |-> t])
        BY <2>3
      <3>2. [type |-> t] \in Event /\ [type |-> t].type # "chunk"
        BY DEF Event
      <3>3. Range(rEvents') = Range(rEvents) \cup {[type |-> t]}
        BY <1>1, <3>1, <3>2, RangeAppend
      <3> QED
        BY <1>5, <2>1, <2>3, <3>2, <3>3 DEF ContentInv
    <2>4. CASE UNCHANGED rPending
               /\ \E c \in lanes : Registered(c.id) /\ rEvents' = Append(rEvents, c)
      <3>1. PICK c \in lanes : Registered(c.id) /\ rEvents' = Append(rEvents, c)
        BY <2>4
      <3>2. c \in Event /\ c.ver = rDigest
        BY <3>1 DEF SourceInv, IInv, NetTypeOK, Event
      <3>3. Range(rEvents') = Range(rEvents) \cup {c}
        BY <1>1, <3>1, <3>2, RangeAppend
      <3> QED
        BY <1>5, <2>1, <2>4, <3>2, <3>3 DEF ContentInv
    <2>5. CASE /\ rEvents # <<>> /\ rEvents' = Tail(rEvents)
               /\ \/ UNCHANGED rPending
                  \/ /\ Head(rEvents).type = "chunk"
                     /\ rPending' = rPending \cup {Head(rEvents)}
      <3>1. Range(rEvents') \subseteq Range(rEvents) /\ Head(rEvents) \in Range(rEvents)
        BY <1>1, <2>5, RangeTail
      <3> QED
        BY <1>5, <2>1, <2>5, <3>1 DEF ContentInv
    <2> QED
      BY <1>5, <2>2, <2>3, <2>4, <2>5, EventsStep DEF EventsChange, StartReceive
  <1> QED
    BY <1>2, <1>3, <1>4, <1>5, EventsStep DEF EventsChange, Registered

(* Every byte in the part file and under the sidecar is in its place. *)
LEMMA ContentNext ==
    ASSUME IInv, SyncInv, SourceInv, ContentInv, NoStaleCheckpoint, [Next]_vars
    PROVE  ContentInv'
  <1>1. /\ part \in [present : BOOLEAN, data : Seq(Byte), synced : Nat]
        /\ part.data \in Seq(Byte) /\ Len(part.data) \in Nat /\ meta.n \in Nat
        /\ rDigest \in Versions
    BY DEF IInv, DiskTypeOK, ReceiverTypeOK
  <1> DEFINE Part == /\ rpc \in Streaming \cup {"opened"}
                           => IsPrefixOf(part.data, rDigest, Len(part.data))
                     /\ rpc \in Streaming /\ meta.present => meta.ver = rDigest
                     /\ meta.present /\ part.present => IsPrefixOf(part.data, meta.ver, meta.n)
  <1>2. Part
    BY DEF ContentInv
  <1>3. SUFFICES Part'
    BY <1>3, QueuesNext DEF ContentInv
  <1>4. ASSUME NEW o \in starting, StartReceive(o)
        PROVE  Part'
    <2>1. UNCHANGED meta /\ rpc' = "opened" /\ rDigest' = o.ver
      BY <1>4 DEF StartReceive
    <2>2. CASE ResumePoint(o) = 0
      <3>1. part'.data = <<>>
        BY <1>4, <2>2 DEF StartReceive
      <3> QED
        BY <2>1, <3>1 DEF IsPrefixOf, Streaming
    <2>3. CASE ResumePoint(o) # 0
      <3>1. UNCHANGED part /\ meta.present /\ part.present /\ meta.ver = o.ver
            /\ meta.n = Len(part.data)
        BY <1>4, <2>3, ResumedPart DEF StartReceive
      <3> QED
        BY <1>2, <2>1, <3>1 DEF Streaming
    <2> QED
      BY <2>2, <2>3
  <1>5. CASE /\ part'.data = part.data /\ (part'.present => part.present)
             /\ UNCHANGED meta \/ ~meta'.present
             /\ \/ rpc' \notin Streaming \cup {"opened"}
                \/ UNCHANGED rDigest /\ (rpc' = rpc \/ (rpc \in Streaming /\ rpc' \in Streaming))
    BY <1>2, <1>5 DEF Streaming
  <1>6. CASE StartLoop \/ \E late \in BOOLEAN : Sidecar(late)
    <2>1. /\ UNCHANGED <<part, rDigest>> /\ meta'.ver = rDigest
          /\ rpc \in Streaming \cup {"opened"}
      BY <1>6 DEF StartLoop, Sidecar, Streaming
    <2>2. IsPrefixOf(part.data, rDigest, Len(part.data))
      BY <1>2, <2>1
    <2>3. IsPrefixOf(part.data, rDigest, meta'.n)
      BY <1>1, <2>2, PrefixOfPrefix
    <2> QED
      BY <2>1, <2>2, <2>3
  <1>7. ASSUME NEW late \in BOOLEAN, WriteChunk(late)
        PROVE  Part'
    <2>1. PICK c \in rPending : WritesChunk(c)
      BY <1>7, WriteChunkFacts
    <2>2. /\ rpc = "drain" /\ UNCHANGED <<rDigest, meta>> /\ part'.present = part.present
      BY <1>7, WriteChunkFacts
    <2>3. c.ver = rDigest /\ c.length \in Nat /\ c.offset = rExpected
          /\ rExpected = Len(part.data)
      BY <2>1, <2>2 DEF ContentInv, WritesChunk, Chunk, IInv, PartInv, Streaming
    <2>4. part'.data = part.data \o Content(rDigest, Len(part.data), c.length)
      BY <2>1, <2>3 DEF WritesChunk, ChunkData
    <2>5. IsPrefixOf(part.data, rDigest, Len(part.data))
      BY <1>2, <2>2 DEF Streaming
    <2>6. IsPrefixOf(part'.data, rDigest, Len(part'.data))
      BY <1>1, <2>3, <2>4, <2>5, PrefixAppend
    <2>7. part'.data \in Seq(Byte)
      BY NextInv DEF IInv, DiskTypeOK
    <2>8. IsPrefixOf(part'.data, rDigest, meta.n)
      BY <2>6, <2>7, PrefixOfPrefix
    <2>9. meta.present => meta.ver = rDigest
      BY <1>2, <2>2 DEF Streaming
    <2> QED
      BY <2>2, <2>6, <2>8, <2>9
  <1>8. CASE DiskError
    <2>1. rpc' = "none" /\ UNCHANGED meta /\ part'.present = part.present
      BY <1>8, DiskErrorFacts
    <2>2. CASE UNCHANGED part
      BY <1>2, <2>1, <2>2 DEF Streaming
    <2>3. CASE rpc = "drain" /\ \E c \in rPending, n \in Nat : PartlyWrites(c, n)
      <3>1. PICK c \in rPending, n \in Nat : PartlyWrites(c, n)
        BY <2>3
      <3>2. c.ver = rDigest /\ rExpected = Len(part.data)
        BY <2>3 DEF ContentInv, IInv, PartInv, Streaming
      <3>3. part'.data = part.data \o Content(rDigest, Len(part.data), n)
        BY <3>1, <3>2 DEF PartlyWrites
      <3>4. IsPrefixOf(part.data, rDigest, Len(part.data))
        BY <1>2, <2>3 DEF Streaming
      <3>5. IsPrefixOf(part'.data, rDigest, Len(part'.data))
        BY <1>1, <3>3, <3>4, PrefixAppend
      <3>6. part'.data \in Seq(Byte)
        BY NextInv DEF IInv, DiskTypeOK
      <3>7. IsPrefixOf(part'.data, rDigest, meta.n)
        BY <3>5, <3>6, PrefixOfPrefix
      <3>8. meta.present => meta.ver = rDigest
        BY <1>2, <2>3 DEF Streaming
      <3> QED
        BY <2>1, <3>7, <3>8 DEF Streaming
    <2> QED
      BY <1>8, <2>2, <2>3, DiskErrorFacts
  <1>9. CASE PowerLoss
    <2>1. PICK k \in part.synced .. Len(part.data) :
             Len(part'.data) = k /\ \A i \in 1 .. k : part'.data[i] = part.data[i]
      BY <1>9, PowerLossFacts
    <2>2. rpc' = "none" /\ part'.present = part.present
          /\ (UNCHANGED meta \/ ~meta'.present)
      BY <1>9, PowerLossFacts
    <2>3. part.synced \in Nat
      BY <1>1
    <2> QED
      BY <1>1, <1>2, <2>1, <2>2, <2>3 DEF IsPrefixOf, Streaming
  <1>10. CASE Rename
    <2>1. UNCHANGED meta /\ rpc' \notin Streaming \cup {"opened"}
          /\ (UNCHANGED part \/ ~part'.present)
      BY <1>10 DEF Rename, ReceiveFailed, Finish, NoFile, Streaming
    <2> QED
      BY <1>2, <2>1 DEF Streaming
  <1>11. CASE Sync
    <2>1. part'.data = part.data /\ part'.present = part.present
          /\ UNCHANGED <<meta, rDigest>> /\ rpc = "sync" /\ rpc' = "sidecar"
      BY <1>1, <1>11 DEF Sync
    <2> QED
      BY <1>5, <2>1 DEF Streaming
  <1>12. CASE Unlink
    BY <1>5, <1>12 DEF Unlink, NoMeta, Streaming
  <1>13. ASSUME NEW l \in rLeaving, Leave(l)
         PROVE  Part'
    <2>1. part'.data = part.data /\ (part'.present => part.present)
          /\ UNCHANGED <<rpc, rDigest>>
      BY <1>1, <1>13 DEF Leave, loopVars
    <2>2. UNCHANGED meta \/ ~meta'.present
      BY <1>13 DEF Leave, NoMeta, NoStaleCheckpoint
    <2> QED
      BY <1>5, <2>1, <2>2
  <1>14. CASE TakeChunk \/ TakeEnd \/ TakeCancel \/ EndDeadline \/ LoopClosed \/ Drained
    <2>1. UNCHANGED <<part, meta>> /\ rpc \in Streaming
          /\ (rpc' = "none" \/ (rpc' \in Streaming /\ UNCHANGED rDigest))
      BY <1>14, LoopFacts DEF Streaming
    <2> QED
      BY <1>5, <2>1 DEF Streaming
  <1>15. CASE Complete \/ RemoveDestination \/ FinishReceiver
    <2>1. UNCHANGED <<part, meta>>
          /\ (rpc' = "none" \/ (rpc \in Streaming /\ rpc' \in Streaming /\ UNCHANGED rDigest))
      BY <1>15, CommitFacts DEF Streaming
    <2> QED
      BY <1>5, <2>1 DEF Streaming
  <1>16. CASE HandleCancelOfReceiver
    <2>1. UNCHANGED <<part, meta>> /\ (rpc' = "none" \/ UNCHANGED <<rpc, rDigest>>)
      BY <1>16 DEF HandleCancelOfReceiver, ReceiveFailed, Finish, loopVars, diskVars
    <2> QED
      BY <1>5, <2>1 DEF Streaming
  <1>17. CASE Crash
    BY <1>5, <1>17 DEF Crash, noReceiver, diskVars, Streaming
  <1>18. CASE UNCHANGED <<rpc, rid, rDigest, rPending, rExpected, rIndex, rHash, rDurable,
                          rProgress, rEnd, rLeaving, part, meta, committed>>
    BY <1>5, <1>18
  <1> QED
    BY <1>4, <1>6, <1>7, <1>8, <1>9, <1>10, <1>11, <1>12, <1>13, <1>14, <1>15, <1>16,
       <1>17, <1>18, ReceiverFrame DEF ReceiverSteps

(* What matchingPartial returns is the length of a synced prefix. *)
LEMMA SoundResumePoint ==
    ASSUME IInv, DurableInv, ContentInv
    PROVE  ResumePointSound
  <1> SUFFICES ASSUME NEW v \in Versions, MatchingPartial(v) > 0
               PROVE  /\ SubSeq(part.data, 1, MatchingPartial(v))
                            = Content(v, 0, MatchingPartial(v))
                      /\ part.synced >= MatchingPartial(v)
    BY DEF ResumePointSound
  <1>1. /\ meta.present /\ part.present /\ meta.ver = v
        /\ MatchingPartial(v) = meta.n /\ Len(part.data) = meta.n /\ meta.n \in Nat
    BY DEF MatchingPartial, IInv, DiskTypeOK
  <1>2. part.data \in Seq(Byte) /\ part.synced \in Nat
    BY DEF IInv, DiskTypeOK
  <1>3. meta.n <= part.synced
    BY <1>1 DEF DurableInv, MetaInv
  <1>4. \A i \in 1 .. meta.n : part.data[i] = <<v, i - 1>>
    BY <1>1 DEF ContentInv, IsPrefixOf
  <1>5. SubSeq(part.data, 1, meta.n) = part.data
    BY <1>1, <1>2, WholeSubSeq
  <1>6. Content(v, 0, meta.n) \in Seq(Byte) /\ Len(Content(v, 0, meta.n)) = meta.n
    BY <1>1, ContentType
  <1>7. \A i \in 1 .. meta.n : Content(v, 0, meta.n)[i] = <<v, i - 1>>
    BY <1>1 DEF Content
  <1>8. part.data = Content(v, 0, meta.n)
    <2> DEFINE w == Content(v, 0, meta.n)
    <2>1. w \in Seq(Byte) /\ Len(w) = meta.n /\ \A i \in 1 .. meta.n : w[i] = part.data[i]
      BY <1>4, <1>6, <1>7
    <2> HIDE DEF w
    <2>2. part.data = w
      BY <1>1, <1>2, <2>1, SeqEqual
    <2> QED
      BY <2>2 DEF w
  <1> QED
    BY <1>1, <1>2, <1>3, <1>5, <1>8

(* While nobody edits the file that is sent, a part file holds one version. *)
LEMMA ContentAlways ==
    ASSUME "source" \notin Faults
    PROVE  Spec /\ []NoStaleCheckpoint => [](SourceInv /\ ContentInv)
  <1>1. Init => SourceInv /\ ContentInv
    BY RangeEmpty
       DEF Init, SourceInv, ContentInv, IsPrefixOf, Registered, Streaming, NoMeta
  <1>2. IInv /\ DurableInv /\ NoStaleCheckpoint /\ SourceInv /\ ContentInv /\ [Next]_vars
           => SourceInv' /\ ContentInv'
    BY SourceNext, ContentNext DEF DurableInv
  <1> QED
    BY <1>1, <1>2, DurableAlways, SpecInv, PTL DEF Spec

(***************************************************************************)
(* What a retry is allowed to keep is synced and a prefix of the file it   *)
(* continues, after any crash and with other versions sent in between, if  *)
(* nobody edits the file while it is sent.                                 *)
(***************************************************************************)
THEOREM ResumeIsSound ==
    ASSUME "source" \notin Faults
    PROVE  Spec /\ []NoStaleCheckpoint => []ResumePointSound
  <1>1. IInv /\ DurableInv /\ ContentInv => ResumePointSound
    BY SoundResumePoint
  <1> QED
    BY <1>1, ContentAlways, DurableAlways, SpecInv, PTL
=============================================================================
