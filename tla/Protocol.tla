------------------------------ MODULE Protocol ------------------------------
(***************************************************************************)
(* The part of the QuickDrop peer protocol (package protocol and the pure  *)
(* helpers of package transfer) that the transfer model computes with:     *)
(* chunk arithmetic, the messages and the contents of files.               *)
(*                                                                         *)
(* One destination name is modelled.  The files a sender may offer under   *)
(* that name are its Versions; all have Size bytes.  A byte is a pair of   *)
(* the version it comes from and its offset there, so a file put together  *)
(* from the wrong bytes, or from the right bytes in the wrong order, is a  *)
(* different sequence.  SHA-256 is taken to be free of collisions: the     *)
(* digest of a sequence of bytes is the sequence.                          *)
(***************************************************************************)
EXTENDS Integers, Sequences

CONSTANTS
    Size,           \* FileMetadata.Size, in bytes
    ChunkSize,      \* FileMetadata.ChunkSize, in bytes
    Versions,       \* the contents the file may have
    MaxTransfers    \* bound: how many times SendFile is called

ASSUME ProtocolAssumption ==
    /\ Size \in Nat
    /\ ChunkSize \in Nat \ {0}
    /\ MaxTransfers \in Nat \ {0}
    /\ Versions # {}

TransferIDs == 1 .. MaxTransfers

SmallerOf(a, b) == IF a < b THEN a ELSE b

LargerOf(a, b) == IF a < b THEN b ELSE a

TotalChunks == IF Size <= 0 THEN 0 ELSE (Size + ChunkSize - 1) \div ChunkSize

ChunkOffset(index) == index * ChunkSize

ChunkLength(index) == SmallerOf(ChunkSize, Size - ChunkOffset(index))

-----------------------------------------------------------------------------
(* The n bytes of version ver that start at offset from. *)
Content(ver, from, n) == [k \in 1 .. n |-> <<ver, from + k - 1>>]

(* The whole file; also, by the abstraction above, its SHA-256. *)
FileOf(ver) == Content(ver, 0, Size)

Byte == Versions \X Nat

-----------------------------------------------------------------------------
(***************************************************************************)
(* A chunk packet: the header, and the version its payload was read from.  *)
(***************************************************************************)
Chunk == [type : {"chunk"}, id : TransferIDs, index : Nat, offset : Nat,
          length : Nat, ver : Versions]

ChunkData(c) == Content(c.ver, c.offset, c.length)

(* A file offer: the transfer id and the digest in its metadata. *)
Offer == [id : TransferIDs, ver : Versions]

(* Controls on the primary channel towards the receiver. *)
ToReceiver == [type : {"file_start", "file_end", "file_cancel"},
               id : TransferIDs, ver : Versions]

(* Controls on the primary channel towards the sender; n is receivedBytes. *)
ToSender == [type : {"file_accept", "resume_state", "file_ack",
                     "file_progress", "file_cancel"},
             id : TransferIDs, n : Nat]
=============================================================================
