------------------------------- MODULE MCPeer -------------------------------
(***************************************************************************)
(* Instances of Peer for TLC.                                              *)
(***************************************************************************)
EXTENDS Peer

Session(relay, works, faults) ==
    [allowRelay |-> relay, works |-> works, faults |-> faults]

(* Every combination of paths without a fault, *)
Faultless ==
    {Session(TRUE, w, {}) : w \in SUBSET Kinds} \cup
    {Session(FALSE, w, {}) : w \in SUBSET {"direct"}}

(* and one fault of any kind, where the relay is needed or there is none. *)
MCSessions ==
    Faultless \cup {Session(TRUE, {"relay"}, FaultKinds \ {"server"}),
                    Session(FALSE, {}, {"server"})}
=============================================================================
