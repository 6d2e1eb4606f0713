---------------------------- MODULE FileDelivery ----------------------------
(***************************************************************************)
(* What the file transfer promises to those who use it, without chunks,    *)
(* acknowledgements, partial files or crashes: which file is found under   *)
(* the destination's name, and what SendFile says about it.                *)
(***************************************************************************)
EXTENDS Naturals

CONSTANTS
    Versions,      \* versions of the file
    MaxTransfers,  \* bound: calls of SendFile
    Overwrite      \* the receiver replaces a destination that is there

VARIABLES
    offer,      \* the latest offer: the number of the call, and the version
    stored,     \* versions the receiver has in full on stable storage
    told,       \* the caller knows that the offered file is safe
    file,       \* what is found under the name; id 0 is somebody else's file
    committed,  \* calls whose file was put under the name
    outcome     \* what each call of SendFile has returned

vars == <<offer, stored, told, file, committed, outcome>>

Calls == 1 .. MaxTransfers

Init ==
    /\ offer \in [id : {0}, ver : Versions]
    /\ stored = {} /\ told = FALSE
    /\ file \in [present : {FALSE}, id : {0}, ver : Versions]
    /\ committed = {}
    /\ outcome = [id \in Calls |-> "none"]

(* SendFile is called. *)
MakeOffer ==
    /\ offer' \in [id : Calls, ver : Versions]
    /\ offer'.id = offer.id + 1
    /\ told' = FALSE
    /\ UNCHANGED <<stored, file, committed, outcome>>

(***************************************************************************)
(* A version has become durable, or its copy was given up; what the        *)
(* receiver has told may be lost on the way.                               *)
(***************************************************************************)
Store ==
    /\ stored' \in SUBSET Versions
    /\ told' \in {told, FALSE}
    /\ UNCHANGED <<offer, file, committed, outcome>>

(* The receiver has the whole file, under its name or about to get it. *)
Safe == offer.id \in committed \/ offer.ver \in stored

(* It says so. *)
Answer ==
    /\ Safe
    /\ told' = TRUE
    /\ UNCHANGED <<offer, stored, file, committed, outcome>>

(* Somebody else creates the file. *)
Create ==
    /\ ~file.present
    /\ file' = [file EXCEPT !.present = TRUE, !.id = 0]
    /\ UNCHANGED <<offer, stored, told, committed, outcome>>

(* The old file goes; by then its successor is safe. *)
Remove ==
    /\ Overwrite /\ file.present
    /\ stored # {}
    /\ file' \in [present : {FALSE}, id : {0}, ver : Versions]
    /\ UNCHANGED <<offer, stored, told, committed, outcome>>

(***************************************************************************)
(* A durable copy of the offered version gets the name, once, and not      *)
(* after SendFile was told that the receiver has turned the file down.     *)
(* Only Overwrite lets one transfer take the place of another.             *)
(***************************************************************************)
Commit(id, v) ==
    /\ v \in stored
    /\ id <= offer.id /\ (id = offer.id => v = offer.ver)
    /\ id \notin committed /\ outcome[id] # "cancelled"
    /\ Overwrite \/ committed = {}
    /\ file' = [present |-> TRUE, id |-> id, ver |-> v]
    /\ stored' = {}
    /\ committed' = committed \cup {id}
    /\ UNCHANGED <<offer, told, outcome>>

(***************************************************************************)
(* SendFile returns.  It reports success only when it was told that the    *)
(* receiver has the whole file on stable storage (a later offer may have   *)
(* taken its place since); a cancelled call has left no file.              *)
(***************************************************************************)
Report(result) ==
    /\ outcome[offer.id] = "none"
    /\ result = "completed" => told
    /\ result = "cancelled" => offer.id \notin committed
    /\ outcome' = [outcome EXCEPT ![offer.id] = result]
    /\ told' = FALSE
    /\ UNCHANGED <<offer, stored, file, committed>>

Next ==
    \/ MakeOffer \/ Store \/ Answer \/ Create \/ Remove
    \/ \E id \in Calls, v \in Versions : Commit(id, v)
    \/ offer.id \in Calls /\ \E r \in {"completed", "failed", "cancelled"} : Report(r)

Spec == Init /\ [][Next]_vars
=============================================================================
