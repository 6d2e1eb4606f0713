----------------------------- MODULE MCTransfer -----------------------------
(***************************************************************************)
(* Instances of Transfer for TLC.  The configurations give the constants.  *)
(***************************************************************************)
EXTENDS Transfer
=============================================================================
