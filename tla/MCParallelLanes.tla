--------------------------- MODULE MCParallelLanes ---------------------------
(***************************************************************************)
(* Instances of ParallelLanes for TLC.  The configurations give the        *)
(* constants.                                                              *)
(***************************************************************************)
EXTENDS ParallelLanes
=============================================================================
