-------------------------- MODULE MCChannelDelivery --------------------------
(***************************************************************************)
(* Instances of ChannelDelivery for TLC.  The configurations give the      *)
(* constants.                                                              *)
(***************************************************************************)
EXTENDS ChannelDelivery
=============================================================================
