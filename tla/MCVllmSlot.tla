---------------------------- MODULE MCVllmSlot ----------------------------
(* VllmSlot on a small instance. *)
EXTENDS VllmSlot
=============================================================================
