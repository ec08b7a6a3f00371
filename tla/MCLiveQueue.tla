---------------------------- MODULE MCLiveQueue ----------------------------
(* LiveQueue on small instances. *)
EXTENDS LiveQueue, TLC

=============================================================================
