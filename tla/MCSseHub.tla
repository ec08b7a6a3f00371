------------------------------ MODULE MCSseHub ------------------------------
(* SseHub on small instances. *)
EXTENDS SseHub, TLC

=============================================================================
