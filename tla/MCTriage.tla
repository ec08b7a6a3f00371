------------------------------ MODULE MCTriage ------------------------------
(* Triage on small instances. *)
EXTENDS Triage, TLC

(* Workers and analysts are interchangeable: used only by the runs that     *)
(* check no liveness property.                                              *)
Symmetric == Permutations(Workers) \cup Permutations(Analysts)

=============================================================================
