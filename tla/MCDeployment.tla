---------------------------- MODULE MCDeployment ----------------------------
(* Deployment on small instances. *)
EXTENDS Deployment, TLC

(* Used where no liveness is checked. *)
Symmetric == Permutations(Threads) \cup Permutations(Operators)

=============================================================================
