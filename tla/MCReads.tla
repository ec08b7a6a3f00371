------------------------------ MODULE MCReads ------------------------------
(* Reads on small instances. *)
EXTENDS Reads, TLC

(* The last alert is ingested while the reader is at work; it comes before  *)
(* the second and the third in every list.  The third has a category that   *)
(* the navigator layer does not know.                                       *)
SomeSeverity == <<"CRITICAL", "LOW", "LOW", "CRITICAL">>
SomeCategory == <<"malware", "malware", "y", "phishing">>
SomeTarget == "CRITICAL" :> 0 @@ "HIGH" :> 0 @@ "MEDIUM" :> 1 @@ "LOW" :> 1

(* A walk through the open queue, and a client of the list of all LOW       *)
(* alerts that asks for a page beyond the end.                              *)
SomeLists ==
    {[what |-> "list", view |-> "open", severity |-> "any", first |-> 1],
     [what |-> "list", view |-> "all", severity |-> "LOW", first |-> 2]}

=============================================================================
