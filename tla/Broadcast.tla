------------------------------ MODULE Broadcast ------------------------------
(***************************************************************************)
(* What the live-update channel promises to a listener: it hears the events *)
(* published after it joined, in the order in which they were published and *)
(* without a gap.  Nothing is promised about how far it gets: a listener    *)
(* that is cut off has heard a prefix.                                      *)
(***************************************************************************)
EXTENDS Integers, Sequences

CONSTANT Listeners

VARIABLES
    published,  \* how many events have been published; event n is the n-th
    joined,     \* published when each listener joined
    heard       \* what each listener has heard since it joined

vars == <<published, joined, heard>>

Init ==
    /\ published = 0
    /\ joined = [s \in Listeners |-> 0]
    /\ heard = [s \in Listeners |-> <<>>]

Publish ==
    /\ published' = published + 1
    /\ UNCHANGED <<joined, heard>>

Join(s) ==
    /\ joined' = [joined EXCEPT ![s] = published]
    /\ heard' = [heard EXCEPT ![s] = <<>>]
    /\ UNCHANGED published

Hear(s) ==
    LET event == joined[s] + Len(heard[s]) + 1 IN
    /\ event <= published
    /\ heard' = [heard EXCEPT ![s] = Append(heard[s], event)]
    /\ UNCHANGED <<published, joined>>

Leave(s) ==
    /\ joined' = [joined EXCEPT ![s] = 0]
    /\ heard' = [heard EXCEPT ![s] = <<>>]
    /\ UNCHANGED published

Next == Publish \/ \E s \in Listeners : Join(s) \/ Hear(s) \/ Leave(s)

Spec == Init /\ [][Next]_vars

=============================================================================
