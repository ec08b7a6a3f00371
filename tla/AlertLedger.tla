----------------------------- MODULE AlertLedger -----------------------------
(***************************************************************************)
(* What the triage tables promise to whoever reads them, without workers,   *)
(* transactions or locks: a ledger in which an alert row changes only       *)
(* together with the rows that document the change.                         *)
(*                                                                          *)
(* Each action is one indivisible step.  It is deliberately no stronger     *)
(* than the dashboard is: an alert that is already closed may be classified *)
(* again by an analyst who still saw it open, and the audit row then says   *)
(* "open"; a note may be stamped with a status the alert had earlier.       *)
(***************************************************************************)
EXTENDS Integers

CONSTANTS AlertId, NoRow, ACTION_TO_STATUS(_)

VARIABLES alerts, actions, audit

vars == <<alerts, actions, audit>>

Exists(a) == alerts[a] # NoRow

ClassificationsOf(a) == {r \in audit : r.alert = a /\ r.action # "note_added"}
ActionsOf(a) == {q \in actions : q.alert = a}

(* Every status the alert has had since it was ingested. *)
StatusesOf(a) == {"open"} \cup {r.to : r \in ClassificationsOf(a)}

Init ==
    /\ alerts = [a \in AlertId |-> NoRow]
    /\ actions = {}
    /\ audit = {}

(* A new alert is open and has no history. *)
Ingest(a) ==
    /\ ~Exists(a)
    /\ ActionsOf(a) = {}
    /\ \A r \in audit : r.alert # a
    /\ alerts'[a].status = "open"
    /\ alerts' = [alerts EXCEPT ![a] = alerts'[a]]
    /\ UNCHANGED <<actions, audit>>

(* The status, the analyst's action and the audit row change together, and  *)
(* the new rows are the latest of the alert.                                *)
Classify(a) ==
    \E q \in actions' \ actions, r \in audit' \ audit :
        /\ Exists(a)
        /\ q.alert = a /\ \A p \in ActionsOf(a) : p.id < q.id
        /\ r.alert = a /\ \A p \in ClassificationsOf(a) : p.id < r.id
        /\ r.action = q.action
        /\ r.from = "open"
        /\ r.to = ACTION_TO_STATUS(q.action)
        /\ alerts' = [alerts EXCEPT ![a].status = r.to, ![a].assigned = q.analyst]
        /\ actions' = actions \cup {q}
        /\ audit' = audit \cup {r}

Note(a) ==
    \E r \in audit' \ audit :
        /\ Exists(a)
        /\ r.alert = a
        /\ r.action = "note_added"
        /\ r.from = r.to
        /\ r.to \in StatusesOf(a)
        /\ audit' = audit \cup {r}
        /\ UNCHANGED <<alerts, actions>>

(* Alerts disappear together with everything that refers to them. *)
Purge(gone) ==
    /\ alerts' = [a \in AlertId |-> IF a \in gone THEN NoRow ELSE alerts[a]]
    /\ actions' = {q \in actions : q.alert \notin gone}
    /\ audit' = {r \in audit : r.alert \notin gone}

Next ==
    \/ \E a \in AlertId : Ingest(a) \/ Classify(a) \/ Note(a)
    \/ \E gone \in SUBSET AlertId : Purge(gone)

Spec == Init /\ [][Next]_vars

=============================================================================
