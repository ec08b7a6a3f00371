------------------------------- MODULE Triage -------------------------------
(***************************************************************************)
(* The triage core of the SOC dashboard: the PostgreSQL tables alerts,      *)
(* analyst_actions and audit_log, and the gunicorn workers whose handlers   *)
(* in src/app.py read and write them.                                       *)
(*                                                                          *)
(* A handler is a READ COMMITTED transaction over one connection.  Every    *)
(* statement is one step, so the steps of different workers interleave as   *)
(* they do in the deployed system (gunicorn --workers 3).  What a           *)
(* transaction has written stays in tx[w] until its commit; the variables   *)
(* alerts, actions and audit are what other connections can see.            *)
(*                                                                          *)
(* Bounds of the model: MaxAlert alert ids, MaxRequests requests reaching   *)
(* the workers and MaxClock ticks of the database clock.                    *)
(***************************************************************************)
EXTENDS Integers, FiniteSets

CONSTANTS
    Workers,      \* gunicorn worker processes, one request each at a time
    Analysts,     \* names the browser can send as body.analyst
    NoOne,        \* SQL NULL in alerts.assigned_to
    MaxAlert,     \* bound on the alerts.id sequence
    MaxRequests,  \* bound on the requests that reach the workers
    MaxClock,     \* bound on the database clock
    Retention     \* ALERT_RETENTION_DAYS, in ticks of the clock

ASSUME WorkersAreFinite == IsFiniteSet(Workers)
ASSUME NoOneIsNoAnalyst == NoOne \notin Analysts
ASSUME BoundsAreNaturals ==
    /\ MaxAlert \in Nat
    /\ MaxRequests \in Nat
    /\ MaxClock \in Nat
ASSUME RetentionIsInteger == Retention \in Int

VARIABLES
    clock,       \* now() of a transaction that starts at this moment
    alerts,      \* committed alerts, by id; status "absent" where there is no row
    actions,     \* committed analyst_actions rows
    audit,       \* committed audit_log rows
    ingested,    \* history: alerts whose INSERT has committed, purged ones included
    announced,   \* <<alert, status>> of every event handed to _sse_publish
    nextAlert,   \* alerts_id_seq
    nextAction,  \* analyst_actions_id_seq
    nextAudit,   \* audit_log_id_seq
    pc,          \* the statement each worker executes next
    tx,          \* what each worker's open transaction has read and written
    arrived      \* requests that have reached the workers so far

tables == <<alerts, actions, audit, ingested>>
sequences == <<nextAlert, nextAction, nextAudit>>
vars == <<clock, tables, announced, sequences, pc, tx, arrived>>

-----------------------------------------------------------------------------
AlertId == 1..MaxAlert

ClassifyActions == {"classify_tp", "classify_fp", "escalate"}

(* Fault: the request's action goes into alerts.status as it is. *)
FaultStatusAsSent(action) == action

ACTION_TO_STATUS(action) ==
    IF action = "classify_tp" THEN "true_positive"
    ELSE IF action = "classify_fp" THEN "false_positive"
    ELSE "escalated"

ClosedStatus == {"true_positive", "false_positive", "escalated"}
Status == {"open"} \cup ClosedStatus

NoRow == [status |-> "absent", assigned |-> NoOne, created |-> 0]

AlertRow == [status : Status, assigned : Analysts \cup {NoOne}, created : Nat]

ActionRow == [id : Nat, alert : AlertId, analyst : Analysts,
              action : ClassifyActions, at : Nat]

AuditRow == [id : Nat, alert : AlertId, action : ClassifyActions \cup {"note_added"},
             from : Status, to : Status, at : Nat]

Present(a) == alerts[a].status # "absent"

(* What a transaction has read (alert, action, analyst, seen), when it      *)
(* started (at), the ids of the rows it has inserted, and, for the purge,   *)
(* the rows it is going to delete and those it has locked.                  *)
NoTx == [alert |-> 0, action |-> "none", analyst |-> NoOne, seen |-> "absent",
         at |-> 0, actionId |-> 0, auditId |-> 0, victims |-> {}, locked |-> {}]

Begun(a, seen, action, analyst, victims) ==
    [alert |-> a, action |-> action, analyst |-> analyst, seen |-> seen,
     at |-> clock, actionId |-> 0, auditId |-> 0, victims |-> victims, locked |-> {}]

Tx == [alert : 0..MaxAlert,
       action : ClassifyActions \cup {"none"},
       analyst : Analysts \cup {NoOne},
       seen : Status \cup {"absent"},
       at : Nat, actionId : Nat, auditId : Nat,
       victims : SUBSET AlertId, locked : SUBSET AlertId]

InTransaction == {"ingest", "update", "action", "audit", "commit", "note", "noted"}
PC == {"boot", "purging", "idle", "publish"} \cup InTransaction

-----------------------------------------------------------------------------
(* Row locks, read off the statements a transaction has executed.  The      *)
(* UPDATE locks its row until the end of the transaction, the foreign key   *)
(* of an audit row locks the alert against deletion only, and a DELETE      *)
(* conflicts with all of them.                                              *)
Updates(w, a) == pc[w] \in {"action", "audit", "commit"} /\ tx[w].alert = a
References(w, a) == pc[w] = "noted" /\ tx[w].alert = a
Deletes(w, a) == pc[w] = "purging" /\ a \in tx[w].locked

MayReference(w, a) == \A v \in Workers \ {w} : ~Deletes(v, a)
MayUpdate(w, a) == \A v \in Workers \ {w} : ~Updates(v, a) /\ ~Deletes(v, a)
MayDelete(w, a) == MayUpdate(w, a) /\ \A v \in Workers : ~References(v, a)

(* The request is over, or its transaction is rolled back: whatever tx[w]   *)
(* held is gone, the ids it drew from the sequences are not returned.       *)
Finish(w) ==
    /\ pc' = [pc EXCEPT ![w] = "idle"]
    /\ tx' = [tx EXCEPT ![w] = NoTx]

Goto(w, label) == pc' = [pc EXCEPT ![w] = label]

Arrive(w) ==
    /\ pc[w] = "idle"
    /\ arrived < MaxRequests
    /\ arrived' = arrived + 1

-----------------------------------------------------------------------------
(* POST /api/alerts, _insert_alert: INSERT, commit, publish.  The embedding *)
(* between commit and publish touches none of these tables.                 *)

(* Fault: the event is published inside the with block of the INSERT.       *)
FaultAnnounceBeforeCommit(w) ==
    /\ Arrive(w)
    /\ nextAlert <= MaxAlert
    /\ nextAlert' = nextAlert + 1
    /\ tx' = [tx EXCEPT ![w] = Begun(nextAlert, "open", "none", NoOne, {})]
    /\ announced' = announced \cup {<<nextAlert, "open">>}
    /\ Goto(w, "ingest")
    /\ UNCHANGED <<clock, tables, nextAction, nextAudit>>

IngestInsert(w) ==
    /\ Arrive(w)
    /\ nextAlert <= MaxAlert
    /\ nextAlert' = nextAlert + 1
    /\ tx' = [tx EXCEPT ![w] = Begun(nextAlert, "open", "none", NoOne, {})]
    /\ Goto(w, "ingest")
    /\ UNCHANGED <<clock, tables, announced, nextAction, nextAudit>>

IngestCommit(w) ==
    /\ pc[w] = "ingest"
    /\ alerts' = [alerts EXCEPT ![tx[w].alert] =
                    [status |-> "open", assigned |-> NoOne, created |-> tx[w].at]]
    /\ ingested' = ingested \cup {tx[w].alert}
    /\ Goto(w, "publish")
    /\ UNCHANGED <<clock, actions, audit, announced, sequences, tx, arrived>>

-----------------------------------------------------------------------------
(* POST /api/alerts/<id>/classify, api_classify. *)

(* abort(404) and abort(409): nothing is written. *)
ClassifyReject(w) ==
    /\ Arrive(w)
    /\ \E a \in AlertId : alerts[a].status # "open"
    /\ UNCHANGED <<clock, tables, announced, sequences, pc, tx>>

(* Fault: the check for an open alert is missing. *)
FaultClassifyAnyStatus(w) ==
    /\ Arrive(w)
    /\ \E a \in AlertId, action \in ClassifyActions, analyst \in Analysts :
         /\ Present(a)
         /\ tx' = [tx EXCEPT ![w] = Begun(a, alerts[a].status, action, analyst, {})]
    /\ Goto(w, "update")
    /\ UNCHANGED <<clock, tables, announced, sequences>>

(* The SELECT takes no lock; the open status it saw is what the rest of the *)
(* handler goes by.                                                         *)
ClassifySelect(w) ==
    /\ Arrive(w)
    /\ \E a \in AlertId, action \in ClassifyActions, analyst \in Analysts :
         /\ alerts[a].status = "open"
         /\ tx' = [tx EXCEPT ![w] = Begun(a, alerts[a].status, action, analyst, {})]
    /\ Goto(w, "update")
    /\ UNCHANGED <<clock, tables, announced, sequences>>

(* UPDATE ... WHERE id: waits for the row's lock and then goes by the id    *)
(* alone.  When the row is gone RETURNING yields nothing, decrypt_alert     *)
(* raises on None and the transaction is rolled back.                       *)
ClassifyUpdate(w) ==
    /\ pc[w] = "update"
    /\ MayUpdate(w, tx[w].alert)
    /\ IF Present(tx[w].alert)
         THEN Goto(w, "action") /\ UNCHANGED tx
         ELSE Finish(w)
    /\ UNCHANGED <<clock, tables, announced, sequences, arrived>>

ClassifyRecordAction(w) ==
    /\ pc[w] = "action"
    /\ tx' = [tx EXCEPT ![w].actionId = nextAction]
    /\ nextAction' = nextAction + 1
    /\ Goto(w, "audit")
    /\ UNCHANGED <<clock, tables, announced, nextAlert, nextAudit, arrived>>

(* Fault: the event is published inside the with block, before its commit. *)
FaultPublishBeforeCommit(w) ==
    /\ pc[w] = "audit"
    /\ tx' = [tx EXCEPT ![w].auditId = nextAudit]
    /\ nextAudit' = nextAudit + 1
    /\ announced' = announced \cup {<<tx[w].alert, ACTION_TO_STATUS(tx[w].action)>>}
    /\ Goto(w, "commit")
    /\ UNCHANGED <<clock, tables, nextAlert, nextAction, arrived>>

ClassifyRecordAudit(w) ==
    /\ pc[w] = "audit"
    /\ tx' = [tx EXCEPT ![w].auditId = nextAudit]
    /\ nextAudit' = nextAudit + 1
    /\ Goto(w, "commit")
    /\ UNCHANGED <<clock, tables, announced, nextAlert, nextAction, arrived>>

(* The rows a handler has written.  An audit row carries the status that    *)
(* the handler's SELECT saw.                                                *)
NoteAuditRow(t) ==
    [id |-> t.auditId, alert |-> t.alert, action |-> "note_added",
     from |-> t.seen, to |-> t.seen, at |-> t.at]

(* Fault: the UPDATE assigns the alert and leaves it open. *)
FaultClaimedAlert(t) == [alerts[t.alert] EXCEPT !.assigned = t.analyst]

(* Fault: UPDATE ... WHERE id AND status = 'open', its row count unchecked.  *)
FaultUpdateOnlyOpen(t) ==
    IF alerts[t.alert].status = "open"
      THEN [status |-> ACTION_TO_STATUS(t.action), assigned |-> t.analyst,
            created |-> alerts[t.alert].created]
      ELSE alerts[t.alert]

ClassifiedAlert(t) ==
    [status |-> ACTION_TO_STATUS(t.action), assigned |-> t.analyst,
     created |-> alerts[t.alert].created]

ClassifyActionRow(t) ==
    [id |-> t.actionId, alert |-> t.alert, analyst |-> t.analyst,
     action |-> t.action, at |-> t.at]

ClassifyAuditRow(t) ==
    [id |-> t.auditId, alert |-> t.alert, action |-> t.action,
     from |-> t.seen, to |-> ACTION_TO_STATUS(t.action), at |-> t.at]

ClassifyCommit(w) ==
    /\ pc[w] = "commit"
    /\ alerts' = [alerts EXCEPT ![tx[w].alert] = ClassifiedAlert(tx[w])]
    /\ actions' = actions \cup {ClassifyActionRow(tx[w])}
    /\ audit' = audit \cup {ClassifyAuditRow(tx[w])}
    /\ Goto(w, "publish")
    /\ UNCHANGED <<clock, ingested, announced, sequences, tx, arrived>>

-----------------------------------------------------------------------------
(* _sse_publish after the commit of an ingest or of a classification, and   *)
(* the response.                                                            *)
PublishedStatus(t) ==
    IF t.action = "none" THEN "open" ELSE ACTION_TO_STATUS(t.action)

(* Fault: redis.from_url without its socket_timeout: the call waits for a   *)
(* Redis that does not answer.                                              *)
FaultPublishWaits(w) == pc[w] = "publish" /\ UNCHANGED vars

Publish(w) ==
    /\ pc[w] = "publish"
    /\ announced' = announced \cup {<<tx[w].alert, PublishedStatus(tx[w])>>}
    /\ Finish(w)
    /\ UNCHANGED <<clock, tables, sequences, arrived>>

(* Neither the embedding of an ingested alert nor the Redis publish is      *)
(* guarded: an exception turns the request into a 500 although the change   *)
(* is committed.                                                            *)
PublishRaises(w) ==
    /\ pc[w] = "publish"
    /\ Finish(w)
    /\ UNCHANGED <<clock, tables, announced, sequences, arrived>>

-----------------------------------------------------------------------------
(* POST /api/alerts/<id>/notes, api_add_note.  The 404 is ClassifyReject's. *)
NoteSelect(w) ==
    /\ Arrive(w)
    /\ \E a \in AlertId :
         /\ Present(a)
         /\ tx' = [tx EXCEPT ![w] = Begun(a, alerts[a].status, "none", NoOne, {})]
    /\ Goto(w, "note")
    /\ UNCHANGED <<clock, tables, announced, sequences>>

(* The INSERT's foreign key waits for a deleter and fails once the alert is *)
(* gone: an IntegrityError, answered 500.                                   *)
NoteInsert(w) ==
    /\ pc[w] = "note"
    /\ MayReference(w, tx[w].alert)
    /\ nextAudit' = nextAudit + 1
    /\ IF Present(tx[w].alert)
         THEN Goto(w, "noted") /\ tx' = [tx EXCEPT ![w].auditId = nextAudit]
         ELSE Finish(w)
    /\ UNCHANGED <<clock, tables, announced, nextAlert, nextAction, arrived>>

NoteCommit(w) ==
    /\ pc[w] = "noted"
    /\ audit' = audit \cup {NoteAuditRow(tx[w])}
    /\ Finish(w)
    /\ UNCHANGED <<clock, alerts, actions, ingested, announced, sequences, arrived>>

-----------------------------------------------------------------------------
(* Importing app.py in a new worker: purge_old_alerts once, then serve. *)
BootWithoutPurge(w) ==
    /\ pc[w] = "boot"
    /\ Retention <= 0
    /\ Finish(w)
    /\ UNCHANGED <<clock, tables, announced, sequences, arrived>>

Expired(a, now) == Present(a) /\ alerts[a].created < now - Retention

PurgeStart(w) ==
    /\ pc[w] = "boot"
    /\ Retention > 0
    /\ tx' = [tx EXCEPT ![w] =
                Begun(0, "absent", "none", NoOne, {a \in AlertId : Expired(a, clock)})]
    /\ Goto(w, "purging")
    /\ UNCHANGED <<clock, tables, announced, sequences, arrived>>

(* The DELETE reaches the expired rows one at a time, in an order the code  *)
(* does not fix, and waits for the transactions that use them.  A row that  *)
(* another purge has deleted is passed over.                                *)
PurgeRow(w) ==
    /\ pc[w] = "purging"
    /\ \E a \in tx[w].victims \ tx[w].locked :
         /\ MayDelete(w, a)
         /\ tx' = IF Present(a) THEN [tx EXCEPT ![w].locked = @ \cup {a}]
                                ELSE [tx EXCEPT ![w].victims = @ \ {a}]
    /\ UNCHANGED <<clock, tables, announced, sequences, pc, arrived>>

(* Fault: a foreign key without ON DELETE CASCADE, or none at all. *)
FaultNoCascade(table, gone) == table

(* ON DELETE CASCADE removes the rows that refer to a deleted alert. *)
Cascade(table, gone) == {r \in table : r.alert \notin gone}

PurgeCommit(w) ==
    LET gone == tx[w].locked IN
    /\ pc[w] = "purging"
    /\ tx[w].victims = gone
    /\ alerts' = [a \in AlertId |-> IF a \in gone THEN NoRow ELSE alerts[a]]
    /\ actions' = Cascade(actions, gone)
    /\ audit' = Cascade(audit, gone)
    /\ Finish(w)
    /\ UNCHANGED <<clock, ingested, announced, sequences, arrived>>

(* Purges may wait for each other's rows in a circle: the DELETE has no     *)
(* ORDER BY.  PostgreSQL's deadlock detector fails one of them.             *)
WantsRowOf(w, v) ==
    /\ pc[w] = "purging"
    /\ pc[v] = "purging"
    /\ tx[w].victims \cap tx[v].locked # {}

PurgeDeadlocked(w) ==
    /\ \E S \in SUBSET Workers :
         w \in S /\ \A v \in S : \E u \in S \ {v} : WantsRowOf(v, u)
    /\ Finish(w)
    /\ UNCHANGED <<clock, tables, announced, sequences, arrived>>

(* An error of the boot purge is caught and the worker serves all the same. *)
PurgeSkipped(w) ==
    /\ pc[w] \in {"boot", "purging"}
    /\ Retention > 0
    /\ Finish(w)
    /\ UNCHANGED <<clock, tables, announced, sequences, arrived>>

-----------------------------------------------------------------------------
(* A database error inside a handler leaves the with block by an exception: *)
(* rollback, answer 500, and the worker serves the next request.            *)
RequestFails(w) ==
    /\ pc[w] \in InTransaction
    /\ Finish(w)
    /\ UNCHANGED <<clock, tables, announced, sequences, arrived>>

(* The process dies: PostgreSQL rolls its transaction back and gunicorn     *)
(* boots a new worker.                                                      *)
Crash(w) ==
    /\ pc[w] # "boot"
    /\ Goto(w, "boot")
    /\ tx' = [tx EXCEPT ![w] = NoTx]
    /\ UNCHANGED <<clock, tables, announced, sequences, arrived>>

Tick ==
    /\ clock < MaxClock
    /\ clock' = clock + 1
    /\ UNCHANGED <<tables, announced, sequences, pc, tx, arrived>>

-----------------------------------------------------------------------------
Init ==
    /\ clock = 0
    /\ alerts = [a \in AlertId |-> NoRow]
    /\ actions = {}
    /\ audit = {}
    /\ ingested = {}
    /\ announced = {}
    /\ nextAlert = 1
    /\ nextAction = 1
    /\ nextAudit = 1
    /\ pc = [w \in Workers |-> "boot"]
    /\ tx = [w \in Workers |-> NoTx]
    /\ arrived = 0

(* A request the worker has accepted and a purge it has begun go on: the    *)
(* worker is running code, and PostgreSQL hands a lock on or detects the    *)
(* deadlock.                                                                *)
Progress(w) ==
    \/ IngestCommit(w)
    \/ ClassifyUpdate(w)
    \/ ClassifyRecordAction(w)
    \/ ClassifyRecordAudit(w)
    \/ ClassifyCommit(w)
    \/ Publish(w)
    \/ NoteInsert(w)
    \/ NoteCommit(w)
    \/ BootWithoutPurge(w)
    \/ PurgeStart(w)
    \/ PurgeRow(w)
    \/ PurgeCommit(w)
    \/ PurgeDeadlocked(w)

Request(w) ==
    \/ IngestInsert(w)
    \/ ClassifyReject(w)
    \/ ClassifySelect(w)
    \/ NoteSelect(w)

Failure(w) ==
    \/ PublishRaises(w)
    \/ PurgeSkipped(w)
    \/ RequestFails(w)
    \/ Crash(w)

(* Every request the bounds allow has been served. *)
Quiet ==
    /\ \A w \in Workers : pc[w] = "idle"
    /\ UNCHANGED vars

Next == (\E w \in Workers : Progress(w) \/ Request(w) \/ Failure(w)) \/ Tick \/ Quiet

Spec == Init /\ [][Next]_vars

FairSpec == Spec /\ \A w \in Workers : WF_vars(Progress(w))

-----------------------------------------------------------------------------
(* Properties *)

TypeOK ==
    /\ clock \in Nat
    /\ alerts \in [AlertId -> AlertRow \cup {NoRow}]
    /\ actions \subseteq ActionRow
    /\ audit \subseteq AuditRow
    /\ ingested \subseteq AlertId
    /\ announced \subseteq AlertId \X Status
    /\ nextAlert \in 1..(MaxAlert + 1) /\ nextAction \in Nat /\ nextAudit \in Nat
    /\ pc \in [Workers -> PC]
    /\ tx \in [Workers -> Tx]
    /\ arrived \in 0..MaxRequests

ClassificationsOf(a) == {r \in audit : r.alert = a /\ r.action # "note_added"}
ActionsOf(a) == {r \in actions : r.alert = a}
IsLatest(r, rows) == r \in rows /\ \A s \in rows : s.id <= r.id

(* The audit trail explains the status: an alert is open exactly when no    *)
(* classification of it is on record, and otherwise its status is the       *)
(* to_status of the classification recorded last.  It holds although        *)
(* api_classify checks and updates without a lock, because the audit id is  *)
(* drawn while the UPDATE's row lock is held.                               *)
StatusIsLastClassification ==
    \A a \in AlertId : Present(a) =>
        /\ alerts[a].status = "open" <=> ClassificationsOf(a) = {}
        /\ \A r \in ClassificationsOf(a) :
             IsLatest(r, ClassificationsOf(a)) => r.to = alerts[a].status

(* assigned_to is the analyst of the last recorded action and NULL before   *)
(* the first one: racing classifications never leave one analyst's name     *)
(* beside another one's verdict.                                            *)
AssigneeIsLastActor ==
    \A a \in AlertId : Present(a) =>
        /\ alerts[a].assigned = NoOne <=> ActionsOf(a) = {}
        /\ \A r \in ActionsOf(a) :
             IsLatest(r, ActionsOf(a)) => r.analyst = alerts[a].assigned

(* What the "My Queue" preset asks for (status open and assigned_to the     *)
(* analyst) matches no alert: api_classify is the only writer of            *)
(* assigned_to and it closes the alert in the same UPDATE.                  *)
OpenIsUnassigned ==
    \A a \in AlertId : alerts[a].status = "open" => alerts[a].assigned = NoOne

(* analyst_actions (the MTTR figures) and audit_log tell the same story: in *)
(* the order of their ids, the k-th action on an alert and its k-th         *)
(* classification are the same verdict of the same transaction.             *)
ActionsMatchAudit ==
    \A a \in AlertId :
        /\ Cardinality(ActionsOf(a)) = Cardinality(ClassificationsOf(a))
        /\ \A q \in ActionsOf(a), r \in ClassificationsOf(a) :
             Cardinality({p \in ActionsOf(a) : p.id < q.id})
               = Cardinality({p \in ClassificationsOf(a) : p.id < r.id})
             => q.action = r.action /\ q.at = r.at

(* No purge leaves a row behind that refers to a deleted alert, and no      *)
(* handler adds one after the purge.                                        *)
NoOrphanRows == \A r \in actions \cup audit : Present(r.alert)

(* How far the unlocked check in api_classify can go wrong: only workers    *)
(* that were past the check when the alert was first closed can classify it *)
(* again, once each.                                                        *)
ClassifiedAtMostOncePerWorker ==
    \A a \in AlertId : Cardinality(ClassificationsOf(a)) <= Cardinality(Workers)

(* A subscriber is told nothing that a query would not find: an event, that *)
(* of a new alert included, is published after the commit of the change it  *)
(* announces.  What it tells of is in the tables, unless the alert has been *)
(* purged since.                                                            *)
AnnouncedIsRecorded ==
    \A e \in announced :
        /\ e[1] \in ingested
        /\ Present(e[1]) =>
             e[2] = "open" \/ \E r \in ClassificationsOf(e[1]) : r.to = e[2]

(* Every committed change of the three tables is one step of the ledger. *)
Ledger == INSTANCE AlertLedger
ImplementsLedger == Ledger!Spec

(* A worker that has begun a request or its boot purge gets back to serving *)
(* requests, unless workers crash for ever: no wait for a row lock lasts.   *)
WorkersReturn ==
    <>[][\A w \in Workers : ~Crash(w)]_vars
        => \A w \in Workers : pc[w] # "idle" ~> pc[w] = "idle"

(* tests/test_app.py: "reclassifying is rejected".  A closed alert keeps    *)
(* its verdict until it is purged.                                          *)
ClosedIsFinal ==
    [][\A a \in AlertId : alerts[a].status \in ClosedStatus =>
          alerts'[a].status \in {alerts[a].status, "absent"}]_vars

=============================================================================
