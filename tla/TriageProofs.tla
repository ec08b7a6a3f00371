---------------------------- MODULE TriageProofs ----------------------------
(***************************************************************************)
(* What holds of Triage for every number of workers, analysts, alerts and   *)
(* requests, and for every retention.                                       *)
(***************************************************************************)
EXTENDS Triage, TLAPS

(* The stages at which a handler holds the row lock of its UPDATE. *)
Updating == {"action", "audit", "commit"}

(* What a transaction knows about its own request at each stage. *)
StageOf(label, t) ==
    /\ label \in InTransaction \cup {"publish"} => t.alert \in AlertId
    /\ label \in Updating \cup {"update"} =>
         /\ t.action \in ClassifyActions
         /\ t.analyst \in Analysts
         /\ t.seen = "open"
    /\ label \in {"note", "noted"} => t.seen \in Status

StageOK == \A w \in Workers : StageOf(pc[w], tx[w])

(* Row locks exclude each other, between any two workers. *)
LocksExclude ==
    \A w, v \in Workers, a \in AlertId : w # v =>
        /\ Updates(w, a) => ~Updates(v, a) /\ ~Deletes(v, a)
        /\ Deletes(w, a) => ~Deletes(v, a) /\ ~References(v, a)

(* A locked row is there. *)
LockedPresent ==
    \A w \in Workers, a \in AlertId :
        Updates(w, a) \/ References(w, a) \/ Deletes(w, a) => Present(a)

(* An id drawn from alerts_id_seq belongs to one uncommitted row. *)
FreshAlert ==
    /\ \A a \in AlertId : Present(a) => a < nextAlert
    /\ \A w \in Workers : pc[w] = "ingest" =>
         /\ tx[w].alert < nextAlert
         /\ ~Present(tx[w].alert)
         /\ \A v \in Workers \ {w} : pc[v] = "ingest" => tx[v].alert # tx[w].alert

(* Rows are numbered from the sequences, and the rows of a transaction that *)
(* holds an alert's row lock come after all the alert's committed ones.     *)
RowsNumbered ==
    /\ \A r \in audit : r.id < nextAudit
    /\ \A r \in actions : r.id < nextAction
    /\ \A w \in Workers :
         /\ pc[w] \in {"commit", "noted"} => tx[w].auditId < nextAudit
         /\ pc[w] \in {"audit", "commit"} => tx[w].actionId < nextAction
         /\ pc[w] = "commit" =>
              \A r \in ClassificationsOf(tx[w].alert) : r.id < tx[w].auditId
         /\ pc[w] \in {"audit", "commit"} =>
              \A r \in ActionsOf(tx[w].alert) : r.id < tx[w].actionId

TypeInv == TypeOK /\ StageOK
LockInv == TypeInv /\ LocksExclude /\ LockedPresent
RowInv == LockInv /\ FreshAlert /\ NoOrphanRows
TrailInv == RowInv /\ RowsNumbered /\ StatusIsLastClassification /\ AssigneeIsLastActor

-----------------------------------------------------------------------------
(* Types *)

LEMMA StatusOfAction ==
    ASSUME NEW action \in ClassifyActions
    PROVE  ACTION_TO_STATUS(action) \in ClosedStatus
BY DEF ACTION_TO_STATUS, ClassifyActions, ClosedStatus

LEMMA NoTxType == NoTx \in Tx
BY BoundsAreNaturals DEF NoTx, Tx

(* A step of one worker keeps the types when what it leaves in pc[w] and    *)
(* tx[w] is right.                                                          *)
LEMMA WorkerStepTypes ==
    ASSUME TypeInv, NEW w \in Workers, NEW label \in PC, NEW t \in Tx,
           StageOf(label, t),
           pc' = [pc EXCEPT ![w] = label],
           tx' = [tx EXCEPT ![w] = t]
    PROVE  /\ pc' \in [Workers -> PC]
           /\ tx' \in [Workers -> Tx]
           /\ StageOK'
<1>1. \A v \in Workers \ {w} : pc'[v] = pc[v] /\ tx'[v] = tx[v]
  BY DEF TypeInv, TypeOK
<1>2. pc'[w] = label /\ tx'[w] = t
  BY DEF TypeInv, TypeOK
<1>3. StageOK'
  <2>1. \A v \in Workers : StageOf(pc'[v], tx'[v])
    BY <1>1, <1>2 DEF TypeInv, StageOK
  <2> QED
    BY <2>1 DEF StageOK, StageOf, AlertId
<1> QED
  BY <1>3 DEF TypeInv, TypeOK

LEMMA ResetTypes ==
    ASSUME TypeInv, NEW w \in Workers, NEW label \in {"idle", "boot"},
           pc' = [pc EXCEPT ![w] = label],
           tx' = [tx EXCEPT ![w] = NoTx]
    PROVE  /\ pc' \in [Workers -> PC]
           /\ tx' \in [Workers -> Tx]
           /\ StageOK'
<1>1. StageOf(label, NoTx)
  BY DEF StageOf, InTransaction, Updating
<1>2. label \in PC
  BY DEF PC
<1> QED
  BY <1>1, <1>2, NoTxType, WorkerStepTypes

(* The steps that matter to the invariants.  A rollback is all that a       *)
(* failure, a 404 or 500, a crash or an abandoned purge leaves behind.      *)
Rollback(w) ==
    /\ \E label \in {"idle", "boot"} : pc' = [pc EXCEPT ![w] = label]
    /\ tx' = [tx EXCEPT ![w] = NoTx]
    /\ UNCHANGED <<clock, alerts, actions, audit, ingested, announced, nextAlert, nextAction,
                   nextAudit, arrived>>

Update(w) == ClassifyUpdate(w) /\ Present(tx[w].alert)

NothingWritten ==
    /\ clock' \in Nat
    /\ arrived' \in 0..MaxRequests
    /\ UNCHANGED <<alerts, actions, audit, ingested, announced, nextAlert, nextAction,
                   nextAudit, pc, tx>>

Writes(w) ==
    \/ IngestInsert(w) \/ IngestCommit(w)
    \/ ClassifySelect(w) \/ Update(w) \/ ClassifyRecordAction(w)
    \/ ClassifyRecordAudit(w) \/ ClassifyCommit(w)
    \/ Publish(w)
    \/ NoteSelect(w) \/ NoteInsert(w) \/ NoteCommit(w)
    \/ PurgeStart(w) \/ PurgeRow(w) \/ PurgeCommit(w)

LEMMA StepKinds ==
    ASSUME TypeOK, [Next]_vars
    PROVE  \/ \E w \in Workers : Writes(w) \/ Rollback(w)
           \/ NothingWritten
<1>1. ASSUME NEW w \in Workers, Progress(w)
      PROVE  Writes(w) \/ Rollback(w)
  BY <1>1
  DEF Progress, Writes, Rollback, Update, Finish, Goto, ClassifyUpdate, BootWithoutPurge,
      PurgeDeadlocked, tables, sequences
<1>2. ASSUME NEW w \in Workers, Request(w)
      PROVE  Writes(w) \/ NothingWritten
  BY <1>2, BoundsAreNaturals
  DEF Request, Writes, NothingWritten, ClassifyReject, Arrive, TypeOK, tables, sequences
<1>3. ASSUME NEW w \in Workers, Failure(w)
      PROVE  Rollback(w)
  BY <1>3
  DEF Failure, Rollback, PublishRaises, PurgeSkipped, RequestFails, Crash, Finish, Goto,
      tables, sequences
<1>4. Tick => NothingWritten
  BY DEF Tick, NothingWritten, TypeOK, tables, sequences
<1>5. Quiet \/ UNCHANGED vars => NothingWritten
  BY DEF Quiet, vars, NothingWritten, TypeOK, tables, sequences
<1> QED
  BY <1>1, <1>2, <1>3, <1>4, <1>5 DEF Next

LEMMA TypeInit == Init => TypeInv
BY NoTxType, BoundsAreNaturals
DEF Init, TypeInv, TypeOK, StageOK, StageOf, AlertId, PC, InTransaction, Updating

LEMMA TypeStep == TypeInv /\ [Next]_vars => TypeInv'
<1> SUFFICES ASSUME TypeInv, [Next]_vars
             PROVE  TypeInv'
  OBVIOUS
<1>1. ASSUME NEW w \in Workers, IngestInsert(w)
      PROVE  TypeInv'
  <2> DEFINE t == Begun(nextAlert, "open", "none", NoOne, {})
  <2>1. t \in Tx /\ StageOf("ingest", t) /\ "ingest" \in PC
    BY <1>1, BoundsAreNaturals
    DEF IngestInsert, TypeInv, TypeOK, AlertId, Begun, Tx, Status, StageOf,
        InTransaction, Updating, PC
  <2>2. pc' = [pc EXCEPT ![w] = "ingest"] /\ tx' = [tx EXCEPT ![w] = t]
    BY <1>1 DEF IngestInsert, Goto
  <2> HIDE DEF t
  <2>3. StageOK' /\ pc' \in [Workers -> PC] /\ tx' \in [Workers -> Tx]
    BY <2>1, <2>2, WorkerStepTypes
  <2>4. nextAlert' \in 1..(MaxAlert + 1) /\ arrived' \in 0..MaxRequests
    BY <1>1, BoundsAreNaturals DEF IngestInsert, Arrive, TypeInv, TypeOK
  <2>5. UNCHANGED <<clock, alerts, actions, audit, ingested, announced, nextAction, nextAudit>>
    BY <1>1 DEF IngestInsert, tables
  <2> QED
    BY <2>3, <2>4, <2>5 DEF TypeInv, TypeOK
<1>2. ASSUME NEW w \in Workers, IngestCommit(w)
      PROVE  TypeInv'
  <2>1. StageOf("publish", tx[w]) /\ "publish" \in PC /\ tx[w] \in Tx
    BY <1>2
    DEF IngestCommit, TypeInv, TypeOK, StageOK, StageOf, InTransaction, Updating, PC
  <2>2. pc' = [pc EXCEPT ![w] = "publish"] /\ tx' = [tx EXCEPT ![w] = tx[w]]
    BY <1>2 DEF IngestCommit, Goto, TypeInv, TypeOK
  <2>3. StageOK' /\ pc' \in [Workers -> PC] /\ tx' \in [Workers -> Tx]
    BY <2>1, <2>2, WorkerStepTypes
  <2>4. tx[w].at \in Nat
    BY DEF TypeInv, TypeOK, Tx
  <2>5. alerts' \in [AlertId -> AlertRow \cup {NoRow}]
    BY <1>2, <2>4 DEF IngestCommit, TypeInv, TypeOK, AlertRow, Status
  <2>6. ingested' \subseteq AlertId
    BY <1>2 DEF IngestCommit, TypeInv, TypeOK, StageOK, StageOf, InTransaction
  <2> QED
    BY <1>2, <2>3, <2>5, <2>6 DEF IngestCommit, sequences, TypeInv, TypeOK, AlertId, ActionRow, AuditRow
<1>3. ASSUME NEW w \in Workers, ClassifySelect(w)
      PROVE  TypeInv'
  <2>1. PICK a \in AlertId, action \in ClassifyActions, analyst \in Analysts :
          /\ alerts[a].status = "open"
          /\ tx' = [tx EXCEPT ![w] = Begun(a, alerts[a].status, action, analyst, {})]
    BY <1>3 DEF ClassifySelect
  <2> DEFINE t == Begun(a, "open", action, analyst, {})
  <2>2. t \in Tx /\ StageOf("update", t) /\ "update" \in PC
    BY BoundsAreNaturals
    DEF TypeInv, TypeOK, AlertId, Begun, Tx, Status, StageOf, InTransaction, Updating, PC
  <2>3. pc' = [pc EXCEPT ![w] = "update"] /\ tx' = [tx EXCEPT ![w] = t]
    BY <1>3, <2>1 DEF ClassifySelect, Goto
  <2> HIDE DEF t
  <2>4. StageOK' /\ pc' \in [Workers -> PC] /\ tx' \in [Workers -> Tx]
    BY <2>2, <2>3, WorkerStepTypes
  <2> QED
    BY <1>3, <2>4, BoundsAreNaturals
    DEF ClassifySelect, Arrive, tables, sequences, TypeInv, TypeOK, AlertId, AlertRow,
        ActionRow, AuditRow
<1>4. ASSUME NEW w \in Workers, Update(w)
      PROVE  TypeInv'
  <2>1. StageOf("action", tx[w]) /\ "action" \in PC /\ tx[w] \in Tx
    BY <1>4
    DEF Update, ClassifyUpdate, TypeInv, TypeOK, StageOK, StageOf, InTransaction, Updating, PC
  <2>2. pc' = [pc EXCEPT ![w] = "action"] /\ tx' = [tx EXCEPT ![w] = tx[w]]
    BY <1>4 DEF Update, ClassifyUpdate, Goto, TypeInv, TypeOK
  <2>3. StageOK' /\ pc' \in [Workers -> PC] /\ tx' \in [Workers -> Tx]
    BY <2>1, <2>2, WorkerStepTypes
  <2> QED
    BY <1>4, <2>3
    DEF Update, ClassifyUpdate, tables, sequences, TypeInv, TypeOK, AlertId, AlertRow, ActionRow,
        AuditRow
<1>5. ASSUME NEW w \in Workers, ClassifyRecordAction(w)
      PROVE  TypeInv'
  <2> DEFINE t == [tx[w] EXCEPT !.actionId = nextAction]
  <2>1. t \in Tx /\ StageOf("audit", t) /\ "audit" \in PC
    BY <1>5
    DEF ClassifyRecordAction, TypeInv, TypeOK, StageOK, StageOf, InTransaction, Updating, PC, Tx
  <2>2. pc' = [pc EXCEPT ![w] = "audit"] /\ tx' = [tx EXCEPT ![w] = t]
    BY <1>5 DEF ClassifyRecordAction, Goto, TypeInv, TypeOK
  <2> HIDE DEF t
  <2>3. StageOK' /\ pc' \in [Workers -> PC] /\ tx' \in [Workers -> Tx]
    BY <2>1, <2>2, WorkerStepTypes
  <2> QED
    BY <1>5, <2>3 DEF ClassifyRecordAction, tables, TypeInv, TypeOK
<1>6. ASSUME NEW w \in Workers, ClassifyRecordAudit(w)
      PROVE  TypeInv'
  <2> DEFINE t == [tx[w] EXCEPT !.auditId = nextAudit]
  <2>1. t \in Tx /\ StageOf("commit", t) /\ "commit" \in PC
    BY <1>6
    DEF ClassifyRecordAudit, TypeInv, TypeOK, StageOK, StageOf, InTransaction, Updating, PC, Tx
  <2>2. pc' = [pc EXCEPT ![w] = "commit"] /\ tx' = [tx EXCEPT ![w] = t]
    BY <1>6 DEF ClassifyRecordAudit, Goto, TypeInv, TypeOK
  <2> HIDE DEF t
  <2>3. StageOK' /\ pc' \in [Workers -> PC] /\ tx' \in [Workers -> Tx]
    BY <2>1, <2>2, WorkerStepTypes
  <2> QED
    BY <1>6, <2>3 DEF ClassifyRecordAudit, tables, TypeInv, TypeOK
<1>7. ASSUME NEW w \in Workers, ClassifyCommit(w)
      PROVE  TypeInv'
  <2>1. /\ tx[w] \in Tx
        /\ tx[w].alert \in AlertId
        /\ tx[w].action \in ClassifyActions
        /\ tx[w].analyst \in Analysts
        /\ tx[w].seen = "open"
    BY <1>7
    DEF ClassifyCommit, TypeInv, TypeOK, StageOK, StageOf, InTransaction, Updating
  <2>2. StageOf("publish", tx[w]) /\ "publish" \in PC
    BY <2>1 DEF StageOf, InTransaction, Updating, PC
  <2>3. pc' = [pc EXCEPT ![w] = "publish"] /\ tx' = [tx EXCEPT ![w] = tx[w]]
    BY <1>7 DEF ClassifyCommit, Goto, TypeInv, TypeOK
  <2>4. StageOK' /\ pc' \in [Workers -> PC] /\ tx' \in [Workers -> Tx]
    BY <2>1, <2>2, <2>3, WorkerStepTypes
  <2>5. ACTION_TO_STATUS(tx[w].action) \in Status
    BY <2>1, StatusOfAction DEF Status
  <2>6. ClassifiedAlert(tx[w]) \in AlertRow
    BY <2>1, <2>5 DEF ClassifiedAlert, AlertRow, NoRow, TypeInv, TypeOK
  <2>7. ClassifyActionRow(tx[w]) \in ActionRow /\ ClassifyAuditRow(tx[w]) \in AuditRow
    BY <2>1, <2>5 DEF ClassifyActionRow, ClassifyAuditRow, ActionRow, AuditRow, Tx, Status
  <2> QED
    BY <1>7, <2>4, <2>6, <2>7 DEF ClassifyCommit, sequences, TypeInv, TypeOK
<1>8. ASSUME NEW w \in Workers, Publish(w)
      PROVE  TypeInv'
  <2>1. tx[w].alert \in AlertId /\ tx[w] \in Tx
    BY <1>8 DEF Publish, TypeInv, TypeOK, StageOK, StageOf
  <2>2. PublishedStatus(tx[w]) \in Status
    BY <2>1, StatusOfAction DEF PublishedStatus, Status, Tx
  <2>3. StageOK' /\ pc' \in [Workers -> PC] /\ tx' \in [Workers -> Tx]
    BY <1>8, ResetTypes DEF Publish, Finish
  <2> QED
    BY <1>8, <2>1, <2>2, <2>3 DEF Publish, tables, sequences, TypeInv, TypeOK
<1>9. ASSUME NEW w \in Workers, NoteSelect(w)
      PROVE  TypeInv'
  <2>1. PICK a \in AlertId :
          /\ Present(a)
          /\ tx' = [tx EXCEPT ![w] = Begun(a, alerts[a].status, "none", NoOne, {})]
    BY <1>9 DEF NoteSelect
  <2> DEFINE t == Begun(a, alerts[a].status, "none", NoOne, {})
  <2>2. alerts[a].status \in Status
    BY <2>1 DEF Present, TypeInv, TypeOK, AlertRow, NoRow
  <2>3. t \in Tx /\ StageOf("note", t) /\ "note" \in PC
    BY <2>2, BoundsAreNaturals
    DEF TypeInv, TypeOK, AlertId, Begun, Tx, StageOf, InTransaction, Updating, PC
  <2>4. pc' = [pc EXCEPT ![w] = "note"] /\ tx' = [tx EXCEPT ![w] = t]
    BY <1>9, <2>1 DEF NoteSelect, Goto
  <2> HIDE DEF t
  <2>5. StageOK' /\ pc' \in [Workers -> PC] /\ tx' \in [Workers -> Tx]
    BY <2>3, <2>4, WorkerStepTypes
  <2> QED
    BY <1>9, <2>5, BoundsAreNaturals
    DEF NoteSelect, Arrive, tables, sequences, TypeInv, TypeOK
<1>10. ASSUME NEW w \in Workers, NoteInsert(w)
      PROVE  TypeInv'
  <2>1. ASSUME Present(tx[w].alert)
        PROVE  StageOK' /\ pc' \in [Workers -> PC] /\ tx' \in [Workers -> Tx]
    <3> DEFINE t == [tx[w] EXCEPT !.auditId = nextAudit]
    <3>1. t \in Tx /\ StageOf("noted", t) /\ "noted" \in PC
      BY <1>10
      DEF NoteInsert, TypeInv, TypeOK, StageOK, StageOf, InTransaction, Updating, PC, Tx
    <3>2. pc' = [pc EXCEPT ![w] = "noted"] /\ tx' = [tx EXCEPT ![w] = t]
      BY <1>10, <2>1 DEF NoteInsert, Goto, TypeInv, TypeOK
    <3> HIDE DEF t
    <3> QED
      BY <3>1, <3>2, WorkerStepTypes
  <2>2. ASSUME ~Present(tx[w].alert)
        PROVE  StageOK' /\ pc' \in [Workers -> PC] /\ tx' \in [Workers -> Tx]
    BY <1>10, <2>2, ResetTypes DEF NoteInsert, Finish
  <2>3. StageOK' /\ pc' \in [Workers -> PC] /\ tx' \in [Workers -> Tx]
    BY <2>1, <2>2
  <2> QED
    BY <1>10, <2>3 DEF NoteInsert, tables, TypeInv, TypeOK
<1>11. ASSUME NEW w \in Workers, NoteCommit(w)
      PROVE  TypeInv'
  <2>1. tx[w] \in Tx /\ tx[w].alert \in AlertId /\ tx[w].seen \in Status
    BY <1>11 DEF NoteCommit, TypeInv, TypeOK, StageOK, StageOf, InTransaction
  <2>2. NoteAuditRow(tx[w]) \in AuditRow
    BY <2>1 DEF NoteAuditRow, AuditRow, Tx
  <2>3. StageOK' /\ pc' \in [Workers -> PC] /\ tx' \in [Workers -> Tx]
    BY <1>11, ResetTypes DEF NoteCommit, Finish
  <2> QED
    BY <1>11, <2>2, <2>3 DEF NoteCommit, sequences, TypeInv, TypeOK
<1>12. ASSUME NEW w \in Workers, PurgeStart(w)
      PROVE  TypeInv'
  <2> DEFINE t == Begun(0, "absent", "none", NoOne, {a \in AlertId : Expired(a, clock)})
  <2>1. t \in Tx /\ StageOf("purging", t) /\ "purging" \in PC
    BY BoundsAreNaturals
    DEF TypeInv, TypeOK, Begun, Tx, StageOf, InTransaction, Updating, PC
  <2>2. pc' = [pc EXCEPT ![w] = "purging"] /\ tx' = [tx EXCEPT ![w] = t]
    BY <1>12 DEF PurgeStart, Goto
  <2> HIDE DEF t
  <2>3. StageOK' /\ pc' \in [Workers -> PC] /\ tx' \in [Workers -> Tx]
    BY <2>1, <2>2, WorkerStepTypes
  <2> QED
    BY <1>12, <2>3 DEF PurgeStart, tables, sequences, TypeInv, TypeOK
<1>13. ASSUME NEW w \in Workers, PurgeRow(w)
      PROVE  TypeInv'
  <2>1. PICK a \in AlertId :
          tx' = IF Present(a) THEN [tx EXCEPT ![w].locked = @ \cup {a}]
                              ELSE [tx EXCEPT ![w].victims = @ \ {a}]
    BY <1>13 DEF PurgeRow, TypeInv, TypeOK, Tx
  <2> DEFINE t == IF Present(a) THEN [tx[w] EXCEPT !.locked = @ \cup {a}]
                                ELSE [tx[w] EXCEPT !.victims = @ \ {a}]
  <2>2. t \in Tx
    BY DEF TypeInv, TypeOK, Tx
  <2>3. StageOf("purging", t) /\ "purging" \in PC
    BY DEF StageOf, InTransaction, Updating, PC
  <2>4. pc' = [pc EXCEPT ![w] = "purging"] /\ tx' = [tx EXCEPT ![w] = t]
    BY <1>13, <2>1 DEF PurgeRow, TypeInv, TypeOK
  <2> HIDE DEF t
  <2>5. StageOK' /\ pc' \in [Workers -> PC] /\ tx' \in [Workers -> Tx]
    BY <2>2, <2>3, <2>4, WorkerStepTypes
  <2> QED
    BY <1>13, <2>5 DEF PurgeRow, tables, sequences, TypeInv, TypeOK
<1>14. ASSUME NEW w \in Workers, PurgeCommit(w)
      PROVE  TypeInv'
  <2>1. StageOK' /\ pc' \in [Workers -> PC] /\ tx' \in [Workers -> Tx]
    BY <1>14, ResetTypes DEF PurgeCommit, Cascade, Finish
  <2> QED
    BY <1>14, <2>1 DEF PurgeCommit, Cascade, sequences, TypeInv, TypeOK
<1>15. ASSUME NEW w \in Workers, Rollback(w)
      PROVE  TypeInv'
  <2>1. StageOK' /\ pc' \in [Workers -> PC] /\ tx' \in [Workers -> Tx]
    BY <1>15, ResetTypes DEF Rollback
  <2> QED
    BY <1>15, <2>1 DEF Rollback, TypeInv, TypeOK
<1>16. ASSUME NothingWritten
      PROVE  TypeInv'
  <2>1. StageOK'
    BY <1>16 DEF NothingWritten, TypeInv, StageOK, StageOf, AlertId
  <2> QED
    BY <1>16, <2>1 DEF NothingWritten, TypeInv, TypeOK
<1> QED
  BY StepKinds, <1>1, <1>2, <1>3, <1>4, <1>5, <1>6, <1>7, <1>8, <1>9, <1>10, <1>11, <1>12,
     <1>13, <1>14, <1>15, <1>16 DEF Writes, TypeInv

(* The tables, the sequences and every worker's transaction keep their      *)
(* types.                                                                   *)
THEOREM TypeCorrect == Spec => []TypeOK
<1>1. TypeInv => TypeOK
  BY DEF TypeInv
<1> QED
  BY <1>1, TypeInit, TypeStep, PTL DEF Spec

-----------------------------------------------------------------------------
(* Row locks *)

(* Worker w goes to a stage with a transaction t. *)
Moves(w, label, t) ==
    /\ pc' = [pc EXCEPT ![w] = label]
    /\ tx' = [tx EXCEPT ![w] = t]

(* The locks that come with the stage are held already or free, and on rows *)
(* that exist.                                                              *)
TakesFreeLocks(w, label, t) ==
    \A a \in AlertId :
        /\ label \in Updating /\ t.alert = a =>
             (Updates(w, a) \/ MayUpdate(w, a)) /\ Present(a)'
        /\ label = "noted" /\ t.alert = a =>
             (References(w, a) \/ MayReference(w, a)) /\ Present(a)'
        /\ label = "purging" /\ a \in t.locked =>
             (Deletes(w, a) \/ MayDelete(w, a)) /\ Present(a)'

RemovesOnlyLocked(w) ==
    \A a \in AlertId : Present(a) /\ ~Present(a)' => Deletes(w, a)

(* How the locks move when worker w goes to a stage with a transaction t. *)
LEMMA LockFrame ==
    ASSUME TypeOK, NEW w \in Workers, NEW label, NEW t, NEW a \in AlertId,
           Moves(w, label, t)
    PROVE  /\ \A v \in Workers \ {w} :
                /\ Updates(v, a)' <=> Updates(v, a)
                /\ References(v, a)' <=> References(v, a)
                /\ Deletes(v, a)' <=> Deletes(v, a)
           /\ Updates(w, a)' <=> label \in Updating /\ t.alert = a
           /\ References(w, a)' <=> label = "noted" /\ t.alert = a
           /\ Deletes(w, a)' <=> label = "purging" /\ a \in t.locked
BY DEF Moves, TypeOK, Updates, References, Deletes, Updating

(* Locks keep excluding each other when a worker takes only free ones, on   *)
(* rows that exist, and removes no row that another worker has locked.      *)
LEMMA LockStep ==
    ASSUME TypeOK, LocksExclude, LockedPresent,
           NEW w \in Workers, NEW label, NEW t,
           Moves(w, label, t), TakesFreeLocks(w, label, t), RemovesOnlyLocked(w)
    PROVE  LocksExclude' /\ LockedPresent'
<1>1. ASSUME NEW a \in AlertId, NEW v \in Workers, NEW u \in Workers, v # u
      PROVE  /\ Updates(v, a)' => ~Updates(u, a)' /\ ~Deletes(u, a)'
             /\ Deletes(v, a)' => ~Deletes(u, a)' /\ ~References(u, a)'
  <2>1. CASE v = w
    BY <1>1, <2>1, LockFrame
    DEF TakesFreeLocks, LocksExclude, MayUpdate, MayDelete, MayReference
  <2>2. CASE u = w
    BY <1>1, <2>2, LockFrame
    DEF TakesFreeLocks, LocksExclude, MayUpdate, MayDelete, MayReference
  <2>3. CASE v # w /\ u # w
    BY <1>1, <2>3, LockFrame DEF LocksExclude
  <2> QED
    BY <2>1, <2>2, <2>3
<1>2. ASSUME NEW a \in AlertId, NEW v \in Workers,
             Updates(v, a)' \/ References(v, a)' \/ Deletes(v, a)'
      PROVE  Present(a)'
  <2>1. CASE v = w
    BY <1>2, <2>1, LockFrame DEF TakesFreeLocks
  <2>2. CASE v # w
    <3>1. Updates(v, a) \/ References(v, a) \/ Deletes(v, a)
      BY <1>2, <2>2, LockFrame
    <3>2. ~Deletes(w, a)
      BY <3>1, <2>2 DEF LocksExclude
    <3> QED
      BY <3>1, <3>2 DEF LockedPresent, RemovesOnlyLocked
  <2> QED
    BY <2>1, <2>2
<1>3. AlertId' = AlertId
  BY DEF AlertId
<1> QED
  BY <1>1, <1>2, <1>3 DEF LocksExclude, LockedPresent

LEMMA LockInit == Init => LocksExclude /\ LockedPresent
BY DEF Init, LocksExclude, LockedPresent, Updates, References, Deletes

LEMMA LockInductive ==
    ASSUME LockInv, [Next]_vars
    PROVE  LocksExclude' /\ LockedPresent'
<1> USE DEF LockInv, TypeInv
<1>1. ASSUME NEW w \in Workers, IngestInsert(w) \/ ClassifySelect(w) \/ NoteSelect(w)
      PROVE  LocksExclude' /\ LockedPresent'
  <2>0. PICK label \in {"ingest", "update", "note"} : \E t : Moves(w, label, t)
    BY <1>1 DEF IngestInsert, ClassifySelect, NoteSelect, Goto, Moves
  <2>1. PICK t : Moves(w, label, t)
    BY <2>0
  <2>2. alerts' = alerts
    BY <1>1 DEF IngestInsert, ClassifySelect, NoteSelect, tables
  <2>free. TakesFreeLocks(w, label, t) /\ RemovesOnlyLocked(w)
    BY <2>1, <2>2
    DEF TakesFreeLocks, RemovesOnlyLocked, Updating, Present
  <2> QED
    BY <2>1, <2>free, LockStep
<1>2. ASSUME NEW w \in Workers, IngestCommit(w)
      PROVE  LocksExclude' /\ LockedPresent'
  <2>1. Moves(w, "publish", tx[w])
    BY <1>2 DEF IngestCommit, Goto, Moves, TypeOK
  <2>2. \A a \in AlertId : Present(a) => Present(a)'
    BY <1>2 DEF IngestCommit, TypeOK, Present
  <2>free. TakesFreeLocks(w, "publish", tx[w]) /\ RemovesOnlyLocked(w)
    BY <2>1, <2>2
    DEF TakesFreeLocks, RemovesOnlyLocked, Updating
  <2> QED
    BY <2>1, <2>free, LockStep
<1>3. ASSUME NEW w \in Workers, Update(w)
      PROVE  LocksExclude' /\ LockedPresent'
  <2>1. Moves(w, "action", tx[w])
    BY <1>3 DEF Update, ClassifyUpdate, Goto, Moves, TypeOK
  <2>2. alerts' = alerts /\ MayUpdate(w, tx[w].alert) /\ Present(tx[w].alert)
    BY <1>3 DEF Update, ClassifyUpdate, tables
  <2>free. TakesFreeLocks(w, "action", tx[w]) /\ RemovesOnlyLocked(w)
    BY <2>1, <2>2
    DEF TakesFreeLocks, RemovesOnlyLocked, Updating, Present
  <2> QED
    BY <2>1, <2>free, LockStep
<1>4. ASSUME NEW w \in Workers, ClassifyRecordAction(w) \/ ClassifyRecordAudit(w)
      PROVE  LocksExclude' /\ LockedPresent'
  <2>0. PICK label \in {"audit", "commit"} :
          \E t : Moves(w, label, t) /\ t.alert = tx[w].alert
    <3>1. CASE ClassifyRecordAction(w)
      <4> DEFINE t == [tx[w] EXCEPT !.actionId = nextAction]
      <4>1. t.alert = tx[w].alert
        BY DEF TypeOK, Tx
      <4>2. Moves(w, "audit", t)
        BY <3>1 DEF ClassifyRecordAction, Goto, Moves, TypeOK
      <4> QED
        BY <4>1, <4>2
    <3>2. CASE ClassifyRecordAudit(w)
      <4> DEFINE t == [tx[w] EXCEPT !.auditId = nextAudit]
      <4>1. t.alert = tx[w].alert
        BY DEF TypeOK, Tx
      <4>2. Moves(w, "commit", t)
        BY <3>2 DEF ClassifyRecordAudit, Goto, Moves, TypeOK
      <4> QED
        BY <4>1, <4>2
    <3> QED
      BY <1>4, <3>1, <3>2
  <2>1. PICK t : Moves(w, label, t) /\ t.alert = tx[w].alert
    BY <2>0
  <2>2. alerts' = alerts /\ pc[w] \in Updating
    BY <1>4 DEF ClassifyRecordAction, ClassifyRecordAudit, tables, Updating
  <2>3. \A a \in AlertId : t.alert = a => Updates(w, a) /\ Present(a)
    BY <2>1, <2>2 DEF Updates, Updating, LockedPresent
  <2>free. TakesFreeLocks(w, label, t) /\ RemovesOnlyLocked(w)
    BY <2>1, <2>2, <2>3
    DEF TakesFreeLocks, RemovesOnlyLocked, Present
  <2> QED
    BY <2>1, <2>free, LockStep
<1>5. ASSUME NEW w \in Workers, ClassifyCommit(w)
      PROVE  LocksExclude' /\ LockedPresent'
  <2>1. Moves(w, "publish", tx[w])
    BY <1>5 DEF ClassifyCommit, Goto, Moves, TypeOK
  <2>2. ACTION_TO_STATUS(tx[w].action) # "absent"
    BY DEF ACTION_TO_STATUS
  <2>3. \A a \in AlertId : Present(a) => Present(a)'
    BY <1>5, <2>2 DEF ClassifyCommit, ClassifiedAlert, TypeOK, Present
  <2>free. TakesFreeLocks(w, "publish", tx[w]) /\ RemovesOnlyLocked(w)
    BY <2>1, <2>3
    DEF TakesFreeLocks, RemovesOnlyLocked, Updating
  <2> QED
    BY <2>1, <2>free, LockStep
<1>6. ASSUME NEW w \in Workers, Publish(w) \/ NoteCommit(w) \/ Rollback(w)
      PROVE  LocksExclude' /\ LockedPresent'
  <2>1. PICK label \in {"idle", "boot"} :
          Moves(w, label, NoTx)
    BY <1>6 DEF Publish, NoteCommit, Rollback, Finish, Moves
  <2>2. alerts' = alerts
    BY <1>6 DEF Publish, NoteCommit, Rollback, tables
  <2>free. TakesFreeLocks(w, label, NoTx) /\ RemovesOnlyLocked(w)
    BY <2>1, <2>2
    DEF TakesFreeLocks, RemovesOnlyLocked, Updating, Present
  <2> QED
    BY <2>1, <2>free, LockStep
<1>7. ASSUME NEW w \in Workers, NoteInsert(w)
      PROVE  LocksExclude' /\ LockedPresent'
  <2>1. alerts' = alerts /\ MayReference(w, tx[w].alert)
    BY <1>7 DEF NoteInsert, tables
  <2>2. CASE Present(tx[w].alert)
    <3> DEFINE t == [tx[w] EXCEPT !.auditId = nextAudit]
    <3>1. t.alert = tx[w].alert
      BY DEF TypeOK, Tx
    <3>2. Moves(w, "noted", t)
      BY <1>7, <2>2 DEF NoteInsert, Goto, Moves, TypeOK
    <3> HIDE DEF t
    <3>free. TakesFreeLocks(w, "noted", t) /\ RemovesOnlyLocked(w)
      BY <2>1, <2>2, <3>1, <3>2
      DEF TakesFreeLocks, RemovesOnlyLocked, Updating, Present
    <3> QED
      BY <2>1, <2>2, <3>1, <3>2, <3>free, LockStep
  <2>3. CASE ~Present(tx[w].alert)
    <3>1. Moves(w, "idle", NoTx)
      BY <1>7, <2>3 DEF NoteInsert, Finish, Moves
    <3>free. TakesFreeLocks(w, "idle", NoTx) /\ RemovesOnlyLocked(w)
      BY <2>1, <3>1
      DEF TakesFreeLocks, RemovesOnlyLocked, Updating, Present
    <3> QED
      BY <2>1, <3>1, <3>free, LockStep
  <2> QED
    BY <2>2, <2>3
<1>8. ASSUME NEW w \in Workers, PurgeStart(w)
      PROVE  LocksExclude' /\ LockedPresent'
  <2> DEFINE t == Begun(0, "absent", "none", NoOne, {a \in AlertId : Expired(a, clock)})
  <2>1. t.locked = {}
    BY DEF Begun
  <2>2. Moves(w, "purging", t) /\ alerts' = alerts
    BY <1>8 DEF PurgeStart, Goto, Moves, tables
  <2> HIDE DEF t
  <2>free. TakesFreeLocks(w, "purging", t) /\ RemovesOnlyLocked(w)
    BY <2>1, <2>2
    DEF TakesFreeLocks, RemovesOnlyLocked, Updating, Present
  <2> QED
    BY <2>2, <2>free, LockStep
<1>9. ASSUME NEW w \in Workers, PurgeRow(w)
      PROVE  LocksExclude' /\ LockedPresent'
  <2>1. PICK a \in AlertId :
          /\ MayDelete(w, a)
          /\ tx' = IF Present(a) THEN [tx EXCEPT ![w].locked = @ \cup {a}]
                                 ELSE [tx EXCEPT ![w].victims = @ \ {a}]
    BY <1>9 DEF PurgeRow, TypeOK, Tx
  <2> DEFINE t == IF Present(a) THEN [tx[w] EXCEPT !.locked = @ \cup {a}]
                                ELSE [tx[w] EXCEPT !.victims = @ \ {a}]
  <2>2. t.locked = IF Present(a) THEN tx[w].locked \cup {a} ELSE tx[w].locked
    BY DEF TypeOK, Tx
  <2>3. Moves(w, "purging", t) /\ alerts' = alerts
    BY <1>9, <2>1 DEF PurgeRow, Moves, TypeOK, tables
  <2> HIDE DEF t
  <2>4. pc[w] = "purging"
    BY <1>9 DEF PurgeRow
  <2>5. \A b \in AlertId : b \in t.locked =>
          (Deletes(w, b) \/ MayDelete(w, b)) /\ Present(b)
    BY <2>1, <2>2, <2>4 DEF Deletes, LockedPresent
  <2>free. TakesFreeLocks(w, "purging", t) /\ RemovesOnlyLocked(w)
    BY <2>3, <2>5
    DEF TakesFreeLocks, RemovesOnlyLocked, Updating, Present
  <2> QED
    BY <2>3, <2>free, LockStep
<1>10. ASSUME NEW w \in Workers, PurgeCommit(w)
      PROVE  LocksExclude' /\ LockedPresent'
  <2>1. Moves(w, "idle", NoTx)
    BY <1>10 DEF PurgeCommit, Cascade, Finish, Moves
  <2>2. \A a \in AlertId : Present(a) /\ ~Present(a)' => Deletes(w, a)
    BY <1>10 DEF PurgeCommit, Cascade, Present, Deletes
  <2>free. TakesFreeLocks(w, "idle", NoTx) /\ RemovesOnlyLocked(w)
    BY <2>1, <2>2
    DEF TakesFreeLocks, RemovesOnlyLocked, Updating
  <2> QED
    BY <2>1, <2>free, LockStep
<1>11. ASSUME NothingWritten
      PROVE  LocksExclude' /\ LockedPresent'
  BY <1>11
  DEF NothingWritten, LocksExclude, LockedPresent, Updates, References, Deletes, Present, AlertId
<1> QED
  BY StepKinds, <1>1, <1>2, <1>3, <1>4, <1>5, <1>6, <1>7, <1>8, <1>9, <1>10, <1>11 DEF Writes

-----------------------------------------------------------------------------
(* Rows: ids from the sequences, and no row without its alert *)

(* The steps that change no table and leave the worker at a stage where     *)
(* nothing it has inserted is pending.                                      *)
QuietMove(w) ==
    \E label \in PC \ {"ingest", "audit", "commit", "noted"}, t \in Tx :
        /\ Moves(w, label, t)
        /\ nextAudit' \in {nextAudit, nextAudit + 1}
        /\ UNCHANGED <<alerts, actions, audit, nextAlert, nextAction>>

LEMMA QuietMoves ==
    ASSUME TypeInv, TypeInv', NEW w \in Workers,
           \/ ClassifySelect(w) \/ Update(w) \/ Publish(w) \/ NoteSelect(w)
           \/ NoteInsert(w) /\ ~Present(tx[w].alert)
           \/ PurgeStart(w) \/ PurgeRow(w) \/ Rollback(w)
    PROVE  QuietMove(w)
<1>1. PICK label : pc' = [pc EXCEPT ![w] = label]
                   /\ label \in {"idle", "boot", "update", "action", "note", "purging"}
  <2>1. CASE ClassifySelect(w) \/ Update(w) \/ NoteSelect(w) \/ PurgeStart(w)
    BY <2>1 DEF ClassifySelect, Update, ClassifyUpdate, NoteSelect, PurgeStart, Goto
  <2>2. CASE PurgeRow(w)
    BY <2>2 DEF PurgeRow, TypeInv, TypeOK
  <2>3. CASE Publish(w) \/ Rollback(w) \/ (NoteInsert(w) /\ ~Present(tx[w].alert))
    BY <2>3 DEF Publish, Rollback, NoteInsert, Finish
  <2> QED
    BY <2>1, <2>2, <2>3
<1>2. \E t : tx' = [tx EXCEPT ![w] = t]
  <2>1. CASE ClassifySelect(w) \/ NoteSelect(w) \/ PurgeStart(w)
    BY <2>1 DEF ClassifySelect, NoteSelect, PurgeStart
  <2>2. CASE Update(w)
    BY <2>2 DEF Update, ClassifyUpdate, TypeInv, TypeOK
  <2>3. CASE PurgeRow(w)
    BY <2>3 DEF PurgeRow, TypeInv, TypeOK
  <2>4. CASE Publish(w) \/ Rollback(w) \/ (NoteInsert(w) /\ ~Present(tx[w].alert))
    BY <2>4 DEF Publish, Rollback, NoteInsert, Finish
  <2> QED
    BY <2>1, <2>2, <2>3, <2>4
<1>3. tx' = [tx EXCEPT ![w] = tx'[w]] /\ tx'[w] \in Tx
  BY <1>2 DEF TypeInv, TypeOK
<1>4. /\ nextAudit' \in {nextAudit, nextAudit + 1}
      /\ UNCHANGED <<alerts, actions, audit, nextAlert, nextAction>>
  BY DEF ClassifySelect, Update, ClassifyUpdate, Publish, NoteSelect, NoteInsert, PurgeStart,
         PurgeRow, Rollback, tables, sequences
<1>5. label \in PC \ {"ingest", "audit", "commit", "noted"}
  BY <1>1 DEF PC, InTransaction
<1> QED
  BY <1>1, <1>3, <1>4, <1>5 DEF QuietMove, Moves

(* The other steps, by what they insert, commit or delete. *)
RowStep(w) ==
    \/ IngestInsert(w) \/ IngestCommit(w)
    \/ ClassifyRecordAction(w) \/ ClassifyRecordAudit(w) \/ ClassifyCommit(w)
    \/ NoteInsert(w) /\ Present(tx[w].alert)
    \/ NoteCommit(w)
    \/ PurgeCommit(w)

LEMMA RowSteps ==
    ASSUME TypeInv, [Next]_vars
    PROVE  \/ \E w \in Workers : QuietMove(w) \/ RowStep(w)
           \/ NothingWritten
<1>1. TypeInv'
  BY TypeStep
<1> QED
  BY <1>1, StepKinds, QuietMoves DEF TypeInv, Writes, RowStep

LEMMA FreshInductive ==
    ASSUME RowInv, [Next]_vars
    PROVE  FreshAlert' /\ NoOrphanRows'
<1> USE DEF RowInv, LockInv, TypeInv
<1>1. ASSUME NEW w \in Workers, QuietMove(w)
      PROVE  FreshAlert' /\ NoOrphanRows'
  <2>1. PICK label \in PC \ {"ingest"}, t \in Tx : Moves(w, label, t)
    BY <1>1 DEF QuietMove
  <2>2. UNCHANGED <<alerts, actions, audit, nextAlert>>
    BY <1>1 DEF QuietMove
  <2>3. \A v \in Workers : pc'[v] = "ingest" => pc[v] = "ingest" /\ tx'[v] = tx[v]
    BY <2>1 DEF Moves, TypeOK
  <2> QED
    BY <2>2, <2>3 DEF FreshAlert, NoOrphanRows, Present, AlertId
<1>2. ASSUME NEW w \in Workers, IngestInsert(w)
      PROVE  FreshAlert' /\ NoOrphanRows'
  <2>1. /\ nextAlert \in AlertId
        /\ nextAlert' = nextAlert + 1
        /\ pc' = [pc EXCEPT ![w] = "ingest"]
        /\ tx' = [tx EXCEPT ![w] = Begun(nextAlert, "open", "none", NoOne, {})]
        /\ UNCHANGED <<alerts, actions, audit>>
    BY <1>2, BoundsAreNaturals DEF IngestInsert, Goto, tables, TypeOK, AlertId
  <2>2. tx'[w].alert = nextAlert
    BY <2>1 DEF TypeOK, Begun
  <2>3. \A v \in Workers \ {w} : pc'[v] = pc[v] /\ tx'[v] = tx[v]
    BY <2>1 DEF TypeOK
  <2>4. ~Present(nextAlert)
    BY <2>1 DEF FreshAlert, AlertId
  <2>5. \A v \in Workers : pc[v] = "ingest" => tx[v].alert \in AlertId
    BY DEF StageOK, StageOf, InTransaction
  <2> QED
    BY <2>1, <2>2, <2>3, <2>4, <2>5 DEF FreshAlert, NoOrphanRows, Present, AlertId
<1>3. ASSUME NEW w \in Workers, IngestCommit(w)
      PROVE  FreshAlert' /\ NoOrphanRows'
  <2>1. /\ pc[w] = "ingest"
        /\ pc' = [pc EXCEPT ![w] = "publish"]
        /\ UNCHANGED <<actions, audit, nextAlert, tx>>
        /\ \A a \in AlertId : a # tx[w].alert => alerts'[a] = alerts[a]
        /\ \A a \in AlertId : Present(a) => Present(a)'
    BY <1>3 DEF IngestCommit, Goto, sequences, TypeOK, Present
  <2>2. \A v \in Workers : pc'[v] = "ingest" => v # w /\ pc[v] = "ingest"
    BY <2>1 DEF TypeOK
  <2>3. \A v \in Workers : pc[v] = "ingest" => tx[v].alert \in AlertId
    BY DEF StageOK, StageOf, InTransaction
  <2>4. FreshAlert'
    BY <2>1, <2>2, <2>3 DEF FreshAlert, Present, AlertId
  <2>5. NoOrphanRows'
    BY <2>1 DEF NoOrphanRows, TypeOK, ActionRow, AuditRow
  <2> QED
    BY <2>4, <2>5
<1>4. ASSUME NEW w \in Workers, ClassifyRecordAction(w) \/ ClassifyRecordAudit(w)
                                 \/ (NoteInsert(w) /\ Present(tx[w].alert))
      PROVE  FreshAlert' /\ NoOrphanRows'
  <2>1. /\ pc'[w] # "ingest"
        /\ \A v \in Workers \ {w} : pc'[v] = pc[v] /\ tx'[v] = tx[v]
        /\ UNCHANGED <<alerts, actions, audit, nextAlert>>
    BY <1>4 DEF ClassifyRecordAction, ClassifyRecordAudit, NoteInsert, Goto, tables, TypeOK
  <2> QED
    BY <2>1 DEF FreshAlert, NoOrphanRows, Present, AlertId
<1>5. ASSUME NEW w \in Workers, ClassifyCommit(w) \/ NoteCommit(w)
      PROVE  FreshAlert' /\ NoOrphanRows'
  <2>1. tx[w].alert \in AlertId /\ Present(tx[w].alert)
    BY <1>5
    DEF ClassifyCommit, NoteCommit, StageOK, StageOf, InTransaction, LockedPresent, Updates,
        References
  <2>2. \A r \in actions' \cup audit' : r \in actions \cup audit \/ r.alert = tx[w].alert
    BY <1>5
    DEF ClassifyCommit, NoteCommit, ClassifyActionRow, ClassifyAuditRow, NoteAuditRow
  <2>3. \A a \in AlertId : Present(a)' <=> Present(a)
    <3>1. ACTION_TO_STATUS(tx[w].action) # "absent"
      BY DEF ACTION_TO_STATUS
    <3> QED
      BY <1>5, <2>1, <3>1 DEF ClassifyCommit, NoteCommit, ClassifiedAlert, TypeOK, Present
  <2>4. /\ pc'[w] # "ingest"
        /\ \A v \in Workers \ {w} : pc'[v] = pc[v] /\ tx'[v] = tx[v]
        /\ nextAlert' = nextAlert
    BY <1>5 DEF ClassifyCommit, NoteCommit, Goto, Finish, sequences, TypeOK
  <2>5. \A v \in Workers : pc[v] = "ingest" => tx[v].alert \in AlertId
    BY DEF StageOK, StageOf, InTransaction
  <2>6. FreshAlert'
    BY <2>3, <2>4, <2>5 DEF FreshAlert, AlertId
  <2>7. NoOrphanRows'
    BY <2>1, <2>2, <2>3 DEF NoOrphanRows, TypeOK, ActionRow, AuditRow
  <2> QED
    BY <2>6, <2>7
<1>6. ASSUME NEW w \in Workers, PurgeCommit(w)
      PROVE  FreshAlert' /\ NoOrphanRows'
  <2>1. \A a \in AlertId : Present(a)' <=> Present(a) /\ a \notin tx[w].locked
    BY <1>6 DEF PurgeCommit, Cascade, Present, NoRow
  <2>2. /\ pc'[w] # "ingest"
        /\ \A v \in Workers \ {w} : pc'[v] = pc[v] /\ tx'[v] = tx[v]
        /\ nextAlert' = nextAlert
    BY <1>6 DEF PurgeCommit, Cascade, Finish, sequences, TypeOK
  <2>3. \A v \in Workers : pc[v] = "ingest" => tx[v].alert \in AlertId
    BY DEF StageOK, StageOf, InTransaction
  <2>4. FreshAlert'
    BY <2>1, <2>2, <2>3 DEF FreshAlert, AlertId
  <2>5. \A r \in actions' \cup audit' : r \in actions \cup audit /\ r.alert \notin tx[w].locked
    BY <1>6 DEF PurgeCommit, Cascade
  <2>6. NoOrphanRows'
    BY <2>1, <2>5 DEF NoOrphanRows, TypeOK, ActionRow, AuditRow
  <2> QED
    BY <2>4, <2>6
<1>7. ASSUME NothingWritten
      PROVE  FreshAlert' /\ NoOrphanRows'
  BY <1>7 DEF NothingWritten, FreshAlert, NoOrphanRows, Present, AlertId
<1> QED
  BY RowSteps, <1>1, <1>2, <1>3, <1>4, <1>5, <1>6, <1>7 DEF RowStep

LEMMA RowInvariant == Spec => []RowInv
<1>1. Init => RowInv
  <2>1. Init => FreshAlert /\ NoOrphanRows
    BY DEF Init, FreshAlert, NoOrphanRows, Present, NoRow
  <2> QED
    BY <2>1, TypeInit, LockInit DEF RowInv, LockInv
<1>2. RowInv /\ [Next]_vars => RowInv'
  BY TypeStep, LockInductive, FreshInductive DEF RowInv, LockInv
<1> QED
  BY <1>1, <1>2, PTL DEF Spec

(* Whatever the purge does and however a handler races it, every action and *)
(* audit row refers to an alert that exists.                                *)
THEOREM RowsHaveAlerts == Spec => []NoOrphanRows
BY RowInvariant, PTL DEF RowInv

-----------------------------------------------------------------------------
(* The trail explains the status *)

LEMMA NumbersInductive ==
    ASSUME RowInv, RowsNumbered, [Next]_vars
    PROVE  RowsNumbered'
<1> USE DEF RowInv, LockInv, TypeInv
<1> DEFINE Numbered(w) ==
        /\ pc[w] \in {"commit", "noted"} => tx[w].auditId < nextAudit
        /\ pc[w] \in {"audit", "commit"} => tx[w].actionId < nextAction
        /\ pc[w] = "commit" =>
             \A r \in ClassificationsOf(tx[w].alert) : r.id < tx[w].auditId
        /\ pc[w] \in {"audit", "commit"} =>
             \A r \in ActionsOf(tx[w].alert) : r.id < tx[w].actionId
<1>0. /\ nextAudit \in Nat /\ nextAction \in Nat
      /\ \A r \in audit : r.id \in Nat /\ r.id < nextAudit
      /\ \A r \in actions : r.id \in Nat /\ r.id < nextAction
      /\ \A w \in Workers : tx[w].auditId \in Nat /\ tx[w].actionId \in Nat
  BY DEF TypeOK, AuditRow, ActionRow, Tx, RowsNumbered
<1>1. ASSUME NEW w \in Workers, QuietMove(w)
      PROVE  RowsNumbered'
  <2>1. PICK label \in PC \ {"audit", "commit", "noted"}, t \in Tx : Moves(w, label, t)
    BY <1>1 DEF QuietMove
  <2>2. UNCHANGED <<actions, audit, nextAction>> /\ nextAudit' \in {nextAudit, nextAudit + 1}
    BY <1>1 DEF QuietMove
  <2>3. \A v \in Workers : pc'[v] \in {"audit", "commit", "noted"} =>
          pc'[v] = pc[v] /\ tx'[v] = tx[v]
    BY <2>1 DEF Moves, TypeOK
  <2>4. ASSUME NEW v \in Workers
        PROVE  Numbered(v)'
    BY <1>0, <2>2, <2>3 DEF RowsNumbered, ClassificationsOf, ActionsOf
  <2> QED
    BY <1>0, <2>2, <2>4 DEF RowsNumbered
<1>2. ASSUME NEW w \in Workers, IngestInsert(w) \/ IngestCommit(w)
      PROVE  RowsNumbered'
  <2>1. /\ pc'[w] \in {"ingest", "publish"}
        /\ \A v \in Workers \ {w} : pc'[v] = pc[v] /\ tx'[v] = tx[v]
        /\ UNCHANGED <<actions, audit, nextAction, nextAudit>>
    BY <1>2 DEF IngestInsert, IngestCommit, Goto, tables, sequences, TypeOK
  <2>2. ASSUME NEW v \in Workers
        PROVE  Numbered(v)'
    BY <2>1 DEF RowsNumbered, ClassificationsOf, ActionsOf
  <2> QED
    BY <2>1, <2>2 DEF RowsNumbered
<1>3. ASSUME NEW w \in Workers, ClassifyRecordAction(w)
      PROVE  RowsNumbered'
  <2>1. /\ pc'[w] = "audit" /\ tx'[w].actionId = nextAction
        /\ nextAction' = nextAction + 1
        /\ \A v \in Workers \ {w} : pc'[v] = pc[v] /\ tx'[v] = tx[v]
        /\ UNCHANGED <<actions, audit, nextAudit>>
    BY <1>3 DEF ClassifyRecordAction, Goto, tables, TypeOK, Tx
  <2>2. ASSUME NEW v \in Workers
        PROVE  Numbered(v)'
    BY <1>0, <2>1 DEF RowsNumbered, ClassificationsOf, ActionsOf
  <2> QED
    BY <1>0, <2>1, <2>2 DEF RowsNumbered
<1>4. ASSUME NEW w \in Workers, ClassifyRecordAudit(w)
      PROVE  RowsNumbered'
  <2>1. /\ pc[w] = "audit"
        /\ pc'[w] = "commit" /\ tx'[w].auditId = nextAudit
        /\ tx'[w].actionId = tx[w].actionId /\ tx'[w].alert = tx[w].alert
        /\ nextAudit' = nextAudit + 1
        /\ \A v \in Workers \ {w} : pc'[v] = pc[v] /\ tx'[v] = tx[v]
        /\ UNCHANGED <<actions, audit, nextAction>>
    BY <1>4 DEF ClassifyRecordAudit, Goto, tables, TypeOK, Tx
  <2>2. ASSUME NEW v \in Workers
        PROVE  Numbered(v)'
    BY <1>0, <2>1 DEF RowsNumbered, ClassificationsOf, ActionsOf
  <2> QED
    BY <1>0, <2>1, <2>2 DEF RowsNumbered
<1>5. ASSUME NEW w \in Workers, NoteInsert(w), Present(tx[w].alert)
      PROVE  RowsNumbered'
  <2>1. /\ pc'[w] = "noted" /\ tx'[w].auditId = nextAudit
        /\ nextAudit' = nextAudit + 1
        /\ \A v \in Workers \ {w} : pc'[v] = pc[v] /\ tx'[v] = tx[v]
        /\ UNCHANGED <<actions, audit, nextAction>>
    BY <1>5 DEF NoteInsert, Goto, tables, TypeOK, Tx
  <2>2. ASSUME NEW v \in Workers
        PROVE  Numbered(v)'
    BY <1>0, <2>1 DEF RowsNumbered, ClassificationsOf, ActionsOf
  <2> QED
    BY <1>0, <2>1, <2>2 DEF RowsNumbered
<1>6. ASSUME NEW w \in Workers, ClassifyCommit(w)
      PROVE  RowsNumbered'
  <2>1. /\ pc[w] = "commit" /\ pc'[w] = "publish"
        /\ \A v \in Workers \ {w} : pc'[v] = pc[v] /\ tx'[v] = tx[v]
        /\ actions' = actions \cup {ClassifyActionRow(tx[w])}
        /\ audit' = audit \cup {ClassifyAuditRow(tx[w])}
        /\ UNCHANGED <<nextAction, nextAudit>>
    BY <1>6 DEF ClassifyCommit, Goto, sequences, TypeOK
  <2>2. /\ ClassifyActionRow(tx[w]).id = tx[w].actionId
        /\ ClassifyActionRow(tx[w]).alert = tx[w].alert
        /\ ClassifyAuditRow(tx[w]).id = tx[w].auditId
        /\ ClassifyAuditRow(tx[w]).alert = tx[w].alert
    BY DEF ClassifyActionRow, ClassifyAuditRow
  <2>3. \A v \in Workers : pc'[v] = "commit" =>
          ClassificationsOf(tx[v].alert)' = ClassificationsOf(tx[v].alert)
    <3>1. ASSUME NEW v \in Workers, pc'[v] = "commit"
          PROVE  tx[v].alert # tx[w].alert
      BY <2>1, <3>1
      DEF LocksExclude, Updates, StageOK, StageOf, InTransaction
    <3> QED
      BY <2>1, <2>2, <3>1 DEF ClassificationsOf
  <2>4. \A v \in Workers : pc'[v] \in {"audit", "commit"} =>
          ActionsOf(tx[v].alert)' = ActionsOf(tx[v].alert)
    <3>1. ASSUME NEW v \in Workers, pc'[v] \in {"audit", "commit"}
          PROVE  tx[v].alert # tx[w].alert
      BY <2>1, <3>1
      DEF LocksExclude, Updates, StageOK, StageOf, InTransaction
    <3> QED
      BY <2>1, <2>2, <3>1 DEF ActionsOf
  <2>5. ASSUME NEW v \in Workers
        PROVE  Numbered(v)'
    BY <2>1, <2>3, <2>4 DEF RowsNumbered
  <2> QED
    BY <2>1, <2>2, <2>5 DEF RowsNumbered
<1>7. ASSUME NEW w \in Workers, NoteCommit(w)
      PROVE  RowsNumbered'
  <2>1. /\ pc[w] = "noted" /\ pc'[w] = "idle"
        /\ \A v \in Workers \ {w} : pc'[v] = pc[v] /\ tx'[v] = tx[v]
        /\ audit' = audit \cup {NoteAuditRow(tx[w])}
        /\ UNCHANGED <<actions, nextAction, nextAudit>>
    BY <1>7 DEF NoteCommit, Finish, sequences, TypeOK
  <2>2. /\ NoteAuditRow(tx[w]).id = tx[w].auditId
        /\ NoteAuditRow(tx[w]).action = "note_added"
    BY DEF NoteAuditRow
  <2>3. ASSUME NEW v \in Workers
        PROVE  Numbered(v)'
    BY <2>1, <2>2 DEF RowsNumbered, ClassificationsOf, ActionsOf
  <2> QED
    BY <2>1, <2>2, <2>3 DEF RowsNumbered
<1>8. ASSUME NEW w \in Workers, PurgeCommit(w)
      PROVE  RowsNumbered'
  <2>1. /\ pc'[w] = "idle"
        /\ \A v \in Workers \ {w} : pc'[v] = pc[v] /\ tx'[v] = tx[v]
        /\ audit' \subseteq audit /\ actions' \subseteq actions
        /\ UNCHANGED <<nextAction, nextAudit>>
    BY <1>8 DEF PurgeCommit, Cascade, Finish, sequences, TypeOK
  <2>2. ASSUME NEW v \in Workers
        PROVE  Numbered(v)'
    BY <2>1 DEF RowsNumbered, ClassificationsOf, ActionsOf
  <2> QED
    BY <2>1, <2>2 DEF RowsNumbered
<1>9. ASSUME NothingWritten
      PROVE  RowsNumbered'
  BY <1>9 DEF NothingWritten, RowsNumbered, ClassificationsOf, ActionsOf
<1> QED
  BY RowSteps, <1>1, <1>2, <1>3, <1>4, <1>5, <1>6, <1>7, <1>8, <1>9 DEF RowStep

LEMMA TrailInductive ==
    ASSUME RowInv, RowsNumbered, StatusIsLastClassification, AssigneeIsLastActor, [Next]_vars
    PROVE  StatusIsLastClassification' /\ AssigneeIsLastActor'
<1> USE DEF RowInv, LockInv, TypeInv
<1> DEFINE Explained(a) ==
        Present(a) =>
          /\ alerts[a].status = "open" <=> ClassificationsOf(a) = {}
          /\ \A r \in ClassificationsOf(a) :
               IsLatest(r, ClassificationsOf(a)) => r.to = alerts[a].status
          /\ alerts[a].assigned = NoOne <=> ActionsOf(a) = {}
          /\ \A r \in ActionsOf(a) :
               IsLatest(r, ActionsOf(a)) => r.analyst = alerts[a].assigned
<1>0. \A a \in AlertId : Explained(a)
  BY DEF StatusIsLastClassification, AssigneeIsLastActor
<1>1. SUFFICES ASSUME NEW a \in AlertId
               PROVE  Explained(a)'
  BY DEF StatusIsLastClassification, AssigneeIsLastActor, AlertId
<1>2. ASSUME alerts'[a] = alerts[a],
             ClassificationsOf(a)' = ClassificationsOf(a),
             ActionsOf(a)' = ActionsOf(a)
      PROVE  Explained(a)'
  BY <1>0, <1>2 DEF Present, IsLatest
<1>3. ASSUME UNCHANGED <<alerts, actions, audit>>
      PROVE  Explained(a)'
  BY <1>2, <1>3 DEF ClassificationsOf, ActionsOf
<1>4. ASSUME NEW w \in Workers, IngestCommit(w)
      PROVE  Explained(a)'
  <2>1. CASE a = tx[w].alert
    <3>1. ~Present(a)
      BY <1>4, <2>1 DEF IngestCommit, FreshAlert
    <3>2. ClassificationsOf(a)' = {} /\ ActionsOf(a)' = {}
      BY <1>4, <3>1 DEF IngestCommit, NoOrphanRows, ClassificationsOf, ActionsOf
    <3>3. alerts'[a].status = "open" /\ alerts'[a].assigned = NoOne
      BY <1>4, <2>1 DEF IngestCommit, TypeOK
    <3> QED
      BY <3>2, <3>3
  <2>2. CASE a # tx[w].alert
    <3>1. alerts'[a] = alerts[a] /\ UNCHANGED <<actions, audit>>
      BY <1>4, <2>2 DEF IngestCommit, TypeOK
    <3> QED
      BY <1>2, <3>1 DEF ClassificationsOf, ActionsOf
  <2> QED
    BY <2>1, <2>2
<1>5. ASSUME NEW w \in Workers, ClassifyCommit(w)
      PROVE  Explained(a)'
  <2> DEFINE q == ClassifyActionRow(tx[w])
             r == ClassifyAuditRow(tx[w])
  <2>1. /\ tx[w].action \in ClassifyActions /\ tx[w].analyst \in Analysts
        /\ tx[w].actionId \in Nat /\ tx[w].auditId \in Nat
    BY <1>5 DEF ClassifyCommit, StageOK, StageOf, Updating, TypeOK, Tx
  <2>2. /\ q.alert = tx[w].alert /\ q.id = tx[w].actionId /\ q.analyst = tx[w].analyst
        /\ r.alert = tx[w].alert /\ r.id = tx[w].auditId
        /\ r.action = tx[w].action /\ r.to = ACTION_TO_STATUS(tx[w].action)
    BY DEF ClassifyActionRow, ClassifyAuditRow
  <2>3. actions' = actions \cup {q} /\ audit' = audit \cup {r}
    BY <1>5 DEF ClassifyCommit
  <2>4. r.action # "note_added" /\ r.to # "open" /\ q.analyst # NoOne
    BY <2>1, <2>2, StatusOfAction, NoOneIsNoAnalyst DEF ClassifyActions, ClosedStatus
  <2> HIDE DEF q, r
  <2>5. CASE a = tx[w].alert
    <3>1. ClassificationsOf(a)' = ClassificationsOf(a) \cup {r}
      BY <2>2, <2>3, <2>4, <2>5 DEF ClassificationsOf
    <3>2. ActionsOf(a)' = ActionsOf(a) \cup {q}
      BY <2>2, <2>3, <2>5 DEF ActionsOf
    <3>3. /\ \A s \in ClassificationsOf(a) : s.id \in Nat /\ s.id < r.id
          /\ \A s \in ActionsOf(a) : s.id \in Nat /\ s.id < q.id
      BY <1>5, <2>2, <2>5
      DEF ClassifyCommit, RowsNumbered, ClassificationsOf, ActionsOf, TypeOK, AuditRow, ActionRow
    <3>4. alerts'[a].status = r.to /\ alerts'[a].assigned = q.analyst
      BY <1>5, <2>2, <2>5 DEF ClassifyCommit, ClassifiedAlert, TypeOK
    <3>5. \A s : IsLatest(s, ClassificationsOf(a)') => s = r
      BY <2>1, <2>2, <3>1, <3>3 DEF IsLatest
    <3>6. \A s : IsLatest(s, ActionsOf(a)') => s = q
      BY <2>1, <2>2, <3>2, <3>3 DEF IsLatest
    <3> QED
      BY <2>4, <3>1, <3>2, <3>4, <3>5, <3>6 DEF IsLatest
  <2>6. CASE a # tx[w].alert
    <3>1. ClassificationsOf(a)' = ClassificationsOf(a) /\ ActionsOf(a)' = ActionsOf(a)
      BY <2>2, <2>3, <2>6 DEF ClassificationsOf, ActionsOf
    <3>2. alerts'[a] = alerts[a]
      BY <1>5, <2>6 DEF ClassifyCommit, TypeOK
    <3> QED
      BY <1>2, <3>1, <3>2
  <2> QED
    BY <2>5, <2>6
<1>6. ASSUME NEW w \in Workers, NoteCommit(w)
      PROVE  Explained(a)'
  <2>1. NoteAuditRow(tx[w]).action = "note_added"
    BY DEF NoteAuditRow
  <2>2. ClassificationsOf(a)' = ClassificationsOf(a) /\ ActionsOf(a)' = ActionsOf(a)
    BY <1>6, <2>1 DEF NoteCommit, ClassificationsOf, ActionsOf
  <2> QED
    BY <1>2, <1>6, <2>2 DEF NoteCommit
<1>7. ASSUME NEW w \in Workers, PurgeCommit(w)
      PROVE  Explained(a)'
  <2>1. CASE a \in tx[w].locked
    BY <1>7, <2>1 DEF PurgeCommit, Cascade, Present, NoRow
  <2>2. CASE a \notin tx[w].locked
    <3>1. ClassificationsOf(a)' = ClassificationsOf(a) /\ ActionsOf(a)' = ActionsOf(a)
      BY <1>7, <2>2 DEF PurgeCommit, Cascade, ClassificationsOf, ActionsOf
    <3>2. alerts'[a] = alerts[a]
      BY <1>7, <2>2 DEF PurgeCommit, Cascade
    <3> QED
      BY <1>2, <3>1, <3>2
  <2> QED
    BY <2>1, <2>2
<1>8. ASSUME NEW w \in Workers,
             \/ QuietMove(w) \/ IngestInsert(w)
             \/ ClassifyRecordAction(w) \/ ClassifyRecordAudit(w) \/ NoteInsert(w)
      PROVE  UNCHANGED <<alerts, actions, audit>>
  BY <1>8
  DEF QuietMove, IngestInsert, ClassifyRecordAction, ClassifyRecordAudit, NoteInsert, tables
<1>9. NothingWritten => UNCHANGED <<alerts, actions, audit>>
  BY DEF NothingWritten
<1> QED
  BY RowSteps, <1>3, <1>4, <1>5, <1>6, <1>7, <1>8, <1>9 DEF RowStep

LEMMA TrailInvariant == Spec => []TrailInv
<1>1. Init => TrailInv
  <2>1. Init => RowInv
    <3>1. Init => FreshAlert /\ NoOrphanRows
      BY DEF Init, FreshAlert, NoOrphanRows, Present, NoRow
    <3> QED
      BY <3>1, TypeInit, LockInit DEF RowInv, LockInv
  <2>2. Init => RowsNumbered /\ StatusIsLastClassification /\ AssigneeIsLastActor
    BY DEF Init, RowsNumbered, StatusIsLastClassification, AssigneeIsLastActor, Present, NoRow
  <2> QED
    BY <2>1, <2>2 DEF TrailInv
<1>2. TrailInv /\ [Next]_vars => TrailInv'
  BY TypeStep, LockInductive, FreshInductive, NumbersInductive, TrailInductive
  DEF TrailInv, RowInv, LockInv
<1> QED
  BY <1>1, <1>2, PTL DEF Spec

(* However classifications of one alert race each other, the status an      *)
(* analyst sees is the to_status of the classification audited last.        *)
THEOREM TrailExplainsStatus == Spec => []StatusIsLastClassification
BY TrailInvariant, PTL DEF TrailInv

(* ... and the assignee is the analyst of the action recorded last. *)
THEOREM ActionsExplainAssignee == Spec => []AssigneeIsLastActor
BY TrailInvariant, PTL DEF TrailInv

(* An open alert is never assigned to anybody. *)
THEOREM OpenAlertsUnassigned == Spec => []OpenIsUnassigned
<1>1. Init => OpenIsUnassigned
  BY DEF Init, OpenIsUnassigned, NoRow
<1>2. ASSUME TypeInv, OpenIsUnassigned, [Next]_vars
      PROVE  OpenIsUnassigned'
  <2> USE DEF TypeInv
  <2>1. ASSUME alerts' = alerts
        PROVE  OpenIsUnassigned'
    BY <1>2, <2>1 DEF OpenIsUnassigned, AlertId
  <2>2. ASSUME NEW w \in Workers, IngestCommit(w)
        PROVE  OpenIsUnassigned'
    BY <1>2, <2>2 DEF OpenIsUnassigned, IngestCommit, TypeOK, AlertId
  <2>3. ASSUME NEW w \in Workers, ClassifyCommit(w)
        PROVE  OpenIsUnassigned'
    <3>1. ACTION_TO_STATUS(tx[w].action) # "open"
      BY DEF ACTION_TO_STATUS
    <3> QED
      BY <1>2, <2>3, <3>1 DEF OpenIsUnassigned, ClassifyCommit, ClassifiedAlert, TypeOK, AlertId
  <2>4. ASSUME NEW w \in Workers, PurgeCommit(w)
        PROVE  OpenIsUnassigned'
    BY <1>2, <2>4 DEF OpenIsUnassigned, PurgeCommit, NoRow, AlertId
  <2>5. ASSUME NEW w \in Workers,
               \/ QuietMove(w) \/ IngestInsert(w) \/ ClassifyRecordAction(w)
               \/ ClassifyRecordAudit(w) \/ NoteInsert(w) \/ NoteCommit(w)
        PROVE  alerts' = alerts
    BY <2>5
    DEF QuietMove, IngestInsert, ClassifyRecordAction, ClassifyRecordAudit, NoteInsert,
        NoteCommit, tables
  <2>6. NothingWritten => alerts' = alerts
    BY DEF NothingWritten
  <2> QED
    BY <1>2, RowSteps, <2>1, <2>2, <2>3, <2>4, <2>5, <2>6 DEF RowStep
<1>3. TypeInv /\ [Next]_vars => TypeInv'
  BY TypeStep
<1> QED
  BY <1>1, <1>2, <1>3, TypeInit, PTL DEF Spec
=============================================================================
