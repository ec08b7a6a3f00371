------------------------- MODULE TriageLedgerProofs -------------------------
(***************************************************************************)
(* More of what holds of Triage for all its constants: Triage implements    *)
(* AlertLedger, analyst_actions and audit_log tell the same story, the      *)
(* unlocked check lets a worker classify an alert once at most, and nothing *)
(* is announced that is not recorded.                                       *)
(***************************************************************************)
EXTENDS TriageProofs, FiniteSetTheorems

(* Alert ids are used once: an id that is yet to be drawn, or is drawn by   *)
(* an ingest which has not committed, is not known to anybody else.         *)
Pending(a) == \E v \in Workers : pc[v] = "ingest" /\ tx[v].alert = a
Unborn(a) == a >= nextAlert \/ Pending(a)

AboutAnAlert == (InTransaction \ {"ingest"}) \cup {"publish"}

KnownIds ==
    /\ \A w \in Workers : pc[w] \in AboutAnAlert => ~Unborn(tx[w].alert)
    /\ \A e \in announced : ~Unborn(e[1])

(* The status is one that the alert has, or has had, as far as the audit    *)
(* log knows; or the alert has been purged.                                 *)
OnRecord(a, status) ==
    Present(a) => status = "open" \/ \E r \in ClassificationsOf(a) : r.to = status

(* Statuses on record: those of the alerts, those a note has read, those    *)
(* announced and those about to be.                                         *)
StatusesOnRecord ==
    /\ \A a \in AlertId : OnRecord(a, alerts[a].status)
    /\ \A w \in Workers :
         /\ pc[w] \in {"note", "noted"} => OnRecord(tx[w].alert, tx[w].seen)
         /\ pc[w] = "ingest" => tx[w].action = "none"
         /\ pc[w] = "publish" => OnRecord(tx[w].alert, PublishedStatus(tx[w]))
    /\ \A e \in announced : OnRecord(e[1], e[2])

(* No two audit rows have the same id, pending ones included. *)
AuditIdsDiffer ==
    \A w \in Workers : pc[w] \in {"commit", "noted"} =>
        /\ \A r \in audit : r.id # tx[w].auditId
        /\ \A v \in Workers \ {w} :
             pc[v] \in {"commit", "noted"} => tx[v].auditId # tx[w].auditId

(* What is known of an alert outside its ingest is known after its commit.  *)
KnownWereIngested ==
    /\ \A a \in AlertId : Present(a) => a \in ingested
    /\ \A w \in Workers : pc[w] \in AboutAnAlert => tx[w].alert \in ingested
    /\ \A e \in announced : e[1] \in ingested

LedgerInv == TrailInv /\ KnownIds /\ KnownWereIngested /\ StatusesOnRecord /\ AuditIdsDiffer

-----------------------------------------------------------------------------
(* What a step leaves alone *)

LEMMA OthersStay ==
    ASSUME TypeOK, NEW w \in Workers, Writes(w) \/ Rollback(w), NEW v \in Workers \ {w}
    PROVE  pc'[v] = pc[v] /\ tx'[v] = tx[v]
<1>1. \/ pc' = pc
      \/ \E label : pc' = [pc EXCEPT ![w] = label]
  BY DEF Writes, Rollback, IngestInsert, IngestCommit, ClassifySelect, Update, ClassifyUpdate,
         ClassifyRecordAction, ClassifyRecordAudit, ClassifyCommit, Publish, NoteSelect,
         NoteInsert, NoteCommit, PurgeStart, PurgeRow, PurgeCommit, Goto, Finish
<1>2. \/ tx' = tx
      \/ \E t : tx' = [tx EXCEPT ![w] = t]
  <2>1. CASE ClassifyRecordAction(w) \/ ClassifyRecordAudit(w) \/ PurgeRow(w)
    BY <2>1 DEF ClassifyRecordAction, ClassifyRecordAudit, PurgeRow
  <2>2. CASE NoteInsert(w)
    BY <2>2 DEF NoteInsert, Finish
  <2>3. CASE ~(\/ ClassifyRecordAction(w) \/ ClassifyRecordAudit(w) \/ PurgeRow(w)
               \/ NoteInsert(w))
    BY <2>3
    DEF Writes, Rollback, IngestInsert, IngestCommit, ClassifySelect, Update, ClassifyUpdate,
        ClassifyCommit, Publish, NoteSelect, NoteCommit, PurgeStart, PurgeCommit, Goto, Finish
  <2> QED
    BY <2>1, <2>2, <2>3
<1> QED
  BY <1>1, <1>2 DEF TypeOK

(* The stages of the worker that takes the step. *)
LEMMA StageMoves ==
    ASSUME TypeInv, NEW w \in Workers, Writes(w) \/ Rollback(w),
           pc'[w] \in AboutAnAlert \cup {"ingest"}
    PROVE  \/ IngestInsert(w)
           \/ IngestCommit(w)
           \/ ClassifySelect(w) \/ NoteSelect(w)
           \/ pc[w] \in AboutAnAlert /\ tx'[w].alert = tx[w].alert
<1> USE DEF TypeInv, TypeOK
<1>1. CASE Update(w) \/ ClassifyCommit(w)
  BY <1>1 DEF Update, ClassifyUpdate, ClassifyCommit, Goto, AboutAnAlert, InTransaction
<1>2. CASE ClassifyRecordAction(w) \/ ClassifyRecordAudit(w)
  BY <1>2 DEF ClassifyRecordAction, ClassifyRecordAudit, AboutAnAlert, InTransaction, Tx
<1>3. CASE NoteInsert(w)
  <2>1. pc[w] \in AboutAnAlert
    BY <1>3 DEF NoteInsert, AboutAnAlert, InTransaction
  <2>2. Present(tx[w].alert)
    BY <1>3 DEF NoteInsert, Finish, AboutAnAlert, InTransaction
  <2>3. tx'[w].alert = tx[w].alert
    BY <1>3, <2>2 DEF NoteInsert, Tx
  <2> QED
    BY <2>1, <2>3
<1>4. CASE Publish(w) \/ NoteCommit(w) \/ PurgeCommit(w) \/ Rollback(w)
  BY <1>4 DEF Publish, NoteCommit, PurgeCommit, Rollback, Finish, AboutAnAlert, InTransaction
<1>5. CASE PurgeStart(w) \/ PurgeRow(w)
  BY <1>5 DEF PurgeStart, PurgeRow, Goto, AboutAnAlert, InTransaction
<1> QED
  BY <1>1, <1>2, <1>3, <1>4, <1>5 DEF Writes

-----------------------------------------------------------------------------
(* Ids are used once *)

LEMMA UnbornShrinks ==
    ASSUME RowInv, [Next]_vars, NEW a \in AlertId, Unborn(a)'
    PROVE  Unborn(a)
<1> USE DEF RowInv, LockInv, TypeInv
<1>1. ASSUME NEW w \in Workers, IngestInsert(w)
      PROVE  Unborn(a)
  <2>1. nextAlert' = nextAlert + 1 /\ tx'[w].alert = nextAlert
    BY <1>1 DEF IngestInsert, Begun, TypeOK
  <2>2. \A v \in Workers \ {w} : pc'[v] = pc[v] /\ tx'[v] = tx[v]
    BY <1>1, OthersStay DEF Writes
  <2> QED
    BY <2>1, <2>2 DEF Unborn, Pending, TypeOK, AlertId
<1>2. ASSUME NEW w \in Workers, Writes(w) \/ Rollback(w), ~IngestInsert(w)
      PROVE  Unborn(a)
  <2>1. nextAlert' = nextAlert
    BY <1>2
    DEF Writes, Rollback, IngestCommit, ClassifySelect, Update, ClassifyUpdate,
        ClassifyRecordAction, ClassifyRecordAudit, ClassifyCommit, Publish, NoteSelect,
        NoteInsert, NoteCommit, PurgeStart, PurgeRow, PurgeCommit, sequences
  <2>2. \A v \in Workers \ {w} : pc'[v] = pc[v] /\ tx'[v] = tx[v]
    BY <1>2, OthersStay
  <2>3. pc'[w] # "ingest"
    <3>1. CASE PurgeRow(w) \/ PurgeCommit(w) \/ PurgeStart(w)
      BY <3>1 DEF PurgeRow, PurgeCommit, PurgeStart, Goto, Finish, TypeOK
    <3>2. CASE IngestCommit(w) \/ ClassifySelect(w) \/ Update(w) \/ NoteSelect(w)
      BY <3>2 DEF IngestCommit, ClassifySelect, Update, ClassifyUpdate, NoteSelect, Goto, TypeOK
    <3>3. CASE ClassifyRecordAction(w) \/ ClassifyRecordAudit(w) \/ ClassifyCommit(w)
      BY <3>3 DEF ClassifyRecordAction, ClassifyRecordAudit, ClassifyCommit, Goto, TypeOK
    <3>4. CASE Publish(w) \/ NoteInsert(w) \/ NoteCommit(w) \/ Rollback(w)
      BY <3>4 DEF Publish, NoteInsert, NoteCommit, Rollback, Goto, Finish, TypeOK
    <3> QED
      BY <1>2, <3>1, <3>2, <3>3, <3>4 DEF Writes
  <2> QED
    BY <2>1, <2>2, <2>3 DEF Unborn, Pending
<1>3. NothingWritten => Unborn(a)
  BY DEF NothingWritten, Unborn, Pending
<1> QED
  BY StepKinds, <1>1, <1>2, <1>3

LEMMA PresentIsBorn ==
    ASSUME RowInv, NEW a \in AlertId, Present(a)
    PROVE  ~Unborn(a)
BY DEF RowInv, LockInv, TypeInv, TypeOK, FreshAlert, Unborn, Pending, AlertId

LEMMA KnownIdsStep ==
    ASSUME RowInv, RowInv', KnownIds, [Next]_vars
    PROVE  KnownIds'
<1> USE DEF RowInv, LockInv, TypeInv
<1>0. \A a \in AlertId : ~Unborn(a) => ~Unborn(a)'
  BY UnbornShrinks
<1>1. ASSUME NEW w \in Workers, Writes(w) \/ Rollback(w), NEW v \in Workers,
             pc'[v] \in AboutAnAlert
      PROVE  ~Unborn(tx[v].alert)'
  <2>1. PICK a \in AlertId : a = tx'[v].alert
    BY <1>1 DEF StageOK, StageOf, AboutAnAlert, AlertId
  <2> SUFFICES ~Unborn(a)'
    BY <2>1 DEF Unborn, Pending
  <2>2. CASE pc[v] \in AboutAnAlert /\ tx'[v].alert = tx[v].alert
    BY <1>0, <2>1, <2>2 DEF KnownIds
  <2>3. CASE v = w /\ IngestCommit(w)
    <3>1. Present(a)'
      BY <2>1, <2>3 DEF IngestCommit, Present, TypeOK
    <3> QED
      BY <2>1, <3>1 DEF TypeOK, FreshAlert, Unborn, Pending, AlertId
  <2>4. CASE v = w /\ (ClassifySelect(w) \/ NoteSelect(w))
    <3>1. Present(a)
      BY <2>1, <2>4 DEF ClassifySelect, NoteSelect, Begun, Present, TypeOK
    <3> QED
      BY <1>0, <2>1, <3>1, PresentIsBorn
  <2>5. CASE v = w /\ IngestInsert(w)
    BY <1>1, <2>5 DEF IngestInsert, Goto, TypeOK, AboutAnAlert, InTransaction
  <2>6. v # w => pc'[v] = pc[v] /\ tx'[v] = tx[v]
    BY <1>1, OthersStay
  <2> QED
    BY <1>1, <2>2, <2>3, <2>4, <2>5, <2>6, StageMoves
<1>2. ASSUME NEW w \in Workers, Writes(w) \/ Rollback(w), NEW e \in announced'
      PROVE  ~Unborn(e[1])'
  <2>1. e \in announced \/ (Publish(w) /\ e = <<tx[w].alert, PublishedStatus(tx[w])>>)
    BY <1>2
    DEF Writes, Rollback, IngestInsert, IngestCommit, ClassifySelect, Update, ClassifyUpdate,
        ClassifyRecordAction, ClassifyRecordAudit, ClassifyCommit, Publish, NoteSelect,
        NoteInsert, NoteCommit, PurgeStart, PurgeRow, PurgeCommit
  <2>2. PICK a \in AlertId : a = e[1] /\ ~Unborn(a)
    <3>1. CASE e \in announced
      BY <3>1 DEF KnownIds, TypeOK
    <3>2. CASE Publish(w) /\ e[1] = tx[w].alert
      <4>1. pc[w] \in AboutAnAlert
        BY <3>2 DEF Publish, AboutAnAlert
      <4> QED
        BY <3>2, <4>1 DEF KnownIds, StageOK, StageOf, AboutAnAlert
    <3> QED
      BY <2>1, <3>1, <3>2
  <2>3. ~Unborn(a)'
    BY <1>0, <2>2
  <2> QED
    BY <2>2, <2>3
<1>3. ASSUME NothingWritten
      PROVE  KnownIds'
  BY <1>3 DEF NothingWritten, KnownIds, Unborn, Pending
<1> QED
  BY StepKinds, <1>1, <1>2, <1>3 DEF KnownIds

-----------------------------------------------------------------------------
(* Nothing is announced that is not recorded *)

(* As long as an alert is there its classifications stay. *)
LEMMA RecordGrows ==
    ASSUME RowInv, [Next]_vars, NEW a \in AlertId, ~Unborn(a), Present(a)'
    PROVE  Present(a) /\ ClassificationsOf(a) \subseteq ClassificationsOf(a)'
<1> USE DEF RowInv, LockInv, TypeInv
<1>1. CASE UNCHANGED <<alerts, audit>>
  BY <1>1 DEF Present, ClassificationsOf
<1>2. ASSUME NEW w \in Workers, IngestCommit(w)
      PROVE  Present(a) /\ ClassificationsOf(a) \subseteq ClassificationsOf(a)'
  <2>1. a # tx[w].alert
    BY <1>2 DEF IngestCommit, Unborn, Pending
  <2> QED
    BY <1>2, <2>1 DEF IngestCommit, Present, ClassificationsOf, TypeOK
<1>3. ASSUME NEW w \in Workers, ClassifyCommit(w)
      PROVE  Present(a) /\ ClassificationsOf(a) \subseteq ClassificationsOf(a)'
  <2>1. Present(tx[w].alert)
    BY <1>3 DEF ClassifyCommit, LockedPresent, Updates, StageOK, StageOf, InTransaction
  <2> QED
    BY <1>3, <2>1 DEF ClassifyCommit, Present, ClassificationsOf, TypeOK
<1>4. ASSUME NEW w \in Workers, NoteCommit(w)
      PROVE  Present(a) /\ ClassificationsOf(a) \subseteq ClassificationsOf(a)'
  BY <1>4 DEF NoteCommit, Present, ClassificationsOf
<1>5. ASSUME NEW w \in Workers, PurgeCommit(w)
      PROVE  Present(a) /\ ClassificationsOf(a) \subseteq ClassificationsOf(a)'
  BY <1>5 DEF PurgeCommit, Cascade, Present, NoRow, ClassificationsOf
<1>6. ASSUME NEW w \in Workers,
             \/ QuietMove(w) \/ IngestInsert(w)
             \/ ClassifyRecordAction(w) \/ ClassifyRecordAudit(w) \/ NoteInsert(w)
      PROVE  UNCHANGED <<alerts, audit>>
  BY <1>6
  DEF QuietMove, IngestInsert, ClassifyRecordAction, ClassifyRecordAudit, NoteInsert, tables
<1>7. NothingWritten => UNCHANGED <<alerts, audit>>
  BY DEF NothingWritten
<1> QED
  BY RowSteps, <1>1, <1>2, <1>3, <1>4, <1>5, <1>6, <1>7 DEF RowStep

LEMMA OnRecordStays ==
    ASSUME RowInv, [Next]_vars, NEW a \in AlertId, ~Unborn(a), NEW status, OnRecord(a, status)
    PROVE  OnRecord(a, status)'
BY RecordGrows DEF OnRecord

(* The two commits that change the status of an alert which is there. *)
LEMMA StatusMoves ==
    ASSUME RowInv, [Next]_vars, NEW a \in AlertId, Present(a)',
           alerts'[a].status # alerts[a].status
    PROVE  \E w \in Workers : tx[w].alert = a /\ (IngestCommit(w) \/ ClassifyCommit(w))
<1> USE DEF RowInv, LockInv, TypeInv
<1>1. ASSUME NEW w \in Workers, IngestCommit(w) \/ ClassifyCommit(w)
      PROVE  tx[w].alert = a
  BY <1>1 DEF IngestCommit, ClassifyCommit, TypeOK
<1>2. ASSUME NEW w \in Workers, PurgeCommit(w)
      PROVE  FALSE
  BY <1>2 DEF PurgeCommit, Present, NoRow
<1>3. ASSUME NEW w \in Workers,
             \/ QuietMove(w) \/ IngestInsert(w)
             \/ ClassifyRecordAction(w) \/ ClassifyRecordAudit(w) \/ NoteInsert(w) \/ NoteCommit(w)
      PROVE  UNCHANGED alerts
  BY <1>3
  DEF QuietMove, IngestInsert, ClassifyRecordAction, ClassifyRecordAudit, NoteInsert, NoteCommit,
      tables
<1>4. NothingWritten => UNCHANGED alerts
  BY DEF NothingWritten
<1> QED
  BY RowSteps, <1>1, <1>2, <1>3, <1>4 DEF RowStep

(* An id gets to be known through the commit of its row. *)
LEMMA KnownIngestedStep ==
    ASSUME RowInv, RowInv', KnownWereIngested, [Next]_vars
    PROVE  KnownWereIngested'
<1> USE DEF RowInv, LockInv, TypeInv
<1>0. ingested \subseteq ingested'
  <2>1. ASSUME NEW w \in Workers, Writes(w) \/ Rollback(w)
        PROVE  ingested \subseteq ingested'
    BY <2>1
    DEF Writes, Rollback, IngestInsert, IngestCommit, ClassifySelect, Update, ClassifyUpdate,
        ClassifyRecordAction, ClassifyRecordAudit, ClassifyCommit, Publish, NoteSelect,
        NoteInsert, NoteCommit, PurgeStart, PurgeRow, PurgeCommit, tables
  <2> QED
    BY StepKinds, <2>1 DEF NothingWritten
<1>1. ASSUME NEW a \in AlertId, Present(a)'
      PROVE  a \in ingested'
  <2>1. CASE alerts'[a].status = alerts[a].status
    BY <1>0, <1>1, <2>1 DEF Present, KnownWereIngested
  <2>2. ASSUME NEW w \in Workers, tx[w].alert = a, IngestCommit(w)
        PROVE  a \in ingested'
    BY <2>2 DEF IngestCommit
  <2>3. ASSUME NEW w \in Workers, tx[w].alert = a, ClassifyCommit(w)
        PROVE  a \in ingested'
    BY <1>0, <2>3 DEF ClassifyCommit, AboutAnAlert, InTransaction, KnownWereIngested
  <2> QED
    BY <1>1, <2>1, <2>2, <2>3, StatusMoves
<1>2. ASSUME NEW w \in Workers, Writes(w) \/ Rollback(w), NEW v \in Workers,
             pc'[v] \in AboutAnAlert
      PROVE  tx'[v].alert \in ingested'
  <2>1. CASE pc[v] \in AboutAnAlert /\ tx'[v].alert = tx[v].alert
    BY <1>0, <2>1 DEF KnownWereIngested
  <2>2. CASE v = w /\ IngestCommit(w)
    BY <2>2 DEF IngestCommit
  <2>3. CASE v = w /\ (ClassifySelect(w) \/ NoteSelect(w))
    <3>1. PICK a \in AlertId : a = tx'[v].alert /\ Present(a)
      BY <2>3 DEF ClassifySelect, NoteSelect, Begun, Present, TypeOK
    <3> QED
      BY <1>0, <3>1 DEF KnownWereIngested
  <2>4. CASE v = w /\ IngestInsert(w)
    BY <1>2, <2>4 DEF IngestInsert, Goto, TypeOK, AboutAnAlert, InTransaction
  <2>5. v # w => pc'[v] = pc[v] /\ tx'[v] = tx[v]
    BY <1>2, OthersStay
  <2> QED
    BY <1>2, <2>1, <2>2, <2>3, <2>4, <2>5, StageMoves
<1>3. ASSUME NEW w \in Workers, Writes(w) \/ Rollback(w), NEW e \in announced'
      PROVE  e[1] \in ingested'
  <2>1. e \in announced \/ (Publish(w) /\ e = <<tx[w].alert, PublishedStatus(tx[w])>>)
    BY <1>3
    DEF Writes, Rollback, IngestInsert, IngestCommit, ClassifySelect, Update, ClassifyUpdate,
        ClassifyRecordAction, ClassifyRecordAudit, ClassifyCommit, Publish, NoteSelect,
        NoteInsert, NoteCommit, PurgeStart, PurgeRow, PurgeCommit
  <2> QED
    BY <1>0, <2>1 DEF Publish, AboutAnAlert, KnownWereIngested
<1>4. ASSUME NothingWritten
      PROVE  KnownWereIngested'
  BY <1>4 DEF NothingWritten, KnownWereIngested, Present
<1> QED
  BY StepKinds, <1>1, <1>2, <1>3, <1>4 DEF KnownWereIngested, AlertId

(* A classification puts the status it sets, and will announce, on record.  *)
LEMMA CommitRecords ==
    ASSUME RowInv, NEW w \in Workers, ClassifyCommit(w)
    PROVE  /\ tx[w].alert \in AlertId
           /\ alerts'[tx[w].alert].status = PublishedStatus(tx[w])
           /\ \E r \in ClassificationsOf(tx[w].alert)' : r.to = PublishedStatus(tx[w])
<1> USE DEF RowInv, LockInv, TypeInv
<1>1. tx[w].alert \in AlertId /\ tx[w].action \in ClassifyActions
  BY DEF ClassifyCommit, StageOK, StageOf, InTransaction, Updating
<1>2. PublishedStatus(tx[w]) = ACTION_TO_STATUS(tx[w].action)
  BY <1>1 DEF PublishedStatus, ClassifyActions
<1>3. alerts'[tx[w].alert].status = ACTION_TO_STATUS(tx[w].action)
  BY <1>1 DEF ClassifyCommit, ClassifiedAlert, TypeOK
<1>4. ClassifyAuditRow(tx[w]) \in audit' /\ tx' = tx
  BY DEF ClassifyCommit
<1>5. ClassifyAuditRow(tx[w]) \in ClassificationsOf(tx[w].alert)'
  BY <1>1, <1>4 DEF ClassificationsOf, ClassifyAuditRow, ClassifyActions
<1> QED
  BY <1>1, <1>2, <1>3, <1>5 DEF ClassifyAuditRow

LEMMA StatusesStep ==
    ASSUME RowInv, RowInv', KnownIds, StatusesOnRecord, [Next]_vars
    PROVE  StatusesOnRecord'
<1> USE DEF RowInv, LockInv, TypeInv
<1>0. \A a \in AlertId : \A status : ~Unborn(a) /\ OnRecord(a, status) => OnRecord(a, status)'
  BY OnRecordStays
<1>1. ASSUME NEW a \in AlertId
      PROVE  OnRecord(a, alerts[a].status)'
  <2>1. CASE ~Present(a)'
    BY <2>1 DEF OnRecord
  <2>2. CASE Present(a)' /\ alerts'[a].status = alerts[a].status
    <3>1. PICK s : s = alerts[a].status
      OBVIOUS
    <3>2. ~Unborn(a)
      BY <2>2, PresentIsBorn DEF Present
    <3>3. OnRecord(a, s)'
      BY <1>0, <3>1, <3>2 DEF StatusesOnRecord
    <3> QED
      BY <2>2, <3>1, <3>3 DEF OnRecord
  <2>3. ASSUME NEW w \in Workers, tx[w].alert = a, IngestCommit(w)
        PROVE  OnRecord(a, alerts[a].status)'
    BY <2>3 DEF IngestCommit, OnRecord, TypeOK
  <2>4. ASSUME NEW w \in Workers, tx[w].alert = a, ClassifyCommit(w)
        PROVE  OnRecord(a, alerts[a].status)'
    <3>1. tx' = tx
      BY <2>4 DEF ClassifyCommit
    <3>2. /\ alerts'[a].status = PublishedStatus(tx[w])
          /\ \E r \in ClassificationsOf(tx[w].alert)' : r.to = PublishedStatus(tx[w])
      BY <2>4, CommitRecords
    <3> QED
      BY <2>4, <3>1, <3>2 DEF OnRecord, ClassificationsOf
  <2> QED
    BY <2>1, <2>2, <2>3, <2>4, StatusMoves
<1>2. ASSUME NEW v \in Workers, tx'[v] = tx[v], pc'[v] = pc[v]
      PROVE  /\ pc'[v] \in {"note", "noted"} => OnRecord(tx[v].alert, tx[v].seen)'
             /\ pc'[v] = "ingest" => tx'[v].action = "none"
             /\ pc'[v] = "publish" => OnRecord(tx[v].alert, PublishedStatus(tx[v]))'
  <2>1. PICK a, seen, told : a = tx[v].alert /\ seen = tx[v].seen
                             /\ told = PublishedStatus(tx[v])
    OBVIOUS
  <2>2. CASE pc[v] \in {"note", "noted", "publish"}
    <3>1. a \in AlertId /\ ~Unborn(a)
      BY <2>1, <2>2 DEF KnownIds, AboutAnAlert, InTransaction, StageOK, StageOf
    <3>2. /\ pc[v] \in {"note", "noted"} => OnRecord(a, seen)'
          /\ pc[v] = "publish" => OnRecord(a, told)'
      BY <1>0, <2>1, <3>1 DEF StatusesOnRecord
    <3>3. a = tx'[v].alert /\ seen = tx'[v].seen /\ told = PublishedStatus(tx[v])'
      BY <1>2, <2>1 DEF PublishedStatus
    <3> QED
      BY <1>2, <2>2, <3>2, <3>3 DEF OnRecord
  <2> QED
    BY <1>2, <2>2 DEF StatusesOnRecord
<1>3. ASSUME NEW v \in Workers, Writes(v) \/ Rollback(v)
      PROVE  /\ pc'[v] \in {"note", "noted"} => OnRecord(tx[v].alert, tx[v].seen)'
             /\ pc'[v] = "ingest" => tx'[v].action = "none"
             /\ pc'[v] = "publish" => OnRecord(tx[v].alert, PublishedStatus(tx[v]))'
  <2>1. CASE IngestInsert(v)
    BY <2>1 DEF IngestInsert, Begun, Goto, TypeOK
  <2>2. CASE IngestCommit(v)
    <3>1. pc'[v] = "publish" /\ PublishedStatus(tx[v])' = "open"
      BY <2>2 DEF IngestCommit, Goto, StatusesOnRecord, PublishedStatus, TypeOK
    <3> QED
      BY <3>1 DEF OnRecord
  <2>3. CASE ClassifyCommit(v)
    <3>1. pc'[v] = "publish" /\ tx' = tx
      BY <2>3 DEF ClassifyCommit, Goto, TypeOK
    <3>2. \E r \in ClassificationsOf(tx[v].alert)' : r.to = PublishedStatus(tx[v])
      BY <2>3, CommitRecords
    <3> QED
      BY <3>1, <3>2 DEF OnRecord, ClassificationsOf, PublishedStatus
  <2>4. CASE NoteSelect(v)
    <3>1. PICK a \in AlertId :
            Present(a) /\ tx'[v] = Begun(a, alerts[a].status, "none", NoOne, {})
      BY <2>4 DEF NoteSelect, TypeOK
    <3>2. PICK s : s = alerts[a].status
      OBVIOUS
    <3>3. OnRecord(a, s)'
      BY <1>0, <3>1, <3>2, PresentIsBorn DEF StatusesOnRecord
    <3>4. tx'[v].alert = a /\ tx'[v].seen = s /\ pc'[v] = "note"
      BY <2>4, <3>1, <3>2 DEF Begun, NoteSelect, Goto, TypeOK
    <3> QED
      BY <3>3, <3>4 DEF OnRecord
  <2>5. CASE NoteInsert(v)
    <3>1. CASE Present(tx[v].alert)
      <4>1. PICK a, seen : a = tx[v].alert /\ seen = tx[v].seen
        OBVIOUS
      <4>2. a \in AlertId /\ ~Unborn(a) /\ OnRecord(a, seen)
        BY <2>5, <4>1
        DEF NoteInsert, KnownIds, AboutAnAlert, InTransaction, StageOK, StageOf,
            StatusesOnRecord
      <4>3. OnRecord(a, seen)'
        BY <1>0, <4>2
      <4>4. tx'[v].alert = a /\ tx'[v].seen = seen /\ pc'[v] = "noted"
        BY <2>5, <3>1, <4>1 DEF NoteInsert, Goto, TypeOK, Tx
      <4> QED
        BY <4>3, <4>4 DEF OnRecord
    <3>2. CASE ~Present(tx[v].alert)
      BY <2>5, <3>2 DEF NoteInsert, Finish, TypeOK
    <3> QED
      BY <3>1, <3>2
  <2>6. pc'[v] \in {"note", "noted", "ingest", "publish"} =>
          \/ IngestInsert(v) \/ IngestCommit(v) \/ ClassifyCommit(v)
          \/ NoteSelect(v) \/ NoteInsert(v)
    <3>1. CASE ClassifySelect(v) \/ Update(v)
      BY <3>1 DEF ClassifySelect, Update, ClassifyUpdate, Goto, TypeOK
    <3>2. CASE ClassifyRecordAction(v) \/ ClassifyRecordAudit(v)
      BY <3>2 DEF ClassifyRecordAction, ClassifyRecordAudit, Goto, TypeOK
    <3>3. CASE Publish(v) \/ NoteCommit(v) \/ PurgeCommit(v) \/ Rollback(v)
      BY <3>3 DEF Publish, NoteCommit, PurgeCommit, Rollback, Finish, TypeOK
    <3>4. CASE PurgeStart(v) \/ PurgeRow(v)
      BY <3>4 DEF PurgeStart, PurgeRow, Goto, TypeOK
    <3> QED
      BY <1>3, <3>1, <3>2, <3>3, <3>4 DEF Writes
  <2> QED
    BY <2>1, <2>2, <2>3, <2>4, <2>5, <2>6
<1>4. ASSUME NEW e \in announced'
      PROVE  OnRecord(e[1], e[2])'
  <2>1. \/ e \in announced
        \/ \E w \in Workers : Publish(w) /\ e = <<tx[w].alert, PublishedStatus(tx[w])>>
    <3>1. ASSUME NEW w \in Workers, Writes(w) \/ Rollback(w), ~Publish(w)
          PROVE  announced' = announced
      BY <3>1
      DEF Writes, Rollback, IngestInsert, IngestCommit, ClassifySelect, Update, ClassifyUpdate,
          ClassifyRecordAction, ClassifyRecordAudit, ClassifyCommit, NoteSelect, NoteInsert,
          NoteCommit, PurgeStart, PurgeRow, PurgeCommit
    <3>2. \A w \in Workers : Publish(w) =>
            announced' = announced \cup {<<tx[w].alert, PublishedStatus(tx[w])>>}
      BY DEF Publish
    <3> QED
      BY StepKinds, <3>1, <3>2 DEF NothingWritten
  <2>2. PICK a, s : a = e[1] /\ s = e[2] /\ a \in AlertId /\ ~Unborn(a) /\ OnRecord(a, s)
    <3>1. CASE e \in announced
      BY <3>1 DEF KnownIds, StatusesOnRecord, TypeOK
    <3>2. ASSUME NEW w \in Workers, Publish(w), e = <<tx[w].alert, PublishedStatus(tx[w])>>
          PROVE  e[1] \in AlertId /\ ~Unborn(e[1]) /\ OnRecord(e[1], e[2])
      BY <3>2
      DEF Publish, KnownIds, AboutAnAlert, StageOK, StageOf, StatusesOnRecord
    <3> QED
      BY <2>1, <3>1, <3>2
  <2>3. OnRecord(a, s)'
    BY <1>0, <2>2
  <2> QED
    BY <2>2, <2>3 DEF OnRecord
<1>5. \A v \in Workers :
        \/ tx'[v] = tx[v] /\ pc'[v] = pc[v]
        \/ Writes(v) \/ Rollback(v)
  BY StepKinds, OthersStay DEF NothingWritten
<1> QED
  BY <1>1, <1>2, <1>3, <1>4, <1>5 DEF StatusesOnRecord, AlertId

-----------------------------------------------------------------------------
(* One transaction, one audit row *)

LEMMA AuditIdsStep ==
    ASSUME RowInv, RowsNumbered, AuditIdsDiffer, [Next]_vars
    PROVE  AuditIdsDiffer'
<1> USE DEF RowInv, LockInv, TypeInv
<1>0. /\ nextAudit \in Nat
      /\ \A r \in audit : r.id \in Nat /\ r.id < nextAudit
      /\ \A w \in Workers : pc[w] \in {"commit", "noted"} =>
           tx[w].auditId \in Nat /\ tx[w].auditId < nextAudit
  BY DEF TypeOK, AuditRow, Tx, RowsNumbered
(* No audit row is added, and no worker gets one to commit. *)
<1>1. ASSUME audit' \subseteq audit,
             \A v \in Workers : pc'[v] \in {"commit", "noted"} =>
               pc[v] = pc'[v] /\ tx'[v].auditId = tx[v].auditId
      PROVE  AuditIdsDiffer'
  BY <1>1 DEF AuditIdsDiffer
(* An id is drawn from the sequence. *)
<1>2. ASSUME NEW w \in Workers,
             ClassifyRecordAudit(w) \/ (NoteInsert(w) /\ Present(tx[w].alert))
      PROVE  AuditIdsDiffer'
  <2>1. /\ tx'[w].auditId = nextAudit
        /\ \A v \in Workers \ {w} : pc'[v] = pc[v] /\ tx'[v] = tx[v]
        /\ audit' = audit
    BY <1>2 DEF ClassifyRecordAudit, NoteInsert, Goto, tables, TypeOK, Tx
  <2> QED
    BY <1>0, <2>1 DEF AuditIdsDiffer
(* The row that carries the id is committed. *)
<1>3. ASSUME NEW w \in Workers, ClassifyCommit(w) \/ NoteCommit(w)
      PROVE  AuditIdsDiffer'
  <2>1. /\ pc[w] \in {"commit", "noted"} /\ pc'[w] \notin {"commit", "noted"}
        /\ \A v \in Workers \ {w} : pc'[v] = pc[v] /\ tx'[v] = tx[v]
    BY <1>3 DEF ClassifyCommit, NoteCommit, Goto, Finish, TypeOK
  <2>2. \A r \in audit' : r \in audit \/ r.id = tx[w].auditId
    BY <1>3 DEF ClassifyCommit, NoteCommit, ClassifyAuditRow, NoteAuditRow
  <2> QED
    BY <2>1, <2>2 DEF AuditIdsDiffer
<1>4. ASSUME NEW w \in Workers,
             QuietMove(w) \/ IngestInsert(w) \/ IngestCommit(w) \/ ClassifyRecordAction(w)
      PROVE  AuditIdsDiffer'
  <2>1. CASE QuietMove(w)
    <3>1. PICK label \in PC \ {"commit", "noted"}, t \in Tx : Moves(w, label, t)
      BY <2>1 DEF QuietMove
    <3>2. \A v \in Workers : pc'[v] \in {"commit", "noted"} => pc[v] = pc'[v] /\ tx'[v] = tx[v]
      BY <3>1 DEF Moves, TypeOK
    <3> QED
      BY <1>1, <2>1, <3>2 DEF QuietMove
  <2>2. CASE IngestInsert(w) \/ IngestCommit(w) \/ ClassifyRecordAction(w)
    <3>1. \A v \in Workers : pc'[v] \in {"commit", "noted"} => pc[v] = pc'[v] /\ tx'[v] = tx[v]
      BY <2>2 DEF IngestInsert, IngestCommit, ClassifyRecordAction, Goto, TypeOK
    <3>2. audit' = audit
      BY <2>2 DEF IngestInsert, IngestCommit, ClassifyRecordAction, tables
    <3> QED
      BY <1>1, <3>1, <3>2
  <2> QED
    BY <1>4, <2>1, <2>2
<1>5. ASSUME NEW w \in Workers, PurgeCommit(w)
      PROVE  AuditIdsDiffer'
  <2>1. audit' \subseteq audit
    BY <1>5 DEF PurgeCommit, Cascade
  <2>2. \A v \in Workers : pc'[v] \in {"commit", "noted"} => pc[v] = pc'[v] /\ tx'[v] = tx[v]
    BY <1>5 DEF PurgeCommit, Finish, TypeOK
  <2> QED
    BY <1>1, <2>1, <2>2
<1>6. NothingWritten => AuditIdsDiffer'
  BY DEF NothingWritten, AuditIdsDiffer
<1> QED
  BY RowSteps, <1>2, <1>3, <1>4, <1>5, <1>6 DEF RowStep

LEMMA LedgerInvariant == Spec => []LedgerInv
<1>1. Init => KnownIds /\ KnownWereIngested /\ StatusesOnRecord /\ AuditIdsDiffer
  <2>1. Init => KnownIds /\ KnownWereIngested /\ AuditIdsDiffer
    BY DEF Init, KnownIds, KnownWereIngested, AuditIdsDiffer, AboutAnAlert, InTransaction,
           Present, NoRow
  <2>2. Init => StatusesOnRecord
    BY DEF Init, StatusesOnRecord, OnRecord, Present, NoRow
  <2> QED
    BY <2>1, <2>2
<1>2. /\ TrailInv /\ TrailInv' /\ [Next]_vars
      /\ KnownIds /\ KnownWereIngested /\ StatusesOnRecord /\ AuditIdsDiffer
      => KnownIds' /\ KnownWereIngested' /\ StatusesOnRecord' /\ AuditIdsDiffer'
  BY KnownIdsStep, KnownIngestedStep, StatusesStep, AuditIdsStep DEF TrailInv
<1>3. Spec => []TrailInv
  BY TrailInvariant
<1> QED
  BY <1>1, <1>2, <1>3, PTL DEF Spec, LedgerInv

(* An event is published after the commit of the change it announces: its   *)
(* alert was in the table by then, and the status it tells of is in the     *)
(* audit log for as long as the alert exists.                               *)
THEOREM AnnouncedOnRecord == Spec => []AnnouncedIsRecorded
<1>1. LedgerInv => AnnouncedIsRecorded
  BY DEF LedgerInv, KnownWereIngested, StatusesOnRecord, OnRecord, AnnouncedIsRecorded
<1> QED
  BY <1>1, LedgerInvariant, PTL

-----------------------------------------------------------------------------
(* Triage implements AlertLedger *)

LEMMA RowsExist ==
    ASSUME TypeOK, NEW a \in AlertId
    PROVE  Ledger!Exists(a) <=> Present(a)
BY DEF TypeOK, AlertRow, Status, ClosedStatus, NoRow, Present, Ledger!Exists

LEMMA IngestRefines ==
    ASSUME LedgerInv, NEW w \in Workers, IngestCommit(w)
    PROVE  Ledger!Next
<1> USE DEF LedgerInv, TrailInv, RowInv, LockInv, TypeInv
<1>1. PICK a \in AlertId : a = tx[w].alert
  BY DEF IngestCommit, StageOK, StageOf, InTransaction
<1>2. ~Present(a)
  BY <1>1 DEF IngestCommit, FreshAlert
<1>3. \A r \in actions \cup audit : r.alert # a
  BY <1>2 DEF NoOrphanRows
<1>4. /\ alerts'[a].status = "open"
      /\ alerts' = [alerts EXCEPT ![a] = alerts'[a]]
      /\ UNCHANGED <<actions, audit>>
  BY <1>1 DEF IngestCommit, TypeOK
<1>5. Ledger!Ingest(a)
  BY <1>2, <1>3, <1>4, RowsExist DEF Ledger!Ingest, Ledger!ActionsOf
<1> QED
  BY <1>5 DEF Ledger!Next

LEMMA ClassifyRefines ==
    ASSUME LedgerInv, NEW w \in Workers, ClassifyCommit(w)
    PROVE  Ledger!Next
<1> USE DEF LedgerInv, TrailInv, RowInv, LockInv, TypeInv
<1> DEFINE q == ClassifyActionRow(tx[w])
           r == ClassifyAuditRow(tx[w])
<1>1. PICK a \in AlertId : a = tx[w].alert
  BY DEF ClassifyCommit, StageOK, StageOf, InTransaction
<1>2. /\ tx[w].action \in ClassifyActions /\ tx[w].seen = "open"
      /\ tx[w].actionId \in Nat /\ tx[w].auditId \in Nat
  BY DEF ClassifyCommit, StageOK, StageOf, Updating, TypeOK, Tx
<1>3. /\ q.alert = a /\ q.id = tx[w].actionId /\ q.analyst = tx[w].analyst
      /\ q.action = tx[w].action
      /\ r.alert = a /\ r.id = tx[w].auditId /\ r.action = tx[w].action
      /\ r.from = "open" /\ r.to = ACTION_TO_STATUS(tx[w].action)
  BY <1>1, <1>2 DEF ClassifyActionRow, ClassifyAuditRow
<1>4. /\ actions' = actions \cup {q} /\ audit' = audit \cup {r}
      /\ alerts' = [alerts EXCEPT ![a] = ClassifiedAlert(tx[w])]
  BY <1>1 DEF ClassifyCommit
<1>5. ClassifiedAlert(tx[w]) = [status |-> r.to, assigned |-> q.analyst,
                                created |-> alerts[a].created]
  BY <1>1, <1>3 DEF ClassifiedAlert
<1> HIDE DEF q, r
<1>6. Present(a)
  BY <1>1 DEF ClassifyCommit, LockedPresent, Updates
<1>7. alerts' = [alerts EXCEPT ![a].status = r.to, ![a].assigned = q.analyst]
  <2> DEFINE row == alerts[a]
             one == [status |-> r.to, assigned |-> row.assigned, created |-> row.created]
             two == [status |-> r.to, assigned |-> q.analyst, created |-> row.created]
  <2>1. row = [status |-> row.status, assigned |-> row.assigned, created |-> row.created]
    <3>1. row \in AlertRow
      BY <1>6 DEF TypeOK, Present, NoRow
    <3> QED
      BY <3>1 DEF AlertRow
  <2>2. [row EXCEPT !.status = r.to] = one
    BY <2>1
  <2>3. [one EXCEPT !.assigned = q.analyst] = two
    OBVIOUS
  <2> HIDE DEF one, two
  <2>4. [alerts EXCEPT ![a].status = r.to] = [alerts EXCEPT ![a] = one]
    BY <2>2
  <2>5. [[alerts EXCEPT ![a] = one] EXCEPT ![a].assigned = q.analyst]
          = [alerts EXCEPT ![a] = two]
    BY <2>3 DEF TypeOK
  <2> QED
    BY <1>4, <1>5, <2>4, <2>5 DEF two
<1>8. /\ \A p \in Ledger!ActionsOf(a) : p.id \in Nat /\ p.id < q.id
      /\ \A p \in Ledger!ClassificationsOf(a) : p.id \in Nat /\ p.id < r.id
  BY <1>1, <1>3
  DEF ClassifyCommit, RowsNumbered, ClassificationsOf, ActionsOf, Ledger!ActionsOf,
      Ledger!ClassificationsOf, TypeOK, AuditRow, ActionRow
<1>9. q \notin actions /\ r \notin audit
  BY <1>2, <1>3, <1>8 DEF Ledger!ActionsOf, Ledger!ClassificationsOf, ClassifyActions
<1>10. Ledger!Classify(a)
  <2>1. q \in actions' \ actions /\ r \in audit' \ audit
    BY <1>4, <1>9
  <2>2. Ledger!Exists(a)
    BY <1>6, RowsExist
  <2> QED
    BY <1>3, <1>4, <1>7, <1>8, <2>1, <2>2 DEF Ledger!Classify
<1> QED
  BY <1>10 DEF Ledger!Next

LEMMA NoteRefines ==
    ASSUME LedgerInv, NEW w \in Workers, NoteCommit(w)
    PROVE  Ledger!Next
<1> USE DEF LedgerInv, TrailInv, RowInv, LockInv, TypeInv
<1> DEFINE r == NoteAuditRow(tx[w])
<1>1. PICK a \in AlertId : a = tx[w].alert
  BY DEF NoteCommit, StageOK, StageOf, InTransaction
<1>2. /\ r.id = tx[w].auditId /\ r.alert = a /\ r.action = "note_added"
      /\ r.from = tx[w].seen /\ r.to = tx[w].seen
  BY <1>1 DEF NoteAuditRow
<1>3. audit' = audit \cup {r} /\ UNCHANGED <<alerts, actions>>
  BY DEF NoteCommit
<1> HIDE DEF r
<1>4. Present(a)
  BY <1>1 DEF NoteCommit, LockedPresent, References
<1>5. r \notin audit
  BY <1>2 DEF NoteCommit, AuditIdsDiffer
<1>6. r.to \in Ledger!StatusesOf(a)
  <2>1. OnRecord(a, r.to)
    BY <1>1, <1>2 DEF NoteCommit, StatusesOnRecord
  <2> QED
    BY <1>4, <2>1
    DEF OnRecord, ClassificationsOf, Ledger!StatusesOf, Ledger!ClassificationsOf
<1>7. Ledger!Note(a)
  BY <1>2, <1>3, <1>4, <1>5, <1>6, RowsExist DEF Ledger!Note
<1> QED
  BY <1>7 DEF Ledger!Next

LEMMA PurgeRefines ==
    ASSUME LedgerInv, NEW w \in Workers, PurgeCommit(w)
    PROVE  Ledger!Next
<1>1. tx[w].locked \in SUBSET AlertId
  BY DEF LedgerInv, TrailInv, RowInv, LockInv, TypeInv, TypeOK, Tx
<1>2. Ledger!Purge(tx[w].locked)
  BY DEF PurgeCommit, Cascade, Ledger!Purge
<1> QED
  BY <1>1, <1>2 DEF Ledger!Next

LEMMA StepRefines ==
    ASSUME LedgerInv, [Next]_vars
    PROVE  [Ledger!Next]_(Ledger!vars)
<1>1. ASSUME NEW w \in Workers,
             \/ QuietMove(w) \/ IngestInsert(w)
             \/ ClassifyRecordAction(w) \/ ClassifyRecordAudit(w) \/ NoteInsert(w)
      PROVE  UNCHANGED Ledger!vars
  BY <1>1
  DEF QuietMove, IngestInsert, ClassifyRecordAction, ClassifyRecordAudit, NoteInsert, tables,
      Ledger!vars
<1>2. NothingWritten => UNCHANGED Ledger!vars
  BY DEF NothingWritten, Ledger!vars
<1>3. TypeInv
  BY DEF LedgerInv, TrailInv, RowInv, LockInv
<1> QED
  BY RowSteps, <1>1, <1>2, <1>3, IngestRefines, ClassifyRefines, NoteRefines, PurgeRefines
  DEF RowStep

(* To whoever reads the tables, the workers, their transactions, rollbacks  *)
(* and crashes are not there: every committed change is one step of the     *)
(* ledger, in which a status changes only together with the action and the  *)
(* audit row that document it.                                              *)
THEOREM TriageImplementsLedger == Spec => ImplementsLedger
<1>1. Init => Ledger!Init
  BY DEF Init, Ledger!Init
<1>2. LedgerInv /\ [Next]_vars => [Ledger!Next]_(Ledger!vars)
  BY StepRefines
<1> QED
  BY <1>1, <1>2, LedgerInvariant, PTL DEF Spec, ImplementsLedger, Ledger!Spec

-----------------------------------------------------------------------------
(* Actions and classifications in step *)

Rank(r, rows) == Cardinality({s \in rows : s.id < r.id})

(* What a row with an id above all others does to the ranks. *)
LEMMA LatestRow ==
    ASSUME NEW rows, IsFiniteSet(rows), \A s \in rows : s.id \in Nat,
           NEW new, new.id \in Nat, \A s \in rows : s.id < new.id
    PROVE  /\ IsFiniteSet(rows \cup {new})
           /\ Cardinality(rows) \in Nat
           /\ Cardinality(rows \cup {new}) = Cardinality(rows) + 1
           /\ Rank(new, rows \cup {new}) = Cardinality(rows)
           /\ \A p \in rows : /\ Rank(p, rows \cup {new}) = Rank(p, rows)
                              /\ Rank(p, rows) \in Nat
                              /\ Rank(p, rows) < Cardinality(rows)
<1>1. new \notin rows
  OBVIOUS
<1>2. /\ Cardinality(rows) \in Nat
      /\ IsFiniteSet(rows \cup {new})
      /\ Cardinality(rows \cup {new}) = Cardinality(rows) + 1
  BY <1>1, FS_CardinalityType, FS_AddElement
<1>3. {s \in rows \cup {new} : s.id < new.id} = rows
  OBVIOUS
<1>4. ASSUME NEW p \in rows
      PROVE  /\ Rank(p, rows \cup {new}) = Rank(p, rows)
             /\ Rank(p, rows) \in Nat
             /\ Rank(p, rows) < Cardinality(rows)
  <2>1. {s \in rows \cup {new} : s.id < p.id} = {s \in rows : s.id < p.id}
    OBVIOUS
  <2>2. {s \in rows : s.id < p.id} \subseteq rows \ {p}
    OBVIOUS
  <2>3. /\ IsFiniteSet(rows \ {p})
        /\ Cardinality(rows \ {p}) = Cardinality(rows) - 1
    <3>1. IsFiniteSet(rows \ {p})
      BY FS_Subset
    <3>2. p \notin rows \ {p} /\ (rows \ {p}) \cup {p} = rows
      BY Zenon
    <3>3. Cardinality(rows \ {p}) \in Nat
      BY <3>1, FS_CardinalityType
    <3>4. Cardinality((rows \ {p}) \cup {p}) = Cardinality(rows \ {p}) + 1
      BY <3>1, <3>2, FS_AddElement
    <3>5. Cardinality(rows) = Cardinality((rows \ {p}) \cup {p})
      BY <3>2, Zenon
    <3> QED
      BY <3>1, <3>3, <3>4, <3>5
  <2>4. /\ Cardinality({s \in rows : s.id < p.id}) <= Cardinality(rows \ {p})
        /\ IsFiniteSet({s \in rows : s.id < p.id})
    BY <2>2, <2>3, FS_Subset
  <2>5. Cardinality({s \in rows : s.id < p.id}) \in Nat
    BY <2>4, FS_CardinalityType
  <2>6. Rank(p, rows \cup {new}) = Rank(p, rows)
    BY <2>1, Zenon DEF Rank
  <2> QED
    BY <1>2, <2>3, <2>4, <2>5, <2>6 DEF Rank
<1> QED
  BY <1>2, <1>3, <1>4 DEF Rank

(* Two tables that are in step stay so when each gets its latest row.       *)
InStep(acts, verdicts) ==
    /\ Cardinality(acts) = Cardinality(verdicts)
    /\ \A q \in acts, r \in verdicts :
         Rank(q, acts) = Rank(r, verdicts) => q.action = r.action /\ q.at = r.at

LEMMA StayInStep ==
    ASSUME NEW acts, NEW verdicts, IsFiniteSet(acts), IsFiniteSet(verdicts),
           InStep(acts, verdicts),
           NEW q, NEW r, q.id \in Nat, r.id \in Nat,
           \A s \in acts : s.id \in Nat /\ s.id < q.id,
           \A s \in verdicts : s.id \in Nat /\ s.id < r.id,
           q.action = r.action, q.at = r.at
    PROVE  InStep(acts \cup {q}, verdicts \cup {r})
<1>1. /\ Cardinality(acts) \in Nat
      /\ Cardinality(acts \cup {q}) = Cardinality(acts) + 1
      /\ Rank(q, acts \cup {q}) = Cardinality(acts)
      /\ \A p \in acts : /\ Rank(p, acts \cup {q}) = Rank(p, acts)
                         /\ Rank(p, acts) \in Nat
                         /\ Rank(p, acts) < Cardinality(acts)
  BY LatestRow
<1>2. /\ Cardinality(verdicts \cup {r}) = Cardinality(verdicts) + 1
      /\ Rank(r, verdicts \cup {r}) = Cardinality(verdicts)
      /\ \A p \in verdicts : /\ Rank(p, verdicts \cup {r}) = Rank(p, verdicts)
                             /\ Rank(p, verdicts) \in Nat
                             /\ Rank(p, verdicts) < Cardinality(verdicts)
  BY LatestRow
<1>3. /\ Cardinality(acts) = Cardinality(verdicts)
      /\ Cardinality(acts \cup {q}) = Cardinality(verdicts \cup {r})
  BY <1>1, <1>2 DEF InStep
<1>4. ASSUME NEW p \in acts \cup {q}, NEW s \in verdicts \cup {r},
             Rank(p, acts \cup {q}) = Rank(s, verdicts \cup {r})
      PROVE  p.action = s.action /\ p.at = s.at
  <2>1. CASE p \in acts /\ s \in verdicts
    BY <1>1, <1>2, <1>4, <2>1 DEF InStep
  <2>2. ~(p = q /\ s \in verdicts)
    <3> SUFFICES ASSUME p = q, s \in verdicts
                 PROVE  FALSE
      OBVIOUS
    <3>1. Rank(p, acts \cup {q}) = Cardinality(acts)
      BY <1>1, Zenon
    <3>2. Rank(s, verdicts \cup {r}) \in Nat
          /\ Rank(s, verdicts \cup {r}) < Cardinality(verdicts)
      BY <1>2
    <3> QED
      BY <1>1, <1>3, <1>4, <3>1, <3>2
  <2>3. ~(p \in acts /\ s = r)
    <3> SUFFICES ASSUME p \in acts, s = r
                 PROVE  FALSE
      OBVIOUS
    <3>1. Rank(s, verdicts \cup {r}) = Cardinality(verdicts)
      BY <1>2, Zenon
    <3>2. Rank(p, acts \cup {q}) \in Nat
          /\ Rank(p, acts \cup {q}) < Cardinality(acts)
      BY <1>1
    <3> QED
      BY <1>1, <1>3, <1>4, <3>1, <3>2
  <2> QED
    BY <2>1, <2>2, <2>3
<1> QED
  BY <1>3, <1>4 DEF InStep

(* The tables are finite: a transaction adds one row to each at most.       *)
TablesFinite == IsFiniteSet(actions) /\ IsFiniteSet(audit)

MatchInv == TablesFinite /\ \A a \in AlertId : InStep(ActionsOf(a), ClassificationsOf(a))

LEMMA RowsOfAlertFinite ==
    ASSUME TablesFinite, NEW a
    PROVE  IsFiniteSet(ActionsOf(a)) /\ IsFiniteSet(ClassificationsOf(a))
<1>1. ActionsOf(a) \subseteq actions /\ ClassificationsOf(a) \subseteq audit
  BY DEF ActionsOf, ClassificationsOf
<1> QED
  BY <1>1, FS_Subset DEF TablesFinite

(* What a commit does to the rows of one alert. *)
LEMMA RowsOfAlert ==
    ASSUME RowInv, RowsNumbered, [Next]_vars, NEW a \in AlertId
    PROVE  \/ ActionsOf(a)' = ActionsOf(a) /\ ClassificationsOf(a)' = ClassificationsOf(a)
           \/ ActionsOf(a)' = {} /\ ClassificationsOf(a)' = {}
           \/ \E w \in Workers :
                /\ ClassifyCommit(w) /\ tx[w].alert = a
                /\ ActionsOf(a)' = ActionsOf(a) \cup {ClassifyActionRow(tx[w])}
                /\ ClassificationsOf(a)' = ClassificationsOf(a) \cup {ClassifyAuditRow(tx[w])}
                /\ \A s \in ActionsOf(a) : s.id \in Nat /\ s.id < tx[w].actionId
                /\ \A s \in ClassificationsOf(a) : s.id \in Nat /\ s.id < tx[w].auditId
<1> USE DEF RowInv, LockInv, TypeInv
<1>1. ASSUME NEW w \in Workers, ClassifyCommit(w), tx[w].alert = a
      PROVE  /\ ActionsOf(a)' = ActionsOf(a) \cup {ClassifyActionRow(tx[w])}
             /\ ClassificationsOf(a)' = ClassificationsOf(a) \cup {ClassifyAuditRow(tx[w])}
             /\ \A s \in ActionsOf(a) : s.id \in Nat /\ s.id < tx[w].actionId
             /\ \A s \in ClassificationsOf(a) : s.id \in Nat /\ s.id < tx[w].auditId
  <2>1. /\ ClassifyActionRow(tx[w]).alert = a
        /\ ClassifyAuditRow(tx[w]).alert = a
        /\ ClassifyAuditRow(tx[w]).action # "note_added"
    BY <1>1
    DEF ClassifyCommit, ClassifyActionRow, ClassifyAuditRow, StageOK, StageOf, Updating,
        ClassifyActions
  <2>2. /\ actions' = actions \cup {ClassifyActionRow(tx[w])}
        /\ audit' = audit \cup {ClassifyAuditRow(tx[w])}
    BY <1>1 DEF ClassifyCommit
  <2>3. /\ \A s \in ActionsOf(a) : s.id \in Nat /\ s.id < tx[w].actionId
        /\ \A s \in ClassificationsOf(a) : s.id \in Nat /\ s.id < tx[w].auditId
    BY <1>1
    DEF ClassifyCommit, RowsNumbered, ActionsOf, ClassificationsOf, TypeOK, ActionRow, AuditRow
  <2>4. ActionsOf(a)' = ActionsOf(a) \cup {ClassifyActionRow(tx[w])}
    BY <2>1, <2>2 DEF ActionsOf
  <2>5. ClassificationsOf(a)' = ClassificationsOf(a) \cup {ClassifyAuditRow(tx[w])}
    BY <2>1, <2>2 DEF ClassificationsOf
  <2> QED
    BY <2>3, <2>4, <2>5
<1>2. ASSUME NEW w \in Workers, ClassifyCommit(w), tx[w].alert # a
      PROVE  ActionsOf(a)' = ActionsOf(a) /\ ClassificationsOf(a)' = ClassificationsOf(a)
  BY <1>2
  DEF ClassifyCommit, ClassifyActionRow, ClassifyAuditRow, ActionsOf, ClassificationsOf
<1>3. ASSUME NEW w \in Workers, NoteCommit(w)
      PROVE  ActionsOf(a)' = ActionsOf(a) /\ ClassificationsOf(a)' = ClassificationsOf(a)
  BY <1>3 DEF NoteCommit, NoteAuditRow, ActionsOf, ClassificationsOf
<1>4. ASSUME NEW w \in Workers, PurgeCommit(w)
      PROVE  \/ ActionsOf(a)' = ActionsOf(a) /\ ClassificationsOf(a)' = ClassificationsOf(a)
             \/ ActionsOf(a)' = {} /\ ClassificationsOf(a)' = {}
  BY <1>4 DEF PurgeCommit, Cascade, ActionsOf, ClassificationsOf
<1>5. ASSUME NEW w \in Workers,
             \/ QuietMove(w) \/ IngestInsert(w) \/ IngestCommit(w)
             \/ ClassifyRecordAction(w) \/ ClassifyRecordAudit(w) \/ NoteInsert(w)
      PROVE  UNCHANGED <<actions, audit>>
  BY <1>5
  DEF QuietMove, IngestInsert, IngestCommit, ClassifyRecordAction, ClassifyRecordAudit,
      NoteInsert, tables
<1>6. NothingWritten => UNCHANGED <<actions, audit>>
  BY DEF NothingWritten
<1>7. UNCHANGED <<actions, audit>> =>
        ActionsOf(a)' = ActionsOf(a) /\ ClassificationsOf(a)' = ClassificationsOf(a)
  BY DEF ActionsOf, ClassificationsOf
<1> QED
  BY RowSteps, <1>1, <1>2, <1>3, <1>4, <1>5, <1>6, <1>7 DEF RowStep

LEMMA FiniteStep ==
    ASSUME TypeInv, TablesFinite, [Next]_vars
    PROVE  TablesFinite'
<1>1. \/ actions' \subseteq actions
      \/ \E q : actions' = actions \cup {q}
  <2>1. ASSUME NEW w \in Workers, ClassifyCommit(w) \/ PurgeCommit(w) \/ NoteCommit(w)
        PROVE  actions' \subseteq actions \/ \E q : actions' = actions \cup {q}
    BY <2>1 DEF ClassifyCommit, PurgeCommit, Cascade, NoteCommit
  <2>2. ASSUME NEW w \in Workers,
               \/ QuietMove(w) \/ IngestInsert(w) \/ IngestCommit(w)
               \/ ClassifyRecordAction(w) \/ ClassifyRecordAudit(w) \/ NoteInsert(w)
        PROVE  actions' = actions
    BY <2>2
    DEF QuietMove, IngestInsert, IngestCommit, ClassifyRecordAction, ClassifyRecordAudit,
        NoteInsert, tables
  <2> QED
    BY RowSteps, <2>1, <2>2 DEF RowStep, NothingWritten
<1>2. \/ audit' \subseteq audit
      \/ \E r : audit' = audit \cup {r}
  <2>1. ASSUME NEW w \in Workers, ClassifyCommit(w) \/ PurgeCommit(w) \/ NoteCommit(w)
        PROVE  audit' \subseteq audit \/ \E r : audit' = audit \cup {r}
    BY <2>1 DEF ClassifyCommit, PurgeCommit, Cascade, NoteCommit
  <2>2. ASSUME NEW w \in Workers,
               \/ QuietMove(w) \/ IngestInsert(w) \/ IngestCommit(w)
               \/ ClassifyRecordAction(w) \/ ClassifyRecordAudit(w) \/ NoteInsert(w)
        PROVE  audit' = audit
    BY <2>2
    DEF QuietMove, IngestInsert, IngestCommit, ClassifyRecordAction, ClassifyRecordAudit,
        NoteInsert, tables
  <2> QED
    BY RowSteps, <2>1, <2>2 DEF RowStep, NothingWritten
<1> QED
  BY <1>1, <1>2, FS_Subset, FS_AddElement DEF TablesFinite

LEMMA MatchStep ==
    ASSUME RowInv, RowsNumbered, MatchInv, [Next]_vars, NEW a \in AlertId
    PROVE  InStep(ActionsOf(a), ClassificationsOf(a))'
<1>1. ASSUME ActionsOf(a)' = ActionsOf(a), ClassificationsOf(a)' = ClassificationsOf(a)
      PROVE  InStep(ActionsOf(a), ClassificationsOf(a))'
  BY <1>1 DEF MatchInv, InStep, Rank
<1>2. ASSUME ActionsOf(a)' = {}, ClassificationsOf(a)' = {}
      PROVE  InStep(ActionsOf(a), ClassificationsOf(a))'
  BY <1>2 DEF InStep
<1>3. ASSUME NEW w \in Workers,
             ClassifyCommit(w), tx[w].alert = a,
             ActionsOf(a)' = ActionsOf(a) \cup {ClassifyActionRow(tx[w])},
             ClassificationsOf(a)' = ClassificationsOf(a) \cup {ClassifyAuditRow(tx[w])},
             \A s \in ActionsOf(a) : s.id \in Nat /\ s.id < tx[w].actionId,
             \A s \in ClassificationsOf(a) : s.id \in Nat /\ s.id < tx[w].auditId
      PROVE  InStep(ActionsOf(a), ClassificationsOf(a))'
  <2>1. PICK q, r : q = ClassifyActionRow(tx[w]) /\ r = ClassifyAuditRow(tx[w])
    OBVIOUS
  <2>2. /\ q.id = tx[w].actionId /\ r.id = tx[w].auditId
        /\ q.action = r.action /\ q.at = r.at
    BY <2>1 DEF ClassifyActionRow, ClassifyAuditRow
  <2>3. q.id \in Nat /\ r.id \in Nat
    BY <2>2 DEF RowInv, LockInv, TypeInv, TypeOK, Tx
  <2>4. IsFiniteSet(ActionsOf(a)) /\ IsFiniteSet(ClassificationsOf(a))
    BY RowsOfAlertFinite DEF MatchInv
  <2>5. InStep(ActionsOf(a), ClassificationsOf(a))
    BY DEF MatchInv
  <2>6. InStep(ActionsOf(a) \cup {q}, ClassificationsOf(a) \cup {r})
    BY <1>3, <2>2, <2>3, <2>4, <2>5, StayInStep
  <2>7. ActionsOf(a)' = ActionsOf(a) \cup {q}
        /\ ClassificationsOf(a)' = ClassificationsOf(a) \cup {r}
    BY <1>3, <2>1
  <2> QED
    BY <2>6, <2>7 DEF InStep, Rank
<1> QED
  BY RowsOfAlert, <1>1, <1>2, <1>3

(* analyst_actions and audit_log tell the same story however classifications *)
(* race: the k-th action on an alert and its k-th classification, in the    *)
(* order of their ids, are the same verdict of the same transaction.        *)
THEOREM ActionsAndAuditAgree == Spec => []ActionsMatchAudit
<1>1. Init => MatchInv
  BY FS_EmptySet DEF Init, MatchInv, TablesFinite, InStep, ActionsOf, ClassificationsOf
<1>2. TrailInv /\ MatchInv /\ [Next]_vars => MatchInv'
  BY FiniteStep, MatchStep DEF MatchInv, TrailInv, RowInv, LockInv, AlertId
<1>3. MatchInv => ActionsMatchAudit
  BY DEF MatchInv, InStep, Rank, ActionsMatchAudit
<1> QED
  BY <1>1, <1>2, <1>3, TrailInvariant, PTL DEF Spec

-----------------------------------------------------------------------------
(* How often an alert can be classified *)

(* The workers that are past the check of api_classify with an alert. *)
PastCheck(a) ==
    {w \in Workers : pc[w] \in {"update", "action", "audit", "commit"} /\ tx[w].alert = a}

(* Each of them is going to add one classification at most. *)
OncePerWorker ==
    \A a \in AlertId :
        Cardinality(ClassificationsOf(a)) + Cardinality(PastCheck(a)) <= Cardinality(Workers)

LEMMA PastCheckFinite ==
    ASSUME NEW a
    PROVE  /\ IsFiniteSet(PastCheck(a)) /\ Cardinality(PastCheck(a)) \in Nat
           /\ Cardinality(PastCheck(a)) <= Cardinality(Workers)
           /\ Cardinality(Workers) \in Nat
<1>1. PastCheck(a) \subseteq Workers
  BY DEF PastCheck
<1> QED
  BY <1>1, WorkersAreFinite, FS_Subset, FS_CardinalityType

(* Only a SELECT that sees the alert open brings another worker past it.    *)
LEMMA PastCheckGrows ==
    ASSUME TypeInv, [Next]_vars, NEW a \in AlertId
    PROVE  \/ PastCheck(a)' \subseteq PastCheck(a)
           \/ alerts[a].status = "open" /\ UNCHANGED audit
<1> USE DEF TypeInv
<1> DEFINE Stages == {"update", "action", "audit", "commit"}
<1>1. ASSUME NEW w \in Workers, Writes(w) \/ Rollback(w), ~ClassifySelect(w)
      PROVE  PastCheck(a)' \subseteq PastCheck(a)
  <2>1. \A v \in Workers \ {w} : pc'[v] = pc[v] /\ tx'[v] = tx[v]
    BY <1>1, OthersStay
  <2>2. pc'[w] \in Stages => pc[w] \in Stages /\ tx'[w].alert = tx[w].alert
    <3>1. CASE Update(w) \/ ClassifyCommit(w)
      BY <3>1 DEF Update, ClassifyUpdate, ClassifyCommit, Goto, TypeOK
    <3>2. CASE ClassifyRecordAction(w) \/ ClassifyRecordAudit(w)
      BY <3>2 DEF ClassifyRecordAction, ClassifyRecordAudit, TypeOK, Tx
    <3>3. CASE IngestInsert(w) \/ IngestCommit(w) \/ NoteSelect(w) \/ PurgeStart(w) \/ PurgeRow(w)
      BY <3>3 DEF IngestInsert, IngestCommit, NoteSelect, PurgeStart, PurgeRow, Goto, TypeOK
    <3>4. CASE Publish(w) \/ NoteInsert(w) \/ NoteCommit(w) \/ PurgeCommit(w) \/ Rollback(w)
      BY <3>4 DEF Publish, NoteInsert, NoteCommit, PurgeCommit, Rollback, Goto, Finish, TypeOK
    <3> QED
      BY <1>1, <3>1, <3>2, <3>3, <3>4 DEF Writes
  <2> QED
    BY <2>1, <2>2 DEF PastCheck
<1>2. ASSUME NEW w \in Workers, ClassifySelect(w)
      PROVE  \/ PastCheck(a)' \subseteq PastCheck(a)
             \/ alerts[a].status = "open" /\ UNCHANGED audit
  <2>1. PICK b \in AlertId :
          /\ alerts[b].status = "open"
          /\ tx'[w].alert = b
    BY <1>2 DEF ClassifySelect, Begun, TypeOK
  <2>2. \A v \in Workers \ {w} : pc'[v] = pc[v] /\ tx'[v] = tx[v]
    BY <1>2, OthersStay DEF Writes
  <2>3. audit' = audit
    BY <1>2 DEF ClassifySelect, tables
  <2> QED
    BY <2>1, <2>2, <2>3 DEF PastCheck
<1>3. NothingWritten => PastCheck(a)' = PastCheck(a)
  BY DEF NothingWritten, PastCheck
<1> QED
  BY StepKinds, <1>1, <1>2, <1>3

LEMMA OncePerWorkerStep ==
    ASSUME RowInv, RowsNumbered, StatusIsLastClassification, TablesFinite, OncePerWorker,
           [Next]_vars, NEW a \in AlertId
    PROVE  (Cardinality(ClassificationsOf(a)) + Cardinality(PastCheck(a))
              <= Cardinality(Workers))'
<1> DEFINE rows == ClassificationsOf(a)
           past == PastCheck(a)
<1>1. /\ Cardinality(rows) \in Nat /\ IsFiniteSet(rows)
      /\ Cardinality(past) \in Nat /\ IsFiniteSet(past)
      /\ Cardinality(past') \in Nat /\ IsFiniteSet(past')
      /\ Cardinality(past') <= Cardinality(Workers)
      /\ Cardinality(Workers) \in Nat
  <2>1. Cardinality(past') \in Nat /\ IsFiniteSet(past')
        /\ Cardinality(past') <= Cardinality(Workers)
    <3>1. past' \subseteq Workers
      BY DEF PastCheck
    <3> QED
      BY <3>1, WorkersAreFinite, FS_Subset, FS_CardinalityType
  <2> QED
    BY <2>1, RowsOfAlertFinite, PastCheckFinite, FS_CardinalityType
<1>2. Cardinality(rows) + Cardinality(past) <= Cardinality(Workers)
  BY DEF OncePerWorker
<1>3. ASSUME alerts[a].status = "open", UNCHANGED audit
      PROVE  Cardinality(rows') + Cardinality(past') <= Cardinality(Workers)
  <2>1. rows' = {}
    BY <1>3 DEF StatusIsLastClassification, Present, ClassificationsOf
  <2>2. Cardinality(rows') = 0
    BY <2>1, FS_EmptySet
  <2> QED
    BY <1>1, <2>2
<1>4. ASSUME past' \subseteq past, rows' = rows \/ rows' = {}
      PROVE  Cardinality(rows') + Cardinality(past') <= Cardinality(Workers)
  <2>1. Cardinality(past') <= Cardinality(past)
    BY <1>1, <1>4, FS_Subset
  <2>2. Cardinality(rows') = Cardinality(rows) \/ Cardinality(rows') = 0
    BY <1>4, FS_EmptySet
  <2> QED
    BY <1>1, <1>2, <2>1, <2>2
<1>5. ASSUME NEW w \in Workers, ClassifyCommit(w), tx[w].alert = a,
             rows' = rows \cup {ClassifyAuditRow(tx[w])},
             \A s \in rows : s.id \in Nat /\ s.id < tx[w].auditId
      PROVE  Cardinality(rows') + Cardinality(past') <= Cardinality(Workers)
  <2>1. w \in past /\ past' \subseteq past \ {w}
    BY <1>5
    DEF ClassifyCommit, Goto, PastCheck, RowInv, LockInv, TypeInv, TypeOK
  <2>2. Cardinality(past') + 1 <= Cardinality(past)
    <3>1. w \notin past' /\ past' \cup {w} \subseteq past
      BY <2>1
    <3>2. Cardinality(past' \cup {w}) = Cardinality(past') + 1 /\ IsFiniteSet(past' \cup {w})
      BY <1>1, <3>1, FS_AddElement
    <3>3. Cardinality(past' \cup {w}) <= Cardinality(past)
      BY <1>1, <3>1, FS_Subset
    <3> QED
      BY <3>2, <3>3
  <2>3. PICK r : r = ClassifyAuditRow(tx[w]) /\ r.id = tx[w].auditId
    <3>1. ClassifyAuditRow(tx[w]).id = tx[w].auditId
      BY DEF ClassifyAuditRow
    <3> QED
      BY <3>1
  <2>4. r.id \in Nat
    BY <2>3 DEF RowInv, LockInv, TypeInv, TypeOK, Tx
  <2>5. Cardinality(rows \cup {r}) = Cardinality(rows) + 1
    <3>1. r \notin rows
      BY <1>5, <2>3, <2>4
    <3> QED
      BY <1>1, <3>1, FS_AddElement
  <2>6. Cardinality(rows') = Cardinality(rows) + 1
    BY <1>5, <2>3, <2>5
  <2> QED
    BY <1>1, <1>2, <2>2, <2>6
<1>6. TypeInv
  BY DEF RowInv, LockInv
<1>7. \/ past' \subseteq past
      \/ alerts[a].status = "open" /\ UNCHANGED audit
  BY <1>6, PastCheckGrows
<1>8. \/ rows' = rows \/ rows' = {}
      \/ \E w \in Workers :
           /\ ClassifyCommit(w) /\ tx[w].alert = a
           /\ rows' = rows \cup {ClassifyAuditRow(tx[w])}
           /\ \A s \in rows : s.id \in Nat /\ s.id < tx[w].auditId
  BY RowsOfAlert
<1> QED
  BY <1>3, <1>4, <1>5, <1>7, <1>8

(* The check of api_classify takes no lock, and yet an alert is classified  *)
(* at most once by each worker: by those that saw it open together.         *)
THEOREM AtMostOncePerWorker == Spec => []ClassifiedAtMostOncePerWorker
<1>1. Init => OncePerWorker
  <2>1. ASSUME Init, NEW a \in AlertId
        PROVE  Cardinality(ClassificationsOf(a)) + Cardinality(PastCheck(a))
                 <= Cardinality(Workers)
    <3>1. ClassificationsOf(a) = {}
      BY <2>1 DEF Init, ClassificationsOf
    <3> QED
      BY <3>1, FS_EmptySet, PastCheckFinite
  <2> QED
    BY <2>1 DEF OncePerWorker
<1>2. Init => TablesFinite
  BY FS_EmptySet DEF Init, TablesFinite
<1>3. TrailInv /\ TablesFinite /\ OncePerWorker /\ [Next]_vars => TablesFinite' /\ OncePerWorker'
  <2>1. TrailInv /\ TablesFinite /\ [Next]_vars => TablesFinite'
    BY FiniteStep DEF TrailInv, RowInv, LockInv
  <2>2. ASSUME TrailInv, TablesFinite, OncePerWorker, [Next]_vars
        PROVE  OncePerWorker'
    BY <2>2, OncePerWorkerStep DEF TrailInv, OncePerWorker, AlertId
  <2> QED
    BY <2>1, <2>2
<1>4. TablesFinite /\ OncePerWorker => ClassifiedAtMostOncePerWorker
  <2>1. ASSUME TablesFinite, OncePerWorker, NEW a \in AlertId
        PROVE  Cardinality(ClassificationsOf(a)) <= Cardinality(Workers)
    <3>1. Cardinality(ClassificationsOf(a)) \in Nat
      BY <2>1, RowsOfAlertFinite, FS_CardinalityType
    <3>2. Cardinality(PastCheck(a)) \in Nat /\ Cardinality(Workers) \in Nat
      BY PastCheckFinite
    <3> QED
      BY <2>1, <3>1, <3>2 DEF OncePerWorker
  <2> QED
    BY <2>1 DEF ClassifiedAtMostOncePerWorker
<1> QED
  BY <1>1, <1>2, <1>3, <1>4, TrailInvariant, PTL DEF Spec

=============================================================================
