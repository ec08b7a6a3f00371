-------------------------- MODULE DeploymentProofs --------------------------
(***************************************************************************)
(* What holds of Deployment for all its constants: however many alerts,     *)
(* demo rows, threads, operators and acts there are, and in whatever order  *)
(* people start, stop, seed and apply the schema again.                     *)
(***************************************************************************)
EXTENDS Deployment, FiniteSetTheorems, TLAPS

(* How far psql has come tells which tables there are. *)
ScriptOrder ==
    /\ script \in 2..9 => "alert_embeddings" \notin tables
    /\ script \in 3..7 => "analyst_actions" \notin tables
    /\ script \in 4..6 => "alerts" \notin tables
    /\ script \in 7..9 => "alerts" \in tables
    /\ script \in 8..9 => "analyst_actions" \in tables
    /\ "alert_embeddings" \in tables => "analyst_actions" \in tables
    /\ "analyst_actions" \in tables => "alerts" \in tables
    /\ "audit_log" \in tables

(* The rows of a table that is not there are gone, and those of a table     *)
(* that has its foreign key are no older than the ids.                      *)
RowsCurrent ==
    /\ "alerts" \notin tables => alerts = NoRows
    /\ "analyst_actions" \notin tables => acted = {}
    /\ "alert_embeddings" \notin tables => vectors = {}
    /\ \A r \in acted \cup vectors : r.written = epoch
    /\ linked => "alerts" \in tables /\ \A r \in trail : r.written = epoch

(* A foreign key refers to a row that is there. *)
RowsRefer ==
    /\ \A r \in acted \cup vectors : Present(r.alert)
    /\ linked => \A r \in trail : Present(r.alert)

IdsInOrder == \A id \in Ids : Present(id) => id < nextId /\ alerts[id].born # 0

(* An id that was read in an epoch belongs to the alert born as number      *)
(* `born`, or to none once that is purged, until the ids start again or the *)
(* table is dropped.                                                        *)
Meets(id, born, read) ==
    /\ born # 0
    /\ read <= epoch
    /\ read = epoch /\ "alerts" \in tables => id < nextId /\ alerts[id].born \in {born, 0}

RowMeets(r) ==
    /\ r.written <= epoch
    /\ r.read = r.written => Meets(r.alert, r.meant, r.read)

RowsMeet == \A r \in acted \cup vectors \cup trail : RowMeets(r)

(* So do the ids that the page and the threads go by. *)
ReadersMeet ==
    /\ \A id \in Ids : shown[id] # 0 => Meets(id, shown[id], shownEpoch)
    /\ \A t \in Threads : thread[t] # "idle" =>
         /\ ingested[t].id \in Ids /\ ingested[t].born \in Nat /\ ingested[t].epoch \in Nat
         /\ Meets(ingested[t].id, ingested[t].born, ingested[t].epoch)

(* Actions are created again only after alerts, which has nothing closed.   *)
ClosedInOrder ==
    /\ ClosedHasAction
    /\ script = 7 => \A id \in Ids : alerts[id].status # "closed"

DatabaseInv == DatabaseTypeOK /\ ScriptOrder /\ RowsCurrent /\ RowsRefer /\ IdsInOrder

-----------------------------------------------------------------------------
(* The statements of schema.sql *)

LEMMA ScriptStatements ==
    /\ Len(Script) = 9
    /\ \A i \in 1..4 : Script[i].op = "drop"
    /\ \A i \in 5..9 : Script[i].op = "create"
    /\ Script[1].table = "alert_embeddings" /\ Script[2].table = "analyst_actions"
    /\ Script[3].table = "alerts" /\ Script[4].table = "users" /\ Script[5].table = "users"
    /\ Script[6].table = "alerts" /\ Script[7].table = "analyst_actions"
    /\ Script[8].table = "audit_log" /\ Script[9].table = "alert_embeddings"
<1>1. Len(Script) = 9
  BY DEF Script
<1>2. /\ Script[1] = Drop("alert_embeddings") /\ Script[2] = Drop("analyst_actions")
      /\ Script[3] = Drop("alerts") /\ Script[4] = Drop("users")
      /\ Script[5] = Create("users") /\ Script[6] = Create("alerts")
      /\ Script[7] = Create("analyst_actions") /\ Script[8] = Create("audit_log")
      /\ Script[9] = Create("alert_embeddings")
  BY DEF Script
<1>3. \A table : /\ Drop(table).op = "drop" /\ Drop(table).table = table
                 /\ Create(table).op = "create" /\ Create(table).table = table
  BY DEF Drop, Create
<1> QED
  BY <1>1, <1>2, <1>3

(* What each statement does, by its place in the script. *)
DropAt ==
    /\ script \in 1..4
    /\ script' = script + 1
    /\ tables' = tables \ {Script[script].table}
    /\ linked' = (linked /\ script # 3)
    /\ alerts' = IF script = 3 THEN NoRows ELSE alerts
    /\ acted' = IF script = 2 THEN {} ELSE acted
    /\ vectors' = IF script = 1 THEN {} ELSE vectors
    /\ UNCHANGED <<trail, nextId, births, epoch>>

CreateAt ==
    /\ script \in 5..9
    /\ script' = IF script = 9 THEN 0 ELSE script + 1
    /\ tables' = tables \cup {Script[script].table}
    /\ linked' = linked
    /\ IF script = 6 THEN nextId' = 1 /\ epoch' = epoch + 1 ELSE UNCHANGED <<nextId, epoch>>
    /\ UNCHANGED <<alerts, acted, trail, vectors, births>>

LEMMA StatementAt ==
    ASSUME DatabaseInv, ExecuteStatement
    PROVE  DropAt \/ CreateAt
<1>1. script \in 1..9
  BY ScriptStatements DEF ExecuteStatement, DatabaseInv, DatabaseTypeOK
<1>2. CASE DropTable
  <2>1. script \in 1..4
    BY <1>1, <1>2, ScriptStatements DEF DropTable, Statement
  <2>2. /\ Script[script].table = "alerts" <=> script = 3
        /\ Script[script].table = "analyst_actions" <=> script = 2
        /\ Script[script].table = "alert_embeddings" <=> script = 1
    BY <2>1, ScriptStatements
  <2> QED
    BY <1>2, <2>1, <2>2, ScriptStatements DEF DropTable, Statement, ExecuteStatement, DropAt
<1>3. CASE CreateTable
  <2>1. script \in 5..9
    BY <1>1, <1>3, ScriptStatements DEF CreateTable, Statement
  <2>2. /\ Script[script].table = "alerts" <=> script = 6
        /\ Script[script].table = "audit_log" <=> script = 8
    BY <2>1, ScriptStatements
  <2>3. script = 6 => "alerts" \notin tables
    BY DEF DatabaseInv, ScriptOrder
  <2>4. "audit_log" \in tables
    BY DEF DatabaseInv, ScriptOrder
  <2>5. linked' = linked
    BY <1>3, <2>4 DEF CreateTable, DatabaseInv, DatabaseTypeOK
  <2>6. IF script = 6 THEN nextId' = 1 /\ epoch' = epoch + 1 ELSE UNCHANGED <<nextId, epoch>>
    BY <1>3, <2>2, <2>3 DEF CreateTable, Statement
  <2> QED
    BY <1>3, <2>1, <2>5, <2>6, ScriptStatements
    DEF CreateTable, Statement, ExecuteStatement, CreateAt
<1> QED
  BY <1>2, <1>3 DEF ExecuteStatement

-----------------------------------------------------------------------------
(* The database *)

NewScript == (script = 0 /\ script' = 1) \/ (script > 1 /\ script' = 0)

DatabaseStep ==
    \/ DropAt
    \/ CreateAt
    \/ NewScript /\ UNCHANGED databaseVars
    \/ Seed
    \/ \E key \in Keys : InsertAlert(key)
    \/ \E id \in Ids, born, read \in Nat : ClassifyAlert(id, born, read) \/ StoreVector(id, born, read)
    \/ BootPurge
    \/ UNCHANGED <<databaseVars, script>>

(* A purge takes rows away and changes none. *)
LEMMA PurgeRemoves ==
    ASSUME DatabaseTypeOK, BootPurge
    PROVE  /\ UNCHANGED <<tables, linked, nextId, births, epoch, script>>
           /\ acted' \subseteq acted /\ vectors' \subseteq vectors /\ trail' \subseteq trail
           /\ alerts' = [id \in Ids |-> alerts'[id]]
           /\ \A id \in Ids : alerts'[id] = alerts[id] \/ alerts'[id] = NoRow
BY DEF BootPurge, Purge, RowsKept

AlertRow == [born : Nat, status : {"open", "closed"}, key : Keys] \cup {NoRow}

LEMMA NoRowsType == NoRows \in [Ids -> AlertRow] /\ \A id \in Ids : NoRows[id] = NoRow
BY DEF NoRows, AlertRow

LEMMA RowAboutType ==
    ASSUME DatabaseTypeOK, NEW id \in Ids, NEW born \in Nat, NEW read \in Nat
    PROVE  /\ RowAbout(id, born, read) \in Rows
           /\ RowAbout(id, born, read).alert = id /\ RowAbout(id, born, read).meant = born
           /\ RowAbout(id, born, read).read = read /\ RowAbout(id, born, read).written = epoch
BY DEF DatabaseTypeOK, RowAbout, Rows

(* The rows that seed.py leaves. *)
SeededAction(id) ==
    [alert |-> id, meant |-> births + id, read |-> epoch + 1, written |-> epoch + 1]

LEMMA SeedRowTypes ==
    ASSUME DatabaseTypeOK, NEW id \in 1..SeedRows
    PROVE  /\ id \in Ids /\ births + id \in Nat /\ births + id # 0
           /\ SeedAlert(id) \in AlertRow
           /\ SeedAlert(id).born = births + id
           /\ SeedAlert(id).status \in {"open", "closed"}
           /\ SeedAlert(id).status = "closed" <=> id <= SeedClosed
           /\ SeededAction(id) \in Rows
BY SeedFits
DEF DatabaseTypeOK, Ids, SeedAlert, AlertRow, SeededAction, Rows, Keys

LEMMA DatabaseTypeStep ==
    ASSUME DatabaseInv, DatabaseStep
    PROVE  DatabaseTypeOK'
<1> USE DEF DatabaseInv
<1>1. CASE DropAt
  <2>1. /\ tables' \subseteq Tables /\ linked' \in BOOLEAN
        /\ acted' \subseteq Rows /\ trail' \subseteq Rows /\ vectors' \subseteq Rows
        /\ nextId' \in 1..(MaxId + 1) /\ births' \in Nat /\ epoch' \in Nat
    BY <1>1 DEF DropAt, DatabaseTypeOK
  <2>2. alerts' \in [Ids -> AlertRow]
    BY <1>1, NoRowsType DEF DropAt, DatabaseTypeOK, AlertRow
  <2>3. script' \in 0..Len(Script)
    BY <1>1, ScriptStatements DEF DropAt
  <2> QED
    BY <2>1, <2>2, <2>3 DEF DatabaseTypeOK, AlertRow, Rows, Ids, Script, Drop, Create
<1>2. CASE CreateAt
  <2>1. tables' \subseteq Tables
    <3>1. Script[script].table \in Tables
      BY <1>2, ScriptStatements DEF CreateAt, Tables
    <3> QED
      BY <1>2, <3>1 DEF CreateAt, DatabaseTypeOK
  <2>2. /\ nextId' \in 1..(MaxId + 1) /\ epoch' \in Nat
    BY <1>2, SeedFits DEF CreateAt, DatabaseTypeOK
  <2>3. script' \in 0..Len(Script)
    BY <1>2, ScriptStatements DEF CreateAt
  <2>4. UNCHANGED <<linked, alerts, acted, trail, vectors, births>>
    BY <1>2 DEF CreateAt
  <2> QED
    BY <2>1, <2>2, <2>3, <2>4 DEF DatabaseTypeOK, Rows, Ids, Script, Drop, Create
<1>3. CASE NewScript /\ UNCHANGED databaseVars
  <2>1. script' \in 0..Len(Script)
    BY <1>3, ScriptStatements DEF NewScript
  <2> QED
    BY <1>3, <2>1 DEF DatabaseTypeOK, databaseVars, rowVars, Rows, Ids, Script, Drop, Create
<1>4. CASE Seed
  <2>1. alerts' \in [Ids -> AlertRow]
    BY <1>4, SeedRowTypes DEF Seed, Ids, AlertRow
  <2>2. acted' \subseteq Rows
    BY <1>4, SeedRowTypes, SeedFits DEF Seed, SeededAction
  <2>3. nextId' \in 1..(MaxId + 1) /\ births' \in Nat /\ epoch' \in Nat
    BY <1>4, SeedFits DEF Seed, DatabaseTypeOK
  <2>4. trail' \subseteq Rows /\ vectors' \subseteq Rows
    BY <1>4 DEF Seed, DatabaseTypeOK
  <2>5. UNCHANGED <<tables, linked, script>>
    BY <1>4 DEF Seed
  <2> QED
    BY <2>1, <2>2, <2>3, <2>4, <2>5 DEF DatabaseTypeOK, AlertRow, Rows, Ids
<1>5. ASSUME NEW key \in Keys, InsertAlert(key)
      PROVE  DatabaseTypeOK'
  <2>1. [born |-> births + 1, status |-> "open", key |-> Encrypt(key)] \in AlertRow
    BY DEF DatabaseTypeOK, AlertRow, Encrypt
  <2>2. alerts' \in [Ids -> AlertRow]
    BY <1>5, <2>1 DEF InsertAlert, DatabaseTypeOK, AlertRow
  <2>3. nextId' \in 1..(MaxId + 1) /\ births' \in Nat
    BY <1>5, SeedFits DEF InsertAlert, DatabaseTypeOK, Ids
  <2>4. UNCHANGED <<tables, linked, acted, trail, vectors, epoch, script>>
    BY <1>5 DEF InsertAlert
  <2> QED
    BY <2>2, <2>3, <2>4 DEF DatabaseTypeOK, AlertRow, Rows, Ids
<1>6. ASSUME NEW id \in Ids, NEW born \in Nat, NEW read \in Nat, ClassifyAlert(id, born, read)
      PROVE  DatabaseTypeOK'
  <2>1. alerts[id] \in [born : Nat, status : {"open", "closed"}, key : Keys]
    BY <1>6 DEF ClassifyAlert, DatabaseTypeOK, NoRow
  <2>2. [alerts[id] EXCEPT !.status = "closed"] \in AlertRow
    BY <2>1 DEF AlertRow
  <2>3. alerts' = [alerts EXCEPT ![id] = [alerts[id] EXCEPT !.status = "closed"]]
    BY <1>6 DEF ClassifyAlert
  <2>4. alerts' \in [Ids -> AlertRow]
    BY <2>2, <2>3 DEF DatabaseTypeOK, AlertRow
  <2>5. acted' \subseteq Rows /\ trail' \subseteq Rows
    BY <1>6, RowAboutType DEF ClassifyAlert, DatabaseTypeOK
  <2>6. UNCHANGED <<tables, linked, vectors, nextId, births, epoch, script>>
    BY <1>6 DEF ClassifyAlert
  <2> QED
    BY <2>4, <2>5, <2>6 DEF DatabaseTypeOK, AlertRow, Rows, Ids
<1>7. ASSUME NEW id \in Ids, NEW born \in Nat, NEW read \in Nat, StoreVector(id, born, read)
      PROVE  DatabaseTypeOK'
  <2>1. vectors' \subseteq Rows
    BY <1>7, RowAboutType DEF StoreVector, DatabaseTypeOK
  <2>2. UNCHANGED <<tables, linked, alerts, acted, trail, nextId, births, epoch, script>>
    BY <1>7 DEF StoreVector
  <2> QED
    BY <2>1, <2>2 DEF DatabaseTypeOK, Rows, Ids
<1>8. UNCHANGED <<databaseVars, script>> => DatabaseTypeOK'
  BY DEF DatabaseTypeOK, databaseVars, rowVars, Rows, Ids
<1>9. CASE BootPurge
  <2>1. alerts' \in [Ids -> AlertRow]
    BY <1>9, PurgeRemoves DEF DatabaseTypeOK, AlertRow
  <2>2. acted' \subseteq Rows /\ trail' \subseteq Rows /\ vectors' \subseteq Rows
    BY <1>9, PurgeRemoves DEF DatabaseTypeOK
  <2>3. UNCHANGED <<tables, linked, nextId, births, epoch, script>>
    BY <1>9, PurgeRemoves
  <2> QED
    BY <2>1, <2>2, <2>3 DEF DatabaseTypeOK, AlertRow, Rows, Ids
<1> QED
  BY <1>1, <1>2, <1>3, <1>4, <1>5, <1>6, <1>7, <1>8, <1>9 DEF DatabaseStep

LEMMA ScriptOrderStep ==
    ASSUME DatabaseInv, DatabaseStep
    PROVE  ScriptOrder'
<1> USE DEF DatabaseInv
<1>1. CASE DropAt
  <2>1. /\ script = 1 => tables' = tables \ {"alert_embeddings"}
        /\ script = 2 => tables' = tables \ {"analyst_actions"}
        /\ script = 3 => tables' = tables \ {"alerts"}
        /\ script = 4 => tables' = tables \ {"users"}
    BY <1>1, ScriptStatements DEF DropAt
  <2> QED
    BY <1>1, <2>1 DEF DropAt, ScriptOrder
<1>2. CASE CreateAt
  <2>1. /\ script = 5 => tables' = tables \cup {"users"}
        /\ script = 6 => tables' = tables \cup {"alerts"}
        /\ script = 7 => tables' = tables \cup {"analyst_actions"}
        /\ script = 8 => tables' = tables \cup {"audit_log"}
        /\ script = 9 => tables' = tables \cup {"alert_embeddings"}
    BY <1>2, ScriptStatements DEF CreateAt
  <2> QED
    BY <1>2, <2>1 DEF CreateAt, ScriptOrder
<1>3. CASE NewScript /\ UNCHANGED databaseVars
  BY <1>3 DEF NewScript, databaseVars, ScriptOrder
<1>4. \/ Seed
      \/ \E key \in Keys : InsertAlert(key)
      \/ \E id \in Ids, born, read \in Nat :
           ClassifyAlert(id, born, read) \/ StoreVector(id, born, read)
      \/ BootPurge
      \/ UNCHANGED <<databaseVars, script>>
      => UNCHANGED <<tables, script>>
  BY PurgeRemoves DEF Seed, InsertAlert, ClassifyAlert, StoreVector, databaseVars
<1>5. UNCHANGED <<tables, script>> => ScriptOrder'
  BY DEF ScriptOrder
<1> QED
  BY <1>1, <1>2, <1>3, <1>4, <1>5 DEF DatabaseStep

LEMMA RowsCurrentStep ==
    ASSUME DatabaseInv, DatabaseStep
    PROVE  RowsCurrent'
<1> USE DEF DatabaseInv
<1>1. CASE DropAt
  <2>1. script = 1 => tables' = tables \ {"alert_embeddings"} /\ UNCHANGED <<alerts, acted, linked>>
                      /\ vectors' = {}
    BY <1>1, ScriptStatements DEF DropAt, DatabaseTypeOK
  <2>2. script = 2 => tables' = tables \ {"analyst_actions"} /\ UNCHANGED <<alerts, vectors, linked>>
                      /\ acted' = {}
    BY <1>1, ScriptStatements DEF DropAt, DatabaseTypeOK
  <2>3. script = 3 => tables' = tables \ {"alerts"} /\ UNCHANGED <<acted, vectors>>
                      /\ alerts' = NoRows /\ linked' = FALSE
    BY <1>1, ScriptStatements DEF DropAt
  <2>4. script = 4 => tables' = tables \ {"users"} /\ UNCHANGED <<alerts, acted, vectors, linked>>
    BY <1>1, ScriptStatements DEF DropAt, DatabaseTypeOK
  <2>5. script \in {1, 2, 3, 4} /\ UNCHANGED <<trail, epoch>>
    BY <1>1 DEF DropAt
  <2>6. NoRows' = NoRows
    BY DEF NoRows, Ids, NoRow
  <2>7. CASE script = 1
    BY <2>1, <2>5, <2>6, <2>7 DEF RowsCurrent
  <2>8. CASE script = 2
    BY <2>2, <2>5, <2>6, <2>8 DEF RowsCurrent
  <2>9. CASE script = 3
    BY <2>3, <2>5, <2>6, <2>9 DEF RowsCurrent, ScriptOrder
  <2>10. CASE script = 4
    BY <2>4, <2>5, <2>6, <2>10 DEF RowsCurrent
  <2> QED
    BY <2>5, <2>7, <2>8, <2>9, <2>10
<1>2. CASE CreateAt
  <2>1. /\ tables \subseteq tables'
        /\ UNCHANGED <<alerts, acted, trail, vectors, linked>>
    BY <1>2 DEF CreateAt
  <2>2. CASE script = 6
    <3>1. acted = {} /\ vectors = {} /\ ~linked
      BY <2>2 DEF ScriptOrder, RowsCurrent
    <3> QED
      BY <2>1, <3>1 DEF RowsCurrent, NoRows, Ids, NoRow
  <2>3. CASE script # 6
    <3>1. epoch' = epoch
      BY <1>2, <2>3 DEF CreateAt
    <3> QED
      BY <2>1, <3>1 DEF RowsCurrent, NoRows, Ids, NoRow
  <2> QED
    BY <2>2, <2>3
<1>3. CASE NewScript /\ UNCHANGED databaseVars
  BY <1>3 DEF databaseVars, rowVars, RowsCurrent, NoRows, Ids, NoRow
<1>4. CASE Seed
  <2>1. {"alerts", "analyst_actions"} \subseteq tables'
    BY <1>4 DEF Seed, MaySeed
  <2>2. \A r \in acted' : r.written = epoch'
    BY <1>4 DEF Seed
  <2>3. vectors' = {} /\ (linked' => trail' = {})
    BY <1>4 DEF Seed
  <2> QED
    BY <2>1, <2>2, <2>3 DEF RowsCurrent
<1>5. ASSUME NEW key \in Keys, InsertAlert(key)
      PROVE  RowsCurrent'
  BY <1>5 DEF InsertAlert, RowsCurrent
<1>6. ASSUME NEW id \in Ids, NEW born \in Nat, NEW read \in Nat, ClassifyAlert(id, born, read)
      PROVE  RowsCurrent'
  <2>1. RowAbout(id, born, read).written = epoch
    BY DEF RowAbout
  <2> QED
    BY <1>6, <2>1 DEF ClassifyAlert, RowsCurrent
<1>7. ASSUME NEW id \in Ids, NEW born \in Nat, NEW read \in Nat, StoreVector(id, born, read)
      PROVE  RowsCurrent'
  <2>1. RowAbout(id, born, read).written = epoch
    BY DEF RowAbout
  <2>2. \A r \in vectors' : r \in vectors \/ r = RowAbout(id, born, read)
    BY <1>7 DEF StoreVector
  <2>3. "alert_embeddings" \notin tables => vectors' = vectors
    BY <1>7 DEF StoreVector
  <2>4. UNCHANGED <<tables, linked, alerts, acted, trail, epoch>>
    BY <1>7 DEF StoreVector
  <2> QED
    BY <2>1, <2>2, <2>3, <2>4 DEF RowsCurrent, NoRows, Ids, NoRow
<1>8. UNCHANGED <<databaseVars, script>> => RowsCurrent'
  BY DEF databaseVars, rowVars, RowsCurrent, NoRows, Ids, NoRow
<1>9. CASE BootPurge
  <2>1. alerts = NoRows => alerts' = NoRows
    BY <1>9, NoRowsType, PurgeRemoves DEF NoRows
  <2>2. /\ UNCHANGED <<tables, linked, epoch>>
        /\ acted' \subseteq acted /\ vectors' \subseteq vectors /\ trail' \subseteq trail
    BY <1>9, PurgeRemoves
  <2> QED
    BY <2>1, <2>2 DEF RowsCurrent, NoRows, Ids, NoRow
<1> QED
  BY <1>1, <1>2, <1>3, <1>4, <1>5, <1>6, <1>7, <1>8, <1>9 DEF DatabaseStep

(* Rows that are kept refer to alerts that are kept. *)
LEMMA RowsReferStep ==
    ASSUME DatabaseInv, DatabaseStep
    PROVE  RowsRefer'
<1> USE DEF DatabaseInv
<1>0. \A r \in Rows : r.alert \in Ids
  BY DEF Rows
<1>1. CASE DropAt
  <2>1. CASE script = 3
    <3>1. acted = {} /\ vectors = {}
      BY <2>1 DEF ScriptOrder, RowsCurrent
    <3>2. acted' = acted /\ vectors' = vectors
      BY <1>1, <2>1 DEF DropAt
    <3>3. linked' = FALSE
      BY <1>1, <2>1 DEF DropAt
    <3> QED
      BY <3>1, <3>2, <3>3 DEF RowsRefer
  <2>2. CASE script # 3
    <3>1. /\ alerts' = alerts /\ acted' \subseteq acted /\ vectors' \subseteq vectors
          /\ trail' = trail /\ (linked' => linked)
      BY <1>1, <2>2 DEF DropAt
    <3> QED
      BY <3>1 DEF RowsRefer, Present
  <2> QED
    BY <2>1, <2>2
<1>2. CASE Seed
  <2>1. vectors' = {} /\ (linked' => trail' = {})
    BY <1>2 DEF Seed
  <2>2. ASSUME NEW r \in acted'
        PROVE  Present(r.alert)'
    <3>1. PICK id \in 1..SeedClosed : r = SeededAction(id)
      BY <1>2 DEF Seed, SeededAction
    <3>2. id \in 1..SeedRows /\ r.alert = id
      BY <3>1, SeedFits DEF SeededAction
    <3>3. alerts'[id] = SeedAlert(id)
      BY <1>2, <3>2, SeedRowTypes DEF Seed
    <3> QED
      BY <3>2, <3>3, SeedRowTypes DEF Present
  <2> QED
    BY <2>1, <2>2 DEF RowsRefer
<1>3. ASSUME NEW key \in Keys, InsertAlert(key)
      PROVE  RowsRefer'
  <2>1. \A id \in Ids : Present(id) => Present(id)'
    BY <1>3 DEF InsertAlert, DatabaseTypeOK, Present
  <2> QED
    BY <1>0, <1>3, <2>1 DEF InsertAlert, RowsRefer, DatabaseTypeOK
<1>4. ASSUME NEW id \in Ids, NEW born \in Nat, NEW read \in Nat, ClassifyAlert(id, born, read)
      PROVE  RowsRefer'
  <2>1. \A i \in Ids : i # id => alerts'[i] = alerts[i]
    BY <1>4 DEF ClassifyAlert, DatabaseTypeOK
  <2>2. Present(id)'
    <3>1. alerts[id] \in [born : Nat, status : {"open", "closed"}, key : Keys]
      BY <1>4 DEF ClassifyAlert, DatabaseTypeOK, NoRow
    <3>2. alerts'[id] = [alerts[id] EXCEPT !.status = "closed"]
      BY <1>4 DEF ClassifyAlert, DatabaseTypeOK
    <3> QED
      BY <3>1, <3>2 DEF Present
  <2>3. \A i \in Ids : Present(i) => Present(i)'
    BY <2>1, <2>2 DEF Present
  <2>4. PICK new : new = RowAbout(id, born, read) /\ new.alert = id
    BY RowAboutType
  <2> QED
    BY <1>0, <1>4, <2>2, <2>3, <2>4 DEF ClassifyAlert, RowsRefer, DatabaseTypeOK
<1>5. ASSUME NEW id \in Ids, NEW born \in Nat, NEW read \in Nat, StoreVector(id, born, read)
      PROVE  RowsRefer'
  <2>1. PICK new : new = RowAbout(id, born, read) /\ new.alert = id
    BY RowAboutType
  <2>2. \A r \in vectors' : r \in vectors \/ (r = new /\ Present(id))
    BY <1>5, <2>1 DEF StoreVector
  <2>3. UNCHANGED <<linked, alerts, acted, trail>>
    BY <1>5 DEF StoreVector
  <2> QED
    BY <2>1, <2>2, <2>3 DEF RowsRefer, Present
<1>6. CASE BootPurge
  <2>1. PICK gone \in SUBSET Ids : Purge(gone)
    BY <1>6 DEF BootPurge
  <2>2. \A i \in Ids : i \notin gone => alerts'[i] = alerts[i]
    BY <2>1 DEF Purge
  <2>3. \A i \in Ids : i \notin gone /\ Present(i) => Present(i)'
    BY <2>2 DEF Present
  <2>4. \A r \in acted' \cup vectors' : r.alert \notin gone /\ r \in acted \cup vectors
    BY <2>1 DEF Purge, RowsKept
  <2>5. linked' => linked /\ \A r \in trail' : r.alert \notin gone /\ r \in trail
    BY <2>1 DEF Purge, RowsKept
  <2> QED
    BY <1>0, <2>3, <2>4, <2>5 DEF RowsRefer, DatabaseTypeOK
<1>7. \/ CreateAt
      \/ NewScript /\ UNCHANGED databaseVars
      \/ UNCHANGED <<databaseVars, script>>
      => UNCHANGED <<linked, alerts, acted, trail, vectors>>
  BY DEF CreateAt, databaseVars, rowVars
<1>8. UNCHANGED <<linked, alerts, acted, trail, vectors>> => RowsRefer'
  BY DEF RowsRefer, Present
<1> QED
  BY <1>1, <1>2, <1>3, <1>4, <1>5, <1>6, <1>7, <1>8 DEF DatabaseStep

LEMMA ClassifyKeepsBorn ==
    ASSUME DatabaseTypeOK, NEW id \in Ids, NEW i \in Ids, NEW b \in Nat, NEW r \in Nat,
           ClassifyAlert(i, b, r)
    PROVE  alerts'[id].born = alerts[id].born
<1>1. CASE id = i
  <2>1. alerts[i] \in [born : Nat, status : {"open", "closed"}, key : Keys]
    BY DEF ClassifyAlert, DatabaseTypeOK, NoRow
  <2>2. alerts'[i] = [alerts[i] EXCEPT !.status = "closed"]
    BY DEF ClassifyAlert, DatabaseTypeOK
  <2> QED
    BY <1>1, <2>1, <2>2
<1>2. CASE id # i
  BY <1>2 DEF ClassifyAlert, DatabaseTypeOK
<1> QED
  BY <1>1, <1>2

LEMMA IdsInOrderStep ==
    ASSUME DatabaseInv, DatabaseStep
    PROVE  IdsInOrder'
<1> USE DEF DatabaseInv
<1>1. CASE DropAt
  <2>1. nextId' = nextId /\ \A id \in Ids : alerts'[id] = alerts[id] \/ alerts'[id] = NoRow
    BY <1>1, NoRowsType DEF DropAt
  <2> QED
    BY <2>1 DEF IdsInOrder, Present, NoRow, Ids
<1>2. CASE CreateAt
  <2>1. CASE script = 6
    <3>1. alerts' = NoRows
      BY <1>2, <2>1 DEF CreateAt, ScriptOrder, RowsCurrent
    <3>2. \A id \in Ids : alerts'[id] = NoRow
      BY <3>1, NoRowsType
    <3> QED
      BY <3>2 DEF IdsInOrder, Present, NoRow, Ids
  <2>2. CASE script # 6
    BY <1>2, <2>2 DEF CreateAt, IdsInOrder, Present, Ids
  <2> QED
    BY <2>1, <2>2
<1>3. CASE Seed
  <2>1. \A id \in Ids : id > SeedRows => ~Present(id)'
    <3>1. \A id \in Ids : id > SeedRows => alerts'[id] = NoRow
      BY <1>3, SeedFits DEF Seed, Ids
    <3> QED
      BY <3>1 DEF Present, NoRow
  <2>2. nextId' = SeedRows + 1
    BY <1>3 DEF Seed
  <2>3. \A id \in 1..SeedRows : alerts'[id].born # 0
    BY <1>3, SeedRowTypes DEF Seed
  <2> QED
    BY <2>1, <2>2, <2>3, SeedFits DEF IdsInOrder, Ids
<1>4. ASSUME NEW key \in Keys, InsertAlert(key)
      PROVE  IdsInOrder'
  <2>1. \A id \in Ids : id # nextId => alerts'[id] = alerts[id]
    BY <1>4 DEF InsertAlert, DatabaseTypeOK
  <2>2. nextId' = nextId + 1 /\ nextId \in Nat
    BY <1>4 DEF InsertAlert, DatabaseTypeOK
  <2>3. alerts'[nextId].born # 0
    BY <1>4 DEF InsertAlert, DatabaseTypeOK
  <2> QED
    BY <2>1, <2>2, <2>3, SeedFits DEF IdsInOrder, Present, Ids
<1>5. ASSUME NEW id \in Ids, NEW born \in Nat, NEW read \in Nat, ClassifyAlert(id, born, read)
      PROVE  IdsInOrder'
  <2>1. \A i \in Ids : i # id => alerts'[i] = alerts[i]
    BY <1>5 DEF ClassifyAlert, DatabaseTypeOK
  <2>2. nextId' = nextId /\ Present(id)
    BY <1>5 DEF ClassifyAlert, Present
  <2>3. alerts'[id].born = alerts[id].born
    BY <1>5, ClassifyKeepsBorn
  <2> QED
    BY <2>1, <2>2, <2>3 DEF IdsInOrder, Present, Ids
<1>6. \/ NewScript /\ UNCHANGED databaseVars
      \/ \E id \in Ids, born, read \in Nat : StoreVector(id, born, read)
      \/ UNCHANGED <<databaseVars, script>>
      => IdsInOrder'
  BY DEF StoreVector, databaseVars, rowVars, IdsInOrder, Present, Ids
<1>7. CASE BootPurge
  BY <1>7, PurgeRemoves DEF IdsInOrder, Present, NoRow, Ids
<1> QED
  BY <1>1, <1>2, <1>3, <1>4, <1>5, <1>6, <1>7 DEF DatabaseStep

LEMMA DatabaseInvStep ==
    ASSUME DatabaseInv, DatabaseStep
    PROVE  DatabaseInv'
BY DatabaseTypeStep, ScriptOrderStep, RowsCurrentStep, RowsReferStep, IdsInOrderStep
DEF DatabaseInv

-----------------------------------------------------------------------------
(* Rows, page and threads meet the alerts they mean *)

LEMMA MeetsStays ==
    ASSUME DatabaseInv, DatabaseStep,
           NEW id \in Ids, NEW born \in Nat, NEW read \in Nat, Meets(id, born, read)
    PROVE  Meets(id, born, read)'
<1> USE DEF DatabaseInv
<1>1. epoch \in Nat
  BY DEF DatabaseTypeOK
<1>2. ASSUME epoch' = epoch + 1
      PROVE  Meets(id, born, read)'
  BY <1>1, <1>2 DEF Meets
<1>3. ASSUME epoch' = epoch,
             read = epoch /\ "alerts" \in tables' =>
               /\ "alerts" \in tables
               /\ alerts'[id].born \in {alerts[id].born, 0}
               /\ nextId' \in {nextId, nextId + 1}
      PROVE  Meets(id, born, read)'
  BY <1>3 DEF Meets, DatabaseTypeOK, Ids
<1>4. CASE DropAt
  <2>1. script = 3 => "alerts" \notin tables'
    BY <1>4, ScriptStatements DEF DropAt
  <2>2. script # 3 => alerts' = alerts
    BY <1>4 DEF DropAt
  <2>3. UNCHANGED <<epoch, nextId>> /\ tables' \subseteq tables
    BY <1>4 DEF DropAt
  <2> QED
    BY <1>3, <2>1, <2>2, <2>3
<1>5. CASE CreateAt
  <2>1. CASE script = 6
    BY <1>2, <1>5, <2>1 DEF CreateAt
  <2>2. CASE script # 6
    <3>1. "alerts" \in tables' => "alerts" \in tables
      BY <1>5, <2>2, ScriptStatements DEF CreateAt
    <3> QED
      BY <1>3, <1>5, <2>2, <3>1 DEF CreateAt
  <2> QED
    BY <2>1, <2>2
<1>6. CASE Seed
  BY <1>2, <1>6 DEF Seed
<1>7. ASSUME NEW key \in Keys, InsertAlert(key)
      PROVE  Meets(id, born, read)'
  <2>1. /\ "alerts" \in tables /\ UNCHANGED <<tables, epoch>> /\ nextId' = nextId + 1
        /\ nextId \in Nat
    BY <1>7 DEF InsertAlert, DatabaseTypeOK
  <2>2. CASE id = nextId
    <3>1. read # epoch
      BY <2>1, <2>2 DEF Meets
    <3> QED
      BY <1>3, <2>1, <3>1
  <2>3. CASE id # nextId
    <3>1. alerts'[id] = alerts[id]
      BY <1>7, <2>3 DEF InsertAlert, DatabaseTypeOK
    <3> QED
      BY <1>3, <2>1, <3>1
  <2> QED
    BY <2>2, <2>3
<1>8. ASSUME NEW i \in Ids, NEW b \in Nat, NEW r \in Nat, ClassifyAlert(i, b, r)
      PROVE  Meets(id, born, read)'
  <2>1. alerts'[id].born = alerts[id].born
    BY <1>8, ClassifyKeepsBorn
  <2> QED
    BY <1>3, <1>8, <2>1 DEF ClassifyAlert
<1>9. \/ NewScript /\ UNCHANGED databaseVars
      \/ \E i \in Ids, b, r \in Nat : StoreVector(i, b, r)
      \/ UNCHANGED <<databaseVars, script>>
      => UNCHANGED <<tables, alerts, nextId, epoch>>
  BY DEF StoreVector, databaseVars, rowVars
<1>10. UNCHANGED <<tables, alerts, nextId, epoch>> => Meets(id, born, read)'
  BY DEF Meets
<1>11. CASE BootPurge
  <2>1. /\ UNCHANGED <<tables, nextId, epoch>>
        /\ alerts'[id].born \in {alerts[id].born, 0}
    BY <1>11, PurgeRemoves DEF NoRow
  <2> QED
    BY <1>3, <2>1
<1> QED
  BY <1>4, <1>5, <1>6, <1>7, <1>8, <1>9, <1>10, <1>11 DEF DatabaseStep

LEMMA RowMeetsStays ==
    ASSUME DatabaseInv, DatabaseStep, NEW r \in Rows, RowMeets(r)
    PROVE  RowMeets(r)'
<1>1. epoch \in Nat /\ epoch' \in {epoch, epoch + 1}
  BY PurgeRemoves
  DEF DatabaseInv, DatabaseTypeOK, DatabaseStep, DropAt, CreateAt, Seed, InsertAlert,
      ClassifyAlert, StoreVector, databaseVars, rowVars
<1>2. r.alert \in Ids /\ r.meant \in Nat /\ r.read \in Nat /\ r.written \in Nat
  BY DEF Rows
<1>3. r.read = r.written => Meets(r.alert, r.meant, r.read)'
  <2>1. PICK id \in Ids, born \in Nat, read \in Nat : id = r.alert /\ born = r.meant /\ read = r.read
    BY <1>2
  <2>2. Meets(id, born, read) => Meets(id, born, read)'
    BY MeetsStays
  <2> QED
    BY <2>1, <2>2 DEF RowMeets, Meets
<1> QED
  BY <1>1, <1>2, <1>3 DEF RowMeets

(* The database steps of the whole deployment: who writes a row goes by an  *)
(* id that meets the alert it means.                                        *)
WrittenBy(id, born, read) ==
    /\ ClassifyAlert(id, born, read) \/ StoreVector(id, born, read)
    /\ Meets(id, born, read)

KnowingStep ==
    \/ DropAt
    \/ CreateAt
    \/ NewScript /\ UNCHANGED databaseVars
    \/ Seed
    \/ \E key \in Keys : InsertAlert(key)
    \/ \E id \in Ids, born, read \in Nat : WrittenBy(id, born, read)
    \/ BootPurge
    \/ UNCHANGED <<databaseVars, script>>

LEMMA KnowingIsDatabase ==
    ASSUME KnowingStep
    PROVE  DatabaseStep
BY DEF KnowingStep, WrittenBy, DatabaseStep

LEMMA SeedMeets ==
    ASSUME DatabaseInv, Seed, NEW r \in acted'
    PROVE  RowMeets(r)'
<1> USE DEF DatabaseInv
<1>1. PICK id \in 1..SeedClosed : r = SeededAction(id)
  BY DEF Seed, SeededAction
<1>2. id \in 1..SeedRows /\ id <= SeedRows
  BY SeedFits
<1>3. PICK born : born = births + id /\ born # 0
  BY <1>2, SeedRowTypes
<1>4. /\ r.alert = id /\ r.meant = born /\ r.read = epoch + 1 /\ r.written = epoch + 1
      /\ epoch' = epoch + 1
  BY <1>1, <1>3 DEF SeededAction, Seed
<1>5. alerts'[id].born = born
  <2>1. alerts'[id] = SeedAlert(id)
    BY <1>2, SeedRowTypes DEF Seed
  <2> QED
    BY <1>2, <1>3, <2>1, SeedRowTypes
<1>6. epoch \in Nat
  BY DEF DatabaseTypeOK
<1>7. id < nextId'
  BY <1>2, SeedFits DEF Seed
<1> QED
  BY <1>3, <1>4, <1>5, <1>6, <1>7 DEF RowMeets, Meets

LEMMA RowsMeetStep ==
    ASSUME DatabaseInv, RowsMeet, KnowingStep
    PROVE  RowsMeet'
<1> USE DEF DatabaseInv
<1>1. DatabaseStep
  BY KnowingIsDatabase
<1>2. ASSUME NEW r \in acted \cup vectors \cup trail
      PROVE  RowMeets(r)'
  BY <1>1, <1>2, RowMeetsStays DEF RowsMeet, DatabaseTypeOK
<1>3. CASE Seed
  <2>1. vectors' = {} /\ trail' \subseteq trail
    BY <1>3 DEF Seed
  <2> QED
    BY <1>2, <1>3, <2>1, SeedMeets DEF RowsMeet
<1>4. ASSUME NEW id \in Ids, NEW born \in Nat, NEW read \in Nat, WrittenBy(id, born, read)
      PROVE  RowsMeet'
  <2>1. PICK new : new = RowAbout(id, born, read)
    OBVIOUS
  <2>2. RowMeets(new)'
    <3>1. Meets(id, born, read)'
      BY <1>1, <1>4, MeetsStays DEF WrittenBy
    <3>2. /\ new.alert = id /\ new.meant = born /\ new.read = read /\ new.written = epoch
      BY <2>1, RowAboutType
    <3>3. epoch' = epoch /\ epoch \in Nat
      BY <1>4 DEF WrittenBy, ClassifyAlert, StoreVector, DatabaseTypeOK
    <3> QED
      BY <3>1, <3>2, <3>3 DEF RowMeets, Meets
  <2>3. \A r \in acted' \cup vectors' \cup trail' : r \in acted \cup vectors \cup trail \/ r = new
    BY <1>4, <2>1 DEF WrittenBy, ClassifyAlert, StoreVector
  <2> QED
    BY <1>2, <2>2, <2>3 DEF RowsMeet
<1>5. \/ DropAt
      \/ CreateAt
      \/ NewScript /\ UNCHANGED databaseVars
      \/ \E key \in Keys : InsertAlert(key)
      \/ BootPurge
      \/ UNCHANGED <<databaseVars, script>>
      => acted' \cup vectors' \cup trail' \subseteq acted \cup vectors \cup trail
  BY PurgeRemoves DEF DropAt, CreateAt, InsertAlert, databaseVars, rowVars
<1>6. acted' \cup vectors' \cup trail' \subseteq acted \cup vectors \cup trail => RowsMeet'
  BY <1>2 DEF RowsMeet
<1> QED
  BY <1>3, <1>4, <1>5, <1>6 DEF KnowingStep

LEMMA RowsMeetTheirs ==
    ASSUME DatabaseInv, RowsMeet
    PROVE  RowsMeetTheirAlerts
<1> USE DEF DatabaseInv
<1>1. ASSUME NEW r \in Rows, RowMeets(r), r.read = r.written, r.written = epoch,
             "alerts" \in tables
      PROVE  /\ alerts[r.alert].born \in {r.meant, 0}
             /\ Present(r.alert) => alerts[r.alert].born = r.meant
  <2>1. alerts[r.alert].born \in {r.meant, 0}
    BY <1>1 DEF RowMeets, Meets
  <2>2. Present(r.alert) => alerts[r.alert].born # 0
    BY DEF IdsInOrder, Rows
  <2> QED
    BY <2>1, <2>2
<1>2. ASSUME NEW r \in acted \cup vectors, r.read = r.written
      PROVE  alerts[r.alert].born = r.meant
  <2>1. r.written = epoch /\ RowMeets(r) /\ r \in Rows /\ Present(r.alert)
    BY DEF RowsCurrent, RowsMeet, RowsRefer, DatabaseTypeOK
  <2>2. "alerts" \in tables
    BY DEF RowsCurrent, ScriptOrder
  <2> QED
    BY <1>1, <1>2, <2>1, <2>2
<1>3. ASSUME NEW r \in trail, r.read = r.written, linked
      PROVE  alerts[r.alert].born = r.meant
  <2>1. r.written = epoch /\ "alerts" \in tables /\ Present(r.alert)
    BY <1>3 DEF RowsCurrent, RowsRefer
  <2>2. RowMeets(r) /\ r \in Rows
    BY DEF RowsMeet, DatabaseTypeOK
  <2> QED
    BY <1>1, <1>3, <2>1, <2>2
<1>4. ASSUME NEW r \in trail, r.read = r.written, "alerts" \in tables, r.written = epoch
      PROVE  alerts[r.alert].born \in {r.meant, 0}
  <2>1. RowMeets(r) /\ r \in Rows
    BY DEF RowsMeet, DatabaseTypeOK
  <2> QED
    BY <1>1, <1>4, <2>1
<1> QED
  BY <1>2, <1>3, <1>4 DEF RowsMeetTheirAlerts

-----------------------------------------------------------------------------
(* Closed alerts and actions *)

LEMMA ClosedStep ==
    ASSUME DatabaseInv, ClosedInOrder, DatabaseStep
    PROVE  ClosedInOrder'
<1> USE DEF DatabaseInv
<1> DEFINE Both == {"alerts", "analyst_actions"} \subseteq tables
           Closed(id) == alerts[id].status = "closed"
           Acted(id) == \E r \in acted : r.alert = id
           Agree == \A id \in Ids : Closed(id) <=> Acted(id)
<1>0. ClosedInOrder' <=> /\ Both' => Agree'
                         /\ script' = 7 => \A id \in Ids : ~Closed(id)'
  BY DEF ClosedInOrder, ClosedHasAction, Ids
<1>1. CASE DropAt
  <2>1. script = 1 => tables' = tables \ {"alert_embeddings"} /\ UNCHANGED <<alerts, acted>>
    BY <1>1, ScriptStatements DEF DropAt
  <2>2. script = 2 => tables' = tables \ {"analyst_actions"}
    BY <1>1, ScriptStatements DEF DropAt
  <2>3. script = 3 => tables' = tables \ {"alerts"}
    BY <1>1, ScriptStatements DEF DropAt
  <2>4. script = 4 => tables' = tables \ {"users"} /\ UNCHANGED <<alerts, acted>>
    BY <1>1, ScriptStatements DEF DropAt
  <2>5. script \in {1, 2, 3, 4} /\ script' # 7
    BY <1>1 DEF DropAt
  <2> QED
    BY <1>0, <2>1, <2>2, <2>3, <2>4, <2>5 DEF ClosedInOrder, ClosedHasAction
<1>2. CASE CreateAt
  <2>1. UNCHANGED <<alerts, acted>>
    BY <1>2 DEF CreateAt
  <2>2. CASE script = 5
    <3>1. "alerts" \notin tables' /\ script' = 6
      BY <1>2, <2>2, ScriptStatements DEF CreateAt, ScriptOrder
    <3> QED
      BY <1>0, <3>1
  <2>3. CASE script = 6
    <3>1. "analyst_actions" \notin tables'
      BY <1>2, <2>3, ScriptStatements DEF CreateAt, ScriptOrder
    <3>2. alerts = NoRows
      BY <2>3 DEF ScriptOrder, RowsCurrent
    <3>3. \A id \in Ids : ~Closed(id)'
      BY <2>1, <3>2, NoRowsType DEF NoRow
    <3> QED
      BY <1>0, <3>1, <3>3
  <2>4. CASE script = 7
    <3>1. acted = {}
      BY <2>4 DEF ScriptOrder, RowsCurrent
    <3>2. \A id \in Ids : ~Closed(id)
      BY <2>4 DEF ClosedInOrder
    <3>3. script' = 8
      BY <1>2, <2>4 DEF CreateAt
    <3> QED
      BY <1>0, <2>1, <3>1, <3>2, <3>3
  <2>5. CASE script \in {8, 9}
    <3>1. Both
      BY <2>5 DEF ScriptOrder
    <3>2. script' # 7
      BY <1>2, <2>5 DEF CreateAt
    <3> QED
      BY <1>0, <2>1, <3>1, <3>2 DEF ClosedInOrder, ClosedHasAction
  <2> QED
    BY <1>2, <2>2, <2>3, <2>4, <2>5 DEF CreateAt
<1>3. CASE Seed
  <2>1. script' # 7
    BY <1>3 DEF Seed, MaySeed, ScriptOrder
  <2>2. ASSUME NEW id \in Ids
        PROVE  Closed(id)' <=> Acted(id)'
    <3>1. Acted(id)' <=> id \in 1..SeedClosed
      <4>1. \A i : SeededAction(i).alert = i
        BY DEF SeededAction
      <4>2. acted' = {SeededAction(i) : i \in 1..SeedClosed}
        BY <1>3 DEF Seed, SeededAction
      <4> QED
        BY <4>1, <4>2
    <3>2. CASE id <= SeedRows
      <4>1. alerts'[id] = SeedAlert(id)
        BY <1>3, <3>2 DEF Seed
      <4>2. id \in 1..SeedRows
        BY <3>2, SeedFits DEF Ids
      <4> QED
        BY <3>1, <4>1, <4>2, SeedRowTypes, SeedFits DEF Ids
    <3>3. CASE ~(id <= SeedRows)
      <4>1. alerts'[id] = NoRow
        BY <1>3, <3>3 DEF Seed
      <4>2. id \notin 1..SeedClosed
        BY <3>3, SeedFits DEF Ids
      <4> QED
        BY <3>1, <4>1, <4>2 DEF NoRow
    <3> QED
      BY <3>2, <3>3
  <2> QED
    BY <1>0, <2>1, <2>2
<1>4. ASSUME NEW key \in Keys, InsertAlert(key)
      PROVE  ClosedInOrder'
  <2>1. /\ nextId \in Ids /\ UNCHANGED <<tables, acted, script>>
        /\ alerts'[nextId].status = "open"
        /\ \A id \in Ids : id # nextId => alerts'[id] = alerts[id]
    BY <1>4 DEF InsertAlert, DatabaseTypeOK
  <2>2. ~Closed(nextId)
    <3>1. ~Present(nextId)
      BY <2>1 DEF IdsInOrder, Ids
    <3> QED
      BY <3>1 DEF Present
  <2>3. \A id \in Ids : Closed(id)' <=> Closed(id)
    BY <2>1, <2>2
  <2> QED
    BY <1>0, <2>1, <2>3 DEF ClosedInOrder, ClosedHasAction
<1>5. ASSUME NEW id \in Ids, NEW born \in Nat, NEW read \in Nat, ClassifyAlert(id, born, read)
      PROVE  ClosedInOrder'
  <2>1. Both /\ UNCHANGED <<tables, script>>
    BY <1>5 DEF ClassifyAlert
  <2>2. script # 7
    BY <2>1 DEF ScriptOrder
  <2>3. \A i \in Ids : i # id => alerts'[i] = alerts[i]
    BY <1>5 DEF ClassifyAlert, DatabaseTypeOK
  <2>4. Closed(id)'
    <3>1. alerts[id] \in [born : Nat, status : {"open", "closed"}, key : Keys]
      BY <1>5 DEF ClassifyAlert, DatabaseTypeOK, NoRow
    <3>2. alerts'[id] = [alerts[id] EXCEPT !.status = "closed"]
      BY <1>5 DEF ClassifyAlert, DatabaseTypeOK
    <3> QED
      BY <3>1, <3>2
  <2>5. PICK new : new = RowAbout(id, born, read) /\ new.alert = id
    BY RowAboutType
  <2>6. acted' = acted \cup {new}
    BY <1>5, <2>5 DEF ClassifyAlert
  <2>7. Agree
    BY <2>1 DEF ClosedInOrder, ClosedHasAction
  <2>8. Agree'
    BY <2>3, <2>4, <2>5, <2>6, <2>7 DEF Ids
  <2> QED
    BY <1>0, <2>1, <2>2, <2>8
<1>6. \/ \E id \in Ids, born, read \in Nat : StoreVector(id, born, read)
      \/ UNCHANGED <<databaseVars, script>>
      => UNCHANGED <<tables, alerts, acted, script>>
  BY DEF StoreVector, databaseVars, rowVars
<1>7. UNCHANGED <<tables, alerts, acted, script>> => ClosedInOrder'
  BY <1>0 DEF ClosedInOrder, ClosedHasAction
<1>8. CASE NewScript /\ UNCHANGED databaseVars
  BY <1>0, <1>8 DEF NewScript, databaseVars, rowVars, ClosedInOrder, ClosedHasAction
<1>9. CASE BootPurge
  <2>1. PICK gone \in SUBSET Ids : Purge(gone)
    BY <1>9 DEF BootPurge
  <2>2. ASSUME NEW id \in Ids
        PROVE  /\ Closed(id)' <=> Closed(id) /\ id \notin gone
               /\ Acted(id)' <=> Acted(id) /\ id \notin gone
    <3>1. alerts'[id] = IF id \in gone THEN NoRow ELSE alerts[id]
      BY <2>1 DEF Purge
    <3>2. acted' = {r \in acted : r.alert \notin gone}
      BY <2>1 DEF Purge, RowsKept
    <3> QED
      BY <3>1, <3>2 DEF NoRow
  <2>3. UNCHANGED <<tables, script>>
    BY <2>1 DEF Purge
  <2> QED
    BY <1>0, <2>2, <2>3 DEF ClosedInOrder, ClosedHasAction
<1> QED
  BY <1>1, <1>2, <1>3, <1>4, <1>5, <1>6, <1>7, <1>8, <1>9 DEF DatabaseStep

-----------------------------------------------------------------------------
(* Loads of the embedding model *)

Loading == {t \in Threads : thread[t] = "loading"}

(* While the model is None every load that was begun is still running;      *)
(* afterwards one has ended, and who has seen a model that is gone again    *)
(* owes it to a second load.                                                *)
LoadsCounted ==
    /\ loads <= Cardinality(Threads)
    /\ model = "None" => loads = Cardinality(Loading) /\ \A t \in Threads : thread[t] # "take"
    /\ model # "None" => loads >= Cardinality(Loading) + 1
    /\ (\E t \in Threads : thread[t] = "take") /\ model # "loaded" => loads > 1
    /\ raised => loads > 1

EmbeddingsInv ==
    /\ EmbeddingsTypeOK
    /\ ingested = [t \in Threads |-> ingested[t]]
    /\ LoadsCounted

EmbeddingsMove ==
    \/ EmbeddingsReset
    \/ \E t \in Threads : \/ \E alert : BeginEmbedding(t, alert)
                          \/ EmbeddingStep(t)
                          \/ StoreReturns(t)
    \/ UNCHANGED embeddingVars

LEMMA LoadingFinite ==
    /\ IsFiniteSet(Loading) /\ Cardinality(Loading) \in Nat
    /\ Cardinality(Loading) <= Cardinality(Threads) /\ Cardinality(Threads) \in Nat
<1>1. Loading \subseteq Threads
  BY DEF Loading
<1> QED
  BY <1>1, ThreadsAreFinite, FS_Subset, FS_CardinalityType

LEMMA LoadingMoves ==
    ASSUME EmbeddingsTypeOK, NEW t \in Threads, NEW step, thread' = [thread EXCEPT ![t] = step]
    PROVE  /\ thread[t] # "loading" /\ step # "loading" =>
                Cardinality(Loading') = Cardinality(Loading)
           /\ thread[t] # "loading" /\ step = "loading" =>
                /\ Cardinality(Loading') = Cardinality(Loading) + 1
                /\ Cardinality(Loading') <= Cardinality(Threads)
           /\ thread[t] = "loading" /\ step # "loading" =>
                Cardinality(Loading) = Cardinality(Loading') + 1
           /\ Cardinality(Loading') \in Nat
<1>1. \A u \in Threads : thread'[u] = IF u = t THEN step ELSE thread[u]
  BY DEF EmbeddingsTypeOK
<1>2. Loading' \subseteq Threads
  BY DEF Loading
<1>3. /\ IsFiniteSet(Loading') /\ Cardinality(Loading') \in Nat
      /\ Cardinality(Loading') <= Cardinality(Threads)
  BY <1>2, ThreadsAreFinite, FS_Subset, FS_CardinalityType
<1>4. ASSUME thread[t] # "loading", step # "loading"
      PROVE  Cardinality(Loading') = Cardinality(Loading)
  <2>1. Loading' = Loading
    BY <1>1, <1>4 DEF Loading
  <2> QED
    BY <2>1
<1>5. ASSUME thread[t] # "loading", step = "loading"
      PROVE  Cardinality(Loading') = Cardinality(Loading) + 1
  <2>1. Loading' = Loading \cup {t} /\ t \notin Loading
    BY <1>1, <1>5 DEF Loading
  <2>2. Cardinality(Loading \cup {t}) = Cardinality(Loading) + 1
    BY <2>1, LoadingFinite, FS_AddElement
  <2> QED
    BY <2>1, <2>2
<1>6. ASSUME thread[t] = "loading", step # "loading"
      PROVE  Cardinality(Loading) = Cardinality(Loading') + 1
  <2>1. Loading = Loading' \cup {t} /\ t \notin Loading'
    BY <1>1, <1>6 DEF Loading
  <2>2. Cardinality(Loading' \cup {t}) = Cardinality(Loading') + 1
    BY <1>3, <2>1, FS_AddElement
  <2> QED
    BY <2>1, <2>2
<1> QED
  BY <1>3, <1>4, <1>5, <1>6

LEMMA EmbeddingsInvStep ==
    ASSUME EmbeddingsInv, EmbeddingsMove
    PROVE  EmbeddingsInv'
<1> USE DEF EmbeddingsInv
<1>1. loads \in Nat /\ Cardinality(Loading) \in Nat /\ Cardinality(Threads) \in Nat
  BY LoadingFinite DEF EmbeddingsTypeOK
<1>2. CASE EmbeddingsReset
  <2>1. Loading' = {}
    BY <1>2 DEF EmbeddingsReset, Loading
  <2>2. Cardinality(Loading') = 0
    BY <2>1, FS_EmptySet
  <2>3. LoadsCounted'
    BY <1>1, <1>2, <2>2 DEF EmbeddingsReset, LoadsCounted
  <2>4. EmbeddingsTypeOK'
    BY <1>2 DEF EmbeddingsReset, EmbeddingsTypeOK, Models, ThreadSteps
  <2>5. ingested' = [t \in Threads |-> ingested'[t]]
    BY <1>2 DEF EmbeddingsReset
  <2> QED
    BY <2>3, <2>4, <2>5
<1>3. ASSUME NEW t \in Threads, NEW step \in ThreadSteps, thread' = [thread EXCEPT ![t] = step],
             \/ ingested' = ingested
             \/ \E alert : ingested' = [ingested EXCEPT ![t] = alert]
      PROVE  /\ thread' \in [Threads -> ThreadSteps]
             /\ ingested' = [u \in Threads |-> ingested'[u]]
             /\ \A u \in Threads : thread'[u] = IF u = t THEN step ELSE thread[u]
  <2>1. thread' \in [Threads -> ThreadSteps]
    BY <1>3 DEF EmbeddingsTypeOK
  <2>2. ingested' = [u \in Threads |-> ingested'[u]]
    <3>1. CASE ingested' = ingested
      BY <3>1
    <3>2. ASSUME NEW alert, ingested' = [ingested EXCEPT ![t] = alert]
          PROVE  ingested' = [u \in Threads |-> ingested'[u]]
      BY <3>2
    <3> QED
      BY <1>3, <3>1, <3>2
  <2>3. \A u \in Threads : thread'[u] = IF u = t THEN step ELSE thread[u]
    BY <1>3 DEF EmbeddingsTypeOK
  <2> QED
    BY <2>1, <2>2, <2>3
<1>4. ASSUME NEW t \in Threads, GetModel(t), model = "None"
      PROVE  EmbeddingsInv'
  <2>1. /\ thread[t] = "get" /\ thread' = [thread EXCEPT ![t] = "loading"]
        /\ loads' = loads + 1 /\ UNCHANGED <<model, raised, ingested>>
    BY <1>4 DEF GetModel, Moves
  <2>2. /\ Cardinality(Loading') = Cardinality(Loading) + 1
        /\ Cardinality(Loading') <= Cardinality(Threads)
    BY <2>1, LoadingMoves
  <2>3. /\ thread' \in [Threads -> ThreadSteps]
        /\ ingested' = [u \in Threads |-> ingested'[u]]
        /\ \A u \in Threads : thread'[u] = IF u = t THEN "loading" ELSE thread[u]
    BY <1>3, <2>1 DEF ThreadSteps
  <2> QED
    BY <1>1, <1>4, <2>1, <2>2, <2>3 DEF EmbeddingsTypeOK, LoadsCounted
<1>5. ASSUME NEW t \in Threads, ModelLoaded(t) \/ LoadFails(t)
      PROVE  EmbeddingsInv'
  <2>1. /\ thread[t] = "loading" /\ thread' = [thread EXCEPT ![t] = "check"]
        /\ model' \in {"loaded", "unavailable"}
        /\ UNCHANGED <<loads, raised, ingested>>
    BY <1>5 DEF ModelLoaded, LoadFails, Moves
  <2>2. Cardinality(Loading) = Cardinality(Loading') + 1 /\ Cardinality(Loading') \in Nat
    <3>1. PICK step : step = "check"
      OBVIOUS
    <3>2. thread' = [thread EXCEPT ![t] = step] /\ step # "loading"
      BY <2>1, <3>1
    <3> QED
      BY <2>1, <3>2, LoadingMoves
  <2>3. /\ thread' \in [Threads -> ThreadSteps]
        /\ ingested' = [u \in Threads |-> ingested'[u]]
        /\ \A u \in Threads : thread'[u] = IF u = t THEN "check" ELSE thread[u]
    BY <1>3, <2>1 DEF ThreadSteps
  <2> QED
    BY <1>1, <2>1, <2>2, <2>3 DEF EmbeddingsTypeOK, LoadsCounted, Models
<1>6. ASSUME NEW t \in Threads,
             \/ \E alert : BeginEmbedding(t, alert)
             \/ GetModel(t) /\ model # "None"
             \/ CheckModel(t) \/ TakeModel(t) \/ SentinelRaises(t) \/ StoreReturns(t)
             \/ PublishAlert(t)
      PROVE  EmbeddingsInv'
  <2>1. PICK step \in ThreadSteps :
          /\ thread' = [thread EXCEPT ![t] = step]
          /\ step # "loading" /\ thread[t] # "loading"
          /\ step = "take" => model = "loaded"
    BY <1>6
    DEF BeginEmbedding, GetModel, CheckModel, TakeModel, SentinelRaises, StoreReturns,
        PublishAlert, Moves, ForgetAlert, ThreadSteps
  <2>2. \/ ingested' = ingested
        \/ \E alert : ingested' = [ingested EXCEPT ![t] = alert]
    BY <1>6
    DEF BeginEmbedding, GetModel, CheckModel, TakeModel, SentinelRaises, StoreReturns,
        PublishAlert, Moves, ForgetAlert
  <2>3. /\ UNCHANGED <<model, loads>>
        /\ raised' \in BOOLEAN
        /\ raised' => raised \/ (thread[t] = "take" /\ model # "loaded")
    <3>1. CASE SentinelRaises(t)
      BY <3>1 DEF SentinelRaises
    <3>2. CASE GetModel(t) /\ model # "None"
      BY <3>2 DEF GetModel, EmbeddingsTypeOK
    <3>3. CASE \/ \E alert : BeginEmbedding(t, alert)
               \/ CheckModel(t) \/ TakeModel(t) \/ StoreReturns(t) \/ PublishAlert(t)
      BY <3>3
      DEF BeginEmbedding, CheckModel, TakeModel, StoreReturns, PublishAlert, EmbeddingsTypeOK
    <3> QED
      BY <1>6, <3>1, <3>2, <3>3
  <2>4. Cardinality(Loading') = Cardinality(Loading)
    BY <2>1, LoadingMoves
  <2>5. /\ thread' \in [Threads -> ThreadSteps]
        /\ ingested' = [u \in Threads |-> ingested'[u]]
        /\ \A u \in Threads : thread'[u] = IF u = t THEN step ELSE thread[u]
    BY <1>3, <2>1, <2>2
  <2>6. LoadsCounted'
    BY <1>1, <2>1, <2>3, <2>4, <2>5 DEF LoadsCounted
  <2> QED
    BY <2>3, <2>5, <2>6 DEF EmbeddingsTypeOK
<1>7. UNCHANGED embeddingVars => EmbeddingsInv'
  BY DEF embeddingVars, EmbeddingsTypeOK, LoadsCounted, Loading
<1> QED
  BY <1>2, <1>4, <1>5, <1>6, <1>7 DEF EmbeddingsMove, EmbeddingStep

-----------------------------------------------------------------------------
(* Accounts *)

(* _create_in_local says True only to who has the account, or had it until  *)
(* its table was dropped; exit code 0 repeats it.                           *)
AccountsInv ==
    /\ AccountsTypeOK
    /\ \A o \in Operators :
         /\ localOk[o] = "True" => account["local"] = o \/ o \in lost
         /\ rc[o] = 0 => localOk[o] = "True" /\ cli[o] = "ended"

AccountsMove ==
    \/ \E o \in Operators : CreateUser(o) \/ \E users : AccountsStep(o, users)
    \/ DropAccounts
    \/ UNCHANGED accountsVars

LEMMA AccountsInvStep ==
    ASSUME AccountsInv, AccountsMove
    PROVE  AccountsInv'
<1> USE DEF AccountsInv, AccountsTypeOK
<1>1. ASSUME NEW o \in Operators, CreateUser(o) \/ DockerExec(o) \/ InnerCheck(o)
      PROVE  AccountsInv'
  BY <1>1 DEF CreateUser, DockerExec, InnerCheck, CliSteps
<1>2. ASSUME NEW o \in Operators, NEW users, LocalFails(o) \/ LocalCheck(o, users) \/ LocalDuplicate(o)
      PROVE  AccountsInv'
  <2>1. ASSUME NEW result \in {"False", "None"}, LocalReturns(o, result), account' = account,
               cli[o] # "ended"
        PROVE  AccountsInv'
    <3>1. /\ localOk' \in [Operators -> {"none", "True", "False", "None"}]
          /\ \A p \in Operators : localOk'[p] = "True" => localOk[p] = "True" /\ p # o
          /\ \A p \in Operators : p # o => localOk'[p] = localOk[p]
      BY <2>1 DEF LocalReturns
    <3>2. cli' \in [Operators -> CliSteps]
      BY <2>1 DEF LocalReturns, CliSteps
    <3>3. UNCHANGED <<account, inner, rc, lost>>
      BY <2>1 DEF LocalReturns
    <3>4. \A p \in Operators : p # o => cli'[p] = cli[p]
      BY <2>1 DEF LocalReturns
    <3>5. rc[o] # 0
      BY <2>1
    <3> QED
      BY <3>1, <3>2, <3>3, <3>4, <3>5
  <2>2. CASE LocalFails(o) \/ LocalDuplicate(o)
    BY <2>1, <2>2 DEF LocalFails, LocalDuplicate
  <2>3. CASE LocalCheck(o, users) /\ account["local"] # NoAccount
    BY <2>1, <2>3 DEF LocalCheck
  <2>4. CASE LocalCheck(o, users) /\ account["local"] = NoAccount
    BY <2>4 DEF LocalCheck, CliSteps
  <2> QED
    BY <1>2, <2>2, <2>3, <2>4
<1>3. ASSUME NEW o \in Operators, NEW users, LocalInsert(o, users)
      PROVE  AccountsInv'
  BY <1>3, NoAccountIsNoOperator DEF LocalInsert, LocalReturns, CliSteps, Databases
<1>4. ASSUME NEW o \in Operators, NoDockerCommand(o) \/ DockerNotRunning(o) \/ InnerRaises(o)
      PROVE  AccountsInv'
  BY <1>4
  DEF NoDockerCommand, DockerNotRunning, InnerRaises, Exit, ExitCode, CliSteps, NoCode
<1>5. ASSUME NEW o \in Operators, InnerInsert(o)
      PROVE  AccountsInv'
  BY <1>5 DEF InnerInsert, CliSteps, Databases
<1>6. ASSUME DropAccounts
      PROVE  AccountsInv'
  BY <1>6 DEF DropAccounts, Databases
<1>7. UNCHANGED accountsVars => AccountsInv'
  BY DEF accountsVars
<1> QED
  BY <1>1, <1>2, <1>3, <1>4, <1>5, <1>6, <1>7 DEF AccountsMove, AccountsStep

-----------------------------------------------------------------------------
(* The deployment: every step is one of each part *)

ProcessTypeOK ==
    /\ setting \in settings /\ settings \subseteq Settings \cup {Unset}
    /\ web \in {"down", "seeding", "importing", "up"}
    /\ webKey \in Keys /\ goUp \in BOOLEAN /\ goKey \in Keys
    /\ shown \in [Ids -> Nat] /\ shownEpoch \in Nat
    /\ acts \in 0..MaxActs

DeploymentInv ==
    /\ DatabaseInv /\ RowsMeet /\ ClosedInOrder
    /\ EmbeddingsInv /\ AccountsInv /\ ProcessTypeOK /\ ReadersMeet

LEMMA DatabasePart ==
    ASSUME DeploymentInv, [Next]_vars
    PROVE  KnowingStep
<1> USE DEF DeploymentInv
<1>1. \/ StartContainer \/ ContainerSeedFails \/ StartApp \/ Stop \/ StartGo \/ ChangeSetting
      \/ LoadPage \/ Quiet \/ UNCHANGED vars
      \/ \E t \in Threads : ThreadStep(t)
      \/ Administer
      => UNCHANGED <<databaseVars, script>>
  BY DEF StartContainer, ContainerSeedFails, StartApp, Stop, StartGo, ChangeSetting, LoadPage,
         Quiet, vars, ThreadStep, Administer, RunManage, ManageStep
<1>2. ContainerSeeds \/ SeedByHand => Seed
  BY DEF ContainerSeeds, SeedByHand
<1>3. StartPsql \/ PsqlInterrupted => NewScript /\ UNCHANGED databaseVars
  BY DEF StartPsql, PsqlInterrupted, ApplySchema, Interrupt, NewScript
<1>4. PsqlStatement => DropAt \/ CreateAt
  BY StatementAt DEF PsqlStatement
<1>5. GoIngest \/ (\E t \in Threads : Ingest(t)) => \E key \in Keys : InsertAlert(key)
  BY DEF GoIngest, Ingest, ProcessTypeOK
<1>6. ASSUME Click
      PROVE  \E id \in Ids, born, read \in Nat : WrittenBy(id, born, read)
  <2>1. PICK id \in Ids : shown[id] # 0 /\ ClassifyAlert(id, shown[id], shownEpoch)
    BY <1>6 DEF Click
  <2>2. shown[id] \in Nat /\ shownEpoch \in Nat
    BY DEF ProcessTypeOK
  <2>3. Meets(id, shown[id], shownEpoch)
    BY <2>1 DEF ReadersMeet
  <2> QED
    BY <2>1, <2>2, <2>3 DEF WrittenBy
<1>7. ASSUME NEW t \in Threads, StoreEmbedding(t)
      PROVE  \E id \in Ids, born, read \in Nat : WrittenBy(id, born, read)
  <2>1. thread[t] # "idle" /\ StoreVector(ingested[t].id, ingested[t].born, ingested[t].epoch)
    BY <1>7 DEF StoreEmbedding, StoreReturns
  <2> QED
    BY <2>1 DEF ReadersMeet, WrittenBy
<1>8. Serve \/ WorkerBoots => BootPurge
  BY DEF Serve, WorkerBoots
<1> QED
  BY <1>1, <1>2, <1>3, <1>4, <1>5, <1>6, <1>7, <1>8 DEF Next, Operate, Use, KnowingStep

LEMMA EmbeddingsPart ==
    ASSUME [Next]_vars
    PROVE  EmbeddingsMove
<1>1. \/ StartContainer \/ ContainerSeeds \/ ContainerSeedFails \/ StartApp \/ WorkerBoots
      \/ StartGo \/ ChangeSetting \/ StartPsql \/ PsqlStatement \/ PsqlInterrupted \/ SeedByHand
      \/ GoIngest \/ LoadPage \/ Click \/ Quiet \/ UNCHANGED vars \/ Administer
      => UNCHANGED embeddingVars
  BY DEF StartContainer, ContainerSeeds, ContainerSeedFails, StartApp, WorkerBoots, StartGo,
         ChangeSetting, StartPsql, PsqlStatement, PsqlInterrupted, SeedByHand, GoIngest,
         LoadPage, Click, Quiet, vars, Administer, RunManage, ManageStep
<1>2. Serve \/ Stop => EmbeddingsReset
  BY DEF Serve, Stop
<1>3. ASSUME NEW t \in Threads, Ingest(t) \/ StoreEmbedding(t) \/ ThreadStep(t)
      PROVE  \/ \E alert : BeginEmbedding(t, alert)
             \/ EmbeddingStep(t) \/ StoreReturns(t)
  BY <1>3 DEF Ingest, StoreEmbedding, ThreadStep
<1> QED
  BY <1>1, <1>2, <1>3 DEF Next, Operate, Use, EmbeddingsMove

LEMMA AccountsPart ==
    ASSUME [Next]_vars
    PROVE  AccountsMove
<1>1. Operate /\ ~PsqlStatement => UNCHANGED accountsVars
  BY DEF Operate, StartContainer, ContainerSeeds, ContainerSeedFails, StartApp, Serve,
         WorkerBoots, Stop, StartGo, ChangeSetting, StartPsql, PsqlInterrupted, SeedByHand
<1>2. PsqlStatement => DropAccounts \/ UNCHANGED accountsVars
  BY DEF PsqlStatement
<1>3. Use \/ Quiet \/ UNCHANGED vars => UNCHANGED accountsVars
  BY DEF Use, GoIngest, LoadPage, Click, Ingest, StoreEmbedding, ThreadStep, Quiet, vars
<1>4. Administer => AccountsMove
  BY DEF Administer, RunManage, ManageStep, AccountsMove
<1> QED
  BY <1>1, <1>2, <1>3, <1>4 DEF Next, AccountsMove

LEMMA KeysAreKeys ==
    ASSUME NEW s \in Settings \cup {Unset}
    PROVE  FlaskKey(s) \in Keys /\ GoKey(s) \in Keys /\ NoKey \in Keys
BY DEF FlaskKey, GoKey, Keys, NoKey

LEMMA ProcessTypeStep ==
    ASSUME DeploymentInv, [Next]_vars
    PROVE  ProcessTypeOK'
<1> USE DEF DeploymentInv, ProcessTypeOK
<1>0. setting \in Settings \cup {Unset}
  OBVIOUS
<1>1. acts' \in 0..MaxActs
  <2>1. acts' = acts \/ Act
    BY DEF Next, Operate, Use, Administer, StartContainer, ContainerSeeds, ContainerSeedFails,
           StartApp, Serve, WorkerBoots, Stop, StartGo, ChangeSetting, StartPsql, PsqlStatement, PsqlInterrupted,
           SeedByHand, GoIngest, LoadPage, Click, Ingest, StoreEmbedding, ThreadStep, RunManage,
           ManageStep, Quiet, vars
  <2> QED
    BY <2>1, ActsBounded DEF Act
<1>2. CASE UNCHANGED processVars
  <2>1. shown' \in [Ids -> Nat] /\ shownEpoch' \in Nat
    <3>1. UNCHANGED pageVars \/ LoadPage
      BY DEF Next, Operate, Use, Administer, StartContainer, ContainerSeeds, ContainerSeedFails,
             StartApp, Serve, WorkerBoots, Stop, StartGo, ChangeSetting, StartPsql, PsqlStatement, PsqlInterrupted,
             SeedByHand, GoIngest, Click, Ingest, StoreEmbedding, ThreadStep, RunManage,
             ManageStep, Quiet, vars
    <3>2. CASE LoadPage
      <4>1. \A id \in Ids : alerts[id].born \in Nat
        BY DEF DatabaseInv, DatabaseTypeOK, NoRow
      <4>2. epoch \in Nat
        BY DEF DatabaseInv, DatabaseTypeOK
      <4> QED
        BY <3>2, <4>1, <4>2 DEF LoadPage
    <3> QED
      BY <3>1, <3>2 DEF pageVars
  <2> QED
    BY <1>1, <1>2, <2>1 DEF processVars, Keys, NoKey, Ids
<1>3. CASE UNCHANGED pageVars /\ ~UNCHANGED processVars
  <2>1. /\ setting' \in settings' /\ settings' \subseteq Settings \cup {Unset}
        /\ web' \in {"down", "seeding", "importing", "up"} /\ goUp' \in BOOLEAN
        /\ webKey' \in {webKey, FlaskKey(setting)} /\ goKey' \in {goKey, GoKey(setting)}
    <3>1. StartContainer \/ ContainerSeedFails \/ ContainerSeeds \/ StartApp \/ Serve \/ Stop
          \/ StartGo \/ ChangeSetting
      BY <1>3
      DEF Next, Operate, Use, Administer, WorkerBoots, StartPsql, PsqlStatement, PsqlInterrupted, SeedByHand,
          GoIngest, LoadPage, Click, Ingest, StoreEmbedding, ThreadStep, RunManage, ManageStep,
          Quiet, vars
    <3> QED
      BY <3>1
      DEF StartContainer, ContainerSeedFails, ContainerSeeds, StartApp, Serve, Stop, StartGo,
          ChangeSetting, processVars
  <2>2. webKey' \in Keys /\ goKey' \in Keys
    BY <1>0, <2>1, KeysAreKeys
  <2> QED
    BY <1>1, <1>3, <2>1, <2>2 DEF pageVars, Keys, NoKey, Ids
<1>4. UNCHANGED processVars \/ UNCHANGED pageVars
  BY DEF Next, Operate, Use, Administer, StartContainer, ContainerSeeds, ContainerSeedFails,
         StartApp, Serve, WorkerBoots, Stop, StartGo, ChangeSetting, StartPsql, PsqlStatement, PsqlInterrupted,
         SeedByHand, GoIngest, LoadPage, Click, Ingest, StoreEmbedding, ThreadStep, RunManage,
         ManageStep, Quiet, vars
<1> QED
  BY <1>2, <1>3, <1>4

(* The page and the threads keep ids that meet. *)
LEMMA ReadersMeetStep ==
    ASSUME DeploymentInv, [Next]_vars
    PROVE  ReadersMeet'
<1> USE DEF DeploymentInv
<1>1. DatabaseStep
  BY DatabasePart, KnowingIsDatabase
<1>2. \A id \in Ids, born, read \in Nat : Meets(id, born, read) => Meets(id, born, read)'
  BY <1>1, MeetsStays
<1>3. ASSUME NEW id \in Ids, shown'[id] # 0
      PROVE  Meets(id, shown[id], shownEpoch)'
  <2>1. CASE UNCHANGED pageVars
    <3>1. PICK born \in Nat, read \in Nat : born = shown[id] /\ read = shownEpoch
      BY DEF ProcessTypeOK
    <3>2. Meets(id, born, read)'
      BY <1>2, <1>3, <2>1, <3>1 DEF pageVars, ReadersMeet
    <3> QED
      BY <2>1, <3>1, <3>2 DEF pageVars, Meets
  <2>2. CASE LoadPage
    <3>1. /\ shown'[id] = alerts[id].born /\ shownEpoch' = epoch
          /\ UNCHANGED <<alerts, nextId, epoch, tables>>
      BY <2>2 DEF LoadPage, databaseVars, rowVars
    <3>2. epoch \in Nat
      BY DEF DatabaseInv, DatabaseTypeOK
    <3>3. Present(id)
      BY <1>3, <3>1 DEF DatabaseInv, DatabaseTypeOK, Present, NoRow
    <3>4. id < nextId
      BY <3>3 DEF DatabaseInv, IdsInOrder
    <3> QED
      BY <1>3, <3>1, <3>2, <3>4 DEF Meets
  <2>3. UNCHANGED pageVars \/ LoadPage
    BY DEF Next, Operate, Use, Administer, StartContainer, ContainerSeeds, ContainerSeedFails,
           StartApp, Serve, WorkerBoots, Stop, StartGo, ChangeSetting, StartPsql, PsqlStatement, PsqlInterrupted,
           SeedByHand, GoIngest, Click, Ingest, StoreEmbedding, ThreadStep, RunManage,
           ManageStep, Quiet, vars
  <2> QED
    BY <2>1, <2>2, <2>3
<1> DEFINE Knows(t) ==
        /\ ingested[t].id \in Ids /\ ingested[t].born \in Nat /\ ingested[t].epoch \in Nat
        /\ Meets(ingested[t].id, ingested[t].born, ingested[t].epoch)
<1>4. ASSUME NEW t \in Threads, thread[t] # "idle", ingested'[t] = ingested[t]
      PROVE  Knows(t)'
  <2>1. PICK id \in Ids, born \in Nat, read \in Nat :
          id = ingested[t].id /\ born = ingested[t].born /\ read = ingested[t].epoch
    BY <1>4 DEF ReadersMeet
  <2>2. Meets(id, born, read)'
    BY <1>2, <1>4, <2>1 DEF ReadersMeet
  <2> QED
    BY <1>4, <2>1, <2>2 DEF Meets, Ids
<1>5. ASSUME NEW t \in Threads, Ingest(t)
      PROVE  Knows(t)'
  <2>1. /\ ingested'[t] = [id |-> nextId, born |-> births + 1, epoch |-> epoch]
        /\ InsertAlert(webKey)
    BY <1>5 DEF Ingest, BeginEmbedding, EmbeddingsInv
  <2>2. nextId \in Ids /\ births \in Nat /\ epoch \in Nat
    BY <2>1 DEF InsertAlert, DatabaseInv, DatabaseTypeOK
  <2>3. /\ alerts'[nextId].born = births + 1 /\ epoch' = epoch
        /\ nextId < nextId'
    BY <2>1, <2>2 DEF InsertAlert, DatabaseInv, DatabaseTypeOK, Ids
  <2>4. PICK id, born : id = nextId /\ born = births + 1
    OBVIOUS
  <2>5. Meets(id, born, epoch)'
    BY <2>2, <2>3, <2>4 DEF Meets
  <2> QED
    BY <2>1, <2>2, <2>3, <2>4, <2>5 DEF Meets, Ids
<1>6. ASSUME NEW t \in Threads, thread'[t] # "idle"
      PROVE  Ingest(t) \/ (thread[t] # "idle" /\ ingested'[t] = ingested[t])
  <2>1. CASE UNCHANGED embeddingVars
    BY <1>6, <2>1 DEF embeddingVars
  <2>2. CASE EmbeddingsReset
    BY <1>6, <2>2 DEF EmbeddingsReset
  <2>3. ASSUME NEW u \in Threads, Ingest(u)
        PROVE  Ingest(t) \/ (thread[t] # "idle" /\ ingested'[t] = ingested[t])
    BY <1>6, <2>3 DEF Ingest, BeginEmbedding, EmbeddingsInv, EmbeddingsTypeOK
  <2>4. ASSUME NEW u \in Threads, EmbeddingStep(u) \/ StoreReturns(u)
        PROVE  thread[t] # "idle" /\ ingested'[t] = ingested[t]
    <3>1. thread[u] # "idle"
      BY <2>4
      DEF EmbeddingStep, GetModel, ModelLoaded, LoadFails, CheckModel, TakeModel,
          SentinelRaises, PublishAlert, StoreReturns
    <3>2. \/ ForgetAlert(u)
          \/ \E step : Moves(u, step)
      BY <2>4
      DEF EmbeddingStep, GetModel, ModelLoaded, LoadFails, CheckModel, TakeModel,
          SentinelRaises, PublishAlert, StoreReturns
    <3> QED
      BY <1>6, <3>1, <3>2 DEF ForgetAlert, Moves, EmbeddingsInv, EmbeddingsTypeOK
  <2>5. \/ UNCHANGED embeddingVars \/ EmbeddingsReset
        \/ \E u \in Threads : Ingest(u) \/ EmbeddingStep(u) \/ StoreReturns(u)
    <3>1. \/ StartContainer \/ ContainerSeeds \/ ContainerSeedFails \/ StartApp \/ WorkerBoots
          \/ StartGo \/ ChangeSetting \/ StartPsql \/ PsqlStatement \/ PsqlInterrupted \/ SeedByHand
          \/ GoIngest \/ LoadPage \/ Click \/ Quiet \/ UNCHANGED vars \/ Administer
          => UNCHANGED embeddingVars
      BY DEF StartContainer, ContainerSeeds, ContainerSeedFails, StartApp, WorkerBoots, StartGo,
             ChangeSetting, StartPsql, PsqlStatement, PsqlInterrupted, SeedByHand, GoIngest,
             LoadPage, Click, Quiet, vars, Administer, RunManage, ManageStep
    <3>2. Serve \/ Stop => EmbeddingsReset
      BY DEF Serve, Stop
    <3>3. \A u \in Threads : StoreEmbedding(u) \/ ThreadStep(u) => EmbeddingStep(u) \/ StoreReturns(u)
      BY DEF StoreEmbedding, ThreadStep
    <3> QED
      BY <3>1, <3>2, <3>3 DEF Next, Operate, Use
  <2> QED
    BY <2>1, <2>2, <2>3, <2>4, <2>5
<1>7. ASSUME NEW t \in Threads, thread'[t] # "idle"
      PROVE  Knows(t)'
  BY <1>4, <1>5, <1>6, <1>7
<1> QED
  BY <1>3, <1>7 DEF ReadersMeet, Ids

LEMMA DeploymentInitial ==
    ASSUME Init
    PROVE  DeploymentInv
<1> USE DEF Init
<1>1. DatabaseTypeOK
  <2>1. nextId \in 1..(MaxId + 1) /\ script \in 0..Len(Script)
    BY SeedFits, ScriptStatements DEF DatabaseInit
  <2>2. alerts \in [Ids -> AlertRow]
    BY NoRowsType DEF DatabaseInit
  <2> QED
    BY <2>1, <2>2 DEF DatabaseInit, DatabaseTypeOK, AlertRow
<1>2. ScriptOrder /\ RowsCurrent /\ RowsRefer
  BY DEF DatabaseInit, ScriptOrder, RowsCurrent, RowsRefer, Tables
<1>3. IdsInOrder /\ ClosedInOrder
  <2>1. \A id \in Ids : alerts[id].status = "absent"
    BY NoRowsType DEF DatabaseInit, NoRow
  <2> QED
    BY <2>1 DEF DatabaseInit, IdsInOrder, Present, ClosedInOrder, ClosedHasAction
<1>4. RowsMeet
  BY DEF DatabaseInit, RowsMeet
<1>5. EmbeddingsInv
  <2>1. Loading = {}
    BY DEF EmbeddingsInit, Loading
  <2>2. Cardinality(Loading) = 0
    BY <2>1, FS_EmptySet
  <2> QED
    BY <2>2, LoadingFinite
    DEF EmbeddingsInit, EmbeddingsInv, EmbeddingsTypeOK, Models, ThreadSteps, LoadsCounted
<1>6. AccountsInv
  <2>1. AccountsTypeOK
    BY DEF AccountsInit, AccountsTypeOK, CliSteps
  <2>2. \A o \in Operators : localOk[o] # "True" /\ rc[o] # 0
    BY DEF AccountsInit, NoCode
  <2> QED
    BY <2>1, <2>2 DEF AccountsInv
<1>7. ProcessTypeOK
  <2>1. NoKey \in Keys
    BY DEF Keys
  <2>2. shown \in [Ids -> Nat] /\ shownEpoch \in Nat /\ acts \in 0..MaxActs
    BY ActsBounded
  <2>3. setting \in settings /\ settings \subseteq Settings \cup {Unset}
    OBVIOUS
  <2>4. web = "down" /\ webKey \in Keys /\ goUp \in BOOLEAN /\ goKey \in Keys
    BY <2>1
  <2> QED
    BY <2>2, <2>3, <2>4 DEF ProcessTypeOK
<1>8. ReadersMeet
  BY DEF EmbeddingsInit, ReadersMeet
<1> QED
  BY <1>1, <1>2, <1>3, <1>4, <1>5, <1>6, <1>7, <1>8 DEF DeploymentInv, DatabaseInv

LEMMA DeploymentStep ==
    ASSUME DeploymentInv, [Next]_vars
    PROVE  DeploymentInv'
<1> USE DEF DeploymentInv
<1>1. KnowingStep /\ DatabaseStep
  BY DatabasePart, KnowingIsDatabase
<1>2. DatabaseInv' /\ RowsMeet' /\ ClosedInOrder'
  BY <1>1, DatabaseInvStep, RowsMeetStep, ClosedStep
<1>3. EmbeddingsInv' /\ AccountsInv'
  BY EmbeddingsPart, EmbeddingsInvStep, AccountsPart, AccountsInvStep
<1>4. ProcessTypeOK' /\ ReadersMeet'
  BY ProcessTypeStep, ReadersMeetStep
<1> QED
  BY <1>2, <1>3, <1>4

LEMMA DeploymentInvariant == Spec => []DeploymentInv
<1>1. Init => DeploymentInv
  BY DeploymentInitial
<1>2. DeploymentInv /\ [Next]_vars => DeploymentInv'
  BY DeploymentStep
<1> QED
  BY <1>1, <1>2, PTL DEF Spec

-----------------------------------------------------------------------------
(* The theorems *)

(* Every reachable state of a deployment is well typed: in particular the   *)
(* identity of alerts restarts within its range whatever part of schema.sql *)
(* psql got to.                                                             *)
THEOREM DeploymentTypeCorrect == Spec => []TypeOK
<1>1. DeploymentInv => TypeOK
  BY DEF DeploymentInv, DatabaseInv, EmbeddingsInv, AccountsInv, ProcessTypeOK, TypeOK
<1> QED
  BY <1>1, DeploymentInvariant, PTL

(* A row of analyst_actions or alert_embeddings, or of audit_log while it   *)
(* has its foreign key, is about the alert it was written for, and a row of *)
(* audit_log without the key about that alert or, once a purge has deleted  *)
(* it, about none: whatever is purged, seeded and applied again, wherever   *)
(* psql stops, unless the ids started again between the read of the id and  *)
(* the write.                                                               *)
THEOREM RowsBelongToTheirAlerts == Spec => []RowsMeetTheirAlerts
<1>1. DeploymentInv => RowsMeetTheirAlerts
  BY RowsMeetTheirs DEF DeploymentInv
<1> QED
  BY <1>1, DeploymentInvariant, PTL

(* While both tables exist an alert is closed exactly if it has an action,  *)
(* also between the two CREATE TABLEs of a schema that is applied to a      *)
(* dashboard in use.                                                        *)
THEOREM ClosedAlertsHaveActions == Spec => []ClosedHasAction
<1>1. DeploymentInv => ClosedHasAction
  BY DEF DeploymentInv, ClosedInOrder
<1> QED
  BY <1>1, DeploymentInvariant, PTL

(* _get_embedding_model without a lock loads at most once per thread, and   *)
(* embed() meets the sentinel only after loads that overlapped.             *)
THEOREM ModelLoadsBounded == Spec => []LoadsAreBounded
<1>1. DeploymentInv => LoadsAreBounded
  BY DEF DeploymentInv, EmbeddingsInv, LoadsCounted, LoadsAreBounded
<1> QED
  BY <1>1, DeploymentInvariant, PTL

(* manage.py create-user that exits with 0 has created the account, however *)
(* many operators run it at once.                                           *)
THEOREM ZeroMeansAccount == Spec => []ZeroMeansCreated
<1>1. DeploymentInv => ZeroMeansCreated
  BY DEF DeploymentInv, AccountsInv, ZeroMeansCreated
<1> QED
  BY <1>1, DeploymentInvariant, PTL

=============================================================================
