------------------------------ MODULE Lifecycle ------------------------------
(***************************************************************************)
(* The lives of the database: schema.sql applied by psql, statement by      *)
(* statement, seed.py, and the rows that the application writes between     *)
(* them.  The id sequences start again whenever alerts is created or        *)
(* truncated, so one id may belong to several alerts in turn.  `born` tells *)
(* them apart; it is no column.                                             *)
(*                                                                          *)
(* A handler is one step here (its statements are module Triage's); a       *)
(* handler that misses a table raises and changes nothing.                  *)
(***************************************************************************)
EXTENDS Integers, Sequences, FieldKeys

CONSTANTS
    MaxId,      \* bound on alerts.id
    SeedRows,   \* alerts seed.py inserts (50)
    SeedClosed  \* how many of them it closes (30)

ASSUME SeedFits == MaxId \in Nat /\ SeedRows \in 0..MaxId /\ SeedClosed \in 0..SeedRows

VARIABLES
    tables,    \* the tables that exist
    linked,    \* audit_log still has its foreign key to alerts
    alerts,    \* alerts by id: born, status, the key of its encrypted fields
    acted,     \* analyst_actions
    trail,     \* audit_log
    vectors,   \* alert_embeddings
    nextId,    \* alerts_id_seq
    births,    \* history: alerts inserted so far
    epoch,     \* history: how often the ids have started again
    script     \* the statement of schema.sql psql executes next, 0: none

rowVars == <<alerts, acted, trail, vectors, nextId, births, epoch>>
databaseVars == <<tables, linked, rowVars>>

Ids == 1..MaxId
Tables == {"users", "alerts", "analyst_actions", "audit_log", "alert_embeddings"}

NoRow == [born |-> 0, status |-> "absent", key |-> NoKey]
NoRows == [id \in Ids |-> NoRow]

Present(id) == alerts[id].status # "absent"

(* A row about alert `id`, meant for the alert born as number `born`, that  *)
(* was read in one epoch and is written in this one.                        *)
RowAbout(id, born, read) == [alert |-> id, meant |-> born, read |-> read, written |-> epoch]

(* initdb has applied the schema to an empty database. *)
DatabaseInit ==
    /\ tables = Tables
    /\ linked = TRUE
    /\ alerts = NoRows
    /\ acted = {}
    /\ trail = {}
    /\ vectors = {}
    /\ nextId = 1
    /\ births = 0
    /\ epoch = 0
    /\ script = 0

-----------------------------------------------------------------------------
(* schema.sql.  psql commits every statement and goes on after an error.    *)
Drop(table) == [op |-> "drop", table |-> table]
Create(table) == [op |-> "create", table |-> table]

(* Fault: alerts is created anew without having been dropped. *)
FaultKeepsAlerts ==
    <<Drop("alert_embeddings"), Drop("analyst_actions"), Drop("users"),
      Create("users"), Create("alerts"), Create("analyst_actions"),
      Create("audit_log"), Create("alert_embeddings")>>

(* Fault: alert_embeddings is kept, like audit_log. *)
FaultKeepsVectors ==
    <<Drop("analyst_actions"), Drop("alerts"), Drop("users"),
      Create("users"), Create("alerts"), Create("analyst_actions"),
      Create("audit_log"), Create("alert_embeddings")>>

Script ==
    <<Drop("alert_embeddings"), Drop("analyst_actions"), Drop("alerts"), Drop("users"),
      Create("users"), Create("alerts"), Create("analyst_actions"),
      Create("audit_log"), Create("alert_embeddings")>>

Statement == Script[script]

(* DROP ... CASCADE of alerts takes the foreign keys that refer to it.      *)
DropTable ==
    /\ Statement.op = "drop"
    /\ tables' = tables \ {Statement.table}
    /\ linked' = (linked /\ Statement.table # "alerts")
    /\ alerts' = IF Statement.table = "alerts" THEN NoRows ELSE alerts
    /\ acted' = IF Statement.table = "analyst_actions" THEN {} ELSE acted
    /\ vectors' = IF Statement.table = "alert_embeddings" THEN {} ELSE vectors
    /\ UNCHANGED <<trail, nextId, births, epoch>>

(* A table that exists stays as it is: IF NOT EXISTS, or an error. *)
CreateTable ==
    /\ Statement.op = "create"
    /\ IF Statement.table = "alerts" /\ "alerts" \notin tables
         THEN nextId' = 1 /\ epoch' = epoch + 1
         ELSE UNCHANGED <<nextId, epoch>>
    /\ linked' = (linked \/ (Statement.table = "audit_log" /\ "audit_log" \notin tables))
    /\ tables' = tables \cup {Statement.table}
    /\ UNCHANGED <<alerts, acted, trail, vectors, births>>

ExecuteStatement ==
    /\ script # 0
    /\ DropTable \/ CreateTable
    /\ script' = IF script = Len(Script) THEN 0 ELSE script + 1

(* psql is stopped, or loses its connection, between two statements. *)
Interrupt ==
    /\ script > 1
    /\ script' = 0
    /\ UNCHANGED databaseVars

ApplySchema ==
    /\ script = 0
    /\ script' = 1
    /\ UNCHANGED databaseVars

-----------------------------------------------------------------------------
(* seed.main: one transaction that holds an exclusive lock on the tables.   *)
(* TRUNCATE ... RESTART IDENTITY CASCADE reaches alert_embeddings, and      *)
(* audit_log while it has its foreign key.                                  *)
MaySeed == {"alerts", "analyst_actions"} \subseteq tables

SeedAlert(id) ==
    [born |-> births + id, status |-> IF id <= SeedClosed THEN "closed" ELSE "open",
     key |-> NoKey]

Seed ==
    /\ MaySeed
    /\ alerts' = [id \in Ids |-> IF id <= SeedRows THEN SeedAlert(id) ELSE NoRow]
    /\ acted' = {[alert |-> id, meant |-> births + id, read |-> epoch + 1,
                  written |-> epoch + 1] : id \in 1..SeedClosed}
    /\ trail' = IF linked THEN {} ELSE trail
    /\ vectors' = {}
    /\ nextId' = SeedRows + 1
    /\ births' = births + SeedRows
    /\ epoch' = epoch + 1
    /\ UNCHANGED <<tables, linked, script>>

-----------------------------------------------------------------------------
(* An ingest, by Flask or by the Go service. *)
InsertAlert(key) ==
    /\ "alerts" \in tables
    /\ nextId \in Ids
    /\ alerts' = [alerts EXCEPT ![nextId] =
                    [born |-> births + 1, status |-> "open", key |-> Encrypt(key)]]
    /\ nextId' = nextId + 1
    /\ births' = births + 1
    /\ UNCHANGED <<tables, linked, acted, trail, vectors, epoch, script>>

(* api_classify of alert `id`, by someone who means the alert born as       *)
(* number `born` and has read its id in epoch `read`.                       *)
ClassifyAlert(id, born, read) ==
    /\ {"alerts", "analyst_actions"} \subseteq tables
    /\ alerts[id].status = "open"
    /\ alerts' = [alerts EXCEPT ![id].status = "closed"]
    /\ acted' = acted \cup {RowAbout(id, born, read)}
    /\ trail' = trail \cup {RowAbout(id, born, read)}
    /\ UNCHANGED <<tables, linked, vectors, nextId, births, epoch, script>>

(* INSERT INTO alert_embeddings ... ON CONFLICT DO UPDATE; an error, for    *)
(* want of the table or of the alert, is caught.                            *)
StoreVector(id, born, read) ==
    /\ vectors' =
         IF {"alerts", "alert_embeddings"} \subseteq tables /\ Present(id)
           THEN {v \in vectors : v.alert # id} \cup {RowAbout(id, born, read)}
           ELSE vectors
    /\ UNCHANGED <<tables, linked, alerts, acted, trail, nextId, births, epoch, script>>

(* purge_old_alerts: DELETE FROM alerts takes the rows that refer to the    *)
(* alerts.  Which alerts are old is left open, there is no time here; a     *)
(* purge that is not configured, finds no table or fails deletes none.      *)
RowsKept(rows, gone) == {r \in rows : r.alert \notin gone}

Purge(gone) ==
    /\ \A id \in gone : Present(id)
    /\ alerts' = [id \in Ids |-> IF id \in gone THEN NoRow ELSE alerts[id]]
    /\ acted' = RowsKept(acted, gone)
    /\ vectors' = RowsKept(vectors, gone)
    /\ trail' = IF linked THEN RowsKept(trail, gone) ELSE trail
    /\ UNCHANGED <<tables, linked, nextId, births, epoch, script>>

-----------------------------------------------------------------------------
Rows == [alert : Ids, meant : Nat, read : Nat, written : Nat]

DatabaseTypeOK ==
    /\ tables \subseteq Tables
    /\ linked \in BOOLEAN
    /\ alerts \in [Ids -> [born : Nat, status : {"open", "closed"}, key : Keys] \cup {NoRow}]
    /\ acted \subseteq Rows /\ trail \subseteq Rows /\ vectors \subseteq Rows
    /\ nextId \in 1..(MaxId + 1)
    /\ births \in Nat /\ epoch \in Nat
    /\ script \in 0..Len(Script)

=============================================================================
