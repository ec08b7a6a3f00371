----------------------------- MODULE Deployment -----------------------------
(***************************************************************************)
(* One deployment over time: the database (Lifecycle), a Flask process with *)
(* its ingesting threads (Embeddings), the Go ingest service, a page that   *)
(* stays open, the operators who start, stop, seed, apply the schema and    *)
(* create accounts (Accounts), in any order the code allows.                *)
(*                                                                          *)
(* Bound of the model: MaxActs acts of people, detectors and schedulers;    *)
(* what an act has begun then runs, interleaved with everything else.       *)
(***************************************************************************)
EXTENDS Lifecycle, Embeddings, Accounts, FiniteSets

CONSTANT MaxActs

ASSUME ActsBounded == MaxActs \in Nat
ASSUME ThreadsAreFinite == IsFiniteSet(Threads)

VARIABLES
    setting,    \* DB_ENCRYPTION_KEY in the environment
    web,        \* the web process: down, seeding, importing app.py or up
    webKey,     \* FERNET of the process, from the environment it started in
    goUp,       \* the Go service is serving
    goKey,      \* its key
    shown,      \* the alerts a page shows, by id: born, 0 for none
    shownEpoch, \* history: the epoch in which it loaded them
    settings,   \* history: the values setting has had
    acts        \* acts so far

processVars == <<setting, settings, web, webKey, goUp, goKey>>
pageVars == <<shown, shownEpoch>>
vars == <<databaseVars, script, embeddingVars, accountsVars, processVars, pageVars, acts>>

Act == acts < MaxActs /\ acts' = acts + 1

-----------------------------------------------------------------------------
(* docker compose up: seed.py, and gunicorn if it succeeds. *)
StartContainer ==
    /\ Act
    /\ web = "down"
    /\ web' = "seeding"
    /\ webKey' = FlaskKey(setting)
    /\ UNCHANGED <<databaseVars, script, embeddingVars, accountsVars, setting, settings,
                   goUp, goKey, pageVars>>

ContainerSeeds ==
    /\ web = "seeding"
    /\ Seed
    /\ web' = "importing"
    /\ UNCHANGED <<embeddingVars, accountsVars, setting, settings, webKey, goUp, goKey,
                   pageVars, acts>>

(* seed.py rolls back and raises: no gunicorn. *)
ContainerSeedFails ==
    /\ web = "seeding"
    /\ web' = "down"
    /\ UNCHANGED <<databaseVars, script, embeddingVars, accountsVars, setting, settings, webKey,
                   goUp, goKey, pageVars, acts>>

(* python app.py, or gunicorn without the seed. *)
StartApp ==
    /\ Act
    /\ web = "down"
    /\ web' = "importing"
    /\ webKey' = FlaskKey(setting)
    /\ UNCHANGED <<databaseVars, script, embeddingVars, accountsVars, setting, settings,
                   goUp, goKey, pageVars>>

(* Importing app.py purges what is older than ALERT_RETENTION_DAYS. *)
BootPurge == \E gone \in SUBSET Ids : Purge(gone)

(* The import ends and the process serves. *)
Serve ==
    /\ web = "importing"
    /\ BootPurge
    /\ web' = "up"
    /\ EmbeddingsReset
    /\ UNCHANGED <<accountsVars, setting, settings, webKey, goUp, goKey, pageVars, acts>>

(* gunicorn replaces another of its workers, whose import purges again.     *)
WorkerBoots ==
    /\ Act
    /\ web = "up"
    /\ BootPurge
    /\ UNCHANGED <<embeddingVars, accountsVars, processVars, pageVars>>

Stop ==
    /\ Act
    /\ web \in {"importing", "up"}
    /\ web' = "down"
    /\ EmbeddingsReset
    /\ UNCHANGED <<databaseVars, script, accountsVars, setting, settings, webKey, goUp, goKey, pageVars>>

(* NewService. *)
StartGo ==
    /\ Act
    /\ ~goUp
    /\ MayStart(setting)
    /\ goUp' = TRUE
    /\ goKey' = GoKey(setting)
    /\ UNCHANGED <<databaseVars, script, embeddingVars, accountsVars, setting, settings, web, webKey,
                   pageVars>>

ChangeSetting ==
    /\ Act
    /\ setting' \in (Settings \cup {Unset}) \ {setting}
    /\ settings' = settings \cup {setting'}
    /\ UNCHANGED <<databaseVars, script, embeddingVars, accountsVars, web, webKey,
                   goUp, goKey, pageVars>>

(* psql soc_dashboard -f schema.sql, whatever else is running. *)
StartPsql ==
    /\ Act
    /\ ApplySchema
    /\ UNCHANGED <<embeddingVars, accountsVars, processVars, pageVars>>

(* The table users is dropped with its accounts. *)
PsqlStatement ==
    /\ ExecuteStatement
    /\ IF Statement = Drop("users") THEN DropAccounts ELSE UNCHANGED accountsVars
    /\ UNCHANGED <<embeddingVars, processVars, pageVars, acts>>

PsqlInterrupted ==
    /\ Interrupt
    /\ UNCHANGED <<embeddingVars, accountsVars, processVars, pageVars, acts>>

(* python seed.py by hand. *)
SeedByHand ==
    /\ Act
    /\ Seed
    /\ UNCHANGED <<embeddingVars, accountsVars, processVars, pageVars>>

-----------------------------------------------------------------------------
(* _insert_alert: the commit, and then the embedding in the same thread. *)
Ingest(t) ==
    /\ Act
    /\ web = "up"
    /\ InsertAlert(webKey)
    /\ BeginEmbedding(t, [id |-> nextId, born |-> births + 1, epoch |-> epoch])
    /\ UNCHANGED <<accountsVars, processVars, pageVars>>

StoreEmbedding(t) ==
    /\ StoreReturns(t)
    /\ StoreVector(ingested[t].id, ingested[t].born, ingested[t].epoch)
    /\ UNCHANGED <<accountsVars, processVars, pageVars, acts>>

ThreadStep(t) ==
    /\ EmbeddingStep(t)
    /\ UNCHANGED <<databaseVars, script, accountsVars, processVars, pageVars, acts>>

(* Service.Ingest; it stores no embedding. *)
GoIngest ==
    /\ Act
    /\ goUp
    /\ InsertAlert(goKey)
    /\ UNCHANGED <<embeddingVars, accountsVars, processVars, pageVars>>

(* A page shows the queue until it is refreshed. *)
LoadPage ==
    /\ Act
    /\ web = "up"
    /\ "alerts" \in tables
    /\ shown' = [id \in Ids |-> alerts[id].born]
    /\ shownEpoch' = epoch
    /\ UNCHANGED <<databaseVars, script, embeddingVars, accountsVars, processVars>>

(* The analyst classifies a row of the page: the request has the id only.   *)
Click ==
    /\ Act
    /\ web = "up"
    /\ \E id \in {i \in Ids : shown[i] # 0} : ClassifyAlert(id, shown[id], shownEpoch)
    /\ UNCHANGED <<embeddingVars, accountsVars, processVars, pageVars>>

-----------------------------------------------------------------------------
RunManage(o) ==
    /\ Act
    /\ CreateUser(o)
    /\ UNCHANGED <<databaseVars, script, embeddingVars, processVars, pageVars>>

ManageStep(o) ==
    /\ AccountsStep(o, "users" \in tables)
    /\ UNCHANGED <<databaseVars, script, embeddingVars, processVars, pageVars, acts>>

-----------------------------------------------------------------------------
Init ==
    /\ DatabaseInit
    /\ EmbeddingsInit
    /\ AccountsInit
    /\ setting \in Settings \cup {Unset}
    /\ settings = {setting}
    /\ web = "down"
    /\ webKey = NoKey
    /\ goUp = FALSE
    /\ goKey = NoKey
    /\ shown = [id \in Ids |-> 0]
    /\ shownEpoch = 0
    /\ acts = 0

Operate ==
    \/ StartContainer
    \/ ContainerSeeds
    \/ ContainerSeedFails
    \/ StartApp
    \/ Serve
    \/ WorkerBoots
    \/ Stop
    \/ StartGo
    \/ ChangeSetting
    \/ StartPsql
    \/ PsqlStatement
    \/ PsqlInterrupted
    \/ SeedByHand

Use ==
    \/ GoIngest
    \/ LoadPage
    \/ Click
    \/ \E t \in Threads : Ingest(t) \/ StoreEmbedding(t) \/ ThreadStep(t)

Administer == \E o \in Operators : RunManage(o) \/ ManageStep(o)

(* Everything that was begun has ended.  In any other state something can   *)
(* go on: no thread, command or script hangs.                               *)
Quiet ==
    /\ script = 0
    /\ web \in {"down", "up"}
    /\ \A t \in Threads : thread[t] = "idle"
    /\ \A o \in Operators : cli[o] \in {"idle", "ended"}
    /\ UNCHANGED vars

Next == Operate \/ Use \/ Administer \/ Quiet

Spec == Init /\ [][Next]_vars

-----------------------------------------------------------------------------
(* Properties *)

TypeOK ==
    /\ DatabaseTypeOK
    /\ EmbeddingsTypeOK
    /\ AccountsTypeOK
    /\ setting \in settings /\ settings \subseteq Settings \cup {Unset}
    /\ web \in {"down", "seeding", "importing", "up"}
    /\ webKey \in Keys /\ goUp \in BOOLEAN /\ goKey \in Keys
    /\ shown \in [Ids -> Nat] /\ shownEpoch \in Nat
    /\ acts \in 0..MaxActs

(* A row of analyst_actions or alert_embeddings is about the alert it was   *)
(* written for, through every seed, purge, re-applied or half-applied       *)
(* schema and embedding that is stored after its alert's transaction.  So   *)
(* is a row of audit_log as long as the table has its foreign key; without  *)
(* it, a row written since the ids last started may outlive its alert in a  *)
(* purge, and still never names another.  Excepted is the row whose writer  *)
(* learnt the id before the ids started again: the code writes it about     *)
(* whatever alert has the id by then.                                       *)
RowsMeetTheirAlerts ==
    /\ \A r \in acted \cup vectors :
         r.read = r.written => alerts[r.alert].born = r.meant
    /\ \A r \in trail : r.read = r.written =>
         /\ linked => alerts[r.alert].born = r.meant
         /\ "alerts" \in tables /\ r.written = epoch => alerts[r.alert].born \in {r.meant, 0}

(* The SLA and MTTR figures rest on it: an alert is closed exactly if it    *)
(* has an action, the demo rows included and whatever part of the schema    *)
(* has been applied again, while both tables exist.                         *)
ClosedHasAction ==
    {"alerts", "analyst_actions"} \subseteq tables =>
        \A id \in Ids :
            alerts[id].status = "closed" <=> \E r \in acted : r.alert = id

(* "subsequent calls skip the (potentially slow) download": however many    *)
(* alerts come in, a process loads the model at most once per thread that   *)
(* ingests, and the sentinel is taken for a model only when two threads     *)
(* loaded at the same time and one of them failed.                          *)
LoadsAreBounded ==
    /\ loads <= Cardinality(Threads)
    /\ raised => loads > 1

(* Exit code 0 of create-user means that the password opens the account in  *)
(* the local database until its users table is dropped; no other command    *)
(* has replaced it.  No more than one command is told so for each life of   *)
(* the table.                                                               *)
ZeroMeansCreated ==
    \A o \in Operators : rc[o] = 0 => account["local"] = o \/ o \in lost

(* internal/ingest/service.go: fields are encrypted "using the same key" as *)
(* Flask's.  With one setting from the start, whatever is stored reads as   *)
(* text in the dashboard.                                                   *)
FieldsAreReadable ==
    web = "up" /\ settings = {setting} =>
        \A id \in Ids : Present(id) => DecryptsToText(alerts[id].key, webKey)

=============================================================================
