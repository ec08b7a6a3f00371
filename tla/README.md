# A TLA+ model of the SOC dashboard

The dashboard is a Flask application over one PostgreSQL database, served by
three gunicorn workers. Alerts arrive over REST, through a Go microservice and
from a Kafka topic; analysts classify and annotate them in the browser; a
live-update channel tells open pages to refresh. This directory holds TLA+
modules of the parts whose behaviour depends on interleavings, failures and the
order of events, the TLC configurations that check them on small instances, and
proofs of their invariants, action properties and refinements for instances of
any size.

## 1. The system

| Component | State | Operations | Interacts with |
|---|---|---|---|
| Triage core (`src/app.py`, `src/schema.sql`) | tables `alerts`, `analyst_actions`, `audit_log` and their id sequences | ingest, classify, add a note, purge at worker start | calls the live-update channel after a commit; read by every query |
| Live updates, in process (`_sse_*`, `/api/stream`) | list of bounded queues, `_sse_lock`, one generator per open page | publish, subscribe, deliver, keepalive, unsubscribe | called by the ingest and classify handlers and the Kafka thread |
| Live updates over Redis (`REDIS_URL`) | a pub/sub channel | publish, subscribe, read with timeout | connects all workers and the Go service |
| Kafka ingest (`src/kafka/consumer.py`) | group offset, assignment, message in hand, `_stop` | poll, handle, skip, stop, close | calls `_insert_alert`; one thread per worker |
| Browser (`src/static/dashboard.js`) | rows shown, filters, fetches under way, event source | refresh on load, poll, event and click; classify | reads the query endpoints, listens to `/api/stream` |
| Queries (`/api/alerts`, `/api/stats`, `/audit`) | none; several statements per request | lists with pagination, counts, SLA, audit history | read the triage tables under READ COMMITTED |
| Semantic similarity | lazily loaded model with a failure sentinel, `alert_embeddings` | embed at ingest, query | runs between the commit and the publish of an ingest |
| Go ingest service | connection pool, optional Redis client, key | REST and gRPC ingest, start-up, shutdown | writes `alerts`, publishes to Redis |
| Field encryption | key in the environment | encrypt, decrypt | Flask and the Go service on the same columns |
| Schema and seed | which tables exist, which rows survive | drop and create, truncate and seed | runs at every start of the container |
| Accounts, sessions, `manage.py` | `users` in up to two databases | login, role check, create a user | guards the handlers |
| Conductor approval, navigator export | none | one external call; one formatted query | |

What is hard in it:

* **Concurrent transactions.** A handler is a READ COMMITTED transaction of
  several statements. The status is checked by a SELECT that takes no lock and
  changed by an UPDATE that goes by the id alone.
* **Start-up work against traffic.** Every booting worker purges old alerts,
  with a cascade, while other workers serve requests about them.
* **Effects after the commit.** The event is published after the transaction,
  by a step that may raise or be cut off by a crash.
* **A bounded queue per page**, filled under a lock and emptied without it.
* **Offsets committed in the background** while a message is being handled, and
  a partition that is taken from a thread which is still at work.
* **Ordering by the start of a transaction** instead of by its effect.
* **Refreshes that overlap.** A timer, an event and a click refresh a page
  independently, and the answers are shown in the order in which they arrive.
* **Workers kept by streams.** gunicorn's synchronous workers serve one request
  at a time; an open stream is one that does not end by itself.
* **Responses put together from several statements**, each of which sees another
  state of the tables, and lists whose pages are queries of their own.
* **Ids that start again.** The schema can be re-applied, half-way too, and the
  container re-seeds at every start, while rows, pages and threads outlive it.
* **One setting, two programs** that make different keys of it.

What makes each part correct, in a sentence: the audit trail explains the state
of an alert (triage); a page that stays subscribed hears every event once and in
order, and only a page that does not read is cut off (live updates); a consumed
message is a row or its loss has a known cause, and duplicates come from
handovers only (Kafka); an open page converges to the tables (browser); the
figures of one response fit together (queries); both services read each other's
rows (encryption); rows of one life of the schema never meet ids of the next
(schema and seed).

## 2. Modules

| Module | Contents |
|---|---|
| `AlertLedger` | abstract: alerts, actions and audit rows change together, one indivisible step per change |
| `Triage` | the handlers and the purge as transactions of concurrent workers; states that it implements `AlertLedger` |
| `MCTriage` + three cfgs | instances of `Triage` |
| `TriageProofs` | proofs about `Triage`: locks, rows, and the trail that explains the state of an alert |
| `TriageLedgerProofs` | more of `Triage`: the refinement of `AlertLedger`, actions against audit rows, one classification per worker, announcements |
| `Broadcast` | abstract: listeners hear a gapless prefix of the events since they joined |
| `SseHub` | the in-process hub with its lock, queues and generators; states that it implements `Broadcast` |
| `MCSseHub` + two cfgs | instances of `SseHub` |
| `SseHubProofs` | proofs about `SseHub`, the refinement included |
| `KafkaIngest` | the consumer threads, the group and the topic |
| `MCKafkaIngest` + two cfgs | instances of `KafkaIngest` |
| `KafkaIngestProofs` | proofs about `KafkaIngest` |
| `LiveQueue` | open pages, their requests to the workers and the events over Redis |
| `MCLiveQueue` + one cfg | instance of `LiveQueue` |
| `LiveQueueProofs` | proofs about `LiveQueue` |
| `Reads` | the handlers that only read, statement by statement, over tables that others change |
| `MCReads` + two cfgs | instances of `Reads` |
| `ReadsProofs` | proofs about single responses of `Reads`: envelope, statistics, navigator layer |
| `ReadsWalkProofs` | proofs about walks from page to page |
| `FieldKeys` | operators only: the two key derivations and what a reader makes of a stored value |
| `Lifecycle` | `schema.sql` under psql, `seed.py`, and the rows written between them |
| `Embeddings` | the lazily loaded model and the ingesting threads of one process |
| `Accounts` | `manage.py create-user` on two databases |
| `Deployment` | composes `Lifecycle`, `Embeddings` and `Accounts` with a Flask process, the Go service, a page and the operators |
| `MCDeployment` + two cfgs | instances of `Deployment` |
| `DeploymentProofs` | proofs about `Deployment` and its parts |

Operators named `Fault...` are not part of any specification. Each is a
plausible mistake in the definition that follows it, with the same parameters;
substituting it makes one of the properties fail, which shows that the property
depends on what the code does.

### Triage

`pc[w]` is the statement that worker `w` executes next and `tx[w]` what its open
transaction has read and written. The three table variables are what other
connections can see; they change at commits only. The code's steps are the
actions, in the order of the handlers:

| Code | Actions |
|---|---|
| `_insert_alert` | `IngestInsert`, `IngestCommit`, then `Publish` or `PublishRaises` |
| `api_classify` | `ClassifyReject` (404 and 409), or `ClassifySelect`, `ClassifyUpdate`, `ClassifyRecordAction`, `ClassifyRecordAudit`, `ClassifyCommit`, then `Publish` or `PublishRaises` |
| `api_add_note` | `NoteSelect`, `NoteInsert`, `NoteCommit` |
| `purge_old_alerts` at import | `BootWithoutPurge`, or `PurgeStart`, `PurgeRow` for each row, `PurgeCommit`, `PurgeSkipped` when it raises |
| an exception in a handler | `RequestFails`: rollback, the worker goes on |
| the process dies | `Crash`: rollback, a new worker boots |

Row locks are PostgreSQL's, not the code's, and are read off the statements
executed so far: an UPDATE excludes UPDATE and DELETE of the row, a foreign key
excludes its DELETE, and ids come from sequences that do not roll back.
`clock` is `now()` at the start of a transaction; that is what `created_at`
holds; `ingested` is the history of the alerts ever committed. The severity, texts,
response times and users of a row are left out: no property is about them. An expired row that the purge finds locked is
waited for, one that is gone is passed over; no handler changes `created_at`,
so the DELETE's condition cannot become false while it waits.

A Kafka thread and the Go service ingest with the same INSERT, so either may be
read as one more worker that only ingests.

### SseHub

Event *n* is the *n*-th to get the lock. `thread[p]` and the sets `todo` and
`dead` are the two loops of `_sse_publish`; the list is a set, since a queue is
in it at most once and no property depends on the order in which the loop visits
it. `stream[s]` is where the generator of one page is: before `_sse_subscribe`
(`opening`), in `q.get` (`waiting`), at a `yield` (`yielding`), in the `finally`
block (`leaving`). `received` and `joined` record what the page has heard since
it subscribed, `behind` how many published events had not been sent to it when
its queue was found full. The hub is what a server without `REDIS_URL` uses, so its threads
are those of one process.

### KafkaIngest

The topic has one partition. `position[c]` is the last offset `poll` has
returned to consumer `c`; `AutoCommit` makes it the group's offset whatever
`_handle` is doing, which is what `enable.auto.commit` with the default offset
store means. A message is an alert, one that `_kafka_ingest` refuses, one that is
skipped as malformed, or one on which parsing raises what `_handle` does not
catch: `ParseRaises` then leaves the loop through its `finally`, whose `close()`
commits the offset if the thread still owns the partition, and the process goes on
serving requests without a consumer (`closed`) until it dies. `failed`, `killed`,
`loopsEnded` and `handovers` are history. The group and the
broker are external and modelled from the consumer's configuration:
`LoseMembership` takes the partition away while the thread goes on with its
message, and a stale owner cannot commit.

### LiveQueue

The browsers' side of the system: what `dashboard.js` does with the answers and
events it gets, and what that asks of the workers.

| Code | Actions |
|---|---|
| `DOMContentLoaded`, `setInterval(refreshAll)`, `es.onmessage`, `applyPreset` | `Load`, `Poll`, `OnMessage`, `ApplyPreset`: each sends the queue request of a refresh |
| `loadAlerts` on an answer, on none | `ShowAlerts`, `RefreshFails` |
| `classifyAlert` and its answer | `ClassifyAlert`, `Classified`, `FailedToClassify` |
| `api_stream` behind `REDIS_URL`, `es.onerror` | `StreamOpens`, `StreamEnds` |
| `api_open_alerts`, `api_all_alerts`, `_handle_500` | `ListAlerts`, `ListAlertsRaises` |
| `api_classify`, seen from outside | `ClassifySelect`, `ClassifyCommit`, `ClassifyPublish`, `ClassifyRaises` |
| an ingest by anyone | `Ingest`, `IngestPublish`, `IngestPublishFails` |

A request needs a worker that is free; a stream keeps one until gunicorn's
timeout of 30 s kills a worker that has only been streaming, and the page closes
its event source for good when that happens. `fetch[p]` holds the list requests
of page `p`, one slot for each refresh under way. `version`, `past`, `told` and
`disturbed` are history. Of the presets, "open" stands for none and for All
Open, which ask for the same rows; My Queue shows nothing (section 5). Alerts
have one severity, so lists are newest first, and `PerPage` stands for the 500
rows the page asks for. Filters, statistics and charts are left out.

### Reads

One reader at a time sends a request (`AskList`, `AskAudit`, `AskStats`,
`AskLayer`), its handler's statements follow one by one, and the client turns
the page or leaves. Between any two statements the writers commit: each of
`Ingest`, `Classify`, `AddNote` and `Purge` is a whole transaction of `Triage`.

| Code | Actions and operators |
|---|---|
| `alert_filters`, `_SEVERITY_ORDER` | `Matching`, `SeverityOrder` |
| `_list_alerts` | `ListCount`, `ListRows`, `TotalPages`, `Offset`, `Slice` |
| `audit_log_page`, the links of `audit.html` | `AuditEntries`, `AuditCount`, `HasNext`, `AuditNextPage` |
| `api_stats` | `StatsTotal`, `StatsOpen`, `StatsBySeverity`, `StatsEscalation`, `StatsMttr`, `StatsSla` |
| `compute_sla` | `ComputeSla`, after the transaction and at the time Python reads |
| `api_navigator_layer` | `ExportLayer` for the statement, `ScoreGroup` for each of its groups in any order, `LayerScored`; `Scored` passes over categories that `CATEGORY_MITRE` does not map |

An ORDER BY fixes the order of two rows only if its columns differ; `Readings`
are all the orders a query may return, chosen anew by each query. `steady`,
`left`, `came`, `inside`, `tied` and `changed` are history: what happened to the
list, or to the table, during the request. The properties say how far a response
may be off in terms of these, which is what a reader can rely on. Note that an
alert may arrive with a `created_at` of the tick before, because it is the start
of the writer's transaction.

### Deployment and its parts

`Deployment` has one action for each thing an operator, a detector or an analyst
does; what that begins then runs interleaved with everything else.

| Code | Actions |
|---|---|
| `psql -f schema.sql` | `StartPsql`, one `PsqlStatement` for each DROP and CREATE, `PsqlInterrupted` |
| `seed.py` | `SeedByHand`; at the start of the container `ContainerSeeds` or `ContainerSeedFails` |
| module start-up of `app.py` | `StartApp` or `StartContainer` take the key from the environment; `Serve` ends the import that `StartApp` or `ContainerSeeds` began, after the retention purge (`BootPurge`); `WorkerBoots`: gunicorn replaces a worker, whose import purges again |
| `_insert_alert` | `Ingest` for the commit, `ThreadStep` for `_get_embedding_model` and `_embed_text`, `StoreEmbedding` |
| `NewService`, `Service.Ingest` | `StartGo`, `GoIngest` |
| the queue of a page and a click on it | `LoadPage`, `Click`: the request carries the id of the alert, and nothing else |
| `create_user` | `RunManage`, then `ManageStep` for each statement of either database |

Ids start again whenever `alerts` is created or truncated. `born` numbers the
alerts of all lives, so that a row can be compared with the alert it was written
for, and `epoch` counts the lives. `linked` says whether `audit_log` still has
the foreign key that a `DROP TABLE alerts CASCADE` takes away and that
`CREATE TABLE IF NOT EXISTS` does not bring back. Nothing here depends on how old
an alert is, so a purge deletes any set of alerts, the empty one when there is
no retention or the DELETE raises; with them go the rows of the tables that have
a foreign key (`RowsKept`). Users of the dashboard are not
followed into `audit_log.user_id`.

`Embeddings` reads the global model twice in the return statement, as Python
does. In `Accounts` the docker database belongs to another deployment than the
one whose schema is re-applied, and the command inside the container always ends
in an exception, because the image it runs in has no `docker` (section 5).

## 3. What TLC checks

| Run | Instance | Shows |
|---|---|---|
| `triage_race` | 2 workers, 2 analysts, 1 alert, 4 requests (its ingest and three handlers), 2 ticks, no retention, symmetry | types; status and assignee are those of the last recorded classification and action; actions and audit rows correspond one to one; an alert is classified at most once per worker; an open alert has no assignee |
| `triage_purge` | 2 workers, 1 analyst, 2 alerts, 3 requests, 2 ticks, retention of 1 tick, fairness | no orphan rows; no event announces an alert or a verdict that is not committed; `Triage` implements `AlertLedger`; every worker gets back to serving |
| `triage_reclassify` | 2 workers, 1 alert | **violated** `ClosedIsFinal`, see section 5 |
| `sse_hub` | 1 publisher, 2 streams, queues of 2, 3 events, fairness | types and queue bound; subscribers miss nothing; `list.remove` finds its queue; only a full queue is cut off; `SseHub` implements `Broadcast`; events arrive; a page that has gone is forgotten |
| `sse_cut_off` | 1 publisher, 2 streams, queues of 2 | **violated** `OpenStreamsAreSubscribed` |
| `kafka` | 2 consumers, 2 messages of every combination of kinds, 2 handovers, fairness | types; the committed prefix is accounted for; duplicates need handovers; a message ends no more loops than the partition has handovers, and one; while a worker has a loop left every message is consumed |
| `kafka_loss` | 2 consumers, 2 messages, 1 handover | **violated** `AlertsLandInTheQueue` |
| `live_queue` | 1 page, 1 worker, 2 alerts, lists of 1 row, 2 refreshes at a time, 2 acts of people and detectors, 1 failure, fairness | types; an event is followed by rows at least as new, if refreshes did not overlap or fail; a page goes back in time only if they did; while nothing fails, rows are those of some state and of the preset they were asked for; open pages come to show the table; every click is answered |
| `reads` | 4 alerts of 2 severities and 3 categories of which 2 have a technique, 3 of them stored, pages of 2 rows, audit pages of 1, retention and MTTR table of 1 tick, 2 commits by others, 1 tick; a walk through the open queue, one list entered beyond its end, the audit log with and without a search | types; what a walk through the pages of a list, or of the audit log, can miss or repeat; the envelope of a list page; how far the figures of one `/api/stats` may contradict each other and the tables; the navigator layer shows the worst alert |
| `reads_pages` | the same at rest | **violated** `PagesDisjoint` |
| `deployment` | 5 acts, 2 threads, 2 operators, 2 demo rows of which 1 is closed, ids up to 3, symmetry | types; rows meet the alerts they were written for; a closed alert has an action and no other has; a process loads the model at most once per thread; exit code 0 of `create-user` means an account |
| `deploy_keys` | 3 acts | **violated** `FieldsAreReadable` |

Why the bounds suffice. A classification race needs two workers past the check;
after the ingest, four requests leave three handlers, so a third classification
would show if the bound were not one per worker, and a note can fall on either
side of two classifications. The purge needs two alerts for two purges to
wait for each other in a circle and two workers for a purge to meet a handler;
the clock needs one tick to tell transactions apart and two for an alert to
expire. In the hub a queue of two and more events than that reach every case
of a full queue, with and without reads in between, and a page can reconnect.
Two handovers let a message be replayed by a consumer that loses it again. One
page and one worker are the hard case of `live_queue`: the page's own stream
keeps the only worker from its requests and from its click; two refreshes at a
time are the fewest that overlap, and two alerts in lists of one row make rows
fall off the end. Pages meet only at the workers and in the table, where one
page's classification and an ingest stand for the changes of others. In
`sse_hub` one publisher is enough for the temporal properties: publishers exclude
each other by the lock, and the invariants and the refinement are proved for any
number of them. In `reads` three rows make two pages of which the last is not
full, a fourth fills it or, being CRITICAL, pushes rows over the page boundary;
two commits are enough for one row to leave and one to come during one response,
and one tick for the two clocks to differ. In `deployment` five acts hold the
shortest stories that lead an id astray (an alert, a page or a thread that holds
its id, a schema or seed, a new alert, an act on the old id); the ids of two
demo rows and one more alert are in use again after a re-seed; two threads are
what a process has (the request and the Kafka consumer). All invariants, action
properties and refinements are proved as well (section 4), for any bounds; only
what the runs say about liveness rests on these instances.

Deadlock is checked in all runs but the two of Kafka, where stopped consumers
and a topic without new messages are an end the system may reach. `Quiet` in
`Triage` is the idle state after the last request the bound allows; in
`Deployment` it holds only when no script, thread or command is under way, so
that anything that hangs would be found.

### Fairness

* `Triage`: weak fairness of each worker's own steps. A worker runs its code,
  PostgreSQL hands a lock on when its holder ends and fails one of the
  transactions that wait in a circle; a publish to Redis ends within its
  `socket_timeout` of 2 s (`src/app.py:52`). Requests, failures, crashes and the clock
  have none. `WorkersReturn` is claimed for behaviours in which crashes stop: a
  worker that dies again and again in its boot need not come back.
* `SseHub`: weak fairness of publishers and generators; strong fairness of
  `_sse_subscribe` and `_sse_unsubscribe`, because `threading.Lock` does not
  queue its waiters and others may take the lock in between. `Written` is
  among the fair steps: the server's write to a connected page returns, or the
  page disconnects.
* `LiveQueue`: weak fairness of the timer, of requests and handler steps that
  have a worker, of the page's reactions to answers, of the publish after an
  ingest, and of `StreamEnds`, which stands for gunicorn's timeout (the
  `Dockerfile` starts synchronous workers with the default of 30 s). Nobody has
  to click, ingest or fail.
* `KafkaIngest`: weak fairness of the thread, of assignment and of gunicorn's
  replacement of a dead worker; none for `AutoCommit`, `Stop` or any failure.

## 4. What TLAPS proves

Every invariant, every action property without fairness and both refinements
that the passing runs check are theorems too, for all values of the constants:
any workers, analysts, consumers, pages, operators, alerts and demo rows, any
page size, retention, queue size and bound. What the proofs assume of them are
the named ASSUMEs of the modules, and no more:

| Module | Assumed |
|---|---|
| `Triage` | `WorkersAreFinite` (gunicorn starts a fixed number), `NoOneIsNoAnalyst`, `BoundsAreNaturals`, `RetentionIsInteger` |
| `SseHub` | `NobodyIsNoPublisher`, `QueueHoldsOne`, `EventsBounded` |
| `KafkaIngest` | `NobodyIsNoConsumer`, `KafkaBounds` |
| `LiveQueue` | `SomeWorkers`, `SizesArePositive`, `BoundsAreNaturals` |
| `Reads` | `AlertsAreNumbered`, `ListsAreLegal` (what `_parse_pagination` and the filters let through), `TargetsAreTicks`, `PagesHoldRows`, `ReadsBounds` |
| `Deployment` and its parts | `ActsBounded`, `ThreadsAreFinite`, `SeedFits`, `NoAccountIsNoOperator`, `SettingsAreStrings` |

None of the checked invariants is inductive as it stands. What each proof adds,
and why:

**TriageProofs.** `StatusIsLastClassification` is not inductive: a commit writes
rows whose ids were drawn earlier, and nothing in it says that no later id has
been committed meanwhile. The invariant adds, conjunct by conjunct:

* `TypeInv` - types, and what each stage of a transaction has already drawn;
* `LockInv` - two workers never hold conflicting locks on a row, and a row that
  is locked exists: from an UPDATE to its commit nobody else updates or deletes
  the alert, which is the whole reason why the unlocked check does no more harm;
* `RowInv` - rows refer to existing alerts and carry ids below the sequences;
* `TrailInv` - the trail explains the status and the assignee, for an alert that
  is being classified the pending ids exceed every committed one.

Each action is one lemma. Actions that only move a worker, the writes, the
rollbacks and the purge are grouped by what they disturb. From the invariant
follow `TypeCorrect`, `RowsHaveAlerts`, `TrailExplainsStatus`,
`ActionsExplainAssignee` and `OpenAlertsUnassigned`.

**SseHubProofs.** The events of a page are spread over what it has received, the
one in its generator and its queue. `HubInv` says which numbers each part holds
(`PartsInOrder`), how far the whole reaches for a queue not yet visited, found
full, served or dropped (`Reach`), and that the list stands still while the lock
is held (`LockInv`, `ListInv`); a queue found full and the event for which it had
no room are what `behind` counted. Each step moves an event from one part to the
next. From it follow `HubTypeCorrect`, `RemoveFindsTheQueue`, `NothingIsMissed`,
`CutOffStreamsWereFull` and `HubImplementsBroadcast`, the refinement.

**TriageLedgerProofs.** That each commit is one step of `AlertLedger` needs more
than the types of a transaction in progress. `LedgerInv` adds to `TrailInv`:

* `KnownIds` - an id that an ingest has drawn and not committed is known to
  nobody else, so the commit adds an alert and changes none, and an id that a
  transaction has read or is about to announce was committed by an ingest;
* `StatusesOnRecord` - the status that a note has read, or that is about to be
  announced, is one that the trail has for this alert, unless it was purged;
* `AuditIdsDiffer` - no two transactions hold the same audit id.

Rows of one transaction reach both tables in one commit, but ids are drawn in
two statements: `ActionsAndAuditAgree` needs that the orders by id agree
(`InStep`), which they do because the row lock is held from before the first id
to the commit. `AtMostOncePerWorker` counts: the classifications of an alert and
the workers that are past the check (`PastCheck`) are together at most as many as
there are workers, since none gets past the check of an alert that has a
classification.

**KafkaIngestProofs.** `CommittedIsAccountedFor` speaks of the committed prefix, but
the background commit takes all that was read. So the invariant,
`ReadIsAccountedFor`, is about everything up to `Frontier`, the owner's position or,
without an owner, the place from which the next one starts; a message below it
that is not a row is in hand, or is lost for a known cause. For duplicates,
`CopiesBounded` counts the rows of a message and the loops it has ended together
with the threads that have it in hand: one for each handover, and one more when
the message is not beyond `Frontier`.

**LiveQueueProofs.** `PagesInv` says of a page whose refreshes have not overlapped
that it has one request at most, whose answer is as new as what the page shows
and has been told of (`InTurn`); `HandlersInv`, that a publish follows its
commit, so that an event speaks of a version that exists; `AnswersInv`, that an
answer on its way is the view of a state the table had. With workers taken and
given back by streams and clicks, the bound on them is a matter of cardinalities
(`PlacesStep`).

**ReadsProofs.** The properties compare figures of one response, each taken from
another state of the tables. `FiguresInv` compares each figure with the tables as
they are now instead: it is off by at most `changed`, the alerts that were
touched since the request began. A statement makes its figure exact, a commit
moves the tables by the alerts it touches, and the figures of a finished response
then differ from each other by what two of these bounds allow. `TablesInv` has the
facts about the tables this rests on, such as that an alert is open exactly as
long as it has no action. `EnvelopeInv` and `LayerInv` follow the pages of a list
at rest and the groups that remain to be scored.

**ReadsWalkProofs.** The *place* of a row is the number of rows before it in the
ORDER BY, and a page has the rows with a place between two boundaries
(`SlicePlaces`). Rows that the ORDER BY tells apart have different places, so at
most *n* of them are below the *n*-th (`CountPlaces`). A row that comes or leaves
moves the others by one place (`Shift`) and so carries one row at most over the
boundary between the pages read and the pages to come: outwards, where it will be
seen again (`RepeatsShift`), or inwards, where it will be missed (`MissesShift`).
`WalkInv` bounds both numbers by the arrivals and departures so far; the rows
equal in the ORDER BY are kept apart from it, since each query may place them
anew.

**DeploymentProofs.** How far psql has come tells which tables there are and which
rows can be left (`ScriptOrder`, `RowsCurrent`); ids below the sequence are in use
(`IdsInOrder`); a row meets the alert it was written for, or was written by
someone who learnt the id before the ids started again (`RowsMeet`, `ReadersMeet`).
A purge leaves an id without an alert; since ids are not given out twice in one
life of the table, no other alert takes it, and a row with a foreign key goes with
its alert (`RowsRefer`).
The invariant is a conjunction over the parts, `DatabaseInv`, `EmbeddingsInv`,
`AccountsInv` and what the processes hold, and each act is shown to change one
part and leave the others alone.

Only model-checked are the properties that need fairness, which the prover
cannot reason about: `WorkersReturn`, `EventsArrive`, `GoneBrowsersAreForgotten`,
`MessagesAreConsumed`, `PagesCatchUp` and `ClicksAreAnswered`. The five properties
of section 5 are false, and TLC shows it.

## 5. Where code and expectation differ

* **A closed alert can be classified again** (`triage_reclassify`). Two requests
  that both saw the alert open both succeed; the second verdict and assignee
  replace the first, and the trail has two transitions from `open`. The test
  suite says "reclassifying is rejected" (`src/tests/test_app.py:111`).
* **An open stream may be dead** (`sse_cut_off`). When a queue is full it leaves
  the list but the generator goes on with keepalives: the page sees no error.
  `_sse_publish` says it broadcasts "to all SSE subscribers". The 30 s poll
  covers for it in the browser.
* **Kafka alerts can be lost** (`kafka_loss`) when the INSERT fails or a worker
  dies after the background commit; `src/README.md:25` has all alerts "land in
  one queue".
* **Pages of a list at rest may overlap** (`reads_pages`). The ORDER BY ends with
  `created_at` (`src/app.py:376`); alerts of equal severity and time (the demo
  rows have whole minutes, rows of one transaction are equal) may trade places
  between two queries. `src/tests/test_pagination.py:62`: "page 1 and page 2
  should not share alerts".
* **Two keys from one setting** (`deploy_keys`). Flask hashes `DB_ENCRYPTION_KEY`,
  the Go service decodes it as the key. A field that the Go service stored is
  shown as ciphertext; `src/internal/ingest/service.go:6` has them use "the same
  key". A setting that is not itself a Fernet key keeps the Go service from
  starting.

What else the models show, some of it against the words of a document, without
a run of its own:

* The audit history of an alert is listed by `created_at`, the start of the
  writing transaction. A note that saw `open` can come after the classification
  that closed the alert; `src/tests/test_rbac.py:198` takes `rows[-1]` for the
  latest change. `StatusIsLastClassification` holds by id, not by time.
* A page goes back in time when an answer of an older refresh arrives late
  (`refreshAll` neither cancels nor numbers its requests): `BackwardsNeedsOverlap`
  says that it takes overlapping refreshes or a failure.
* A failed query looks like an empty queue: `loadAlerts` does not look at the
  response's status. `RowsWereTrue` is stated for pages without failures.
* A walk through a list ends one page early if an alert arrives between the
  COUNT and the SELECT of a response; `WalkMissesNothing` counts such arrivals
  (`inside`). `closed` in `/api/stats` is negative if alerts arrive between the
  first two counts.
* The audit page computes its number of pages from the whole log, also for a
  search: the last pages of a search are empty, but none is missing.
* A message can end a worker's Kafka consumer. Around the parsing
  (`src/kafka/consumer.py:73`) two exceptions are caught. A message without a
  value (a tombstone), with arrays nested too deeply or with a number of too many
  digits raises another one: the loop ends, the thread with it, and nothing starts
  it again, although `_handle` promises "logging on any failure"
  (`src/kafka/consumer.py:72`). As the `finally` commits the message while the
  thread owns the partition, the next worker goes on after it: `OneLoopPerMessage`
  says that a message ends more than one loop only if its partition was handed
  over meanwhile, and `MessagesAreConsumed` excepts the moment from which no
  worker has a loop left.
* `schema.sql` drops objects "so the schema can be re-applied cleanly"
  (`src/schema.sql:2`) but keeps `audit_log`, which loses its foreign key. Ids
  start again, and `/api/alerts/<id>/audit` lists the entries of the alert that
  had the id before. From then on the purge of a booting worker leaves audit rows
  of alerts that are gone. `RowsMeetTheirAlerts` draws the line: an audit row of the
  current life of the ids never names another alert.
* The same command drops the accounts: "Existing analyst and admin accounts
  continue to work" (`src/README.md:211`), but the schema runs `DROP TABLE IF EXISTS
  users CASCADE` (`src/schema.sql:11`). `ZeroMeansCreated` ends with it (`lost`).
* A restart of the web container truncates all alerts, and with them the audit
  log while it is linked.
* A click on a page from before a re-seed classifies whatever alert has the id
  now, and so does an embedding that is stored late: `RowsMeetTheirAlerts` excepts
  exactly the rows whose ids were learnt in an earlier epoch.
* If two threads load the model at once and one fails, the other may find the
  sentinel where it expects its model (`src/app.py:123` reads the global twice)
  and raise after its alert is committed and before its event is published.
* `create_user` "Returns 0 if at least one succeeded" (`src/manage.py:80`). Without a
  docker command on the host it ends in a traceback after the local row is in. The
  command in the container ends in one too, for its image has no docker, so the
  outer one reports `[skip] docker-db` and may end with 2 although the row is in.
  Only the other direction holds, `ZeroMeansCreated`.

`OpenIsUnassigned` holds, which means that the "My Queue" preset (open alerts
assigned to the analyst, `src/README.md:255`) selects nothing that this code
writes. `src/README.md:25` and its diagram give the Kafka topic to the Go
service; the consumer in the repository is the Flask application's.

## 6. What is not modelled, and the plan

Everything the passing runs check is proved as well, liveness excepted. What
could come next is more of the system:

* the start of a worker as one sequence (key, database, purge, Kafka thread) with
  the failures of its parts, which now is spread over `Triage`, `KafkaIngest` and
  `Deployment`;
* sessions that outlive the account they belong to;
* the figures of the page beside the list: a refresh fetches statistics and list
  independently, so the two may show different states for as long as a poll takes.

Not modelled: sessions, CSRF and login (Flask's; a role check is one test of one
field), the Conductor call (one request with its error mapping, no state), the
query for similar alerts and embeddings as vectors, the transports and tracing
of the Go service, generated gRPC code, the filter controls, statistics and
charts of the page (a refresh replaces them as it does the queue), templates.
Deployment files appear only where they start things. The demo rows of `seed.py`
(closed alerts without audit rows) are in the initial states of `Reads` and in
`Lifecycle`, not in `Triage`, which starts from the empty tables of `schema.sql`.
