----------------------------- MODULE LiveQueue -----------------------------
(***************************************************************************)
(* The alert queue that analysts look at: src/static/dashboard.js in        *)
(* several browsers, the requests it sends to the gunicorn workers, and the *)
(* events that reach it over Redis (REDIS_URL set, the docker-compose.yml   *)
(* deployment).                                                             *)
(*                                                                          *)
(* refreshAll sends its requests and waits; nothing keeps a poll, an event  *)
(* and a click from refreshing at the same time.  A refresh is followed by  *)
(* its queue request (loadAlerts); the statistics and charts it loads next  *)
(* to it are replaced in the same way and left out.                         *)
(*                                                                          *)
(* The server has Workers synchronous workers.  A list request or a step of *)
(* a handler needs one; an open stream keeps one.  A classification is the  *)
(* handler of Triage seen from outside: select, commit, publish.            *)
(*                                                                          *)
(* Alerts are numbered in the order of their ingest and have one severity,  *)
(* so a list is newest first.                                               *)
(*                                                                          *)
(* Bounds of the model: MaxActs ingests, clicks and changes of view,        *)
(* MaxFailures failures, MaxInFlight requests of one page's refreshes.      *)
(* PerPage stands for the 500 of filterQuery.                               *)
(***************************************************************************)
EXTENDS Integers, FiniteSets

CONSTANTS
    Pages,        \* browsers that show the dashboard
    Workers,      \* number of gunicorn workers
    MaxAlert,     \* alerts are 1..MaxAlert
    PerPage,      \* rows asked for
    MaxInFlight,  \* refreshes of one page whose queue request is under way
    MaxActs,      \* bound on what people and detectors do
    MaxFailures   \* bound on failures of Redis, the database or the network

ASSUME SomeWorkers == Workers \in Nat \ {0}
ASSUME SizesArePositive == PerPage \in Nat \ {0} /\ MaxInFlight \in Nat \ {0}
ASSUME BoundsAreNaturals == {MaxAlert, MaxActs, MaxFailures} \subseteq Nat

VARIABLES
    table,      \* committed status of every alert
    version,    \* number of commits
    past,       \* every state the table has had
    owed,       \* commits of ingests whose event is not published yet
    preset,     \* _activePreset of each page
    shown,      \* what its queue table shows
    fetch,      \* its list requests, by slot
    stream,     \* its EventSource
    pending,    \* events on their way to it, by the commit they announce
    post,       \* its classification request
    told,       \* latest commit it has had an event of
    disturbed,  \* its refreshes have overlapped, or one has failed
    acts, failures

tables == <<table, version, past, owed>>
page == <<preset, shown, fetch, disturbed>>
link == <<stream, pending, told>>
vars == <<tables, page, link, post, acts, failures>>

AlertId == 1..MaxAlert
Slots == 1..MaxInFlight
Status == {"absent", "open", "closed", "escalated"}

(* "open" stands for no preset and for All Open: both ask for the open      *)
(* queue.                                                                   *)
Presets == {"open", "escalated"}

Ordered(S) == {a \in S : Cardinality({b \in S : b > a}) < PerPage}

(* loadAlerts: the open queue is filtered by the server; for the Escalated  *)
(* preset the page filters one page of all alerts.                          *)
View(asked, t) ==
    IF asked = "escalated"
      THEN {a \in Ordered({b \in AlertId : t[b] # "absent"}) : t[a] = "escalated"}
      ELSE Ordered({a \in AlertId : t[a] = "open"})

NoFetch == [stage |-> "idle", asked |-> "open", rows |-> {}, ver |-> 0, ok |-> TRUE]
NoPost == [stage |-> "none", alert |-> 0, to |-> "closed", ver |-> 0]

Refreshing(p) == \E i \in Slots : fetch[p][i] # NoFetch

(* Workers that a request cannot have. *)
Streaming == {p \in Pages : stream[p] = "open"}
Posting == {p \in Pages : post[p].stage \in {"selected", "committed"}}
WorkerFree == Cardinality(Streaming) + Cardinality(Posting) < Workers

Act == acts < MaxActs /\ acts' = acts + 1
Fail == failures < MaxFailures /\ failures' = failures + 1

-----------------------------------------------------------------------------
(* The page *)

(* refreshAll: loadAlerts reads _activePreset and sends its request. *)
RefreshAll(p, asked) ==
    /\ \E i \in Slots :
         /\ fetch[p][i] = NoFetch
         /\ \A j \in Slots : j < i => fetch[p][j] # NoFetch
         /\ fetch' = [fetch EXCEPT ![p][i] =
                        [NoFetch EXCEPT !.stage = "sent", !.asked = asked]]
    /\ disturbed' = [disturbed EXCEPT ![p] = @ \/ Refreshing(p)]

(* DOMContentLoaded: the first refresh, the timer and then initSSE. *)
Load(p) ==
    /\ stream[p] = "absent"
    /\ RefreshAll(p, preset[p])
    /\ stream' = [stream EXCEPT ![p] = "connecting"]
    /\ UNCHANGED <<tables, preset, shown, pending, told, post, acts, failures>>

(* Fault: the page polls only until its EventSource has connected. *)
FaultPollUntilConnected(p) ==
    /\ stream[p] = "connecting"
    /\ RefreshAll(p, preset[p])
    /\ UNCHANGED <<tables, preset, shown, link, post, acts, failures>>

(* setInterval(refreshAll, REFRESH_MS) *)
Poll(p) ==
    /\ stream[p] # "absent"
    /\ RefreshAll(p, preset[p])
    /\ UNCHANGED <<tables, preset, shown, link, post, acts, failures>>

Receive(p, ver) ==
    /\ pending' = [pending EXCEPT ![p] = @ \ {ver}]
    /\ told' = [told EXCEPT ![p] = IF @ < ver THEN ver ELSE @]

(* Fault: an event that arrives during a refresh is taken to be covered by  *)
(* it.                                                                      *)
FaultCoalesce(p) ==
    /\ \E ver \in pending[p] : Receive(p, ver)
    /\ IF Refreshing(p) THEN UNCHANGED <<fetch, disturbed>> ELSE RefreshAll(p, preset[p])
    /\ UNCHANGED <<tables, preset, shown, stream, post, acts, failures>>

(* es.onmessage: what the event says does not matter. *)
OnMessage(p) ==
    /\ \E ver \in pending[p] : Receive(p, ver)
    /\ RefreshAll(p, preset[p])
    /\ UNCHANGED <<tables, preset, shown, stream, post, acts, failures>>

ApplyPreset(p) ==
    /\ stream[p] # "absent"
    /\ Act
    /\ \E asked \in Presets \ {preset[p]} :
         /\ preset' = [preset EXCEPT ![p] = asked]
         /\ RefreshAll(p, asked)
    /\ UNCHANGED <<tables, shown, link, post, failures>>

(* Fault: _activePreset is read after the await, when the rows are shown. *)
FaultPresetAfterAwait(p, i) ==
    LET f == fetch[p][i] IN
    /\ f.stage = "answered"
    /\ shown' = [shown EXCEPT ![p] = [loaded |-> TRUE, asked |-> preset[p],
                                      rows |-> f.rows, ver |-> f.ver]]
    /\ fetch' = [fetch EXCEPT ![p][i] = NoFetch]
    /\ disturbed' = [disturbed EXCEPT ![p] = @ \/ ~f.ok]
    /\ UNCHANGED <<tables, preset, link, post, acts, failures>>

(* The response of a list request replaces the rows.  An error body has no  *)
(* alerts and is shown as an empty queue.                                   *)
ShowAlerts(p, i) ==
    LET f == fetch[p][i] IN
    /\ f.stage = "answered"
    /\ shown' = [shown EXCEPT ![p] = [loaded |-> TRUE, asked |-> f.asked,
                                      rows |-> f.rows, ver |-> f.ver]]
    /\ fetch' = [fetch EXCEPT ![p][i] = NoFetch]
    /\ disturbed' = [disturbed EXCEPT ![p] = @ \/ ~f.ok]
    /\ UNCHANGED <<tables, preset, link, post, acts, failures>>

(* A response that is not JSON (the login page, a proxy's error) or none at *)
(* all: refreshAll shows "error" and the rows stay.                         *)
RefreshFails(p, i) ==
    /\ fetch[p][i].stage = "sent"
    /\ Fail
    /\ fetch' = [fetch EXCEPT ![p][i] = NoFetch]
    /\ disturbed' = [disturbed EXCEPT ![p] = TRUE]
    /\ UNCHANGED <<tables, preset, shown, link, post, acts>>

(* Every shown row has its buttons, whatever the row's status is.  One      *)
(* click at a time per page.                                                *)
ClassifyAlert(p) ==
    /\ post[p] = NoPost
    /\ Act
    /\ \E a \in shown[p].rows, to \in {"closed", "escalated"} :
         post' = [post EXCEPT ![p] = [stage |-> "sent", alert |-> a, to |-> to, ver |-> 0]]
    /\ UNCHANGED <<tables, page, link, failures>>

(* The answer to a click: a refresh, or a dialog and no refresh. *)
Classified(p) ==
    /\ post[p].stage = "ok"
    /\ post' = [post EXCEPT ![p] = NoPost]
    /\ RefreshAll(p, preset[p])
    /\ UNCHANGED <<tables, preset, shown, link, acts, failures>>

FailedToClassify(p) ==
    /\ post[p].stage = "failed"
    /\ post' = [post EXCEPT ![p] = NoPost]
    /\ UNCHANGED <<tables, page, link, acts, failures>>

-----------------------------------------------------------------------------
(* The stream *)

(* Fault: a stream is served next to the other requests of a worker. *)
FaultStreamInThread(p) ==
    /\ stream[p] = "connecting"
    /\ stream' = [stream EXCEPT ![p] = "open"]
    /\ UNCHANGED <<tables, page, pending, told, post, acts, failures>>

(* A worker runs api_stream and subscribes to the channel. *)
StreamOpens(p) ==
    /\ stream[p] = "connecting"
    /\ WorkerFree
    /\ stream' = [stream EXCEPT ![p] = "open"]
    /\ UNCHANGED <<tables, page, pending, told, post, acts, failures>>

(* Fault: gunicorn's timeout does not end a stream, as with workers that    *)
(* report while they stream.                                                *)
FaultStreamKept(p) ==
    /\ stream[p] = "connecting"
    /\ stream' = [stream EXCEPT ![p] = "closed"]
    /\ UNCHANGED <<tables, page, pending, told, post, acts, failures>>

(* A worker that does nothing but stream does not report to gunicorn, which *)
(* kills it after its timeout of 30 s; Redis or the network may end the     *)
(* stream before.  Events not yet delivered are lost.  es.onerror closes    *)
(* the EventSource and the page never reconnects.                           *)
StreamEnds(p) ==
    /\ stream[p] \in {"connecting", "open"}
    /\ stream' = [stream EXCEPT ![p] = "closed"]
    /\ pending' = [pending EXCEPT ![p] = {}]
    /\ UNCHANGED <<tables, page, told, post, acts, failures>>

-----------------------------------------------------------------------------
(* The server *)

(* Fault: lists are served from a copy of the table made at the start. *)
FaultListFromCopy(p, i) ==
    /\ fetch[p][i].stage = "sent"
    /\ WorkerFree
    /\ \E ver \in {0, version} :
         fetch' = [fetch EXCEPT ![p][i].stage = "answered", ![p][i].ver = ver]
    /\ UNCHANGED <<tables, preset, shown, disturbed, link, post, acts, failures>>

(* api_open_alerts and api_all_alerts: one page of the table as it is now. *)
ListAlerts(p, i) ==
    /\ fetch[p][i].stage = "sent"
    /\ WorkerFree
    /\ fetch' = [fetch EXCEPT ![p][i].stage = "answered",
                              ![p][i].rows = View(fetch[p][i].asked, table),
                              ![p][i].ver = version]
    /\ UNCHANGED <<tables, preset, shown, disturbed, link, post, acts, failures>>

(* The query raises and _handle_500 answers {"error": ...}. *)
ListAlertsRaises(p, i) ==
    /\ fetch[p][i].stage = "sent"
    /\ WorkerFree
    /\ Fail
    /\ fetch' = [fetch EXCEPT ![p][i].stage = "answered", ![p][i].ver = version,
                              ![p][i].ok = FALSE]
    /\ UNCHANGED <<tables, preset, shown, disturbed, link, post, acts>>

Commit(a, to) ==
    /\ table' = [table EXCEPT ![a] = to]
    /\ version' = version + 1
    /\ past' = past \cup {table'}

(* PUBLISH: Redis hands the event to the streams subscribed at this moment. *)
Announce(ver) ==
    pending' = [p \in Pages |-> pending[p] \cup (IF p \in Streaming THEN {ver} ELSE {})]

(* The Kafka thread, the Go service or POST /api/alerts. *)
Ingest ==
    /\ Act
    /\ \E a \in AlertId :
         /\ table[a] = "absent" /\ \A b \in 1..(a - 1) : table[b] # "absent"
         /\ Commit(a, "open")
    /\ owed' = owed \cup {version'}
    /\ UNCHANGED <<page, link, post, failures>>

IngestPublish ==
    /\ \E ver \in owed : Announce(ver) /\ owed' = owed \ {ver}
    /\ UNCHANGED <<table, version, past, page, stream, told, post, acts, failures>>

(* Redis fails: the Go service logs it, _insert_alert raises after its      *)
(* commit.                                                                  *)
IngestPublishFails ==
    /\ Fail
    /\ \E ver \in owed : owed' = owed \ {ver}
    /\ UNCHANGED <<table, version, past, page, link, post, acts>>

(* api_classify: 404 or 409, or on to the UPDATE, which does not look at    *)
(* the status again.                                                        *)
ClassifySelect(p) ==
    /\ post[p].stage = "sent"
    /\ WorkerFree
    /\ post' = [post EXCEPT ![p].stage =
                  IF table[post[p].alert] = "open" THEN "selected" ELSE "failed"]
    /\ UNCHANGED <<tables, page, link, acts, failures>>

ClassifyCommit(p) ==
    /\ post[p].stage = "selected"
    /\ Commit(post[p].alert, post[p].to)
    /\ post' = [post EXCEPT ![p].stage = "committed", ![p].ver = version']
    /\ UNCHANGED <<owed, page, link, acts, failures>>

ClassifyPublish(p) ==
    /\ post[p].stage = "committed"
    /\ Announce(post[p].ver)
    /\ post' = [post EXCEPT ![p].stage = "ok"]
    /\ UNCHANGED <<tables, page, stream, told, acts, failures>>

(* The transaction fails and is rolled back, or Redis fails after the       *)
(* commit: the answer is a 500 in both cases.                               *)
ClassifyRaises(p) ==
    /\ post[p].stage \in {"selected", "committed"}
    /\ Fail
    /\ post' = [post EXCEPT ![p].stage = "failed"]
    /\ UNCHANGED <<tables, page, link, acts>>

-----------------------------------------------------------------------------
(* Any number of alerts has been ingested, no page is open. *)
Init ==
    /\ \E n \in 0..MaxAlert : table = [a \in AlertId |-> IF a <= n THEN "open" ELSE "absent"]
    /\ version = 0 /\ past = {table} /\ owed = {}
    /\ preset = [p \in Pages |-> "open"]
    /\ shown = [p \in Pages |-> [loaded |-> FALSE, asked |-> "open", rows |-> {}, ver |-> 0]]
    /\ fetch = [p \in Pages |-> [i \in Slots |-> NoFetch]]
    /\ stream = [p \in Pages |-> "absent"]
    /\ pending = [p \in Pages |-> {}]
    /\ post = [p \in Pages |-> NoPost]
    /\ told = [p \in Pages |-> 0]
    /\ disturbed = [p \in Pages |-> FALSE]
    /\ acts = 0 /\ failures = 0

Handler(p) == ClassifySelect(p) \/ ClassifyCommit(p) \/ ClassifyPublish(p)
Answered(p) == Classified(p) \/ FailedToClassify(p)

Next ==
    \/ \E p \in Pages :
         \/ Load(p) \/ Poll(p) \/ OnMessage(p) \/ ApplyPreset(p) \/ ClassifyAlert(p)
         \/ StreamOpens(p) \/ StreamEnds(p)
         \/ Handler(p) \/ ClassifyRaises(p) \/ Answered(p)
         \/ \E i \in Slots :
              ListAlerts(p, i) \/ ListAlertsRaises(p, i) \/ ShowAlerts(p, i) \/ RefreshFails(p, i)
    \/ Ingest \/ IngestPublish \/ IngestPublishFails

Spec == Init /\ [][Next]_vars

(* Timers fire, requests are served when a worker is free, responses        *)
(* arrive, and gunicorn's timeout ends every stream.  Nobody has to click,  *)
(* ingest or fail.                                                          *)
FairSpec ==
    /\ Spec
    /\ WF_vars(IngestPublish)
    /\ \A p \in Pages :
         /\ WF_vars(Poll(p)) /\ WF_vars(StreamEnds(p))
         /\ WF_vars(Handler(p)) /\ WF_vars(Answered(p))
         /\ \A i \in Slots : WF_vars(ListAlerts(p, i)) /\ WF_vars(ShowAlerts(p, i))

-----------------------------------------------------------------------------
(* Properties *)

Fetch == [stage : {"idle", "sent", "answered"}, asked : Presets,
          rows : SUBSET AlertId, ver : Nat, ok : BOOLEAN]
Post == [stage : {"none", "sent", "selected", "committed", "ok", "failed"},
         alert : 0..MaxAlert, to : {"closed", "escalated"}, ver : Nat]

(* Types, and no more streams and handlers than workers. *)
TypeOK ==
    /\ table \in [AlertId -> Status] /\ version \in Nat
    /\ past \subseteq [AlertId -> Status] /\ owed \subseteq 1..version
    /\ preset \in [Pages -> Presets]
    /\ shown \in [Pages -> [loaded : BOOLEAN, asked : Presets,
                            rows : SUBSET AlertId, ver : Nat]]
    /\ fetch \in [Pages -> [Slots -> Fetch]]
    /\ stream \in [Pages -> {"absent", "connecting", "open", "closed"}]
    /\ pending \in [Pages -> SUBSET (1..version)] /\ told \in [Pages -> Nat]
    /\ post \in [Pages -> Post]
    /\ disturbed \in [Pages -> BOOLEAN]
    /\ acts \in 0..MaxActs /\ failures \in 0..MaxFailures
    /\ Cardinality(Streaming) + Cardinality(Posting) <= Workers

(* Once its refreshes are done a page shows every change it has had an      *)
(* event of, or a later state, provided that its refreshes never overlapped *)
(* and none failed.                                                         *)
ToldMeansShown ==
    \A p \in Pages :
        ~Refreshing(p) /\ ~disturbed[p] => shown[p].ver >= told[p]

(* README.md: "polling keeps the queue current".  When people and failures  *)
(* pause, every open page comes to show the table for the preset that is    *)
(* selected, and goes on showing it, although its stream has ended.         *)
PagesCatchUp ==
    \A p \in Pages :
        <>[](stream[p] # "absent" =>
               shown[p].asked = preset[p] /\ shown[p].rows = View(preset[p], table))

(* Every click is answered, even if open streams keep all workers. *)
ClicksAreAnswered ==
    \A p \in Pages : post[p].stage = "sent" ~> post[p].stage \in {"ok", "failed"}

(* What a page shows goes back to an earlier state of the table only if      *)
(* refreshes of that page have overlapped or one has failed.                *)
BackwardsNeedsOverlap ==
    [][\A p \in Pages : shown'[p].ver < shown[p].ver => disturbed[p]]_vars

(* As long as no request has failed, the rows of a page are what its preset *)
(* selected in some state of the table: an answer is shown as the answer to *)
(* the question it was asked for, even if the preset has changed since.     *)
RowsWereTrue ==
    failures = 0 =>
        \A p \in Pages :
            shown[p].loaded => \E t \in past : shown[p].rows = View(shown[p].asked, t)

=============================================================================
