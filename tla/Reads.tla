-------------------------------- MODULE Reads --------------------------------
(***************************************************************************)
(* The handlers that only read: the alert lists with their pages, the       *)
(* figures of /api/stats with compute_sla, the admin's audit page and the   *)
(* ATT&CK navigator layer (src/app.py).                                     *)
(*                                                                          *)
(* A reading handler is a READ COMMITTED transaction: every statement is a  *)
(* step of its own and sees what has been committed before it.  Readers     *)
(* change nothing, so one of them at a time is as good as many.  The        *)
(* writers are module Triage's, here one step per commit; created_at and    *)
(* acted_at are the start of their transaction, at most one tick earlier.   *)
(*                                                                          *)
(* Bounds of the model: MaxWrites commits, MaxClock ticks of the clock.     *)
(***************************************************************************)
EXTENDS Integers, FiniteSets, SequencesExt

CONSTANTS
    Severity,      \* severity of the alerts by id, ingested in this order
    Category,      \* their category
    Stored,        \* how many of them the first request finds in the table
    Demo,          \* those that seed.py may have put there closed
    Lists,         \* the list requests: view, severity filter, page to begin with
    Target,        \* SLA_SECONDS, in ticks, by severity
    PerPage,       \* per_page of the list requests
    AuditPerPage,  \* per_page of the audit page
    Retention,     \* ALERT_RETENTION_DAYS, in ticks
    Week,          \* the 7 days of the MTTR table, in ticks
    MaxWrites,     \* bound on commits
    MaxClock       \* bound on the clock

AlertId == 1..Len(Severity)
Severities == {"CRITICAL", "HIGH", "MEDIUM", "LOW"}

ASSUME AlertsAreNumbered ==
    /\ Severity \in Seq(Severities)
    /\ DOMAIN Category = AlertId
    /\ Stored \in AlertId \cup {0}
    /\ Demo \subseteq 1..Stored
ASSUME ListsAreLegal ==
    Lists \subseteq [what : {"list"}, view : {"open", "all"},
                    severity : Severities \cup {"any"}, first : Nat \ {0}]
ASSUME TargetsAreTicks == Target \in [Severities -> Nat]
ASSUME PagesHoldRows == PerPage \in Nat \ {0} /\ AuditPerPage \in Nat \ {0}
ASSUME ReadsBounds == MaxWrites \in Nat /\ MaxClock \in Nat \ {0} /\ Retention \in Nat /\ Week \in Nat

VARIABLES
    clock,
    alerts,    \* committed alerts by id: status and created
    actions,   \* analyst_actions: alert, response_time_seconds, acted_at
    audit,     \* audit_log
    nextAlert, \* alerts_id_seq
    writes,    \* commits so far; numbers the rows of actions and audit
    ask,       \* the request of the reader
    step,      \* the statement it executes next
    page,      \* the page it asks for
    total,     \* the COUNT of the last response
    rows,      \* the rows of the last response
    got,       \* rows returned since the reader asked for its first page
    repeated,  \* those of them that were returned twice
    figures,   \* what /api/stats has read
    slaRows,   \* the rows for compute_sla
    layer,     \* technique -> score
    groups,    \* the groups of the layer's statement that are not scored yet
    steady,    \* history: rows that were in the list at all times of the walk
    left,      \* history: how many rows left the list
    came,      \* history: how many entered it
    inside,    \* history: how many entered between a COUNT and its SELECT
    tied,      \* history: rows with an equal in the ORDER BY of a SELECT
    changed    \* history: how many alerts rows changed during the request

tables == <<alerts, actions, audit, nextAlert, writes>>
layerVars == <<layer, groups>>
response == <<page, total, rows, got, repeated, figures, slaRows, layerVars>>
history == <<steady, left, came, inside, tied, changed>>
vars == <<clock, tables, ask, step, response, history>>

-----------------------------------------------------------------------------
Rank(s) ==
    IF s = "CRITICAL" THEN 1 ELSE IF s = "HIGH" THEN 2 ELSE IF s = "MEDIUM" THEN 3 ELSE 4

(* Fault: scores from zero. *)
FaultScore(s) == 25 * (4 - Rank(s))

(* _NAVIGATOR_SCORE *)
Score(s) == 25 * (5 - Rank(s))

Verdicts == {"true_positive", "escalated"}   \* false_positive is like the first
NoRow == [status |-> "absent", created |-> 0]

Stays(table) == {a \in AlertId : table[a].status # "absent"}

NoRequest == [what |-> "none"]
AuditPages == [what : {"audit"}, search : {"any", "note_added"}]

(* alert_filters: the WHERE clause of a list; the filters on source,        *)
(* assignee and created_after are further columns of the same kind.         *)
Matching(table, q) ==
    {a \in Stays(table) :
        /\ q.view = "open" => table[a].status = "open"
        /\ q.severity # "any" => Severity[a] = q.severity}

(* The audit page's search: ILIKE on the action. *)
AuditMatching(trail, q) ==
    {r.id : r \in {e \in trail : q.search # "any" => e.action = q.search}}

(* What the reader is looking at. *)
Watched(table, trail) ==
    IF ask.what = "list" THEN Matching(table, ask)
    ELSE IF ask.what = "audit" THEN AuditMatching(trail, ask)
    ELSE Stays(table)

(* _SEVERITY_ORDER: the pairs of alerts whose order it fixes. *)
SeverityOrder ==
    {p \in AlertId \X AlertId :
        \/ Rank(Severity[p[1]]) < Rank(Severity[p[2]])
        \/ /\ Rank(Severity[p[1]]) = Rank(Severity[p[2]])
           /\ alerts[p[1]].created > alerts[p[2]].created}

(* ORDER BY al.created_at DESC. *)
NewestFirst == {<<p[1].id, p[2].id>> : p \in {q \in audit \X audit : q[1].at > q[2].at}}

(* The results an ORDER BY allows: equals in any order, in each query anew. *)
Readings(ids, order) ==
    {s \in SetToSeqs(ids) :
        \A i, j \in 1..Len(s) : i < j => <<s[j], s[i]>> \notin order}

Equals(ids, order) ==
    {a \in ids : \E b \in ids \ {a} : <<a, b>> \notin order /\ <<b, a>> \notin order}

(* Fault: the offset of page n is n pages. *)
FaultOffset(n, size) == n * size

Offset(n, size) == (n - 1) * size

(* Fault: LIMIT size + 1, to see whether there is a next page. *)
FaultSlice(s, n, size) ==
    {s[i] : i \in {k \in 1..Len(s) : Offset(n, size) < k /\ k <= Offset(n, size) + size + 1}}

(* LIMIT size OFFSET (n - 1) * size: of an ordered result, the rows of page n. *)
Slice(s, n, size) ==
    {s[i] : i \in {k \in 1..Len(s) : Offset(n, size) < k /\ k <= Offset(n, size) + size}}

-----------------------------------------------------------------------------
(* The reader: an API client that walks through a list, an admin who leafs  *)
(* through the audit page, a dashboard that loads its figures.              *)
NoFigures ==
    [total |-> 0, open |-> 0, bySeverity |-> [s \in Severities |-> 0],
     escalated |-> 0, triaged |-> 0, acted |-> 0,
     considered |-> 0, breaches |-> 0, began |-> 0, asOf |-> 0]

NoResponse ==
    /\ total' = 0
    /\ rows' = {}
    /\ got' = {}
    /\ repeated' = {}
    /\ figures' = NoFigures
    /\ slaRows' = {}
    /\ layer' = <<>>
    /\ groups' = {}

Begin(q, statement, first) ==
    /\ step = "idle"
    /\ ask' = q
    /\ step' = statement
    /\ page' = first
    /\ NoResponse
    /\ steady' = IF q.what = "list" THEN Matching(alerts, q)
                 ELSE IF q.what = "audit" THEN AuditMatching(audit, q)
                 ELSE Stays(alerts)
    /\ UNCHANGED <<clock, tables, left, came, inside, tied, changed>>

(* GET /api/alerts and /api/alerts/all; the client may begin at any page. *)
AskList == \E q \in Lists : Begin(q, "count", q.first)
AskAudit == \E q \in AuditPages : Begin(q, "entries", 1)
AskStats == Begin([what |-> "stats"], "total", 1)
AskLayer == Begin([what |-> "layer"], "techniques", 1)

(* The reader goes on with a response: what it remembers of the request is  *)
(* gone.                                                                    *)
Leave ==
    /\ step = "answered"
    /\ ask' = NoRequest
    /\ step' = "idle"
    /\ page' = 1
    /\ NoResponse
    /\ steady' = {}
    /\ left' = 0
    /\ came' = 0
    /\ inside' = 0
    /\ tied' = {}
    /\ changed' = 0
    /\ UNCHANGED <<clock, tables>>

Goto(statement) == step' = statement /\ UNCHANGED <<ask, page>>

Return(ids, order, size) ==
    /\ \E s \in Readings(ids, order) : rows' = Slice(s, page, size)
    /\ got' = got \cup rows'
    /\ repeated' = repeated \cup (got \cap rows')
    /\ tied' = tied \cup Equals(ids, order)

-----------------------------------------------------------------------------
(* _list_alerts: the COUNT and the rows are two statements. *)
ListCount ==
    /\ step = "count"
    /\ total' = Cardinality(Matching(alerts, ask))
    /\ Goto("rows")
    /\ UNCHANGED <<clock, tables, rows, got, repeated, figures, slaRows, layerVars, history>>

ListRows ==
    /\ step = "rows"
    /\ Return(Matching(alerts, ask), SeverityOrder, PerPage)
    /\ Goto("answered")
    /\ UNCHANGED <<clock, tables, total, figures, slaRows, layerVars,
                   steady, left, came, inside, changed>>

(* Fault: a last page that is not full does not count. *)
FaultTotalPages(count) == count \div PerPage

TotalPages(count) == IF count = 0 THEN 0 ELSE (count + PerPage - 1) \div PerPage

Turn(statement) ==
    /\ step = "answered"
    /\ page' = page + 1
    /\ step' = statement
    /\ UNCHANGED <<clock, tables, ask, total, rows, got, repeated, figures, slaRows, layerVars,
                   history>>

ListNextPage == ask.what = "list" /\ page < TotalPages(total) /\ Turn("count")

(* audit_log_page: the rows first, then a COUNT of the whole log, whatever  *)
(* the search.                                                              *)
AuditEntries ==
    /\ step = "entries"
    /\ Return(AuditMatching(audit, ask), NewestFirst, AuditPerPage)
    /\ Goto("size")
    /\ UNCHANGED <<clock, tables, total, figures, slaRows, layerVars,
                   steady, left, came, inside, changed>>

AuditCount ==
    /\ step = "size"
    /\ total' = Cardinality(audit)
    /\ Goto("answered")
    /\ UNCHANGED <<clock, tables, rows, got, repeated, figures, slaRows, layerVars, history>>

(* Fault: no link from the page before the last. *)
FaultHasNext(n, count) == (n + 1) * AuditPerPage < count

(* The "Next" link of audit.html. *)
HasNext(n, count) == n * AuditPerPage < count

AuditNextPage == ask.what = "audit" /\ HasNext(page, total) /\ Turn("entries")

-----------------------------------------------------------------------------
(* api_stats.  The breakdowns by category and by source are statements like *)
(* the one by severity; the list of assignees and the averages of the MTTR  *)
(* table are left out, its number of actions is kept.  now() is the start   *)
(* of the transaction, which is its first statement.                        *)
InStatus(set) == Cardinality({a \in AlertId : alerts[a].status \in set})

StatsTotal ==
    /\ step = "total"
    /\ figures' = [figures EXCEPT !.total = InStatus({"open"} \cup Verdicts),
                                  !.began = clock]
    /\ Goto("open")
    /\ UNCHANGED <<clock, tables, total, rows, got, repeated, slaRows, layerVars, history>>

StatsOpen ==
    /\ step = "open"
    /\ figures' = [figures EXCEPT !.open = InStatus({"open"})]
    /\ Goto("breakdown")
    /\ UNCHANGED <<clock, tables, total, rows, got, repeated, slaRows, layerVars, history>>

StatsBySeverity ==
    /\ step = "breakdown"
    /\ figures' = [figures EXCEPT !.bySeverity =
            [s \in Severities |-> Cardinality({a \in Stays(alerts) : Severity[a] = s})]]
    /\ Goto("escalation")
    /\ UNCHANGED <<clock, tables, total, rows, got, repeated, slaRows, layerVars, history>>

StatsEscalation ==
    /\ step = "escalation"
    /\ figures' = [figures EXCEPT !.escalated = InStatus({"escalated"}),
                                  !.triaged = InStatus(Verdicts)]
    /\ Goto("mttr")
    /\ UNCHANGED <<clock, tables, total, rows, got, repeated, slaRows, layerVars, history>>

StatsMttr ==
    /\ step = "mttr"
    /\ figures' = [figures EXCEPT !.acted =
            Cardinality({r \in actions : r.at >= figures.began - Week})]
    /\ Goto("sla")
    /\ UNCHANGED <<clock, tables, total, rows, got, repeated, slaRows, layerVars, history>>

NotYet == -1   \* resp is NULL

Responses(a) == {r.resp : r \in {x \in actions : x.alert = a}}

(* Fault: JOIN for LEFT JOIN, alerts without an action drop out. *)
FaultSlaJoin(a) == {m \in Responses(a) : \A n \in Responses(a) : m <= n}

(* LEFT JOIN (SELECT alert_id, min(response_time_seconds) ... GROUP BY alert_id) *)
SlaJoin(a) ==
    IF Responses(a) = {} THEN {NotYet}
    ELSE {m \in Responses(a) : \A n \in Responses(a) : m <= n}

StatsSla ==
    /\ step = "sla"
    /\ slaRows' = {[alert |-> p[1], created |-> alerts[p[1]].created, resp |-> p[2]] :
                     p \in {q \in Stays(alerts) \X (0..MaxClock \cup {NotYet}) :
                              q[2] \in SlaJoin(q[1])}}
    /\ Goto("compute")
    /\ UNCHANGED <<clock, tables, total, rows, got, repeated, figures, layerVars, history>>

Elapsed(r, now) == IF r.resp = NotYet THEN now - r.created ELSE r.resp

(* compute_sla, after the transaction and with Python's clock; the response *)
(* goes out.                                                                *)
ComputeSla ==
    /\ step = "compute"
    /\ figures' = [figures EXCEPT
            !.considered = Cardinality(slaRows),
            !.breaches = Cardinality({r \in slaRows :
                                        Elapsed(r, clock) > Target[Severity[r.alert]]}),
            !.asOf = clock]
    /\ Goto("answered")
    /\ UNCHANGED <<clock, tables, total, rows, got, repeated, slaRows, layerVars, history>>

-----------------------------------------------------------------------------
(* api_navigator_layer: one statement, then a loop over its groups, which   *)
(* come in any order.  Ingest takes any category; the loop passes over one  *)
(* that has no technique.                                                   *)
Groups == {<<Category[a], Severity[a]>> : a \in Stays(alerts)}

CATEGORY_MITRE ==
    [brute_force |-> "T1110.001", port_scan |-> "T1046", malware |-> "T1059",
     phishing |-> "T1566", anomaly |-> "T1078"]

WithScore(techniques, id, score) ==
    [t \in DOMAIN techniques \cup {id} |-> IF t = id THEN score ELSE techniques[t]]

(* Fault: the first group of a technique decides, whatever comes after it. *)
FaultScored(techniques, group) ==
    LET id == CATEGORY_MITRE[group[1]] IN
    IF group[1] \notin DOMAIN CATEGORY_MITRE \/ id \in DOMAIN techniques
      THEN techniques
      ELSE WithScore(techniques, id, Score(group[2]))

Scored(techniques, group) ==
    LET id == CATEGORY_MITRE[group[1]] IN
    IF \/ group[1] \notin DOMAIN CATEGORY_MITRE
       \/ id \in DOMAIN techniques /\ Score(group[2]) <= techniques[id]
      THEN techniques
      ELSE WithScore(techniques, id, Score(group[2]))

ExportLayer ==
    /\ step = "techniques"
    /\ groups' = Groups
    /\ Goto("scores")
    /\ UNCHANGED <<clock, tables, total, rows, got, repeated, figures, slaRows, layer, history>>

ScoreGroup ==
    /\ step = "scores"
    /\ \E group \in groups :
         /\ layer' = Scored(layer, group)
         /\ groups' = groups \ {group}
    /\ UNCHANGED <<clock, tables, ask, step, page, total, rows, got, repeated, figures, slaRows,
                   history>>

LayerScored ==
    /\ step = "scores"
    /\ groups = {}
    /\ Goto("answered")
    /\ UNCHANGED <<clock, tables, total, rows, got, repeated, figures, slaRows, layerVars, history>>

-----------------------------------------------------------------------------
(* What others commit meanwhile. *)
Write ==
    /\ writes < MaxWrites
    /\ writes' = writes + 1

StartedAt == {clock - 1, clock} \cap Nat

(* History: how a commit that inserts, updates or deletes the alerts        *)
(* touched changes what the reader is looking at.                           *)
Observe(table, trail, touched) ==
    LET old == Watched(alerts, audit)
        new == Watched(table, trail)
    IN  IF step = "idle" THEN UNCHANGED history
        ELSE /\ steady' = steady \cap new
             /\ left' = left + Cardinality(old \ new)
             /\ came' = came + Cardinality(new \ old)
             /\ inside' = IF step = "rows" THEN inside + Cardinality(new \ old) ELSE inside
             /\ changed' = changed + Cardinality(touched)
             /\ UNCHANGED tied

(* _insert_alert *)
Ingest ==
    /\ Write
    /\ nextAlert \in AlertId
    /\ nextAlert' = nextAlert + 1
    /\ \E at \in StartedAt :
         alerts' = [alerts EXCEPT ![nextAlert] = [status |-> "open", created |-> at]]
    /\ Observe(alerts', audit, {nextAlert})
    /\ UNCHANGED <<clock, actions, audit, ask, step, response>>

(* api_classify; the status it checked may have been overtaken (module      *)
(* Triage), so the alert need not be open any more.                         *)
Classify ==
    /\ Write
    /\ \E a \in Stays(alerts), verdict \in Verdicts, at \in StartedAt :
         /\ alerts' = [alerts EXCEPT ![a].status = verdict]
         /\ actions' = actions \cup {[id |-> writes', alert |-> a,
                at |-> at,
                resp |-> IF at < alerts[a].created THEN 0 ELSE at - alerts[a].created]}
         /\ audit' = audit \cup {[id |-> writes', alert |-> a, action |-> verdict, at |-> at]}
         /\ Observe(alerts', audit', {a})
    /\ UNCHANGED <<clock, nextAlert, ask, step, response>>

(* api_add_note *)
AddNote ==
    /\ Write
    /\ \E a \in Stays(alerts), at \in StartedAt :
         audit' = audit \cup {[id |-> writes', alert |-> a, action |-> "note_added", at |-> at]}
    /\ Observe(alerts, audit', {})
    /\ UNCHANGED <<clock, alerts, actions, nextAlert, ask, step, response>>

(* purge_old_alerts in a worker that boots. *)
Purge ==
    LET gone == {a \in Stays(alerts) : alerts[a].created < clock - Retention}
        kept == {r \in audit : r.alert \notin gone}
    IN  /\ Write
        /\ gone # {}
        /\ alerts' = [a \in AlertId |-> IF a \in gone THEN NoRow ELSE alerts[a]]
        /\ actions' = {r \in actions : r.alert \notin gone}
        /\ audit' = kept
        /\ Observe(alerts', kept, gone)
        /\ UNCHANGED <<clock, nextAlert, ask, step, response>>

Tick ==
    /\ clock < MaxClock
    /\ clock' = clock + 1
    /\ UNCHANGED <<tables, ask, step, response, history>>

-----------------------------------------------------------------------------
(* The first request finds rows that have been ingested over time, or the   *)
(* demo rows of seed.py: some closed by an action that has no audit row.    *)
Init ==
    /\ clock = 1
    /\ \E created \in [1..Stored -> {0, 1}], closed \in {{}, Demo} :
         /\ alerts = [a \in AlertId |->
              IF a > Stored THEN NoRow
              ELSE [status |-> IF a \in closed THEN "escalated" ELSE "open",
                    created |-> created[a]]]
         /\ actions = {[id |-> 0, alert |-> a, at |-> created[a], resp |-> 0] : a \in closed}
    /\ audit = {}
    /\ nextAlert = Stored + 1
    /\ writes = 0
    /\ ask = NoRequest
    /\ step = "idle"
    /\ page = 1
    /\ total = 0
    /\ rows = {}
    /\ got = {}
    /\ repeated = {}
    /\ figures = NoFigures
    /\ slaRows = {}
    /\ layer = <<>>
    /\ groups = {}
    /\ steady = {}
    /\ left = 0
    /\ came = 0
    /\ inside = 0
    /\ tied = {}
    /\ changed = 0

Reader ==
    \/ AskList
    \/ AskAudit
    \/ AskStats
    \/ AskLayer
    \/ ListCount
    \/ ListRows
    \/ ListNextPage
    \/ AuditEntries
    \/ AuditCount
    \/ AuditNextPage
    \/ StatsTotal
    \/ StatsOpen
    \/ StatsBySeverity
    \/ StatsEscalation
    \/ StatsMttr
    \/ StatsSla
    \/ ComputeSla
    \/ ExportLayer
    \/ ScoreGroup
    \/ LayerScored
    \/ Leave

Next == Reader \/ Ingest \/ Classify \/ AddNote \/ Purge \/ Tick

Spec == Init /\ [][Next]_vars

-----------------------------------------------------------------------------
(* Properties *)

Steps == {"idle", "count", "rows", "entries", "size", "total", "open", "breakdown",
          "escalation", "mttr", "sla", "compute", "techniques", "scores", "answered"}

TypeOK ==
    /\ clock \in 0..MaxClock
    /\ alerts \in [AlertId -> [status : Verdicts \cup {"open"}, created : Nat] \cup {NoRow}]
    /\ actions \subseteq [id : Nat, alert : AlertId, at : Nat, resp : Nat]
    /\ audit \subseteq [id : Nat, alert : AlertId,
                        action : Verdicts \cup {"note_added"}, at : Nat]
    /\ nextAlert \in Nat /\ writes \in 0..MaxWrites
    /\ ask \in {NoRequest, [what |-> "stats"], [what |-> "layer"]} \cup Lists \cup AuditPages
    /\ step \in Steps
    /\ page \in Nat /\ total \in Nat
    /\ rows \subseteq Nat /\ got \subseteq Nat /\ repeated \subseteq Nat
    /\ figures \in [total : Nat, open : Nat, bySeverity : [Severities -> Nat],
                    escalated : Nat, triaged : Nat, acted : Nat,
                    considered : Nat, breaches : Nat, began : Nat, asOf : Nat]
    /\ slaRows \subseteq [alert : AlertId, created : Nat, resp : Nat \cup {NotYet}]
    /\ \A t \in DOMAIN layer : layer[t] \in {25, 50, 75, 100}
    /\ groups \subseteq {<<Category[a], Severity[a]>> : a \in AlertId}
    /\ steady \subseteq Nat /\ tied \subseteq Nat
    /\ left \in Nat /\ came \in Nat /\ inside \in Nat /\ changed \in Nat

Answered(what) == step = "answered" /\ ask.what = what

WalkOver == Answered("list") /\ ask.first = 1 /\ page >= TotalPages(total)

(* An API client that walks through a list page by page misses a row that   *)
(* is in it all the time only if another row left the list, which pulls the *)
(* later ones forward by one place, or entered it between the COUNT and the *)
(* SELECT of a response, whose total_pages then ends the walk too early.    *)
(* Rows the ORDER BY does not tell apart are excepted.                      *)
WalkMissesNothing == WalkOver => Cardinality(steady \ (got \cup tied)) <= left + inside

(* Walking, forwards, shows a row twice only if another row entered before  *)
(* it; again apart from rows of equal severity and time.                    *)
WalkRepeatsNothing == step = "answered" => Cardinality(repeated \ tied) <= came

(* The admin who follows "Next" to the end of the audit log, or of a search *)
(* in it, has seen every entry that was there all the time, unless a purge  *)
(* took entries away: the rows are read before the COUNT, and the COUNT     *)
(* includes at least the entries that match.                                *)
AuditReachesAll ==
    Answered("audit") /\ ~HasNext(page, total)
        => Cardinality(steady \ (got \cup tied)) <= left

(* While the list does not change, a page before total_pages is full, the   *)
(* last one has what is left, and later ones are empty: at no rows, at a    *)
(* full last page, and for a client that begins beyond the end.             *)
EnvelopeFits ==
    Answered("list") /\ left = 0 /\ came = 0 =>
        /\ page < TotalPages(total) => Cardinality(rows) = PerPage
        /\ page = TotalPages(total) =>
             /\ rows # {}
             /\ Cardinality(rows) = total - (page - 1) * PerPage
        /\ page > TotalPages(total) => rows = {}

Near(m, n) == m <= n + changed /\ n <= m + changed

(* What the SLA comment defines: triaged later than the target, or open and *)
(* older than it.                                                           *)
Overdue(a, now) ==
    IF alerts[a].status = "open"
      THEN now - alerts[a].created > Target[Severity[a]]
      ELSE \A m \in Responses(a) : m > Target[Severity[a]]

(* The figures of one /api/stats response come from statements that see     *)
(* different states.  They contradict each other by no more than the number *)
(* of alerts rows that changed during the request: closed (total - open)    *)
(* and triaged, the breakdown and the total, the SLA's alerts and the       *)
(* total; closed is negative only if alerts came in; every triaged alert    *)
(* has an action in the MTTR table, unless some action is older than its    *)
(* week.  The breaches are the alerts that are overdue at the moment        *)
(* compute_sla looked at its own clock, although they come from a join      *)
(* whose rows may outnumber the alerts.                                     *)
FiguresFit ==
    Answered("stats") =>
        /\ Near(figures.total - figures.open, figures.triaged)
        /\ Near(figures.total, figures.bySeverity["CRITICAL"] + figures.bySeverity["HIGH"]
                                 + figures.bySeverity["MEDIUM"] + figures.bySeverity["LOW"])
        /\ Near(figures.total, figures.considered)
        /\ figures.open <= figures.total + came
        /\ figures.escalated <= figures.triaged
        /\ (\A r \in actions : r.at >= figures.began - Week)
             => figures.triaged <= figures.acted + changed
        /\ Near(figures.breaches,
                Cardinality({a \in Stays(alerts) : Overdue(a, figures.asOf)}))

(* The alerts whose category has a technique. *)
InLayer == {a \in Stays(alerts) : Category[a] \in DOMAIN CATEGORY_MITRE}
Technique(a) == CATEGORY_MITRE[Category[a]]

(* The navigator layer has the techniques of the mapped categories and no   *)
(* others, each scored by its worst alert, in whatever order the groups     *)
(* come and whatever else is in the table.                                  *)
LayerShowsWorst ==
    Answered("layer") /\ changed = 0 =>
        /\ DOMAIN layer = {Technique(a) : a \in InLayer}
        /\ \A a \in InLayer : layer[Technique(a)] >= Score(Severity[a])
        /\ \A t \in DOMAIN layer : \E a \in InLayer :
             Technique(a) = t /\ layer[t] = Score(Severity[a])

(* tests/test_pagination.py: "page 1 and page 2 should not share alerts".   *)
(* The pages of a list that does not change have no row in common.          *)
PagesDisjoint == ask.what = "list" /\ left = 0 /\ came = 0 => repeated = {}

=============================================================================
