---------------------------- MODULE ReadsProofs ----------------------------
(***************************************************************************)
(* What holds of Reads for any alerts, categories, page sizes, targets and  *)
(* bounds, whatever others commit between the statements of a response.     *)
(***************************************************************************)
EXTENDS Reads, FiniteSetTheorems, WellFoundedInduction, TLAPS

(* What the tables keep, whoever writes: only stored alerts have actions    *)
(* and audit rows, an id is never given again, and an alert is open exactly *)
(* as long as it has no action.                                             *)
TablesInv ==
    /\ IsFiniteSet(actions) /\ IsFiniteSet(audit)
    /\ nextAlert # 0 /\ \A a \in AlertId : a >= nextAlert => alerts[a] = NoRow
    /\ \A r \in actions : r.alert \in Stays(alerts) /\ r.resp <= MaxClock
    /\ \A a \in Stays(alerts) : alerts[a].status = "open" <=> Responses(a) = {}

(* Every request has its own statements. *)
Statements ==
    [none |-> {"idle"},
     list |-> {"count", "rows", "answered"},
     audit |-> {"entries", "size", "answered"},
     stats |-> {"total", "open", "breakdown", "escalation", "mttr", "sla", "compute", "answered"},
     layer |-> {"techniques", "scores", "answered"}]

RequestInv ==
    /\ ask.what \in DOMAIN Statements /\ step \in Statements[ask.what]
    /\ page # 0

(* The groups whose category has a technique. *)
Mapped(scored) == {g \in scored : g[1] \in DOMAIN CATEGORY_MITRE}
TechniqueOf(g) == CATEGORY_MITRE[g[1]]

(* While no alert has changed the layer has what the scored groups say. *)
LayerFits(techniques, scored) ==
    /\ DOMAIN techniques = {TechniqueOf(g) : g \in scored}
    /\ \A g \in scored : techniques[TechniqueOf(g)] >= Score(g[2])
    /\ \A t \in DOMAIN techniques : \E g \in scored :
         TechniqueOf(g) = t /\ techniques[t] = Score(g[2])

LayerInv ==
    ask.what = "layer" =>
        /\ step = "techniques" => layer = <<>>
        /\ step = "answered" => groups = {}
        /\ step \in {"scores", "answered"} /\ changed = 0 =>
             groups \subseteq Groups /\ LayerFits(layer, Mapped(Groups \ groups))

(* How many rows a page has, of a list with this many. *)
RowsOn(n, count) ==
    IF count <= Offset(n, PerPage) THEN 0
    ELSE IF count <= Offset(n, PerPage) + PerPage THEN count - Offset(n, PerPage)
    ELSE PerPage

EnvelopeInv ==
    ask.what = "list" /\ left = 0 /\ came = 0 =>
        /\ step = "rows" => total = Cardinality(Matching(alerts, ask))
        /\ step = "answered" => IsFiniteSet(rows) /\ Cardinality(rows) = RowsOn(page, total)

-----------------------------------------------------------------------------
(* What a figure says is off from what the tables say now by no more than   *)
(* the alerts that have changed.                                            *)
Closed == {a \in AlertId : alerts[a].status \in Verdicts}

Forgotten ==
    {a \in Closed : \A r \in actions : r.alert = a => r.at < figures.began - Week}

SlaOf(a) ==
    IF a \in Stays(alerts)
      THEN {[alert |-> a, created |-> alerts[a].created, resp |-> m] : m \in SlaJoin(a)}
      ELSE {}

Outdated == {a \in AlertId : {r \in slaRows : r.alert = a} # SlaOf(a)}

LateNow == {a \in Stays(alerts) : Overdue(a, figures.asOf)}

BySeverity ==
    figures.bySeverity["CRITICAL"] + figures.bySeverity["HIGH"]
      + figures.bySeverity["MEDIUM"] + figures.bySeverity["LOW"]

TotalInv ==
    /\ Near(figures.total, Cardinality(Stays(alerts)))
    /\ Cardinality(Stays(alerts)) <= figures.total + came

OpenInv ==
    /\ Near(figures.total - figures.open, Cardinality(Closed))
    /\ figures.open <= figures.total + came

EscalationInv ==
    /\ Near(figures.total - figures.open, figures.triaged)
    /\ figures.escalated <= figures.triaged
    /\ figures.triaged <= Cardinality(Closed) + changed

MttrInv == figures.triaged <= figures.acted + Cardinality(Forgotten) + changed

SlaInv ==
    /\ IsFiniteSet(slaRows) /\ Near(figures.total, Cardinality(slaRows))
    /\ \A r, s \in slaRows : r.alert = s.alert => r = s

FiguresInv ==
    ask.what = "stats" =>
        /\ step # "total" => TotalInv
        /\ step \notin {"total", "open"} => OpenInv
        /\ step \notin {"total", "open", "breakdown"} => Near(figures.total, BySeverity)
        /\ step \in {"mttr", "sla", "compute", "answered"} => EscalationInv
        /\ step \in {"sla", "compute", "answered"} => MttrInv
        /\ step = "compute" => SlaInv /\ Cardinality(Outdated) <= changed
        /\ step = "answered" =>
             /\ Near(figures.total, figures.considered)
             /\ Near(figures.breaches, Cardinality(LateNow))

ReadsInv == TypeOK /\ TablesInv /\ RequestInv /\ LayerInv /\ EnvelopeInv /\ FiguresInv

-----------------------------------------------------------------------------
(* Sets of alerts, and what an ORDER BY and a LIMIT return *)

LEMMA AlertsFinite ==
    /\ AlertId \subseteq Nat \ {0} /\ IsFiniteSet(AlertId)
    /\ \A S : S \subseteq AlertId => IsFiniteSet(S) /\ Cardinality(S) \in Nat
<1>1. Len(Severity) \in Nat
  BY AlertsAreNumbered
<1>2. AlertId \subseteq Nat \ {0} /\ IsFiniteSet(AlertId)
  <2>1. PICK n \in Nat : n = Len(Severity)
    BY <1>1
  <2>2. IsFiniteSet(1..n) /\ 1..n \subseteq Nat \ {0}
    BY FS_Interval
  <2> QED
    BY <2>1, <2>2 DEF AlertId
<1>3. ASSUME NEW S, S \subseteq AlertId
      PROVE  IsFiniteSet(S) /\ Cardinality(S) \in Nat
  BY <1>2, <1>3, FS_Subset, FS_CardinalityType
<1> QED
  BY <1>2, <1>3

(* Two sets of alerts that differ in the touched ones only. *)
LEMMA Drift ==
    ASSUME NEW touched, touched \subseteq AlertId, NEW S, S \subseteq AlertId,
           NEW T, T \subseteq AlertId, S \subseteq T \cup touched
    PROVE  /\ Cardinality(S) <= Cardinality(T) + Cardinality(touched)
           /\ Cardinality(S) \in Nat /\ Cardinality(T) \in Nat /\ Cardinality(touched) \in Nat
<1>1. /\ IsFiniteSet(S) /\ IsFiniteSet(T) /\ IsFiniteSet(touched)
      /\ Cardinality(S) \in Nat /\ Cardinality(T) \in Nat /\ Cardinality(touched) \in Nat
  BY AlertsFinite
<1>2. /\ IsFiniteSet(T \cup touched)
      /\ Cardinality(T \cup touched)
           = Cardinality(T) + Cardinality(touched) - Cardinality(T \cap touched)
      /\ Cardinality(T \cup touched) \in Nat /\ Cardinality(T \cap touched) \in Nat
  BY <1>1, FS_Union, FS_Intersection, FS_CardinalityType
<1>3. Cardinality(S) <= Cardinality(T \cup touched)
  BY <1>2, FS_Subset
<1> QED
  BY <1>1, <1>2, <1>3

(* A reading has every row once. *)
LEMMA ReadingOnce ==
    ASSUME NEW ids, IsFiniteSet(ids), NEW order, NEW s \in Readings(ids, order)
    PROVE  /\ s \in [1..Cardinality(ids) -> ids] /\ Len(s) = Cardinality(ids)
           /\ Cardinality(ids) \in Nat
           /\ \A i, j \in 1..Cardinality(ids) : s[i] = s[j] => i = j
           /\ \A a \in ids : \E i \in 1..Cardinality(ids) : s[i] = a
           /\ \A i, j \in 1..Cardinality(ids) : i < j => <<s[j], s[i]>> \notin order
<1>1. Cardinality(ids) \in Nat
  BY FS_CardinalityType
<1>2. PICK n \in Nat : n = Cardinality(ids)
  BY <1>1
<1>3. s \in [1..n -> ids] /\ \A i, j \in 1..n : i # j => s[i] # s[j]
  BY <1>2 DEF Readings, SetToSeqs
<1>4. Len(s) = n
  BY <1>3
<1>5. IsFiniteSet(1..n) /\ Cardinality(1..n) = n
  BY FS_Interval
<1>6. s \in Injection(1..n, ids)
  BY <1>3 DEF Injection, IsInjective
<1>7. s \in Surjection(1..n, ids)
  BY <1>2, <1>5, <1>6, FS_Injection
<1>8. \A i, j \in 1..n : i < j => <<s[j], s[i]>> \notin order
  BY <1>4 DEF Readings
<1> QED
  BY <1>2, <1>3, <1>4, <1>7, <1>8 DEF Surjection

LEMMA SliceOfRows ==
    ASSUME NEW ids, IsFiniteSet(ids), NEW order, NEW s \in Readings(ids, order), NEW n, NEW size
    PROVE  Slice(s, n, size) \subseteq ids
BY ReadingOnce DEF Slice

-----------------------------------------------------------------------------
(* Types *)

FiguresType ==
    [total : Nat, open : Nat, bySeverity : [Severities -> Nat],
     escalated : Nat, triaged : Nat, acted : Nat,
     considered : Nat, breaches : Nat, began : Nat, asOf : Nat]

SlaRow == [alert : AlertId, created : Nat, resp : Nat \cup {NotYet}]

AuditRows == [id : Nat, alert : AlertId, action : Verdicts \cup {"note_added"}, at : Nat]

TablesType ==
    /\ clock \in 0..MaxClock
    /\ alerts \in [AlertId -> [status : Verdicts \cup {"open"}, created : Nat] \cup {NoRow}]
    /\ actions \subseteq [id : Nat, alert : AlertId, at : Nat, resp : Nat]
    /\ audit \subseteq AuditRows
    /\ nextAlert \in Nat /\ writes \in 0..MaxWrites

AskType ==
    /\ ask \in {NoRequest, [what |-> "stats"], [what |-> "layer"]} \cup Lists \cup AuditPages
    /\ step \in Steps
    /\ page \in Nat

RowsType ==
    /\ total \in Nat
    /\ rows \subseteq Nat /\ got \subseteq Nat /\ repeated \subseteq Nat

LayerType ==
    /\ \A t \in DOMAIN layer : layer[t] \in {25, 50, 75, 100}
    /\ groups \subseteq {<<Category[a], Severity[a]>> : a \in AlertId}

HistoryType ==
    /\ steady \subseteq Nat /\ tied \subseteq Nat
    /\ left \in Nat /\ came \in Nat /\ inside \in Nat /\ changed \in Nat

LEMMA TypeParts ==
    TypeOK <=> /\ TablesType /\ AskType /\ RowsType /\ LayerType /\ HistoryType
               /\ figures \in FiguresType /\ slaRows \subseteq SlaRow
BY DEF TypeOK, TablesType, AskType, RowsType, LayerType, HistoryType, FiguresType, SlaRow,
       AuditRows

LEMMA TypePartsNext ==
    ASSUME TablesType', AskType', RowsType', LayerType', HistoryType',
           figures' \in FiguresType, slaRows' \subseteq SlaRow
    PROVE  TypeOK'
BY DEF TypeOK, TablesType, AskType, RowsType, LayerType, HistoryType, FiguresType, SlaRow,
       AuditRows

LEMMA MatchingType ==
    ASSUME NEW table, NEW q
    PROVE  Matching(table, q) \subseteq AlertId /\ Stays(table) \subseteq AlertId
BY DEF Matching, Stays

LEMMA AuditMatchingType ==
    ASSUME NEW trail, trail \subseteq AuditRows, NEW q
    PROVE  /\ AuditMatching(trail, q) \subseteq Nat
           /\ IsFiniteSet(trail) => IsFiniteSet(AuditMatching(trail, q))
<1>1. AuditMatching(trail, q) \subseteq Nat
  BY DEF AuditMatching, AuditRows
<1>2. ASSUME IsFiniteSet(trail)
      PROVE  IsFiniteSet(AuditMatching(trail, q))
  <2> DEFINE E == {e \in trail : q.search # "any" => e.action = q.search}
             Id == [e \in E |-> e.id]
  <2>1. IsFiniteSet(E)
    BY <1>2, FS_Subset
  <2>2. Id \in Surjection(E, AuditMatching(trail, q))
    BY DEF AuditMatching, Surjection
  <2> QED
    BY <2>1, <2>2, FS_Surjection
<1> QED
  BY <1>1, <1>2

LEMMA BeginTypes ==
    ASSUME TypeOK, NEW q, NEW statement \in Steps, NEW first \in Nat, Begin(q, statement, first)
    PROVE  /\ RowsType' /\ LayerType' /\ HistoryType'
           /\ figures' \in FiguresType /\ slaRows' \subseteq SlaRow
<1> USE DEF TypeOK
<1>1. RowsType' /\ LayerType' /\ slaRows' \subseteq SlaRow
  BY DEF Begin, NoResponse, RowsType, LayerType
<1>2. figures' \in FiguresType
  <2>1. NoFigures \in FiguresType
    BY DEF NoFigures, FiguresType
  <2> QED
    BY <2>1 DEF Begin, NoResponse
<1>3. HistoryType'
  <2>1. steady' \subseteq Nat
    <3>1. /\ Matching(alerts, q) \subseteq Nat /\ Stays(alerts) \subseteq Nat
          /\ AuditMatching(audit, q) \subseteq Nat
      <4>1. audit \subseteq AuditRows
        BY DEF AuditRows
      <4>2. Matching(alerts, q) \subseteq AlertId /\ Stays(alerts) \subseteq AlertId
        BY MatchingType
      <4> QED
        BY <4>1, <4>2, AuditMatchingType, AlertsFinite
    <3>2. steady' \in {Matching(alerts, q), AuditMatching(audit, q), Stays(alerts)}
      BY DEF Begin
    <3> QED
      BY <3>1, <3>2
  <2> QED
    BY <2>1 DEF Begin, HistoryType
<1> QED
  BY <1>1, <1>2, <1>3

Requests == {NoRequest, [what |-> "stats"], [what |-> "layer"]} \cup Lists \cup AuditPages

LEMMA StatementsAre ==
    /\ DOMAIN Statements = {"none", "list", "audit", "stats", "layer"}
    /\ Statements["none"] = {"idle"}
    /\ Statements["list"] = {"count", "rows", "answered"}
    /\ Statements["audit"] = {"entries", "size", "answered"}
    /\ Statements["stats"] = {"total", "open", "breakdown", "escalation", "mttr", "sla", "compute",
                             "answered"}
    /\ Statements["layer"] = {"techniques", "scores", "answered"}
BY DEF Statements

LEMMA Asked ==
    ASSUME TypeOK, NEW q \in Requests, NEW statement, NEW first \in Nat \ {0},
           Begin(q, statement, first), q.what \in DOMAIN Statements,
           statement \in Statements[q.what], statement \in Steps
    PROVE  /\ AskType' /\ RowsType' /\ LayerType' /\ HistoryType'
           /\ figures' \in FiguresType /\ slaRows' \subseteq SlaRow
           /\ RequestInv' /\ step' = statement /\ ask' = q
<1>1. ask' = q /\ step' = statement /\ page' = first
  BY DEF Begin
<1>2. AskType' /\ RequestInv'
  BY <1>1 DEF AskType, RequestInv, Requests
<1> QED
  BY <1>1, <1>2, BeginTypes

LEMMA AsksType ==
    ASSUME TypeOK, AskList \/ AskAudit \/ AskStats \/ AskLayer
    PROVE  /\ AskType' /\ RowsType' /\ LayerType' /\ HistoryType'
           /\ figures' \in FiguresType /\ slaRows' \subseteq SlaRow
           /\ RequestInv' /\ step' \in {"count", "entries", "total", "techniques"}
           /\ step' = "total" \/ ask'.what # "stats"
<1>1. CASE AskList
  <2>1. PICK q \in Lists : Begin(q, "count", q.first)
    BY <1>1 DEF AskList
  <2>2. q.what = "list" /\ q.first \in Nat \ {0} /\ q \in Requests
    BY ListsAreLegal DEF Requests
  <2>3. "count" \in Steps /\ "count" \in Statements[q.what] /\ q.what \in DOMAIN Statements
    BY <2>2, StatementsAre DEF Steps
  <2> QED
    BY <2>1, <2>2, <2>3, Asked
<1>2. CASE AskAudit
  <2>1. PICK q \in AuditPages : Begin(q, "entries", 1)
    BY <1>2 DEF AskAudit
  <2>2. q.what = "audit" /\ q \in Requests
    BY DEF AuditPages, Requests
  <2>3. "entries" \in Steps /\ "entries" \in Statements[q.what] /\ q.what \in DOMAIN Statements
    BY <2>2, StatementsAre DEF Steps
  <2> QED
    BY <2>1, <2>2, <2>3, Asked
<1>3. CASE AskStats
  <2>1. PICK q : q = [what |-> "stats"]
    OBVIOUS
  <2>2. q.what = "stats" /\ q \in Requests /\ Begin(q, "total", 1)
    BY <1>3, <2>1 DEF AskStats, Requests
  <2>3. "total" \in Steps /\ "total" \in Statements[q.what] /\ q.what \in DOMAIN Statements
    BY <2>2, StatementsAre DEF Steps
  <2> QED
    BY <2>2, <2>3, Asked
<1>4. CASE AskLayer
  <2>1. PICK q : q = [what |-> "layer"]
    OBVIOUS
  <2>2. q.what = "layer" /\ q \in Requests /\ Begin(q, "techniques", 1)
    BY <1>4, <2>1 DEF AskLayer, Requests
  <2>3. /\ "techniques" \in Steps /\ "techniques" \in Statements[q.what]
        /\ q.what \in DOMAIN Statements
    BY <2>2, StatementsAre DEF Steps
  <2> QED
    BY <2>2, <2>3, Asked
<1> QED
  BY <1>1, <1>2, <1>3, <1>4


LEMMA LeaveType ==
    ASSUME TypeOK, Leave
    PROVE  /\ AskType' /\ RowsType' /\ LayerType' /\ HistoryType'
           /\ figures' \in FiguresType /\ slaRows' \subseteq SlaRow
           /\ RequestInv' /\ step' = "idle" /\ ask' = NoRequest
<1>1. ask' = NoRequest /\ step' = "idle" /\ page' = 1
  BY DEF Leave
<1>2. NoRequest.what = "none"
  BY DEF NoRequest
<1>3. AskType' /\ RequestInv'
  BY <1>1, <1>2, StatementsAre DEF AskType, RequestInv, Steps
<1>4. NoFigures \in FiguresType
  BY DEF NoFigures, FiguresType
<1> QED
  BY <1>1, <1>3, <1>4 DEF Leave, NoResponse, RowsType, LayerType, HistoryType

(* The step from one statement of a request to another. *)
LEMMA Statement ==
    ASSUME TypeOK, RequestInv, NEW statement \in Steps, step' = statement, ask' = ask,
           page' \in Nat \ {0},
           statement \in Statements[ask.what]
    PROVE  AskType' /\ RequestInv'
BY DEF TypeOK, AskType, RequestInv

LEMMA WhatIsAsked ==
    ASSUME RequestInv
    PROVE  /\ step \in {"count", "rows"} => ask.what = "list"
           /\ step \in {"entries", "size"} => ask.what = "audit"
           /\ step \in {"total", "open", "breakdown", "escalation", "mttr", "sla", "compute"}
                => ask.what = "stats"
           /\ step \in {"techniques", "scores"} => ask.what = "layer"
           /\ step = "idle" => ask.what = "none"
           /\ step # "idle" => ask.what # "none"
<1>1. ask.what \in {"none", "list", "audit", "stats", "layer"}
  BY StatementsAre DEF RequestInv
<1>2. ask.what = "none" => step \in {"idle"}
  BY StatementsAre DEF RequestInv
<1>3. ask.what = "list" => step \in {"count", "rows", "answered"}
  BY StatementsAre DEF RequestInv
<1>4. ask.what = "audit" => step \in {"entries", "size", "answered"}
  BY StatementsAre DEF RequestInv
<1>5. ask.what = "stats" => step \in {"total", "open", "breakdown", "escalation", "mttr", "sla",
                                     "compute", "answered"}
  BY StatementsAre DEF RequestInv
<1>6. ask.what = "layer" => step \in {"techniques", "scores", "answered"}
  BY StatementsAre DEF RequestInv
<1> QED
  BY <1>1, <1>2, <1>3, <1>4, <1>5, <1>6

LEMMA GotoType ==
    ASSUME TypeOK, RequestInv, NEW statement \in Steps, Goto(statement),
           statement \in Statements[ask.what]
    PROVE  AskType' /\ RequestInv'
BY Statement DEF TypeOK, RequestInv, Goto

LEMMA CountsAreNat ==
    ASSUME TypeOK, TablesInv
    PROVE  /\ \A S : S \subseteq AlertId => IsFiniteSet(S) /\ Cardinality(S) \in Nat
           /\ \A q : /\ IsFiniteSet(Matching(alerts, q))
                     /\ Cardinality(Matching(alerts, q)) \in Nat
                     /\ Matching(alerts, q) \subseteq Nat
                     /\ IsFiniteSet(AuditMatching(audit, q))
                     /\ AuditMatching(audit, q) \subseteq Nat
           /\ Stays(alerts) \subseteq AlertId /\ Stays(alerts) \subseteq Nat
           /\ Cardinality(audit) \in Nat
           /\ \A S : S \subseteq actions => IsFiniteSet(S) /\ Cardinality(S) \in Nat
<1>1. \A S : S \subseteq AlertId => IsFiniteSet(S) /\ Cardinality(S) \in Nat
  BY AlertsFinite
<1>2. \A q : /\ IsFiniteSet(Matching(alerts, q)) /\ Cardinality(Matching(alerts, q)) \in Nat
             /\ Matching(alerts, q) \subseteq Nat /\ Stays(alerts) \subseteq AlertId
  BY <1>1, AlertsFinite, MatchingType
<1>3. audit \subseteq AuditRows /\ IsFiniteSet(audit) /\ IsFiniteSet(actions)
  BY DEF TypeOK, AuditRows, TablesInv
<1>4. \A q : AuditMatching(audit, q) \subseteq Nat /\ IsFiniteSet(AuditMatching(audit, q))
  BY <1>3, AuditMatchingType
<1>5. Cardinality(audit) \in Nat
  BY <1>3, FS_CardinalityType
<1>6. \A S : S \subseteq actions => IsFiniteSet(S) /\ Cardinality(S) \in Nat
  BY <1>3, FS_Subset, FS_CardinalityType
<1> QED
  BY <1>1, <1>2, <1>4, <1>5, <1>6, AlertsFinite

(* The rows of a page, and what the reader has seen with them. *)
LEMMA ReturnType ==
    ASSUME TypeOK, NEW ids \in SUBSET Nat, IsFiniteSet(ids), NEW order, NEW size,
           Return(ids, order, size)
    PROVE  /\ rows' \subseteq Nat /\ got' \subseteq Nat /\ repeated' \subseteq Nat
           /\ tied' \subseteq Nat /\ rows' \subseteq ids
<1>1. PICK s \in Readings(ids, order) : rows' = Slice(s, page, size)
  BY DEF Return
<1>2. rows' \subseteq ids
  BY <1>1, SliceOfRows
<1> QED
  BY <1>2 DEF Return, TypeOK, Equals

LEMMA PagingType ==
    ASSUME TypeOK, TablesInv, RequestInv,
           \/ ListCount \/ ListRows \/ ListNextPage \/ AuditEntries \/ AuditCount \/ AuditNextPage
    PROVE  TypeOK' /\ RequestInv' /\ UNCHANGED <<clock, tables>>
<1>1. UNCHANGED <<clock, tables, figures, slaRows, layerVars>>
  BY DEF ListCount, ListRows, ListNextPage, AuditEntries, AuditCount, AuditNextPage, Turn
<1>2. TablesType' /\ LayerType' /\ figures' \in FiguresType /\ slaRows' \subseteq SlaRow
  <2>1. TablesType /\ LayerType /\ figures \in FiguresType /\ slaRows \subseteq SlaRow
    BY TypeParts
  <2> QED
    BY <1>1, <2>1 DEF TablesType, LayerType, tables, layerVars
<1>3. RowsType' /\ HistoryType'
  <2>1. CASE ListCount \/ AuditCount
    <3>1. total' \in Nat /\ UNCHANGED <<rows, got, repeated, history>>
      BY <2>1, CountsAreNat DEF ListCount, AuditCount
    <3> QED
      BY <3>1 DEF TypeOK, RowsType, HistoryType, history
  <2>2. CASE ListRows
    <3>1. /\ rows' \subseteq Nat /\ got' \subseteq Nat /\ repeated' \subseteq Nat
          /\ tied' \subseteq Nat
      BY <2>2, CountsAreNat, ReturnType DEF ListRows
    <3> QED
      BY <2>2, <3>1 DEF TypeOK, ListRows, RowsType, HistoryType
  <2>3. CASE AuditEntries
    <3>1. /\ rows' \subseteq Nat /\ got' \subseteq Nat /\ repeated' \subseteq Nat
          /\ tied' \subseteq Nat
      BY <2>3, CountsAreNat, ReturnType DEF AuditEntries
    <3> QED
      BY <2>3, <3>1 DEF TypeOK, AuditEntries, RowsType, HistoryType
  <2>4. CASE ListNextPage \/ AuditNextPage
    <3>1. UNCHANGED <<total, rows, got, repeated, history>>
      BY <2>4 DEF ListNextPage, AuditNextPage, Turn
    <3> QED
      BY <3>1 DEF TypeOK, RowsType, HistoryType, history
  <2> QED
    BY <2>1, <2>2, <2>3, <2>4
<1>4. AskType' /\ RequestInv'
  <2>1. CASE ListCount
    BY <2>1, WhatIsAsked, StatementsAre, GotoType DEF ListCount, Steps
  <2>2. CASE ListRows
    BY <2>2, WhatIsAsked, StatementsAre, GotoType DEF ListRows, Steps
  <2>3. CASE AuditEntries
    BY <2>3, WhatIsAsked, StatementsAre, GotoType DEF AuditEntries, Steps
  <2>4. CASE AuditCount
    BY <2>4, WhatIsAsked, StatementsAre, GotoType DEF AuditCount, Steps
  <2>5. CASE ListNextPage
    <3>1. page' \in Nat \ {0} /\ ask' = ask /\ step' = "count" /\ ask.what = "list"
      BY <2>5 DEF ListNextPage, Turn, TypeOK
    <3> QED
      BY <3>1, StatementsAre, Statement DEF Steps
  <2>6. CASE AuditNextPage
    <3>1. page' \in Nat \ {0} /\ ask' = ask /\ step' = "entries" /\ ask.what = "audit"
      BY <2>6 DEF AuditNextPage, Turn, TypeOK
    <3> QED
      BY <3>1, StatementsAre, Statement DEF Steps
  <2> QED
    BY <2>1, <2>2, <2>3, <2>4, <2>5, <2>6
<1> QED
  <2>1. TypeOK'
    BY <1>2, <1>3, <1>4, TypePartsNext
  <2> QED
    BY <1>1, <1>4, <2>1


LEMMA StatsType ==
    ASSUME TypeOK, TablesInv, RequestInv,
           \/ StatsTotal \/ StatsOpen \/ StatsBySeverity \/ StatsEscalation \/ StatsMttr
           \/ StatsSla \/ ComputeSla,
           step = "compute" => IsFiniteSet(slaRows)
    PROVE  TypeOK' /\ RequestInv' /\ UNCHANGED <<clock, tables>>
<1>1. UNCHANGED <<clock, tables, total, rows, got, repeated, layerVars, history>>
  BY DEF StatsTotal, StatsOpen, StatsBySeverity, StatsEscalation, StatsMttr, StatsSla, ComputeSla
<1>2. TablesType' /\ LayerType' /\ RowsType' /\ HistoryType'
  <2>1. TablesType /\ LayerType /\ RowsType /\ HistoryType
    BY TypeParts
  <2> QED
    BY <1>1, <2>1 DEF TablesType, LayerType, RowsType, HistoryType, tables, layerVars, history
<1>3. figures' \in FiguresType
  <2>1. figures \in FiguresType /\ clock \in Nat
    BY TypeParts, ReadsBounds DEF TypeOK
  <2>2. \A set : InStatus(set) \in Nat
    BY AlertsFinite DEF InStatus
  <2>3. CASE StatsTotal
    BY <2>1, <2>2, <2>3 DEF StatsTotal, FiguresType
  <2>4. CASE StatsOpen
    BY <2>1, <2>2, <2>4 DEF StatsOpen, FiguresType
  <2>5. CASE StatsBySeverity
    <3>1. \A s \in Severities : Cardinality({a \in Stays(alerts) : Severity[a] = s}) \in Nat
      BY CountsAreNat
    <3> QED
      BY <2>1, <2>5, <3>1 DEF StatsBySeverity, FiguresType
  <2>6. CASE StatsEscalation
    BY <2>1, <2>2, <2>6 DEF StatsEscalation, FiguresType
  <2>7. CASE StatsMttr
    <3>1. Cardinality({r \in actions : r.at >= figures.began - Week}) \in Nat
      BY CountsAreNat
    <3> QED
      BY <2>1, <2>7, <3>1 DEF StatsMttr, FiguresType
  <2>8. CASE StatsSla
    BY <2>1, <2>8 DEF StatsSla
  <2>9. CASE ComputeSla
    <3>1. /\ Cardinality(slaRows) \in Nat
          /\ Cardinality({r \in slaRows : Elapsed(r, clock) > Target[Severity[r.alert]]}) \in Nat
      BY <2>9, FS_Subset, FS_CardinalityType DEF ComputeSla
    <3> QED
      BY <2>1, <2>9, <3>1 DEF ComputeSla, FiguresType
  <2> QED
    BY <2>3, <2>4, <2>5, <2>6, <2>7, <2>8, <2>9
<1>4. slaRows' \subseteq SlaRow
  <2>1. CASE StatsSla
    <3>1. \A a \in Stays(alerts) : alerts[a].created \in Nat /\ a \in AlertId
      BY DEF TypeOK, Stays, NoRow
    <3>2. 0..MaxClock \cup {NotYet} \subseteq Nat \cup {NotYet}
      BY ReadsBounds
    <3> QED
      BY <2>1, <3>1, <3>2 DEF StatsSla, SlaRow
  <2>2. CASE ~StatsSla
    BY <2>2 DEF TypeOK, SlaRow, StatsTotal, StatsOpen, StatsBySeverity, StatsEscalation, StatsMttr,
                ComputeSla
  <2> QED
    BY <2>1, <2>2
<1>5. AskType' /\ RequestInv'
  <2>1. PICK statement \in {"open", "breakdown", "escalation", "mttr", "sla", "compute", "answered"} :
          Goto(statement)
    BY DEF StatsTotal, StatsOpen, StatsBySeverity, StatsEscalation, StatsMttr, StatsSla, ComputeSla
  <2>2. ask.what = "stats"
    BY WhatIsAsked DEF StatsTotal, StatsOpen, StatsBySeverity, StatsEscalation, StatsMttr, StatsSla,
                       ComputeSla
  <2>3. statement \in Steps /\ statement \in Statements[ask.what]
    BY <2>1, <2>2, StatementsAre DEF Steps
  <2> QED
    BY <2>1, <2>3, GotoType
<1> QED
  BY <1>1, <1>2, <1>3, <1>4, <1>5, TypePartsNext

(* The score of a group is one of the four of _NAVIGATOR_SCORE. *)
LEMMA Scores ==
    \A s : Score(s) \in {25, 50, 75, 100}
<1>1. \A s : Rank(s) \in {1, 2, 3, 4}
  BY DEF Rank
<1> QED
  BY <1>1 DEF Score

(* A scored group is at its technique; the other techniques keep theirs. *)
ScoredFrom(old, id, score, new) ==
    /\ DOMAIN new = DOMAIN old \cup {id}
    /\ \A t \in DOMAIN old : t # id => new[t] = old[t]
    /\ new[id] >= score
    /\ id \in DOMAIN old => new[id] >= old[id]
    /\ \/ new[id] = score
       \/ id \in DOMAIN old /\ new[id] = old[id]
    /\ \A t \in DOMAIN new : new[t] \in {25, 50, 75, 100}

LEMMA ScoredIs ==
    ASSUME NEW old, NEW group, \A t \in DOMAIN old : old[t] \in {25, 50, 75, 100},
           NEW new, new = Scored(old, group)
    PROVE  IF group[1] \in DOMAIN CATEGORY_MITRE
             THEN ScoredFrom(old, TechniqueOf(group), Score(group[2]), new)
             ELSE new = old
<1>1. PICK id, score : id = TechniqueOf(group) /\ score = Score(group[2])
                       /\ score \in {25, 50, 75, 100}
  BY Scores
<1>2. CASE group[1] \notin DOMAIN CATEGORY_MITRE
  BY <1>2 DEF Scored
<1>3. CASE /\ group[1] \in DOMAIN CATEGORY_MITRE
           /\ id \in DOMAIN old /\ score <= old[id]
  <2>1. new = old
    BY <1>1, <1>3 DEF Scored, TechniqueOf
  <2> QED
    BY <1>1, <1>3, <2>1 DEF ScoredFrom
<1>4. CASE /\ group[1] \in DOMAIN CATEGORY_MITRE
           /\ ~(id \in DOMAIN old /\ score <= old[id])
  <2>1. new = [t \in DOMAIN old \cup {id} |-> IF t = id THEN score ELSE old[t]]
    BY <1>1, <1>4 DEF Scored, WithScore, TechniqueOf
  <2>2. /\ DOMAIN new = DOMAIN old \cup {id} /\ new[id] = score
        /\ \A t \in DOMAIN old : t # id => new[t] = old[t]
    BY <2>1
  <2>3. id \in DOMAIN old => score >= old[id]
    BY <1>1, <1>4
  <2> QED
    BY <1>1, <1>4, <2>2, <2>3 DEF ScoredFrom
<1> QED
  BY <1>2, <1>3, <1>4

LEMMA LayerActionsType ==
    ASSUME TypeOK, RequestInv, ExportLayer \/ ScoreGroup \/ LayerScored
    PROVE  TypeOK' /\ RequestInv' /\ UNCHANGED <<clock, tables, history>>
<1>1. UNCHANGED <<clock, tables, total, rows, got, repeated, figures, slaRows, history>>
  BY DEF ExportLayer, ScoreGroup, LayerScored
<1>2. /\ TablesType' /\ RowsType' /\ HistoryType' /\ figures' \in FiguresType
      /\ slaRows' \subseteq SlaRow
  <2>1. /\ TablesType /\ RowsType /\ HistoryType /\ figures \in FiguresType
        /\ slaRows \subseteq SlaRow
    BY TypeParts
  <2> QED
    BY <1>1, <2>1 DEF TablesType, RowsType, HistoryType, tables, history
<1>3. LayerType'
  <2>1. CASE ExportLayer
    BY <2>1 DEF TypeOK, ExportLayer, LayerType, Groups, Stays
  <2>2. CASE ScoreGroup
    <3>1. PICK group \in groups : layer' = Scored(layer, group) /\ groups' = groups \ {group}
      BY <2>2 DEF ScoreGroup
    <3>2. \A t \in DOMAIN layer : layer[t] \in {25, 50, 75, 100}
      BY DEF TypeOK
    <3>3. PICK old, new : old = layer /\ new = layer'
      OBVIOUS
    <3>4. IF group[1] \in DOMAIN CATEGORY_MITRE
            THEN ScoredFrom(old, TechniqueOf(group), Score(group[2]), new)
            ELSE new = old
      BY <3>1, <3>2, <3>3, ScoredIs
    <3>5. \A t \in DOMAIN new : new[t] \in {25, 50, 75, 100}
      BY <3>2, <3>3, <3>4 DEF ScoredFrom
    <3> QED
      BY <3>1, <3>3, <3>5 DEF TypeOK, LayerType
  <2>3. CASE LayerScored
    BY <2>3 DEF TypeOK, LayerScored, LayerType, layerVars
  <2> QED
    BY <2>1, <2>2, <2>3
<1>4. AskType' /\ RequestInv'
  <2>1. CASE ExportLayer
    BY <2>1, WhatIsAsked, StatementsAre, GotoType DEF ExportLayer, Steps
  <2>2. CASE ScoreGroup
    BY <2>2 DEF TypeOK, RequestInv, ScoreGroup, AskType
  <2>3. CASE LayerScored
    BY <2>3, WhatIsAsked, StatementsAre, GotoType DEF LayerScored, Steps
  <2> QED
    BY <2>1, <2>2, <2>3
<1> QED
  BY <1>1, <1>2, <1>3, <1>4, TypePartsNext


LEMMA ReaderType ==
    ASSUME ReadsInv, Reader
    PROVE  TypeOK' /\ TablesInv' /\ RequestInv' /\ UNCHANGED <<clock, tables>>
<1> USE DEF ReadsInv
<1>1. TypeOK' /\ RequestInv' /\ UNCHANGED <<clock, tables>>
  <2>1. CASE AskList \/ AskAudit \/ AskStats \/ AskLayer
    <3>1. UNCHANGED <<clock, tables>>
      BY <2>1 DEF AskList, AskAudit, AskStats, AskLayer, Begin
    <3>2. TablesType'
      BY <3>1, TypeParts DEF TablesType, tables
    <3> QED
      BY <2>1, <3>1, <3>2, AsksType, TypePartsNext
  <2>2. CASE ListCount \/ ListRows \/ ListNextPage \/ AuditEntries \/ AuditCount \/ AuditNextPage
    BY <2>2, PagingType
  <2>3. CASE \/ StatsTotal \/ StatsOpen \/ StatsBySeverity \/ StatsEscalation \/ StatsMttr
             \/ StatsSla \/ ComputeSla
    <3>1. step = "compute" => IsFiniteSet(slaRows)
      BY WhatIsAsked DEF FiguresInv, SlaInv
    <3> QED
      BY <2>3, <3>1, StatsType
  <2>4. CASE ExportLayer \/ ScoreGroup \/ LayerScored
    BY <2>4, LayerActionsType
  <2>5. CASE Leave
    <3>1. UNCHANGED <<clock, tables>>
      BY <2>5 DEF Leave
    <3>2. TablesType'
      BY <3>1, TypeParts DEF TablesType, tables
    <3> QED
      BY <2>5, <3>1, <3>2, LeaveType, TypePartsNext
  <2> QED
    BY <2>1, <2>2, <2>3, <2>4, <2>5 DEF Reader
<1>2. TablesInv'
  BY <1>1 DEF TablesInv, tables, Stays, Responses
<1> QED
  BY <1>1, <1>2

-----------------------------------------------------------------------------
(* Writers: a commit touches some alerts, and leaves the others and their   *)
(* actions as they are.                                                     *)
Touches(touched) ==
    /\ touched \subseteq AlertId
    /\ \A a \in AlertId \ touched : alerts'[a] = alerts[a]
    /\ \A r : r.alert \notin touched => (r \in actions' <=> r \in actions)
    /\ Observe(alerts', audit', touched)
    /\ UNCHANGED <<clock, ask, step, response>>

LEMMA StartedAtIs ==
    ASSUME TypeOK, NEW at \in StartedAt
    PROVE  at \in Nat /\ at <= MaxClock /\ clock \in Nat
BY ReadsBounds DEF TypeOK, StartedAt

LEMMA IngestWrites ==
    ASSUME TypeOK, TablesInv, Ingest
    PROVE  TablesType' /\ TablesInv' /\ \E touched : Touches(touched)
<1>1. PICK at \in StartedAt :
          alerts' = [alerts EXCEPT ![nextAlert] = [status |-> "open", created |-> at]]
  BY DEF Ingest
<1>2. /\ nextAlert \in AlertId /\ nextAlert' = nextAlert + 1
      /\ writes < MaxWrites /\ writes' = writes + 1
      /\ Observe(alerts', audit, {nextAlert})
      /\ UNCHANGED <<clock, actions, audit, ask, step, response>>
  BY DEF Ingest, Write
<1>3. PICK row : row = [status |-> "open", created |-> at]
  OBVIOUS
<1>4. /\ at \in Nat /\ row \in [status : Verdicts \cup {"open"}, created : Nat]
      /\ row.status = "open"
  BY <1>3, StartedAtIs
<1>5. /\ alerts' \in [AlertId -> [status : Verdicts \cup {"open"}, created : Nat] \cup {NoRow}]
      /\ alerts'[nextAlert] = row
      /\ \A a \in AlertId \ {nextAlert} : alerts'[a] = alerts[a]
  BY <1>1, <1>2, <1>3, <1>4 DEF TypeOK
<1>6. TablesType'
  BY <1>2, <1>5, ReadsBounds, AlertsFinite DEF TypeOK, TablesType, AuditRows
<1>7. nextAlert \notin Stays(alerts) /\ \A r \in actions : r.alert # nextAlert
  <2>1. alerts[nextAlert] = NoRow
    BY <1>2, AlertsFinite DEF TablesInv
  <2> QED
    BY <2>1 DEF TablesInv, Stays, NoRow
<1>8. Stays(alerts') = Stays(alerts) \cup {nextAlert}
  BY <1>2, <1>4, <1>5 DEF Stays
<1>9. TablesInv'
  <2>1. nextAlert' # 0 /\ \A a \in AlertId : a >= nextAlert' => alerts'[a] = NoRow
    BY <1>2, <1>5, AlertsFinite DEF TablesInv, TypeOK
  <2>2. \A r \in actions' : r.alert \in Stays(alerts)' /\ r.resp <= MaxClock
    BY <1>2, <1>8 DEF TablesInv
  <2>3. \A a \in Stays(alerts') : alerts'[a].status = "open" <=> Responses(a)' = {}
    <3>1. \A a : Responses(a)' = Responses(a)
      BY <1>2 DEF Responses
    <3>2. Responses(nextAlert) = {}
      BY <1>7 DEF Responses
    <3>3. \A a \in Stays(alerts) : alerts'[a] = alerts[a]
      BY <1>5, <1>7 DEF Stays
    <3> QED
      BY <1>4, <1>5, <1>8, <3>1, <3>2, <3>3 DEF TablesInv
  <2> QED
    BY <1>2, <2>1, <2>2, <2>3 DEF TablesInv
<1>10. Touches({nextAlert})
  BY <1>2, <1>5 DEF Touches
<1> QED
  BY <1>6, <1>9, <1>10

LEMMA ClassifyWrites ==
    ASSUME TypeOK, TablesInv, Classify
    PROVE  TablesType' /\ TablesInv' /\ \E touched : Touches(touched)
<1>1. PICK a \in Stays(alerts), verdict \in Verdicts, at \in StartedAt :
         /\ alerts' = [alerts EXCEPT ![a].status = verdict]
         /\ actions' = actions \cup {[id |-> writes', alert |-> a,
                at |-> at,
                resp |-> IF at < alerts[a].created THEN 0 ELSE at - alerts[a].created]}
         /\ audit' = audit \cup {[id |-> writes', alert |-> a, action |-> verdict, at |-> at]}
         /\ Observe(alerts', audit', {a})
  BY DEF Classify
<1>2. /\ writes < MaxWrites /\ writes' = writes + 1 /\ writes' \in Nat
      /\ UNCHANGED <<clock, nextAlert, ask, step, response>>
  BY ReadsBounds DEF Classify, Write, TypeOK
<1>3. /\ a \in AlertId /\ alerts[a] \in [status : Verdicts \cup {"open"}, created : Nat]
      /\ at \in Nat /\ at <= MaxClock /\ MaxClock \in Nat
  BY <1>1, StartedAtIs, ReadsBounds DEF Stays, TypeOK, NoRow
<1>4. PICK resp \in Nat :
        /\ resp = IF at < alerts[a].created THEN 0 ELSE at - alerts[a].created
        /\ resp <= MaxClock
  BY <1>3
<1>5. PICK row : row = [id |-> writes', alert |-> a, at |-> at, resp |-> resp]
  OBVIOUS
<1>6. actions' = actions \cup {row}
  BY <1>1, <1>4, <1>5
<1>7. /\ row \in [id : Nat, alert : AlertId, at : Nat, resp : Nat]
      /\ row.alert = a /\ row.resp <= MaxClock
  BY <1>2, <1>3, <1>4, <1>5
<1>8. PICK entry : entry = [id |-> writes', alert |-> a, action |-> verdict, at |-> at]
  OBVIOUS
<1>9. entry \in AuditRows /\ audit' = audit \cup {entry}
  BY <1>1, <1>2, <1>3, <1>8 DEF AuditRows
<1>10. /\ alerts' \in [AlertId -> [status : Verdicts \cup {"open"}, created : Nat] \cup {NoRow}]
       /\ alerts'[a].status = verdict /\ \A b \in AlertId \ {a} : alerts'[b] = alerts[b]
  BY <1>1, <1>3 DEF TypeOK
<1>11. TablesType'
  BY <1>2, <1>6, <1>7, <1>9, <1>10, ReadsBounds DEF TypeOK, TablesType, AuditRows
<1>12. Stays(alerts') = Stays(alerts)
  BY <1>1, <1>3, <1>10 DEF Stays, Verdicts
<1>13. TablesInv'
  <2>1. IsFiniteSet(actions') /\ IsFiniteSet(audit')
    BY <1>6, <1>9, FS_AddElement DEF TablesInv
  <2>2. nextAlert' # 0 /\ \A b \in AlertId : b >= nextAlert' => alerts'[b] = NoRow
    BY <1>1, <1>2, <1>10 DEF TablesInv, Stays, NoRow
  <2>3. \A r \in actions' : r.alert \in Stays(alerts)' /\ r.resp <= MaxClock
    BY <1>1, <1>6, <1>7, <1>12 DEF TablesInv
  <2>4. \A b \in Stays(alerts') : alerts'[b].status = "open" <=> Responses(b)' = {}
    <3>1. row \in actions' /\ row.alert = a
      BY <1>6, <1>7
    <3>2. Responses(a)' # {} /\ alerts'[a].status # "open"
      BY <1>10, <3>1 DEF Responses, Verdicts
    <3>3. \A b : b # a => Responses(b)' = Responses(b)
      BY <1>6, <1>7 DEF Responses
    <3> QED
      BY <1>10, <1>12, <3>2, <3>3 DEF TablesInv, Stays
  <2> QED
    BY <2>1, <2>2, <2>3, <2>4 DEF TablesInv
<1>14. Touches({a})
  <2>1. \A r : r.alert \notin {a} => (r \in actions' <=> r \in actions)
    BY <1>6, <1>7
  <2> QED
    BY <1>1, <1>2, <1>3, <1>10, <2>1 DEF Touches
<1> QED
  BY <1>11, <1>13, <1>14

LEMMA AddNoteWrites ==
    ASSUME TypeOK, TablesInv, AddNote
    PROVE  TablesType' /\ TablesInv' /\ \E touched : Touches(touched)
<1>1. PICK a \in Stays(alerts), at \in StartedAt :
         audit' = audit \cup {[id |-> writes', alert |-> a, action |-> "note_added", at |-> at]}
  BY DEF AddNote
<1>2. /\ writes < MaxWrites /\ writes' = writes + 1 /\ writes' \in Nat
      /\ Observe(alerts, audit', {})
      /\ UNCHANGED <<clock, alerts, actions, nextAlert, ask, step, response>>
  BY ReadsBounds DEF AddNote, Write, TypeOK
<1>3. a \in AlertId /\ at \in Nat
  BY <1>1, StartedAtIs DEF Stays
<1>4. PICK entry : entry = [id |-> writes', alert |-> a, action |-> "note_added", at |-> at]
  OBVIOUS
<1>5. entry \in AuditRows /\ audit' = audit \cup {entry}
  BY <1>1, <1>2, <1>3, <1>4 DEF AuditRows
<1>6. TablesType'
  BY <1>2, <1>5, ReadsBounds DEF TypeOK, TablesType, AuditRows
<1>7. TablesInv'
  BY <1>2, <1>5, FS_AddElement DEF TablesInv, Stays, Responses
<1>8. Touches({})
  BY <1>2 DEF Touches
<1> QED
  BY <1>6, <1>7, <1>8

LEMMA PurgeWrites ==
    ASSUME TypeOK, TablesInv, Purge
    PROVE  TablesType' /\ TablesInv' /\ \E touched : Touches(touched)
<1> DEFINE gone == {a \in Stays(alerts) : alerts[a].created < clock - Retention}
           kept == {r \in audit : r.alert \notin gone}
<1>1. /\ writes < MaxWrites /\ writes' = writes + 1
      /\ alerts' = [a \in AlertId |-> IF a \in gone THEN NoRow ELSE alerts[a]]
      /\ actions' = {r \in actions : r.alert \notin gone}
      /\ audit' = kept
      /\ Observe(alerts', kept, gone)
      /\ UNCHANGED <<clock, nextAlert, ask, step, response>>
  BY DEF Purge, Write
<1>2. gone \subseteq AlertId
  BY DEF Stays
<1> HIDE DEF gone
<1>3. /\ alerts' \in [AlertId -> [status : Verdicts \cup {"open"}, created : Nat] \cup {NoRow}]
      /\ \A a \in AlertId \ gone : alerts'[a] = alerts[a]
      /\ \A a \in gone : alerts'[a] = NoRow
  BY <1>1, <1>2 DEF TypeOK
<1>4. TablesType'
  BY <1>1, <1>3, ReadsBounds DEF TypeOK, TablesType, AuditRows
<1>5. Stays(alerts') = Stays(alerts) \ gone
  BY <1>2, <1>3 DEF Stays, NoRow
<1>6. TablesInv'
  <2>1. IsFiniteSet(actions') /\ IsFiniteSet(audit')
    BY <1>1, FS_Subset DEF TablesInv
  <2>2. nextAlert' # 0 /\ \A b \in AlertId : b >= nextAlert' => alerts'[b] = NoRow
    BY <1>1, <1>3 DEF TablesInv
  <2>3. \A r \in actions' : r.alert \in Stays(alerts)' /\ r.resp <= MaxClock
    BY <1>1, <1>5 DEF TablesInv
  <2>4. \A b \in Stays(alerts') : alerts'[b].status = "open" <=> Responses(b)' = {}
    <3>1. \A b : b \notin gone => Responses(b)' = Responses(b)
      BY <1>1 DEF Responses
    <3> QED
      BY <1>3, <1>5, <3>1 DEF TablesInv, Stays
  <2> QED
    BY <2>1, <2>2, <2>3, <2>4 DEF TablesInv
<1>7. Touches(gone)
  BY <1>1, <1>2, <1>3 DEF Touches
<1> QED
  BY <1>4, <1>6, <1>7


Commit == Ingest \/ Classify \/ AddNote \/ Purge

LEMMA WatchedFinite ==
    ASSUME NEW table, NEW trail, trail \subseteq AuditRows, IsFiniteSet(trail)
    PROVE  Watched(table, trail) \subseteq Nat /\ IsFiniteSet(Watched(table, trail))
<1>1. /\ Matching(table, ask) \subseteq Nat /\ IsFiniteSet(Matching(table, ask))
      /\ Stays(table) \subseteq Nat /\ IsFiniteSet(Stays(table))
  BY AlertsFinite, MatchingType
<1>2. /\ AuditMatching(trail, ask) \subseteq Nat /\ IsFiniteSet(AuditMatching(trail, ask))
  BY AuditMatchingType
<1>3. Watched(table, trail) \in {Matching(table, ask), AuditMatching(trail, ask), Stays(table)}
  BY DEF Watched
<1> QED
  BY <1>1, <1>2, <1>3

(* What a commit does to the history of a request that is under way. *)
LEMMA Observed ==
    ASSUME TypeOK, TablesInv, Commit
    PROVE  /\ TypeOK' /\ TablesInv' /\ UNCHANGED <<clock, ask, step, response>>
           /\ \E touched : /\ Touches(touched) /\ Cardinality(touched) \in Nat
                           /\ step # "idle" => changed' = changed + Cardinality(touched)
           /\ step # "idle" =>
                /\ \E n \in Nat : changed' = changed + n
                /\ \E n \in Nat : came' = came + n
                /\ \E n \in Nat : left' = left + n
                /\ came' = came + Cardinality(Watched(alerts', audit') \ Watched(alerts, audit))
                /\ came' = came /\ left' = left
                     => Watched(alerts', audit') = Watched(alerts, audit)
<1>1. TablesType' /\ TablesInv' /\ \E touched : Touches(touched)
  BY IngestWrites, ClassifyWrites, AddNoteWrites, PurgeWrites DEF Commit
<1>2. PICK touched : Touches(touched)
  BY <1>1
<1>3. /\ UNCHANGED <<clock, ask, step, response>> /\ Observe(alerts', audit', touched)
      /\ Cardinality(touched) \in Nat
  BY <1>2, AlertsFinite DEF Touches
<1> DEFINE old == Watched(alerts, audit)
           new == Watched(alerts', audit')
<1>4. /\ old \subseteq Nat /\ IsFiniteSet(old) /\ new \subseteq Nat /\ IsFiniteSet(new)
  <2>1. /\ audit \subseteq AuditRows /\ IsFiniteSet(audit)
        /\ audit' \subseteq AuditRows /\ IsFiniteSet(audit')
    BY <1>1 DEF TypeOK, TablesType, TablesInv, AuditRows
  <2> QED
    BY <2>1, WatchedFinite
<1>5. /\ IsFiniteSet(old \ new) /\ Cardinality(old \ new) \in Nat
      /\ IsFiniteSet(new \ old) /\ Cardinality(new \ old) \in Nat
  BY <1>4, FS_Difference, FS_CardinalityType
<1>6. step # "idle" =>
        /\ steady' = steady \cap new
        /\ left' = left + Cardinality(old \ new)
        /\ came' = came + Cardinality(new \ old)
        /\ inside' = IF step = "rows" THEN inside + Cardinality(new \ old) ELSE inside
        /\ changed' = changed + Cardinality(touched)
        /\ UNCHANGED tied
  BY <1>3 DEF Observe
<1>7. step = "idle" => UNCHANGED history
  BY <1>3 DEF Observe
<1> HIDE DEF old, new
<1>8. HistoryType'
  <2>1. /\ steady \subseteq Nat /\ tied \subseteq Nat
        /\ left \in Nat /\ came \in Nat /\ inside \in Nat /\ changed \in Nat
    BY DEF TypeOK
  <2>2. CASE step = "idle"
    BY <1>7, <2>1, <2>2 DEF HistoryType, history
  <2>3. CASE step # "idle"
    <3>1. steady' \subseteq Nat /\ tied' \subseteq Nat
      BY <1>6, <2>1, <2>3
    <3>2. left' \in Nat /\ came' \in Nat /\ inside' \in Nat /\ changed' \in Nat
      BY <1>3, <1>5, <1>6, <2>1, <2>3
    <3> QED
      BY <3>1, <3>2 DEF HistoryType
  <2> QED
    BY <2>2, <2>3
<1>9. AskType' /\ RowsType' /\ LayerType' /\ figures' \in FiguresType /\ slaRows' \subseteq SlaRow
  BY <1>3, TypeParts DEF AskType, RowsType, LayerType, response, layerVars
<1>10. TypeOK'
  BY <1>1, <1>8, <1>9, TypePartsNext
<1>11. ASSUME step # "idle", came' = came, left' = left
       PROVE  new = old
  <2>1. left \in Nat /\ came \in Nat
    BY DEF TypeOK
  <2>2. Cardinality(old \ new) = 0 /\ Cardinality(new \ old) = 0
    BY <1>5, <1>6, <1>11, <2>1
  <2>3. old \ new = {} /\ new \ old = {}
    BY <1>5, <2>2, FS_EmptySet
  <2> QED
    BY <2>3
<1>12. step # "idle" =>
         /\ \E n \in Nat : changed' = changed + n
         /\ \E n \in Nat : came' = came + n
         /\ \E n \in Nat : left' = left + n
  BY <1>3, <1>5, <1>6
<1>13. step # "idle" => came' = came + Cardinality(Watched(alerts', audit') \ Watched(alerts, audit))
  BY <1>6 DEF old, new
<1> QED
  BY <1>1, <1>2, <1>3, <1>6, <1>10, <1>11, <1>12, <1>13 DEF old, new

LEMMA TickType ==
    ASSUME TypeOK, TablesInv, Tick
    PROVE  TypeOK' /\ TablesInv' /\ UNCHANGED <<tables, ask, step, response, history>>
<1>1. /\ clock' \in 0..MaxClock /\ UNCHANGED <<tables, ask, step, response, history>>
  BY ReadsBounds DEF Tick, TypeOK
<1>2. TypeOK'
  BY <1>1 DEF TypeOK, tables, response, layerVars, history
<1>3. TablesInv'
  BY <1>1 DEF TablesInv, tables, Stays, Responses
<1> QED
  BY <1>1, <1>2, <1>3

LEMMA InitTables ==
    ASSUME Init
    PROVE  TypeOK /\ TablesInv
<1>1. PICK created \in [1..Stored -> {0, 1}], closed \in {{}, Demo} :
         /\ alerts = [a \in AlertId |->
              IF a > Stored THEN NoRow
              ELSE [status |-> IF a \in closed THEN "escalated" ELSE "open",
                    created |-> created[a]]]
         /\ actions = {[id |-> 0, alert |-> a, at |-> created[a], resp |-> 0] : a \in closed}
  BY DEF Init
<1>2. Stored \in Nat /\ closed \subseteq AlertId /\ 1..Stored \subseteq AlertId
      /\ closed \subseteq 1..Stored
  <2>1. PICK n \in Nat : n = Len(Severity)
    BY AlertsAreNumbered
  <2>2. AlertId = 1..n /\ Stored \in Nat /\ Stored <= n
    BY <2>1, AlertsAreNumbered DEF AlertId
  <2>3. 1..Stored \subseteq AlertId
    BY <2>2
  <2> QED
    BY <1>1, <2>2, <2>3, AlertsAreNumbered
<1>3. \A a \in AlertId : a > Stored => alerts[a] = NoRow
  BY <1>1
<1>4. \A a \in AlertId : a <= Stored =>
        /\ alerts[a] \in [status : Verdicts \cup {"open"}, created : Nat]
        /\ alerts[a].status = "open" <=> a \notin closed
  <2> SUFFICES ASSUME NEW a \in AlertId, a <= Stored
               PROVE  /\ alerts[a] \in [status : Verdicts \cup {"open"}, created : Nat]
                      /\ alerts[a].status = "open" <=> a \notin closed
    OBVIOUS
  <2>1. a \in 1..Stored /\ created[a] \in Nat
    BY <1>1, <1>2, AlertsFinite
  <2>2. PICK status : status = IF a \in closed THEN "escalated" ELSE "open"
    OBVIOUS
  <2>3. alerts[a] = [status |-> status, created |-> created[a]]
    BY <1>1, <1>2, <2>1, <2>2
  <2> QED
    BY <2>1, <2>2, <2>3 DEF Verdicts
<1>5. alerts \in [AlertId -> [status : Verdicts \cup {"open"}, created : Nat] \cup {NoRow}]
  <2>1. alerts = [a \in AlertId |-> alerts[a]]
    BY <1>1
  <2>2. \A a \in AlertId : a > Stored \/ a <= Stored
    BY <1>2, AlertsFinite
  <2> QED
    BY <1>3, <1>4, <2>1, <2>2
<1>6. \A r \in actions : /\ r \in [id : Nat, alert : AlertId, at : Nat, resp : Nat]
                         /\ r.alert \in closed /\ r.resp = 0
  BY <1>1, <1>2
<1>7. ASSUME NEW a \in closed
      PROVE  \E r \in actions : r.alert = a
  <2>1. PICK r : r = [id |-> 0, alert |-> a, at |-> created[a], resp |-> 0]
    OBVIOUS
  <2> QED
    BY <1>1, <2>1
<1>8. IsFiniteSet(actions)
  <2> DEFINE Row == [a \in closed |-> [id |-> 0, alert |-> a, at |-> created[a], resp |-> 0]]
  <2>1. IsFiniteSet(closed)
    BY <1>2, AlertsFinite
  <2>2. Row \in Surjection(closed, actions)
    BY <1>1 DEF Surjection
  <2> QED
    BY <2>1, <2>2, FS_Surjection
<1>9. IsFiniteSet(audit)
  BY FS_EmptySet DEF Init
<1>10. \A a \in AlertId : a \in Stays(alerts) <=> a <= Stored
  <2>1. \A a \in AlertId : a > Stored => alerts[a].status = "absent"
    BY <1>3 DEF NoRow
  <2>2. \A a \in AlertId : a <= Stored => alerts[a].status # "absent"
    BY <1>4 DEF Verdicts
  <2>3. \A a \in AlertId : a > Stored <=> ~(a <= Stored)
    BY <1>2, AlertsFinite
  <2> QED
    BY <2>1, <2>2, <2>3 DEF Stays
<1>11. TablesInv
  <2>1. nextAlert # 0 /\ \A a \in AlertId : a >= nextAlert => alerts[a] = NoRow
    BY <1>2, <1>3, AlertsFinite DEF Init
  <2>2. \A r \in actions : r.alert \in Stays(alerts) /\ r.resp <= MaxClock
    <3>1. \A a \in closed : a \in AlertId /\ a <= Stored
      BY <1>2
    <3> QED
      BY <1>6, <1>10, <3>1, ReadsBounds
  <2>3. \A a \in Stays(alerts) : alerts[a].status = "open" <=> Responses(a) = {}
    BY <1>4, <1>6, <1>7, <1>10 DEF Responses, Stays
  <2> QED
    BY <1>8, <1>9, <2>1, <2>2, <2>3 DEF TablesInv
<1>12. TypeOK
  <2>1. TablesType
    BY <1>2, <1>5, <1>6, ReadsBounds DEF Init, TablesType
  <2>2. NoFigures \in FiguresType
    BY DEF NoFigures, FiguresType
  <2>3. AskType /\ RowsType /\ LayerType /\ HistoryType
    BY DEF Init, AskType, Steps, RowsType, LayerType, HistoryType
  <2> QED
    BY <2>1, <2>2, <2>3, TypeParts DEF Init
<1> QED
  BY <1>11, <1>12


LEMMA InitInv ==
    ASSUME Init
    PROVE  ReadsInv
<1>1. ask = NoRequest /\ ask.what = "none" /\ step = "idle" /\ page = 1
  BY DEF Init, NoRequest
<1> QED
  BY <1>1, InitTables, StatementsAre
     DEF ReadsInv, RequestInv, LayerInv, EnvelopeInv, FiguresInv

-----------------------------------------------------------------------------
(* The reader's three invariants, one at a time *)

(* Every step, apart from those of the response it is about. *)
LEMMA Others ==
    ASSUME ReadsInv, [Next]_vars
    PROVE  \/ Reader /\ UNCHANGED <<clock, tables>> /\ TypeOK' /\ TablesInv' /\ RequestInv'
           \/ Commit /\ TypeOK' /\ TablesInv' /\ RequestInv' /\ UNCHANGED <<clock, ask, step, response>>
           \/ /\ Tick \/ UNCHANGED vars
              /\ TypeOK' /\ TablesInv' /\ RequestInv'
              /\ UNCHANGED <<tables, ask, step, response, history>>
<1>1. TypeOK /\ TablesInv /\ RequestInv
  BY DEF ReadsInv
<1>2. CASE Reader
  BY <1>2, ReaderType
<1>3. CASE Commit
  <2>1. TypeOK' /\ TablesInv' /\ UNCHANGED <<clock, ask, step, response>>
    BY <1>1, <1>3, Observed
  <2> QED
    BY <1>1, <1>3, <2>1 DEF RequestInv, response
<1>4. CASE Tick
  BY <1>1, <1>4, TickType DEF RequestInv, response
<1>5. CASE UNCHANGED vars
  <2>1. UNCHANGED <<clock, tables, ask, step, response, history>>
    BY <1>5 DEF vars
  <2>2. TypeOK' /\ RequestInv'
    BY <1>1, <2>1 DEF TypeOK, RequestInv, tables, response, layerVars, history
  <2>3. TablesInv'
    BY <1>1, <2>1 DEF TablesInv, tables, Stays, Responses
  <2> QED
    BY <1>5, <2>1, <2>2, <2>3
<1> QED
  BY <1>2, <1>3, <1>4, <1>5 DEF Next, Commit

(* Without a touched alert the alerts and their actions are what they were. *)
LEMMA Untouched ==
    ASSUME TypeOK, TypeOK', NEW touched, Touches(touched), Cardinality(touched) = 0
    PROVE  alerts' = alerts /\ touched = {}
<1>1. touched = {}
  BY AlertsFinite, FS_EmptySet DEF Touches
<1>2. \A a \in AlertId : alerts'[a] = alerts[a]
  BY <1>1 DEF Touches
<1>3. alerts = [a \in AlertId |-> alerts[a]] /\ alerts' = [a \in AlertId |-> alerts'[a]]
  BY DEF TypeOK
<1> QED
  BY <1>1, <1>2, <1>3

LEMMA LayerPreserved ==
    ASSUME ReadsInv, [Next]_vars
    PROVE  LayerInv'
<1>1. TypeOK /\ TablesInv /\ RequestInv /\ LayerInv
  BY DEF ReadsInv
<1>2. CASE Reader
  <2>1. UNCHANGED <<clock, tables>>
    BY <1>2, ReaderType
  <2>2. Groups' = Groups
    BY <2>1 DEF Groups, tables, Stays
  <2>3. CASE AskList \/ AskAudit \/ AskStats \/ AskLayer
    <3>1. step' \in {"count", "entries", "total", "techniques"}
      BY <1>1, <2>3, AsksType
    <3>2. layer' = <<>>
      BY <2>3 DEF AskList, AskAudit, AskStats, AskLayer, Begin, NoResponse
    <3> QED
      BY <3>1, <3>2 DEF LayerInv
  <2>4. CASE Leave
    <3>1. ask'.what = "none"
      BY <2>4 DEF Leave, NoRequest
    <3> QED
      BY <3>1 DEF LayerInv
  <2>5. CASE \/ ListCount \/ ListRows \/ ListNextPage \/ AuditEntries \/ AuditCount \/ AuditNextPage
             \/ StatsTotal \/ StatsOpen \/ StatsBySeverity \/ StatsEscalation \/ StatsMttr
             \/ StatsSla \/ ComputeSla
    <3>1. ask.what # "layer" /\ ask' = ask
      BY <1>1, <2>5, WhatIsAsked
         DEF ListCount, ListRows, ListNextPage, AuditEntries, AuditCount, AuditNextPage, Turn, Goto,
             StatsTotal, StatsOpen, StatsBySeverity, StatsEscalation, StatsMttr, StatsSla, ComputeSla
    <3> QED
      BY <3>1 DEF LayerInv
  <2>6. CASE ExportLayer
    <3>1. /\ step = "techniques" /\ step' = "scores" /\ groups' = Groups /\ layer' = layer
          /\ layer = <<>>
      BY <1>1, <2>6, WhatIsAsked DEF ExportLayer, Goto, LayerInv
    <3>2. DOMAIN layer = {}
      BY <3>1
    <3>3. Groups \ groups' = {}
      BY <3>1
    <3>4. LayerFits(layer', Mapped(Groups' \ groups'))
      BY <2>2, <3>1, <3>2, <3>3 DEF LayerFits, Mapped
    <3> QED
      BY <2>2, <3>1, <3>4 DEF LayerInv
  <2>7. CASE ScoreGroup
    <3>1. PICK group \in groups : layer' = Scored(layer, group) /\ groups' = groups \ {group}
      BY <2>7 DEF ScoreGroup
    <3>2. step = "scores" /\ step' = step /\ UNCHANGED history
      BY <2>7 DEF ScoreGroup
    <3>3. ASSUME changed = 0
          PROVE  groups' \subseteq Groups' /\ LayerFits(layer', Mapped(Groups' \ groups'))
      <4>1. groups \subseteq Groups /\ LayerFits(layer, Mapped(Groups \ groups))
        BY <1>1, <3>2, <3>3, WhatIsAsked DEF LayerInv
      <4> DEFINE scored == Mapped(Groups \ groups)
                 scoredThen == Mapped(Groups' \ groups')
      <4>2. scoredThen = IF group[1] \in DOMAIN CATEGORY_MITRE THEN scored \cup {group}
                         ELSE scored
        <5>1. Groups' \ groups' = (Groups \ groups) \cup {group}
          BY <2>2, <3>1, <4>1
        <5> QED
          BY <5>1 DEF Mapped
      <4>3. \A t \in DOMAIN layer : layer[t] \in {25, 50, 75, 100}
        BY <1>1 DEF TypeOK
      <4>4. groups' \subseteq Groups'
        BY <2>2, <3>1, <4>1
      <4> HIDE DEF scored, scoredThen
      <4>5. CASE group[1] \notin DOMAIN CATEGORY_MITRE
        <5>1. layer' = layer /\ scoredThen = scored
          BY <3>1, <4>2, <4>3, <4>5, ScoredIs
        <5>2. LayerFits(layer', scoredThen)
          BY <4>1, <5>1 DEF scored
        <5> QED
          BY <4>4, <5>2 DEF scoredThen
      <4>6. CASE group[1] \in DOMAIN CATEGORY_MITRE
        <5>1. PICK old, new, id, score :
                /\ old = layer /\ new = layer'
                /\ id = TechniqueOf(group) /\ score = Score(group[2])
          OBVIOUS
        <5>2. scoredThen = scored \cup {group}
          BY <4>2, <4>6
        <5>3. /\ DOMAIN new = DOMAIN old \cup {id}
              /\ \A t \in DOMAIN old : t # id => new[t] = old[t]
              /\ new[id] >= score
              /\ id \in DOMAIN old => new[id] >= old[id]
              /\ \/ new[id] = score
                 \/ id \in DOMAIN old /\ new[id] = old[id]
              /\ \A t \in DOMAIN new : new[t] \in {25, 50, 75, 100}
          <6>1. ScoredFrom(old, id, score, new)
            BY <3>1, <4>3, <4>6, <5>1, ScoredIs
          <6> QED
            BY <6>1 DEF ScoredFrom
        <5>4. /\ DOMAIN old = {TechniqueOf(g) : g \in scored}
              /\ \A g \in scored : old[TechniqueOf(g)] >= Score(g[2])
              /\ \A t \in DOMAIN old : \E g \in scored :
                   TechniqueOf(g) = t /\ old[t] = Score(g[2])
              /\ \A t \in DOMAIN old : old[t] \in {25, 50, 75, 100}
          <6>1. LayerFits(old, scored)
            BY <4>1, <5>1 DEF scored
          <6>2. \A t \in DOMAIN old : old[t] \in {25, 50, 75, 100}
            BY <4>3, <5>1
          <6> QED
            BY <6>1, <6>2 DEF LayerFits
        <5>5. DOMAIN new = {TechniqueOf(g) : g \in scoredThen}
          BY <5>1, <5>2, <5>3, <5>4
        <5>6. \A g \in scoredThen : new[TechniqueOf(g)] >= Score(g[2])
          <6> SUFFICES ASSUME NEW g \in scoredThen
                       PROVE  new[TechniqueOf(g)] >= Score(g[2])
            OBVIOUS
          <6>1. CASE g = group
            BY <5>1, <5>3, <6>1
          <6>2. CASE g \in scored /\ TechniqueOf(g) # id
            BY <5>3, <5>4, <6>2
          <6>3. CASE g \in scored /\ TechniqueOf(g) = id
            <7>1. id \in DOMAIN old
              BY <5>4, <6>3
            <7>2. PICK mine \in {25, 50, 75, 100} : mine = Score(g[2])
              BY Scores
            <7>3. old[id] >= mine /\ new[id] >= old[id]
              BY <5>3, <5>4, <6>3, <7>1, <7>2
            <7>4. old[id] \in {25, 50, 75, 100} /\ new[id] \in {25, 50, 75, 100}
              BY <5>3, <5>4, <7>1
            <7>5. new[id] >= mine
              BY <7>2, <7>3, <7>4
            <7> QED
              BY <6>3, <7>2, <7>5
          <6> QED
            BY <5>2, <6>1, <6>2, <6>3
        <5>7. \A t \in DOMAIN new : \E g \in scoredThen :
                TechniqueOf(g) = t /\ new[t] = Score(g[2])
          BY <5>1, <5>2, <5>3, <5>4
        <5>8. LayerFits(layer', scoredThen)
          BY <5>1, <5>5, <5>6, <5>7 DEF LayerFits
        <5> QED
          BY <4>4, <5>8 DEF scoredThen
      <4> QED
        BY <4>5, <4>6
    <3> QED
      BY <3>2, <3>3 DEF LayerInv, history
  <2>8. CASE LayerScored
    <3>1. /\ step = "scores" /\ step' = "answered" /\ groups = {} /\ ask' = ask
          /\ UNCHANGED <<layer, groups, changed>>
      BY <2>8 DEF LayerScored, Goto, layerVars, history
    <3> QED
      BY <1>1, <2>2, <3>1 DEF LayerInv
  <2> QED
    BY <1>2, <2>3, <2>4, <2>5, <2>6, <2>7, <2>8 DEF Reader
<1>3. CASE Commit
  <2>1. TypeOK' /\ UNCHANGED <<clock, ask, step, response>>
    BY <1>1, <1>3, Observed
  <2>2. PICK touched : /\ Touches(touched) /\ Cardinality(touched) \in Nat
                       /\ step # "idle" => changed' = changed + Cardinality(touched)
    BY <1>1, <1>3, Observed
  <2>3. UNCHANGED <<layer, groups>>
    BY <2>1 DEF response, layerVars
  <2>4. ASSUME ask.what = "layer", changed' = 0
        PROVE  changed = 0 /\ Groups' = Groups
    <3>1. step # "idle"
      BY <1>1, <2>4, WhatIsAsked
    <3>2. changed = 0 /\ Cardinality(touched) = 0
      BY <1>1, <2>2, <2>4, <3>1 DEF TypeOK
    <3>3. alerts' = alerts
      BY <1>1, <2>1, <2>2, <3>2, Untouched
    <3> QED
      BY <3>2, <3>3 DEF Groups, Stays
  <2> QED
    BY <1>1, <2>1, <2>3, <2>4 DEF LayerInv
<1>4. CASE Tick \/ UNCHANGED vars
  <2>1. UNCHANGED <<alerts, ask, step, layer, groups, changed>>
    BY <1>4 DEF Tick, vars, tables, response, layerVars, history
  <2> QED
    BY <1>1, <2>1 DEF LayerInv, Groups, Stays
<1> QED
  BY <1>2, <1>3, <1>4 DEF Next, Commit


-----------------------------------------------------------------------------
(* How many rows a page has *)

LEMMA Divided ==
    ASSUME NEW m \in Nat, NEW d \in Nat \ {0}
    PROVE  /\ m \div d \in Nat
           /\ d * (m \div d) <= m /\ m < d * (m \div d) + d
OBVIOUS

LEMMA Products ==
    ASSUME NEW m \in Nat, NEW n \in Nat, NEW d \in Nat
    PROVE  /\ m * d \in Nat /\ (m <= n => m * d <= n * d)
           /\ m * d = d * m /\ (m + 1) * d = m * d + d
OBVIOUS

LEMMA SliceSize ==
    ASSUME NEW ids, IsFiniteSet(ids), NEW order, NEW s \in Readings(ids, order),
           NEW n \in Nat \ {0}, NEW size \in Nat \ {0}
    PROVE  /\ IsFiniteSet(Slice(s, n, size))
           /\ Offset(n, size) \in Nat
           /\ Cardinality(Slice(s, n, size)) =
                IF Cardinality(ids) <= Offset(n, size) THEN 0
                ELSE IF Cardinality(ids) <= Offset(n, size) + size
                       THEN Cardinality(ids) - Offset(n, size)
                ELSE size
<1>1. PICK offset \in Nat : offset = Offset(n, size)
  <2>1. (n - 1) * size \in Nat
    BY Products
  <2> QED
    BY <2>1 DEF Offset
<1>2. PICK count \in Nat : count = Cardinality(ids)
  BY FS_CardinalityType
<1>3. /\ s \in [1..count -> ids] /\ Len(s) = count
      /\ \A i, j \in 1..count : s[i] = s[j] => i = j
  BY <1>2, ReadingOnce
<1>4. PICK end \in Nat : end = IF count <= offset + size THEN count ELSE offset + size
  OBVIOUS
<1> DEFINE At == (offset + 1)..end
           Row == [i \in At |-> s[i]]
<1>5. At \subseteq 1..count /\ Slice(s, n, size) = {s[i] : i \in At}
  BY <1>1, <1>3, <1>4 DEF Slice
<1>6. Row \in Bijection(At, Slice(s, n, size))
  BY <1>3, <1>5 DEF Bijection, Injection, IsInjective, Surjection
<1>7. IsFiniteSet(At) /\ Cardinality(At) = IF offset + 1 > end THEN 0 ELSE end - (offset + 1) + 1
  BY FS_Interval
<1>8. IsFiniteSet(Slice(s, n, size)) /\ Cardinality(Slice(s, n, size)) = Cardinality(At)
  BY <1>6, <1>7, FS_Bijection DEF ExistsBijection
<1> HIDE DEF At
<1> QED
  BY <1>1, <1>2, <1>4, <1>7, <1>8


LEMMA EnvelopePreserved ==
    ASSUME ReadsInv, [Next]_vars
    PROVE  EnvelopeInv'
<1>1. TypeOK /\ TablesInv /\ RequestInv /\ EnvelopeInv
  BY DEF ReadsInv
<1>2. CASE Reader
  <2>1. UNCHANGED <<clock, tables>>
    BY <1>2, ReaderType
  <2>2. \A q : Matching(alerts, q)' = Matching(alerts, q')
    BY <2>1 DEF tables, Matching, Stays
  <2>3. CASE AskList \/ AskAudit \/ AskStats \/ AskLayer
    <3>1. step' \in {"count", "entries", "total", "techniques"}
      BY <1>1, <2>3, AsksType
    <3> QED
      BY <3>1 DEF EnvelopeInv
  <2>4. CASE Leave
    <3>1. ask'.what = "none"
      BY <2>4 DEF Leave, NoRequest
    <3> QED
      BY <3>1 DEF EnvelopeInv
  <2>5. CASE \/ AuditEntries \/ AuditCount \/ AuditNextPage
             \/ StatsTotal \/ StatsOpen \/ StatsBySeverity \/ StatsEscalation \/ StatsMttr
             \/ StatsSla \/ ComputeSla \/ ExportLayer \/ ScoreGroup \/ LayerScored
    <3>1. ask.what # "list" /\ ask' = ask
      BY <1>1, <2>5, WhatIsAsked
         DEF AuditEntries, AuditCount, AuditNextPage, Turn, Goto, StatsTotal, StatsOpen,
             StatsBySeverity, StatsEscalation, StatsMttr, StatsSla, ComputeSla, ExportLayer,
             ScoreGroup, LayerScored
    <3> QED
      BY <3>1 DEF EnvelopeInv
  <2>6. CASE ListCount
    <3>1. step' = "rows" /\ ask' = ask /\ total' = Cardinality(Matching(alerts, ask))
      BY <2>6 DEF ListCount, Goto
    <3>2. Matching(alerts, ask)' = Matching(alerts, ask)
      BY <2>1, <3>1 DEF tables, Matching, Stays
    <3> QED
      BY <3>1, <3>2 DEF EnvelopeInv
  <2>7. CASE ListRows
    <3>1. /\ step = "rows" /\ step' = "answered" /\ UNCHANGED <<ask, page, total, left, came>>
          /\ Return(Matching(alerts, ask), SeverityOrder, PerPage)
      BY <2>7 DEF ListRows, Goto
    <3>2. PICK s \in Readings(Matching(alerts, ask), SeverityOrder) : rows' = Slice(s, page, PerPage)
      BY <3>1 DEF Return
    <3>3. IsFiniteSet(Matching(alerts, ask)) /\ page \in Nat \ {0} /\ PerPage \in Nat \ {0}
      BY <1>1, CountsAreNat, PagesHoldRows DEF TypeOK, RequestInv
    <3>4. /\ IsFiniteSet(rows')
          /\ Cardinality(rows') = RowsOn(page, Cardinality(Matching(alerts, ask)))
      BY <3>2, <3>3, SliceSize DEF RowsOn
    <3>5. RowsOn(page, total)' = RowsOn(page, total)
      BY <3>1 DEF RowsOn, Offset
    <3> QED
      BY <1>1, <3>1, <3>4, <3>5 DEF EnvelopeInv
  <2>8. CASE ListNextPage
    <3>1. step' = "count"
      BY <2>8 DEF ListNextPage, Turn
    <3> QED
      BY <3>1 DEF EnvelopeInv
  <2> QED
    BY <1>2, <2>3, <2>4, <2>5, <2>6, <2>7, <2>8 DEF Reader
<1>3. CASE Commit
  <2>1. UNCHANGED <<clock, ask, step, response>>
    BY <1>1, <1>3, Observed
  <2>2. UNCHANGED <<page, total, rows>>
    BY <2>1 DEF response
  <2>3. ASSUME ask.what = "list", left' = 0, came' = 0
        PROVE  left = 0 /\ came = 0 /\ Matching(alerts', ask) = Matching(alerts, ask)
    <3>1. step # "idle"
      BY <1>1, <2>3, WhatIsAsked
    <3>2. PICK n \in Nat : came' = came + n
      BY <1>1, <1>3, <3>1, Observed
    <3>3. PICK m \in Nat : left' = left + m
      BY <1>1, <1>3, <3>1, Observed
    <3>4. left = 0 /\ came = 0
      BY <1>1, <2>3, <3>2, <3>3 DEF TypeOK
    <3>5. Watched(alerts', audit') = Watched(alerts, audit)
      BY <1>1, <1>3, <2>3, <3>1, <3>4, Observed
    <3> QED
      BY <2>3, <3>4, <3>5 DEF Watched
  <2>4. Matching(alerts, ask)' = Matching(alerts', ask)
    BY <2>1 DEF Matching, Stays
  <2>5. RowsOn(page, total)' = RowsOn(page, total)
    BY <2>2 DEF RowsOn, Offset
  <2> QED
    BY <1>1, <2>1, <2>2, <2>3, <2>4, <2>5 DEF EnvelopeInv
<1>4. CASE Tick \/ UNCHANGED vars
  <2>1. UNCHANGED <<alerts, ask, step, page, total, rows, left, came>>
    BY <1>4 DEF Tick, vars, tables, response, history
  <2>2. Matching(alerts, ask)' = Matching(alerts, ask)
    BY <2>1 DEF Matching, Stays
  <2>3. RowsOn(page, total)' = RowsOn(page, total)
    BY <2>1 DEF RowsOn, Offset
  <2> QED
    BY <1>1, <2>1, <2>2, <2>3 DEF EnvelopeInv
<1> QED
  BY <1>2, <1>3, <1>4 DEF Next, Commit

(* total_pages: the pages before it are full, the last one is not empty. *)
LEMMA PagesAre ==
    ASSUME NEW count \in Nat, NEW n \in Nat \ {0}
    PROVE  /\ TotalPages(count) \in Nat
           /\ n < TotalPages(count) => RowsOn(n, count) = PerPage
           /\ n = TotalPages(count) =>
                /\ RowsOn(n, count) # 0
                /\ RowsOn(n, count) = count - (n - 1) * PerPage
           /\ n > TotalPages(count) => RowsOn(n, count) = 0
<1>1. PICK p \in Nat \ {0} : p = PerPage
  BY PagesHoldRows
<1>2. PICK offset \in Nat : offset = (n - 1) * p
  BY <1>1, Products
<1>3. offset = Offset(n, PerPage)
  BY <1>1, <1>2 DEF Offset
<1>4. RowsOn(n, count) = IF count <= offset THEN 0
                         ELSE IF count <= offset + p THEN count - offset ELSE p
  BY <1>1, <1>3 DEF RowsOn
<1>5. CASE count = 0
  <2>1. TotalPages(count) = 0 /\ RowsOn(n, count) = 0
    BY <1>4, <1>5 DEF TotalPages
  <2> QED
    BY <2>1
<1>6. CASE count # 0
  <2>1. PICK pages \in Nat : pages = (count + p - 1) \div p
    BY <1>1, Divided
  <2>2. TotalPages(count) = pages
    BY <1>1, <1>6, <2>1 DEF TotalPages
  <2>3. /\ p * pages <= count + p - 1 /\ count + p - 1 < p * pages + p
    BY <1>1, <2>1, Divided
  <2>4. ASSUME n < pages
        PROVE  offset + p < count
    <3>1. n * p <= (pages - 1) * p
      BY <2>4, Products
    <3>2. n * p = offset + p /\ pages * p = (pages - 1) * p + p
      BY <1>2, <2>4, Products
    <3> QED
      BY <2>3, <3>1, <3>2
  <2>5. ASSUME n = pages
        PROVE  offset < count /\ count <= offset + p
    <3>1. n * p = offset + p
      BY <1>2, Products
    <3> QED
      BY <2>3, <2>5, <3>1
  <2>6. ASSUME n > pages
        PROVE  count <= offset
    <3>1. pages * p <= (n - 1) * p
      BY <2>6, Products
    <3> QED
      BY <1>2, <2>3, <3>1
  <2> QED
    BY <1>1, <1>2, <1>4, <2>2, <2>4, <2>5, <2>6
<1> QED
  BY <1>5, <1>6

LEMMA EnvelopeMeans ==
    ASSUME TypeOK, RequestInv, EnvelopeInv
    PROVE  EnvelopeFits
<1> SUFFICES ASSUME Answered("list"), left = 0, came = 0
             PROVE  /\ page < TotalPages(total) => Cardinality(rows) = PerPage
                    /\ page = TotalPages(total) =>
                         /\ rows # {}
                         /\ Cardinality(rows) = total - (page - 1) * PerPage
                    /\ page > TotalPages(total) => rows = {}
  BY DEF EnvelopeFits
<1>1. IsFiniteSet(rows) /\ Cardinality(rows) = RowsOn(page, total)
  BY DEF EnvelopeInv, Answered
<1>2. rows = {} <=> Cardinality(rows) = 0
  BY <1>1, FS_EmptySet
<1>3. total \in Nat /\ page \in Nat \ {0}
  BY DEF TypeOK, RequestInv
<1> QED
  BY <1>1, <1>2, <1>3, PagesAre

LEMMA LayerMeans ==
    ASSUME LayerInv
    PROVE  LayerShowsWorst
<1> SUFFICES ASSUME Answered("layer"), changed = 0
             PROVE  /\ DOMAIN layer = {Technique(a) : a \in InLayer}
                    /\ \A a \in InLayer : layer[Technique(a)] >= Score(Severity[a])
                    /\ \A t \in DOMAIN layer : \E a \in InLayer :
                         Technique(a) = t /\ layer[t] = Score(Severity[a])
  BY DEF LayerShowsWorst
<1>1. groups = {} /\ LayerFits(layer, Mapped(Groups \ groups))
  BY DEF LayerInv, Answered
<1>2. Groups \ groups = Groups
  BY <1>1
<1>3. \A a \in InLayer : \E g \in Mapped(Groups) :
        TechniqueOf(g) = Technique(a) /\ g[2] = Severity[a]
  <2>1. \A a \in InLayer : <<Category[a], Severity[a]>> \in Mapped(Groups)
    BY DEF InLayer, Groups, Mapped
  <2> QED
    BY <2>1 DEF TechniqueOf, Technique
<1>4. \A g \in Mapped(Groups) : \E a \in InLayer :
        TechniqueOf(g) = Technique(a) /\ g[2] = Severity[a]
  BY DEF InLayer, Groups, Mapped, TechniqueOf, Technique
<1>5. /\ DOMAIN layer = {TechniqueOf(g) : g \in Mapped(Groups)}
      /\ \A g \in Mapped(Groups) : layer[TechniqueOf(g)] >= Score(g[2])
      /\ \A t \in DOMAIN layer : \E g \in Mapped(Groups) :
           TechniqueOf(g) = t /\ layer[t] = Score(g[2])
  BY <1>1, <1>2 DEF LayerFits
<1>6. DOMAIN layer = {Technique(a) : a \in InLayer}
  BY <1>3, <1>4, <1>5
<1>7. ASSUME NEW a \in InLayer
      PROVE  layer[Technique(a)] >= Score(Severity[a])
  <2>1. PICK g \in Mapped(Groups) : TechniqueOf(g) = Technique(a) /\ g[2] = Severity[a]
    BY <1>3
  <2>2. layer[TechniqueOf(g)] >= Score(g[2])
    BY <1>5
  <2> QED
    BY <2>1, <2>2
<1>8. ASSUME NEW t \in DOMAIN layer
      PROVE  \E a \in InLayer : Technique(a) = t /\ layer[t] = Score(Severity[a])
  <2>1. PICK g \in Mapped(Groups) : TechniqueOf(g) = t /\ layer[t] = Score(g[2])
    BY <1>5
  <2>2. PICK a \in InLayer : TechniqueOf(g) = Technique(a) /\ g[2] = Severity[a]
    BY <1>4
  <2> QED
    BY <2>1, <2>2
<1> QED
  BY <1>6, <1>7, <1>8


-----------------------------------------------------------------------------
(* Figures: what the statements count *)

LEMMA Least ==
    ASSUME NEW S, S \subseteq Nat, S # {}
    PROVE  \E m \in S : \A n \in S : m <= n
<1>1. PICK m \in S : \A n \in S : ~ (<<n, m>> \in OpToRel(<, Nat))
  BY NatLessThanWellFounded, WFMin
<1>2. \A n \in S : ~ (n < m)
  BY <1>1 DEF OpToRel
<1> QED
  BY <1>2

(* Two sets of alerts without a common one. *)
LEMMA Disjoint ==
    ASSUME NEW S, S \subseteq AlertId, NEW T, T \subseteq AlertId, S \cap T = {}
    PROVE  /\ Cardinality(S \cup T) = Cardinality(S) + Cardinality(T)
           /\ Cardinality(S) \in Nat /\ Cardinality(T) \in Nat /\ Cardinality(S \cup T) \in Nat
<1>1. IsFiniteSet(S) /\ IsFiniteSet(T) /\ Cardinality(S) \in Nat /\ Cardinality(T) \in Nat
  BY AlertsFinite
<1>2. Cardinality(S \cup T) = Cardinality(S) + Cardinality(T) - Cardinality(S \cap T)
  BY <1>1, FS_Union
<1>3. Cardinality(S \cap T) = 0
  BY FS_EmptySet
<1> QED
  BY <1>1, <1>2, <1>3

LEMMA Included ==
    ASSUME NEW T, T \subseteq AlertId, NEW S, S \subseteq T
    PROVE  Cardinality(S) <= Cardinality(T) /\ Cardinality(S) \in Nat /\ Cardinality(T) \in Nat
BY AlertsFinite, FS_Subset

LEMMA StatusOf ==
    ASSUME TypeOK, NEW a \in AlertId
    PROVE  /\ alerts[a].status \in Verdicts \cup {"open", "absent"}
           /\ a \in Stays(alerts) => alerts[a].created \in Nat
BY DEF TypeOK, Stays, NoRow

LEMMA StatusCounts ==
    ASSUME TypeOK
    PROVE  /\ InStatus({"open"} \cup Verdicts) = Cardinality(Stays(alerts))
           /\ InStatus(Verdicts) = Cardinality(Closed)
           /\ Cardinality(Stays(alerts)) = InStatus({"open"}) + Cardinality(Closed)
           /\ InStatus({"escalated"}) <= Cardinality(Closed)
           /\ InStatus({"escalated"}) \in Nat /\ InStatus({"open"}) \in Nat
           /\ Cardinality(Closed) \in Nat /\ Cardinality(Stays(alerts)) \in Nat
<1> DEFINE Open == {a \in AlertId : alerts[a].status \in {"open"}}
           Escalated == {a \in AlertId : alerts[a].status \in {"escalated"}}
<1>1. {a \in AlertId : alerts[a].status \in {"open"} \cup Verdicts} = Stays(alerts)
  BY StatusOf DEF Stays, Verdicts
<1>2. Open \cup Closed = Stays(alerts)
  BY StatusOf DEF Stays, Verdicts, Closed
<1>3. Open \cap Closed = {} /\ Open \subseteq AlertId /\ Closed \subseteq AlertId
  BY DEF Verdicts, Closed
<1>4. /\ Cardinality(Stays(alerts)) = Cardinality(Open) + Cardinality(Closed)
      /\ Cardinality(Open) \in Nat /\ Cardinality(Closed) \in Nat
      /\ Cardinality(Stays(alerts)) \in Nat
  BY <1>2, <1>3, Disjoint
<1>5. Escalated \subseteq Closed
  BY DEF Verdicts, Closed
<1>6. Cardinality(Escalated) <= Cardinality(Closed) /\ Cardinality(Escalated) \in Nat
  BY <1>3, <1>5, Included
<1> QED
  BY <1>1, <1>4, <1>6 DEF InStatus, Closed

LEMMA SeverityCounts ==
    ASSUME TypeOK, NEW count \in [Severities -> Nat],
           \A s \in Severities : count[s] = Cardinality({a \in Stays(alerts) : Severity[a] = s})
    PROVE  count["CRITICAL"] + count["HIGH"] + count["MEDIUM"] + count["LOW"]
             = Cardinality(Stays(alerts))
<1> DEFINE Of(s) == {a \in Stays(alerts) : Severity[a] = s}
<1>1. Stays(alerts) \subseteq AlertId /\ \A s : Of(s) \subseteq AlertId
  BY DEF Stays
<1>2. \A a \in AlertId : Severity[a] \in Severities
  BY AlertsAreNumbered DEF AlertId
<1>3. Of("CRITICAL") \cup Of("HIGH") \cup Of("MEDIUM") \cup Of("LOW") = Stays(alerts)
  BY <1>1, <1>2 DEF Severities
<1>4. Cardinality(Of("CRITICAL") \cup Of("HIGH"))
        = Cardinality(Of("CRITICAL")) + Cardinality(Of("HIGH"))
  <2>1. Of("CRITICAL") \cap Of("HIGH") = {}
    OBVIOUS
  <2> QED
    BY <1>1, <2>1, Disjoint
<1>5. Cardinality(Of("CRITICAL") \cup Of("HIGH") \cup Of("MEDIUM"))
        = Cardinality(Of("CRITICAL") \cup Of("HIGH")) + Cardinality(Of("MEDIUM"))
  <2>1. (Of("CRITICAL") \cup Of("HIGH")) \cap Of("MEDIUM") = {}
    OBVIOUS
  <2>2. Of("CRITICAL") \cup Of("HIGH") \subseteq AlertId
    BY <1>1
  <2> QED
    BY <1>1, <2>1, <2>2, Disjoint
<1>6. Cardinality(Of("CRITICAL") \cup Of("HIGH") \cup Of("MEDIUM") \cup Of("LOW"))
        = Cardinality(Of("CRITICAL") \cup Of("HIGH") \cup Of("MEDIUM")) + Cardinality(Of("LOW"))
  <2>1. (Of("CRITICAL") \cup Of("HIGH") \cup Of("MEDIUM")) \cap Of("LOW") = {}
    OBVIOUS
  <2>2. Of("CRITICAL") \cup Of("HIGH") \cup Of("MEDIUM") \subseteq AlertId
    BY <1>1
  <2> QED
    BY <1>1, <2>1, <2>2, Disjoint
<1>7. \A s \in Severities : count[s] = Cardinality(Of(s)) /\ Cardinality(Of(s)) \in Nat
  BY <1>1, AlertsFinite
<1>8. "CRITICAL" \in Severities /\ "HIGH" \in Severities /\ "MEDIUM" \in Severities
      /\ "LOW" \in Severities
  BY DEF Severities
<1> HIDE DEF Of
<1> QED
  BY <1>3, <1>4, <1>5, <1>6, <1>7, <1>8

(* The join has one row of an alert, with its first response if there is one. *)
LEMMA SlaJoinIs ==
    ASSUME TypeOK, TablesInv, NEW a \in Stays(alerts)
    PROVE  \E m \in 0..MaxClock \cup {NotYet} :
             /\ SlaJoin(a) = {m}
             /\ m = NotYet <=> alerts[a].status = "open"
             /\ alerts[a].status # "open" =>
                  m \in Responses(a) /\ \A n \in Responses(a) : n \in Nat /\ m <= n
<1>1. alerts[a].status = "open" <=> Responses(a) = {}
  BY DEF TablesInv
<1>2. CASE Responses(a) = {}
  BY <1>1, <1>2 DEF SlaJoin
<1>3. CASE Responses(a) # {}
  <2>1. Responses(a) \subseteq Nat /\ \A n \in Responses(a) : n <= MaxClock
    BY DEF Responses, TypeOK, TablesInv
  <2>2. PICK m \in Responses(a) : \A n \in Responses(a) : m <= n
    BY <1>3, <2>1, Least
  <2>3. SlaJoin(a) = {m}
    <3>1. \A n \in Responses(a) : (\A k \in Responses(a) : n <= k) => n = m
      BY <2>1, <2>2
    <3> QED
      BY <1>3, <2>2, <3>1 DEF SlaJoin
  <2>4. m \in 0..MaxClock /\ m # NotYet
    BY <2>1, ReadsBounds DEF NotYet
  <2> QED
    BY <1>1, <1>3, <2>1, <2>2, <2>3, <2>4
<1> QED
  BY <1>2, <1>3


(* The rows for compute_sla: one of every alert there is. *)
LEMMA SlaRowsAre ==
    ASSUME TypeOK, TablesInv, StatsSla
    PROVE  /\ IsFiniteSet(slaRows') /\ Cardinality(slaRows') = Cardinality(Stays(alerts))
           /\ \A r, s \in slaRows' : r.alert = s.alert => r = s
           /\ \A a \in AlertId : {r \in slaRows' : r.alert = a} = SlaOf(a)
<1> DEFINE Resp(a) == CHOOSE m : SlaJoin(a) = {m}
           Row == [a \in Stays(alerts) |->
                     [alert |-> a, created |-> alerts[a].created, resp |-> Resp(a)]]
<1>1. \A a \in Stays(alerts) : SlaJoin(a) = {Resp(a)} /\ Resp(a) \in 0..MaxClock \cup {NotYet}
  <2> SUFFICES ASSUME NEW a \in Stays(alerts)
               PROVE  SlaJoin(a) = {Resp(a)} /\ Resp(a) \in 0..MaxClock \cup {NotYet}
    OBVIOUS
  <2>1. PICK m \in 0..MaxClock \cup {NotYet} : SlaJoin(a) = {m}
    BY SlaJoinIs
  <2>2. SlaJoin(a) = {Resp(a)}
    BY <2>1
  <2>3. Resp(a) = m
    BY <2>1, <2>2
  <2> QED
    BY <2>1, <2>2, <2>3
<1> HIDE DEF Resp
<1>2. \A r : r \in slaRows' <=> \E a \in Stays(alerts) : r = Row[a]
  <2>1. \A r : r \in slaRows' <=>
          \E p \in {q \in Stays(alerts) \X (0..MaxClock \cup {NotYet}) : q[2] \in SlaJoin(q[1])} :
            r = [alert |-> p[1], created |-> alerts[p[1]].created, resp |-> p[2]]
    BY DEF StatsSla
  <2>2. ASSUME NEW r, NEW a \in Stays(alerts), r = Row[a]
        PROVE  r \in slaRows'
    <3>1. PICK p : p = <<a, Resp(a)>>
      OBVIOUS
    <3>2. /\ p \in {q \in Stays(alerts) \X (0..MaxClock \cup {NotYet}) : q[2] \in SlaJoin(q[1])}
          /\ p[1] = a /\ p[2] = Resp(a)
      BY <1>1, <3>1
    <3>3. r = [alert |-> p[1], created |-> alerts[p[1]].created, resp |-> p[2]]
      BY <2>2, <3>2
    <3> QED
      BY <2>1, <3>2, <3>3
  <2>3. ASSUME NEW r \in slaRows'
        PROVE  \E a \in Stays(alerts) : r = Row[a]
    <3>1. PICK p \in {q \in Stays(alerts) \X (0..MaxClock \cup {NotYet}) : q[2] \in SlaJoin(q[1])} :
            r = [alert |-> p[1], created |-> alerts[p[1]].created, resp |-> p[2]]
      BY <2>1, <2>3
    <3>2. p[1] \in Stays(alerts) /\ p[2] = Resp(p[1])
      BY <1>1, <3>1
    <3> QED
      BY <3>1, <3>2
  <2> QED
    BY <2>2, <2>3
<1>3. \A a \in Stays(alerts) : Row[a].alert = a /\ SlaOf(a) = {Row[a]}
  BY <1>1 DEF SlaOf
<1>4. Row \in Bijection(Stays(alerts), slaRows')
  <2>1. Row \in [Stays(alerts) -> slaRows']
    BY <1>2
  <2>2. Row \in Injection(Stays(alerts), slaRows')
    BY <1>3, <2>1 DEF Injection, IsInjective
  <2> QED
    BY <1>2, <2>1, <2>2 DEF Bijection, Surjection
<1>5. IsFiniteSet(slaRows') /\ Cardinality(slaRows') = Cardinality(Stays(alerts))
  <2>1. IsFiniteSet(Stays(alerts))
    BY CountsAreNat
  <2> QED
    BY <1>4, <2>1, FS_Bijection DEF ExistsBijection
<1> HIDE DEF Row
<1>6. \A r, s \in slaRows' : r.alert = s.alert => r = s
  BY <1>2, <1>3
<1>7. ASSUME NEW a \in AlertId
      PROVE  {r \in slaRows' : r.alert = a} = SlaOf(a)
  <2>1. CASE a \in Stays(alerts)
    BY <1>2, <1>3, <2>1
  <2>2. CASE a \notin Stays(alerts)
    <3>1. SlaOf(a) = {}
      BY <2>2 DEF SlaOf
    <3>2. \A r \in slaRows' : r.alert # a
      BY <1>2, <1>3, <2>2
    <3> QED
      BY <3>1, <3>2
  <2> QED
    BY <2>1, <2>2
<1> QED
  BY <1>5, <1>6, <1>7

(* An up to date row is in breach exactly if its alert is overdue. *)
LEMMA BreachMeans ==
    ASSUME TypeOK, TablesInv, NEW a \in AlertId, {r \in slaRows : r.alert = a} = SlaOf(a)
    PROVE  (\E r \in slaRows : r.alert = a /\ Elapsed(r, clock) > Target[Severity[a]])
             <=> a \in Stays(alerts) /\ Overdue(a, clock)
<1>1. CASE a \notin Stays(alerts)
  BY <1>1 DEF SlaOf
<1>2. CASE a \in Stays(alerts)
  <2>1. PICK m \in 0..MaxClock \cup {NotYet} :
             /\ SlaJoin(a) = {m}
             /\ m = NotYet <=> alerts[a].status = "open"
             /\ alerts[a].status # "open" =>
                  m \in Responses(a) /\ \A n \in Responses(a) : n \in Nat /\ m <= n
    BY <1>2, SlaJoinIs
  <2>2. PICK row : row = [alert |-> a, created |-> alerts[a].created, resp |-> m]
    OBVIOUS
  <2>3. row.alert = a /\ row.created = alerts[a].created /\ row.resp = m
    BY <2>2
  <2>4. {r \in slaRows : r.alert = a} = {row}
    BY <1>2, <2>1, <2>2 DEF SlaOf
  <2>5. (\E r \in slaRows : r.alert = a /\ Elapsed(r, clock) > Target[Severity[a]])
          <=> Elapsed(row, clock) > Target[Severity[a]]
    BY <2>4
  <2>6. CASE alerts[a].status = "open"
    BY <1>2, <2>1, <2>3, <2>5, <2>6 DEF Elapsed, Overdue
  <2>7. CASE alerts[a].status # "open"
    <3>1. Elapsed(row, clock) = m /\ m \in Nat
      BY <2>1, <2>3, <2>7 DEF Elapsed
    <3>2. PICK target \in Nat : target = Target[Severity[a]]
      <4>1. Severity[a] \in Severities
        BY AlertsAreNumbered DEF AlertId
      <4> QED
        BY <4>1, TargetsAreTicks
    <3>3. m > target <=> \A n \in Responses(a) : n > target
      BY <2>1, <2>7, <3>1, <3>2
    <3> QED
      BY <1>2, <2>5, <2>7, <3>1, <3>2, <3>3 DEF Overdue
  <2> QED
    BY <2>6, <2>7
<1> QED
  BY <1>1, <1>2

(* The breaches are off by no more than the alerts with outdated rows. *)
LEMMA BreachesCounted ==
    ASSUME TypeOK, TablesInv, SlaInv
    PROVE  LET breaches == Cardinality({r \in slaRows : Elapsed(r, clock) > Target[Severity[r.alert]]})
               late == Cardinality({a \in Stays(alerts) : Overdue(a, clock)})
           IN  /\ breaches \in Nat /\ late \in Nat /\ Cardinality(Outdated) \in Nat
               /\ breaches <= late + Cardinality(Outdated)
               /\ late <= breaches + Cardinality(Outdated)
<1> DEFINE B == {r \in slaRows : Elapsed(r, clock) > Target[Severity[r.alert]]}
           In == {a \in AlertId : \E r \in B : r.alert = a}
           Of == [r \in B |-> r.alert]
           Late == {a \in Stays(alerts) : Overdue(a, clock)}
<1>1. \A r \in slaRows : r.alert \in AlertId
  BY DEF TypeOK
<1>2. IsFiniteSet(B)
  BY FS_Subset DEF SlaInv
<1>3. Of \in Bijection(B, In)
  <2>1. Of \in [B -> In]
    BY <1>1
  <2>2. Of \in Injection(B, In)
    BY <2>1 DEF Injection, IsInjective, SlaInv
  <2> QED
    BY <2>1, <2>2 DEF Bijection, Surjection
<1>4. Cardinality(B) = Cardinality(In)
  BY <1>2, <1>3, FS_Bijection DEF ExistsBijection
<1>5. In \subseteq Late \cup Outdated /\ Late \subseteq In \cup Outdated
  <2>1. \A a \in AlertId : a \notin Outdated => (a \in In <=> a \in Late)
    <3> SUFFICES ASSUME NEW a \in AlertId, a \notin Outdated
                 PROVE  a \in In <=> a \in Late
      OBVIOUS
    <3>1. {r \in slaRows : r.alert = a} = SlaOf(a)
      BY DEF Outdated
    <3>2. (\E r \in slaRows : r.alert = a /\ Elapsed(r, clock) > Target[Severity[a]])
            <=> a \in Stays(alerts) /\ Overdue(a, clock)
      BY <3>1, BreachMeans
    <3> QED
      BY <3>2
  <2> QED
    BY <2>1 DEF Stays
<1>6. In \subseteq AlertId /\ Late \subseteq AlertId /\ Outdated \subseteq AlertId
  BY DEF Stays, Outdated
<1> HIDE DEF In, Late
<1>7. /\ Cardinality(In) <= Cardinality(Late) + Cardinality(Outdated)
      /\ Cardinality(Late) <= Cardinality(In) + Cardinality(Outdated)
      /\ Cardinality(In) \in Nat /\ Cardinality(Late) \in Nat /\ Cardinality(Outdated) \in Nat
  BY <1>5, <1>6, Drift
<1> QED
  BY <1>4, <1>7 DEF Late


-----------------------------------------------------------------------------
(* Figures: what a commit does to them *)

LEMMA UntouchedAlert ==
    ASSUME NEW touched, Touches(touched), NEW a \in AlertId \ touched
    PROVE  /\ alerts'[a] = alerts[a]
           /\ a \in Stays(alerts') <=> a \in Stays(alerts)
           /\ Responses(a)' = Responses(a)
           /\ SlaOf(a)' = SlaOf(a)
           /\ \A now : Overdue(a, now)' = Overdue(a, now)
<1>1. alerts'[a] = alerts[a] /\ \A r : r.alert \notin touched => (r \in actions' <=> r \in actions)
  BY DEF Touches
<1>2. a \in Stays(alerts') <=> a \in Stays(alerts)
  BY <1>1 DEF Stays
<1>3. Responses(a)' = Responses(a)
  <2>1. {x \in actions' : x.alert = a} = {x \in actions : x.alert = a}
    BY <1>1
  <2> QED
    BY <2>1 DEF Responses
<1>4. SlaJoin(a)' = SlaJoin(a)
  BY <1>3 DEF SlaJoin
<1>5. SlaOf(a)' = SlaOf(a)
  BY <1>1, <1>2, <1>4 DEF SlaOf
<1> QED
  BY <1>1, <1>2, <1>3, <1>5 DEF Overdue

LEMMA FiguresDrift ==
    ASSUME NEW touched, Touches(touched), UNCHANGED <<clock, ask, step, response>>
    PROVE  /\ Stays(alerts') \subseteq Stays(alerts) \cup touched
           /\ Stays(alerts) \subseteq Stays(alerts') \cup touched
           /\ Closed' \subseteq Closed \cup touched /\ Closed \subseteq Closed' \cup touched
           /\ Forgotten \subseteq Forgotten' \cup touched
           /\ Outdated' \subseteq Outdated \cup touched
           /\ LateNow' \subseteq LateNow \cup touched /\ LateNow \subseteq LateNow' \cup touched
<1>1. UNCHANGED <<figures, slaRows>>
  BY DEF response
<1>2. \A a \in AlertId \ touched :
        /\ alerts'[a] = alerts[a]
        /\ a \in Stays(alerts') <=> a \in Stays(alerts)
        /\ SlaOf(a)' = SlaOf(a)
        /\ Overdue(a, figures.asOf)' = Overdue(a, figures.asOf)
  BY <1>1, UntouchedAlert
<1>3. \A r : r.alert \notin touched => (r \in actions' <=> r \in actions)
  BY DEF Touches
<1>4. /\ Stays(alerts') \subseteq Stays(alerts) \cup touched
      /\ Stays(alerts) \subseteq Stays(alerts') \cup touched
  BY <1>2 DEF Stays
<1>5. Closed' \subseteq Closed \cup touched /\ Closed \subseteq Closed' \cup touched
  BY <1>2 DEF Closed
<1>6. Forgotten \subseteq Forgotten' \cup touched
  <2> SUFFICES ASSUME NEW a \in Forgotten, a \notin touched
               PROVE  a \in Forgotten'
    OBVIOUS
  <2>1. a \in AlertId /\ a \in Closed' /\ \A r \in actions : r.alert = a => r.at < figures.began - Week
    BY <1>5 DEF Forgotten, Closed
  <2>2. \A r \in actions' : r.alert = a => r \in actions
    BY <1>3
  <2> QED
    BY <1>1, <2>1, <2>2 DEF Forgotten
<1>7. Outdated' \subseteq Outdated \cup touched
  BY <1>1, <1>2 DEF Outdated
<1>8. LateNow' \subseteq LateNow \cup touched /\ LateNow \subseteq LateNow' \cup touched
  BY <1>2, <1>4 DEF LateNow, Stays
<1> QED
  BY <1>4, <1>5, <1>6, <1>7, <1>8


LEMMA FiguresCommit ==
    ASSUME ReadsInv, Commit
    PROVE  FiguresInv'
<1>1. TypeOK /\ TablesInv /\ RequestInv /\ FiguresInv
  BY DEF ReadsInv
<1>2. /\ TypeOK' /\ UNCHANGED <<clock, ask, step, response>>
  BY <1>1, Observed
<1>3. UNCHANGED <<figures, slaRows>>
  BY <1>2 DEF response
<1> SUFFICES ASSUME ask.what = "stats"
             PROVE  FiguresInv'
  BY <1>2 DEF FiguresInv
<1>4. step # "idle"
  BY <1>1, WhatIsAsked
<1>5. PICK touched : /\ Touches(touched) /\ Cardinality(touched) \in Nat
                     /\ changed' = changed + Cardinality(touched)
  BY <1>1, <1>4, Observed
<1>6. PICK n \in Nat : n = Cardinality(touched)
  BY <1>5
<1>7. changed \in Nat /\ came \in Nat /\ changed' = changed + n
  BY <1>1, <1>5, <1>6 DEF TypeOK
<1>8. touched \subseteq AlertId
  BY <1>5 DEF Touches
<1>9. /\ Stays(alerts') \subseteq Stays(alerts) \cup touched
      /\ Stays(alerts) \subseteq Stays(alerts') \cup touched
      /\ Closed' \subseteq Closed \cup touched /\ Closed \subseteq Closed' \cup touched
      /\ Forgotten \subseteq Forgotten' \cup touched
      /\ Outdated' \subseteq Outdated \cup touched
      /\ LateNow' \subseteq LateNow \cup touched /\ LateNow \subseteq LateNow' \cup touched
  BY <1>2, <1>5, FiguresDrift
<1>10. /\ Stays(alerts) \subseteq AlertId /\ Stays(alerts') \subseteq AlertId
       /\ Closed \subseteq AlertId /\ Closed' \subseteq AlertId
       /\ Forgotten \subseteq AlertId /\ Forgotten' \subseteq AlertId
       /\ Outdated \subseteq AlertId /\ Outdated' \subseteq AlertId
       /\ LateNow \subseteq AlertId /\ LateNow' \subseteq AlertId
  BY DEF Stays, Closed, Forgotten, Outdated, LateNow
<1>11. PICK stays \in Nat, staysThen \in Nat :
          /\ stays = Cardinality(Stays(alerts)) /\ staysThen = Cardinality(Stays(alerts'))
          /\ stays <= staysThen + n /\ staysThen <= stays + n
  BY <1>6, <1>8, <1>9, <1>10, Drift
<1>12. PICK closed \in Nat, closedThen \in Nat :
          /\ closed = Cardinality(Closed) /\ closedThen = Cardinality(Closed')
          /\ closed <= closedThen + n /\ closedThen <= closed + n
  BY <1>6, <1>8, <1>9, <1>10, Drift
<1>13. PICK forgotten \in Nat, forgottenThen \in Nat :
          /\ forgotten = Cardinality(Forgotten) /\ forgottenThen = Cardinality(Forgotten')
          /\ forgotten <= forgottenThen + n
  BY <1>6, <1>8, <1>9, <1>10, Drift
<1>14. PICK outdated \in Nat, outdatedThen \in Nat :
          /\ outdated = Cardinality(Outdated) /\ outdatedThen = Cardinality(Outdated')
          /\ outdatedThen <= outdated + n
  BY <1>6, <1>8, <1>9, <1>10, Drift
<1>15. PICK late \in Nat, lateThen \in Nat :
          /\ late = Cardinality(LateNow) /\ lateThen = Cardinality(LateNow')
          /\ late <= lateThen + n /\ lateThen <= late + n
  BY <1>6, <1>8, <1>9, <1>10, Drift
<1>16. PICK new \in Nat : came' = came + new /\ staysThen <= stays + new
  <2>1. Watched(alerts', audit') = Stays(alerts') /\ Watched(alerts, audit) = Stays(alerts)
    BY DEF Watched
  <2>2. came' = came + Cardinality(Stays(alerts') \ Stays(alerts))
    BY <1>1, <1>4, <2>1, Observed
  <2>3. /\ Stays(alerts') \ Stays(alerts) \subseteq AlertId
        /\ Stays(alerts') \subseteq Stays(alerts) \cup (Stays(alerts') \ Stays(alerts))
    BY <1>10
  <2>4. /\ staysThen <= stays + Cardinality(Stays(alerts') \ Stays(alerts))
        /\ Cardinality(Stays(alerts') \ Stays(alerts)) \in Nat
    BY <1>10, <1>11, <2>3, Drift
  <2> QED
    BY <2>2, <2>4
<1>17. /\ figures.total \in Nat /\ figures.open \in Nat /\ figures.escalated \in Nat
       /\ figures.triaged \in Nat /\ figures.acted \in Nat /\ figures.considered \in Nat
       /\ figures.breaches \in Nat
  BY <1>1 DEF TypeOK
<1>18. Cardinality(Stays(alerts))' = staysThen
  BY <1>11
<1>19. step # "total" => TotalInv'
  <2> SUFFICES ASSUME step # "total" PROVE TotalInv'
    OBVIOUS
  <2>1. /\ figures.total <= stays + changed /\ stays <= figures.total + changed
        /\ stays <= figures.total + came
    BY <1>1, <1>11 DEF FiguresInv, TotalInv, Near
  <2>2. /\ figures.total <= staysThen + changed' /\ staysThen <= figures.total + changed'
        /\ staysThen <= figures.total + came'
    BY <1>7, <1>11, <1>16, <1>17, <2>1
  <2> QED
    BY <1>3, <1>18, <2>2 DEF TotalInv, Near
<1>20. step \notin {"total", "open"} => OpenInv'
  <2> SUFFICES ASSUME step \notin {"total", "open"} PROVE OpenInv'
    OBVIOUS
  <2>1. /\ figures.total - figures.open <= closed + changed
        /\ closed <= figures.total - figures.open + changed
        /\ figures.open <= figures.total + came
    BY <1>1, <1>12 DEF FiguresInv, OpenInv, Near
  <2>2. /\ figures.total - figures.open <= closedThen + changed'
        /\ closedThen <= figures.total - figures.open + changed'
        /\ figures.open <= figures.total + came'
    BY <1>7, <1>12, <1>16, <1>17, <2>1
  <2> QED
    BY <1>3, <1>12, <2>2 DEF OpenInv, Near
<1>21. step \notin {"total", "open", "breakdown"} => Near(figures.total, BySeverity)'
  <2> SUFFICES ASSUME step \notin {"total", "open", "breakdown"}
               PROVE  Near(figures.total, BySeverity)'
    OBVIOUS
  <2>1. figures.total <= BySeverity + changed /\ BySeverity <= figures.total + changed
    BY <1>1 DEF FiguresInv, Near
  <2>2. BySeverity' = BySeverity
    BY <1>3 DEF BySeverity
  <2>3. BySeverity \in Nat
    <3>1. figures.bySeverity \in [Severities -> Nat]
      BY <1>1 DEF TypeOK
    <3> QED
      BY <3>1 DEF BySeverity, Severities
  <2>4. figures.total <= BySeverity + changed' /\ BySeverity <= figures.total + changed'
    BY <1>7, <1>17, <2>1, <2>3
  <2> QED
    BY <1>3, <2>2, <2>4 DEF Near
<1>22. step \in {"mttr", "sla", "compute", "answered"} => EscalationInv'
  <2> SUFFICES ASSUME step \in {"mttr", "sla", "compute", "answered"} PROVE EscalationInv'
    OBVIOUS
  <2>1. /\ figures.total - figures.open <= figures.triaged + changed
        /\ figures.triaged <= figures.total - figures.open + changed
        /\ figures.escalated <= figures.triaged /\ figures.triaged <= closed + changed
    BY <1>1, <1>12 DEF FiguresInv, EscalationInv, Near
  <2>2. /\ figures.total - figures.open <= figures.triaged + changed'
        /\ figures.triaged <= figures.total - figures.open + changed'
        /\ figures.escalated <= figures.triaged /\ figures.triaged <= closedThen + changed'
    BY <1>7, <1>12, <1>17, <2>1
  <2> QED
    BY <1>3, <1>12, <2>2 DEF EscalationInv, Near
<1>23. step \in {"sla", "compute", "answered"} => MttrInv'
  <2> SUFFICES ASSUME step \in {"sla", "compute", "answered"} PROVE MttrInv'
    OBVIOUS
  <2>1. figures.triaged <= figures.acted + forgotten + changed
    BY <1>1, <1>13 DEF FiguresInv, MttrInv
  <2>2. figures.triaged <= figures.acted + forgottenThen + changed'
    BY <1>7, <1>13, <1>17, <2>1
  <2> QED
    BY <1>3, <1>13, <2>2 DEF MttrInv
<1>24. step = "compute" => SlaInv' /\ Cardinality(Outdated') <= changed'
  <2> SUFFICES ASSUME step = "compute" PROVE SlaInv' /\ Cardinality(Outdated') <= changed'
    OBVIOUS
  <2>1. SlaInv /\ outdated <= changed
    BY <1>1, <1>14 DEF FiguresInv
  <2>2. PICK size \in Nat : size = Cardinality(slaRows)
    BY <2>1, FS_CardinalityType DEF SlaInv
  <2>3. figures.total <= size + changed' /\ size <= figures.total + changed'
    BY <1>7, <1>17, <2>1, <2>2 DEF SlaInv, Near
  <2>4. SlaInv'
    BY <1>3, <2>1, <2>2, <2>3 DEF SlaInv, Near
  <2>5. outdatedThen <= changed'
    BY <1>7, <1>14, <2>1
  <2> QED
    BY <1>14, <2>4, <2>5
<1>25. step = "answered" => /\ Near(figures.total, figures.considered)'
                            /\ Near(figures.breaches, Cardinality(LateNow))'
  <2> SUFFICES ASSUME step = "answered"
               PROVE  /\ Near(figures.total, figures.considered)'
                      /\ Near(figures.breaches, Cardinality(LateNow))'
    OBVIOUS
  <2>1. /\ figures.total <= figures.considered + changed
        /\ figures.considered <= figures.total + changed
        /\ figures.breaches <= late + changed /\ late <= figures.breaches + changed
    BY <1>1, <1>15 DEF FiguresInv, Near
  <2>2. /\ figures.total <= figures.considered + changed'
        /\ figures.considered <= figures.total + changed'
        /\ figures.breaches <= lateThen + changed' /\ lateThen <= figures.breaches + changed'
    BY <1>7, <1>15, <1>17, <2>1
  <2> QED
    BY <1>3, <1>15, <2>2 DEF Near
<1> QED
  BY <1>2, <1>19, <1>20, <1>21, <1>22, <1>23, <1>24, <1>25 DEF FiguresInv


-----------------------------------------------------------------------------
(* Figures: what the statements of /api/stats make of them *)

(* A statement of /api/stats leaves the tables and the history alone, so    *)
(* what was said of figures it does not set still holds.                    *)
LEMMA StatsKeeps ==
    ASSUME UNCHANGED <<clock, tables, history>>
    PROVE  /\ Stays(alerts)' = Stays(alerts) /\ Closed' = Closed
           /\ changed' = changed /\ came' = came
           /\ figures'.total = figures.total => (TotalInv <=> TotalInv')
           /\ figures'.total = figures.total /\ figures'.open = figures.open
                => (OpenInv <=> OpenInv')
           /\ figures'.began = figures.began => Forgotten' = Forgotten
<1>1. UNCHANGED <<alerts, actions, changed, came>>
  BY DEF tables, history
<1>2. Stays(alerts)' = Stays(alerts) /\ Closed' = Closed
  BY <1>1 DEF Stays, Closed
<1>3. figures'.began = figures.began => Forgotten' = Forgotten
  BY <1>1, <1>2 DEF Forgotten
<1>4. figures'.total = figures.total => (TotalInv <=> TotalInv')
  BY <1>1, <1>2 DEF TotalInv, Near
<1>5. figures'.total = figures.total /\ figures'.open = figures.open => (OpenInv <=> OpenInv')
  BY <1>1, <1>2 DEF OpenInv, Near
<1> QED
  BY <1>1, <1>2, <1>3, <1>4, <1>5

LEMMA StatsTotalFigures ==
    ASSUME TypeOK, StatsTotal
    PROVE  FiguresInv'
<1>1. /\ UNCHANGED <<clock, tables, history>> /\ step' = "open"
      /\ figures'.total = InStatus({"open"} \cup Verdicts)
  BY DEF StatsTotal, Goto, TypeOK
<1>2. Cardinality(Stays(alerts))' = figures'.total /\ figures'.total \in Nat
  BY <1>1, StatsKeeps, StatusCounts
<1>3. changed' \in Nat /\ came' \in Nat
  BY <1>1 DEF TypeOK, history
<1>4. TotalInv'
  BY <1>2, <1>3 DEF TotalInv, Near
<1> QED
  BY <1>1, <1>4 DEF FiguresInv

LEMMA StatsOpenFigures ==
    ASSUME TypeOK, RequestInv, FiguresInv, StatsOpen
    PROVE  FiguresInv'
<1>1. /\ UNCHANGED <<clock, tables, history>> /\ step' = "breakdown" /\ step = "open"
      /\ figures'.open = InStatus({"open"}) /\ figures'.total = figures.total
  BY DEF StatsOpen, Goto, TypeOK
<1>2. TotalInv /\ TotalInv'
  BY <1>1, StatsKeeps, WhatIsAsked DEF FiguresInv
<1>3. PICK open \in Nat, closed \in Nat, stays \in Nat, total0 \in Nat :
        /\ open = figures'.open /\ closed = Cardinality(Closed)
        /\ stays = Cardinality(Stays(alerts)) /\ total0 = figures.total
        /\ stays = open + closed
  <2>1. figures.total \in Nat
    BY DEF TypeOK
  <2>2. /\ figures'.open \in Nat /\ Cardinality(Closed) \in Nat
        /\ Cardinality(Stays(alerts)) \in Nat
        /\ Cardinality(Stays(alerts)) = figures'.open + Cardinality(Closed)
    BY <1>1, StatusCounts
  <2> QED
    BY <2>1, <2>2
<1>4. changed \in Nat /\ came \in Nat
  BY DEF TypeOK
<1>5. /\ total0 <= stays + changed /\ stays <= total0 + changed /\ stays <= total0 + came
  BY <1>2, <1>3 DEF TotalInv, Near
<1>6. /\ total0 - open <= closed + changed /\ closed <= total0 - open + changed
      /\ open <= total0 + came
  BY <1>3, <1>4, <1>5
<1>7. Cardinality(Closed)' = closed /\ changed' = changed /\ came' = came
  BY <1>1, <1>3, StatsKeeps
<1>8. OpenInv'
  BY <1>1, <1>3, <1>6, <1>7 DEF OpenInv, Near
<1> QED
  BY <1>1, <1>2, <1>8 DEF FiguresInv

LEMMA StatsBySeverityFigures ==
    ASSUME TypeOK, RequestInv, FiguresInv, StatsBySeverity
    PROVE  FiguresInv'
<1>1. /\ UNCHANGED <<clock, tables, history>> /\ step' = "escalation" /\ step = "breakdown"
      /\ figures'.open = figures.open /\ figures'.total = figures.total
      /\ figures'.bySeverity =
           [s \in Severities |-> Cardinality({a \in Stays(alerts) : Severity[a] = s})]
  BY DEF StatsBySeverity, Goto, TypeOK
<1>2. TotalInv /\ TotalInv' /\ OpenInv'
  BY <1>1, StatsKeeps, WhatIsAsked DEF FiguresInv
<1>3. PICK count : count = figures'.bySeverity
  OBVIOUS
<1>4. \A s \in Severities : Cardinality({a \in Stays(alerts) : Severity[a] = s}) \in Nat
  BY AlertsFinite DEF Stays
<1>5. /\ count \in [Severities -> Nat]
      /\ \A s \in Severities : count[s] = Cardinality({a \in Stays(alerts) : Severity[a] = s})
  BY <1>1, <1>3, <1>4
<1>6. BySeverity' = Cardinality(Stays(alerts))
  <2>1. count["CRITICAL"] + count["HIGH"] + count["MEDIUM"] + count["LOW"]
             = Cardinality(Stays(alerts))
    BY <1>5, SeverityCounts
  <2> QED
    BY <1>3, <2>1 DEF BySeverity
<1>7. changed' = changed
  BY <1>1, StatsKeeps
<1>8. Near(figures.total, BySeverity)'
  BY <1>1, <1>2, <1>6, <1>7 DEF TotalInv, Near
<1> QED
  BY <1>1, <1>2, <1>8 DEF FiguresInv

LEMMA StatsEscalationFigures ==
    ASSUME TypeOK, RequestInv, FiguresInv, StatsEscalation
    PROVE  FiguresInv'
<1>1. /\ UNCHANGED <<clock, tables, history>> /\ step' = "mttr" /\ step = "escalation"
      /\ figures'.open = figures.open /\ figures'.total = figures.total
      /\ figures'.bySeverity = figures.bySeverity
      /\ figures'.escalated = InStatus({"escalated"}) /\ figures'.triaged = InStatus(Verdicts)
  BY DEF StatsEscalation, Goto, TypeOK
<1>2. TotalInv' /\ OpenInv /\ OpenInv' /\ Near(figures.total, BySeverity)
  BY <1>1, StatsKeeps, WhatIsAsked DEF FiguresInv
<1>3. changed' = changed /\ changed \in Nat
  BY <1>1, StatsKeeps DEF TypeOK
<1>4. Near(figures.total, BySeverity)'
  BY <1>1, <1>2, <1>3 DEF Near, BySeverity
<1>5. PICK closed \in Nat : closed = Cardinality(Closed) /\ closed = figures'.triaged
  BY <1>1, StatusCounts
<1>6. figures'.escalated <= closed
  BY <1>1, <1>5, StatusCounts
<1>7. Cardinality(Closed)' = closed
  BY <1>1, <1>5, StatsKeeps
<1>8. /\ figures'.total - figures'.open <= closed + changed
      /\ closed <= figures'.total - figures'.open + changed
  BY <1>1, <1>2, <1>5 DEF OpenInv, Near
<1>9. EscalationInv'
  BY <1>3, <1>5, <1>6, <1>7, <1>8 DEF EscalationInv, Near
<1> QED
  BY <1>1, <1>2, <1>4, <1>9 DEF FiguresInv

(* Every closed alert has an action: a recent one, or it is forgotten. *)
LEMMA RecentActions ==
    ASSUME TypeOK, TablesInv
    PROVE  LET recent == Cardinality({r \in actions : r.at >= figures.began - Week})
           IN  /\ Cardinality(Closed) <= recent + Cardinality(Forgotten)
               /\ recent \in Nat /\ Cardinality(Closed) \in Nat /\ Cardinality(Forgotten) \in Nat
<1> DEFINE Recent == {r \in actions : r.at >= figures.began - Week}
           Seen == {a \in AlertId : \E r \in Recent : r.alert = a}
           Of == [r \in Recent |-> r.alert]
<1>1. IsFiniteSet(Recent) /\ Cardinality(Recent) \in Nat
  BY CountsAreNat
<1>2. Of \in Surjection(Recent, Seen)
  BY DEF Surjection, TypeOK
<1>3. Cardinality(Seen) <= Cardinality(Recent)
  BY <1>1, <1>2, FS_Surjection
<1>4. Closed \subseteq Seen \cup Forgotten
  <2> SUFFICES ASSUME NEW a \in Closed, a \notin Forgotten
               PROVE  a \in Seen
    OBVIOUS
  <2>1. PICK r \in actions : r.alert = a /\ ~(r.at < figures.began - Week)
    BY DEF Forgotten
  <2>2. r.at \in Nat /\ figures.began - Week \in Int
    BY <2>1, ReadsBounds DEF TypeOK
  <2> QED
    BY <2>1, <2>2 DEF Closed
<1>5. Closed \subseteq AlertId /\ Seen \subseteq AlertId /\ Forgotten \subseteq AlertId
  BY DEF Closed, Forgotten
<1> HIDE DEF Recent, Seen
<1>6. /\ Cardinality(Closed) <= Cardinality(Seen) + Cardinality(Forgotten)
      /\ Cardinality(Closed) \in Nat /\ Cardinality(Seen) \in Nat /\ Cardinality(Forgotten) \in Nat
  BY <1>4, <1>5, Drift
<1>7. Cardinality(Closed) <= Cardinality(Recent) + Cardinality(Forgotten)
  BY <1>1, <1>3, <1>6
<1> QED
  BY <1>1, <1>6, <1>7 DEF Recent

LEMMA StatsMttrFigures ==
    ASSUME TypeOK, TablesInv, RequestInv, FiguresInv, StatsMttr
    PROVE  FiguresInv'
<1>1. /\ UNCHANGED <<clock, tables, history>> /\ step' = "sla" /\ step = "mttr"
      /\ figures'.open = figures.open /\ figures'.total = figures.total
      /\ figures'.bySeverity = figures.bySeverity /\ figures'.began = figures.began
      /\ figures'.escalated = figures.escalated /\ figures'.triaged = figures.triaged
      /\ figures'.acted = Cardinality({r \in actions : r.at >= figures.began - Week})
  BY DEF StatsMttr, Goto, TypeOK
<1>2. TotalInv' /\ OpenInv' /\ Near(figures.total, BySeverity) /\ EscalationInv
  BY <1>1, StatsKeeps, WhatIsAsked DEF FiguresInv
<1>3. /\ changed' = changed /\ Closed' = Closed /\ Forgotten' = Forgotten
      /\ changed \in Nat /\ figures.triaged \in Nat
  BY <1>1, StatsKeeps DEF TypeOK
<1>4. Near(figures.total, BySeverity)' /\ EscalationInv'
  BY <1>1, <1>2, <1>3 DEF Near, BySeverity, EscalationInv
<1>5. /\ Cardinality(Closed) <= figures'.acted + Cardinality(Forgotten)
      /\ figures'.acted \in Nat /\ Cardinality(Closed) \in Nat /\ Cardinality(Forgotten) \in Nat
  BY <1>1, RecentActions
<1>6. figures.triaged <= Cardinality(Closed) + changed
  BY <1>2 DEF EscalationInv
<1>7. figures.triaged <= figures'.acted + Cardinality(Forgotten) + changed
  BY <1>3, <1>5, <1>6
<1>8. MttrInv'
  BY <1>1, <1>3, <1>7 DEF MttrInv
<1> QED
  BY <1>1, <1>2, <1>4, <1>8 DEF FiguresInv


LEMMA StatsSlaFigures ==
    ASSUME TypeOK, TablesInv, RequestInv, FiguresInv, StatsSla
    PROVE  FiguresInv'
<1>1. UNCHANGED <<clock, tables, figures, history>> /\ step' = "compute" /\ step = "sla"
  BY DEF StatsSla, Goto
<1>2. /\ TotalInv /\ TotalInv' /\ OpenInv' /\ Near(figures.total, BySeverity) /\ EscalationInv
      /\ MttrInv
  BY <1>1, StatsKeeps, WhatIsAsked DEF FiguresInv
<1>3. /\ changed' = changed /\ Closed' = Closed /\ Forgotten' = Forgotten /\ changed \in Nat
      /\ Stays(alerts)' = Stays(alerts)
  BY <1>1, StatsKeeps DEF TypeOK
<1>4. Near(figures.total, BySeverity)' /\ EscalationInv' /\ MttrInv'
  BY <1>1, <1>2, <1>3 DEF Near, BySeverity, EscalationInv, MttrInv
<1>5. SlaInv'
  <2>1. /\ IsFiniteSet(slaRows') /\ Cardinality(slaRows') = Cardinality(Stays(alerts))
        /\ \A r, s \in slaRows' : r.alert = s.alert => r = s
    BY SlaRowsAre
  <2>2. Near(figures.total, Cardinality(slaRows))'
    BY <1>1, <1>2, <1>3, <2>1 DEF TotalInv, Near
  <2> QED
    BY <2>1, <2>2 DEF SlaInv
<1>6. Outdated' = {}
  <2>1. \A a : SlaOf(a)' = SlaOf(a)
    BY <1>1 DEF SlaOf, SlaJoin, Responses, Stays, tables
  <2>2. \A a \in AlertId : {r \in slaRows' : r.alert = a} = SlaOf(a)
    BY SlaRowsAre
  <2> QED
    BY <2>1, <2>2 DEF Outdated
<1>7. Cardinality(Outdated') <= changed'
  BY <1>3, <1>6, FS_EmptySet
<1> QED
  BY <1>1, <1>2, <1>4, <1>5, <1>7 DEF FiguresInv

LEMMA ComputeSlaFigures ==
    ASSUME TypeOK, TablesInv, RequestInv, FiguresInv, ComputeSla
    PROVE  FiguresInv'
<1>1. /\ UNCHANGED <<clock, tables, history>> /\ step' = "answered" /\ step = "compute"
      /\ figures'.open = figures.open /\ figures'.total = figures.total
      /\ figures'.bySeverity = figures.bySeverity /\ figures'.began = figures.began
      /\ figures'.escalated = figures.escalated /\ figures'.triaged = figures.triaged
      /\ figures'.acted = figures.acted
      /\ figures'.considered = Cardinality(slaRows)
      /\ figures'.breaches =
           Cardinality({r \in slaRows : Elapsed(r, clock) > Target[Severity[r.alert]]})
      /\ figures'.asOf = clock
  BY DEF ComputeSla, Goto, TypeOK
<1>2. /\ TotalInv' /\ OpenInv' /\ Near(figures.total, BySeverity) /\ EscalationInv
      /\ MttrInv /\ SlaInv /\ Cardinality(Outdated) <= changed
  BY <1>1, StatsKeeps, WhatIsAsked DEF FiguresInv
<1>3. /\ changed' = changed /\ Closed' = Closed /\ Forgotten' = Forgotten /\ changed \in Nat
      /\ Stays(alerts)' = Stays(alerts)
  BY <1>1, StatsKeeps DEF TypeOK
<1>4. Near(figures.total, BySeverity)' /\ EscalationInv' /\ MttrInv'
  BY <1>1, <1>2, <1>3 DEF Near, BySeverity, EscalationInv, MttrInv
<1>5. Near(figures.total, figures.considered)'
  BY <1>1, <1>2, <1>3 DEF SlaInv, Near
<1>6. LateNow' = {a \in Stays(alerts) : Overdue(a, clock)}
  <2>1. \A a : Responses(a)' = Responses(a) /\ alerts' = alerts
    BY <1>1 DEF Responses, tables
  <2>2. \A a : Overdue(a, figures.asOf)' <=> Overdue(a, clock)
    BY <1>1, <2>1 DEF Overdue
  <2> QED
    BY <1>3, <2>2 DEF LateNow
<1>7. PICK late \in Nat, outdated \in Nat :
        /\ late = Cardinality(LateNow') /\ outdated = Cardinality(Outdated)
        /\ figures'.breaches \in Nat
        /\ figures'.breaches <= late + outdated /\ late <= figures'.breaches + outdated
  BY <1>1, <1>2, <1>6, BreachesCounted
<1>8. figures'.breaches <= late + changed /\ late <= figures'.breaches + changed
  BY <1>2, <1>3, <1>7
<1>9. Near(figures.breaches, Cardinality(LateNow))'
  BY <1>3, <1>7, <1>8 DEF Near
<1> QED
  BY <1>1, <1>2, <1>4, <1>5, <1>9 DEF FiguresInv

LEMMA FiguresPreserved ==
    ASSUME ReadsInv, [Next]_vars
    PROVE  FiguresInv'
<1>1. TypeOK /\ TablesInv /\ RequestInv /\ FiguresInv
  BY DEF ReadsInv
<1>2. CASE Reader
  <2>1. CASE AskList \/ AskAudit \/ AskStats \/ AskLayer
    <3>1. step' \in {"count", "entries", "total", "techniques"} /\ (step' = "total" \/ ask'.what # "stats")
      BY <1>1, <2>1, AsksType
    <3> QED
      BY <3>1 DEF FiguresInv
  <2>2. CASE Leave
    <3>1. ask'.what = "none"
      BY <2>2 DEF Leave, NoRequest
    <3> QED
      BY <3>1 DEF FiguresInv
  <2>3. CASE \/ ListCount \/ ListRows \/ ListNextPage \/ AuditEntries \/ AuditCount \/ AuditNextPage
             \/ ExportLayer \/ ScoreGroup \/ LayerScored
    <3>1. ask.what # "stats" /\ ask' = ask
      BY <1>1, <2>3, WhatIsAsked
         DEF ListCount, ListRows, ListNextPage, AuditEntries, AuditCount, AuditNextPage, Turn, Goto,
             ExportLayer, ScoreGroup, LayerScored
    <3> QED
      BY <3>1 DEF FiguresInv
  <2> QED
    BY <1>1, <1>2, <2>1, <2>2, <2>3, StatsTotalFigures, StatsOpenFigures, StatsBySeverityFigures,
       StatsEscalationFigures, StatsMttrFigures, StatsSlaFigures, ComputeSlaFigures DEF Reader
<1>3. CASE Commit
  BY <1>3, FiguresCommit
<1>4. CASE Tick \/ UNCHANGED vars
  <2>1. UNCHANGED <<tables, ask, step, response, history>>
    BY <1>4 DEF Tick, vars
  <2>2. UNCHANGED <<alerts, actions, ask, step, figures, slaRows, changed, came>>
    BY <2>1 DEF tables, response, history
  <2>3. Stays(alerts)' = Stays(alerts) /\ Closed' = Closed /\ \A a : Responses(a)' = Responses(a)
    BY <2>2 DEF Stays, Closed, Responses
  <2>4. Forgotten' = Forgotten /\ BySeverity' = BySeverity
    BY <2>2, <2>3 DEF Forgotten, BySeverity
  <2>5. Outdated' = Outdated
    BY <2>2, <2>3 DEF Outdated, SlaOf, SlaJoin
  <2>6. LateNow' = LateNow
    BY <2>2, <2>3 DEF LateNow, Overdue
  <2>7. /\ TotalInv' <=> TotalInv
        /\ OpenInv' <=> OpenInv
        /\ Near(figures.total, BySeverity)' <=> Near(figures.total, BySeverity)
        /\ EscalationInv' <=> EscalationInv
        /\ MttrInv' <=> MttrInv
        /\ SlaInv' <=> SlaInv
        /\ Near(figures.total, figures.considered)' <=> Near(figures.total, figures.considered)
        /\ Near(figures.breaches, Cardinality(LateNow))' <=> Near(figures.breaches, Cardinality(LateNow))
    BY <2>2, <2>3, <2>4, <2>6 DEF TotalInv, OpenInv, EscalationInv, MttrInv, SlaInv, Near
  <2> QED
    BY <1>1, <2>2, <2>5, <2>7 DEF FiguresInv
<1> QED
  BY <1>2, <1>3, <1>4 DEF Next, Commit

LEMMA FiguresMean ==
    ASSUME TypeOK, TablesInv, FiguresInv
    PROVE  FiguresFit
<1> SUFFICES ASSUME Answered("stats")
             PROVE  FiguresFit
  BY DEF FiguresFit
<1>1. /\ TotalInv /\ OpenInv /\ Near(figures.total, BySeverity) /\ EscalationInv /\ MttrInv
      /\ Near(figures.total, figures.considered)
      /\ Near(figures.breaches, Cardinality(LateNow))
  BY DEF Answered, FiguresInv
<1>2. ASSUME \A r \in actions : r.at >= figures.began - Week
      PROVE  figures.triaged <= figures.acted + changed
  <2>1. ASSUME NEW a \in Forgotten
        PROVE  FALSE
    <3>1. a \in Stays(alerts) /\ alerts[a].status # "open"
      BY DEF Forgotten, Closed, Stays, Verdicts
    <3>2. PICK r \in actions : r.alert = a
      BY <3>1 DEF TablesInv, Responses
    <3>3. r.at < figures.began - Week /\ r.at >= figures.began - Week
      BY <1>2, <3>2 DEF Forgotten
    <3>4. r.at \in Nat /\ figures.began - Week \in Int
      BY <3>2, ReadsBounds DEF TypeOK
    <3> QED
      BY <3>3, <3>4
  <2>2. Cardinality(Forgotten) = 0
    BY <2>1, FS_EmptySet
  <2>3. figures.acted \in Nat /\ changed \in Nat
    BY DEF TypeOK
  <2> QED
    BY <1>1, <2>2, <2>3 DEF MttrInv
<1>3. Near(figures.total - figures.open, figures.triaged) /\ figures.escalated <= figures.triaged
  BY <1>1 DEF EscalationInv
<1>4. figures.open <= figures.total + came
  BY <1>1 DEF OpenInv
<1> QED
  BY <1>1, <1>2, <1>3, <1>4 DEF FiguresFit, BySeverity, LateNow

-----------------------------------------------------------------------------
(* The theorems *)

LEMMA ReadsInductive ==
    ASSUME ReadsInv, [Next]_vars
    PROVE  ReadsInv'
BY Others, LayerPreserved, EnvelopePreserved, FiguresPreserved DEF ReadsInv

LEMMA ReadsInvariant == Spec => []ReadsInv
<1>1. Init => ReadsInv
  BY InitInv
<1>2. ReadsInv /\ [Next]_vars => ReadsInv'
  BY ReadsInductive
<1> QED
  BY <1>1, <1>2, PTL DEF Spec

(* Every variable has the values the code gives it: in particular an id is  *)
(* never given twice, and the rows, figures and scores of a response are    *)
(* ones its statements can return.                                          *)
THEOREM ReadsTypeCorrect == Spec => []TypeOK
<1>1. ReadsInv => TypeOK
  BY DEF ReadsInv
<1> QED
  BY <1>1, ReadsInvariant, PTL

(* While the list does not change, every page of _list_alerts has as many   *)
(* rows as its envelope says: full before total_pages, the rest on the last *)
(* one, none beyond; for every per_page and every number of alerts.         *)
THEOREM EnvelopeIsRight == Spec => []EnvelopeFits
<1>1. ReadsInv => EnvelopeFits
  BY EnvelopeMeans DEF ReadsInv
<1> QED
  BY <1>1, ReadsInvariant, PTL

(* The figures of one /api/stats response, read by statements that see      *)
(* different states, differ by no more than the alerts that changed         *)
(* meanwhile.                                                               *)
THEOREM FiguresAgree == Spec => []FiguresFit
<1>1. ReadsInv => FiguresFit
  BY FiguresMean DEF ReadsInv
<1> QED
  BY <1>1, ReadsInvariant, PTL

(* The navigator layer of api_navigator_layer has the techniques of the     *)
(* alerts whose category has one, and scores each by the worst of them,     *)
(* whatever the order of the groups and whatever other categories there are. *)
THEOREM LayerIsWorst == Spec => []LayerShowsWorst
<1>1. ReadsInv => LayerShowsWorst
  BY LayerMeans DEF ReadsInv
<1> QED
  BY <1>1, ReadsInvariant, PTL

=============================================================================
