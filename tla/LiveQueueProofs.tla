--------------------------- MODULE LiveQueueProofs ---------------------------
(***************************************************************************)
(* What holds of LiveQueue for any pages, workers, alerts and bounds, in    *)
(* every order in which timers, events, clicks and answers can come.        *)
(***************************************************************************)
EXTENDS LiveQueue, FiniteSetTheorems, TLAPS

(* The event of a classification announces a commit that has been. *)
HandlersInv ==
    /\ IsFiniteSet(Streaming) /\ IsFiniteSet(Posting)
    /\ \A p \in Pages : post[p].stage = "committed" => post[p].ver \in 1..version

(* While its refreshes have not overlapped, a page has one request at most, *)
(* and its answer is as new as what the page shows and has been told.       *)
InTurn(p) ==
    /\ \A i, j \in Slots : fetch[p][i] # NoFetch /\ fetch[p][j] # NoFetch => i = j
    /\ ~Refreshing(p) => shown[p].ver >= told[p]
    /\ \A i \in Slots : fetch[p][i].stage = "answered" =>
         fetch[p][i].ver >= told[p] /\ fetch[p][i].ver >= shown[p].ver

NoneAhead(p) ==
    /\ told[p] <= version /\ shown[p].ver <= version
    /\ \A i \in Slots : fetch[p][i].ver <= version

PagesInv == \A p \in Pages : NoneAhead(p) /\ (~disturbed[p] => InTurn(p))

(* An answer is a view of the table as it was, for the preset asked for. *)
WasTrue(asked, rows) == \E t \in past : rows = View(asked, t)

AnswersInv ==
    /\ table \in past
    /\ failures = 0 =>
         \A p \in Pages :
           /\ shown[p].loaded => WasTrue(shown[p].asked, shown[p].rows)
           /\ \A i \in Slots : fetch[p][i].stage = "answered" =>
                WasTrue(fetch[p][i].asked, fetch[p][i].rows)

LiveQueueInv == TypeOK /\ HandlersInv /\ PagesInv /\ AnswersInv

-----------------------------------------------------------------------------
(* A list request changes *)

Becomes(p, i, f) ==
    /\ f \in Fetch
    /\ fetch' \in [Pages -> [Slots -> Fetch]]
    /\ \A q \in Pages, j \in Slots : fetch'[q][j] = IF q = p /\ j = i THEN f ELSE fetch[q][j]

FetchType == fetch \in [Pages -> [Slots -> Fetch]]

LEMMA SlotBecomes ==
    ASSUME FetchType, NEW p \in Pages, NEW i \in Slots, NEW f \in Fetch,
           fetch' = [fetch EXCEPT ![p][i] = f]
    PROVE  Becomes(p, i, f)
<1>1. fetch' = [fetch EXCEPT ![p] = [fetch[p] EXCEPT ![i] = f]]
  OBVIOUS
<1>2. fetch[p] \in [Slots -> Fetch]
  BY DEF FetchType
<1>3. [fetch[p] EXCEPT ![i] = f] \in [Slots -> Fetch]
  BY <1>2
<1> QED
  BY <1>1, <1>2, <1>3 DEF Becomes, FetchType

Sent(asked) == [stage |-> "sent", asked |-> asked, rows |-> {}, ver |-> 0, ok |-> TRUE]

(* A refresh takes a slot that is free. *)
Sends(p) ==
    /\ \E i \in Slots, asked \in Presets :
         fetch[p][i] = NoFetch /\ Becomes(p, i, Sent(asked))
    /\ disturbed' = [disturbed EXCEPT ![p] = @ \/ Refreshing(p)]

LEMMA RefreshSends ==
    ASSUME FetchType, NEW p \in Pages, NEW asked \in Presets, RefreshAll(p, asked)
    PROVE  Sends(p)
<1>1. PICK i \in Slots :
        /\ fetch[p][i] = NoFetch
        /\ fetch' = [fetch EXCEPT ![p][i] = [NoFetch EXCEPT !.stage = "sent", !.asked = asked]]
  BY DEF RefreshAll
<1>2. PICK f : f = [NoFetch EXCEPT !.stage = "sent", !.asked = asked]
  OBVIOUS
<1>3. f = Sent(asked)
  BY <1>2 DEF NoFetch, Sent
<1>4. f \in Fetch
  BY <1>3 DEF Sent, Fetch
<1>5. Becomes(p, i, f)
  BY <1>1, <1>2, <1>4, SlotBecomes
<1> QED
  BY <1>1, <1>3, <1>5 DEF RefreshAll, Sends

LEMMA SlotClears ==
    ASSUME FetchType, NEW p \in Pages, NEW i \in Slots,
           fetch' = [fetch EXCEPT ![p][i] = NoFetch]
    PROVE  Becomes(p, i, NoFetch)
<1>1. NoFetch \in Fetch
  BY DEF NoFetch, Fetch, Presets
<1> QED
  BY <1>1, SlotBecomes

Answer(asked, rows, ok) ==
    [stage |-> "answered", asked |-> asked, rows |-> rows, ver |-> version, ok |-> ok]

LEMMA ViewType ==
    ASSUME NEW asked \in Presets, NEW t
    PROVE  View(asked, t) \in SUBSET AlertId
BY DEF View, Ordered

LEMMA ListAnswers ==
    ASSUME FetchType, version \in Nat, NEW p \in Pages, NEW i \in Slots, ListAlerts(p, i)
    PROVE  /\ fetch[p][i].stage = "sent"
           /\ Becomes(p, i, Answer(fetch[p][i].asked, View(fetch[p][i].asked, table),
                                   fetch[p][i].ok))
<1>1. PICK f \in Fetch : f = fetch[p][i]
  BY DEF FetchType
<1>2. f.asked \in Presets /\ f.ok \in BOOLEAN
  BY DEF Fetch
<1>3. PICK rows \in SUBSET AlertId : rows = View(f.asked, table)
  BY <1>2, ViewType
<1>4. PICK g : g = Answer(f.asked, rows, f.ok)
  OBVIOUS
<1>5. g \in Fetch
  BY <1>2, <1>4 DEF Answer, Fetch
<1>6. fetch' = [fetch EXCEPT ![p][i] = g]
  <2>1. fetch' = [fetch EXCEPT ![p][i] = [f EXCEPT !.stage = "answered", !.rows = rows,
                                                   !.ver = version]]
    BY <1>1, <1>3 DEF ListAlerts, FetchType
  <2>2. [f EXCEPT !.stage = "answered", !.rows = rows, !.ver = version] = g
    <3>1. f = [stage |-> f.stage, asked |-> f.asked, rows |-> f.rows, ver |-> f.ver, ok |-> f.ok]
      BY DEF Fetch
    <3>2. PICK f1 : f1 = [stage |-> "answered", asked |-> f.asked, rows |-> f.rows, ver |-> f.ver,
                          ok |-> f.ok]
      OBVIOUS
    <3>3. [f EXCEPT !.stage = "answered"] = f1
      BY <3>1, <3>2
    <3>4. PICK f2 : f2 = [stage |-> "answered", asked |-> f.asked, rows |-> rows, ver |-> f.ver,
                          ok |-> f.ok]
      OBVIOUS
    <3>5. [f1 EXCEPT !.rows = rows] = f2
      BY <3>2, <3>4
    <3>6. PICK f3 : f3 = [stage |-> "answered", asked |-> f.asked, rows |-> rows, ver |-> version,
                          ok |-> f.ok]
      OBVIOUS
    <3>7. [f2 EXCEPT !.ver = version] = f3
      BY <3>4, <3>6
    <3>8. g = f3
      BY <3>6, <1>4 DEF Answer
    <3> QED
      BY <3>3, <3>5, <3>7, <3>8
  <2> QED
    BY <2>1, <2>2
<1>7. Becomes(p, i, g)
  BY <1>5, <1>6, SlotBecomes
<1> QED
  BY <1>1, <1>3, <1>4, <1>7 DEF ListAlerts

LEMMA ListRaises ==
    ASSUME FetchType, version \in Nat, NEW p \in Pages, NEW i \in Slots, ListAlertsRaises(p, i)
    PROVE  /\ fetch[p][i].stage = "sent"
           /\ Becomes(p, i, Answer(fetch[p][i].asked, fetch[p][i].rows, FALSE))
<1>1. PICK f \in Fetch : f = fetch[p][i]
  BY DEF FetchType
<1>2. f.asked \in Presets /\ f.rows \in SUBSET AlertId
  BY DEF Fetch
<1>3. PICK g, no : g = Answer(f.asked, f.rows, no) /\ no = FALSE
  OBVIOUS
<1>4. g \in Fetch
  BY <1>2, <1>3 DEF Answer, Fetch
<1>5. fetch' = [fetch EXCEPT ![p][i] = g]
  <2>1. fetch' = [fetch EXCEPT ![p][i] = [f EXCEPT !.stage = "answered", !.ver = version,
                                                   !.ok = no]]
    BY <1>1, <1>3, Zenon DEF ListAlertsRaises, FetchType
  <2>2. [f EXCEPT !.stage = "answered", !.ver = version, !.ok = no] = g
    <3>1. f = [stage |-> f.stage, asked |-> f.asked, rows |-> f.rows, ver |-> f.ver, ok |-> f.ok]
      BY DEF Fetch
    <3>2. PICK f1 : f1 = [stage |-> "answered", asked |-> f.asked, rows |-> f.rows, ver |-> f.ver,
                          ok |-> f.ok]
      OBVIOUS
    <3>3. [f EXCEPT !.stage = "answered"] = f1
      BY <3>1, <3>2
    <3>4. PICK f2 : f2 = [stage |-> "answered", asked |-> f.asked, rows |-> f.rows, ver |-> version,
                          ok |-> f.ok]
      OBVIOUS
    <3>5. [f1 EXCEPT !.ver = version] = f2
      BY <3>2, <3>4
    <3>6. PICK f3 : f3 = [stage |-> "answered", asked |-> f.asked, rows |-> f.rows, ver |-> version,
                          ok |-> no]
      OBVIOUS
    <3>7. [f2 EXCEPT !.ok = no] = f3
      BY <3>4, <3>6
    <3>8. g = f3
      BY <3>6, <1>3 DEF Answer
    <3> QED
      BY <3>3, <3>5, <3>7, <3>8
  <2> QED
    BY <2>1, <2>2
<1>6. Becomes(p, i, g)
  BY <1>4, <1>5, SlotBecomes
<1> QED
  BY <1>1, <1>3, <1>6 DEF ListAlertsRaises

-----------------------------------------------------------------------------
(* What a step does to the requests and to what the pages show *)

Hears(p) ==
    \/ told' = told
    \/ \E ver \in 1..version : told' = [told EXCEPT ![p] = IF @ < ver THEN ver ELSE @]

PageStep ==
    \/ \E p \in Pages :
         \/ Sends(p) /\ Hears(p) /\ UNCHANGED <<tables, shown, failures>>
         \/ \E i \in Slots :
              ListAlerts(p, i) \/ ListAlertsRaises(p, i) \/ ShowAlerts(p, i) \/ RefreshFails(p, i)
    \/ UNCHANGED <<shown, fetch, disturbed, told>>

LEMMA PagePart ==
    ASSUME TypeOK, [Next]_vars
    PROVE  PageStep
<1> USE DEF TypeOK
<1>0. FetchType
  BY DEF FetchType
<1>1. ASSUME NEW p \in Pages,
             Load(p) \/ Poll(p) \/ OnMessage(p) \/ ApplyPreset(p) \/ Classified(p)
      PROVE  PageStep
  <2>1. \E asked \in Presets : RefreshAll(p, asked)
    BY <1>1 DEF Load, Poll, OnMessage, ApplyPreset, Classified
  <2>2. Sends(p)
    BY <1>0, <2>1, RefreshSends
  <2>3. Hears(p)
    BY <1>1 DEF Load, Poll, OnMessage, ApplyPreset, Classified, Receive, Hears, link
  <2>4. UNCHANGED <<tables, shown, failures>>
    BY <1>1 DEF Load, Poll, OnMessage, ApplyPreset, Classified
  <2> QED
    BY <2>2, <2>3, <2>4 DEF PageStep
<1>2. ASSUME NEW p \in Pages,
             \/ ClassifyAlert(p) \/ StreamOpens(p) \/ StreamEnds(p)
             \/ Handler(p) \/ ClassifyRaises(p) \/ FailedToClassify(p)
      PROVE  UNCHANGED <<shown, fetch, disturbed, told>>
  BY <1>2
  DEF ClassifyAlert, StreamOpens, StreamEnds, Handler, ClassifySelect, ClassifyCommit,
      ClassifyPublish, ClassifyRaises, FailedToClassify, page, link
<1>3. Ingest \/ IngestPublish \/ IngestPublishFails \/ UNCHANGED vars
      => UNCHANGED <<shown, fetch, disturbed, told>>
  BY DEF Ingest, IngestPublish, IngestPublishFails, page, link, vars
<1> QED
  BY <1>1, <1>2, <1>3 DEF Next, Answered, PageStep

LEMMA ShownBecomes ==
    ASSUME TypeOK, NEW p \in Pages, NEW i \in Slots, ShowAlerts(p, i)
    PROVE  /\ fetch[p][i].stage = "answered"
           /\ shown' \in [Pages -> [loaded : BOOLEAN, asked : Presets,
                                    rows : SUBSET AlertId, ver : Nat]]
           /\ shown'[p].ver = fetch[p][i].ver
           /\ shown'[p].rows = fetch[p][i].rows
           /\ shown'[p].asked = fetch[p][i].asked
           /\ \A q \in Pages : q # p => shown'[q] = shown[q]
           /\ Becomes(p, i, NoFetch)
           /\ disturbed' = [disturbed EXCEPT ![p] = @ \/ ~fetch[p][i].ok]
<1> USE DEF TypeOK
<1>1. PICK f \in Fetch : f = fetch[p][i]
  OBVIOUS
<1>2. f.asked \in Presets /\ f.rows \in SUBSET AlertId /\ f.ver \in Nat
  BY DEF Fetch
<1>3. shown' = [shown EXCEPT ![p] = [loaded |-> TRUE, asked |-> f.asked, rows |-> f.rows,
                                     ver |-> f.ver]]
  BY <1>1 DEF ShowAlerts
<1>4. Becomes(p, i, NoFetch)
  BY SlotClears DEF ShowAlerts, FetchType
<1> QED
  BY <1>1, <1>2, <1>3, <1>4 DEF ShowAlerts

LEMMA PageTypes ==
    ASSUME TypeOK, PageStep
    PROVE  /\ shown' \in [Pages -> [loaded : BOOLEAN, asked : Presets,
                                    rows : SUBSET AlertId, ver : Nat]]
           /\ fetch' \in [Pages -> [Slots -> Fetch]]
           /\ disturbed' \in [Pages -> BOOLEAN]
           /\ told' \in [Pages -> Nat]
<1> USE DEF TypeOK
<1>0. FetchType
  BY DEF FetchType
<1>1. ASSUME NEW p \in Pages, Sends(p), Hears(p), UNCHANGED shown
      PROVE  /\ fetch' \in [Pages -> [Slots -> Fetch]]
             /\ disturbed' \in [Pages -> BOOLEAN]
             /\ told' \in [Pages -> Nat]
  <2>1. fetch' \in [Pages -> [Slots -> Fetch]]
    BY <1>1 DEF Sends, Becomes
  <2>2. disturbed' \in [Pages -> BOOLEAN]
    <3>1. PICK was \in BOOLEAN : was = (disturbed[p] \/ Refreshing(p))
      BY DEF Refreshing
    <3>2. disturbed' = [disturbed EXCEPT ![p] = was]
      BY <1>1, <3>1, Zenon DEF Sends
    <3> QED
      BY <3>2
  <2>3. told' \in [Pages -> Nat]
    BY <1>1 DEF Hears
  <2> QED
    BY <2>1, <2>2, <2>3
<1>2. ASSUME NEW p \in Pages, NEW i \in Slots, ListAlerts(p, i) \/ ListAlertsRaises(p, i)
      PROVE  fetch' \in [Pages -> [Slots -> Fetch]] /\ UNCHANGED <<shown, disturbed, told>>
  <2>1. fetch' \in [Pages -> [Slots -> Fetch]]
    BY <1>0, <1>2, ListAnswers, ListRaises DEF Becomes
  <2> QED
    BY <1>2, <2>1 DEF ListAlerts, ListAlertsRaises, link
<1>3. ASSUME NEW p \in Pages, NEW i \in Slots, ShowAlerts(p, i)
      PROVE  /\ shown' \in [Pages -> [loaded : BOOLEAN, asked : Presets,
                                      rows : SUBSET AlertId, ver : Nat]]
             /\ fetch' \in [Pages -> [Slots -> Fetch]]
             /\ disturbed' \in [Pages -> BOOLEAN]
             /\ told' = told
  BY <1>3, ShownBecomes DEF Becomes, ShowAlerts, link, Fetch
<1>4. ASSUME NEW p \in Pages, NEW i \in Slots, RefreshFails(p, i)
      PROVE  /\ fetch' \in [Pages -> [Slots -> Fetch]]
             /\ disturbed' \in [Pages -> BOOLEAN]
             /\ UNCHANGED <<shown, told>>
  BY <1>0, <1>4, SlotClears DEF Becomes, RefreshFails, link
<1> QED
  BY <1>1, <1>2, <1>3, <1>4 DEF PageStep

-----------------------------------------------------------------------------
(* Commits, events and handlers *)

LEMMA CommitTypes ==
    ASSUME TypeOK, NEW a, NEW to \in Status, Commit(a, to)
    PROVE  /\ table' \in [AlertId -> Status] /\ version' = version + 1
           /\ past \subseteq past' /\ past' \subseteq [AlertId -> Status] /\ table' \in past'
<1>1. table' \in [AlertId -> Status]
  BY DEF TypeOK, Commit
<1> QED
  BY <1>1 DEF TypeOK, Commit

(* A commit adds a state of the table; otherwise the table stays. *)
TablesStep ==
    /\ table' \in [AlertId -> Status] /\ version' \in Nat /\ version' >= version
    /\ past \subseteq past' /\ past' \subseteq [AlertId -> Status]
    /\ UNCHANGED <<table, version, past>> \/ table' \in past'
    /\ owed' \subseteq 1..version'

LEMMA TablesPart ==
    ASSUME TypeOK, [Next]_vars
    PROVE  TablesStep
<1>1. version \in Nat
  BY DEF TypeOK
<1>2. ASSUME UNCHANGED <<table, version, past>>, owed' \subseteq owed
      PROVE  TablesStep
  BY <1>1, <1>2 DEF TypeOK, TablesStep
<1>3. ASSUME Ingest
      PROVE  TablesStep
  <2>1. PICK a : Commit(a, "open")
    BY <1>3 DEF Ingest
  <2>2. /\ table' \in [AlertId -> Status] /\ version' = version + 1
        /\ past \subseteq past' /\ past' \subseteq [AlertId -> Status] /\ table' \in past'
    BY <2>1, CommitTypes DEF Status
  <2>3. owed' \subseteq 1..version'
    BY <1>1, <1>3, <2>2 DEF Ingest, TypeOK
  <2> QED
    BY <1>1, <2>2, <2>3 DEF TablesStep
<1>4. ASSUME NEW p \in Pages, ClassifyCommit(p)
      PROVE  TablesStep
  <2>1. post[p].to \in Status
    BY DEF TypeOK, Post, Status
  <2>2. /\ table' \in [AlertId -> Status] /\ version' = version + 1
        /\ past \subseteq past' /\ past' \subseteq [AlertId -> Status] /\ table' \in past'
    BY <1>4, <2>1, CommitTypes DEF ClassifyCommit
  <2>3. owed' \subseteq 1..version'
    BY <1>1, <1>4, <2>2 DEF ClassifyCommit, TypeOK
  <2> QED
    BY <1>1, <2>2, <2>3 DEF TablesStep
<1>5. ASSUME NEW p \in Pages,
             \/ Load(p) \/ Poll(p) \/ OnMessage(p) \/ ApplyPreset(p) \/ ClassifyAlert(p)
             \/ StreamOpens(p) \/ StreamEnds(p)
             \/ ClassifySelect(p) \/ ClassifyPublish(p) \/ ClassifyRaises(p) \/ Answered(p)
      PROVE  UNCHANGED tables
  BY <1>5
  DEF Load, Poll, OnMessage, ApplyPreset, ClassifyAlert, StreamOpens, StreamEnds,
      ClassifySelect, ClassifyPublish, ClassifyRaises, Answered, Classified, FailedToClassify
<1>6. ASSUME NEW p \in Pages, NEW i \in Slots,
             ListAlerts(p, i) \/ ListAlertsRaises(p, i) \/ ShowAlerts(p, i) \/ RefreshFails(p, i)
      PROVE  UNCHANGED tables
  BY <1>6 DEF ListAlerts, ListAlertsRaises, ShowAlerts, RefreshFails
<1>7. IngestPublish \/ IngestPublishFails
      => UNCHANGED <<table, version, past>> /\ owed' \subseteq owed
  BY DEF IngestPublish, IngestPublishFails
<1> QED
  BY <1>2, <1>3, <1>4, <1>5, <1>6, <1>7 DEF Next, Handler, tables, vars

(* The classification request of a page moves on. *)
Posts(p, stage, ver) ==
    /\ post' \in [Pages -> Post]
    /\ post'[p].stage = stage /\ post'[p].ver = ver
    /\ \A q \in Pages : q # p => post'[q] = post[q]

PostType == post \in [Pages -> Post]

LEMMA PostMoves ==
    ASSUME PostType, version \in Nat, NEW p \in Pages
    PROVE  /\ ClassifyAlert(p) /\ shown[p].rows \subseteq AlertId => Posts(p, "sent", 0)
           /\ Classified(p) \/ FailedToClassify(p) => Posts(p, "none", 0)
           /\ ClassifySelect(p) =>
                Posts(p, "selected", post[p].ver) \/ Posts(p, "failed", post[p].ver)
           /\ ClassifyCommit(p) => Posts(p, "committed", version + 1)
           /\ ClassifyPublish(p) => Posts(p, "ok", post[p].ver)
           /\ ClassifyRaises(p) => Posts(p, "failed", post[p].ver)
<1> USE DEF PostType
<1>1. ASSUME NEW f \in Post, post' = [post EXCEPT ![p] = f]
      PROVE  Posts(p, f.stage, f.ver)
  BY <1>1 DEF Posts
<1>2. ASSUME NEW stage \in {"none", "sent", "selected", "committed", "ok", "failed"},
             post' = [post EXCEPT ![p].stage = stage]
      PROVE  Posts(p, stage, post[p].ver)
  <2>1. PICK f \in Post : f = post[p]
    OBVIOUS
  <2>2. PICK g : g = [f EXCEPT !.stage = stage]
    OBVIOUS
  <2>3. g \in Post /\ g.stage = stage /\ g.ver = f.ver
    BY <2>2 DEF Post
  <2>4. post' = [post EXCEPT ![p] = g]
    BY <1>2, <2>1, <2>2
  <2> QED
    BY <1>1, <2>1, <2>3, <2>4
<1>3. ASSUME ClassifyAlert(p), shown[p].rows \subseteq AlertId
      PROVE  Posts(p, "sent", 0)
  <2>1. PICK a \in AlertId, to \in {"closed", "escalated"} :
          post' = [post EXCEPT ![p] = [stage |-> "sent", alert |-> a, to |-> to, ver |-> 0]]
    BY <1>3 DEF ClassifyAlert
  <2>2. PICK f : f = [stage |-> "sent", alert |-> a, to |-> to, ver |-> 0]
    OBVIOUS
  <2>3. f \in Post /\ f.stage = "sent" /\ f.ver = 0
    BY <2>2 DEF Post, AlertId
  <2> QED
    BY <1>1, <2>1, <2>2, <2>3
<1>4. ASSUME Classified(p) \/ FailedToClassify(p)
      PROVE  Posts(p, "none", 0)
  <2>1. NoPost \in Post /\ NoPost.stage = "none" /\ NoPost.ver = 0
    BY BoundsAreNaturals DEF NoPost, Post
  <2> QED
    BY <1>1, <1>4, <2>1 DEF Classified, FailedToClassify
<1>5. ASSUME ClassifyCommit(p)
      PROVE  Posts(p, "committed", version + 1)
  <2>1. PICK f \in Post : f = post[p]
    OBVIOUS
  <2>2. PICK now : now = version + 1
    OBVIOUS
  <2>3. post' = [post EXCEPT ![p] = [f EXCEPT !.stage = "committed", !.ver = now]]
    BY <1>5, <2>1, <2>2 DEF ClassifyCommit, Commit
  <2>4. f = [stage |-> f.stage, alert |-> f.alert, to |-> f.to, ver |-> f.ver]
    BY DEF Post
  <2>5. PICK f1 : f1 = [stage |-> "committed", alert |-> f.alert, to |-> f.to, ver |-> f.ver]
    OBVIOUS
  <2>6. [f EXCEPT !.stage = "committed"] = f1
    BY <2>4, <2>5
  <2>7. PICK f2 : f2 = [stage |-> "committed", alert |-> f.alert, to |-> f.to, ver |-> now]
    OBVIOUS
  <2>8. [f1 EXCEPT !.ver = now] = f2
    BY <2>5, <2>7
  <2>9. post' = [post EXCEPT ![p] = f2]
    BY <2>3, <2>6, <2>8
  <2>10. f2 \in Post /\ f2.stage = "committed" /\ f2.ver = now
    BY <2>2, <2>7 DEF Post
  <2> QED
    BY <1>1, <2>2, <2>9, <2>10
<1>6. ASSUME ClassifySelect(p)
      PROVE  Posts(p, "selected", post[p].ver) \/ Posts(p, "failed", post[p].ver)
  <2>1. \E stage \in {"selected", "failed"} : post' = [post EXCEPT ![p].stage = stage]
    BY <1>6 DEF ClassifySelect
  <2> QED
    BY <1>2, <2>1
<1>7. ClassifyPublish(p) => Posts(p, "ok", post[p].ver)
  BY <1>2 DEF ClassifyPublish
<1>8. ClassifyRaises(p) => Posts(p, "failed", post[p].ver)
  BY <1>2 DEF ClassifyRaises
<1> QED
  BY <1>3, <1>4, <1>5, <1>6, <1>7, <1>8

LEMMA Fewer ==
    ASSUME NEW S, IsFiniteSet(S), NEW T, T \subseteq S
    PROVE  /\ IsFiniteSet(T) /\ Cardinality(T) \in Nat /\ Cardinality(S) \in Nat
           /\ Cardinality(T) <= Cardinality(S)
BY FS_Subset, FS_CardinalityType

LEMMA OneMore ==
    ASSUME NEW S, IsFiniteSet(S), NEW x, NEW T, T \subseteq S \cup {x}
    PROVE  /\ IsFiniteSet(T) /\ Cardinality(T) \in Nat /\ Cardinality(S) \in Nat
           /\ Cardinality(T) <= Cardinality(S) + 1
<1>1. /\ IsFiniteSet(S \cup {x}) /\ Cardinality(S) \in Nat
      /\ \/ Cardinality(S \cup {x}) = Cardinality(S)
         \/ Cardinality(S \cup {x}) = Cardinality(S) + 1
  BY FS_AddElement, FS_CardinalityType
<1> QED
  BY <1>1, Fewer

WorkersSuffice == Cardinality(Streaming) + Cardinality(Posting) <= Workers
Fits == IsFiniteSet(Streaming) /\ IsFiniteSet(Posting) /\ WorkersSuffice

(* Streams and handlers start with a free worker and give it back. *)
LEMMA PlacesStep ==
    ASSUME TypeOK, HandlersInv, [Next]_vars
    PROVE  Fits'
<1> USE DEF HandlersInv
<1>0. /\ stream \in [Pages -> {"absent", "connecting", "open", "closed"}]
      /\ PostType /\ version \in Nat /\ Workers \in Nat /\ WorkersSuffice
      /\ \A p \in Pages : shown[p].rows \subseteq AlertId
  BY SomeWorkers DEF TypeOK, PostType, WorkersSuffice
<1>1. ASSUME Streaming' \subseteq Streaming, Posting' \subseteq Posting
      PROVE  Fits'
  <2>1. /\ IsFiniteSet(Streaming') /\ Cardinality(Streaming') \in Nat
        /\ Cardinality(Streaming) \in Nat /\ Cardinality(Streaming') <= Cardinality(Streaming)
    BY <1>1, Fewer
  <2>2. /\ IsFiniteSet(Posting') /\ Cardinality(Posting') \in Nat
        /\ Cardinality(Posting) \in Nat /\ Cardinality(Posting') <= Cardinality(Posting)
    BY <1>1, Fewer
  <2> QED
    BY <1>0, <2>1, <2>2 DEF Fits, WorkersSuffice
<1>2. ASSUME NEW p \in Pages, StreamOpens(p)
      PROVE  Fits'
  <2>1. Streaming' \subseteq Streaming \cup {p} /\ Posting' \subseteq Posting
    BY <1>0, <1>2 DEF StreamOpens, Streaming, Posting
  <2>2. /\ IsFiniteSet(Streaming') /\ Cardinality(Streaming') \in Nat
        /\ Cardinality(Streaming) \in Nat /\ Cardinality(Streaming') <= Cardinality(Streaming) + 1
    BY <2>1, OneMore
  <2>3. /\ IsFiniteSet(Posting') /\ Cardinality(Posting') \in Nat
        /\ Cardinality(Posting) \in Nat /\ Cardinality(Posting') <= Cardinality(Posting)
    BY <2>1, Fewer
  <2> QED
    BY <1>0, <1>2, <2>2, <2>3 DEF StreamOpens, WorkerFree, Fits, WorkersSuffice
<1>3. ASSUME NEW p \in Pages, ClassifySelect(p)
      PROVE  Fits'
  <2>1. Streaming' = Streaming /\ Posting' \subseteq Posting \cup {p}
    <3>1. \A q \in Pages : q # p => post'[q] = post[q]
      BY <1>0, <1>3, PostMoves DEF Posts
    <3> QED
      BY <1>3, <3>1 DEF ClassifySelect, Streaming, Posting, link
  <2>2. IsFiniteSet(Streaming') /\ Cardinality(Streaming') = Cardinality(Streaming)
        /\ Cardinality(Streaming) \in Nat
    BY <2>1, Fewer
  <2>3. /\ IsFiniteSet(Posting') /\ Cardinality(Posting') \in Nat
        /\ Cardinality(Posting) \in Nat /\ Cardinality(Posting') <= Cardinality(Posting) + 1
    BY <2>1, OneMore
  <2> QED
    BY <1>0, <1>3, <2>2, <2>3 DEF ClassifySelect, WorkerFree, Fits, WorkersSuffice
<1>4. ASSUME NEW p \in Pages, Load(p) \/ StreamEnds(p)
      PROVE  Fits'
  <2>1. Streaming' \subseteq Streaming /\ Posting' = Posting
    BY <1>0, <1>4 DEF Load, StreamEnds, Streaming, Posting
  <2> QED
    BY <1>1, <2>1
<1>5. ASSUME NEW p \in Pages,
             \/ ClassifyAlert(p) \/ ClassifyCommit(p) \/ ClassifyPublish(p) \/ ClassifyRaises(p)
             \/ Answered(p)
      PROVE  Fits'
  <2>1. Streaming' = Streaming
    BY <1>5
    DEF ClassifyAlert, ClassifyCommit, ClassifyPublish, ClassifyRaises, Answered, Classified,
        FailedToClassify, link, Streaming
  <2>2. ASSUME NEW q \in Posting'
        PROVE  q \in Posting
    <3>1. CASE ClassifyCommit(p)
      <4>1. post[p].stage = "selected" /\ \A r \in Pages : r # p => post'[r] = post[r]
        BY <1>0, <3>1, PostMoves DEF ClassifyCommit, Posts
      <4> QED
        BY <2>2, <4>1 DEF Posting
    <3>2. CASE ~ClassifyCommit(p)
      <4>1. /\ post'[p].stage \notin {"selected", "committed"}
            /\ \A r \in Pages : r # p => post'[r] = post[r]
        BY <1>0, <1>5, <3>2, PostMoves DEF Posts, Answered
      <4> QED
        BY <2>2, <4>1 DEF Posting
    <3> QED
      BY <3>1, <3>2
  <2> QED
    BY <1>1, <2>1, <2>2
<1>6. ASSUME UNCHANGED <<stream, post>>
      PROVE  Fits'
  BY <1>1, <1>6 DEF Streaming, Posting
<1>7. \A p \in Pages : Poll(p) \/ OnMessage(p) \/ ApplyPreset(p) => UNCHANGED <<stream, post>>
  BY DEF Poll, OnMessage, ApplyPreset, link
<1>8. \A p \in Pages, i \in Slots :
        ListAlerts(p, i) \/ ListAlertsRaises(p, i) \/ ShowAlerts(p, i) \/ RefreshFails(p, i)
        => UNCHANGED <<stream, post>>
  BY DEF ListAlerts, ListAlertsRaises, ShowAlerts, RefreshFails, link
<1>9. Ingest \/ IngestPublish \/ IngestPublishFails \/ UNCHANGED vars
      => UNCHANGED <<stream, post>>
  BY DEF Ingest, IngestPublish, IngestPublishFails, link, vars
<1> QED
  BY <1>2, <1>3, <1>4, <1>5, <1>6, <1>7, <1>8, <1>9 DEF Next, Handler

LEMMA EventsStep ==
    ASSUME TypeOK, HandlersInv, [Next]_vars
    PROVE  pending' \in [Pages -> SUBSET (1..version')]
<1>1. /\ version \in Nat /\ version' \in Nat /\ version' >= version
      /\ pending \in [Pages -> SUBSET (1..version)]
  BY TablesPart DEF TypeOK, TablesStep
<1>2. 1..version \subseteq 1..version'
  BY <1>1
<1>3. ASSUME UNCHANGED pending
      PROVE  pending' \in [Pages -> SUBSET (1..version')]
  BY <1>1, <1>2, <1>3
<1>4. ASSUME NEW ver \in 1..version, Announce(ver)
      PROVE  pending' \in [Pages -> SUBSET (1..version')]
  BY <1>1, <1>2, <1>4 DEF Announce
<1>5. ASSUME IngestPublish \/ \E p \in Pages : ClassifyPublish(p)
      PROVE  \E ver \in 1..version : Announce(ver)
  BY <1>5 DEF IngestPublish, ClassifyPublish, TypeOK, HandlersInv
<1>6. ASSUME NEW p \in Pages, OnMessage(p) \/ StreamEnds(p)
      PROVE  pending' \in [Pages -> SUBSET (1..version')]
  BY <1>1, <1>2, <1>6 DEF OnMessage, Receive, StreamEnds
<1>7. ASSUME NEW p \in Pages,
             \/ Load(p) \/ Poll(p) \/ ApplyPreset(p) \/ ClassifyAlert(p) \/ StreamOpens(p)
             \/ ClassifySelect(p) \/ ClassifyCommit(p) \/ ClassifyRaises(p) \/ Answered(p)
      PROVE  UNCHANGED pending
  BY <1>7
  DEF Load, Poll, ApplyPreset, ClassifyAlert, StreamOpens, ClassifySelect, ClassifyCommit,
      ClassifyRaises, Answered, Classified, FailedToClassify, link
<1>8. \A p \in Pages, i \in Slots :
        ListAlerts(p, i) \/ ListAlertsRaises(p, i) \/ ShowAlerts(p, i) \/ RefreshFails(p, i)
        => UNCHANGED pending
  BY DEF ListAlerts, ListAlertsRaises, ShowAlerts, RefreshFails, link
<1>9. Ingest \/ IngestPublishFails \/ UNCHANGED vars => UNCHANGED pending
  BY DEF Ingest, IngestPublishFails, link, vars
<1> QED
  BY <1>3, <1>4, <1>5, <1>6, <1>7, <1>8, <1>9 DEF Next, Handler

LEMMA PostsStep ==
    ASSUME TypeOK, HandlersInv, [Next]_vars
    PROVE  /\ post' \in [Pages -> Post]
           /\ \A p \in Pages : post'[p].stage = "committed" => post'[p].ver \in 1..version'
<1> DEFINE Kept == \A p \in Pages : post'[p].stage = "committed" => post'[p].ver \in 1..version'
<1>1. /\ version \in Nat /\ version' \in Nat /\ version' >= version /\ PostType
      /\ \A p \in Pages : shown[p].rows \subseteq AlertId
  BY TablesPart DEF TypeOK, TablesStep, PostType
<1>2. \A p \in Pages : post[p].stage = "committed" => post[p].ver \in 1..version'
  BY <1>1 DEF HandlersInv
<1>3. ASSUME NEW p \in Pages, NEW stage, NEW ver, Posts(p, stage, ver),
             stage = "committed" => ver \in 1..version'
      PROVE  post' \in [Pages -> Post] /\ Kept
  BY <1>2, <1>3 DEF Posts
<1>4. ASSUME NEW p \in Pages, ClassifyCommit(p)
      PROVE  post' \in [Pages -> Post] /\ Kept
  <2>1. Posts(p, "committed", version + 1)
    BY <1>1, <1>4, PostMoves
  <2>2. version + 1 \in 1..version'
    BY <1>1, <1>4 DEF ClassifyCommit, Commit
  <2> QED
    BY <1>3, <2>1, <2>2
<1>5. ASSUME NEW p \in Pages,
             \/ ClassifyAlert(p) \/ ClassifySelect(p) \/ ClassifyPublish(p) \/ ClassifyRaises(p)
             \/ Answered(p)
      PROVE  \E stage, ver : Posts(p, stage, ver) /\ stage # "committed"
  BY <1>1, <1>5, PostMoves DEF Answered
<1>6. \A p \in Pages :
        Load(p) \/ Poll(p) \/ OnMessage(p) \/ ApplyPreset(p) \/ StreamOpens(p) \/ StreamEnds(p)
        => UNCHANGED post
  BY DEF Load, Poll, OnMessage, ApplyPreset, StreamOpens, StreamEnds
<1>7. \A p \in Pages, i \in Slots :
        ListAlerts(p, i) \/ ListAlertsRaises(p, i) \/ ShowAlerts(p, i) \/ RefreshFails(p, i)
        => UNCHANGED post
  BY DEF ListAlerts, ListAlertsRaises, ShowAlerts, RefreshFails
<1>8. Ingest \/ IngestPublish \/ IngestPublishFails \/ UNCHANGED vars => UNCHANGED post
  BY DEF Ingest, IngestPublish, IngestPublishFails, vars
<1>9. UNCHANGED post => post' \in [Pages -> Post] /\ Kept
  BY <1>1, <1>2 DEF PostType
<1> QED
  BY <1>3, <1>4, <1>5, <1>6, <1>7, <1>8, <1>9 DEF Next, Handler

LEMMA OtherTypes ==
    ASSUME TypeOK, [Next]_vars
    PROVE  /\ preset' \in [Pages -> Presets]
           /\ stream' \in [Pages -> {"absent", "connecting", "open", "closed"}]
           /\ acts' \in 0..MaxActs /\ failures' \in 0..MaxFailures
           /\ failures' >= failures
<1> DEFINE Counts == (acts' = acts \/ Act) /\ (failures' = failures \/ Fail)
           Selects == \/ preset' = preset
                      \/ \E p \in Pages, asked \in Presets :
                           preset' = [preset EXCEPT ![p] = asked]
           Connects == \/ stream' = stream
                       \/ \E p \in Pages, s \in {"connecting", "open", "closed"} :
                            stream' = [stream EXCEPT ![p] = s]
<1>1. ASSUME NEW p \in Pages, Load(p) \/ Poll(p) \/ OnMessage(p) \/ ApplyPreset(p)
      PROVE  Counts /\ Selects /\ Connects
  BY <1>1 DEF Load, Poll, OnMessage, ApplyPreset, link
<1>2. ASSUME NEW p \in Pages, ClassifyAlert(p) \/ StreamOpens(p) \/ StreamEnds(p) \/ Answered(p)
      PROVE  Counts /\ Selects /\ Connects
  BY <1>2
  DEF ClassifyAlert, StreamOpens, StreamEnds, Answered, Classified, FailedToClassify, page, link
<1>3. ASSUME NEW p \in Pages, Handler(p) \/ ClassifyRaises(p)
      PROVE  Counts /\ Selects /\ Connects
  BY <1>3 DEF Handler, ClassifySelect, ClassifyCommit, ClassifyPublish, ClassifyRaises, page, link
<1>4. ASSUME NEW p \in Pages, NEW i \in Slots,
             ListAlerts(p, i) \/ ListAlertsRaises(p, i) \/ ShowAlerts(p, i) \/ RefreshFails(p, i)
      PROVE  Counts /\ Selects /\ Connects
  BY <1>4 DEF ListAlerts, ListAlertsRaises, ShowAlerts, RefreshFails, link
<1>5. ASSUME Ingest \/ IngestPublish \/ IngestPublishFails \/ UNCHANGED vars
      PROVE  Counts /\ Selects /\ Connects
  BY <1>5 DEF Ingest, IngestPublish, IngestPublishFails, page, link, vars
<1>6. Counts /\ Selects /\ Connects
  BY <1>1, <1>2, <1>3, <1>4, <1>5 DEF Next
<1>7. acts' \in 0..MaxActs /\ failures' \in 0..MaxFailures /\ failures' >= failures
  BY <1>6, BoundsAreNaturals DEF Act, Fail, TypeOK
<1>8. preset' \in [Pages -> Presets]
  BY <1>6 DEF TypeOK
<1>9. stream' \in [Pages -> {"absent", "connecting", "open", "closed"}]
  BY <1>6 DEF TypeOK
<1> QED
  BY <1>7, <1>8, <1>9

LEMMA TypeStep ==
    ASSUME TypeOK, HandlersInv, [Next]_vars
    PROVE  TypeOK' /\ HandlersInv'
<1>1. PageStep
  BY PagePart
<1> QED
  BY <1>1, PageTypes, TablesPart, PlacesStep, EventsStep, PostsStep, OtherTypes
  DEF TypeOK, HandlersInv, TablesStep, Fits, WorkersSuffice

-----------------------------------------------------------------------------
(* Refreshes and what they show *)

LEMMA PagesStep ==
    ASSUME TypeOK, PagesInv, [Next]_vars
    PROVE  PagesInv'
<1> DEFINE Good(p) == NoneAhead(p) /\ (~disturbed[p] => InTurn(p))
<1>1. PageStep /\ FetchType /\ version \in Nat /\ version' \in Nat /\ version' >= version
  BY PagePart, TablesPart DEF TypeOK, FetchType, TablesStep
<1>2. /\ \A p \in Pages : told[p] \in Nat /\ shown[p].ver \in Nat /\ disturbed[p] \in BOOLEAN
      /\ \A p \in Pages, i \in Slots : fetch[p][i] \in Fetch /\ fetch[p][i].ver \in Nat
  BY DEF TypeOK, Fetch
<1>3. NoFetch.stage = "idle" /\ NoFetch.ver = 0
  BY DEF NoFetch
<1>4. ASSUME NEW p \in Pages, \A i \in Slots : fetch'[p][i] = fetch[p][i],
             shown'[p] = shown[p], told'[p] = told[p], disturbed'[p] = disturbed[p]
      PROVE  Good(p)'
  <2>1. NoneAhead(p)'
    BY <1>1, <1>2, <1>4 DEF PagesInv, NoneAhead, Slots
  <2>2. InTurn(p) => InTurn(p)'
    BY <1>4 DEF InTurn, Refreshing, Slots
  <2> QED
    BY <1>4, <2>1, <2>2 DEF PagesInv
<1>5. ASSUME NEW p \in Pages, Sends(p), Hears(p), UNCHANGED <<tables, shown>>
      PROVE  PagesInv'
  <2>1. PICK i \in Slots, asked \in Presets :
          fetch[p][i] = NoFetch /\ Becomes(p, i, Sent(asked))
    BY <1>5 DEF Sends
  <2>2. Sent(asked).stage = "sent" /\ Sent(asked).ver = 0
    BY DEF Sent
  <2>3. ASSUME NEW q \in Pages, q # p
        PROVE  Good(q)'
    <3>1. told'[q] = told[q] /\ disturbed'[q] = disturbed[q]
      BY <1>5, <2>3 DEF Hears, Sends, TypeOK
    <3> QED
      BY <1>4, <1>5, <2>1, <2>3, <3>1 DEF Becomes
  <2>4. NoneAhead(p)'
    <3>1. told'[p] <= version
      BY <1>1, <1>2, <1>5 DEF Hears, PagesInv, NoneAhead, TypeOK
    <3>2. \A j \in Slots : fetch'[p][j].ver <= version
      BY <1>1, <1>2, <2>1, <2>2 DEF Becomes, PagesInv, NoneAhead
    <3> QED
      BY <1>5, <3>1, <3>2 DEF tables, PagesInv, NoneAhead, Slots
  <2>5. ASSUME ~disturbed'[p]
        PROVE  InTurn(p)'
    <3>1. \A j \in Slots : fetch[p][j] = NoFetch
      BY <1>5, <2>5 DEF Sends, Refreshing, TypeOK
    <3>2. \A j \in Slots : IF j = i THEN fetch'[p][j].stage = "sent" ELSE fetch'[p][j] = NoFetch
      BY <2>1, <2>2, <3>1 DEF Becomes
    <3>3. fetch'[p][i] # NoFetch
      BY <1>3, <3>2
    <3> QED
      BY <1>3, <3>2, <3>3 DEF InTurn, Refreshing, Slots
  <2> QED
    BY <2>3, <2>4, <2>5 DEF PagesInv
<1>6. ASSUME NEW p \in Pages, NEW i \in Slots, NEW f, f.stage = "answered", f.ver = version,
             fetch[p][i].stage = "sent", Becomes(p, i, f), UNCHANGED <<version, shown, told, disturbed>>
      PROVE  PagesInv'
  <2>1. ASSUME NEW q \in Pages, q # p
        PROVE  Good(q)'
    BY <1>4, <1>6, <2>1 DEF Becomes
  <2>2. NoneAhead(p)'
    BY <1>1, <1>2, <1>6 DEF Becomes, PagesInv, NoneAhead, Slots
  <2>3. ASSUME InTurn(p)
        PROVE  InTurn(p)'
    <3>1. fetch[p][i] # NoFetch /\ f # NoFetch
      BY <1>3, <1>6
    <3>2. \A j \in Slots : IF j = i THEN fetch'[p][j] = f ELSE fetch'[p][j] = NoFetch
      BY <1>6, <2>3, <3>1 DEF Becomes, InTurn
    <3>3. told[p] <= version /\ shown[p].ver <= version
      BY DEF PagesInv, NoneAhead
    <3> QED
      BY <1>3, <1>6, <3>1, <3>2, <3>3 DEF InTurn, Refreshing, Slots
  <2> QED
    BY <1>6, <2>1, <2>2, <2>3 DEF PagesInv
<1>7. ASSUME NEW p \in Pages, NEW i \in Slots, ShowAlerts(p, i)
      PROVE  PagesInv'
  <2>1. /\ fetch[p][i].stage = "answered"
        /\ shown'[p].ver = fetch[p][i].ver
        /\ \A q \in Pages : q # p => shown'[q] = shown[q]
        /\ Becomes(p, i, NoFetch)
        /\ disturbed' = [disturbed EXCEPT ![p] = @ \/ ~fetch[p][i].ok]
        /\ told' = told /\ version' = version
    BY <1>7, ShownBecomes DEF ShowAlerts, link, tables
  <2>2. ASSUME NEW q \in Pages, q # p
        PROVE  Good(q)'
    <3>1. disturbed'[q] = disturbed[q]
      BY <2>1, <2>2 DEF TypeOK
    <3> QED
      BY <1>4, <2>1, <2>2, <3>1 DEF Becomes
  <2>3. NoneAhead(p)'
    BY <1>1, <1>2, <1>3, <2>1 DEF Becomes, PagesInv, NoneAhead, Slots
  <2>4. ASSUME ~disturbed'[p]
        PROVE  InTurn(p)'
    <3>1. InTurn(p)
      BY <2>1, <2>4 DEF TypeOK, PagesInv
    <3>2. \A j \in Slots : fetch'[p][j] = NoFetch
      BY <1>3, <2>1, <3>1 DEF Becomes, InTurn
    <3>3. shown'[p].ver >= told'[p]
      BY <2>1, <3>1 DEF InTurn
    <3> QED
      BY <1>3, <3>2, <3>3 DEF InTurn, Refreshing, Slots
  <2> QED
    BY <2>2, <2>3, <2>4 DEF PagesInv
<1>8. ASSUME NEW p \in Pages, NEW i \in Slots, RefreshFails(p, i)
      PROVE  PagesInv'
  <2>1. /\ Becomes(p, i, NoFetch) /\ disturbed' = [disturbed EXCEPT ![p] = TRUE]
        /\ UNCHANGED <<version, shown, told>>
    BY <1>1, <1>8, SlotClears DEF RefreshFails, tables, link
  <2>2. ASSUME NEW q \in Pages, q # p
        PROVE  Good(q)'
    BY <1>4, <2>1, <2>2 DEF Becomes, TypeOK
  <2>3. NoneAhead(p)'
    BY <1>1, <1>2, <1>3, <2>1 DEF Becomes, PagesInv, NoneAhead, Slots
  <2>4. disturbed'[p]
    BY <2>1 DEF TypeOK
  <2> QED
    BY <2>2, <2>3, <2>4 DEF PagesInv
<1>9. ASSUME NEW p \in Pages, NEW i \in Slots, ListAlerts(p, i) \/ ListAlertsRaises(p, i)
      PROVE  PagesInv'
  <2>1. \E asked, rows, ok : fetch[p][i].stage = "sent" /\ Becomes(p, i, Answer(asked, rows, ok))
    BY <1>1, <1>9, ListAnswers, ListRaises
  <2>2. \A asked, rows, ok : Answer(asked, rows, ok).stage = "answered"
                             /\ Answer(asked, rows, ok).ver = version
    BY DEF Answer
  <2>3. UNCHANGED <<version, shown, told, disturbed>>
    BY <1>9 DEF ListAlerts, ListAlertsRaises, tables, link
  <2> QED
    BY <1>6, <2>1, <2>2, <2>3
<1>10. UNCHANGED <<shown, fetch, disturbed, told>> => PagesInv'
  BY <1>4 DEF PagesInv
<1> QED
  BY <1>1, <1>5, <1>7, <1>8, <1>9, <1>10 DEF PageStep

LEMMA AnswersStep ==
    ASSUME TypeOK, AnswersInv, [Next]_vars
    PROVE  AnswersInv'
<1>1. PageStep /\ FetchType /\ TablesStep
  BY PagePart, TablesPart DEF TypeOK, FetchType
<1>2. table' \in past' /\ past \subseteq past'
  BY <1>1 DEF TablesStep, AnswersInv
<1>3. \A asked, rows : WasTrue(asked, rows) => WasTrue(asked, rows)'
  BY <1>2 DEF WasTrue
<1>4. failures' = 0 => failures = 0
  BY OtherTypes DEF TypeOK
<1> DEFINE ShownTrue(p) == shown[p].loaded => WasTrue(shown[p].asked, shown[p].rows)
           AnswerTrue(f) == f.stage = "answered" => WasTrue(f.asked, f.rows)
<1>5. ASSUME failures' = 0
      PROVE  \A p \in Pages : ShownTrue(p)' /\ \A i \in Slots : AnswerTrue(fetch[p][i])'
  <2>0. \A p \in Pages : ShownTrue(p) /\ \A i \in Slots : AnswerTrue(fetch[p][i])
    BY <1>4, <1>5 DEF AnswersInv
  <2>1. ASSUME NEW p \in Pages, shown'[p] = shown[p]
        PROVE  ShownTrue(p)'
    BY <1>3, <2>0, <2>1 DEF WasTrue
  <2>2. ASSUME NEW p \in Pages, NEW i \in Slots, fetch'[p][i] = fetch[p][i]
        PROVE  AnswerTrue(fetch[p][i])'
    BY <1>3, <2>0, <2>2 DEF WasTrue
  <2>3. ASSUME NEW p \in Pages, NEW i \in Slots, NEW f, Becomes(p, i, f), f.stage # "answered",
               NEW q \in Pages, NEW j \in Slots
        PROVE  AnswerTrue(fetch[q][j])'
    <3>1. CASE q = p /\ j = i
      BY <2>3, <3>1 DEF Becomes
    <3>2. CASE ~(q = p /\ j = i)
      BY <2>2, <2>3, <3>2 DEF Becomes
    <3> QED
      BY <3>1, <3>2
  <2>4. NoFetch.stage # "answered" /\ \A asked : Sent(asked).stage # "answered"
    BY DEF NoFetch, Sent
  <2>5. ASSUME NEW p \in Pages, Sends(p), UNCHANGED shown
        PROVE  \A q \in Pages : ShownTrue(q)' /\ \A j \in Slots : AnswerTrue(fetch[q][j])'
    BY <2>1, <2>3, <2>4, <2>5 DEF Sends
  <2>6. ASSUME NEW p \in Pages, NEW i \in Slots, ShowAlerts(p, i)
        PROVE  \A q \in Pages : ShownTrue(q)' /\ \A j \in Slots : AnswerTrue(fetch[q][j])'
    <3>1. /\ fetch[p][i].stage = "answered"
          /\ shown'[p].rows = fetch[p][i].rows /\ shown'[p].asked = fetch[p][i].asked
          /\ \A q \in Pages : q # p => shown'[q] = shown[q]
          /\ Becomes(p, i, NoFetch)
      BY <2>6, ShownBecomes
    <3>2. WasTrue(fetch[p][i].asked, fetch[p][i].rows)
      BY <2>0, <3>1
    <3>3. PICK t \in past : fetch[p][i].rows = View(fetch[p][i].asked, t)
      BY <3>2 DEF WasTrue
    <3>4. ShownTrue(p)'
      BY <1>2, <3>1, <3>3 DEF WasTrue
    <3> QED
      BY <2>1, <2>3, <2>4, <3>1, <3>4
  <2>7. ASSUME NEW p \in Pages, NEW i \in Slots, RefreshFails(p, i) \/ ListAlertsRaises(p, i)
        PROVE  FALSE
    BY <1>5, <2>7 DEF RefreshFails, ListAlertsRaises, Fail, TypeOK
  <2>8. ASSUME NEW p \in Pages, NEW i \in Slots, ListAlerts(p, i)
        PROVE  \A q \in Pages : ShownTrue(q)' /\ \A j \in Slots : AnswerTrue(fetch[q][j])'
    <3>1. PICK asked, rows : asked = fetch[p][i].asked /\ rows = View(asked, table)
      OBVIOUS
    <3>2. version \in Nat
      BY DEF TypeOK
    <3>3. \E ok : Becomes(p, i, Answer(asked, rows, ok))
      BY <1>1, <2>8, <3>1, <3>2, ListAnswers
    <3>4. PICK f : f.asked = asked /\ f.rows = rows /\ Becomes(p, i, f)
      BY <3>3 DEF Answer
    <3>5. WasTrue(asked, rows)'
      BY <1>3, <3>1 DEF WasTrue, AnswersInv
    <3>6. AnswerTrue(fetch[p][i])'
      BY <3>4, <3>5 DEF Becomes, WasTrue
    <3>7. \A q \in Pages, j \in Slots : ~(q = p /\ j = i) => fetch'[q][j] = fetch[q][j]
      BY <3>4 DEF Becomes
    <3>8. UNCHANGED shown
      BY <2>8 DEF ListAlerts
    <3> QED
      BY <2>1, <2>2, <3>6, <3>7, <3>8
  <2> QED
    BY <1>1, <2>1, <2>2, <2>5, <2>6, <2>7, <2>8 DEF PageStep
<1> QED
  BY <1>2, <1>5 DEF AnswersInv, Slots

-----------------------------------------------------------------------------
(* The invariant and the theorems *)

LEMMA LiveQueueInitial ==
    ASSUME Init
    PROVE  LiveQueueInv
<1> USE DEF Init
<1>1. /\ Streaming = {} /\ Posting = {}
      /\ \A p \in Pages : post[p].stage # "committed"
  BY DEF Streaming, Posting, NoPost
<1>2. IsFiniteSet({}) /\ Cardinality({}) = 0
  BY FS_EmptySet
<1>3. HandlersInv /\ Cardinality(Streaming) + Cardinality(Posting) <= Workers
  BY <1>1, <1>2, SomeWorkers DEF HandlersInv
<1>4. NoFetch \in Fetch /\ NoFetch.ver = 0 /\ NoFetch.stage = "idle"
  BY DEF NoFetch, Fetch, Presets
<1>5. NoPost \in Post
  BY BoundsAreNaturals DEF NoPost, Post
<1>6. table \in [AlertId -> Status]
  BY DEF Status
<1>7. TypeOK
  <2>1. /\ version \in Nat /\ past \subseteq [AlertId -> Status] /\ owed \subseteq 1..version
        /\ preset \in [Pages -> Presets] /\ told \in [Pages -> Nat]
        /\ pending \in [Pages -> SUBSET (1..version)]
    BY <1>6 DEF Presets
  <2>2. shown \in [Pages -> [loaded : BOOLEAN, asked : Presets, rows : SUBSET AlertId, ver : Nat]]
    BY DEF Presets
  <2>3. /\ fetch \in [Pages -> [Slots -> Fetch]] /\ post \in [Pages -> Post]
        /\ stream \in [Pages -> {"absent", "connecting", "open", "closed"}]
        /\ disturbed \in [Pages -> BOOLEAN]
    BY <1>4, <1>5
  <2>4. acts \in 0..MaxActs /\ failures \in 0..MaxFailures
    BY BoundsAreNaturals
  <2> QED
    BY <1>3, <1>6, <2>1, <2>2, <2>3, <2>4 DEF TypeOK
<1>8. PagesInv
  BY <1>4 DEF PagesInv, NoneAhead, InTurn
<1>9. AnswersInv
  BY <1>4 DEF AnswersInv
<1> QED
  BY <1>3, <1>7, <1>8, <1>9 DEF LiveQueueInv

LEMMA LiveQueueInvariant == Spec => []LiveQueueInv
<1>1. Init => LiveQueueInv
  BY LiveQueueInitial
<1>2. LiveQueueInv /\ [Next]_vars => LiveQueueInv'
  BY TypeStep, PagesStep, AnswersStep DEF LiveQueueInv
<1> QED
  BY <1>1, <1>2, PTL DEF Spec

(* Every reachable state of table, pages, requests and streams is well      *)
(* typed, and open streams and running handlers never outnumber the         *)
(* gunicorn workers.                                                        *)
THEOREM LiveQueueTypeCorrect == Spec => []TypeOK
<1>1. LiveQueueInv => TypeOK
  BY DEF LiveQueueInv
<1> QED
  BY <1>1, LiveQueueInvariant, PTL

(* However events, timers and answers interleave in dashboard.js, a page    *)
(* whose refreshes are done, have not overlapped and have not failed shows  *)
(* every change that an event has told it of.                               *)
THEOREM EventsAreShown == Spec => []ToldMeansShown
<1>1. LiveQueueInv => ToldMeansShown
  BY DEF LiveQueueInv, PagesInv, InTurn, ToldMeansShown
<1> QED
  BY <1>1, LiveQueueInvariant, PTL

(* Without failed requests the rows of a page are the answer, for the       *)
(* preset they were asked with, of some state the table has had: a change   *)
(* of preset during the await mixes nothing.                                *)
THEOREM RowsAreAnswers == Spec => []RowsWereTrue
<1>1. LiveQueueInv => RowsWereTrue
  BY DEF LiveQueueInv, AnswersInv, WasTrue, RowsWereTrue
<1> QED
  BY <1>1, LiveQueueInvariant, PTL

(* Only overlapping or failed refreshes can take a page back to an earlier  *)
(* state of the table: loadAlerts has no other way to show an old answer.   *)
THEOREM BackwardsByOverlapOnly == Spec => BackwardsNeedsOverlap
<1>1. ASSUME LiveQueueInv, [Next]_vars, NEW p \in Pages, shown'[p].ver < shown[p].ver
      PROVE  disturbed[p]
  <2>1. TypeOK /\ PagesInv /\ PageStep
    BY <1>1, PagePart DEF LiveQueueInv
  <2>2. shown[p].ver \in Nat
    BY <2>1 DEF TypeOK
  <2>3. PICK i \in Slots : ShowAlerts(p, i)
    <3>1. PICK q \in Pages, i \in Slots : ShowAlerts(q, i)
      <4>1. shown' # shown
        BY <1>1, <2>2
      <4>2. \A q \in Pages, i \in Slots :
              ListAlerts(q, i) \/ ListAlertsRaises(q, i) \/ RefreshFails(q, i) => shown' = shown
        BY DEF ListAlerts, ListAlertsRaises, RefreshFails
      <4> QED
        BY <2>1, <4>1, <4>2, Zenon DEF PageStep
    <3>2. q # p => shown'[p] = shown[p]
      BY <2>1, <3>1, ShownBecomes
    <3> QED
      BY <1>1, <2>2, <3>1, <3>2
  <2>4. fetch[p][i].stage = "answered" /\ shown'[p].ver = fetch[p][i].ver
    BY <2>1, <2>3, ShownBecomes
  <2>5. fetch[p][i].ver \in Nat /\ disturbed[p] \in BOOLEAN
    BY <2>1 DEF TypeOK, Fetch
  <2>6. InTurn(p) => fetch[p][i].ver >= shown[p].ver
    BY <2>4 DEF InTurn
  <2> QED
    BY <1>1, <2>1, <2>2, <2>4, <2>5, <2>6 DEF PagesInv
<1>2. LiveQueueInv /\ [Next]_vars
      => [\A p \in Pages : shown'[p].ver < shown[p].ver => disturbed[p]]_vars
  BY <1>1
<1> QED
  BY <1>2, LiveQueueInvariant, PTL DEF Spec, BackwardsNeedsOverlap

=============================================================================
