-------------------------- MODULE ReadsWalkProofs --------------------------
(***************************************************************************)
(* What a client that walks through the pages of a list, or an admin who    *)
(* leafs through the audit log, may miss or see twice: for any page size    *)
(* and any number of rows, whatever others commit between two statements.   *)
(*                                                                          *)
(* The place of a row is the number of rows that come before it in the      *)
(* ORDER BY.  A page has the rows with a place between two boundaries, so   *)
(* a row is seen twice if its place grows beyond the boundary of the pages  *)
(* the reader has, and missed if its place falls below it.  Places grow     *)
(* with rows that come and fall with rows that leave, by one each, and rows *)
(* the ORDER BY tells apart have different places: so each row that comes   *)
(* or leaves carries at most one over the boundary.                         *)
(***************************************************************************)
EXTENDS ReadsProofs

Walking == ask.what \in {"list", "audit"}

Ids == IF ask.what = "list" THEN Matching(alerts, ask) ELSE AuditMatching(audit, ask)
Order == IF ask.what = "list" THEN SeverityOrder ELSE NewestFirst
Size == IF ask.what = "list" THEN PerPage ELSE AuditPerPage

PlaceIn(ids, order, a) == Cardinality({b \in ids : <<b, a>> \in order})

(* The rows before this place are on pages the reader has asked for. *)
Boundary == IF step \in {"count", "rows", "entries"} THEN Offset(page, Size) ELSE page * Size

(* No two of these rows are equal in the ORDER BY. *)
Apart(S, order) == \A a, b \in S : a # b => <<a, b>> \in order \/ <<b, a>> \in order

(* Rows the ids of which have not been given yet. *)
Fresh(a) == IF ask.what = "list" THEN a >= nextAlert ELSE a > writes

FromStart == ask.what = "list" => ask.first = 1

AuditIdsInv ==
    /\ \A r \in audit : r.id <= writes
    /\ \A r, s \in audit : r.id = s.id => r = s

KnownInv ==
    /\ \A a \in got \cup steady : ~Fresh(a)
    /\ steady \subseteq Ids /\ IsFiniteSet(got) /\ repeated \subseteq got

(* Rows seen once and not found equal to another then never are; an id that *)
(* has left does not come back, and created_at and severity do not change.  *)
ApartInv ==
    /\ Apart((got \ tied) \cap Ids, Order)
    /\ FromStart /\ (page > 1 \/ step \in {"size", "answered"}) => Apart(steady \ tied, Order)

RepeatsOf(ids, order, seen, twice, equal, bound) ==
    (twice \cup {a \in seen \cap ids : PlaceIn(ids, order, a) >= bound}) \ equal

(* The rows returned twice, or likely to be. *)
Repeats == RepeatsOf(Ids, Order, got, repeated, tied, Boundary)

Unseen == steady \ (got \cup tied)

MissesOf(ids, order, unseen, bound) == {a \in unseen : PlaceIn(ids, order, a) < bound}

(* The rows on none of the pages, but before the next one. *)
Misses == MissesOf(Ids, Order, Unseen, Boundary)

RepeatsInv == Cardinality(Repeats) <= came

MissesInv == FromStart => Cardinality(Misses) <= left

EndsInv ==
    /\ step = "rows" => Cardinality(Ids) <= total + inside
    /\ ask.what = "list" /\ step = "answered" /\ FromStart /\ page >= TotalPages(total)
         => Cardinality(Unseen) <= left + inside
    /\ ask.what = "audit" /\ step = "answered" /\ ~HasNext(page, total)
         => Cardinality(Unseen) <= left

WalkInv ==
    /\ AuditIdsInv
    /\ Walking => KnownInv /\ ApartInv /\ RepeatsInv /\ MissesInv /\ EndsInv
    /\ ~Walking => repeated = {}

-----------------------------------------------------------------------------
(* Places *)

Strict(order) ==
    /\ \A a : <<a, a>> \notin order
    /\ \A a, b, c : <<a, b>> \in order /\ <<b, c>> \in order => <<a, c>> \in order

LEMMA Bounded ==
    ASSUME NEW T, IsFiniteSet(T), NEW U, IsFiniteSet(U), NEW S, S \subseteq T \cup U
    PROVE  /\ IsFiniteSet(S) /\ Cardinality(S) <= Cardinality(T) + Cardinality(U)
           /\ Cardinality(S) \in Nat /\ Cardinality(T) \in Nat /\ Cardinality(U) \in Nat
<1>1. /\ IsFiniteSet(T \cup U)
      /\ Cardinality(T \cup U) = Cardinality(T) + Cardinality(U) - Cardinality(T \cap U)
  BY FS_Union
<1>2. /\ Cardinality(T) \in Nat /\ Cardinality(U) \in Nat /\ Cardinality(T \cap U) \in Nat
      /\ Cardinality(T \cup U) \in Nat
  BY <1>1, FS_CardinalityType, FS_Intersection
<1>3. IsFiniteSet(S) /\ Cardinality(S) <= Cardinality(T \cup U) /\ Cardinality(S) \in Nat
  BY <1>1, FS_Subset, FS_CardinalityType
<1> QED
  BY <1>1, <1>2, <1>3

LEMMA PlaceType ==
    ASSUME NEW ids, IsFiniteSet(ids), NEW order, NEW a
    PROVE  /\ IsFiniteSet({b \in ids : <<b, a>> \in order})
           /\ PlaceIn(ids, order, a) \in Nat
BY FS_Subset, FS_CardinalityType DEF PlaceIn

(* A row has fewer rows before it than one it is before. *)
LEMMA PlacesDiffer ==
    ASSUME NEW ids, IsFiniteSet(ids), NEW order, Strict(order), NEW a \in ids, NEW b,
           <<a, b>> \in order
    PROVE  PlaceIn(ids, order, a) < PlaceIn(ids, order, b)
<1> DEFINE A == {c \in ids : <<c, a>> \in order}
           B == {c \in ids : <<c, b>> \in order}
<1>1. IsFiniteSet(A) /\ IsFiniteSet(B)
  BY FS_Subset
<1>2. a \notin A /\ A \cup {a} \subseteq B
  BY DEF Strict
<1>3. Cardinality(A \cup {a}) = Cardinality(A) + 1
  BY <1>1, <1>2, FS_AddElement
<1>4. Cardinality(A \cup {a}) <= Cardinality(B)
  BY <1>1, <1>2, FS_Subset
<1>5. Cardinality(A) \in Nat /\ Cardinality(B) \in Nat
  BY <1>1, FS_CardinalityType
<1> HIDE DEF A, B
<1>6. Cardinality(A) < Cardinality(B)
  BY <1>3, <1>4, <1>5
<1> QED
  BY <1>6 DEF PlaceIn, A, B

LEMMA PlaceInside ==
    ASSUME NEW ids, IsFiniteSet(ids), NEW order, Strict(order), NEW a \in ids
    PROVE  PlaceIn(ids, order, a) < Cardinality(ids) /\ Cardinality(ids) \in Nat
<1> DEFINE A == {c \in ids : <<c, a>> \in order}
<1>1. IsFiniteSet(A)
  BY FS_Subset
<1>2. a \notin A /\ A \cup {a} \subseteq ids
  BY DEF Strict
<1>3. Cardinality(A \cup {a}) = Cardinality(A) + 1
  BY <1>1, <1>2, FS_AddElement
<1>4. Cardinality(A \cup {a}) <= Cardinality(ids)
  BY <1>2, FS_Subset
<1>5. Cardinality(A) \in Nat /\ Cardinality(ids) \in Nat
  BY <1>1, FS_CardinalityType
<1> HIDE DEF A
<1>6. Cardinality(A) < Cardinality(ids)
  BY <1>3, <1>4, <1>5
<1> QED
  BY <1>5, <1>6 DEF PlaceIn, A

(* Rows that the ORDER BY tells apart have a place each. *)
LEMMA CountPlaces ==
    ASSUME NEW ids, IsFiniteSet(ids), NEW order, Strict(order), NEW S, S \subseteq ids,
           Apart(S, order), NEW low \in Nat, NEW high \in Nat, low <= high,
           \A a \in S : low <= PlaceIn(ids, order, a) /\ PlaceIn(ids, order, a) < high
    PROVE  IsFiniteSet(S) /\ Cardinality(S) \in Nat /\ Cardinality(S) <= high - low
<1> DEFINE Places == low..(high - 1)
           Of == [a \in S |-> PlaceIn(ids, order, a)]
<1>1. \A a \in S : PlaceIn(ids, order, a) \in Nat
  BY PlaceType
<1>2. Of \in [S -> Places]
  BY <1>1
<1>3. ASSUME NEW a \in S, NEW b \in S, a # b
      PROVE  PlaceIn(ids, order, a) # PlaceIn(ids, order, b)
  <2>1. <<a, b>> \in order \/ <<b, a>> \in order
    BY <1>3 DEF Apart
  <2>2. \/ PlaceIn(ids, order, a) < PlaceIn(ids, order, b)
        \/ PlaceIn(ids, order, b) < PlaceIn(ids, order, a)
    BY <2>1, PlacesDiffer
  <2> QED
    BY <1>1, <2>2
<1>4. Of \in Injection(S, Places)
  BY <1>2, <1>3 DEF Injection, IsInjective
<1>5. /\ IsFiniteSet(Places)
      /\ Cardinality(Places) = IF low > high - 1 THEN 0 ELSE high - 1 - low + 1
  BY FS_Interval
<1>6. IsFiniteSet(S) /\ Cardinality(S) <= Cardinality(Places)
  BY <1>4, <1>5, FS_Injection
<1>7. Cardinality(S) \in Nat
  BY <1>6, FS_CardinalityType
<1> HIDE DEF Places
<1> QED
  BY <1>5, <1>6, <1>7

LEMMA Numbers ==
    ASSUME NEW m \in Nat
    PROVE  IsFiniteSet(1..m) /\ Cardinality(1..m) = m
BY FS_Interval

(* A page has the rows with its places, whatever the query does with equals. *)
LEMMA SlicePlaces ==
    ASSUME NEW ids, IsFiniteSet(ids), NEW order, Strict(order), NEW s \in Readings(ids, order),
           NEW a \in ids, a \notin Equals(ids, order), NEW n, NEW size,
           Offset(n, size) \in Nat, size \in Nat
    PROVE  a \in Slice(s, n, size)
             <=> /\ Offset(n, size) <= PlaceIn(ids, order, a)
                 /\ PlaceIn(ids, order, a) < Offset(n, size) + size
<1>1. PICK count \in Nat : count = Cardinality(ids)
  BY FS_CardinalityType
<1>2. /\ s \in [1..count -> ids] /\ Len(s) = count
      /\ \A i, j \in 1..count : s[i] = s[j] => i = j
      /\ \A b \in ids : \E i \in 1..count : s[i] = b
      /\ \A i, j \in 1..count : i < j => <<s[j], s[i]>> \notin order
  BY <1>1, ReadingOnce
<1>3. PICK i \in 1..count : s[i] = a
  BY <1>2
<1>4. PICK m \in Nat : m = i - 1
  OBVIOUS
<1>5. IsFiniteSet(1..m) /\ Cardinality(1..m) = m
  BY Numbers
<1> DEFINE Earlier == 1..m
           Before == {b \in ids : <<b, a>> \in order}
           Row == [j \in Earlier |-> s[j]]
<1>6. \A j \in Earlier : j \in 1..count /\ j < i
  BY <1>3, <1>4
<1>7. \A b \in ids \ {a} : <<a, b>> \in order \/ <<b, a>> \in order
  BY DEF Equals
<1>8. \A j \in Earlier : s[j] \in Before
  <2> SUFFICES ASSUME NEW j \in Earlier
               PROVE  s[j] \in Before
    OBVIOUS
  <2>1. j \in 1..count /\ j < i
    BY <1>6
  <2>2. s[j] \in ids /\ s[j] # a /\ <<a, s[j]>> \notin order
    BY <1>2, <1>3, <2>1
  <2> QED
    BY <1>7, <2>2
<1>9. \A b \in Before : \E j \in Earlier : s[j] = b
  <2> SUFFICES ASSUME NEW b \in Before
               PROVE  \E j \in Earlier : s[j] = b
    OBVIOUS
  <2>1. b \in ids /\ <<b, a>> \in order /\ b # a
    BY DEF Strict
  <2>2. PICK j \in 1..count : s[j] = b
    BY <1>2, <2>1
  <2>3. j # i /\ ~(i < j)
    BY <1>2, <1>3, <2>1, <2>2
  <2> QED
    BY <1>4, <2>2, <2>3
<1>10. Row \in Bijection(Earlier, Before)
  <2>1. Row \in [Earlier -> Before]
    BY <1>8
  <2>2. Row \in Injection(Earlier, Before)
    BY <1>2, <1>6, <2>1 DEF Injection, IsInjective
  <2> QED
    BY <1>9, <2>1, <2>2 DEF Bijection, Surjection
<1>11. PlaceIn(ids, order, a) = i - 1
  <2>1. Cardinality(Before) = Cardinality(Earlier)
    BY <1>10, <1>5, FS_Bijection DEF ExistsBijection
  <2> QED
    BY <1>4, <1>5, <2>1 DEF PlaceIn
<1>12. a \in Slice(s, n, size) <=> Offset(n, size) < i /\ i <= Offset(n, size) + size
  <2>1. a \in Slice(s, n, size) <=>
          \E k \in 1..count : s[k] = a /\ Offset(n, size) < k /\ k <= Offset(n, size) + size
    BY <1>2 DEF Slice
  <2> QED
    BY <1>2, <1>3, <2>1
<1> QED
  BY <1>11, <1>12

-----------------------------------------------------------------------------
(* Rows that come and leave *)

(* The two orders agree on the rows that stay. *)
Agree(old, new, order, orderThen) ==
    \A a, b \in old \cap new : <<a, b>> \in orderThen <=> <<a, b>> \in order

(* A place grows by no more than the rows that come. *)
LEMMA Shift ==
    ASSUME NEW old, IsFiniteSet(old), NEW new, IsFiniteSet(new), NEW order, NEW orderThen,
           Agree(old, new, order, orderThen), NEW a \in old \cap new
    PROVE  /\ PlaceIn(new, orderThen, a) <= PlaceIn(old, order, a) + Cardinality(new \ old)
           /\ Cardinality(new \ old) \in Nat
           /\ PlaceIn(old, order, a) \in Nat /\ PlaceIn(new, orderThen, a) \in Nat
<1> DEFINE B == {b \in old : <<b, a>> \in order}
           BThen == {b \in new : <<b, a>> \in orderThen}
<1>1. IsFiniteSet(B) /\ IsFiniteSet(new \ old)
  BY FS_Subset
<1>2. BThen \subseteq B \cup (new \ old)
  BY DEF Agree
<1>3. /\ Cardinality(BThen) <= Cardinality(B) + Cardinality(new \ old)
      /\ Cardinality(BThen) \in Nat /\ Cardinality(B) \in Nat /\ Cardinality(new \ old) \in Nat
  BY <1>1, <1>2, Bounded
<1> QED
  BY <1>3 DEF PlaceIn

LEMMA RepeatsShift ==
    ASSUME NEW old, IsFiniteSet(old), NEW new, IsFiniteSet(new), NEW order, NEW orderThen,
           Strict(order), Agree(old, new, order, orderThen), NEW seen, IsFiniteSet(seen),
           seen \cap new \subseteq old, NEW twice, twice \subseteq seen, NEW equal,
           Apart((seen \ equal) \cap old, order), NEW bound \in Nat
    PROVE  /\ Cardinality(RepeatsOf(new, orderThen, seen, twice, equal, bound))
                <= Cardinality(RepeatsOf(old, order, seen, twice, equal, bound))
                     + Cardinality(new \ old)
           /\ Cardinality(RepeatsOf(new, orderThen, seen, twice, equal, bound)) \in Nat
           /\ Cardinality(RepeatsOf(old, order, seen, twice, equal, bound)) \in Nat
           /\ Cardinality(new \ old) \in Nat
<1> DEFINE now == (twice \cup {a \in seen \cap old : PlaceIn(old, order, a) >= bound}) \ equal
           then == (twice \cup {a \in seen \cap new : PlaceIn(new, orderThen, a) >= bound}) \ equal
<1>1. PICK k \in Nat : k = Cardinality(new \ old)
  BY FS_Difference, FS_CardinalityType
<1>2. PICK low \in Nat : (k <= bound /\ low = bound - k) \/ (bound < k /\ low = 0)
  <2>1. CASE k <= bound
    <3>1. bound - k \in Nat
      BY <2>1
    <3> QED
      BY <2>1, <3>1
  <2>2. CASE bound < k
    BY <2>2
  <2> QED
    BY <2>1, <2>2
<1> DEFINE Crossed == {a \in (seen \ equal) \cap old :
                         low <= PlaceIn(old, order, a) /\ PlaceIn(old, order, a) < bound}
<1>3. low <= bound /\ bound - low <= k
  BY <1>2
<1>4. Apart(Crossed, order)
  BY DEF Apart
<1>5. IsFiniteSet(Crossed) /\ Cardinality(Crossed) \in Nat /\ Cardinality(Crossed) <= bound - low
  BY <1>3, <1>4, CountPlaces
<1>6. then \subseteq now \cup Crossed
  <2> SUFFICES ASSUME NEW a \in then, a \notin now
               PROVE  a \in Crossed
    OBVIOUS
  <2>1. a \in seen \cap new /\ a \in old /\ a \notin equal
        /\ PlaceIn(new, orderThen, a) >= bound /\ ~(PlaceIn(old, order, a) >= bound)
    OBVIOUS
  <2>2. /\ PlaceIn(new, orderThen, a) <= PlaceIn(old, order, a) + k
        /\ PlaceIn(old, order, a) \in Nat /\ PlaceIn(new, orderThen, a) \in Nat
    BY <1>1, <2>1, Shift
  <2>3. low <= PlaceIn(old, order, a) /\ PlaceIn(old, order, a) < bound
    BY <1>2, <2>1, <2>2
  <2> QED
    BY <2>1, <2>3
<1>7. IsFiniteSet(now)
  BY FS_Subset
<1> HIDE DEF now, then, Crossed
<1>8. /\ Cardinality(then) <= Cardinality(now) + Cardinality(Crossed)
      /\ Cardinality(then) \in Nat /\ Cardinality(now) \in Nat
  BY <1>5, <1>6, <1>7, Bounded
<1>9. Cardinality(then) <= Cardinality(now) + k
  BY <1>3, <1>5, <1>8
<1> QED
  BY <1>1, <1>8, <1>9 DEF now, then, RepeatsOf

LEMMA MissesShift ==
    ASSUME NEW old, IsFiniteSet(old), NEW new, IsFiniteSet(new), NEW order, NEW orderThen,
           Strict(order), Agree(old, new, order, orderThen), NEW unseen, unseen \subseteq old,
           Apart(unseen, order), NEW unseenThen, unseenThen \subseteq unseen \cap new,
           NEW bound \in Nat
    PROVE  /\ Cardinality(MissesOf(new, orderThen, unseenThen, bound))
                <= Cardinality(MissesOf(old, order, unseen, bound)) + Cardinality(old \ new)
           /\ Cardinality(MissesOf(new, orderThen, unseenThen, bound)) \in Nat
           /\ Cardinality(MissesOf(old, order, unseen, bound)) \in Nat
           /\ Cardinality(old \ new) \in Nat
<1> DEFINE now == {a \in unseen : PlaceIn(old, order, a) < bound}
           then == {a \in unseenThen : PlaceIn(new, orderThen, a) < bound}
<1>1. PICK k \in Nat : k = Cardinality(old \ new)
  BY FS_Difference, FS_CardinalityType
<1> DEFINE Crossed == {a \in unseenThen :
                         bound <= PlaceIn(old, order, a) /\ PlaceIn(old, order, a) < bound + k}
<1>2. Crossed \subseteq old /\ Apart(Crossed, order)
  BY DEF Apart
<1>3. /\ IsFiniteSet(Crossed) /\ Cardinality(Crossed) \in Nat
      /\ Cardinality(Crossed) <= bound + k - bound
  BY <1>2, CountPlaces
<1>4. then \subseteq now \cup Crossed
  <2> SUFFICES ASSUME NEW a \in then, a \notin now
               PROVE  a \in Crossed
    OBVIOUS
  <2>1. a \in unseenThen /\ a \in old \cap new /\ PlaceIn(new, orderThen, a) < bound
        /\ ~(PlaceIn(old, order, a) < bound)
    OBVIOUS
  <2>2. Agree(new, old, orderThen, order)
    BY DEF Agree
  <2>3. /\ PlaceIn(old, order, a) <= PlaceIn(new, orderThen, a) + k
        /\ PlaceIn(old, order, a) \in Nat /\ PlaceIn(new, orderThen, a) \in Nat
    BY <1>1, <2>1, <2>2, Shift
  <2>4. bound <= PlaceIn(old, order, a) /\ PlaceIn(old, order, a) < bound + k
    BY <2>1, <2>3
  <2> QED
    BY <2>1, <2>4
<1>5. IsFiniteSet(now)
  BY FS_Subset
<1> HIDE DEF now, then, Crossed
<1>6. /\ Cardinality(then) <= Cardinality(now) + Cardinality(Crossed)
      /\ Cardinality(then) \in Nat /\ Cardinality(now) \in Nat
  BY <1>3, <1>4, <1>5, Bounded
<1>7. Cardinality(then) <= Cardinality(now) + k
  BY <1>3, <1>6
<1> QED
  BY <1>1, <1>6, <1>7 DEF now, then, MissesOf

-----------------------------------------------------------------------------
(* The list, the audit log and their orders *)

(* The order of the log, row by row. *)
LEMMA InNewestFirst ==
    \A a, b : <<a, b>> \in NewestFirst <=>
                \E q, r \in audit : q.id = a /\ r.id = b /\ q.at > r.at
<1> SUFFICES ASSUME NEW a, NEW b
             PROVE  <<a, b>> \in NewestFirst <=>
                      \E q, r \in audit : q.id = a /\ r.id = b /\ q.at > r.at
  OBVIOUS
<1>1. ASSUME NEW q \in audit, NEW r \in audit, q.id = a, r.id = b, q.at > r.at
      PROVE  <<a, b>> \in NewestFirst
  <2>1. PICK p : p = <<q, r>>
    OBVIOUS
  <2>2. p \in {x \in audit \X audit : x[1].at > x[2].at} /\ p[1].id = a /\ p[2].id = b
    BY <1>1, <2>1
  <2> QED
    BY <2>2 DEF NewestFirst
<1>2. ASSUME <<a, b>> \in NewestFirst
      PROVE  \E q, r \in audit : q.id = a /\ r.id = b /\ q.at > r.at
  BY <1>2 DEF NewestFirst
<1> QED
  BY <1>1, <1>2

LEMMA InNewestFirstThen ==
    \A a, b : <<a, b>> \in NewestFirst' <=>
                \E q, r \in audit' : q.id = a /\ r.id = b /\ q.at > r.at
<1> SUFFICES ASSUME NEW a, NEW b
             PROVE  <<a, b>> \in NewestFirst' <=>
                      \E q, r \in audit' : q.id = a /\ r.id = b /\ q.at > r.at
  OBVIOUS
<1>1. ASSUME NEW q \in audit', NEW r \in audit', q.id = a, r.id = b, q.at > r.at
      PROVE  <<a, b>> \in NewestFirst'
  <2>1. PICK p : p = <<q, r>>
    OBVIOUS
  <2>2. p \in {x \in audit' \X audit' : x[1].at > x[2].at} /\ p[1].id = a /\ p[2].id = b
    BY <1>1, <2>1
  <2> QED
    BY <2>2 DEF NewestFirst
<1>2. ASSUME <<a, b>> \in NewestFirst'
      PROVE  \E q, r \in audit' : q.id = a /\ r.id = b /\ q.at > r.at
  BY <1>2 DEF NewestFirst
<1> QED
  BY <1>1, <1>2

LEMMA OrdersStrict ==
    ASSUME TypeOK, AuditIdsInv
    PROVE  Strict(Order)
<1>1. \A a, b : <<a, b>> \in SeverityOrder <=>
        /\ a \in AlertId /\ b \in AlertId
        /\ \/ Rank(Severity[a]) < Rank(Severity[b])
           \/ /\ Rank(Severity[a]) = Rank(Severity[b])
              /\ alerts[a].created > alerts[b].created
  BY DEF SeverityOrder
<1>2. \A a \in AlertId : Rank(Severity[a]) \in Nat /\ alerts[a].created \in Nat
  BY DEF Rank, TypeOK, NoRow
<1>3. Strict(SeverityOrder)
  BY <1>1, <1>2 DEF Strict
<1>4. \A a, b : <<a, b>> \in NewestFirst <=>
        \E q, r \in audit : q.id = a /\ r.id = b /\ q.at > r.at
  BY InNewestFirst
<1>5. \A q \in audit : q.at \in Nat
  BY DEF TypeOK
<1>6. Strict(NewestFirst)
  <2>1. \A a : <<a, a>> \notin NewestFirst
    BY <1>4, <1>5 DEF AuditIdsInv
  <2>2. ASSUME NEW a, NEW b, NEW c, <<a, b>> \in NewestFirst, <<b, c>> \in NewestFirst
        PROVE  <<a, c>> \in NewestFirst
    <3>1. PICK q \in audit, r \in audit : q.id = a /\ r.id = b /\ q.at > r.at
      BY <1>4, <2>2
    <3>2. PICK s \in audit, t \in audit : s.id = b /\ t.id = c /\ s.at > t.at
      BY <1>4, <2>2
    <3>3. r = s
      BY <3>1, <3>2 DEF AuditIdsInv
    <3>4. q.at > t.at
      BY <1>5, <3>1, <3>2, <3>3
    <3> QED
      BY <1>4, <3>1, <3>2, <3>4
  <2> QED
    BY <2>1, <2>2 DEF Strict
<1> QED
  BY <1>3, <1>6 DEF Order

LEMMA IdsType ==
    ASSUME TypeOK, TablesInv, AuditIdsInv
    PROVE  /\ Ids \subseteq Nat /\ IsFiniteSet(Ids) /\ Cardinality(Ids) \in Nat
           /\ \A a \in Ids : ~Fresh(a)
           /\ ask.what # "list" => Cardinality(Ids) <= Cardinality(audit)
<1>1. Ids \subseteq Nat /\ IsFiniteSet(Ids)
  BY CountsAreNat DEF Ids
<1>2. Cardinality(Ids) \in Nat
  BY <1>1, FS_CardinalityType
<1>3. \A a \in Ids : ~Fresh(a)
  <2>1. CASE ask.what = "list"
    <3>1. \A a \in Stays(alerts) : ~(a >= nextAlert)
      BY DEF TablesInv, Stays, NoRow
    <3> QED
      BY <2>1, <3>1 DEF Ids, Fresh, Matching
  <2>2. CASE ask.what # "list"
    <3>1. \A r \in audit : r.id <= writes /\ r.id \in Nat /\ writes \in Nat
      BY ReadsBounds DEF AuditIdsInv, TypeOK
    <3>2. \A a \in Ids : \E r \in audit : r.id = a
      BY <2>2 DEF Ids, AuditMatching
    <3> QED
      BY <2>2, <3>1, <3>2 DEF Fresh
  <2> QED
    BY <2>1, <2>2
<1>4. ASSUME ask.what # "list"
      PROVE  Cardinality(Ids) <= Cardinality(audit)
  <2> DEFINE Of == [r \in {e \in audit : ask.search # "any" => e.action = ask.search} |-> r.id]
  <2>1. IsFiniteSet({e \in audit : ask.search # "any" => e.action = ask.search})
        /\ Cardinality({e \in audit : ask.search # "any" => e.action = ask.search})
             <= Cardinality(audit)
    BY FS_Subset DEF TablesInv
  <2>2. Of \in Surjection({e \in audit : ask.search # "any" => e.action = ask.search}, Ids)
    BY <1>4 DEF Ids, AuditMatching, Surjection
  <2>3. Cardinality(Ids)
          <= Cardinality({e \in audit : ask.search # "any" => e.action = ask.search})
    BY <2>1, <2>2, FS_Surjection
  <2>4. /\ Cardinality({e \in audit : ask.search # "any" => e.action = ask.search}) \in Nat
        /\ Cardinality(audit) \in Nat
    BY <2>1, FS_CardinalityType DEF TablesInv
  <2> QED
    BY <1>2, <2>1, <2>3, <2>4
<1> QED
  BY <1>1, <1>2, <1>3, <1>4

(* What a commit leaves of the rows: created_at stays, a closed alert stays *)
(* closed, and new rows have new ids.                                       *)
LEMMA RowsKept ==
    ASSUME TypeOK, TablesInv, AuditIdsInv, Commit
    PROVE  /\ AuditIdsInv' /\ nextAlert' \in Nat /\ nextAlert' >= nextAlert /\ writes' = writes + 1
           /\ \A a \in Stays(alerts') :
                \/ a >= nextAlert
                \/ /\ a \in Stays(alerts) /\ alerts'[a].created = alerts[a].created
                   /\ alerts'[a].status = "open" => alerts[a].status = "open"
           /\ \A r \in audit' : r \in audit \/ r.id = writes'
<1>1. /\ nextAlert \in Nat /\ writes \in Nat /\ \A r \in audit : r.id \in Nat
  BY ReadsBounds DEF TypeOK
<1>2. writes' = writes + 1 /\ nextAlert' \in {nextAlert, nextAlert + 1}
  BY DEF Commit, Ingest, Classify, AddNote, Purge, Write
<1>3. /\ \A r \in audit' : r \in audit \/ r.id = writes'
      /\ \A r, s \in audit' : r \in audit \/ s \in audit \/ r = s
  <2>1. CASE Ingest
    BY <2>1 DEF Ingest
  <2>2. CASE Purge
    BY <2>2 DEF Purge
  <2>3. CASE Classify \/ AddNote
    <3>1. \E r : r.id = writes' /\ audit' = audit \cup {r}
      <4>1. CASE Classify
        <5>1. PICK a \in Stays(alerts), verdict \in Verdicts, at \in StartedAt :
                 audit' = audit \cup {[id |-> writes', alert |-> a, action |-> verdict, at |-> at]}
          BY <4>1 DEF Classify
        <5>2. PICK r : r = [id |-> writes', alert |-> a, action |-> verdict, at |-> at]
          OBVIOUS
        <5> QED
          BY <5>1, <5>2
      <4>2. CASE AddNote
        <5>1. PICK a \in Stays(alerts), at \in StartedAt :
                 audit' = audit \cup
                            {[id |-> writes', alert |-> a, action |-> "note_added", at |-> at]}
          BY <4>2 DEF AddNote
        <5>2. PICK r : r = [id |-> writes', alert |-> a, action |-> "note_added", at |-> at]
          OBVIOUS
        <5> QED
          BY <5>1, <5>2
      <4> QED
        BY <2>3, <4>1, <4>2
    <3> QED
      BY <3>1
  <2> QED
    BY <2>1, <2>2, <2>3 DEF Commit
<1>4. AuditIdsInv'
  <2>1. \A r \in audit' : r.id <= writes'
    BY <1>1, <1>2, <1>3 DEF AuditIdsInv
  <2>2. ASSUME NEW r \in audit', NEW s \in audit', r.id = s.id
        PROVE  r = s
    <3>1. r \in audit => s \in audit
      BY <1>1, <1>2, <1>3, <2>2 DEF AuditIdsInv
    <3>2. s \in audit => r \in audit
      BY <1>1, <1>2, <1>3, <2>2 DEF AuditIdsInv
    <3> QED
      BY <1>3, <2>2, <3>1, <3>2 DEF AuditIdsInv
  <2> QED
    BY <2>1, <2>2 DEF AuditIdsInv
<1>5. ASSUME NEW a \in Stays(alerts')
      PROVE  \/ a >= nextAlert
             \/ /\ a \in Stays(alerts) /\ alerts'[a].created = alerts[a].created
                /\ alerts'[a].status = "open" => alerts[a].status = "open"
  <2>1. a \in AlertId
    BY DEF Stays
  <2>2. CASE Ingest
    <3>1. a # nextAlert => alerts'[a] = alerts[a]
      BY <2>1, <2>2 DEF Ingest, TypeOK
    <3> QED
      BY <1>1, <2>1, <3>1 DEF Stays
  <2>3. CASE Classify
    <3>1. PICK b \in Stays(alerts), verdict \in Verdicts :
            alerts' = [alerts EXCEPT ![b].status = verdict]
      BY <2>3 DEF Classify
    <3>2. b \in AlertId /\ alerts[b] \in [status : Verdicts \cup {"open"}, created : Nat]
      BY DEF Stays, TypeOK, NoRow
    <3>3. a # b => alerts'[a] = alerts[a]
      BY <2>1, <3>1 DEF TypeOK
    <3>4. alerts'[b].status # "open" /\ alerts'[b].created = alerts[b].created
      BY <3>1, <3>2 DEF TypeOK, Verdicts
    <3> QED
      BY <2>1, <3>3, <3>4 DEF Stays
  <2>4. CASE AddNote
    BY <2>4 DEF AddNote, Stays
  <2>5. CASE Purge
    <3>1. PICK gone :
            /\ gone \subseteq Stays(alerts)
            /\ alerts' = [b \in AlertId |-> IF b \in gone THEN NoRow ELSE alerts[b]]
      BY <2>5 DEF Purge
    <3>2. alerts'[a] = alerts[a]
      BY <2>1, <3>1 DEF Stays, NoRow
    <3> QED
      BY <2>1, <3>2 DEF Stays
  <2> QED
    BY <2>2, <2>3, <2>4, <2>5 DEF Commit
<1> QED
  BY <1>1, <1>2, <1>3, <1>4, <1>5

LEMMA NewRows ==
    ASSUME TypeOK, TablesInv, AuditIdsInv, Commit, UNCHANGED ask, Walking
    PROVE  /\ \A a \in Ids' \ Ids : Fresh(a)
           /\ Agree(Ids, Ids', Order, Order')
<1>1. /\ \A a \in Stays(alerts') :
           \/ a >= nextAlert
           \/ /\ a \in Stays(alerts) /\ alerts'[a].created = alerts[a].created
              /\ alerts'[a].status = "open" => alerts[a].status = "open"
      /\ \A r \in audit' : r \in audit \/ r.id = writes'
      /\ writes' = writes + 1 /\ writes \in Nat
  BY RowsKept, ReadsBounds DEF TypeOK
<1>2. CASE ask.what = "list"
  <2>1. Ids = Matching(alerts, ask) /\ Ids' = Matching(alerts', ask)
    BY <1>2 DEF Ids, Matching, Stays
  <2>2. ASSUME NEW a \in Ids' \ Ids
        PROVE  Fresh(a)
    <3>1. a \in Stays(alerts') /\ (ask.view = "open" => alerts'[a].status = "open")
          /\ (ask.severity # "any" => Severity[a] = ask.severity) /\ a \notin Matching(alerts, ask)
      BY <2>1, <2>2 DEF Matching
    <3>2. a >= nextAlert
      BY <1>1, <3>1 DEF Matching
    <3> QED
      BY <1>2, <3>2 DEF Fresh
  <2>3. \A a \in Ids \cap Ids' : a \in AlertId /\ alerts'[a].created = alerts[a].created
    <3>1. \A a \in Stays(alerts) : ~(a >= nextAlert) /\ a \in AlertId
      BY DEF TablesInv, Stays, NoRow
    <3>2. Ids \subseteq Stays(alerts) /\ Ids' \subseteq Stays(alerts')
      BY <2>1 DEF Matching
    <3> QED
      BY <1>1, <3>1, <3>2
  <2>4. Agree(Ids, Ids', SeverityOrder, SeverityOrder')
    BY <2>3 DEF Agree, SeverityOrder
  <2>5. Order = SeverityOrder /\ Order' = SeverityOrder'
    BY <1>2 DEF Order
  <2> QED
    BY <2>2, <2>4, <2>5
<1>3. CASE ask.what # "list"
  <2>1. Ids = AuditMatching(audit, ask) /\ Ids' = AuditMatching(audit', ask)
    BY <1>3 DEF Ids, AuditMatching
  <2>2. ASSUME NEW a \in Ids' \ Ids
        PROVE  Fresh(a)
    <3>1. PICK r \in audit' : r.id = a /\ (ask.search # "any" => r.action = ask.search)
      BY <2>1, <2>2 DEF AuditMatching
    <3>2. r \notin audit
      BY <2>1, <2>2, <3>1 DEF AuditMatching
    <3> QED
      BY <1>1, <1>3, <3>1, <3>2 DEF Fresh
  <2>3. \A a \in Ids : a # writes'
    <3>1. \A r \in audit : r.id \in Nat /\ r.id <= writes
      BY DEF TypeOK, AuditIdsInv
    <3>2. \A a \in Ids : \E r \in audit : r.id = a
      BY <2>1 DEF AuditMatching
    <3> QED
      BY <1>1, <3>1, <3>2
  <2>4. \A a \in Ids \cap Ids' : \E r \in audit \cap audit' :
          r.id = a /\ (\A q \in audit \cup audit' : q.id = a => q = r)
    <3> SUFFICES ASSUME NEW a \in Ids \cap Ids'
                 PROVE  \E r \in audit \cap audit' :
                          r.id = a /\ (\A q \in audit \cup audit' : q.id = a => q = r)
      OBVIOUS
    <3>1. PICK r \in audit' : r.id = a
      BY <2>1 DEF AuditMatching
    <3>2. \A q \in audit' : q.id = a => q \in audit
      BY <1>1, <2>3
    <3> QED
      BY <3>1, <3>2 DEF AuditIdsInv
  <2>5. Agree(Ids, Ids', NewestFirst, NewestFirst')
    <3>1. \A a, b : <<a, b>> \in NewestFirst <=>
            \E q, r \in audit : q.id = a /\ r.id = b /\ q.at > r.at
      BY InNewestFirst
    <3>2. \A a, b : <<a, b>> \in NewestFirst' <=>
            \E q, r \in audit' : q.id = a /\ r.id = b /\ q.at > r.at
      BY InNewestFirstThen
    <3> SUFFICES ASSUME NEW a \in Ids \cap Ids', NEW b \in Ids \cap Ids'
                 PROVE  <<a, b>> \in NewestFirst' <=> <<a, b>> \in NewestFirst
      BY DEF Agree
    <3>3. PICK q \in audit \cap audit' :
            q.id = a /\ (\A x \in audit \cup audit' : x.id = a => x = q)
      BY <2>4
    <3>4. PICK r \in audit \cap audit' :
            r.id = b /\ (\A x \in audit \cup audit' : x.id = b => x = r)
      BY <2>4
    <3>5. <<a, b>> \in NewestFirst <=> q.at > r.at
      BY <3>1, <3>3, <3>4
    <3>6. <<a, b>> \in NewestFirst' <=> q.at > r.at
      BY <3>2, <3>3, <3>4
    <3> QED
      BY <3>5, <3>6
  <2>6. Order = NewestFirst /\ Order' = NewestFirst'
    BY <1>3 DEF Order
  <2> QED
    BY <2>2, <2>5, <2>6
<1> QED
  BY <1>2, <1>3

-----------------------------------------------------------------------------
(* The steps of the reader *)

LEMMA BoundaryType ==
    ASSUME TypeOK, RequestInv
    PROVE  /\ Size \in Nat \ {0} /\ page \in Nat \ {0} /\ Boundary \in Nat
           /\ Offset(page, Size) \in Nat /\ page * Size \in Nat
           /\ Offset(page, Size) + Size = page * Size
           /\ Offset(page + 1, Size) = page * Size
           /\ page = 1 => Offset(page, Size) = 0
<1>1. PICK size \in Nat \ {0} : size = Size
  BY PagesHoldRows DEF Size
<1>2. PICK n \in Nat \ {0} : n = page
  BY DEF TypeOK, RequestInv
<1>3. PICK m \in Nat : m = n - 1
  OBVIOUS
<1>4. /\ m * size \in Nat /\ n * size \in Nat /\ n * size = m * size + size
      /\ (m = 0 => m * size = 0)
  BY <1>3, Products
<1>5. Offset(page, Size) = m * size /\ Offset(page + 1, Size) = n * size /\ page * Size = n * size
  BY <1>1, <1>2, <1>3 DEF Offset
<1>6. Boundary \in {Offset(page, Size), page * Size}
  BY DEF Boundary
<1> QED
  BY <1>1, <1>2, <1>3, <1>4, <1>5, <1>6

(* The list is what it was. *)
LEMMA Same ==
    ASSUME UNCHANGED <<tables, ask>>
    PROVE  /\ Ids' = Ids /\ Order' = Order /\ Size' = Size /\ nextAlert' = nextAlert
           /\ writes' = writes /\ Walking' = Walking /\ FromStart' = FromStart
<1>1. UNCHANGED <<alerts, audit, nextAlert, writes, ask>>
  BY DEF tables
<1>2. SeverityOrder' = SeverityOrder /\ NewestFirst' = NewestFirst
  BY <1>1 DEF SeverityOrder, NewestFirst
<1>3. /\ Matching(alerts, ask)' = Matching(alerts, ask)
      /\ AuditMatching(audit, ask)' = AuditMatching(audit, ask)
  BY <1>1 DEF Matching, Stays, AuditMatching
<1> QED
  BY <1>1, <1>2, <1>3 DEF Ids, Order, Size, Walking, FromStart

LEMMA AuditIdsSame ==
    ASSUME AuditIdsInv, UNCHANGED tables
    PROVE  AuditIdsInv'
BY DEF AuditIdsInv, tables

(* A step that returns no row and leaves the boundary where it is. *)
LEMMA WalkSame ==
    ASSUME KnownInv, ApartInv, RepeatsInv, MissesInv,
           UNCHANGED <<tables, ask, got, repeated, history>>, Boundary' = Boundary,
           page' > 1 \/ step' \in {"size", "answered"}
             => page > 1 \/ step \in {"size", "answered"}
    PROVE  /\ KnownInv' /\ ApartInv' /\ RepeatsInv' /\ MissesInv'
           /\ Unseen' = Unseen /\ Misses' = Misses
<1>1. /\ Ids' = Ids /\ Order' = Order /\ nextAlert' = nextAlert
      /\ writes' = writes /\ FromStart' = FromStart
  BY Same
<1>2. UNCHANGED <<ask, got, repeated, steady, left, came, inside, tied>>
  BY DEF history
<1>3. KnownInv'
  BY <1>1, <1>2 DEF KnownInv, Fresh
<1>4. ApartInv'
  BY <1>1, <1>2 DEF ApartInv, Apart
<1>5. Repeats' = Repeats /\ Unseen' = Unseen
  BY <1>1, <1>2 DEF Repeats, RepeatsOf, Unseen, PlaceIn
<1>6. Misses' = Misses
  BY <1>1, <1>5 DEF Misses, MissesOf, PlaceIn
<1> QED
  BY <1>1, <1>2, <1>3, <1>4, <1>5, <1>6 DEF RepeatsInv, MissesInv

(* The SELECT of a page: a row that is before the next boundary and not on  *)
(* the page was before this one already.                                    *)
LEMMA WalkReturn ==
    ASSUME TypeOK, TablesInv, RequestInv, AuditIdsInv, KnownInv, RepeatsInv, MissesInv,
           UNCHANGED <<tables, ask, page, steady, left, came, inside>>,
           step \in {"rows", "entries"}, step' \in {"size", "answered"},
           Return(Ids, Order, Size)
    PROVE  /\ KnownInv' /\ ApartInv' /\ RepeatsInv' /\ MissesInv'
           /\ Ids' = Ids /\ Order' = Order /\ Boundary' = page * Size
           /\ Unseen' \subseteq Ids /\ Apart(Unseen', Order)
<1>1. /\ Ids' = Ids /\ Order' = Order /\ Size' = Size /\ nextAlert' = nextAlert
      /\ writes' = writes /\ FromStart' = FromStart
  BY Same
<1>2. /\ Ids \subseteq Nat /\ IsFiniteSet(Ids) /\ \A a \in Ids : ~Fresh(a)
  BY IdsType
<1>3. /\ Size \in Nat /\ page \in Nat /\ Offset(page, Size) \in Nat /\ page * Size \in Nat
      /\ Offset(page, Size) + Size = page * Size
  BY BoundaryType
<1>4. Boundary = Offset(page, Size) /\ Boundary' = page * Size
  BY <1>1 DEF Boundary
<1>5. PICK s \in Readings(Ids, Order) : rows' = Slice(s, page, Size)
  BY DEF Return
<1>6. /\ got' = got \cup rows' /\ repeated' = repeated \cup (got \cap rows')
      /\ tied' = tied \cup Equals(Ids, Order)
  BY DEF Return
<1>7. rows' \subseteq Ids
  BY <1>2, <1>5, SliceOfRows
<1>8. \A a \in Ids : a \notin Equals(Ids, Order) =>
        (a \in rows' <=> Boundary <= PlaceIn(Ids, Order, a) /\ PlaceIn(Ids, Order, a) < Boundary')
  BY <1>2, <1>3, <1>4, <1>5, OrdersStrict, SlicePlaces
<1>9. \A a \in Ids : PlaceIn(Ids, Order, a) \in Nat
  BY <1>2, PlaceType
<1>10. Boundary \in Nat /\ Boundary' \in Nat /\ Boundary <= Boundary'
  BY <1>3, <1>4
<1>11. Apart(Ids \ Equals(Ids, Order), Order)
  BY DEF Apart, Equals
<1>12. steady' = steady /\ steady \subseteq Ids /\ IsFiniteSet(got) /\ repeated \subseteq got
  BY DEF KnownInv
<1>13. KnownInv'
  <2>1. IsFiniteSet(rows')
    BY <1>2, <1>7, FS_Subset
  <2>2. IsFiniteSet(got')
    BY <1>6, <1>12, <2>1, FS_Union
  <2>3. \A a \in got' \cup steady' : ~Fresh(a)
    BY <1>2, <1>6, <1>7, <1>12 DEF KnownInv
  <2> QED
    BY <1>1, <1>6, <1>12, <2>2, <2>3 DEF KnownInv, Fresh
<1>14. ApartInv'
  <2>1. (got' \ tied') \cap Ids \subseteq Ids \ Equals(Ids, Order)
        /\ steady' \ tied' \subseteq Ids \ Equals(Ids, Order)
    BY <1>6, <1>12
  <2> QED
    BY <1>1, <1>11, <2>1 DEF ApartInv, Apart
<1>15. RepeatsInv'
  <2>1. Repeats' =
          (repeated' \cup {a \in got' \cap Ids : PlaceIn(Ids, Order, a) >= Boundary'}) \ tied'
    BY <1>1 DEF Repeats, RepeatsOf
  <2>2. Repeats' \subseteq Repeats
    <3> SUFFICES ASSUME NEW a \in Repeats'
                 PROVE  a \in Repeats
      OBVIOUS
    <3>1. a \notin tied /\ a \notin Equals(Ids, Order)
      BY <1>6, <2>1
    <3>2. CASE a \in repeated
      BY <3>1, <3>2 DEF Repeats, RepeatsOf
    <3>3. CASE a \in got \cap rows'
      <4>1. a \in Ids /\ PlaceIn(Ids, Order, a) >= Boundary
        BY <1>7, <1>8, <1>9, <1>10, <3>1, <3>3
      <4> QED
        BY <3>1, <3>3, <4>1 DEF Repeats, RepeatsOf
    <3>4. CASE a \in got' \cap Ids /\ PlaceIn(Ids, Order, a) >= Boundary'
      <4>1. a \notin rows'
        BY <1>8, <1>9, <1>10, <3>1, <3>4
      <4>2. a \in got /\ PlaceIn(Ids, Order, a) >= Boundary
        BY <1>6, <1>9, <1>10, <3>4, <4>1
      <4> QED
        BY <3>1, <3>4, <4>2 DEF Repeats, RepeatsOf
    <3> QED
      BY <1>6, <2>1, <3>2, <3>3, <3>4
  <2>3. IsFiniteSet(Repeats)
    BY <1>12, FS_Subset DEF Repeats, RepeatsOf
  <2>4. Cardinality(Repeats') <= Cardinality(Repeats) /\ Cardinality(Repeats) \in Nat
        /\ Cardinality(Repeats') \in Nat
    BY <2>2, <2>3, FS_Subset, FS_CardinalityType
  <2> QED
    BY <2>4 DEF RepeatsInv, TypeOK
<1>16. Unseen' \subseteq Unseen /\ Unseen' \cap Equals(Ids, Order) = {} /\ Unseen \subseteq Ids
       /\ Unseen' \cap rows' = {}
  BY <1>6, <1>12 DEF Unseen
<1>17. MissesInv'
  <2>1. Misses' = {a \in Unseen' : PlaceIn(Ids, Order, a) < Boundary'}
    BY <1>1 DEF Misses, MissesOf
  <2>2. Misses' \subseteq Misses
    <3> SUFFICES ASSUME NEW a \in Misses'
                 PROVE  a \in Misses
      OBVIOUS
    <3>1. a \in Unseen /\ a \in Ids /\ a \notin Equals(Ids, Order) /\ a \notin rows'
          /\ PlaceIn(Ids, Order, a) < Boundary'
      BY <1>16, <2>1
    <3>2. PlaceIn(Ids, Order, a) < Boundary
      BY <1>8, <1>9, <1>10, <3>1
    <3> QED
      BY <3>1, <3>2 DEF Misses, MissesOf
  <2>3. IsFiniteSet(Misses)
    BY <1>2, <1>16, FS_Subset DEF Misses, MissesOf
  <2>4. Cardinality(Misses') <= Cardinality(Misses) /\ Cardinality(Misses) \in Nat
        /\ Cardinality(Misses') \in Nat
    BY <2>2, <2>3, FS_Subset, FS_CardinalityType
  <2> QED
    BY <1>1, <2>4 DEF MissesInv, TypeOK
<1>18. Unseen' \subseteq Ids /\ Apart(Unseen', Order)
  <2>1. Unseen' \subseteq Ids \ Equals(Ids, Order)
    BY <1>16
  <2> QED
    BY <1>11, <2>1 DEF Apart
<1> QED
  BY <1>1, <1>4, <1>13, <1>14, <1>15, <1>17, <1>18

LEMMA Covered ==
    ASSUME NEW count \in Nat, NEW n \in Nat \ {0}, n >= TotalPages(count)
    PROVE  count <= n * PerPage
<1>1. PICK p \in Nat \ {0} : p = PerPage
  BY PagesHoldRows
<1>2. PICK m \in Nat : m = n - 1
  OBVIOUS
<1>3. PICK offset \in Nat : offset = m * p /\ n * p = offset + p
  BY <1>2, Products
<1>4. offset = Offset(n, PerPage) /\ n * PerPage = n * p
  BY <1>1, <1>2, <1>3 DEF Offset
<1>5. RowsOn(n, count) = IF count <= offset THEN 0
                         ELSE IF count <= offset + p THEN count - offset ELSE p
  BY <1>1, <1>4 DEF RowsOn
<1>6. RowsOn(n, count) = 0 \/ RowsOn(n, count) = count - offset
  <2>1. TotalPages(count) \in Nat
    BY PagesAre
  <2>2. (n - 1) * PerPage = offset
    BY <1>1, <1>2, <1>3
  <2> QED
    BY <2>1, <2>2, PagesAre
<1>7. count <= offset + p
  BY <1>5, <1>6
<1> QED
  BY <1>3, <1>4, <1>7

(* Of the rows that are there all the time, those not returned are before    *)
(* the boundary, or beyond it: where there are no more rows than came after  *)
(* the COUNT, if total_pages is reached.                                     *)
LEMMA WalkListRows ==
    ASSUME TypeOK, TablesInv, RequestInv, WalkInv, ListRows
    PROVE  WalkInv'
<1>1. /\ step = "rows" /\ step' = "answered" /\ ask.what = "list"
      /\ UNCHANGED <<tables, ask, page, total, steady, left, came, inside>>
      /\ Return(Ids, Order, Size)
  BY WhatIsAsked DEF ListRows, Goto, Ids, Order, Size
<1>2. AuditIdsInv /\ AuditIdsInv'
  BY <1>1, AuditIdsSame DEF WalkInv
<1>3. KnownInv /\ RepeatsInv /\ MissesInv /\ EndsInv
  BY <1>1 DEF WalkInv, Walking
<1>4. /\ KnownInv' /\ ApartInv' /\ RepeatsInv' /\ MissesInv'
      /\ Ids' = Ids /\ Order' = Order /\ Boundary' = page * Size
      /\ Unseen' \subseteq Ids /\ Apart(Unseen', Order)
  BY <1>1, <1>2, <1>3, WalkReturn
<1>5. ASSUME FromStart, page >= TotalPages(total)
      PROVE  Cardinality(Unseen') <= left + inside
  <2>1. PICK count \in Nat : count = Cardinality(Ids)
    BY <1>2, IdsType
  <2>2. PICK bound \in Nat : bound = page * Size
    BY BoundaryType
  <2>3. count <= total + inside /\ total \in Nat /\ inside \in Nat /\ left \in Nat
    BY <1>1, <1>3, <2>1 DEF EndsInv, TypeOK
  <2>4. total <= bound
    BY <1>1, <1>5, <2>2, <2>3, BoundaryType, Covered DEF Size
  <2> DEFINE Beyond == {a \in Unseen' : bound <= PlaceIn(Ids, Order, a)}
  <2>5. PICK high \in Nat : bound <= high /\ count <= high /\ high - bound <= inside
    <3>1. CASE bound <= count
      BY <2>3, <2>4, <3>1
    <3>2. CASE count < bound
      BY <2>3, <3>2
    <3> QED
      BY <3>1, <3>2
  <2>6. IsFiniteSet(Ids) /\ Strict(Order)
    BY <1>2, IdsType, OrdersStrict
  <2>7. \A a \in Beyond : bound <= PlaceIn(Ids, Order, a) /\ PlaceIn(Ids, Order, a) < high
    <3> SUFFICES ASSUME NEW a \in Beyond
                 PROVE  PlaceIn(Ids, Order, a) < high
      OBVIOUS
    <3>1. PlaceIn(Ids, Order, a) < count
      BY <1>4, <2>1, <2>6, PlaceInside
    <3>2. PlaceIn(Ids, Order, a) \in Nat
      BY <2>6, PlaceType
    <3> QED
      BY <2>5, <3>1, <3>2
  <2>8. Beyond \subseteq Ids /\ Apart(Beyond, Order)
    BY <1>4 DEF Apart
  <2>9. IsFiniteSet(Beyond) /\ Cardinality(Beyond) \in Nat /\ Cardinality(Beyond) <= high - bound
    BY <2>5, <2>6, <2>7, <2>8, CountPlaces
  <2>10. Misses' = {a \in Unseen' : PlaceIn(Ids, Order, a) < bound}
    BY <1>4, <2>2 DEF Misses, MissesOf
  <2>11. IsFiniteSet(Misses')
    BY <1>4, <2>6, <2>10, FS_Subset
  <2>12. Cardinality(Misses') <= left
    BY <1>1, <1>4, <1>5 DEF MissesInv, FromStart
  <2>13. \A a \in Unseen' : PlaceIn(Ids, Order, a) \in Nat
    BY <2>6, PlaceType
  <2>14. Unseen' \subseteq Misses' \cup Beyond
    BY <2>10, <2>13
  <2> HIDE DEF Beyond
  <2>15. /\ Cardinality(Unseen') <= Cardinality(Misses') + Cardinality(Beyond)
         /\ Cardinality(Unseen') \in Nat /\ Cardinality(Misses') \in Nat
    BY <2>9, <2>11, <2>14, Bounded
  <2> QED
    BY <2>3, <2>5, <2>9, <2>12, <2>15
<1>6. EndsInv'
  <2>1. FromStart' = FromStart /\ TotalPages(total)' = TotalPages(total)
    BY <1>1 DEF FromStart, TotalPages
  <2> QED
    BY <1>1, <1>5, <2>1 DEF EndsInv
<1> QED
  BY <1>1, <1>2, <1>4, <1>6 DEF WalkInv, Walking

LEMMA WalkAuditEntries ==
    ASSUME TypeOK, TablesInv, RequestInv, WalkInv, AuditEntries
    PROVE  WalkInv'
<1>1. /\ step = "entries" /\ step' = "size" /\ ask.what = "audit"
      /\ UNCHANGED <<tables, ask, page, total, steady, left, came, inside>>
      /\ Return(Ids, Order, Size)
  BY WhatIsAsked DEF AuditEntries, Goto, Ids, Order, Size
<1>2. AuditIdsInv /\ AuditIdsInv'
  BY <1>1, AuditIdsSame DEF WalkInv
<1>3. KnownInv /\ RepeatsInv /\ MissesInv
  BY <1>1 DEF WalkInv, Walking
<1>4. KnownInv' /\ ApartInv' /\ RepeatsInv' /\ MissesInv'
  BY <1>1, <1>2, <1>3, WalkReturn
<1>5. EndsInv'
  BY <1>1 DEF EndsInv
<1> QED
  BY <1>1, <1>2, <1>4, <1>5 DEF WalkInv, Walking

LEMMA WalkListCount ==
    ASSUME TypeOK, TablesInv, RequestInv, WalkInv, ListCount
    PROVE  WalkInv'
<1>1. /\ step = "count" /\ step' = "rows" /\ ask.what = "list"
      /\ UNCHANGED <<tables, ask, page, got, repeated, history>>
      /\ total' = Cardinality(Ids)
  BY WhatIsAsked DEF ListCount, Goto, Ids
<1>2. AuditIdsInv /\ AuditIdsInv'
  BY <1>1, AuditIdsSame DEF WalkInv
<1>3. KnownInv /\ ApartInv /\ RepeatsInv /\ MissesInv
  BY <1>1 DEF WalkInv, Walking
<1>4. Ids' = Ids /\ Size' = Size
  BY <1>1, Same
<1>5. Boundary' = Boundary
  BY <1>1, <1>4 DEF Boundary, Offset
<1>6. KnownInv' /\ ApartInv' /\ RepeatsInv' /\ MissesInv'
  BY <1>1, <1>3, <1>5, WalkSame
<1>7. EndsInv'
  <2>1. PICK count \in Nat : count = Cardinality(Ids)
    BY <1>2, IdsType
  <2>2. inside' = inside /\ inside \in Nat
    BY <1>1 DEF TypeOK, history
  <2>3. count <= count + inside
    BY <2>2
  <2>4. Cardinality(Ids') <= total' + inside'
    BY <1>1, <1>4, <2>1, <2>2, <2>3
  <2> QED
    BY <1>1, <2>4 DEF EndsInv
<1> QED
  BY <1>1, <1>2, <1>6, <1>7 DEF WalkInv, Walking

(* The COUNT of the whole log is no less than the entries that match: past   *)
(* the last page there is none of them.                                      *)
LEMMA WalkAuditCount ==
    ASSUME TypeOK, TablesInv, RequestInv, WalkInv, AuditCount
    PROVE  WalkInv'
<1>1. /\ step = "size" /\ step' = "answered" /\ ask.what = "audit"
      /\ UNCHANGED <<tables, ask, page, got, repeated, history>>
      /\ total' = Cardinality(audit)
  BY WhatIsAsked DEF AuditCount, Goto
<1>2. AuditIdsInv /\ AuditIdsInv'
  BY <1>1, AuditIdsSame DEF WalkInv
<1>3. KnownInv /\ ApartInv /\ RepeatsInv /\ MissesInv
  BY <1>1 DEF WalkInv, Walking
<1>4. Ids' = Ids /\ Size' = Size
  BY <1>1, Same
<1>5. Boundary' = Boundary /\ Boundary = page * Size
  BY <1>1, <1>4 DEF Boundary
<1>6. KnownInv' /\ ApartInv' /\ RepeatsInv' /\ MissesInv' /\ Unseen' = Unseen
  BY <1>1, <1>3, <1>5, WalkSame
<1>7. ASSUME ~HasNext(page, total')
      PROVE  Cardinality(Unseen) <= left
  <2>1. PICK count \in Nat : count = Cardinality(Ids)
    BY <1>2, IdsType
  <2>2. total' \in Nat /\ count <= total'
    BY <1>1, <1>2, <2>1, IdsType, CountsAreNat
  <2>3. PICK bound \in Nat : bound = page * Size
    BY BoundaryType
  <2>4. total' <= bound
    BY <1>1, <1>7, <2>2, <2>3 DEF HasNext, Size
  <2>5. IsFiniteSet(Ids) /\ Strict(Order) /\ Unseen \subseteq Ids
    BY <1>2, <1>3, IdsType, OrdersStrict DEF KnownInv, Unseen
  <2>6. \A a \in Unseen : PlaceIn(Ids, Order, a) < Boundary
    <3> SUFFICES ASSUME NEW a \in Unseen
                 PROVE  PlaceIn(Ids, Order, a) < bound
      BY <1>5, <2>3
    <3>1. PlaceIn(Ids, Order, a) < count
      BY <2>1, <2>5, PlaceInside
    <3>2. PlaceIn(Ids, Order, a) \in Nat
      BY <2>5, PlaceType
    <3> QED
      BY <2>2, <2>4, <3>1, <3>2
  <2>7. Misses = Unseen
    BY <2>6 DEF Misses, MissesOf
  <2> QED
    BY <1>1, <1>3, <2>7 DEF MissesInv, FromStart
<1>8. EndsInv'
  <2>1. HasNext(page, total)' = HasNext(page, total') /\ left' = left
    BY <1>1 DEF HasNext, history
  <2> QED
    BY <1>1, <1>6, <1>7, <2>1 DEF EndsInv
<1> QED
  BY <1>1, <1>2, <1>6, <1>8 DEF WalkInv, Walking

LEMMA WalkNextPage ==
    ASSUME TypeOK, TablesInv, RequestInv, WalkInv, ListNextPage \/ AuditNextPage
    PROVE  WalkInv'
<1>1. /\ step = "answered" /\ step' \in {"count", "entries"} /\ Walking /\ page' = page + 1
      /\ UNCHANGED <<tables, ask, got, repeated, history>>
  BY DEF ListNextPage, AuditNextPage, Turn, Walking
<1>2. AuditIdsInv'
  BY <1>1, AuditIdsSame DEF WalkInv
<1>3. KnownInv /\ ApartInv /\ RepeatsInv /\ MissesInv
  BY <1>1 DEF WalkInv
<1>4. Size' = Size
  BY <1>1, Same
<1>5. Boundary = page * Size /\ Boundary' = Offset(page + 1, Size)
  BY <1>1, <1>4 DEF Boundary
<1>6. Boundary' = Boundary
  BY <1>5, BoundaryType
<1>7. KnownInv' /\ ApartInv' /\ RepeatsInv' /\ MissesInv'
  BY <1>1, <1>3, <1>6, WalkSame
<1>8. EndsInv'
  BY <1>1 DEF EndsInv
<1> QED
  BY <1>1, <1>2, <1>7, <1>8 DEF WalkInv, Walking

LEMMA NotFresh ==
    ASSUME TypeOK, TablesInv, AuditIdsInv
    PROVE  \A q : /\ \A a \in Matching(alerts, q) : ~(a >= nextAlert)
                  /\ \A a \in AuditMatching(audit, q) : ~(a > writes)
<1>1. \A a \in Stays(alerts) : ~(a >= nextAlert)
  BY DEF TablesInv, Stays, NoRow
<1>2. \A q : Matching(alerts, q) \subseteq Stays(alerts)
  BY DEF Matching
<1>3. \A r \in audit : r.id <= writes /\ r.id \in Nat /\ writes \in Nat
  BY ReadsBounds DEF AuditIdsInv, TypeOK
<1>4. \A q : \A a \in AuditMatching(audit, q) : \E r \in audit : r.id = a
  BY DEF AuditMatching
<1> QED
  BY <1>1, <1>2, <1>3, <1>4

LEMMA FirstPage ==
    ASSUME NEW size \in Nat
    PROVE  Offset(1, size) = 0
<1>1. PICK m \in Nat : m = 1 - 1
  OBVIOUS
<1>2. m * size = 0
  BY <1>1, Products
<1> QED
  BY <1>1, <1>2 DEF Offset

(* A walk begins: nothing has been returned, and there is no earlier page    *)
(* unless the client skips some.                                             *)
LEMMA WalkBegin ==
    ASSUME TypeOK, TablesInv, WalkInv, TypeOK', TablesInv', RequestInv', AskList \/ AskAudit
    PROVE  WalkInv'
<1>1. PICK q \in Lists \cup AuditPages :
        /\ q.what = "list" \/ (q.what = "audit" /\ page' = 1)
        /\ q.what = "list" => page' = q.first
        /\ ask' = q /\ step' \in {"count", "entries"} /\ NoResponse
        /\ steady' = IF q.what = "list" THEN Matching(alerts, q) ELSE AuditMatching(audit, q)
        /\ UNCHANGED <<clock, tables>>
  <2>1. CASE AskList
    <3>1. PICK q \in Lists : Begin(q, "count", q.first)
      BY <2>1 DEF AskList
    <3>2. q.what = "list"
      BY ListsAreLegal
    <3> QED
      BY <3>1, <3>2 DEF Begin
  <2>2. CASE AskAudit
    <3>1. PICK q \in AuditPages : Begin(q, "entries", 1)
      BY <2>2 DEF AskAudit
    <3>2. q.what = "audit"
      BY DEF AuditPages
    <3> QED
      BY <3>1, <3>2 DEF Begin
  <2> QED
    BY <2>1, <2>2
<1>2. AuditIdsInv /\ AuditIdsInv'
  BY <1>1, AuditIdsSame DEF WalkInv
<1>3. got' = {} /\ repeated' = {}
  BY <1>1 DEF NoResponse
<1>4. /\ alerts' = alerts /\ audit' = audit /\ nextAlert' = nextAlert /\ writes' = writes
  BY <1>1 DEF tables
<1>5. Ids' = steady'
  <2>1. Matching(alerts, ask)' = Matching(alerts, q)
    BY <1>1, <1>4 DEF Matching, Stays
  <2>2. AuditMatching(audit, ask)' = AuditMatching(audit, q)
    BY <1>1, <1>4 DEF AuditMatching
  <2> QED
    BY <1>1, <2>1, <2>2 DEF Ids
<1>6. KnownInv'
  <2>1. \A a \in steady' : IF q.what = "list" THEN ~(a >= nextAlert) ELSE ~(a > writes)
    BY <1>1, <1>2, NotFresh
  <2>2. \A a \in steady' : ~Fresh(a)'
    BY <1>1, <1>4, <2>1 DEF Fresh
  <2> QED
    BY <1>3, <1>5, <2>2, FS_EmptySet DEF KnownInv
<1>7. FromStart' => page' = 1
  BY <1>1 DEF FromStart
<1>8. ApartInv'
  BY <1>1, <1>3, <1>7 DEF ApartInv, Apart
<1>9. RepeatsInv'
  <2>1. Repeats' = {}
    BY <1>3 DEF Repeats, RepeatsOf
  <2> QED
    BY <2>1, FS_EmptySet DEF RepeatsInv, TypeOK
<1>10. ASSUME FromStart'
       PROVE  Cardinality(Misses') <= left'
  <2>1. PICK size \in Nat : size = Size'
    BY PagesHoldRows DEF Size
  <2>2. Offset(1, size) = 0
    BY <2>1, FirstPage
  <2>3. Boundary' = 0
    BY <1>1, <1>7, <1>10, <2>1, <2>2 DEF Boundary
  <2>4. IsFiniteSet(Ids')
    <3>1. \A t : IsFiniteSet(Matching(alerts, t)) /\ IsFiniteSet(AuditMatching(audit, t))
      BY CountsAreNat
    <3> QED
      BY <1>1, <1>5, <3>1
  <2>5. \A a : PlaceIn(Ids', Order', a) \in Nat
    BY <2>4, PlaceType
  <2>6. Misses' = {}
    BY <2>3, <2>5 DEF Misses, MissesOf
  <2> QED
    BY <2>6, FS_EmptySet DEF TypeOK
<1>11. MissesInv' /\ EndsInv'
  BY <1>1, <1>10 DEF MissesInv, EndsInv
<1> QED
  BY <1>2, <1>3, <1>6, <1>8, <1>9, <1>11 DEF WalkInv

-----------------------------------------------------------------------------
(* The commits of others *)

LEMMA CommitHistory ==
    ASSUME TypeOK, TablesInv, RequestInv, Commit, Walking
    PROVE  /\ steady' = steady \cap Ids' /\ tied' = tied
           /\ left' = left + Cardinality(Ids \ Ids')
           /\ came' = came + Cardinality(Ids' \ Ids)
           /\ inside' = IF step = "rows" THEN inside + Cardinality(Ids' \ Ids) ELSE inside
<1>1. PICK touched : Touches(touched)
  BY Observed
<1>2. /\ Observe(alerts', audit', touched) /\ ask' = ask /\ step # "idle"
  BY <1>1, WhatIsAsked DEF Touches, Walking
<1>3. Watched(alerts, audit) = Ids
  BY DEF Watched, Ids, Walking
<1>4. Watched(alerts', audit') = Ids'
  BY <1>2 DEF Watched, Ids, Walking, Matching, Stays, AuditMatching
<1> QED
  BY <1>2, <1>3, <1>4 DEF Observe

LEMMA WalkCommit ==
    ASSUME TypeOK, TablesInv, RequestInv, WalkInv, Commit, Walking
    PROVE  WalkInv'
<1>1. /\ UNCHANGED <<ask, step, page, total, got, repeated>> /\ TypeOK' /\ TablesInv'
  BY Observed DEF response
<1>2. /\ AuditIdsInv /\ AuditIdsInv' /\ nextAlert' \in Nat /\ nextAlert' >= nextAlert
      /\ writes' = writes + 1
  BY RowsKept DEF WalkInv
<1>3. KnownInv /\ ApartInv /\ RepeatsInv /\ MissesInv /\ EndsInv
  BY DEF WalkInv
<1>4. /\ steady' = steady \cap Ids' /\ tied' = tied
      /\ left' = left + Cardinality(Ids \ Ids')
      /\ came' = came + Cardinality(Ids' \ Ids)
      /\ inside' = IF step = "rows" THEN inside + Cardinality(Ids' \ Ids) ELSE inside
  BY CommitHistory
<1>5. (\A a \in Ids' \ Ids : Fresh(a)) /\ Agree(Ids, Ids', Order, Order')
  BY <1>1, <1>2, NewRows
<1>6. Size' = Size /\ FromStart' = FromStart /\ Boundary' = Boundary
  BY <1>1 DEF Size, FromStart, Boundary, Offset
<1>7. /\ IsFiniteSet(Ids) /\ IsFiniteSet(Ids') /\ Strict(Order)
  <2>1. audit' \subseteq AuditRows /\ IsFiniteSet(audit')
    BY <1>1 DEF TypeOK, AuditRows, TablesInv
  <2>2. IsFiniteSet(AuditMatching(audit', ask')) /\ IsFiniteSet(Matching(alerts', ask'))
    BY <2>1, AuditMatchingType, MatchingType, AlertsFinite
  <2>3. Ids' \in {AuditMatching(audit', ask'), Matching(alerts', ask')}
    BY DEF Ids, Matching, Stays, AuditMatching
  <2> QED
    BY <1>2, <2>2, <2>3, IdsType, OrdersStrict
<1>8. Boundary \in Nat
  BY BoundaryType
<1>9. left \in Nat /\ came \in Nat /\ inside \in Nat /\ total \in Nat
  BY DEF TypeOK
<1>10. got \cap Ids' \subseteq Ids
  BY <1>3, <1>5 DEF KnownInv
<1>11. KnownInv'
  <2>1. \A a \in got \cup steady' : a \in Nat /\ ~Fresh(a)
    BY <1>3, <1>4 DEF KnownInv, TypeOK
  <2>2. nextAlert \in Nat /\ writes \in Nat
    BY ReadsBounds DEF TypeOK
  <2>3. \A a \in got \cup steady' : ~Fresh(a)'
    BY <1>1, <1>2, <2>1, <2>2 DEF Fresh
  <2> QED
    BY <1>1, <1>3, <1>4, <2>3 DEF KnownInv
<1>12. ApartInv'
  <2>1. Apart((got \ tied) \cap Ids', Order')
    BY <1>3, <1>5, <1>10 DEF ApartInv, Apart, Agree
  <2>2. Apart(steady \ tied, Order) => Apart(steady' \ tied, Order')
    BY <1>3, <1>4, <1>5 DEF KnownInv, Apart, Agree
  <2> QED
    BY <1>1, <1>3, <1>4, <1>6, <2>1, <2>2 DEF ApartInv
<1>13. RepeatsInv'
  <2>1. Repeats = RepeatsOf(Ids, Order, got, repeated, tied, Boundary)
    BY DEF Repeats
  <2>2. Repeats' = RepeatsOf(Ids', Order', got, repeated, tied, Boundary)
    BY <1>1, <1>4, <1>6 DEF Repeats
  <2>3. /\ Cardinality(Repeats') <= Cardinality(Repeats) + Cardinality(Ids' \ Ids)
        /\ Cardinality(Repeats') \in Nat /\ Cardinality(Repeats) \in Nat
        /\ Cardinality(Ids' \ Ids) \in Nat
    <3>1. /\ IsFiniteSet(got) /\ repeated \subseteq got /\ Apart((got \ tied) \cap Ids, Order)
      BY <1>3 DEF KnownInv, ApartInv
    <3> QED
      BY <1>5, <1>7, <1>8, <1>10, <2>1, <2>2, <3>1, RepeatsShift
  <2> QED
    BY <1>3, <1>4, <1>9, <2>3 DEF RepeatsInv
<1>14. Unseen' \subseteq Unseen \cap Ids' /\ Unseen \subseteq Ids
  BY <1>1, <1>3, <1>4 DEF Unseen, KnownInv
<1>15. Cardinality(Ids \ Ids') \in Nat /\ Cardinality(Ids' \ Ids) \in Nat
  BY <1>7, FS_Difference, FS_CardinalityType
<1>16. MissesInv'
  <2> SUFFICES ASSUME FromStart
               PROVE  Cardinality(Misses') <= left'
    BY <1>6 DEF MissesInv
  <2>1. Misses' = {a \in Unseen' : PlaceIn(Ids', Order', a) < Boundary}
    BY <1>6 DEF Misses, MissesOf
  <2>2. CASE page > 1 \/ step \in {"size", "answered"}
    <3>1. Apart(Unseen, Order)
      BY <1>3, <2>2 DEF ApartInv, Apart, Unseen
    <3>2. Misses = MissesOf(Ids, Order, Unseen, Boundary)
          /\ Misses' = MissesOf(Ids', Order', Unseen', Boundary)
      BY <1>6 DEF Misses
    <3>3. /\ Cardinality(Misses') <= Cardinality(Misses) + Cardinality(Ids \ Ids')
          /\ Cardinality(Misses') \in Nat /\ Cardinality(Misses) \in Nat
      BY <1>5, <1>7, <1>8, <1>14, <3>1, <3>2, MissesShift
    <3> QED
      BY <1>3, <1>4, <1>9, <1>15, <3>3 DEF MissesInv
  <2>3. CASE ~(page > 1 \/ step \in {"size", "answered"})
    <3>1. page = 1 /\ Offset(page, Size) = 0
      BY <2>3, BoundaryType
    <3>2. step \in {"count", "rows", "entries"}
      BY <2>3, StatementsAre DEF RequestInv, Walking
    <3>3. Boundary = 0
      BY <3>1, <3>2 DEF Boundary
    <3>4. \A a : PlaceIn(Ids', Order', a) \in Nat
      BY <1>7, PlaceType
    <3>5. Misses' = {}
      BY <2>1, <3>3, <3>4
    <3>6. left' \in Nat
      BY <1>4, <1>9, <1>15
    <3> QED
      BY <3>5, <3>6, FS_EmptySet
  <2> QED
    BY <2>2, <2>3
<1>17. EndsInv'
  <2>1. ASSUME step = "rows"
        PROVE  Cardinality(Ids') <= total + inside'
    <3>1. /\ Cardinality(Ids') <= Cardinality(Ids) + Cardinality(Ids' \ Ids)
          /\ Cardinality(Ids') \in Nat /\ Cardinality(Ids) \in Nat
      <4>1. IsFiniteSet(Ids' \ Ids) /\ Ids' \subseteq Ids \cup (Ids' \ Ids)
        BY <1>7, FS_Difference
      <4> QED
        BY <1>7, <4>1, Bounded
    <3>2. Cardinality(Ids) <= total + inside
      BY <1>3, <2>1 DEF EndsInv
    <3> QED
      BY <1>4, <1>9, <1>15, <2>1, <3>1, <3>2
  <2>2. Cardinality(Unseen') <= Cardinality(Unseen) /\ Cardinality(Unseen') \in Nat
        /\ Cardinality(Unseen) \in Nat
    <3>1. IsFiniteSet(Unseen)
      BY <1>7, <1>14, FS_Subset
    <3> QED
      BY <1>14, <3>1, FS_Subset, FS_CardinalityType
  <2>3. ASSUME step = "answered"
        PROVE  inside' = inside /\ left' >= left /\ left' \in Nat
    BY <1>4, <1>9, <1>15, <2>3
  <2>4. ASSUME step = "answered", Cardinality(Unseen) <= left + inside
        PROVE  Cardinality(Unseen') <= left' + inside'
    BY <1>9, <2>2, <2>3, <2>4
  <2>5. ASSUME step = "answered", Cardinality(Unseen) <= left
        PROVE  Cardinality(Unseen') <= left'
    BY <1>9, <2>2, <2>3, <2>5
  <2>6. TotalPages(total)' = TotalPages(total) /\ HasNext(page, total)' = HasNext(page, total)
    BY <1>1 DEF TotalPages, HasNext
  <2> QED
    BY <1>1, <1>3, <1>6, <2>1, <2>4, <2>5, <2>6 DEF EndsInv
<1> QED
  BY <1>1, <1>2, <1>11, <1>12, <1>13, <1>16, <1>17 DEF WalkInv, Walking

-----------------------------------------------------------------------------
(* The theorems *)

LEMMA WalkReader ==
    ASSUME ReadsInv, WalkInv, Reader
    PROVE  WalkInv'
<1>1. TypeOK /\ TablesInv /\ RequestInv
  BY DEF ReadsInv
<1>2. TypeOK' /\ TablesInv' /\ RequestInv' /\ UNCHANGED <<clock, tables>>
  BY ReaderType
<1>3. AuditIdsInv'
  BY <1>2, AuditIdsSame DEF WalkInv
<1>4. CASE AskList \/ AskAudit
  BY <1>1, <1>2, <1>4, WalkBegin
<1>5. CASE ListCount
  BY <1>1, <1>5, WalkListCount
<1>6. CASE ListRows
  BY <1>1, <1>6, WalkListRows
<1>7. CASE ListNextPage \/ AuditNextPage
  BY <1>1, <1>7, WalkNextPage
<1>8. CASE AuditEntries
  BY <1>1, <1>8, WalkAuditEntries
<1>9. CASE AuditCount
  BY <1>1, <1>9, WalkAuditCount
<1>10. CASE Leave
  <2>1. ask'.what = "none" /\ repeated' = {}
    BY <1>10 DEF Leave, NoRequest, NoResponse
  <2> QED
    BY <1>3, <2>1 DEF WalkInv, Walking
<1>11. CASE AskStats \/ AskLayer
  <2>1. ask'.what \in {"stats", "layer"} /\ repeated' = {}
    BY <1>11 DEF AskStats, AskLayer, Begin, NoResponse
  <2> QED
    BY <1>3, <2>1 DEF WalkInv, Walking
<1>12. CASE \/ StatsTotal \/ StatsOpen \/ StatsBySeverity \/ StatsEscalation \/ StatsMttr
            \/ StatsSla \/ ComputeSla \/ ExportLayer \/ ScoreGroup \/ LayerScored
  <2>1. ask.what \in {"stats", "layer"} /\ ask' = ask /\ repeated' = repeated
    BY <1>1, <1>12, WhatIsAsked
       DEF Goto, StatsTotal, StatsOpen, StatsBySeverity, StatsEscalation, StatsMttr, StatsSla,
           ComputeSla, ExportLayer, ScoreGroup, LayerScored
  <2> QED
    BY <1>3, <2>1 DEF WalkInv, Walking
<1> QED
  BY <1>4, <1>5, <1>6, <1>7, <1>8, <1>9, <1>10, <1>11, <1>12 DEF Reader

(* Time passes, or nothing happens. *)
LEMMA WalkWaits ==
    ASSUME WalkInv, UNCHANGED <<tables, ask, step, response, history>>
    PROVE  WalkInv'
<1>1. UNCHANGED <<page, total, got, repeated>>
  BY DEF response
<1>2. AuditIdsInv'
  BY AuditIdsSame DEF WalkInv
<1>3. Walking' = Walking /\ Ids' = Ids /\ Size' = Size /\ FromStart' = FromStart
  BY Same
<1>4. Boundary' = Boundary
  BY <1>1, <1>3 DEF Boundary, Offset
<1>5. ASSUME Walking
      PROVE  KnownInv' /\ ApartInv' /\ RepeatsInv' /\ MissesInv' /\ EndsInv'
  <2>1. KnownInv /\ ApartInv /\ RepeatsInv /\ MissesInv /\ EndsInv
    BY <1>5 DEF WalkInv
  <2>2. KnownInv' /\ ApartInv' /\ RepeatsInv' /\ MissesInv' /\ Unseen' = Unseen
    BY <1>1, <1>4, <2>1, WalkSame
  <2>3. TotalPages(total)' = TotalPages(total) /\ HasNext(page, total)' = HasNext(page, total)
    BY <1>1 DEF TotalPages, HasNext
  <2>4. EndsInv'
    BY <1>1, <1>3, <2>1, <2>2, <2>3 DEF EndsInv, history
  <2> QED
    BY <2>2, <2>4
<1> QED
  BY <1>1, <1>2, <1>3, <1>5 DEF WalkInv

LEMMA WalkInductive ==
    ASSUME ReadsInv, WalkInv, [Next]_vars
    PROVE  WalkInv'
<1>1. TypeOK /\ TablesInv /\ RequestInv
  BY DEF ReadsInv
<1>2. CASE Reader
  BY <1>2, WalkReader
<1>3. CASE Commit
  <2>1. CASE Walking
    BY <1>1, <1>3, <2>1, WalkCommit
  <2>2. CASE ~Walking
    <3>1. AuditIdsInv' /\ ask' = ask /\ repeated' = repeated
      BY <1>1, <1>3, RowsKept, Observed DEF WalkInv, response
    <3> QED
      BY <2>2, <3>1 DEF WalkInv, Walking
  <2> QED
    BY <2>1, <2>2
<1>4. CASE Tick \/ UNCHANGED vars
  BY <1>4, WalkWaits DEF Tick, vars
<1> QED
  BY <1>2, <1>3, <1>4 DEF Next, Commit

LEMMA WalkInvariant == Spec => [](ReadsInv /\ WalkInv)
<1>1. Init => WalkInv
  BY DEF Init, NoRequest, WalkInv, Walking, AuditIdsInv
<1>2. ReadsInv /\ WalkInv /\ [Next]_vars => WalkInv'
  BY WalkInductive
<1> QED
  BY <1>1, <1>2, ReadsInvariant, PTL DEF Spec

LEMMA RepeatsMean ==
    ASSUME TypeOK, RequestInv, WalkInv
    PROVE  WalkRepeatsNothing
<1> SUFFICES ASSUME step = "answered"
             PROVE  Cardinality(repeated \ tied) <= came
  BY DEF WalkRepeatsNothing
<1>1. came \in Nat
  BY DEF TypeOK
<1>2. CASE Walking
  <2>1. IsFiniteSet(got) /\ repeated \subseteq got
    BY <1>2 DEF WalkInv, KnownInv
  <2>2. repeated \ tied \subseteq Repeats /\ Repeats \subseteq got
    BY <2>1 DEF Repeats, RepeatsOf
  <2>3. /\ Cardinality(repeated \ tied) <= Cardinality(Repeats)
        /\ Cardinality(repeated \ tied) \in Nat /\ Cardinality(Repeats) \in Nat
    <3>1. IsFiniteSet(Repeats)
      BY <2>1, <2>2, FS_Subset
    <3> QED
      BY <2>2, <3>1, FS_Subset, FS_CardinalityType
  <2> QED
    BY <1>1, <1>2, <2>3 DEF WalkInv, RepeatsInv
<1>3. CASE ~Walking
  BY <1>1, <1>3, FS_EmptySet DEF WalkInv
<1> QED
  BY <1>2, <1>3

(* An API client that walks through /api/alerts or /api/alerts/all, or an    *)
(* admin who leafs through the audit log, sees a row twice only if another   *)
(* row entered the list meanwhile, and no more rows twice than entered: for  *)
(* every per_page, and apart from rows that are equal in the ORDER BY.       *)
THEOREM WalksRepeatOnlyWhatCame == Spec => []WalkRepeatsNothing
<1>1. ReadsInv /\ WalkInv => WalkRepeatsNothing
  BY RepeatsMean DEF ReadsInv
<1> QED
  BY <1>1, WalkInvariant, PTL

(* The client that asks for the pages of a list from the first one until     *)
(* total_pages misses no more of the rows that are in it all the time than   *)
(* rows left the list, or entered it between a COUNT and its SELECT.         *)
THEOREM WalksMissOnlyWhatMoved == Spec => []WalkMissesNothing
<1>1. ReadsInv /\ WalkInv => WalkMissesNothing
  BY DEF WalkInv, Walking, EndsInv, FromStart, Unseen, WalkMissesNothing, WalkOver, Answered
<1> QED
  BY <1>1, WalkInvariant, PTL

(* The admin who follows "Next" until audit.html shows none has seen every   *)
(* entry of the log, or of a search in it, that was there all the time, but  *)
(* for as many as a purge took away: although the COUNT ignores the search.  *)
THEOREM AuditIsReached == Spec => []AuditReachesAll
<1>1. ReadsInv /\ WalkInv => AuditReachesAll
  BY DEF WalkInv, Walking, EndsInv, Unseen, AuditReachesAll, Answered
<1> QED
  BY <1>1, WalkInvariant, PTL

=============================================================================
