---------------------------- MODULE SseHubProofs ----------------------------
(***************************************************************************)
(* Proofs about SseHub for any number of publishers, streams and events and *)
(* any queue size.                                                          *)
(*                                                                          *)
(* The events of a stream are spread over what its browser has received,    *)
(* the one its generator holds and its queue.  The invariant says of each   *)
(* of the three parts which numbers it holds, and how far the whole reaches *)
(* while a publisher is half-way through the list.                          *)
(***************************************************************************)
EXTENDS SseHub, TLAPS

-----------------------------------------------------------------------------
(* seq holds the events from + 1, from + 2, ... *)
InOrder(seq, from) == \A i \in 1..Len(seq) : seq[i] = from + i

LEMMA AppendInOrder ==
    ASSUME NEW seq \in Seq(Nat), NEW from \in Nat, NEW e,
           InOrder(seq, from), e = from + Len(seq) + 1
    PROVE  /\ Append(seq, e) \in Seq(Nat)
           /\ Len(Append(seq, e)) = Len(seq) + 1
           /\ InOrder(Append(seq, e), from)
<1>1. e \in Nat /\ Len(seq) \in Nat
  OBVIOUS
<1>2. Append(seq, e) \in Seq(Nat) /\ Len(Append(seq, e)) = Len(seq) + 1
  BY <1>1
<1>3. ASSUME NEW i \in 1..(Len(seq) + 1)
      PROVE  Append(seq, e)[i] = from + i
  <2>1. CASE i = Len(seq) + 1
    BY <1>1, <2>1
  <2>2. CASE i # Len(seq) + 1
    <3>1. i \in 1..Len(seq)
      BY <1>1, <2>2
    <3>2. Append(seq, e)[i] = seq[i]
      BY <1>1, <3>1
    <3> QED
      BY <3>1, <3>2 DEF InOrder
  <2> QED
    BY <2>1, <2>2
<1> QED
  BY <1>2, <1>3 DEF InOrder

LEMMA TailInOrder ==
    ASSUME NEW seq \in Seq(Nat), NEW from \in Nat, InOrder(seq, from), seq # <<>>
    PROVE  /\ Head(seq) = from + 1
           /\ Tail(seq) \in Seq(Nat)
           /\ Len(Tail(seq)) = Len(seq) - 1
           /\ Len(seq) > 0
           /\ InOrder(Tail(seq), from + 1)
<1>1. Len(seq) \in Nat /\ Len(seq) > 0
  OBVIOUS
<1>2. Tail(seq) \in Seq(Nat) /\ Len(Tail(seq)) = Len(seq) - 1
  BY <1>1
<1>3. Head(seq) = from + 1
  BY <1>1 DEF InOrder
<1>4. ASSUME NEW i \in 1..(Len(seq) - 1)
      PROVE  Tail(seq)[i] = (from + 1) + i
  <2>1. Tail(seq)[i] = seq[i + 1]
    BY <1>1
  <2>2. i + 1 \in 1..Len(seq)
    BY <1>1
  <2> QED
    BY <2>1, <2>2 DEF InOrder
<1> QED
  BY <1>1, <1>2, <1>3, <1>4 DEF InOrder

(* Two sequences that follow each other in order make one. *)
LEMMA ConcatInOrder ==
    ASSUME NEW a \in Seq(Nat), NEW b \in Seq(Nat), NEW from \in Nat,
           InOrder(a, from), InOrder(b, from + Len(a))
    PROVE  /\ a \o b \in Seq(Nat)
           /\ Len(a \o b) = Len(a) + Len(b)
           /\ InOrder(a \o b, from)
<1>1. Len(a) \in Nat /\ Len(b) \in Nat
  OBVIOUS
<1>2. a \o b \in Seq(Nat) /\ Len(a \o b) = Len(a) + Len(b)
  OBVIOUS
<1>3. ASSUME NEW i \in 1..(Len(a) + Len(b))
      PROVE  (a \o b)[i] = from + i
  <2>1. CASE i <= Len(a)
    <3>1. i \in 1..Len(a)
      BY <1>1, <2>1
    <3>2. (a \o b)[i] = a[i]
      BY <1>1, <3>1
    <3> QED
      BY <3>1, <3>2 DEF InOrder
  <2>2. CASE ~(i <= Len(a))
    <3>1. i - Len(a) \in 1..Len(b)
      BY <1>1, <2>2
    <3>2. (a \o b)[i] = b[i - Len(a)]
      BY <1>1, <3>1, <2>2
    <3>3. b[i - Len(a)] = (from + Len(a)) + (i - Len(a))
      BY <3>1 DEF InOrder
    <3> QED
      BY <1>1, <3>1, <3>2, <3>3
  <2> QED
    BY <2>1, <2>2
<1> QED
  BY <1>2, <1>3 DEF InOrder

-----------------------------------------------------------------------------
(* The lock: whoever is in the loops holds it, and nothing is left over     *)
(* when it is free.                                                         *)
LockInv ==
    /\ \A p \in Publishers : thread[p] = "putting" => lock = p
    /\ lock = Nobody => todo = {} /\ dead = {}

ListInv ==
    /\ todo \subseteq subscribers
    /\ dead \subseteq subscribers
    /\ todo \cap dead = {}
    /\ \A s \in subscribers : stream[s] \in {"waiting", "yielding", "leaving"}
    /\ \A s \in Streams : event[s] # 0 => stream[s] = "yielding"

(* How many events a stream has taken out of its queue, and how many it has *)
(* been given.                                                              *)
Held(s) == Len(received[s]) + (IF event[s] = 0 THEN 0 ELSE 1)
Given(s) == Held(s) + Len(queue[s])

PartsInOrder(s) ==
    /\ InOrder(received[s], joined[s])
    /\ event[s] # 0 => event[s] = joined[s] + Len(received[s]) + 1
    /\ InOrder(queue[s], joined[s] + Held(s))

Reach(s) ==
    /\ s \in todo \cup dead => joined[s] + Given(s) = published - 1
    /\ s \in subscribers \ (todo \cup dead) => joined[s] + Given(s) = published
    /\ s \in dead => behind[s] > MaxSize
    /\ s \notin subscribers => behind[s] > MaxSize /\ joined[s] + Given(s) < published

ShareInv == \A s \in Open : PartsInOrder(s) /\ Reach(s)

HubInv == TypeOK /\ LockInv /\ ListInv /\ ShareInv

-----------------------------------------------------------------------------
LEMMA InitHolds == Init => HubInv
<1> SUFFICES ASSUME Init
             PROVE  HubInv
  OBVIOUS
<1>1. TypeOK
  BY QueueHoldsOne DEF Init, TypeOK
<1>2. LockInv /\ ListInv
  BY NobodyIsNoPublisher DEF Init, LockInv, ListInv
<1>3. ShareInv
  BY DEF Init, ShareInv, Open
<1> QED
  BY <1>1, <1>2, <1>3 DEF HubInv

(* The parts of the state that a publisher's loop leaves alone. *)
LEMMA TypeStep == TypeOK /\ ListInv /\ [Next]_vars => TypeOK'
<1> SUFFICES ASSUME TypeOK, ListInv, [Next]_vars
             PROVE  TypeOK'
  OBVIOUS
<1> USE QueueHoldsOne DEF TypeOK, hubVars, streamVars
<1>1. ASSUME NEW p \in Publishers, Call(p)
      PROVE  TypeOK'
  BY <1>1 DEF Call
<1>2. ASSUME NEW p \in Publishers, Acquire(p)
      PROVE  TypeOK'
  BY <1>2 DEF Acquire
<1>3. ASSUME NEW p \in Publishers, Put(p)
      PROVE  TypeOK'
  <2>1. PICK s \in todo :
          /\ todo' = todo \ {s}
          /\ IF HasRoom(s)
               THEN /\ queue' = [queue EXCEPT ![s] = Append(queue[s], published)]
                    /\ dead' = dead /\ behind' = behind
               ELSE /\ dead' = dead \cup {s} /\ queue' = queue
                    /\ behind' = [behind EXCEPT ![s] =
                                     published - joined[s] - Len(received[s])]
    BY <1>3 DEF Put
  <2>2. s \in Streams /\ queue[s] \in Seq(Nat) /\ Len(queue[s]) \in Nat
    OBVIOUS
  <2>3. Append(queue[s], published) \in Seq(Nat)
        /\ Len(Append(queue[s], published)) = Len(queue[s]) + 1
    BY <2>2
  <2>4. HasRoom(s) => Len(Append(queue[s], published)) <= MaxSize
    BY <2>2, <2>3 DEF HasRoom
  <2>5. queue' \in [Streams -> Seq(Nat)] /\ \A t \in Streams : Len(queue'[t]) <= MaxSize
    BY <2>1, <2>2, <2>3, <2>4
  <2>6. published - joined[s] - Len(received[s]) \in Int
    <3>1. received[s] \in Seq(Nat) /\ joined[s] \in Nat /\ published \in Nat
      BY <2>2
    <3>2. Len(received[s]) \in Nat
      BY <3>1
    <3> QED
      BY <3>1, <3>2
  <2>7. behind' \in [Streams -> Int]
    BY <2>1, <2>6
  <2> QED
    BY <1>3, <2>1, <2>2, <2>5, <2>7 DEF Put
<1>4. ASSUME NEW p \in Publishers, Drop(p)
      PROVE  TypeOK'
  BY <1>4 DEF Drop
<1>5. ASSUME NEW p \in Publishers, Release(p)
      PROVE  TypeOK'
  BY <1>5 DEF Release
<1>6. ASSUME NEW s \in Streams, Connect(s)
      PROVE  TypeOK'
  BY <1>6 DEF Connect
<1>7. ASSUME NEW s \in Streams, Subscribe(s)
      PROVE  TypeOK'
  BY <1>7 DEF Subscribe
<1>8. ASSUME NEW s \in Streams, Get(s)
      PROVE  TypeOK'
  <2>1. queue[s] \in Seq(Nat) /\ Len(queue[s]) \in Nat /\ Len(queue[s]) > 0
    BY <1>8 DEF Get
  <2>2. Head(queue[s]) \in Nat /\ Tail(queue[s]) \in Seq(Nat)
        /\ Len(Tail(queue[s])) = Len(queue[s]) - 1
    BY <2>1
  <2>3. queue' \in [Streams -> Seq(Nat)] /\ \A t \in Streams : Len(queue'[t]) <= MaxSize
    BY <1>8, <2>1, <2>2 DEF Get
  <2> QED
    BY <1>8, <2>2, <2>3 DEF Get
<1>9. ASSUME NEW s \in Streams, Keepalive(s)
      PROVE  TypeOK'
  BY <1>9 DEF Keepalive
<1>10. ASSUME NEW s \in Streams, Written(s)
       PROVE  TypeOK'
  <2>1. Append(received[s], event[s]) \in Seq(Nat)
    OBVIOUS
  <2> QED
    BY <1>10, <2>1 DEF Written
<1>11. ASSUME NEW s \in Streams, Disconnect(s)
       PROVE  TypeOK'
  BY <1>11 DEF Disconnect
<1>12. ASSUME NEW s \in Streams, GeneratorExit(s)
       PROVE  TypeOK'
  BY <1>12 DEF GeneratorExit
<1>13. ASSUME NEW s \in Streams, Unsubscribe(s)
       PROVE  TypeOK'
  BY <1>13 DEF Unsubscribe, Forget
<1>14. CASE UNCHANGED vars
  BY <1>14 DEF vars
<1> QED
  BY <1>1, <1>2, <1>3, <1>4, <1>5, <1>6, <1>7, <1>8, <1>9, <1>10, <1>11, <1>12, <1>13, <1>14
     DEF Next, PublisherStep, StreamStep

LEMMA LockStep == TypeOK /\ LockInv /\ [Next]_vars => LockInv'
<1> SUFFICES ASSUME TypeOK, LockInv, [Next]_vars
             PROVE  LockInv'
  OBVIOUS
<1> USE NobodyIsNoPublisher DEF TypeOK, LockInv, hubVars, streamVars
<1>1. ASSUME NEW p \in Publishers, Call(p) \/ PublisherStep(p)
      PROVE  LockInv'
  <2>1. CASE Call(p)
    BY <2>1 DEF Call
  <2>2. CASE Acquire(p)
    BY <2>2 DEF Acquire, Free
  <2>3. CASE Put(p)
    BY <2>3 DEF Put
  <2>4. CASE Drop(p)
    BY <2>4 DEF Drop
  <2>5. CASE Release(p)
    BY <2>5 DEF Release
  <2> QED
    BY <1>1, <2>1, <2>2, <2>3, <2>4, <2>5 DEF PublisherStep
<1>2. ASSUME NEW s \in Streams, Connect(s) \/ Disconnect(s) \/ StreamStep(s)
      PROVE  LockInv'
  BY <1>2 DEF Connect, Disconnect, StreamStep, Subscribe, Get, Keepalive, Written,
              GeneratorExit, Unsubscribe
<1>3. CASE UNCHANGED vars
  BY <1>3 DEF vars
<1> QED
  BY <1>1, <1>2, <1>3 DEF Next

(* The list changes under the lock only, so what the loops still have to do *)
(* stays within it.                                                         *)
LEMMA ListStep == TypeOK /\ LockInv /\ ListInv /\ [Next]_vars => ListInv'
<1> SUFFICES ASSUME TypeOK, LockInv, ListInv, [Next]_vars
             PROVE  ListInv'
  OBVIOUS
<1> USE DEF TypeOK, ListInv, hubVars, streamVars
<1>1. ASSUME NEW p \in Publishers, Call(p) \/ PublisherStep(p)
      PROVE  ListInv'
  <2>1. CASE Call(p)
    BY <2>1 DEF Call
  <2>2. CASE Acquire(p)
    BY <2>2 DEF Acquire
  <2>3. CASE Put(p)
    BY <2>3 DEF Put
  <2>4. CASE Drop(p)
    BY <2>4 DEF Drop
  <2>5. CASE Release(p)
    BY <2>5 DEF Release
  <2> QED
    BY <1>1, <2>1, <2>2, <2>3, <2>4, <2>5 DEF PublisherStep
<1>2. ASSUME NEW s \in Streams, Connect(s) \/ Disconnect(s) \/ StreamStep(s)
      PROVE  ListInv'
  <2>1. CASE Connect(s)
    BY <2>1 DEF Connect
  <2>2. CASE Disconnect(s)
    BY <2>2 DEF Disconnect
  <2>3. CASE Subscribe(s)
    BY <2>3 DEF Subscribe
  <2>4. CASE Get(s)
    BY <2>4 DEF Get
  <2>5. CASE Keepalive(s)
    BY <2>5 DEF Keepalive
  <2>6. CASE Written(s)
    BY <2>6 DEF Written
  <2>7. CASE GeneratorExit(s)
    BY <2>7 DEF GeneratorExit
  <2>8. CASE Unsubscribe(s)
    BY <2>8 DEF Unsubscribe, Forget, Free, LockInv
  <2> QED
    BY <1>2, <2>1, <2>2, <2>3, <2>4, <2>5, <2>6, <2>7, <2>8 DEF StreamStep
<1>3. CASE UNCHANGED vars
  BY <1>3 DEF vars
<1> QED
  BY <1>1, <1>2, <1>3 DEF Next

-----------------------------------------------------------------------------
LEMMA PartsKept ==
    ASSUME NEW t \in Streams, PartsInOrder(t),
           received'[t] = received[t], event'[t] = event[t],
           queue'[t] = queue[t], joined'[t] = joined[t]
    PROVE  PartsInOrder(t)' /\ Given(t)' = Given(t) /\ Held(t)' = Held(t)
BY DEF PartsInOrder, Given, Held, InOrder

LEMMA GivenIsNat ==
    ASSUME TypeOK, NEW t \in Streams
    PROVE  Given(t) \in Nat /\ Held(t) \in Nat /\ Len(queue[t]) \in Nat
<1>1. received[t] \in Seq(Nat) /\ queue[t] \in Seq(Nat)
  BY DEF TypeOK
<1>2. Len(received[t]) \in Nat /\ Len(queue[t]) \in Nat
  BY <1>1
<1>3. Held(t) \in Nat
  <2>1. CASE event[t] = 0
    BY <1>2, <2>1 DEF Held
  <2>2. CASE event[t] # 0
    BY <1>2, <2>2 DEF Held
  <2> QED
    BY <2>1, <2>2
<1> QED
  BY <1>2, <1>3 DEF Given

(* A step that leaves a stream's parts, its place in the list and the count *)
(* of events alone.                                                         *)
LEMMA ShareKept ==
    ASSUME NEW t \in Streams, PartsInOrder(t), Reach(t),
           received'[t] = received[t], event'[t] = event[t],
           queue'[t] = queue[t], joined'[t] = joined[t], behind'[t] = behind[t],
           published' = published,
           t \in todo' <=> t \in todo, t \in dead' <=> t \in dead,
           t \in subscribers' <=> t \in subscribers
    PROVE  PartsInOrder(t)' /\ Reach(t)'
BY PartsKept DEF Reach

LEMMA PutShare ==
    ASSUME TypeOK, LockInv, ListInv, ShareInv, NEW p \in Publishers, Put(p)
    PROVE  ShareInv'
<1> SUFFICES ASSUME NEW t \in Open'
             PROVE  PartsInOrder(t)' /\ Reach(t)'
  BY DEF ShareInv
<1>1. PICK s \in todo :
        /\ todo' = todo \ {s}
        /\ IF HasRoom(s)
             THEN /\ queue' = [queue EXCEPT ![s] = Append(queue[s], published)]
                  /\ dead' = dead /\ behind' = behind
             ELSE /\ dead' = dead \cup {s} /\ queue' = queue
                  /\ behind' = [behind EXCEPT ![s] = published - joined[s] - Len(received[s])]
  BY DEF Put
<1>2. /\ received' = received /\ event' = event /\ joined' = joined
      /\ published' = published /\ subscribers' = subscribers /\ stream' = stream
  BY DEF Put, streamVars
<1>3. t \in Open /\ t \in Streams /\ PartsInOrder(t) /\ Reach(t)
  BY <1>2 DEF Open, ShareInv
<1>4. s \in Streams /\ s \in subscribers /\ s \notin dead
  BY <1>1 DEF TypeOK, ListInv
<1>5. CASE t # s
  <2>1. queue'[t] = queue[t] /\ behind'[t] = behind[t]
    BY <1>1, <1>3, <1>4, <1>5 DEF TypeOK
  <2>2. (t \in todo' <=> t \in todo) /\ (t \in dead' <=> t \in dead)
    BY <1>1, <1>5
  <2> QED
    BY <1>2, <1>3, <2>1, <2>2, ShareKept
<1>6. CASE t = s /\ ~HasRoom(s)
  <2>1. PartsInOrder(t)' /\ Given(t)' = Given(t)
    BY <1>1, <1>2, <1>3, <1>6, PartsKept
  <2>2. behind'[t] > MaxSize
    <3>1. behind'[t] = published - joined[t] - Len(received[t])
      BY <1>1, <1>3, <1>6 DEF TypeOK
    <3>2. Len(queue[t]) >= MaxSize
      BY <1>3, <1>6, GivenIsNat, QueueHoldsOne DEF HasRoom
    <3>3. joined[t] + Given(t) = published - 1
      BY <1>1, <1>3, <1>6 DEF Reach
    <3>4. received[t] \in Seq(Nat) /\ joined[t] \in Nat /\ published \in Nat
      BY <1>3 DEF TypeOK
    <3>5. PICK taken \in Nat, held \in Nat, waiting \in Nat :
            taken = Len(received[t]) /\ held = Held(t) /\ waiting = Len(queue[t])
      <4>1. Len(received[t]) \in Nat
        BY <3>4
      <4> QED
        BY <1>3, <4>1, GivenIsNat
    <3>6. held >= taken
      <4>1. CASE event[t] = 0
        BY <3>5, <4>1 DEF Held
      <4>2. CASE event[t] # 0
        BY <3>5, <4>2 DEF Held
      <4> QED
        BY <4>1, <4>2
    <3>7. Given(t) = held + waiting
      BY <3>5 DEF Given
    <3>8. PICK m \in Nat, j \in Nat : m = published /\ j = joined[t]
      BY <3>4
    <3>9. m - j - taken >= waiting + 1
      <4>1. j + (held + waiting) = m - 1
        BY <3>3, <3>7, <3>8
      <4> QED
        BY <3>6, <4>1
    <3>10. behind'[t] = m - j - taken /\ waiting >= MaxSize
      BY <3>1, <3>2, <3>5, <3>8
    <3> QED
      BY <3>9, <3>10, QueueHoldsOne
  <2>3. Reach(t)'
    BY <1>1, <1>2, <1>3, <1>4, <1>6, <2>1, <2>2 DEF Reach
  <2> QED
    BY <2>1, <2>3
<1>7. CASE t = s /\ HasRoom(s)
  <2> DEFINE from == joined[t] + Held(t)
  <2>1. /\ queue[t] \in Seq(Nat)
        /\ from \in Nat
        /\ InOrder(queue[t], from)
        /\ joined[t] \in Nat /\ published \in Nat
    <3>1. queue[t] \in Seq(Nat) /\ joined[t] \in Nat /\ published \in Nat
      BY <1>3 DEF TypeOK
    <3>2. Held(t) \in Nat
      BY <1>3, GivenIsNat
    <3>3. InOrder(queue[t], from)
      BY <1>3 DEF PartsInOrder
    <3> QED
      BY <3>1, <3>2, <3>3
  <2>2. joined[t] + Given(t) = published - 1
    BY <1>1, <1>3, <1>7 DEF Reach
  <2>3. published = from + Len(queue[t]) + 1
    <3>1. PICK held \in Nat, length \in Nat : held = Held(t) /\ length = Len(queue[t])
      BY <1>3, GivenIsNat
    <3>2. Given(t) = held + length
      BY <3>1 DEF Given
    <3>3. PICK j \in Nat, m \in Nat : j = joined[t] /\ m = published
      BY <2>1
    <3>4. m = j + held + length + 1
      BY <2>2, <3>2, <3>3
    <3> QED
      BY <3>1, <3>3, <3>4
  <2>4. queue'[t] = Append(queue[t], published)
    BY <1>1, <1>4, <1>7 DEF TypeOK
  <2>5. InOrder(queue'[t], from) /\ Len(queue'[t]) = Len(queue[t]) + 1
    <3> HIDE DEF from
    <3> QED
      BY <2>1, <2>3, <2>4, AppendInOrder
  <2>6. Held(t)' = Held(t)
    BY <1>2 DEF Held
  <2>7. Given(t)' = Given(t) + 1
    <3>1. PICK held \in Nat, length \in Nat : held = Held(t) /\ length = Len(queue[t])
      BY <1>3, GivenIsNat
    <3>2. Given(t) = held + length /\ Given(t)' = held + (length + 1)
      BY <2>5, <2>6, <3>1 DEF Given
    <3> QED
      BY <3>2
  <2>8. PartsInOrder(t)'
    BY <1>2, <1>3, <2>5, <2>6 DEF PartsInOrder, InOrder
  <2>9. Reach(t)'
    <3>1. t \notin todo' \cup dead' /\ t \in subscribers'
      BY <1>1, <1>2, <1>4, <1>7
    <3>2. PICK j \in Nat, m \in Nat, n \in Nat : j = joined[t] /\ m = published /\ n = Given(t)
      BY <1>3, <2>1, GivenIsNat
    <3>3. j + (n + 1) = m
      BY <2>2, <3>2
    <3>4. joined'[t] + Given(t)' = published'
      BY <1>2, <2>7, <3>2, <3>3
    <3> QED
      BY <3>1, <3>4 DEF Reach
  <2> QED
    BY <2>8, <2>9
<1> QED
  BY <1>5, <1>6, <1>7

LEMMA PublisherShare ==
    ASSUME TypeOK, LockInv, ListInv, ShareInv,
           NEW p \in Publishers, Call(p) \/ PublisherStep(p)
    PROVE  ShareInv'
<1> USE DEF hubVars, streamVars
<1>1. CASE Put(p)
  BY <1>1, PutShare
<1>2. CASE ~Put(p)
  <2> SUFFICES ASSUME NEW t \in Open'
               PROVE  PartsInOrder(t)' /\ Reach(t)'
    BY DEF ShareInv
  <2>1. /\ received' = received /\ event' = event /\ joined' = joined
        /\ queue' = queue /\ stream' = stream /\ behind' = behind
    BY <1>2 DEF PublisherStep, Call, Acquire, Drop, Release
  <2>2. t \in Open /\ t \in Streams /\ PartsInOrder(t) /\ Reach(t)
    BY <2>1 DEF Open, ShareInv
  <2>3. PartsInOrder(t)' /\ Given(t)' = Given(t)
    BY <2>1, <2>2, PartsKept
  <2>4. CASE Call(p) \/ Release(p)
    BY <2>1, <2>2, <2>4, ShareKept DEF Call, Release
  <2>5. CASE Acquire(p)
    <3>1. todo = {} /\ dead = {} /\ published \in Nat /\ joined[t] \in Nat
      BY <2>2, <2>5 DEF Acquire, Free, LockInv, TypeOK
    <3>2. Reach(t)'
      BY <2>1, <2>2, <2>3, <2>5, <3>1, GivenIsNat DEF Acquire, Reach
    <3> QED
      BY <2>3, <3>2
  <2>6. CASE Drop(p)
    <3>1. PICK s \in dead : dead' = dead \ {s} /\ subscribers' = subscribers \ {s}
      BY <2>6 DEF Drop
    <3>2. todo = {} /\ todo' = todo /\ published' = published
      BY <2>6 DEF Drop
    <3>3. CASE t = s
      <4>1. behind[t] > MaxSize /\ joined[t] + Given(t) = published - 1
        BY <2>2, <3>1, <3>3 DEF Reach
      <4>2. published \in Nat /\ joined[t] \in Nat
        BY <2>2 DEF TypeOK
      <4> QED
        BY <2>1, <2>2, <2>3, <3>1, <3>2, <3>3, <4>1, <4>2, GivenIsNat DEF Reach
    <3>4. CASE t # s
      BY <2>1, <2>2, <3>1, <3>2, <3>4, ShareKept
    <3> QED
      BY <3>3, <3>4
  <2> QED
    BY <1>2, <2>4, <2>5, <2>6 DEF PublisherStep
<1> QED
  BY <1>1, <1>2

-----------------------------------------------------------------------------
(* The steps of one stream: the other streams keep their shares. *)
LEMMA OtherStreams ==
    ASSUME TypeOK, ShareInv, NEW s \in Streams, NEW t \in Open', t # s,
           Connect(s) \/ Disconnect(s) \/ StreamStep(s)
    PROVE  PartsInOrder(t)' /\ Reach(t)'
<1> USE DEF hubVars, streamVars
<1>1. t \in Streams
  BY DEF Open
<1>2. /\ received'[t] = received[t] /\ event'[t] = event[t]
      /\ queue'[t] = queue[t] /\ joined'[t] = joined[t] /\ stream'[t] = stream[t]
      /\ behind'[t] = behind[t]
  BY <1>1 DEF TypeOK, Connect, Disconnect, StreamStep, Subscribe, Get, Keepalive, Written,
              GeneratorExit, Unsubscribe, Forget
<1>3. /\ published' = published /\ todo' = todo /\ dead' = dead
      /\ t \in subscribers' <=> t \in subscribers
  BY DEF Connect, Disconnect, StreamStep, Subscribe, Get, Keepalive, Written,
         GeneratorExit, Unsubscribe
<1>4. PartsInOrder(t) /\ Reach(t)
  BY <1>1, <1>2 DEF Open, ShareInv
<1> QED
  BY <1>1, <1>2, <1>3, <1>4, ShareKept

LEMMA SubscribeShare ==
    ASSUME TypeOK, LockInv, ListInv, NEW s \in Streams, Subscribe(s)
    PROVE  PartsInOrder(s)' /\ Reach(s)'
<1>1. /\ received'[s] = <<>> /\ queue'[s] = <<>> /\ joined'[s] = published
      /\ published' = published /\ event' = event /\ s \in subscribers'
      /\ todo' = {} /\ dead' = {}
  BY DEF Subscribe, TypeOK, LockInv, Free
<1>2. event[s] = 0
  BY DEF Subscribe, ListInv
<1>3. Held(s)' = 0 /\ Given(s)' = 0
  BY <1>1, <1>2 DEF Held, Given
<1>4. published \in Nat
  BY DEF TypeOK
<1>5. PartsInOrder(s)'
  BY <1>1, <1>2, <1>3 DEF PartsInOrder, InOrder
<1>6. Reach(s)'
  BY <1>1, <1>3, <1>4 DEF Reach
<1> QED
  BY <1>5, <1>6

(* Taking an event moves it from the queue into the generator. *)
LEMMA GetShare ==
    ASSUME TypeOK, ListInv, NEW s \in Streams, Get(s), PartsInOrder(s), Reach(s)
    PROVE  PartsInOrder(s)' /\ Reach(s)'
<1> DEFINE from == joined[s] + Held(s)
<1>1. /\ received' = received /\ joined' = joined /\ published' = published
      /\ todo' = todo /\ dead' = dead /\ subscribers' = subscribers /\ behind' = behind
      /\ queue[s] # <<>> /\ stream[s] = "waiting"
      /\ queue'[s] = Tail(queue[s]) /\ event'[s] = Head(queue[s])
  BY DEF Get, TypeOK, hubVars
<1>2. event[s] = 0
  BY <1>1 DEF ListInv
<1>3. received[s] \in Seq(Nat) /\ queue[s] \in Seq(Nat) /\ joined[s] \in Nat
  BY DEF TypeOK
<1>4. Len(received[s]) \in Nat /\ Len(queue[s]) \in Nat /\ Held(s) = Len(received[s])
  BY <1>2, <1>3 DEF Held
<1>5. from \in Nat /\ InOrder(queue[s], from)
  BY <1>3, <1>4 DEF PartsInOrder
<1>6. /\ Head(queue[s]) = from + 1
      /\ Len(Tail(queue[s])) = Len(queue[s]) - 1
      /\ InOrder(Tail(queue[s]), from + 1)
  <2> HIDE DEF from
  <2> QED
    BY <1>1, <1>3, <1>5, TailInOrder
<1>7. event'[s] = joined[s] + Len(received[s]) + 1 /\ event'[s] # 0
  <2>1. event'[s] = from + 1
    BY <1>1, <1>6
  <2> QED
    BY <2>1, <1>3, <1>4
<1>8. Held(s)' = Held(s) + 1
  BY <1>1, <1>4, <1>7 DEF Held
<1>9. Given(s)' = Given(s)
  <2>1. Len(queue[s])' = Len(queue[s]) - 1
    BY <1>1, <1>6
  <2>2. Given(s) = Held(s) + Len(queue[s]) /\ Given(s)' = Held(s)' + Len(queue[s])'
    BY DEF Given
  <2>3. Given(s)' = (Held(s) + 1) + (Len(queue[s]) - 1)
    BY <2>1, <2>2, <1>8
  <2>4. Held(s) \in Nat /\ Len(queue[s]) \in Nat
    BY <1>4
  <2>5. (Held(s) + 1) + (Len(queue[s]) - 1) = Held(s) + Len(queue[s])
    BY <2>4
  <2> QED
    BY <2>2, <2>3, <2>5
<1>10. InOrder(queue[s], joined[s] + Held(s))'
  <2>1. joined'[s] + Held(s)' = from + 1
    BY <1>1, <1>3, <1>4, <1>8
  <2> QED
    BY <2>1, <1>1, <1>6 DEF InOrder
<1>11. PartsInOrder(s)'
  BY <1>1, <1>7, <1>10 DEF PartsInOrder, InOrder
<1>12. Reach(s)'
  BY <1>1, <1>9 DEF Reach
<1> QED
  BY <1>11, <1>12

(* A written event joins what the browser has received. *)
LEMMA WrittenShare ==
    ASSUME TypeOK, NEW s \in Streams, Written(s), PartsInOrder(s), Reach(s)
    PROVE  PartsInOrder(s)' /\ Reach(s)'
<1>1. /\ joined' = joined /\ published' = published /\ queue' = queue
      /\ todo' = todo /\ dead' = dead /\ subscribers' = subscribers /\ behind' = behind
      /\ event'[s] = 0
      /\ received'[s] = IF event[s] = 0 THEN received[s] ELSE Append(received[s], event[s])
  BY DEF Written, TypeOK, hubVars
<1>2. received[s] \in Seq(Nat) /\ queue[s] \in Seq(Nat) /\ joined[s] \in Nat
  BY DEF TypeOK
<1>3. Len(received[s]) \in Nat /\ Len(queue[s]) \in Nat
  BY <1>2
<1>4. InOrder(received[s], joined[s])' /\ Held(s)' = Held(s)
  <2>1. CASE event[s] = 0
    BY <1>1, <2>1 DEF Held, PartsInOrder, InOrder
  <2>2. CASE event[s] # 0
    <3>1. event[s] = joined[s] + Len(received[s]) + 1 /\ InOrder(received[s], joined[s])
      BY <2>2 DEF PartsInOrder
    <3>2. /\ Len(Append(received[s], event[s])) = Len(received[s]) + 1
          /\ InOrder(Append(received[s], event[s]), joined[s])
      BY <1>2, <3>1, AppendInOrder
    <3>3. received'[s] = Append(received[s], event[s]) /\ joined'[s] = joined[s]
      BY <1>1, <2>2
    <3>4. InOrder(received[s], joined[s])'
      BY <3>2, <3>3 DEF InOrder
    <3>5. Held(s)' = Held(s)
      BY <1>1, <1>3, <2>2, <3>2, <3>3 DEF Held
    <3> QED
      BY <3>4, <3>5
  <2> QED
    BY <2>1, <2>2
<1>5. Given(s)' = Given(s)
  BY <1>1, <1>4 DEF Given
<1>6. PartsInOrder(s)'
  BY <1>1, <1>4 DEF PartsInOrder, InOrder
<1>7. Reach(s)'
  BY <1>1, <1>5 DEF Reach
<1> QED
  BY <1>6, <1>7

LEMMA StreamShare ==
    ASSUME TypeOK, LockInv, ListInv, ShareInv,
           NEW s \in Streams, Connect(s) \/ Disconnect(s) \/ StreamStep(s)
    PROVE  ShareInv'
<1> SUFFICES ASSUME NEW t \in Open'
             PROVE  PartsInOrder(t)' /\ Reach(t)'
  BY DEF ShareInv
<1>1. CASE t # s
  BY <1>1, OtherStreams
<1>2. CASE t = s
  <2>1. CASE Subscribe(s)
    BY <1>2, <2>1, SubscribeShare
  <2>2. CASE Get(s)
    <3>1. s \in Open
      BY <2>2 DEF Get, Open
    <3> QED
      BY <1>2, <2>2, <3>1, GetShare DEF ShareInv
  <2>3. CASE Written(s)
    <3>1. s \in Open
      BY <2>3 DEF Written, Open
    <3> QED
      BY <1>2, <2>3, <3>1, WrittenShare DEF ShareInv
  <2>4. CASE Connect(s) \/ GeneratorExit(s) \/ Unsubscribe(s)
    <3>1. s \notin Open'
      BY <2>4 DEF Connect, GeneratorExit, Unsubscribe, Forget, Open, TypeOK
    <3> QED
      BY <1>2, <3>1
  <2>5. CASE Disconnect(s) \/ Keepalive(s)
    <3>1. /\ received' = received /\ event' = event /\ queue' = queue /\ joined' = joined
          /\ published' = published /\ todo' = todo /\ dead' = dead
          /\ subscribers' = subscribers /\ behind' = behind
      BY <2>5 DEF Disconnect, Keepalive, hubVars
    <3>2. s \in Open
      BY <1>2, <2>5 DEF Disconnect, Keepalive, Open, TypeOK
    <3> QED
      BY <1>2, <3>1, <3>2, ShareKept DEF ShareInv
  <2> QED
    BY <2>1, <2>2, <2>3, <2>4, <2>5 DEF StreamStep
<1> QED
  BY <1>1, <1>2

LEMMA ShareStep == HubInv /\ [Next]_vars => ShareInv'
<1> SUFFICES ASSUME HubInv, [Next]_vars
             PROVE  ShareInv'
  OBVIOUS
<1> USE DEF HubInv
<1>1. ASSUME NEW p \in Publishers, Call(p) \/ PublisherStep(p)
      PROVE  ShareInv'
  BY <1>1, PublisherShare
<1>2. ASSUME NEW s \in Streams, Connect(s) \/ Disconnect(s) \/ StreamStep(s)
      PROVE  ShareInv'
  BY <1>2, StreamShare
<1>3. CASE UNCHANGED vars
  <2> SUFFICES ASSUME NEW t \in Open'
               PROVE  PartsInOrder(t)' /\ Reach(t)'
    BY DEF ShareInv
  <2>1. /\ received' = received /\ event' = event /\ queue' = queue /\ joined' = joined
        /\ published' = published /\ todo' = todo /\ dead' = dead
        /\ subscribers' = subscribers /\ stream' = stream /\ behind' = behind
    BY <1>3 DEF vars, hubVars, streamVars
  <2>2. t \in Open /\ t \in Streams
    BY <2>1 DEF Open
  <2> QED
    BY <2>1, <2>2, ShareKept DEF ShareInv
<1> QED
  BY <1>1, <1>2, <1>3 DEF Next

LEMMA Invariance == Spec => []HubInv
<1>1. Init => HubInv
  BY InitHolds
<1>2. HubInv /\ [Next]_vars => HubInv'
  BY TypeStep, LockStep, ListStep, ShareStep DEF HubInv
<1> QED
  BY <1>1, <1>2, PTL DEF Spec

-----------------------------------------------------------------------------
LEMMA ShareOfParts ==
    ASSUME TypeOK, NEW s \in Streams, PartsInOrder(s)
    PROVE  /\ Share(s) \in Seq(Nat)
           /\ Len(Share(s)) = Given(s)
           /\ InOrder(Share(s), joined[s])
<1> DEFINE e == IF event[s] = 0 THEN <<>> ELSE <<event[s]>>
<1>1. /\ received[s] \in Seq(Nat) /\ queue[s] \in Seq(Nat)
      /\ joined[s] \in Nat /\ event[s] \in Nat
  BY DEF TypeOK
<1>2. e \in Seq(Nat) /\ Len(e) = IF event[s] = 0 THEN 0 ELSE 1
  <2>1. CASE event[s] = 0
    BY <2>1
  <2>2. CASE event[s] # 0
    BY <1>1, <2>2
  <2> QED
    BY <2>1, <2>2
<1>3. InOrder(e, joined[s] + Len(received[s]))
  <2>1. CASE event[s] = 0
    BY <2>1 DEF InOrder
  <2>2. CASE event[s] # 0
    BY <1>1, <2>2 DEF InOrder, PartsInOrder
  <2> QED
    BY <2>1, <2>2
<1>4. InOrder(received[s], joined[s])
  BY DEF PartsInOrder
<1>5. Held(s) = Len(received[s]) + Len(e)
  BY <1>2 DEF Held
<1> HIDE DEF e
<1>6. Taken(s) = received[s] \o e
  BY DEF Taken, e
<1>7. /\ Taken(s) \in Seq(Nat)
      /\ Len(Taken(s)) = Held(s)
      /\ InOrder(Taken(s), joined[s])
  BY <1>1, <1>2, <1>3, <1>4, <1>5, <1>6, ConcatInOrder
<1>8. InOrder(queue[s], joined[s] + Len(Taken(s)))
  BY <1>7 DEF PartsInOrder
<1>9. /\ Share(s) \in Seq(Nat)
      /\ Len(Share(s)) = Len(Taken(s)) + Len(queue[s])
      /\ InOrder(Share(s), joined[s])
  <2>1. Share(s) = Taken(s) \o queue[s]
    BY DEF Share
  <2>2. queue[s] \in Seq(Nat) /\ joined[s] \in Nat
    BY <1>1
  <2> QED
    BY <1>7, <1>8, <2>1, <2>2, ConcatInOrder
<1> QED
  BY <1>7, <1>9 DEF Given

LEMMA SeqOfEvents ==
    ASSUME NEW seq \in Seq(Nat), NEW from \in Nat, NEW to \in Int,
           InOrder(seq, from), Len(seq) = to - from
    PROVE  seq = Events(from, to)
<1>1. seq \in [1..(to - from) -> Nat]
  OBVIOUS
<1>2. \A i \in 1..(to - from) : seq[i] = from + i
  BY DEF InOrder
<1> QED
  BY <1>1, <1>2 DEF Events

(* Every reachable state is well typed, and no queue holds more than        *)
(* MaxSize events.                                                          *)
THEOREM HubTypeCorrect == Spec => []TypeOK
<1>1. HubInv => TypeOK
  BY DEF HubInv
<1> QED
  BY <1>1, Invariance, PTL

(* The loops of _sse_publish never find a full queue missing from the list: *)
(* list.remove does not raise.                                              *)
THEOREM RemoveFindsTheQueue == Spec => []FullQueuesAreListed
<1>1. HubInv => FullQueuesAreListed
  BY DEF HubInv, ListInv, FullQueuesAreListed
<1> QED
  BY <1>1, Invariance, PTL

(* Whatever the interleaving of publishers and streams, a subscribed stream *)
(* has been given every event since it subscribed, once and in order.       *)
THEOREM NothingIsMissed == Spec => []SubscribersMissNothing
<1>1. HubInv => SubscribersMissNothing
  <2> SUFFICES ASSUME HubInv, NEW s \in subscribers \cap Open
               PROVE  Share(s) = Events(joined[s], IF s \in todo \cup dead THEN published - 1
                                                                           ELSE published)
    BY DEF SubscribersMissNothing
  <2>1. s \in Streams /\ PartsInOrder(s) /\ Reach(s) /\ TypeOK
    BY DEF Open, HubInv, ShareInv
  <2>2. joined[s] \in Nat /\ published \in Nat /\ Given(s) \in Nat
    BY <2>1, GivenIsNat DEF TypeOK
  <2> DEFINE to == IF s \in todo \cup dead THEN published - 1 ELSE published
  <2>3. to \in Int /\ Given(s) = to - joined[s]
    <3>1. CASE s \in todo \cup dead
      <4>1. joined[s] + Given(s) = published - 1 /\ to = published - 1
        BY <2>1, <3>1 DEF Reach
      <4> HIDE DEF to
      <4> QED
        BY <2>2, <4>1
    <3>2. CASE s \notin todo \cup dead
      <4>1. joined[s] + Given(s) = published /\ to = published
        BY <2>1, <3>2 DEF Reach
      <4> HIDE DEF to
      <4> QED
        BY <2>2, <4>1
    <3> QED
      BY <3>1, <3>2
  <2> HIDE DEF to
  <2>4. Share(s) = Events(joined[s], to)
    <3>1. /\ Share(s) \in Seq(Nat) /\ InOrder(Share(s), joined[s])
          /\ Len(Share(s)) = to - joined[s]
      BY <2>1, <2>3, ShareOfParts
    <3> QED
      BY <2>2, <2>3, <3>1, SeqOfEvents
  <2> QED
    BY <2>4 DEF to
<1> QED
  BY <1>1, Invariance, PTL

(* When the publisher found the queue of a stream full that is off the list *)
(* since, a whole queue of events and the one being put had not reached the *)
(* browser, however the stream reads and other publishers come in between.  *)
THEOREM CutOffStreamsWereFull == Spec => []CutOffOnlyWhenFull
<1>1. HubInv => CutOffOnlyWhenFull
  <2> SUFFICES ASSUME HubInv, NEW s \in Open \ subscribers
               PROVE  behind[s] > MaxSize /\ joined[s] + Len(Share(s)) < published
    BY DEF CutOffOnlyWhenFull
  <2>1. s \in Streams /\ PartsInOrder(s) /\ Reach(s) /\ TypeOK
    BY DEF Open, HubInv, ShareInv
  <2>2. Len(Share(s)) = Given(s)
    BY <2>1, ShareOfParts
  <2> QED
    BY <2>1, <2>2 DEF Reach
<1> QED
  BY <1>1, Invariance, PTL

-----------------------------------------------------------------------------
(* Every step of the hub is a step of the abstract channel or invisible to  *)
(* it: Acquire publishes, Subscribe joins, Written of an event is heard,    *)
(* Unsubscribe leaves.                                                      *)
LEMMA HubStepRefines == HubInv /\ [Next]_vars => [Channel!Next]_(Channel!vars)
<1> SUFFICES ASSUME HubInv, [Next]_vars
             PROVE  [Channel!Next]_(Channel!vars)
  OBVIOUS
<1> USE DEF HubInv, hubVars, streamVars
<1>1. ASSUME NEW p \in Publishers, Call(p) \/ PublisherStep(p)
      PROVE  [Channel!Next]_(Channel!vars)
  <2>1. CASE Acquire(p)
    BY <2>1 DEF Acquire, Channel!Next, Channel!Publish
  <2>2. CASE ~Acquire(p)
    BY <1>1, <2>2 DEF PublisherStep, Call, Put, Drop, Release, Channel!vars
  <2> QED
    BY <2>1, <2>2
<1>2. ASSUME NEW s \in Streams, Connect(s) \/ Disconnect(s) \/ StreamStep(s)
      PROVE  [Channel!Next]_(Channel!vars)
  <2>1. CASE Subscribe(s)
    BY <2>1 DEF Subscribe, Channel!Next, Channel!Join
  <2>2. CASE Unsubscribe(s)
    BY <2>2 DEF Unsubscribe, Forget, Channel!Next, Channel!Leave
  <2>3. CASE Written(s) /\ event[s] # 0
    <3>1. s \in Open /\ PartsInOrder(s) /\ Reach(s)
      BY <2>3 DEF Written, Open, ShareInv
    <3>2. event[s] = joined[s] + Len(received[s]) + 1
      BY <2>3, <3>1 DEF PartsInOrder
    <3>3. event[s] <= published
      <4>1. /\ joined[s] \in Nat /\ published \in Nat /\ Given(s) \in Nat
            /\ Held(s) \in Nat /\ Len(queue[s]) \in Nat
        BY <3>1, GivenIsNat DEF TypeOK
      <4>2. Held(s) = Len(received[s]) + 1
        BY <2>3 DEF Held
      <4>3. Given(s) = Held(s) + Len(queue[s])
        BY DEF Given
      <4>4. joined[s] + Given(s) <= published
        BY <3>1, <4>1 DEF Reach
      <4>5. received[s] \in Seq(Nat)
        BY DEF TypeOK
      <4>6. Len(received[s]) \in Nat
        BY <4>5
      <4>7. event[s] = joined[s] + Held(s)
        BY <3>2, <4>1, <4>2, <4>6
      <4>8. joined[s] + (Held(s) + Len(queue[s])) <= published
        BY <4>3, <4>4
      <4> QED
        BY <4>1, <4>7, <4>8
    <3>4. /\ received' = [received EXCEPT ![s] = Append(received[s], event[s])]
          /\ published' = published /\ joined' = joined
      BY <2>3 DEF Written, TypeOK
    <3>5. Channel!Hear(s)
      BY <3>2, <3>3, <3>4 DEF Channel!Hear
    <3> QED
      BY <3>5 DEF Channel!Next
  <2>4. CASE Written(s) /\ event[s] = 0
    <3>1. received' = received
      BY <2>4 DEF Written, TypeOK
    <3> QED
      BY <2>4, <3>1 DEF Written, Channel!vars
  <2>5. CASE Connect(s) \/ Disconnect(s) \/ Get(s) \/ Keepalive(s) \/ GeneratorExit(s)
    BY <2>5 DEF Connect, Disconnect, Get, Keepalive, GeneratorExit, Channel!vars
  <2> QED
    BY <1>2, <2>1, <2>2, <2>3, <2>4, <2>5 DEF StreamStep
<1>3. CASE UNCHANGED vars
  BY <1>3 DEF vars, Channel!vars
<1> QED
  BY <1>1, <1>2, <1>3 DEF Next

(* The hub implements the abstract channel: each browser hears a gapless    *)
(* run of the published events, in the order in which publishers got the    *)
(* lock.                                                                    *)
THEOREM HubImplementsBroadcast == Spec => ImplementsBroadcast
<1>1. Init => Channel!Init
  BY DEF Init, Channel!Init
<1>2. HubInv /\ [Next]_vars => [Channel!Next]_(Channel!vars)
  BY HubStepRefines
<1> QED
  BY <1>1, <1>2, Invariance, PTL DEF Spec, Channel!Spec, ImplementsBroadcast

=============================================================================
