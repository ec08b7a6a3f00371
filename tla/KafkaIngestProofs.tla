-------------------------- MODULE KafkaIngestProofs --------------------------
(***************************************************************************)
(* What holds of KafkaIngest for every number of consumers, of messages and *)
(* of handovers.                                                            *)
(***************************************************************************)
EXTENDS KafkaIngest, FiniteSetTheorems, TLAPS

(* The partition belongs to a live member that has read what is committed,  *)
(* nothing has been read that was not produced, and a thread that is past   *)
(* its poll has a message.                                                  *)
GroupOK ==
    /\ owner # Nobody => Member(owner) /\ committed <= position[owner]
    /\ committed <= end
    /\ \A c \in Consumers :
         /\ position[c] <= end
         /\ thread[c] \in {"handling", "publishing"} => current[c] \in Offsets

GroupInv == TypeOK /\ GroupOK

(* How far the group has read: the owner's position, or what the next owner *)
(* starts from.                                                             *)
Frontier == IF owner = Nobody THEN committed ELSE position[owner]

Accounted(o) ==
    kind[o] = "alert" => rows[o] > 0 \/ InHand(o) \/ o \in failed \cup killed

(* Not only what is committed but all that the owner has read is accounted  *)
(* for: the next commit covers it, whatever the threads are doing.          *)
ReadIsAccountedFor == \A o \in 1..Frontier : Accounted(o)

Handlers(o) == {c \in Consumers : current[c] = o /\ thread[c] = "handling"}

(* What has become of a message, reading by reading: a row, the end of a    *)
(* consumer loop, or a thread that still has it in hand.                    *)
Copies(o) == rows[o] + loopsEnded[o] + Cardinality(Handlers(o))

(* One copy for having been read in its turn, and one for each handover.    *)
CopiesBounded ==
    \A o \in Offsets :
        /\ IsFiniteSet(Handlers(o))
        /\ Copies(o) <= handovers + (IF o <= Frontier THEN 1 ELSE 0)

-----------------------------------------------------------------------------
(* Types and the group *)

LEMMA GroupInit == Init => GroupInv
BY KafkaBounds, NobodyIsNoConsumer DEF Init, GroupInv, TypeOK, GroupOK, Offsets, Kinds

LEMMA GroupStep == GroupInv /\ [Next]_vars => GroupInv'
<1> SUFFICES ASSUME GroupInv, [Next]_vars
             PROVE  GroupInv'
  OBVIOUS
<1> USE KafkaBounds, NobodyIsNoConsumer DEF GroupInv, Member, Offsets
<1>1. CASE Produce
  BY <1>1 DEF Produce, ingestVars, TypeOK, GroupOK
<1>2. ASSUME NEW c \in Consumers, Assign(c)
      PROVE  GroupInv'
  <2>1. TypeOK'
    BY <1>2 DEF Assign, ingestVars, TypeOK
  <2>2. GroupOK'
    BY <1>2 DEF Assign, TypeOK, GroupOK
  <2> QED
    BY <2>1, <2>2
<1>3. ASSUME NEW c \in Consumers, AutoCommit(c)
      PROVE  GroupInv'
  <2>1. TypeOK'
    BY <1>3 DEF AutoCommit, ingestVars, TypeOK
  <2>2. GroupOK'
    BY <1>3 DEF AutoCommit, TypeOK, GroupOK
  <2> QED
    BY <2>1, <2>2
<1>4. ASSUME NEW c \in Consumers, LoseMembership(c)
      PROVE  GroupInv'
  <2>1. TypeOK'
    <3>1. /\ owner' = Nobody /\ handovers' = handovers + 1
          /\ UNCHANGED <<kind, end, committed, position, thread, current, stopping,
                         rows, announced, failed, loopsEnded, killed>>
      BY <1>4 DEF LoseMembership, ingestVars
    <3>2. owner' \in Consumers \cup {Nobody} /\ handovers' \in Nat
      BY <3>1 DEF TypeOK
    <3> QED
      BY <3>1, <3>2 DEF TypeOK
  <2>2. GroupOK'
    BY <1>4 DEF LoseMembership, GroupOK
  <2> QED
    BY <2>1, <2>2
<1>5. ASSUME NEW c \in Consumers, Poll(c)
      PROVE  GroupInv'
  <2>1. position[c] + 1 \in Offsets /\ position[c] + 1 <= end
    BY <1>5 DEF Poll, TypeOK
  <2>2. TypeOK'
    <3>1. position[c] + 1 \in 0..MaxOffset
      BY <2>1
    <3>2. /\ position' \in [Consumers -> 0..MaxOffset] /\ current' \in [Consumers -> 0..MaxOffset]
          /\ thread' \in [Consumers -> {"polling", "handling", "publishing", "closed", "dead"}]
      BY <1>5, <3>1 DEF Poll, TypeOK
    <3> QED
      BY <1>5, <3>2 DEF Poll, ingestVars, TypeOK
  <2>3. GroupOK'
    BY <1>5, <2>1 DEF Poll, TypeOK, GroupOK
  <2> QED
    BY <2>2, <2>3
<1>6. ASSUME NEW c \in Consumers, Stop(c)
      PROVE  GroupInv'
  <2>1. TypeOK'
    BY <1>6 DEF Stop, groupVars, ingestVars, TypeOK
  <2>2. GroupOK'
    BY <1>6 DEF Stop, groupVars, ingestVars, TypeOK, GroupOK
  <2> QED
    BY <2>1, <2>2
<1>7. ASSUME NEW c \in Consumers, Close(c)
      PROVE  GroupInv'
  <2>1. /\ committed' \in 0..MaxOffset /\ owner' \in Consumers \cup {Nobody}
        /\ thread' \in [Consumers -> {"polling", "handling", "publishing", "closed", "dead"}]
    BY <1>7 DEF Close, Leave, TypeOK
  <2>2. TypeOK'
    <3>1. UNCHANGED <<kind, end, position, current, stopping, rows, announced, failed,
                      loopsEnded, killed, handovers>>
      BY <1>7 DEF Close, ingestVars
    <3> QED
      BY <2>1, <3>1 DEF TypeOK
  <2>3. committed' <= end /\ (owner' # Nobody => committed' <= position[owner'])
    BY <1>7 DEF Close, Leave, TypeOK, GroupOK
  <2>4. GroupOK'
    BY <1>7, <2>3 DEF Close, Leave, TypeOK, GroupOK
  <2> QED
    BY <2>2, <2>4
<1>8. ASSUME NEW c \in Consumers,
             \/ Skip(c) \/ InsertFails(c) \/ Publish(c) \/ PublishRaises(c)
      PROVE  GroupInv'
  <2>1. /\ BackToPoll(c)
        /\ thread[c] \in {"handling", "publishing"}
        /\ UNCHANGED <<kind, groupVars, stopping, rows, loopsEnded, killed, handovers>>
    BY <1>8 DEF Skip, InsertFails, Publish, PublishRaises, ingestVars
  <2>2. announced' \subseteq Offsets /\ failed' \subseteq Offsets
    BY <1>8 DEF Skip, InsertFails, Publish, PublishRaises, ingestVars, TypeOK, GroupOK
  <2>3. /\ thread' \in [Consumers -> {"polling", "handling", "publishing", "closed", "dead"}]
        /\ current' \in [Consumers -> 0..MaxOffset]
    BY <2>1 DEF BackToPoll, TypeOK
  <2>4. TypeOK'
    BY <2>1, <2>2, <2>3 DEF groupVars, TypeOK
  <2>5. GroupOK'
    BY <2>1 DEF BackToPoll, groupVars, TypeOK, GroupOK
  <2> QED
    BY <2>4, <2>5
<1>9. ASSUME NEW c \in Consumers, Insert(c)
      PROVE  GroupInv'
  <2>1. /\ thread' \in [Consumers -> {"polling", "handling", "publishing", "closed", "dead"}]
        /\ rows' \in [Offsets -> Nat]
    <3>1. current[c] \in Offsets /\ thread' = [thread EXCEPT ![c] = "publishing"]
          /\ rows' = [rows EXCEPT ![current[c]] = rows[current[c]] + 1]
      BY <1>9 DEF Insert, GroupOK
    <3>2. rows \in [Offsets -> Nat] /\ rows[current[c]] + 1 \in Nat
      BY <3>1 DEF TypeOK
    <3>3. rows' \in [Offsets -> Nat]
      BY <3>1, <3>2
    <3>4. thread' \in [Consumers -> {"polling", "handling", "publishing", "closed", "dead"}]
      BY <3>1 DEF TypeOK
    <3> QED
      BY <3>3, <3>4
  <2>2. TypeOK'
    <3>1. UNCHANGED <<kind, end, committed, owner, position, current, stopping, announced,
                      failed, loopsEnded, killed, handovers>>
      BY <1>9 DEF Insert, groupVars
    <3> QED
      BY <2>1, <3>1 DEF TypeOK
  <2>3. GroupOK'
    BY <1>9 DEF Insert, groupVars, TypeOK, GroupOK
  <2> QED
    BY <2>2, <2>3
<1>10. ASSUME NEW c \in Consumers, Crash(c)
       PROVE  GroupInv'
  <2>1. killed' \subseteq Offsets
    BY <1>10 DEF Crash, TypeOK, GroupOK
  <2>2. TypeOK'
    <3>1. /\ thread' = [thread EXCEPT ![c] = "dead"] /\ current' = [current EXCEPT ![c] = 0]
          /\ owner' = (IF owner = c THEN Nobody ELSE owner) /\ handovers' = handovers + 1
          /\ UNCHANGED <<kind, end, committed, position, stopping, rows, announced, failed,
                         loopsEnded>>
      BY <1>10 DEF Crash, ingestVars
    <3>2. /\ thread' \in [Consumers -> {"polling", "handling", "publishing", "closed", "dead"}]
          /\ current' \in [Consumers -> 0..MaxOffset]
      BY <3>1 DEF TypeOK
    <3>3. owner' \in Consumers \cup {Nobody} /\ handovers' \in Nat
      BY <3>1 DEF TypeOK
    <3> QED
      BY <2>1, <3>1, <3>2, <3>3 DEF TypeOK
  <2>3. GroupOK'
    BY <1>10 DEF Crash, TypeOK, GroupOK
  <2> QED
    BY <2>2, <2>3
<1>11. ASSUME NEW c \in Consumers, Restart(c)
       PROVE  GroupInv'
  <2>1. TypeOK'
    <3>1. /\ thread' = [thread EXCEPT ![c] = "polling"] /\ position' = [position EXCEPT ![c] = 0]
          /\ stopping' = [stopping EXCEPT ![c] = FALSE]
          /\ UNCHANGED <<kind, end, committed, owner, current, rows, announced, failed,
                         loopsEnded, killed, handovers>>
      BY <1>11 DEF Restart, ingestVars
    <3>2. 0 \in 0..MaxOffset
      BY KafkaBounds
    <3>3. thread' \in [Consumers -> {"polling", "handling", "publishing", "closed", "dead"}]
      BY <3>1 DEF TypeOK
    <3>4. position' \in [Consumers -> 0..MaxOffset]
      BY <3>1, <3>2 DEF TypeOK
    <3>5. stopping' \in [Consumers -> BOOLEAN]
      BY <3>1 DEF TypeOK
    <3> QED
      BY <3>1, <3>3, <3>4, <3>5 DEF TypeOK
  <2>2. GroupOK'
    BY <1>11 DEF Restart, ingestVars, TypeOK, GroupOK
  <2> QED
    BY <2>1, <2>2
<1>12. ASSUME NEW c \in Consumers, ParseRaises(c)
       PROVE  GroupInv'
  <2>1. current[c] \in Offsets
    BY <1>12 DEF ParseRaises, GroupOK
  <2>2. /\ committed' \in 0..MaxOffset /\ owner' \in Consumers \cup {Nobody}
        /\ thread' \in [Consumers -> {"polling", "handling", "publishing", "closed", "dead"}]
    BY <1>12 DEF ParseRaises, Leave, TypeOK
  <2>3. current' \in [Consumers -> 0..MaxOffset] /\ loopsEnded' \in [Offsets -> Nat]
    <3>1. /\ current' = [current EXCEPT ![c] = 0]
          /\ loopsEnded' = [loopsEnded EXCEPT ![current[c]] = loopsEnded[current[c]] + 1]
      BY <1>12 DEF ParseRaises
    <3>2. current \in [Consumers -> 0..MaxOffset] /\ 0 \in 0..MaxOffset
      BY DEF TypeOK
    <3>3. loopsEnded \in [Offsets -> Nat] /\ loopsEnded[current[c]] + 1 \in Nat
      BY <2>1 DEF TypeOK
    <3>4. current' \in [Consumers -> 0..MaxOffset]
      BY <3>1, <3>2
    <3>5. loopsEnded' \in [Offsets -> Nat]
      BY <3>1, <3>3
    <3> QED
      BY <3>4, <3>5
  <2>4. TypeOK'
    <3>1. UNCHANGED <<kind, end, position, stopping, rows, announced, failed, killed,
                      handovers>>
      BY <1>12 DEF ParseRaises
    <3> QED
      BY <2>2, <2>3, <3>1 DEF TypeOK
  <2>5. committed' <= end /\ (owner' # Nobody => committed' <= position[owner'])
    BY <1>12 DEF ParseRaises, Leave, TypeOK, GroupOK
  <2>6. GroupOK'
    BY <1>12, <2>5 DEF ParseRaises, Leave, TypeOK, GroupOK
  <2> QED
    BY <2>4, <2>6
<1>13. CASE UNCHANGED vars
  BY <1>13 DEF vars, groupVars, ingestVars, TypeOK, GroupOK
<1> QED
  BY <1>1, <1>2, <1>3, <1>4, <1>5, <1>6, <1>7, <1>8, <1>9, <1>10, <1>11, <1>12, <1>13
  DEF Next, Progress, Failure

LEMMA GroupInvariant == Spec => []GroupInv
BY GroupInit, GroupStep, PTL DEF Spec

(* The offsets, the threads and the tables keep their types. *)
THEOREM KafkaTypeCorrect == Spec => []TypeOK
BY GroupInvariant, PTL DEF GroupInv

-----------------------------------------------------------------------------
(* What has been read is accounted for *)

(* The frontier moves with the owner's polls only; handing the partition    *)
(* over takes it back to the committed offset.                              *)
LEMMA FrontierSteps ==
    ASSUME GroupInv, [Next]_vars
    PROVE  /\ Frontier \in 0..MaxOffset
           /\ \/ Frontier' = Frontier
              \/ /\ Frontier' \in 0..Frontier
                 /\ \E c \in Consumers : LoseMembership(c) \/ Crash(c)
              \/ /\ Frontier' = Frontier + 1
                 /\ Frontier' \in Offsets
                 /\ \E c \in Consumers : Poll(c)
           /\ \A c \in Consumers :
                Poll(c) => Frontier' = Frontier + 1 /\ current'[c] = Frontier'
<1> USE NobodyIsNoConsumer, KafkaBounds DEF GroupInv, TypeOK, GroupOK, Frontier, Offsets
<1>0. Frontier \in 0..MaxOffset
  OBVIOUS
<1>1. ASSUME NEW c \in Consumers,
             Assign(c) \/ AutoCommit(c) \/ Close(c) \/ ParseRaises(c)
      PROVE  Frontier' = Frontier
  BY <1>1 DEF Assign, AutoCommit, Close, ParseRaises, Leave
<1>2. ASSUME NEW c \in Consumers, LoseMembership(c) \/ Crash(c)
      PROVE  Frontier' \in 0..Frontier
  BY <1>2 DEF LoseMembership, Crash
<1>3. ASSUME NEW c \in Consumers, Poll(c)
      PROVE  /\ Frontier' = Frontier + 1
             /\ Frontier' \in Offsets
             /\ current'[c] = Frontier'
  BY <1>3 DEF Poll
<1>4. ASSUME NEW c \in Consumers, Restart(c)
      PROVE  Frontier' = Frontier
  BY <1>4 DEF Restart, Member
<1>5. ASSUME UNCHANGED groupVars
      PROVE  Frontier' = Frontier
  BY <1>5 DEF groupVars
<1>6. Produce => Frontier' = Frontier
  BY DEF Produce
<1>7. ASSUME NEW c \in Consumers,
             \/ Stop(c) \/ Skip(c) \/ Insert(c) \/ Publish(c)
             \/ InsertFails(c) \/ PublishRaises(c)
      PROVE  UNCHANGED groupVars
  BY <1>7 DEF Stop, Skip, Insert, Publish, InsertFails, PublishRaises
<1>8. UNCHANGED vars => UNCHANGED groupVars
  BY DEF vars
<1> HIDE DEF GroupInv, TypeOK, GroupOK, Frontier, Offsets
<1> QED
  BY <1>0, <1>1, <1>2, <1>3, <1>4, <1>5, <1>6, <1>7, <1>8 DEF Next, Progress, Failure

(* A message that is accounted for stays so: it leaves the hand that has it *)
(* as a row, as a failed INSERT or with the worker, unless it is no alert.  *)
LEMMA AccountedStays ==
    ASSUME GroupInv, [Next]_vars, NEW o \in Offsets, Accounted(o)
    PROVE  Accounted(o)'
<1> USE DEF GroupInv, TypeOK, GroupOK, Accounted, InHand
<1>1. CASE Produce
  BY <1>1 DEF Produce, ingestVars
<1>2. ASSUME NEW c \in Consumers,
             Assign(c) \/ AutoCommit(c) \/ LoseMembership(c) \/ Stop(c)
      PROVE  Accounted(o)'
  BY <1>2 DEF Assign, AutoCommit, LoseMembership, Stop, ingestVars
<1>3. ASSUME NEW c \in Consumers, Poll(c) \/ Close(c) \/ Restart(c)
      PROVE  Accounted(o)'
  <2>1. /\ thread[c] # "handling"
        /\ \A d \in Consumers \ {c} : thread'[d] = thread[d] /\ current'[d] = current[d]
        /\ UNCHANGED <<kind, rows, failed, killed>>
    BY <1>3 DEF Poll, Close, Leave, Restart, ingestVars
  <2> QED
    BY <2>1
<1>4. ASSUME NEW c \in Consumers,
             Skip(c) \/ ParseRaises(c) \/ Publish(c) \/ PublishRaises(c)
      PROVE  Accounted(o)'
  <2>1. /\ thread[c] = "handling" => kind[current[c]] # "alert"
        /\ \A d \in Consumers \ {c} : thread'[d] = thread[d] /\ current'[d] = current[d]
        /\ UNCHANGED <<kind, rows, failed, killed>>
    BY <1>4
    DEF Skip, ParseRaises, Leave, Publish, PublishRaises, BackToPoll, ingestVars
  <2> QED
    BY <2>1
<1>5. ASSUME NEW c \in Consumers, Insert(c)
      PROVE  Accounted(o)'
  <2>1. /\ rows'[current[c]] > 0
        /\ rows[o] > 0 => rows'[o] > 0
        /\ \A d \in Consumers \ {c} : thread'[d] = thread[d]
        /\ UNCHANGED <<kind, current, failed, killed>>
    BY <1>5 DEF Insert
  <2> QED
    BY <2>1
<1>6. ASSUME NEW c \in Consumers, InsertFails(c)
      PROVE  Accounted(o)'
  <2>1. /\ failed' = failed \cup {current[c]}
        /\ \A d \in Consumers \ {c} : thread'[d] = thread[d] /\ current'[d] = current[d]
        /\ UNCHANGED <<kind, rows, killed>>
    BY <1>6 DEF InsertFails, BackToPoll
  <2> QED
    BY <2>1
<1>7. ASSUME NEW c \in Consumers, Crash(c)
      PROVE  Accounted(o)'
  <2>1. /\ killed \subseteq killed'
        /\ thread[c] = "handling" => current[c] \in killed'
        /\ \A d \in Consumers \ {c} : thread'[d] = thread[d] /\ current'[d] = current[d]
        /\ UNCHANGED <<kind, rows, failed>>
    BY <1>7 DEF Crash, ingestVars
  <2> QED
    BY <2>1
<1>8. CASE UNCHANGED vars
  BY <1>8 DEF vars, ingestVars
<1> QED
  BY <1>1, <1>2, <1>3, <1>4, <1>5, <1>6, <1>7, <1>8 DEF Next, Progress, Failure

LEMMA ReadAccountedStep ==
    ASSUME GroupInv, ReadIsAccountedFor, [Next]_vars
    PROVE  ReadIsAccountedFor'
<1>0. Frontier \in 0..MaxOffset
  BY FrontierSteps
<1>1. ASSUME NEW o \in Offsets, o <= Frontier
      PROVE  Accounted(o)'
  BY <1>0, <1>1, AccountedStays DEF ReadIsAccountedFor, Offsets
<1>2. CASE Frontier' \in 0..Frontier
  BY <1>0, <1>1, <1>2, KafkaBounds DEF ReadIsAccountedFor, Offsets
<1>3. ASSUME NEW c \in Consumers, Poll(c), Frontier' = Frontier + 1,
             Frontier' \in Offsets, current'[c] = Frontier'
      PROVE  ReadIsAccountedFor'
  <2>1. PICK n \in Offsets : n = Frontier + 1
    BY <1>3
  <2>2. Accounted(n)'
    <3>1. thread'[c] = "handling" /\ current'[c] = n
      BY <1>3, <2>1 DEF Poll, GroupInv, TypeOK
    <3> QED
      BY <3>1 DEF Accounted, InHand
  <2>3. \A o \in 1..n : Accounted(o)'
    BY <1>0, <1>1, <2>1, <2>2, KafkaBounds DEF Offsets
  <2> QED
    BY <1>3, <2>1, <2>3 DEF ReadIsAccountedFor
<1> QED
  BY <1>0, <1>2, <1>3, FrontierSteps

LEMMA AccountedInvariant == Spec => [](GroupInv /\ ReadIsAccountedFor)
<1>1. Init => ReadIsAccountedFor
  BY DEF Init, ReadIsAccountedFor, Frontier
<1> QED
  BY <1>1, GroupInit, GroupStep, ReadAccountedStep, PTL DEF Spec

(* Every alert the group will not read again is a row, is in a thread's     *)
(* hand, or was lost in one of the two known ways.                          *)
THEOREM CommittedAlertsAccounted == Spec => []CommittedIsAccountedFor
<1>1. GroupInv /\ ReadIsAccountedFor => CommittedIsAccountedFor
  <2> SUFFICES ASSUME GroupInv, ReadIsAccountedFor, NEW o \in 1..committed
               PROVE  Accounted(o)
    BY DEF CommittedIsAccountedFor, Accounted
  <2>1. o \in 1..Frontier
    BY NobodyIsNoConsumer DEF GroupInv, TypeOK, GroupOK, Frontier
  <2> QED
    BY <2>1 DEF ReadIsAccountedFor
<1> QED
  BY <1>1, AccountedInvariant, PTL

-----------------------------------------------------------------------------
(* Duplicates need handovers *)

(* How a step moves the copies of a message: only a poll adds one. *)
LEMMA CopiesStep ==
    ASSUME GroupInv, [Next]_vars, NEW o \in Offsets, IsFiniteSet(Handlers(o))
    PROVE  /\ IsFiniteSet(Handlers(o)')
           /\ \/ Copies(o)' <= Copies(o)
              \/ /\ Copies(o)' = Copies(o) + 1
                 /\ \E c \in Consumers : Poll(c) /\ current'[c] = o
<1> USE DEF GroupInv, TypeOK, GroupOK
<1> DEFINE Goal == /\ IsFiniteSet(Handlers(o)')
                   /\ \/ Copies(o)' <= Copies(o)
                      \/ /\ Copies(o)' = Copies(o) + 1
                         /\ \E c \in Consumers : Poll(c) /\ current'[c] = o
<1>0. Cardinality(Handlers(o)) \in Nat /\ rows[o] \in Nat /\ loopsEnded[o] \in Nat
  BY FS_CardinalityType
<1>1. ASSUME Handlers(o)' = Handlers(o), rows'[o] = rows[o], loopsEnded'[o] = loopsEnded[o]
      PROVE  Goal
  BY <1>0, <1>1 DEF Copies
<1>2. ASSUME NEW c \in Consumers, Handlers(o)' = Handlers(o) \ {c},
             rows'[o] = rows[o], loopsEnded'[o] = loopsEnded[o]
      PROVE  Goal
  <2>1. /\ IsFiniteSet(Handlers(o) \ {c})
        /\ Cardinality(Handlers(o) \ {c}) <= Cardinality(Handlers(o))
    BY FS_Subset
  <2>2. Cardinality(Handlers(o) \ {c}) \in Nat
    BY <2>1, FS_CardinalityType
  <2> QED
    BY <1>0, <1>2, <2>1, <2>2 DEF Copies
<1>3. ASSUME NEW c \in Consumers, Poll(c)
      PROVE  Goal
  <2>1. /\ thread[c] = "polling" /\ thread' = [thread EXCEPT ![c] = "handling"]
        /\ current' = [current EXCEPT ![c] = position[c] + 1]
        /\ rows' = rows /\ loopsEnded' = loopsEnded
    BY <1>3 DEF Poll, ingestVars
  <2>2. CASE current'[c] = o
    <3>1. Handlers(o)' = Handlers(o) \cup {c} /\ c \notin Handlers(o)
      BY <2>1, <2>2 DEF Handlers
    <3>2. /\ IsFiniteSet(Handlers(o) \cup {c})
          /\ Cardinality(Handlers(o) \cup {c}) = Cardinality(Handlers(o)) + 1
      BY <3>1, FS_AddElement
    <3> QED
      BY <1>0, <1>3, <2>1, <2>2, <3>1, <3>2 DEF Copies
  <2>3. CASE current'[c] # o
    <3>1. Handlers(o)' = Handlers(o)
      BY <2>1, <2>3 DEF Handlers
    <3> QED
      BY <1>1, <2>1, <3>1
  <2> QED
    BY <2>2, <2>3
<1>4. ASSUME NEW c \in Consumers, Insert(c) \/ ParseRaises(c)
      PROVE  Goal
  <2>1. /\ thread[c] = "handling" /\ thread'[c] # "handling"
        /\ \A d \in Consumers \ {c} : thread'[d] = thread[d] /\ current'[d] = current[d]
    BY <1>4 DEF Insert, ParseRaises, Leave
  <2>2. CASE current[c] = o
    <3>1. Handlers(o)' = Handlers(o) \ {c} /\ c \in Handlers(o)
      BY <2>1, <2>2 DEF Handlers
    <3>2. /\ IsFiniteSet(Handlers(o) \ {c})
          /\ Cardinality(Handlers(o) \ {c}) = Cardinality(Handlers(o)) - 1
      BY <3>1, FS_RemoveElement
    <3>3. rows'[o] + loopsEnded'[o] = rows[o] + loopsEnded[o] + 1
      <4>1. CASE Insert(c)
        <5>1. rows' = [rows EXCEPT ![o] = rows[o] + 1] /\ loopsEnded' = loopsEnded
          BY <2>2, <4>1 DEF Insert
        <5> QED
          BY <1>0, <5>1
      <4>2. CASE ParseRaises(c)
        <5>1. loopsEnded' = [loopsEnded EXCEPT ![o] = loopsEnded[o] + 1] /\ rows' = rows
          BY <2>2, <4>2 DEF ParseRaises
        <5> QED
          BY <1>0, <5>1
      <4> QED
        BY <1>4, <4>1, <4>2
    <3>4. rows'[o] \in Nat /\ loopsEnded'[o] \in Nat
      BY GroupStep
    <3>5. Cardinality(Handlers(o)') = Cardinality(Handlers(o)) - 1 /\ IsFiniteSet(Handlers(o)')
      BY <3>1, <3>2
    <3> QED
      BY <1>0, <3>3, <3>4, <3>5 DEF Copies
  <2>3. CASE current[c] # o
    <3>1. Handlers(o)' = Handlers(o)
      BY <2>1, <2>3 DEF Handlers
    <3>2. rows'[o] = rows[o] /\ loopsEnded'[o] = loopsEnded[o]
      BY <1>4, <2>3 DEF Insert, ParseRaises
    <3> QED
      BY <1>1, <3>1, <3>2
  <2> QED
    BY <2>2, <2>3
<1>5. ASSUME NEW c \in Consumers,
             \/ Skip(c) \/ InsertFails(c) \/ Publish(c) \/ PublishRaises(c)
             \/ Close(c) \/ Crash(c) \/ Restart(c)
      PROVE  Goal
  <2>1. /\ thread'[c] # "handling"
        /\ \A d \in Consumers \ {c} : thread'[d] = thread[d] /\ current'[d] = current[d]
        /\ rows' = rows /\ loopsEnded' = loopsEnded
    BY <1>5
    DEF Skip, InsertFails, Publish, PublishRaises, Close, Leave, Crash, Restart, BackToPoll, ingestVars
  <2>2. Handlers(o)' = Handlers(o) \ {c}
    BY <2>1 DEF Handlers
  <2> QED
    BY <1>2, <2>1, <2>2
<1>6. ASSUME UNCHANGED <<thread, current, rows, loopsEnded>>
      PROVE  Goal
  BY <1>1, <1>6 DEF Handlers
<1>7. ASSUME NEW c \in Consumers,
             Assign(c) \/ AutoCommit(c) \/ LoseMembership(c) \/ Stop(c)
      PROVE  UNCHANGED <<thread, current, rows, loopsEnded>>
  BY <1>7 DEF Assign, AutoCommit, LoseMembership, Stop, ingestVars
<1>8. Produce \/ UNCHANGED vars => UNCHANGED <<thread, current, rows, loopsEnded>>
  BY DEF Produce, vars, ingestVars
<1> HIDE DEF Goal
<1>9. Goal
  BY <1>3, <1>4, <1>5, <1>6, <1>7, <1>8 DEF Next, Progress, Failure
<1> QED
  BY <1>9 DEF Goal

(* A poll takes the copies of the next message over the frontier, which     *)
(* allows for one; a handover may take the frontier back, and allows for    *)
(* one more.                                                                *)
LEMMA CopiesBoundedStep ==
    ASSUME GroupInv, CopiesBounded, [Next]_vars
    PROVE  CopiesBounded'
<1> SUFFICES ASSUME NEW o \in Offsets
             PROVE  /\ IsFiniteSet(Handlers(o)')
                    /\ Copies(o)' <= handovers' + (IF o <= Frontier' THEN 1 ELSE 0)
  BY DEF CopiesBounded, Offsets
<1>0. /\ IsFiniteSet(Handlers(o))
      /\ Copies(o) <= handovers + (IF o <= Frontier THEN 1 ELSE 0)
  BY DEF CopiesBounded
<1>1. IsFiniteSet(Handlers(o)')
  BY <1>0, CopiesStep
<1>2. GroupInv'
  BY GroupStep
<1>3. /\ Copies(o) \in Nat /\ Copies(o)' \in Nat
      /\ handovers \in Nat /\ o \in Nat /\ Frontier \in Nat
  <2>1. Cardinality(Handlers(o)) \in Nat /\ Cardinality(Handlers(o)') \in Nat
    BY <1>0, <1>1, FS_CardinalityType
  <2>2. /\ rows[o] \in Nat /\ rows'[o] \in Nat /\ handovers \in Nat
        /\ loopsEnded[o] \in Nat /\ loopsEnded'[o] \in Nat
    BY <1>2 DEF GroupInv, TypeOK
  <2>o. o \in Nat
    BY DEF Offsets
  <2>3. Copies(o) \in Nat /\ Copies(o)' \in Nat
    BY <2>1, <2>2 DEF Copies
  <2>4. Frontier \in Nat
    BY FrontierSteps, KafkaBounds
  <2> QED
    BY <2>2, <2>o, <2>3, <2>4
<1>4. handovers' \in {handovers, handovers + 1}
  <2>1. ASSUME NEW c \in Consumers, Crash(c) \/ LoseMembership(c)
        PROVE  handovers' = handovers + 1
    BY <2>1 DEF Crash, LoseMembership
  <2>2. ASSUME NEW c \in Consumers,
               \/ Assign(c) \/ AutoCommit(c) \/ Progress(c) \/ Stop(c)
               \/ InsertFails(c) \/ PublishRaises(c)
        PROVE  handovers' = handovers
    BY <2>2
    DEF Assign, AutoCommit, Progress, Poll, Close, Skip, ParseRaises, Insert, Publish, Restart, Stop,
        InsertFails, PublishRaises
  <2>3. Produce \/ UNCHANGED vars => handovers' = handovers
    BY DEF Produce, vars
  <2> QED
    BY <2>1, <2>2, <2>3 DEF Next, Failure
<1>5. CASE Frontier' = Frontier
  <2>1. \A c \in Consumers : ~Poll(c)
    BY <1>3, <1>5, FrontierSteps
  <2>2. Copies(o)' <= Copies(o)
    BY <1>0, <2>1, CopiesStep
  <2> QED
    BY <1>0, <1>1, <1>3, <1>4, <1>5, <2>2
<1>6. CASE \E c \in Consumers : LoseMembership(c) \/ Crash(c)
  <2>1. handovers' = handovers + 1
    BY <1>6 DEF LoseMembership, Crash
  <2>2. \A c \in Consumers : ~Poll(c)
    BY <1>3, <2>1 DEF Poll
  <2>3. Copies(o)' <= Copies(o)
    BY <1>0, <2>2, CopiesStep
  <2> QED
    BY <1>0, <1>1, <1>3, <2>1, <2>3
<1>7. ASSUME NEW c \in Consumers, Poll(c), Frontier' = Frontier + 1,
             current'[c] = Frontier'
      PROVE  Copies(o)' <= handovers' + (IF o <= Frontier' THEN 1 ELSE 0)
  <2>1. handovers' = handovers
    BY <1>7 DEF Poll
  <2>2. CASE o = Frontier'
    <3>1. Copies(o)' <= Copies(o) + 1
      BY <1>0, <1>3, CopiesStep
    <3> QED
      BY <1>0, <1>3, <1>7, <2>1, <2>2, <3>1
  <2>3. CASE o # Frontier'
    <3>1. Copies(o)' <= Copies(o)
      BY <1>0, <2>3, FrontierSteps, CopiesStep
    <3> QED
      BY <1>0, <1>3, <1>7, <2>1, <2>3, <3>1
  <2> QED
    BY <2>2, <2>3
<1> QED
  BY <1>1, <1>5, <1>6, <1>7, FrontierSteps

LEMMA CopiesInvariant == Spec => [](GroupInv /\ CopiesBounded)
<1>1. Init => CopiesBounded
  <2> SUFFICES ASSUME Init, NEW o \in Offsets
               PROVE  IsFiniteSet(Handlers(o)) /\ Copies(o) = 0
    BY DEF CopiesBounded, Init, Frontier, Offsets
  <2>1. Handlers(o) = {} /\ rows[o] = 0 /\ loopsEnded[o] = 0
    BY DEF Init, Handlers
  <2> QED
    BY <2>1, FS_EmptySet DEF Copies
<1> QED
  BY <1>1, GroupInit, GroupStep, CopiesBoundedStep, PTL DEF Spec

LEMMA FewCopies ==
    ASSUME GroupInv, CopiesBounded, NEW o \in Offsets
    PROVE  rows[o] <= 1 + handovers /\ loopsEnded[o] <= 1 + handovers
<1>1. /\ Cardinality(Handlers(o)) \in Nat /\ handovers \in Nat
      /\ rows[o] \in Nat /\ loopsEnded[o] \in Nat
  BY FS_CardinalityType DEF CopiesBounded, GroupInv, TypeOK
<1> QED
  BY <1>1 DEF CopiesBounded, Copies

(* A message becomes at most one row more than there were handovers. *)
THEOREM RowsBoundedByHandovers == Spec => []DuplicatesNeedHandovers
<1>1. GroupInv /\ CopiesBounded => DuplicatesNeedHandovers
  BY FewCopies DEF DuplicatesNeedHandovers
<1> QED
  BY <1>1, CopiesInvariant, PTL

(* A message ends at most one consumer loop more than there were handovers, *)
(* whatever the others are doing: it does not travel through the group.     *)
THEOREM LoopsBoundedByHandovers == Spec => []OneLoopPerMessage
<1>1. GroupInv /\ CopiesBounded => OneLoopPerMessage
  BY FewCopies DEF OneLoopPerMessage
<1> QED
  BY <1>1, CopiesInvariant, PTL

=============================================================================
