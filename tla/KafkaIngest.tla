----------------------------- MODULE KafkaIngest -----------------------------
(***************************************************************************)
(* The Kafka path into the queue: the consumer thread that every worker     *)
(* process starts (src/app.py, src/kafka/consumer.py) on the topic          *)
(* "incidents", all of them in the group "soc-dashboard".                   *)
(*                                                                          *)
(* confluent_kafka, modelled from its configuration (enable.auto.commit,    *)
(* auto.offset.reset earliest): poll() marks a message for commit as it     *)
(* returns it, a background thread commits what is marked, and the group    *)
(* gives the partition to one member at a time, from the committed offset.  *)
(*                                                                          *)
(* Bounds of the model: one partition of MaxOffset messages; MaxHandovers   *)
(* crashes and lost group memberships.                                      *)
(***************************************************************************)
EXTENDS Integers

CONSTANTS
    Consumers,    \* the kafka-consumer threads, one for each worker process
    Nobody,       \* no consumer has the partition
    MaxOffset,    \* bound on the messages
    MaxHandovers  \* bound on crashes and lost memberships

ASSUME NobodyIsNoConsumer == Nobody \notin Consumers
ASSUME KafkaBounds == MaxOffset \in Nat /\ MaxHandovers \in Nat

VARIABLES
    kind,       \* what each message is; fixed, but unread before it is produced
    end,        \* the last offset produced
    committed,  \* the group's offset: every message up to it has been consumed
    owner,      \* the consumer the partition is assigned to
    position,   \* the last offset poll() has returned to each consumer
    thread,     \* what each consumer thread is doing
    current,    \* the message it is handling, 0: none
    stopping,   \* its _stop event
    rows,       \* how many alerts rows each message has become
    announced,  \* the messages whose alert was published to the streams
    failed,     \* history: messages whose INSERT failed
    killed,     \* history: messages a consumer died with
    loopsEnded, \* history: how many consumer loops each message has ended
    handovers   \* history: crashes and lost memberships so far

groupVars == <<end, committed, owner, position>>
ingestVars == <<rows, announced, failed, loopsEnded>>
vars == <<kind, groupVars, thread, current, stopping, ingestVars, killed, handovers>>

Offsets == 1..MaxOffset

(* JSON dict with a title, a category and a known severity; JSON dict that  *)
(* _kafka_ingest refuses; bytes that are no UTF-8 or no JSON, or JSON that  *)
(* is no dict; a message whose parsing raises anything else: a tombstone,   *)
(* whose value is None, arrays nested too deeply, a number too long.        *)
Kinds == {"alert", "invalid", "malformed", "raising"}

-----------------------------------------------------------------------------
(* The topic and the consumer group: external. *)

Produce ==
    /\ end < MaxOffset
    /\ end' = end + 1
    /\ UNCHANGED <<kind, committed, owner, position, thread, current, stopping,
                   ingestVars, killed, handovers>>

Member(c) == thread[c] \notin {"dead", "closed"}

(* The coordinator gives the free partition to a member. *)
Assign(c) ==
    /\ owner = Nobody
    /\ Member(c)
    /\ owner' = c
    /\ position' = [position EXCEPT ![c] = committed]
    /\ UNCHANGED <<kind, end, committed, thread, current, stopping,
                   ingestVars, killed, handovers>>

(* The background thread commits the offsets poll() has marked: the message *)
(* may still be in _handle.                                                 *)
AutoCommit(c) ==
    /\ owner = c
    /\ committed < position[c]
    /\ committed' = position[c]
    /\ UNCHANGED <<kind, end, owner, position, thread, current, stopping,
                   ingestVars, killed, handovers>>

(* The member misses max.poll.interval.ms or its session (the first ingest  *)
(* downloads the embedding model): the group takes the partition away while *)
(* the thread goes on with its message.                                     *)
LoseMembership(c) ==
    /\ owner = c
    /\ handovers < MaxHandovers
    /\ handovers' = handovers + 1
    /\ owner' = Nobody
    /\ UNCHANGED <<kind, end, committed, position, thread, current, stopping,
                   ingestVars, killed>>

-----------------------------------------------------------------------------
(* _run *)

(* Fault: what poll() returns when there is no message is handled, too. *)
FaultHandleNone(c) ==
    /\ thread[c] = "polling"
    /\ ~stopping[c]
    /\ owner = c
    /\ position' = [position EXCEPT ![c] = position[c] + 1]
    /\ current' = [current EXCEPT ![c] = position[c] + 1]
    /\ thread' = [thread EXCEPT ![c] = "handling"]
    /\ UNCHANGED <<kind, end, committed, owner, stopping, ingestVars, killed, handovers>>

Poll(c) ==
    /\ thread[c] = "polling"
    /\ ~stopping[c]
    /\ owner = c
    /\ position[c] < end
    /\ position' = [position EXCEPT ![c] = position[c] + 1]
    /\ current' = [current EXCEPT ![c] = position[c] + 1]
    /\ thread' = [thread EXCEPT ![c] = "handling"]
    /\ UNCHANGED <<kind, end, committed, owner, stopping, ingestVars, killed, handovers>>

(* Nobody calls stop() but a test; the loop sees it before its next poll. *)
Stop(c) ==
    /\ Member(c)
    /\ ~stopping[c]
    /\ stopping' = [stopping EXCEPT ![c] = TRUE]
    /\ UNCHANGED <<kind, groupVars, thread, current, ingestVars, killed, handovers>>

(* Fault: the loop ends without consumer.close(): the session expires and   *)
(* nothing is committed.                                                    *)
FaultLeave(c) ==
    /\ thread' = [thread EXCEPT ![c] = "closed"]
    /\ owner' = IF owner = c THEN Nobody ELSE owner
    /\ UNCHANGED committed

(* The finally block of the loop: consumer.close() commits what is marked   *)
(* and leaves the group.  The process goes on without a consumer.           *)
Leave(c) ==
    /\ thread' = [thread EXCEPT ![c] = "closed"]
    /\ IF owner = c
         THEN committed' = position[c] /\ owner' = Nobody
         ELSE UNCHANGED <<committed, owner>>

Close(c) ==
    /\ thread[c] = "polling"
    /\ stopping[c]
    /\ Leave(c)
    /\ UNCHANGED <<kind, end, position, current, stopping, ingestVars, killed, handovers>>

-----------------------------------------------------------------------------
(* _handle and the _kafka_ingest it calls *)

BackToPoll(c) ==
    /\ thread' = [thread EXCEPT ![c] = "polling"]
    /\ current' = [current EXCEPT ![c] = 0]

(* Fault: a refused message is left for later and read again. *)
FaultReadAgain(c) ==
    /\ thread[c] = "handling"
    /\ kind[current[c]] \in {"invalid", "malformed"}
    /\ BackToPoll(c)
    /\ position' = [position EXCEPT ![c] = current[c] - 1]
    /\ UNCHANGED <<kind, end, committed, owner, stopping, ingestVars, killed, handovers>>

(* Fault: the severity is compared before it is upper-cased, and alerts are *)
(* refused as well.                                                         *)
FaultSkipAlerts(c) ==
    /\ thread[c] = "handling"
    /\ kind[current[c]] # "raising"
    /\ BackToPoll(c)
    /\ UNCHANGED <<kind, groupVars, stopping, ingestVars, killed, handovers>>

(* JSONDecodeError, UnicodeDecodeError, not a dict, or refused with         *)
(* ValueError by _kafka_ingest: logged and skipped.                         *)
Skip(c) ==
    /\ thread[c] = "handling"
    /\ kind[current[c]] \in {"invalid", "malformed"}
    /\ BackToPoll(c)
    /\ UNCHANGED <<kind, groupVars, stopping, ingestVars, killed, handovers>>

(* Any other exception of msg.value().decode() and json.loads() leaves      *)
(* _handle and the loop: the thread ends.                                   *)
ParseRaises(c) ==
    /\ thread[c] = "handling"
    /\ kind[current[c]] = "raising"
    /\ Leave(c)
    /\ current' = [current EXCEPT ![c] = 0]
    /\ loopsEnded' = [loopsEnded EXCEPT ![current[c]] = @ + 1]
    /\ UNCHANGED <<kind, end, position, stopping, rows, announced, failed, killed, handovers>>

(* _insert_alert has committed the row. *)
Insert(c) ==
    /\ thread[c] = "handling"
    /\ kind[current[c]] = "alert"
    /\ rows' = [rows EXCEPT ![current[c]] = @ + 1]
    /\ thread' = [thread EXCEPT ![c] = "publishing"]
    /\ UNCHANGED <<kind, groupVars, current, stopping, announced, failed, loopsEnded,
                   killed, handovers>>

(* Fault: the ingest is retried after an exception. *)
FaultRetryIngest(c) ==
    /\ thread[c] = "publishing"
    /\ thread' = [thread EXCEPT ![c] = "handling"]
    /\ UNCHANGED <<kind, groupVars, current, stopping, ingestVars, killed, handovers>>

(* The database is away: the exception is logged, the message is over.      *)
InsertFails(c) ==
    /\ thread[c] = "handling"
    /\ kind[current[c]] = "alert"
    /\ failed' = failed \cup {current[c]}
    /\ BackToPoll(c)
    /\ UNCHANGED <<kind, groupVars, stopping, rows, announced, loopsEnded, killed, handovers>>

Publish(c) ==
    /\ thread[c] = "publishing"
    /\ announced' = announced \cup {current[c]}
    /\ BackToPoll(c)
    /\ UNCHANGED <<kind, groupVars, stopping, rows, failed, loopsEnded, killed, handovers>>

(* The embedding or the Redis publish raises after the commit; logged as a  *)
(* failed ingest.                                                           *)
PublishRaises(c) ==
    /\ thread[c] = "publishing"
    /\ BackToPoll(c)
    /\ UNCHANGED <<kind, groupVars, stopping, ingestVars, killed, handovers>>

-----------------------------------------------------------------------------
(* The worker process dies and takes its daemon thread along: no close().   *)
Crash(c) ==
    /\ thread[c] # "dead"
    /\ handovers < MaxHandovers
    /\ handovers' = handovers + 1
    /\ thread' = [thread EXCEPT ![c] = "dead"]
    /\ current' = [current EXCEPT ![c] = 0]
    /\ killed' = killed \cup (IF thread[c] = "handling" THEN {current[c]} ELSE {})
    /\ owner' = IF owner = c THEN Nobody ELSE owner
    /\ UNCHANGED <<kind, end, committed, position, stopping, ingestVars>>

(* gunicorn boots a new worker; importing app.py starts its consumer. *)
Restart(c) ==
    /\ thread[c] = "dead"
    /\ thread' = [thread EXCEPT ![c] = "polling"]
    /\ position' = [position EXCEPT ![c] = 0]
    /\ stopping' = [stopping EXCEPT ![c] = FALSE]
    /\ UNCHANGED <<kind, end, committed, owner, current, ingestVars, killed, handovers>>

-----------------------------------------------------------------------------
Init ==
    /\ kind \in [Offsets -> Kinds]
    /\ end = 0
    /\ committed = 0
    /\ owner = Nobody
    /\ position = [c \in Consumers |-> 0]
    /\ thread = [c \in Consumers |-> "polling"]
    /\ current = [c \in Consumers |-> 0]
    /\ stopping = [c \in Consumers |-> FALSE]
    /\ rows = [o \in Offsets |-> 0]
    /\ announced = {}
    /\ failed = {}
    /\ killed = {}
    /\ loopsEnded = [o \in Offsets |-> 0]
    /\ handovers = 0

(* The thread runs, the group assigns its partition, and gunicorn replaces  *)
(* a dead worker.                                                           *)
Progress(c) ==
    \/ Poll(c)
    \/ Close(c)
    \/ Skip(c)
    \/ ParseRaises(c)
    \/ Insert(c)
    \/ Publish(c)
    \/ Restart(c)

Failure(c) ==
    \/ LoseMembership(c)
    \/ InsertFails(c)
    \/ PublishRaises(c)
    \/ Crash(c)

Next ==
    \/ Produce
    \/ \E c \in Consumers : Assign(c) \/ AutoCommit(c) \/ Progress(c) \/ Stop(c) \/ Failure(c)

Spec == Init /\ [][Next]_vars

FairSpec ==
    /\ Spec
    /\ \A c \in Consumers : WF_vars(Progress(c))
    /\ WF_vars(\E c \in Consumers : Assign(c))

-----------------------------------------------------------------------------
(* Properties *)

TypeOK ==
    /\ kind \in [Offsets -> Kinds]
    /\ end \in 0..MaxOffset /\ committed \in 0..MaxOffset
    /\ owner \in Consumers \cup {Nobody}
    /\ position \in [Consumers -> 0..MaxOffset] /\ current \in [Consumers -> 0..MaxOffset]
    /\ thread \in [Consumers -> {"polling", "handling", "publishing", "closed", "dead"}]
    /\ stopping \in [Consumers -> BOOLEAN]
    /\ rows \in [Offsets -> Nat]
    /\ announced \subseteq Offsets /\ failed \subseteq Offsets /\ killed \subseteq Offsets
    /\ loopsEnded \in [Offsets -> Nat]
    /\ handovers \in Nat

InHand(o) == \E c \in Consumers : current[c] = o /\ thread[c] = "handling"

(* What the group has moved past is accounted for: an alert at or below the *)
(* committed offset is a row, is about to become one, or was lost in one of *)
(* two ways only, a failed INSERT and a worker that died with the message.  *)
CommittedIsAccountedFor ==
    \A o \in 1..committed :
        kind[o] = "alert" => rows[o] > 0 \/ InHand(o) \/ o \in failed \cup killed

(* A message becomes a second row only through a crash or a lost            *)
(* membership, each of which replays it at most once.                       *)
DuplicatesNeedHandovers == \A o \in Offsets : rows[o] <= 1 + handovers

(* A message that ends the loop which reads it does not go through the      *)
(* group and end one consumer after the other: its offset is committed on   *)
(* the way out, and only a handover lets another consumer read it again.    *)
OneLoopPerMessage == \A o \in Offsets : loopsEnded[o] <= 1 + handovers

(* Every alert is dealt with in the end, unless a worker died with it or    *)
(* there comes a moment at which no worker has a consumer loop left,        *)
(* stopped or ended by messages: what is no alert does not hold up the      *)
(* alerts behind it as long as one loop runs.                               *)
MessagesAreConsumed ==
    \A o \in Offsets :
        (o <= end /\ kind[o] = "alert")
            ~> (rows[o] > 0 \/ o \in failed \cup killed
                \/ \A c \in Consumers : thread[c] = "closed")

(* README: alerts published to the Kafka topic "land in one queue".  An     *)
(* alert the group will not read again is in the table or on its way.       *)
AlertsLandInTheQueue ==
    \A o \in 1..committed : kind[o] = "alert" => rows[o] > 0 \/ InHand(o)

=============================================================================
