------------------------------- MODULE SseHub -------------------------------
(***************************************************************************)
(* The in-process publish/subscribe hub of src/app.py: _sse_publish,        *)
(* _sse_subscribe, _sse_unsubscribe and the generator of /api/stream, as    *)
(* the threads of one server process run them (no REDIS_URL).               *)
(*                                                                          *)
(* _sse_lock guards the list of subscribers.  It does not guard the queues: *)
(* a stream takes an event out of its queue while a publisher is on its way *)
(* through the list.                                                        *)
(*                                                                          *)
(* Bounds of the model: MaxEvents events.  MaxSize stands for the 100 of    *)
(* queue.Queue(maxsize=100).                                                *)
(***************************************************************************)
EXTENDS Integers, Sequences

CONSTANTS
    Publishers,  \* request and Kafka threads that call _sse_publish
    Streams,     \* open pages, each with one generator of /api/stream
    Nobody,      \* no thread holds _sse_lock
    MaxSize,     \* capacity of a subscriber's queue
    MaxEvents    \* bound on the events published

ASSUME NobodyIsNoPublisher == Nobody \notin Publishers
ASSUME QueueHoldsOne == MaxSize \in Nat \ {0}
ASSUME EventsBounded == MaxEvents \in Nat

VARIABLES
    published,    \* events put through the lock so far; event n is the n-th
    subscribers,  \* the queues in _sse_subscribers, named by their streams
    queue,        \* contents of each stream's queue
    lock,         \* the publisher holding _sse_lock
    todo,         \* queues its loop has still to visit
    dead,         \* queues it has found full
    thread,       \* what each publisher thread is doing
    stream,       \* where the generator of each stream is
    event,        \* the event a generator has taken but not delivered, 0: none
    online,       \* the browser is still there
    joined,       \* published when the stream subscribed
    received,     \* events the browser has been sent since
    behind        \* history: events the browser had not been sent when its queue
                  \* was found full, 0: it has not been found full

hubVars == <<subscribers, lock, todo, dead, thread, behind>>
streamVars == <<stream, event, online, joined, received>>
vars == <<published, queue, hubVars, streamVars>>

Free == lock = Nobody

-----------------------------------------------------------------------------
(* _sse_publish(event) *)

(* A handler or the Kafka thread has committed and calls _sse_publish. *)
Call(p) ==
    /\ thread[p] = "idle"
    /\ published < MaxEvents
    /\ thread' = [thread EXCEPT ![p] = "calling"]
    /\ UNCHANGED <<published, queue, subscribers, lock, todo, dead, behind, streamVars>>

Acquire(p) ==
    /\ thread[p] = "calling"
    /\ Free
    /\ lock' = p
    /\ published' = published + 1
    /\ todo' = subscribers
    /\ dead' = {}
    /\ thread' = [thread EXCEPT ![p] = "putting"]
    /\ UNCHANGED <<queue, subscribers, behind, streamVars>>

(* Fault: queue.Queue() without a maxsize. *)
FaultNoLimit(s) == TRUE

(* Fault: the queue counts as full one event too early. *)
FaultRoomOffByOne(s) == Len(queue[s]) + 1 < MaxSize

(* queue.Queue(maxsize=100) raises queue.Full otherwise. *)
HasRoom(s) == Len(queue[s]) < MaxSize

(* q.put_nowait for one queue of the list. *)
Put(p) ==
    /\ thread[p] = "putting"
    /\ \E s \in todo :
         /\ todo' = todo \ {s}
         /\ IF HasRoom(s)
              THEN /\ queue' = [queue EXCEPT ![s] = Append(queue[s], published)]
                   /\ UNCHANGED <<dead, behind>>
              ELSE /\ dead' = dead \cup {s}
                   /\ behind' = [behind EXCEPT ![s] =
                                    published - joined[s] - Len(received[s])]
                   /\ UNCHANGED queue
    /\ UNCHANGED <<published, subscribers, lock, thread, streamVars>>

(* Fault: the full queue stays in the list. *)
FaultKeepFullQueue(p) ==
    /\ thread[p] = "putting"
    /\ todo = {}
    /\ dead # {}
    /\ dead' = {}
    /\ UNCHANGED <<published, queue, subscribers, lock, todo, thread, behind, streamVars>>

(* _sse_subscribers.remove(q): the stream is not told. *)
Drop(p) ==
    /\ thread[p] = "putting"
    /\ todo = {}
    /\ \E s \in dead :
         /\ dead' = dead \ {s}
         /\ subscribers' = subscribers \ {s}
    /\ UNCHANGED <<published, queue, lock, todo, thread, behind, streamVars>>

Release(p) ==
    /\ thread[p] = "putting"
    /\ todo = {}
    /\ dead = {}
    /\ lock' = Nobody
    /\ thread' = [thread EXCEPT ![p] = "idle"]
    /\ UNCHANGED <<published, queue, subscribers, todo, dead, behind, streamVars>>

-----------------------------------------------------------------------------
(* generate() of /api/stream *)

Connect(s) ==
    /\ stream[s] = "closed"
    /\ stream' = [stream EXCEPT ![s] = "opening"]
    /\ online' = [online EXCEPT ![s] = TRUE]
    /\ UNCHANGED <<published, queue, hubVars, event, joined, received>>

Subscribe(s) ==
    /\ stream[s] = "opening"
    /\ Free
    /\ subscribers' = subscribers \cup {s}
    /\ queue' = [queue EXCEPT ![s] = <<>>]
    /\ joined' = [joined EXCEPT ![s] = published]
    /\ received' = [received EXCEPT ![s] = <<>>]
    /\ behind' = [behind EXCEPT ![s] = 0]
    /\ stream' = [stream EXCEPT ![s] = "waiting"]
    /\ UNCHANGED <<published, lock, todo, dead, thread, event, online>>

(* Fault: queue.LifoQueue, the newest event first. *)
FaultNewestFirst(s) ==
    /\ stream[s] = "waiting"
    /\ queue[s] # <<>>
    /\ event' = [event EXCEPT ![s] = queue[s][Len(queue[s])]]
    /\ queue' = [queue EXCEPT ![s] = SubSeq(queue[s], 1, Len(queue[s]) - 1)]
    /\ stream' = [stream EXCEPT ![s] = "yielding"]
    /\ UNCHANGED <<published, hubVars, online, joined, received>>

(* q.get returns an event, and the generator yields it. *)
Get(s) ==
    /\ stream[s] = "waiting"
    /\ queue[s] # <<>>
    /\ event' = [event EXCEPT ![s] = Head(queue[s])]
    /\ queue' = [queue EXCEPT ![s] = Tail(queue[s])]
    /\ stream' = [stream EXCEPT ![s] = "yielding"]
    /\ UNCHANGED <<published, hubVars, online, joined, received>>

(* Fault: the generator goes on waiting when q.get times out. *)
FaultNoKeepalive(s) ==
    /\ stream[s] = "waiting"
    /\ queue[s] = <<>>
    /\ UNCHANGED vars

(* queue.Empty after 30 s: the generator yields a keepalive comment. *)
Keepalive(s) ==
    /\ stream[s] = "waiting"
    /\ queue[s] = <<>>
    /\ stream' = [stream EXCEPT ![s] = "yielding"]
    /\ UNCHANGED <<published, queue, hubVars, event, online, joined, received>>

(* The server has written what the generator yielded and resumes it. *)
Written(s) ==
    /\ stream[s] = "yielding"
    /\ online[s]
    /\ received' = [received EXCEPT ![s] =
                      IF event[s] = 0 THEN received[s] ELSE Append(received[s], event[s])]
    /\ event' = [event EXCEPT ![s] = 0]
    /\ stream' = [stream EXCEPT ![s] = "waiting"]
    /\ UNCHANGED <<published, queue, hubVars, online, joined>>

(* The browser leaves the page or the connection breaks. *)
Disconnect(s) ==
    /\ online[s]
    /\ online' = [online EXCEPT ![s] = FALSE]
    /\ UNCHANGED <<published, queue, hubVars, stream, event, joined, received>>

(* The server notices when it writes and closes the generator: GeneratorExit *)
(* is raised at the yield.                                                  *)
GeneratorExit(s) ==
    /\ stream[s] = "yielding"
    /\ ~online[s]
    /\ event' = [event EXCEPT ![s] = 0]
    /\ stream' = [stream EXCEPT ![s] = "leaving"]
    /\ UNCHANGED <<published, queue, hubVars, online, joined, received>>

(* The generator ends: nothing refers to its queue any more. *)
Forget(s) ==
    /\ stream' = [stream EXCEPT ![s] = "closed"]
    /\ queue' = [queue EXCEPT ![s] = <<>>]
    /\ joined' = [joined EXCEPT ![s] = 0]
    /\ received' = [received EXCEPT ![s] = <<>>]
    /\ behind' = [behind EXCEPT ![s] = 0]

(* Fault: the finally block does not take the lock. *)
FaultUnsubscribeUnlocked(s) ==
    /\ stream[s] = "leaving"
    /\ subscribers' = subscribers \ {s}
    /\ Forget(s)
    /\ UNCHANGED <<published, lock, todo, dead, thread, event, online>>

(* The finally block: the queue may have been dropped from the list before. *)
Unsubscribe(s) ==
    /\ stream[s] = "leaving"
    /\ Free
    /\ subscribers' = subscribers \ {s}
    /\ Forget(s)
    /\ UNCHANGED <<published, lock, todo, dead, thread, event, online>>

-----------------------------------------------------------------------------
Init ==
    /\ published = 0
    /\ subscribers = {}
    /\ queue = [s \in Streams |-> <<>>]
    /\ lock = Nobody
    /\ todo = {}
    /\ dead = {}
    /\ thread = [p \in Publishers |-> "idle"]
    /\ stream = [s \in Streams |-> "closed"]
    /\ event = [s \in Streams |-> 0]
    /\ online = [s \in Streams |-> FALSE]
    /\ joined = [s \in Streams |-> 0]
    /\ received = [s \in Streams |-> <<>>]
    /\ behind = [s \in Streams |-> 0]

PublisherStep(p) == Acquire(p) \/ Put(p) \/ Drop(p) \/ Release(p)

StreamStep(s) ==
    \/ Subscribe(s)
    \/ Get(s)
    \/ Keepalive(s)
    \/ Written(s)
    \/ GeneratorExit(s)
    \/ Unsubscribe(s)

Next ==
    \/ \E p \in Publishers : Call(p) \/ PublisherStep(p)
    \/ \E s \in Streams : Connect(s) \/ Disconnect(s) \/ StreamStep(s)

Spec == Init /\ [][Next]_vars

(* Threads run.  threading.Lock does not queue its waiters, so a thread that *)
(* wants it is only promised to get it when it is free again and again.     *)
FairSpec ==
    /\ Spec
    /\ \A p \in Publishers : WF_vars(PublisherStep(p))
    /\ \A s \in Streams : WF_vars(StreamStep(s)) /\ SF_vars(Subscribe(s) \/ Unsubscribe(s))

-----------------------------------------------------------------------------
(* Properties *)

Open == {s \in Streams : stream[s] \in {"waiting", "yielding"}}

TypeOK ==
    /\ published \in Nat
    /\ subscribers \subseteq Streams /\ todo \subseteq Streams /\ dead \subseteq Streams
    /\ lock \in Publishers \cup {Nobody}
    /\ thread \in [Publishers -> {"idle", "calling", "putting"}]
    /\ stream \in [Streams -> {"closed", "opening", "waiting", "yielding", "leaving"}]
    /\ queue \in [Streams -> Seq(Nat)] /\ \A s \in Streams : Len(queue[s]) <= MaxSize
    /\ received \in [Streams -> Seq(Nat)]
    /\ event \in [Streams -> Nat] /\ joined \in [Streams -> Nat]
    /\ online \in [Streams -> BOOLEAN] /\ behind \in [Streams -> Int]

(* What a stream has taken and what waits for it, in order. *)
Taken(s) == received[s] \o (IF event[s] = 0 THEN <<>> ELSE <<event[s]>>)
Share(s) == Taken(s) \o queue[s]

(* The events numbered from + 1 to to. *)
Events(from, to) == [i \in 1..(to - from) |-> from + i]

(* A subscribed stream has been given every event published since it        *)
(* subscribed, once and in order, up to the event that is being put.        *)
SubscribersMissNothing ==
    \A s \in subscribers \cap Open :
        Share(s) = Events(joined[s],
                          IF s \in todo \cup dead THEN published - 1 ELSE published)

(* _sse_publish finds every full queue it is about to remove in the list:   *)
(* no stream unsubscribes between the two loops, and list.remove does not   *)
(* raise.                                                                   *)
FullQueuesAreListed == dead \subseteq subscribers

(* An open stream is off the list only because the browser was more than a  *)
(* whole queue of events behind when the publisher came to it, the one      *)
(* being put among them, and that event is lost to it.  The lock is not     *)
(* taken to read: by the time the queue leaves the list it may be empty.    *)
CutOffOnlyWhenFull ==
    \A s \in Open \ subscribers :
        /\ behind[s] > MaxSize
        /\ joined[s] + Len(Share(s)) < published

(* Each browser hears a gapless run of events in the order of the lock.     *)
Channel == INSTANCE Broadcast WITH Listeners <- Streams, heard <- received
ImplementsBroadcast == Channel!Spec

(* A browser that has gone is forgotten: at the latest with the keepalive   *)
(* that fails, its stream ends and its queue leaves the list.               *)
GoneBrowsersAreForgotten ==
    \A s \in Streams :
        (stream[s] # "closed" /\ ~online[s]) ~> (stream[s] = "closed" /\ s \notin subscribers)

(* An event reaches every browser that was subscribed when it was published, *)
(* unless the browser leaves or its queue was full.                         *)
EventsArrive ==
    \A s \in Streams : \A n \in 1..MaxEvents :
        (s \in subscribers /\ joined[s] < n /\ n <= published)
            ~> (~online[s] \/ s \notin subscribers
                \/ \E i \in 1..Len(received[s]) : received[s][i] = n)

(* app.py: "Broadcast an event dict to all SSE subscribers".  A browser     *)
(* whose stream is open is among those that the next event reaches.         *)
OpenStreamsAreSubscribed == Open \subseteq subscribers

=============================================================================
