----------------------------- MODULE Embeddings -----------------------------
(***************************************************************************)
(* The lazily loaded embedding model of a worker process and the threads    *)
(* that ingest alerts in it, the request thread and the Kafka consumer      *)
(* (src/app.py).  They share the global _EMBEDDING_MODEL without a lock.    *)
(* fastembed itself is external: a load succeeds or fails.                  *)
(***************************************************************************)
EXTENDS Naturals

CONSTANTS
    Threads,  \* the threads of one process that call _insert_alert
    NoAlert   \* a thread is not between commit and publish of an ingest

VARIABLES
    model,   \* _EMBEDDING_MODEL: None, a loaded model, or "unavailable"
    loads,   \* history: loads begun in this process
    raised,  \* history: a thread has called embed() on the sentinel
    thread,  \* where each thread is in _embed_text and the store after it
    ingested \* the alert it has just committed

embeddingVars == <<model, loads, raised, thread, ingested>>

Models == {"None", "loaded", "unavailable"}
ThreadSteps == {"idle", "get", "loading", "check", "take", "store", "publish"}

(* A new process. *)
EmbeddingsReset ==
    /\ model' = "None"
    /\ loads' = 0
    /\ raised' = FALSE
    /\ thread' = [t \in Threads |-> "idle"]
    /\ ingested' = [t \in Threads |-> NoAlert]

EmbeddingsInit ==
    /\ model = "None"
    /\ loads = 0
    /\ raised = FALSE
    /\ thread = [t \in Threads |-> "idle"]
    /\ ingested = [t \in Threads |-> NoAlert]

Moves(t, step) == thread' = [thread EXCEPT ![t] = step] /\ UNCHANGED ingested

(* The alert is committed; its embedding comes next. *)
BeginEmbedding(t, alert) ==
    /\ thread[t] = "idle"
    /\ thread' = [thread EXCEPT ![t] = "get"]
    /\ ingested' = [ingested EXCEPT ![t] = alert]
    /\ UNCHANGED <<model, loads, raised>>

(* if _EMBEDDING_MODEL is None: *)
GetModel(t) ==
    /\ thread[t] = "get"
    /\ IF model = "None"
         THEN Moves(t, "loading") /\ loads' = loads + 1
         ELSE Moves(t, "check") /\ UNCHANGED loads
    /\ UNCHANGED <<model, raised>>

ModelLoaded(t) ==
    /\ thread[t] = "loading"
    /\ model' = "loaded"
    /\ Moves(t, "check")
    /\ UNCHANGED <<loads, raised>>

(* Fault: a failed load leaves no sentinel. *)
FaultLoadFails(t) ==
    /\ thread[t] = "loading"
    /\ Moves(t, "check")
    /\ UNCHANGED <<model, loads, raised>>

(* The sentinel replaces whatever another thread has loaded meanwhile. *)
LoadFails(t) ==
    /\ thread[t] = "loading"
    /\ model' = "unavailable"
    /\ Moves(t, "check")
    /\ UNCHANGED <<loads, raised>>

(* return None if _EMBEDDING_MODEL is _EMBEDDING_LOAD_FAILED else           *)
(* _EMBEDDING_MODEL: the global is read twice.                              *)
CheckModel(t) ==
    /\ thread[t] = "check"
    /\ Moves(t, IF model = "loaded" THEN "take" ELSE "publish")
    /\ UNCHANGED <<model, loads, raised>>

TakeModel(t) ==
    /\ thread[t] = "take"
    /\ model = "loaded"
    /\ Moves(t, "store")
    /\ UNCHANGED <<model, loads, raised>>

ForgetAlert(t) ==
    /\ thread' = [thread EXCEPT ![t] = "idle"]
    /\ ingested' = [ingested EXCEPT ![t] = NoAlert]

(* The second read returns the sentinel, a string: embed() raises out of    *)
(* _insert_alert, past the committed row and before its event.              *)
SentinelRaises(t) ==
    /\ thread[t] = "take"
    /\ model # "loaded"
    /\ raised' = TRUE
    /\ ForgetAlert(t)
    /\ UNCHANGED <<model, loads>>

(* The INSERT into alert_embeddings, done or caught and logged. *)
StoreReturns(t) ==
    /\ thread[t] = "store"
    /\ Moves(t, "publish")
    /\ UNCHANGED <<model, loads, raised>>

PublishAlert(t) ==
    /\ thread[t] = "publish"
    /\ ForgetAlert(t)
    /\ UNCHANGED <<model, loads, raised>>

EmbeddingStep(t) ==
    \/ GetModel(t)
    \/ ModelLoaded(t)
    \/ LoadFails(t)
    \/ CheckModel(t)
    \/ TakeModel(t)
    \/ SentinelRaises(t)
    \/ PublishAlert(t)

EmbeddingsTypeOK ==
    /\ model \in Models
    /\ loads \in Nat
    /\ raised \in BOOLEAN
    /\ thread \in [Threads -> ThreadSteps]

=============================================================================
