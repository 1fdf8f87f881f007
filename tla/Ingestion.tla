----------------------------- MODULE Ingestion ------------------------------
(***************************************************************************)
(* POST /documents of services/ingestion/app.py.  A request is up to three *)
(* steps of one API thread: look the idempotency key up, insert the row in *)
(* the same transaction, and, after the commit, publish the task.  Uploads *)
(* refused with 400 (type, size, emptiness) leave no trace.                *)
(***************************************************************************)
EXTENDS DocStore

\* Faulty variant: a replay enqueues a document that still waits.
ReplayUploadRequeues(h, d) ==
    /\ handler[h].pc = "idle"
    /\ doc[d].status # "absent"
    /\ IF doc[d].status = "queued" THEN Enqueue(d) ELSE UNCHANGED broker
    /\ acked' = acked \cup {d}
    /\ UNCHANGED <<store, dlq, erp, worker, handler, interruptions>>

\* The key exists: 202 with idempotent_replay, and nothing is enqueued.
ReplayUpload(h, d) ==
    /\ handler[h].pc = "idle"
    /\ doc[d].status # "absent"
    /\ acked' = acked \cup {d}
    /\ UNCHANGED <<store, broker, dlq, erp, worker, handler, interruptions>>

\* The key is new when the SELECT runs; another thread may still insert it.
StartUpload(h, d) ==
    /\ handler[h].pc = "idle"
    /\ doc[d].status = "absent"
    /\ handler' = [handler EXCEPT ![h] = Request("creating", d, None)]
    /\ UNCHANGED <<store, broker, dlq, erp, worker, acked, interruptions>>

\* INSERT as received, store the PDF, move to queued, commit.
CreateDocument(h) ==
    /\ handler[h].pc = "creating"
    /\ doc[handler[h].doc].status = "absent"
    /\ doc' = [doc EXCEPT ![handler[h].doc] = WithStatus(NoRow, "queued")]
    /\ handler' = [handler EXCEPT ![h].pc = "enqueueing"]
    /\ UNCHANGED <<ledger, rowLock, broker, dlq, erp, worker, acked,
                   interruptions>>

\* The unique constraint on idempotency_key: the second insert is a 500.
LoseUploadRace(h) ==
    /\ handler[h].pc = "creating"
    /\ doc[handler[h].doc].status # "absent"
    /\ handler' = [handler EXCEPT ![h] = IdleHandler]
    /\ UNCHANGED <<store, broker, dlq, erp, worker, acked, interruptions>>

\* Faulty variant: the task may be published before the row is committed.
EnqueueUploadEarly(h) ==
    /\ handler[h].pc \in {"creating", "enqueueing"}
    /\ Enqueue(handler[h].doc)
    /\ acked' = acked \cup {handler[h].doc}
    /\ handler' = [handler EXCEPT ![h] = IdleHandler]
    /\ UNCHANGED <<store, dlq, erp, worker, interruptions>>

EnqueueUpload(h) ==
    /\ handler[h].pc = "enqueueing"
    /\ Enqueue(handler[h].doc)
    /\ acked' = acked \cup {handler[h].doc}
    /\ handler' = [handler EXCEPT ![h] = IdleHandler]
    /\ UNCHANGED <<store, dlq, erp, worker, interruptions>>

\* 503; the committed row stays queued.
UploadEnqueueFails(h) ==
    /\ "enqueue" \in Faults
    /\ handler[h].pc = "enqueueing"
    /\ handler' = [handler EXCEPT ![h] = IdleHandler]
    /\ UNCHANGED <<store, broker, dlq, erp, worker, acked, interruptions>>

\* The API process dies between two steps of a request, or store_pdf fails;
\* a transaction in progress is rolled back.
ApiCrash(h) ==
    /\ "apiCrash" \in Faults
    /\ handler[h].pc # "idle"
    /\ Interrupt
    /\ handler' = [handler EXCEPT ![h] = IdleHandler]
    /\ rowLock' = [d \in Docs |-> IF rowLock[d] = h THEN None ELSE rowLock[d]]
    /\ UNCHANGED <<doc, ledger, broker, dlq, erp, worker, acked>>

\* The steps a request in progress takes by itself.
UploadStep(h) ==
    \/ CreateDocument(h)
    \/ LoseUploadRace(h)
    \/ EnqueueUpload(h)
    \/ UploadEnqueueFails(h)

=============================================================================
