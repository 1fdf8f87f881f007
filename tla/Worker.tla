------------------------------- MODULE Worker -------------------------------
(***************************************************************************)
(* The Celery worker: process_document_task and finalize_exhausted_failure *)
(* of services/worker/tasks.py around process_document of                  *)
(* services/worker/workflow/process_document.py.                           *)
(*                                                                         *)
(* run_document_processing opens ONE transaction, and session_scope rolls  *)
(* it back on every exception.  So the transitions to processing and to    *)
(* extracted are never durable by themselves, a transition to failed that  *)
(* is followed by raise WorkflowError is undone, and the branches that     *)
(* resume a processing or extracted row, an existing extraction, decision  *)
(* or submission, meet no committed row they apply to (NoPartialWork in    *)
(* Pipeline is that fact).                                                 *)
(***************************************************************************)
EXTENDS DocStore

At(w, pc)  == worker[w].pc = pc
DocOf(w)   == worker[w].task.doc
Retries(w) == worker[w].task.retries
Invoice(w) == worker[w].row.extraction

\* build_erp_idempotency_key: document id and invoice number.
ErpKey(w) == <<DocOf(w), Invoice(w).number>>

Goto(w, pc) == worker' = [worker EXCEPT ![w] = [@ EXCEPT !.pc = pc]]

\* Continue the transaction with a changed copy of the row.
Continue(w, pc, row) ==
    worker' = [worker EXCEPT ![w] = [@ EXCEPT !.pc = pc, !.row = row]]

\* The transaction ends and its lock is released; pc is what follows it.
EndTransaction(w, pc) ==
    /\ worker' = [worker EXCEPT ![w] =
                     [IdleWorker EXCEPT !.pc = pc, !.task = worker[w].task]]
    /\ rowLock' = [rowLock EXCEPT ![DocOf(w)] = None]

Commit(w, row) ==
    /\ doc' = [doc EXCEPT ![DocOf(w)] = row]
    /\ EndTransaction(w, "done")

\* Faulty variant: session_scope commits on an exception, too.
RollbackKeepsWork(w, pc) ==
    /\ doc' = [doc EXCEPT ![DocOf(w)] = worker[w].row]
    /\ EndTransaction(w, pc)
    /\ UNCHANGED ledger

Rollback(w, pc) ==
    /\ EndTransaction(w, pc)
    /\ UNCHANGED <<doc, ledger>>

-----------------------------------------------------------------------------
(***************************************************************************)
(* Delivery, and the claim of the document.                                *)
(***************************************************************************)
Receive(w) ==
    /\ At(w, "idle")
    /\ \E t \in Tasks :
          /\ broker[t] > 0
          /\ broker' = [broker EXCEPT ![t] = @ - 1]
          /\ worker' = [worker EXCEPT
                           ![w] = [@ EXCEPT !.pc = "received", !.task = t]]
    /\ UNCHANGED <<store, dlq, erp, handler, acked, interruptions>>

\* A document in a no-op state: the transaction reads it and returns.
SkipSettled(w) ==
    /\ At(w, "received")
    /\ Unlocked(DocOf(w))
    /\ doc[DocOf(w)].status \in WorkerNoopStates
    /\ Goto(w, "done")
    /\ UNCHANGED <<store, broker, dlq, erp, handler, acked, interruptions>>

\* Faulty variant: a plain SELECT, which waits for nobody.
ClaimWithoutLock(w, state, pc, row) ==
    /\ At(w, "received")
    /\ doc[DocOf(w)].status = state
    /\ rowLock' = [rowLock EXCEPT ![DocOf(w)] = w]
    /\ Continue(w, pc, row)
    /\ UNCHANGED <<doc, ledger, broker, dlq, erp, handler, acked,
                   interruptions>>

\* SELECT ... FOR UPDATE, and the transition the row's state calls for.
Claim(w, state, pc, row) ==
    /\ At(w, "received")
    /\ Unlocked(DocOf(w))
    /\ doc[DocOf(w)].status = state
    /\ rowLock' = [rowLock EXCEPT ![DocOf(w)] = w]
    /\ Continue(w, pc, row)
    /\ UNCHANGED <<doc, ledger, broker, dlq, erp, handler, acked,
                   interruptions>>

\* Faulty variant: failed is not among the states a task leaves alone.
ClaimQueuedOrFailed(w) ==
    \E state \in {"queued", "failed"} :
        Claim(w, state, "extracting",
              WithStatus(doc[DocOf(w)], "processing"))

ClaimQueued(w) ==
    Claim(w, "queued", "extracting", WithStatus(doc[DocOf(w)], "processing"))

ClaimApproved(w) ==
    Claim(w, "approved", "submitting", doc[DocOf(w)])

-----------------------------------------------------------------------------
(***************************************************************************)
(* Extraction: the PDF text, then the provider.                            *)
(***************************************************************************)
Extract(w) ==
    /\ At(w, "extracting")
    /\ \E invoice \in Readings[DocOf(w)] \ {None} :
          Continue(w, "deciding",
                   [worker[w].row EXCEPT !.status = "extracted",
                                         !.extraction = invoice])
    /\ UNCHANGED <<store, broker, dlq, erp, handler, acked, interruptions>>

\* ProviderOutputError: parked without an extraction or a decision.
ParkUnreadable(w) ==
    /\ At(w, "extracting")
    /\ None \in Readings[DocOf(w)]
    /\ Commit(w, WithStatus(worker[w].row, "needs_review"))
    /\ UNCHANGED <<ledger, broker, dlq, erp, handler, acked, interruptions>>

ProviderTransient(w) ==
    /\ At(w, "extracting")
    /\ Rollback(w, "transient")
    /\ UNCHANGED <<broker, dlq, erp, handler, acked, interruptions>>

\* Faulty variant: the transition to failed is committed.
ExtractionFailsForGood(w) ==
    /\ Faults \cap {"pdf", "providerFatal"} # {}
    /\ At(w, "extracting")
    /\ Commit(w, WithStatus(worker[w].row, "failed"))
    /\ UNCHANGED <<ledger, broker, dlq, erp, handler, acked, interruptions>>

\* The transition to failed is followed by raise WorkflowError: undone.
ExtractionFails(w) ==
    /\ Faults \cap {"pdf", "providerFatal"} # {}
    /\ At(w, "extracting")
    /\ Rollback(w, "done")
    /\ UNCHANGED <<broker, dlq, erp, handler, acked, interruptions>>

-----------------------------------------------------------------------------
(***************************************************************************)
(* Decision: the ERP lookups, the duplicate query and the rules.           *)
(***************************************************************************)
\* Faulty variant: the duplicate query is not consulted.
ApprovableUnchecked(invoice) == invoice.grade = "clean"

Approvable(invoice) == invoice.grade = "clean" /\ ~Recorded(invoice.number)

\* Faulty variant: the decision is committed before the submission.
AutoApproveCommits(w) ==
    LET row == [worker[w].row EXCEPT !.status = "approved",
                                     !.decision = "auto_approve"]
    IN  /\ At(w, "deciding")
        /\ Approvable(Invoice(w))
        /\ doc' = [doc EXCEPT ![DocOf(w)] = row]
        /\ Continue(w, "submitting", row)
        /\ UNCHANGED <<ledger, rowLock, broker, dlq, erp, handler, acked,
                       interruptions>>

AutoApprove(w) ==
    /\ At(w, "deciding")
    /\ Approvable(Invoice(w))
    /\ Continue(w, "submitting",
                [worker[w].row EXCEPT !.status = "approved",
                                      !.decision = "auto_approve"])
    /\ UNCHANGED <<store, broker, dlq, erp, handler, acked, interruptions>>

Park(w) ==
    /\ At(w, "deciding")
    /\ ~Approvable(Invoice(w))
    /\ Commit(w, [worker[w].row EXCEPT !.status = "needs_review",
                                       !.decision = "needs_review"])
    /\ UNCHANGED <<ledger, broker, dlq, erp, handler, acked, interruptions>>

\* Faulty variant: a failure after the create is retried as one before it.
ErpTransientAfterCreate(w) ==
    /\ worker[w].pc \in {"deciding", "submitting", "recording"}
    /\ Rollback(w, "transient")
    /\ UNCHANGED <<broker, dlq, erp, handler, acked, interruptions>>

\* A lookup or the create answers 408, 425, 429 or 5xx, changing nothing.
\* An invoice without a supplier_id is refused before the create is sent.
ErpTransient(w) ==
    /\ \/ At(w, "deciding")
       \/ At(w, "submitting") /\ Invoice(w).grade # "noSupplier"
    /\ Rollback(w, "transient")
    /\ UNCHANGED <<broker, dlq, erp, handler, acked, interruptions>>

\* No answer to a lookup: httpx raises, which becomes a WorkflowError.
LookupUnanswered(w) ==
    /\ "erpTransport" \in Faults
    /\ At(w, "deciding")
    /\ Rollback(w, "done")
    /\ UNCHANGED <<broker, dlq, erp, handler, acked, interruptions>>

-----------------------------------------------------------------------------
(***************************************************************************)
(* Submission: create the invoice in the ERP, record it, commit.           *)
(***************************************************************************)
\* The ERP answers a key it knows with the invoice it has, before it looks at
\* the supplier; a missing supplier_id is refused before it is asked.
Billable(w) ==
    \/ Invoice(w).grade \in {"clean", "flawed"}
    \/ Invoice(w).grade = "unknownSupplier" /\ ErpKey(w) \in erp

\* Faulty variant: no answer is taken for an answer.
CreateAssumed(w) ==
    /\ At(w, "submitting")
    /\ Billable(w)
    /\ erp' \in {erp, erp \cup {ErpKey(w)}}
    /\ Goto(w, "recording")
    /\ UNCHANGED <<store, broker, dlq, handler, acked, interruptions>>

\* The ERP creates the invoice, or finds the one of this idempotency key.
CreateInvoice(w) ==
    /\ At(w, "submitting")
    /\ Billable(w)
    /\ erp' = erp \cup {ErpKey(w)}
    /\ Goto(w, "recording")
    /\ UNCHANGED <<store, broker, dlq, handler, acked, interruptions>>

\* No supplier_id, or the ERP's 400: failed, then WorkflowError, undone.
SubmissionRefused(w) ==
    /\ At(w, "submitting")
    /\ ~Billable(w)
    /\ Rollback(w, "done")
    /\ UNCHANGED <<broker, dlq, erp, handler, acked, interruptions>>

\* No answer to the create, which may have taken effect.
CreateUnanswered(w) ==
    /\ "erpTransport" \in Faults
    /\ At(w, "submitting")
    /\ Billable(w)
    /\ erp' \in {erp, erp \cup {ErpKey(w)}}
    /\ Rollback(w, "done")
    /\ UNCHANGED <<broker, dlq, handler, acked, interruptions>>

\* Faulty variant: a number that is already recorded needs no ERP call.
CheckLedgerFirst(w) ==
    /\ \/ At(w, "recording")
       \/ At(w, "submitting") /\ Recorded(Invoice(w).number)
    /\ worker' = [worker EXCEPT
                     ![w] = [@ EXCEPT !.pc = "committing",
                                      !.row = WithStatus(worker[w].row, "submitted"),
                                      !.fresh = ~Recorded(Invoice(w).number)]]
    /\ UNCHANGED <<store, broker, dlq, erp, handler, acked, interruptions>>

\* The duplicate_business query decides whether a ledger row is inserted.
CheckLedger(w) ==
    /\ At(w, "recording")
    /\ worker' = [worker EXCEPT
                     ![w] = [@ EXCEPT !.pc = "committing",
                                      !.row = WithStatus(worker[w].row, "submitted"),
                                      !.fresh = ~Recorded(Invoice(w).number)]]
    /\ UNCHANGED <<store, broker, dlq, erp, handler, acked, interruptions>>

\* Faulty variant: the check is trusted, there is no unique constraint.
CommitUnconstrained(w) ==
    /\ At(w, "committing")
    /\ ledger' = IF worker[w].fresh
                     THEN ledger \cup {[doc    |-> DocOf(w),
                                        number |-> Invoice(w).number]}
                     ELSE ledger
    /\ Commit(w, worker[w].row)
    /\ UNCHANGED <<broker, dlq, erp, handler, acked, interruptions>>

CommitSubmission(w) ==
    /\ At(w, "committing")
    /\ \/ /\ worker[w].fresh
          /\ ~Recorded(Invoice(w).number)
          /\ ledger' = ledger \cup {[doc    |-> DocOf(w),
                                     number |-> Invoice(w).number]}
       \/ /\ ~worker[w].fresh
          /\ UNCHANGED ledger
    /\ Commit(w, worker[w].row)
    /\ UNCHANGED <<broker, dlq, erp, handler, acked, interruptions>>

\* Another transaction recorded the number since the query: the flush
\* violates the unique constraint and the task fails, acknowledged.
LedgerConflict(w) ==
    /\ At(w, "committing")
    /\ worker[w].fresh
    /\ Recorded(Invoice(w).number)
    /\ Rollback(w, "done")
    /\ UNCHANGED <<broker, dlq, erp, handler, acked, interruptions>>

-----------------------------------------------------------------------------
(***************************************************************************)
(* Retry, exhaustion, and the end of the task.                             *)
(***************************************************************************)

\* Faulty variant: the stored count is incremented, not set.
RecordRetryOnTop(w) ==
    /\ At(w, "transient")
    /\ Unlocked(DocOf(w))
    /\ doc' = [doc EXCEPT ![DocOf(w)].retryCount = @ + 1]
    /\ Goto(w, IF Retries(w) >= MaxRetries THEN "exhausted" ELSE "retrying")
    /\ UNCHANGED <<ledger, rowLock, broker, dlq, erp, handler, acked,
                   interruptions>>

\* record_retry_metadata, in its own transaction, whatever the row's state.
RecordRetry(w) ==
    /\ At(w, "transient")
    /\ Unlocked(DocOf(w))
    /\ doc' = [doc EXCEPT ![DocOf(w)].retryCount = Retries(w) + 1]
    /\ Goto(w, IF Retries(w) >= MaxRetries THEN "exhausted" ELSE "retrying")
    /\ UNCHANGED <<ledger, rowLock, broker, dlq, erp, handler, acked,
                   interruptions>>

\* Faulty variant: the next attempt does not count.
RetryUncounted(w) ==
    /\ At(w, "retrying")
    /\ broker' = [broker EXCEPT ![worker[w].task] = @ + 1]
    /\ Goto(w, "done")
    /\ UNCHANGED <<store, dlq, erp, handler, acked, interruptions>>

\* self.retry publishes the next attempt before this one is acknowledged.
Retry(w) ==
    /\ At(w, "retrying")
    /\ broker' = [broker EXCEPT
                     ![[doc |-> DocOf(w), retries |-> Retries(w) + 1]] = @ + 1]
    /\ Goto(w, "done")
    /\ UNCHANGED <<store, dlq, erp, handler, acked, interruptions>>

\* The publish fails: Celery rejects this message without requeueing it.
RetryPublishFails(w) ==
    /\ "enqueue" \in Faults
    /\ At(w, "retrying")
    /\ Goto(w, "done")
    /\ UNCHANGED <<store, broker, dlq, erp, handler, acked, interruptions>>

\* Faulty variants: the illegal transition is swallowed, or the row that has
\* just failed is not reported.
MarkExhaustedLoosely(w) ==
    LET row    == doc[DocOf(w)]
        status == IF TransitionAllowed(row.status, "failed") THEN "failed"
                                                             ELSE row.status
    IN  /\ At(w, "exhausted")
        /\ Unlocked(DocOf(w))
        /\ doc' = [doc EXCEPT ![DocOf(w)] =
                      [row EXCEPT !.retryCount = Retries(w) + 1,
                                  !.status = status]]
        /\ Goto(w, "deadletter")
        /\ UNCHANGED <<ledger, rowLock, broker, dlq, erp, handler, acked,
                       interruptions>>

MarkExhaustedSilently(w) ==
    LET row == doc[DocOf(w)]
    IN  /\ At(w, "exhausted")
        /\ Unlocked(DocOf(w))
        /\ IF TransitionAllowed(row.status, "failed")
              THEN doc' = [doc EXCEPT ![DocOf(w)] =
                              [row EXCEPT !.retryCount = Retries(w) + 1,
                                          !.status = "failed"]]
              ELSE UNCHANGED doc
        /\ Goto(w, "done")
        /\ UNCHANGED <<ledger, rowLock, broker, dlq, erp, handler, acked,
                       interruptions>>

\* mark_retry_exhausted, committed before the dead-letter entry is pushed.
MarkExhausted(w) ==
    LET row       == doc[DocOf(w)]
        exhausted == [row EXCEPT !.retryCount = Retries(w) + 1]
    IN  /\ At(w, "exhausted")
        /\ Unlocked(DocOf(w))
        /\ \/ /\ row.status \in TerminalStates
              /\ doc' = [doc EXCEPT ![DocOf(w)] = exhausted]
              /\ Goto(w, "deadletter")
           \/ /\ TransitionAllowed(row.status, "failed")
              /\ doc' = [doc EXCEPT ![DocOf(w)] =
                                       WithStatus(exhausted, "failed")]
              /\ Goto(w, "deadletter")
           \* needs_review cannot fail: IllegalStateTransitionError.
           \/ /\ row.status \notin TerminalStates
              /\ ~TransitionAllowed(row.status, "failed")
              /\ Goto(w, "done")
              /\ UNCHANGED doc
        /\ UNCHANGED <<ledger, rowLock, broker, dlq, erp, handler, acked,
                       interruptions>>

DeadLetter(w) ==
    /\ At(w, "deadletter")
    /\ dlq' = [dlq EXCEPT ![DocOf(w)] = @ + 1]
    /\ Goto(w, "done")
    /\ UNCHANGED <<store, broker, erp, handler, acked, interruptions>>

DeadLetterFails(w) ==
    /\ "redis" \in Faults
    /\ At(w, "deadletter")
    /\ Goto(w, "done")
    /\ UNCHANGED <<store, broker, dlq, erp, handler, acked, interruptions>>

\* task_acks_late: the message leaves the broker when the task has ended.
Acknowledge(w) ==
    /\ At(w, "done")
    /\ worker' = [worker EXCEPT ![w] = IdleWorker]
    /\ UNCHANGED <<store, broker, dlq, erp, handler, acked, interruptions>>

-----------------------------------------------------------------------------
(***************************************************************************)
(* Interruptions.                                                          *)
(***************************************************************************)

\* Faulty variant: the message was acknowledged on receipt (no acks_late).
WorkerCrashAfterAck(w) ==
    /\ "workerCrash" \in Faults
    /\ ~At(w, "idle")
    /\ Interrupt
    /\ worker' = [worker EXCEPT ![w] = IdleWorker]
    /\ rowLock' = [rowLock EXCEPT ![DocOf(w)] = IF @ = w THEN None ELSE @]
    /\ UNCHANGED <<doc, ledger, broker, dlq, erp, handler, acked>>

\* The message of a lost worker is requeued, its transaction rolled back.
WorkerCrash(w) ==
    /\ "workerCrash" \in Faults
    /\ ~At(w, "idle")
    /\ Interrupt
    /\ broker' = [broker EXCEPT ![worker[w].task] = @ + 1]
    /\ worker' = [worker EXCEPT ![w] = IdleWorker]
    /\ rowLock' = [rowLock EXCEPT ![DocOf(w)] = IF @ = w THEN None ELSE @]
    /\ UNCHANGED <<doc, ledger, dlq, erp, handler, acked>>

\* A message not acknowledged in time is delivered again while it runs.
Redeliver(w) ==
    /\ "redelivery" \in Faults
    /\ ~At(w, "idle")
    /\ Interrupt
    /\ broker' = [broker EXCEPT ![worker[w].task] = @ + 1]
    /\ UNCHANGED <<store, dlq, erp, worker, handler, acked>>

\* The steps a worker takes by itself.
WorkerStep(w) ==
    \/ Receive(w) \/ SkipSettled(w) \/ ClaimQueued(w) \/ ClaimApproved(w)
    \/ Extract(w) \/ ParkUnreadable(w) \/ ProviderTransient(w)
    \/ ExtractionFails(w)
    \/ AutoApprove(w) \/ Park(w) \/ ErpTransient(w) \/ LookupUnanswered(w)
    \/ CreateInvoice(w) \/ SubmissionRefused(w) \/ CreateUnanswered(w)
    \/ CheckLedger(w) \/ CommitSubmission(w) \/ LedgerConflict(w)
    \/ RecordRetry(w) \/ Retry(w) \/ RetryPublishFails(w)
    \/ MarkExhausted(w) \/ DeadLetter(w) \/ DeadLetterFails(w)
    \/ Acknowledge(w)

=============================================================================
