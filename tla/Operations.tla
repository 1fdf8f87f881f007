----------------------------- MODULE Operations -----------------------------
(***************************************************************************)
(* What operators and clients see of the pipeline: the Prometheus counters *)
(* of services/observability/metrics.py, the Redis list of the dead-letter *)
(* queue with its order, and the status page GET /documents/{id} that a    *)
(* client polls.  Every step is a step of Pipeline with the increments its *)
(* code makes, or a read.                                                  *)
(*                                                                         *)
(* A counter is what Prometheus adds up over all processes since the       *)
(* start.  The increments are not part of any transaction.                 *)
(***************************************************************************)
EXTENDS Pipeline, Sequences

CONSTANTS
    Watched,    \* documents whose client polls the status page
    Window      \* entries find_for_document looks at: the latest 1000

ASSUME OperationsAssumption == Watched \subseteq Docs /\ Window \in Nat \ {0}

VARIABLES
    count,      \* the value of each counter
    letters,    \* docflow:dlq, the documents of the dead-letter list in order
    page        \* each client's status page, and its request in progress

operationsVars == <<count, letters, page>>

\* docflow_documents_ingested_total; docflow_documents_completed_total by
\* final_state (four of them); docflow_auto_approvals_total;
\* docflow_retries_total; docflow_erp_submissions_total by outcome.
Counters ==
    {"ingested", "submitted", "needs_review", "rejected", "failed",
     "auto_approved", "retried", "erp_success", "erp_failure"}

\* Nothing read yet, nothing shown yet.
NoAnswer == [pc |-> "idle", read |-> "absent", status |-> "absent",
             dlqPresent |-> FALSE]

OperationsInit ==
    /\ Init
    /\ count = [c \in Counters |-> 0]
    /\ letters = <<>>
    /\ page = [d \in Watched |-> NoAnswer]

-----------------------------------------------------------------------------
(***************************************************************************)
(* The worker and its counters.                                            *)
(***************************************************************************)
Increment(names) ==
    count' = [c \in Counters |-> IF c \in names THEN count[c] + 1
                                                ELSE count[c]]

\* _record_outcome(needs_review), for a parked document of either kind.
CountParked(w) ==
    /\ ParkUnreadable(w) \/ Park(w)
    /\ Increment({"needs_review"})

\* The PDF or the provider fails for good: failed is counted, then undone.
CountExtractionFailed(w) ==
    /\ ExtractionFails(w)
    /\ Increment({"failed"})

CountAutoApproval(w) ==
    /\ AutoApprove(w)
    /\ Increment({"auto_approved"})

\* A transient answer to the create is counted, one to a lookup is not.
CountErpTransient(w) ==
    /\ ErpTransient(w)
    /\ Increment(IF At(w, "submitting") THEN {"erp_failure"} ELSE {})

\* Nothing is counted for a missing supplier_id; the ERP's 400 is.
CountRefused(w) ==
    /\ SubmissionRefused(w)
    /\ Increment(IF Invoice(w).grade = "noSupplier"
                     THEN {} ELSE {"erp_failure", "failed"})

\* Faulty variant: the outcome is counted where the create is.
CountCreatedSubmitted(w) ==
    /\ CreateInvoice(w)
    /\ Increment({"erp_success", "submitted"})

CountCreated(w) ==
    /\ CreateInvoice(w)
    /\ Increment({"erp_success"})

\* _record_outcome(submitted), before the flush and the commit.
CountSubmitted(w) ==
    /\ CheckLedger(w)
    /\ Increment({"submitted"})

CountRetry(w) ==
    /\ RecordRetry(w)
    /\ Increment({"retried"})

\* A document that came to its end before is not counted again.
CountExhausted(w) ==
    /\ MarkExhausted(w)
    /\ Increment(IF TransitionAllowed(doc[DocOf(w)].status, "failed")
                     THEN {"failed"} ELSE {})

\* Steps that count nothing.  A lookup or a create that is not answered is no
\* ErpClientError, and ends the task uncounted.
CountNothing(w) ==
    /\ \/ Receive(w) \/ SkipSettled(w) \/ ClaimQueued(w) \/ ClaimApproved(w)
       \/ Extract(w) \/ ProviderTransient(w)
       \/ LookupUnanswered(w) \/ CreateUnanswered(w)
       \/ CommitSubmission(w) \/ LedgerConflict(w)
       \/ Retry(w) \/ RetryPublishFails(w)
       \/ DeadLetterFails(w) \/ Acknowledge(w)
    /\ UNCHANGED count

\* rpush: the entry goes to the end of the list.
PushLetter(w) ==
    /\ DeadLetter(w)
    /\ letters' = Append(letters, DocOf(w))
    /\ UNCHANGED count

ObservedWorkerStep(w) ==
    /\ \/ /\ \/ CountParked(w) \/ CountExtractionFailed(w)
             \/ CountAutoApproval(w) \/ CountErpTransient(w)
             \/ CountRefused(w) \/ CountCreated(w) \/ CountSubmitted(w)
             \/ CountRetry(w) \/ CountExhausted(w) \/ CountNothing(w)
          /\ UNCHANGED letters
       \/ PushLetter(w)
    /\ UNCHANGED page

-----------------------------------------------------------------------------
(***************************************************************************)
(* The API and its counters.                                               *)
(***************************************************************************)
CountIngested(h) ==
    /\ EnqueueUpload(h)
    /\ Increment({"ingested"})

CountRejected(h) ==
    /\ \E d \in Docs : Reject(h, d)
    /\ Increment({"rejected"})

\* The steps an upload or an approval in progress takes by itself.
ObservedRequestStep(h) ==
    /\ \/ CountIngested(h)
       \/ /\ \/ CreateDocument(h) \/ LoseUploadRace(h)
             \/ UploadEnqueueFails(h)
             \/ ReviewStep(h)
          /\ UNCHANGED count
    /\ UNCHANGED <<letters, page>>

\* A new request, or the end of one by a crash.
ObservedClientStep(h) ==
    /\ \/ CountRejected(h)
       \/ /\ \/ \E d \in Docs :
                   \/ ReplayUpload(h, d) \/ StartUpload(h, d)
                   \/ Approve(h, d) \/ CheckEdit(h, d)
             \/ ApiCrash(h)
          /\ UNCHANGED count
    /\ UNCHANGED <<letters, page>>

-----------------------------------------------------------------------------
(***************************************************************************)
(* The status page: a read of the row, and then, for a document that is    *)
(* failed or has a last_error_class, a search of the dead-letter list.     *)
(***************************************************************************)

\* last_error_class and retry_count are set together.
NeedsSearch(d) == doc[d].status = "failed" \/ doc[d].retryCount > 0

\* Once the upload is accepted the client knows the document's id.
ReadRow(d) ==
    /\ page[d].pc = "idle"
    /\ d \in acked
    /\ page' = [page EXCEPT
                   ![d] = IF NeedsSearch(d)
                              THEN [@ EXCEPT !.pc   = "searching",
                                             !.read = doc[d].status]
                              ELSE [NoAnswer EXCEPT !.status = doc[d].status]]
    /\ UNCHANGED <<vars, count, letters>>

\* Faulty variant: the search looks at the oldest entries.
FoundOldest(d) ==
    \E i \in 1..Len(letters) : i <= Window /\ letters[i] = d

\* find_for_document over list_entries(limit = 1000).
Found(d) ==
    \E i \in 1..Len(letters) : i > Len(letters) - Window /\ letters[i] = d

SearchLetters(d) ==
    /\ page[d].pc = "searching"
    /\ page' = [page EXCEPT
                   ![d] = [NoAnswer EXCEPT !.status     = page[d].read,
                                           !.dlqPresent = Found(d)]]
    /\ UNCHANGED <<vars, count, letters>>

Poll(d) == ReadRow(d) \/ SearchLetters(d)

-----------------------------------------------------------------------------
Interruption(w) ==
    /\ WorkerCrash(w) \/ Redeliver(w)
    /\ UNCHANGED operationsVars

OperationsNext ==
    \/ \E w \in Workers : ObservedWorkerStep(w) \/ Interruption(w)
    \/ \E h \in Handlers : ObservedRequestStep(h) \/ ObservedClientStep(h)
    \/ \E d \in Watched : Poll(d)

\* As in Pipeline; and a client that polls goes on.
OperationsSpec ==
    /\ OperationsInit
    /\ [][OperationsNext]_<<vars, operationsVars>>
    /\ \A w \in Workers : WF_<<vars, operationsVars>>(ObservedWorkerStep(w))
    /\ \A h \in Handlers : WF_<<vars, operationsVars>>(ObservedRequestStep(h))
    /\ \A d \in Watched : WF_<<vars, operationsVars>>(Poll(d))

-----------------------------------------------------------------------------
Answers == [pc         : {"idle", "searching"},
            read       : WorkflowState \cup {"absent"},
            status     : WorkflowState \cup {"absent"},
            dlqPresent : BOOLEAN]

OperationsTypeOK ==
    /\ count \in [Counters -> Nat]
    /\ letters \in Seq(Docs)
    /\ page \in [Watched -> Answers]

Having(status) == {d \in Docs : doc[d].status = status}

\* Decided by a reviewer, whatever became of the document since.
Reviewed == {d \in Docs : doc[d].decision \in {"human_approve", "rejected"}}

\* Auto-approvals that were submitted, and those in a worker's hands.
AutoSubmitted == {d \in Having("submitted") : doc[d].decision = "auto_approve"}
AutoInHand    == {w \in Workers : /\ worker[w].pc \in InTransaction
                                  /\ worker[w].row.decision = "auto_approve"}

Committing == {w \in Workers : At(w, "committing")}

\* The outcome counters agree with the table although they are incremented
\* inside transactions that may still be rolled back: a document is counted
\* as submitted, parked or rejected exactly once, whatever is redelivered or
\* retried, and an auto-approval counted is one that was submitted, is in
\* the worker's hands, or ended in a counted ERP failure.  Only failed is
\* also counted for attempts that are undone.
OutcomesCounted ==
    LET automatic == Cardinality(AutoSubmitted) + Cardinality(AutoInHand)
    IN  /\ count["submitted"] =
              Cardinality(Having("submitted")) + Cardinality(Committing)
        /\ count["needs_review"] =
              Cardinality(Having("needs_review") \cup Reviewed)
        /\ count["rejected"] = Cardinality(Having("rejected"))
        /\ count["failed"] >= Cardinality(Having("failed"))
        /\ count["auto_approved"] >= automatic
        /\ count["auto_approved"] <= automatic + count["erp_failure"]

\* docflow_erp_submissions_total{outcome="success"} is the number of invoices
\* in the ERP: no create is sent again for an invoice that is there.
ErpCountersExact == count["erp_success"] = Cardinality(erp)

\* A document that failed says so with its last attempt's number: no other
\* delivery of its task writes the count, which record_retry_metadata reads
\* and writes without the row lock, once it is exhausted.
FailedAtLimit ==
    \A d \in Having("failed") : doc[d].retryCount = MaxRetries + 1

\* Workers about to push an entry.
OnTheWay == {w \in Workers : At(w, "deadletter")}

\* docflow_dlq_depth is the number of failed documents, but for the one whose
\* entry is on its way: each has one entry, also if its task was redelivered.
DepthIsFailures ==
    /\ Len(letters) + Cardinality(OnTheWay) = Cardinality(Having("failed"))
    /\ \A i \in 1..Len(letters) : doc[letters[i]].status = "failed"

\* What a client has read stays true, though the row was read before the
\* list and may be stale by then: a final status is final, and a page that
\* finds a dead-letter entry is of a document that has come to its end, also
\* if it still says queued.
PageIsSound ==
    \A d \in Watched :
        /\ page[d].status \in TerminalStates =>
              doc[d].status = page[d].status
        /\ page[d].dlqPresent => doc[d].status \in TerminalStates

\* Window newer entries hide the document's own.
Overtaken(d) ==
    \E i \in 1..Len(letters) : letters[i] = d /\ i <= Len(letters) - Window

\* A client that polls sees the failure of its document with the dead-letter
\* entry, unless more than Window later failures hide it.
FailureShown ==
    \A d \in Watched :
        doc[d].status = "failed" ~>
            \/ page[d].status = "failed" /\ page[d].dlqPresent
            \/ Overtaken(d)

=============================================================================
