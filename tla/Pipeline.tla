------------------------------ MODULE Pipeline ------------------------------
(***************************************************************************)
(* The pipeline: ingestion threads, review commands and Celery workers     *)
(* over the shared store of DocStore, with the faults of FaultKinds.       *)
(***************************************************************************)
EXTENDS Ingestion, Review, Worker, FiniteSets

Api(h) ==
    \/ \E d \in Docs :
          \/ ReplayUpload(h, d) \/ StartUpload(h, d)
          \/ Approve(h, d) \/ CheckEdit(h, d) \/ Reject(h, d)
    \/ UploadStep(h)
    \/ ReviewStep(h)
    \/ ApiCrash(h)

Next ==
    \/ \E h \in Handlers : Api(h)
    \/ \E w \in Workers : WorkerStep(w) \/ WorkerCrash(w) \/ Redeliver(w)

Spec == Init /\ [][Next]_vars

\* A worker process and an API thread that can take a step of their own take
\* it in the end.  Clients, reviewers and faults owe nothing.
Fairness ==
    /\ \A w \in Workers : WF_vars(WorkerStep(w))
    /\ \A h \in Handlers : WF_vars(UploadStep(h) \/ ReviewStep(h))

FairSpec == Spec /\ Fairness

-----------------------------------------------------------------------------
(***************************************************************************)
(* Types.                                                                  *)
(***************************************************************************)
Workings == [pc    : WorkerSteps,
             task  : Tasks \cup {None},
             row   : Rows,
             fresh : BOOLEAN]

Requests == [pc   : HandlerSteps,
             doc  : Docs \cup {None},
             edit : Invoices \cup {None}]

Owners == Workers \cup Handlers \cup {None}

TypeOK ==
    /\ doc \in [Docs -> Rows]
    /\ ledger \subseteq [doc : Docs, number : Numbers]
    /\ rowLock \in [Docs -> Owners]
    /\ broker \in [Tasks -> Nat]
    /\ dlq \in [Docs -> Nat]
    /\ erp \subseteq Docs \X Numbers
    /\ worker \in [Workers -> Workings]
    /\ handler \in [Handlers -> Requests]
    /\ acked \subseteq Docs
    /\ interruptions \in 0..MaxInterruptions

-----------------------------------------------------------------------------
(***************************************************************************)
(* Safety, under every fault of FaultKinds.                                *)
(***************************************************************************)

\* The row lock makes the long transactions exclusive: a document is being
\* processed by exactly the worker, or edited by exactly the reviewer, that
\* holds its lock, so a redelivered task never works beside the first
\* (with_for_update in tasks.py and review.py), and no lock is left behind.
LockDiscipline ==
    \A d \in Docs :
        /\ \A w \in Workers :
              rowLock[d] = w <=> worker[w].pc \in InTransaction /\ DocOf(w) = d
        /\ \A h \in Handlers :
              rowLock[d] = h <=> handler[h].pc = "editing" /\ handler[h].doc = d

\* What a crash, a rollback or a retry leaves of a document under work is
\* its row as it was queued or approved: nobody ever reads processing or
\* extracted, nor a queued row with an extraction or a decision.
NoPartialWork ==
    \A d \in Docs :
        /\ doc[d].status \notin {"received", "processing", "extracted"}
        /\ doc[d].status = "queued" =>
              doc[d].extraction = None /\ doc[d].decision = "none"

\* An approved row is always a reviewer's approval of an extraction: the
\* worker's own approval is durable only together with the submission.
ApprovedByHuman ==
    \A d \in Docs :
        doc[d].status = "approved" =>
            doc[d].decision = "human_approve" /\ doc[d].extraction # None

\* A document says submitted only if the ERP has an invoice for it, under
\* the number of the very extraction the row shows.
SubmittedIsBilled ==
    \A d \in Docs :
        doc[d].status = "submitted" =>
            /\ doc[d].extraction # None
            /\ <<d, doc[d].extraction.number>> \in erp

\* submitted_invoices and documents agree: every ledger row is of a document
\* that is submitted, once per document and once per business number.
LedgerAgrees ==
    \A entry \in ledger :
        /\ doc[entry.doc].status = "submitted"
        /\ doc[entry.doc].extraction.number = entry.number
        /\ \A other \in ledger :
              other.doc = entry.doc \/ other.number = entry.number =>
                  other = entry

\* A row becomes failed only when the last attempt of a task has failed, and
\* with the count of all of them: whatever other transition to failed the code
\* makes is rolled back by the exception after it (process_document).
FailedByExhaustion ==
    [][\A d \in Docs :
          doc[d].status # "failed" /\ doc'[d].status = "failed" =>
              /\ doc'[d].retryCount = MaxRetries + 1
              /\ \E w \in Workers :
                    At(w, "exhausted") /\ DocOf(w) = d
                                       /\ Retries(w) = MaxRetries]_vars

\* A dead-letter entry, or one about to be pushed, is of a document that has
\* come to an end: mark_retry_exhausted commits before dlq.push.
DeadLetterAfterTheEnd ==
    \A d \in Docs :
        dlq[d] > 0 \/ (\E w \in Workers : At(w, "deadletter") /\ DocOf(w) = d)
            => doc[d].status \in TerminalStates

-----------------------------------------------------------------------------
(***************************************************************************)
(* What the invariants above rest on: how far a worker's private copy of   *)
(* the row is ahead of the committed one at each step of its transaction.  *)
(***************************************************************************)

\* Two ways into the submission: a queued row this transaction extracted and
\* approved, or the row a reviewer approved, as it is.
ReadyToSubmit(committed, row) ==
    /\ row.extraction \in Invoices
    /\ \/ /\ committed.status = "queued"
          /\ row.decision = "auto_approve"
       \/ /\ committed.status = "approved"
          /\ row.extraction = committed.extraction
          /\ row.decision = committed.decision

\* What worker w's record says at each of its steps.
Shape(w) ==
    LET row       == worker[w].row
        committed == doc[DocOf(w)]
    IN  /\ worker[w].pc # "idle" => worker[w].task \in Tasks
        /\ At(w, "retrying") => Retries(w) < MaxRetries
        /\ At(w, "exhausted") => Retries(w) = MaxRetries
        /\ worker[w].pc \in InTransaction =>
              row.retryCount = committed.retryCount
        /\ At(w, "extracting") =>
              /\ committed.status = "queued"
              /\ row.status = "processing"
              /\ row.extraction = None
              /\ row.decision = "none"
        /\ At(w, "deciding") =>
              /\ committed.status = "queued"
              /\ row.status = "extracted"
              /\ row.extraction \in Invoices
              /\ row.decision = "none"
        /\ worker[w].pc \in {"submitting", "recording", "committing"} =>
              ReadyToSubmit(committed, row)
        /\ worker[w].pc \in {"submitting", "recording"} =>
              row.status = "approved"
        /\ worker[w].pc \in {"recording", "committing"} =>
              ErpKey(w) \in erp
        /\ At(w, "committing") => row.status = "submitted"

\* A document being edited still waits for its reviewer.
EditShape(h) ==
    handler[h].pc = "editing" =>
        /\ handler[h].doc \in Docs
        /\ handler[h].edit \in Invoices
        /\ doc[handler[h].doc].status = "needs_review"

\* Between claim and commit nobody else touches the row, the copy has made
\* only the transitions of its step, and from the ERP's answer on, the ERP
\* has the very invoice the commit will record (process_document).
TransactionShape ==
    /\ \A w \in Workers : Shape(w)
    /\ \A h \in Handlers : EditShape(h)

\* Enqueue after commit: every message, every task at work and every request
\* about to enqueue is of a document whose row is there for the worker to
\* find (the "Document not found" of run_document_processing never happens).
TaskNamesRow ==
    /\ \A t \in Tasks : broker[t] > 0 => doc[t.doc].status # "absent"
    /\ \A w \in Workers :
          worker[w].pc # "idle" => doc[DocOf(w)].status # "absent"
    /\ \A h \in Handlers :
          /\ handler[h].pc # "idle" => handler[h].doc \in Docs
          /\ handler[h].pc \in {"enqueueing", "resuming"} =>
                doc[handler[h].doc].status # "absent"

-----------------------------------------------------------------------------
(***************************************************************************)
(* Work in progress: what will still bring a worker to a document.         *)
(***************************************************************************)
\* Copies counted of one message: the upload's, the approval's, and one for
\* each interruption.
MaxCopies   == MaxInterruptions + 2
Messages(d) == {copy \in Tasks \X (1..MaxCopies) :
                    copy[1].doc = d /\ copy[2] <= broker[copy[1]]}
Running(d)  == {w \in Workers :
                    worker[w].pc \notin {"idle", "done"} /\ DocOf(w) = d}
Sending(d)  == {h \in Handlers :
                    /\ handler[h].pc \in {"enqueueing", "resuming"}
                    /\ handler[h].doc = d}

\* If no message is ever delivered twice, a document never has two tasks at
\* work, however uploads race, requests die, publishes fail and attempts
\* are retried: one insert wins, one approve changes the row, and a retry
\* replaces its predecessor.
SingleTask ==
    \A d \in Docs :
        Cardinality(Messages(d)) + Cardinality(Running(d))
            + Cardinality(Sending(d)) <= 1

\* While every publish and every call is answered, a document that waits for
\* a worker has something that brings one, across crashes and redeliveries:
\* the task is acknowledged only after its transaction, and the retry is
\* published before that.
NoLostWork ==
    \A d \in Docs :
        doc[d].status \in {"queued", "approved"} =>
            Messages(d) \cup Running(d) \cup Sending(d) # {}

\* The ERP holds no invoice nobody accounts for: each is of a submitted
\* document, under the number its row shows, or of the one in the hands of
\* the worker that has just created it.  So no rejected, failed or waiting
\* document is billed and none is billed twice.  One worker, no crash and no
\* lost ERP answer; redeliveries are allowed.
NoStrayInvoice ==
    \A key \in erp :
        \/ /\ doc[key[1]].status = "submitted"
           /\ doc[key[1]].extraction.number = key[2]
        \/ \E w \in Workers :
              worker[w].pc \in {"recording", "committing"} /\ ErpKey(w) = key

\* A second invoice under one business number goes to the ERP only with a
\* reviewer's approval: every submitted document's number is recorded, for
\* itself or, if a reviewer approved it, for another (duplicate_business of
\* process_document).  One worker: two may both find the number free.
DuplicatesAreReviewed ==
    \A d \in Docs :
        doc[d].status = "submitted" =>
            \E entry \in ledger :
                /\ entry.number = doc[d].extraction.number
                /\ entry.doc = d \/ doc[d].decision = "human_approve"

\* Steps a task has before it at most, until it ends or publishes the next
\* attempt; an attempt with its message counts for AttemptSteps.
AttemptSteps == 12
StepsLeft(pc) ==
    CASE pc = "received"   -> 9
      [] pc = "extracting" -> 8
      [] pc = "deciding"   -> 7
      [] pc = "submitting" -> 6
      [] pc = "recording"  -> 5
      [] pc \in {"committing", "transient"} -> 4
      [] pc \in {"retrying", "exhausted"}   -> 3
      [] pc = "deadletter" -> 2
      [] pc = "done"       -> 1
      [] pc = "idle"       -> 0

\* What a message is good for, and what its task has left.
Load(t) == 11 + AttemptSteps * (MaxRetries - t.retries)
Left(w) ==
    StepsLeft(worker[w].pc)
        + IF worker[w].pc \in {"idle", "done", "deadletter", "exhausted"}
              THEN 0
              ELSE AttemptSteps * (MaxRetries - Retries(w))

\* No step of a worker repeats or multiplies work: what it has left, with
\* what it publishes, is less than what it had, with what it received.  Only
\* a crash or a redelivery adds to it (self.retry counts each attempt).
WorkDescends ==
    [][\A w \in Workers :
          worker'[w] # worker[w] =>
              \/ interruptions' > interruptions
              \/ broker' = broker /\ Left(w)' < Left(w)
              \/ \E t \in Tasks :
                    \/ /\ broker' = [broker EXCEPT ![t] = @ - 1]
                       /\ Left(w)' < Left(w) + Load(t)
                    \/ /\ broker' = [broker EXCEPT ![t] = @ + 1]
                       /\ Left(w)' + Load(t) < Left(w)]_vars

\* A document that waits for a worker comes to rest: retries are bounded,
\* and nothing else repeats.
WorkSettles ==
    \A d \in Docs :
        doc[d].status \in {"queued", "approved"} ~>
            doc[d].status \in WorkerNoopStates

-----------------------------------------------------------------------------
(***************************************************************************)
(* What documents of the repository say and the code does not do: each is  *)
(* refuted by a run of its own.                                            *)
(***************************************************************************)

\* "Auto-approved invoices submit exactly once to the ERP mock using an
\* idempotency key": the key holds the extracted number, and a second
\* extraction after a crash may read another.
OneInvoicePerDocument ==
    \A key, other \in erp : key[1] = other[1] => key = other

\* "... then land in a Redis list DLQ with failed status": the commit of
\* failed and the push are two steps, and the redelivered task is a no-op.
FailedIsDeadLettered ==
    \A d \in Docs :
        doc[d].status = "failed" =>
            \/ dlq[d] > 0
            \/ \E w \in Workers : At(w, "deadletter") /\ DocOf(w) = d

\* "POST /documents persists the upload, enqueues work, returns 202": an
\* accepted upload that is queued has work.  The replay after a 503 says 202
\* and enqueues nothing.
AcceptedHasWork ==
    \A d \in acked :
        doc[d].status = "queued" =>
            Messages(d) \cup Running(d) \cup Sending(d) # {}

-----------------------------------------------------------------------------
(***************************************************************************)
(* Refinement.                                                             *)
(***************************************************************************)
Life == INSTANCE Lifecycle
            WITH status <- [d \in Docs |-> doc[d].status],
                 billed <- {key[1] : key \in erp}

\* The tables and the ERP together behave as the life cycle promises: only
\* its status changes, terminal rows never leave, billing only of documents
\* under work, submitted only after billing.
LifecycleSpec == Life!Spec

=============================================================================
