--------------------------- MODULE PipelineProofs ---------------------------
(***************************************************************************)
(* The safety properties of Pipeline hold for any number of documents,     *)
(* workers, API threads and retries, and under every fault.                *)
(*                                                                         *)
(* The argument has three parts.  A worker's step moves its own record     *)
(* along (OwnLock, OwnShape) and, because of the row lock, disturbs no     *)
(* other worker's (Frame).  Whatever the step, it changes at most one row  *)
(* in one of a few ways (WorkerRows, ApiRows), and each of those keeps     *)
(* what is said of the tables (RowsKeep).  Messages and dead letters are   *)
(* of rows that exist or have ended, which no step undoes (WorkerTasks,    *)
(* WorkerLetters, ApiTasks).                                               *)
(***************************************************************************)
EXTENDS Pipeline, TLAPS

(***************************************************************************)
(* Types.  A retry may only be counted and republished within the bound    *)
(* MaxRetries, and only a task that names a document may be worked on:     *)
(* TypeOK is inductive only together with TransactionShape and             *)
(* TaskNamesRow.                                                           *)
(***************************************************************************)
\* The row no upload has created yet is a row.
LEMMA NoRowTyped == NoRow \in Rows
  BY ConstantsAssumption DEF NoRow, Rows, Decisions

\* The record of a worker that waits for a message is well formed.
LEMMA IdleTyped == IdleWorker \in Workings
  BY NoRowTyped DEF IdleWorker, Workings, WorkerSteps

\* Empty tables, an empty broker and idle processes are of their types.
LEMMA TypeInit == Init => TypeOK
<1>. SUFFICES ASSUME Init PROVE TypeOK
  OBVIOUS
<1>. USE ConstantsAssumption DEF Init
<1>1. IdleHandler \in Requests /\ None \in Owners
  BY DEF IdleHandler, HandlerSteps, Requests, Owners
<1>. QED
  BY NoRowTyped, IdleTyped, <1>1 DEF TypeOK

\* The three ways to move a worker keep the types of what they change.
LEMMA Stepping ==
    ASSUME TypeOK, NEW w \in Workers, NEW pc \in WorkerSteps
    PROVE  /\ Goto(w, pc) => worker' \in [Workers -> Workings]
           /\ \A row \in Rows :
                 Continue(w, pc, row) => worker' \in [Workers -> Workings]
           /\ worker[w].task \in Tasks /\ EndTransaction(w, pc) =>
                 /\ worker' \in [Workers -> Workings]
                 /\ rowLock' \in [Docs -> Owners]
<1>1. worker[w] \in Workings
  BY DEF TypeOK
<1>2. [worker[w] EXCEPT !.pc = pc] \in Workings
  BY <1>1 DEF Workings
<1>3. ASSUME NEW row \in Rows
      PROVE  [worker[w] EXCEPT !.pc = pc, !.row = row] \in Workings
  BY <1>1 DEF Workings
<1>0. None \in Owners
  BY DEF Owners
<1>4. ASSUME worker[w].task \in Tasks
      PROVE  [IdleWorker EXCEPT !.pc = pc, !.task = worker[w].task] \in Workings
  BY <1>4, NoRowTyped DEF Workings, IdleWorker
<1>5. worker \in [Workers -> Workings] /\ rowLock \in [Docs -> Owners]
  BY DEF TypeOK
<1>6. Goto(w, pc) => worker' \in [Workers -> Workings]
  BY <1>2, <1>5 DEF Goto
<1>7. ASSUME NEW row \in Rows, Continue(w, pc, row)
      PROVE  worker' \in [Workers -> Workings]
  BY <1>3, <1>5, <1>7 DEF Continue
<1>8. ASSUME worker[w].task \in Tasks, EndTransaction(w, pc)
      PROVE  /\ worker' \in [Workers -> Workings]
             /\ rowLock' \in [Docs -> Owners]
  BY <1>0, <1>4, <1>5, <1>8 DEF EndTransaction, DocOf
<1>. QED
  BY <1>6, <1>7, <1>8

\* No step of process_document_task takes a variable out of its type.
LEMMA TypeWorker ==
    ASSUME TypeOK, TransactionShape, ApprovedByHuman,
           NEW w \in Workers, WorkerStep(w)
    PROVE  TypeOK'
<1>. USE ConstantsAssumption DEF At, DocOf, Retries, Invoice, store
<1>0. /\ worker[w] \in Workings
      /\ worker[w].row \in Rows
      /\ {"idle", "received", "extracting", "deciding", "submitting",
          "recording", "committing", "transient", "retrying", "exhausted",
          "deadletter", "done"} = WorkerSteps
  BY DEF TypeOK, Workings, WorkerSteps, InTransaction
<1>1. CASE Receive(w)
  <2>1. PICK t \in Tasks :
           /\ broker[t] > 0
           /\ broker' = [broker EXCEPT ![t] = @ - 1]
           /\ worker' = [worker EXCEPT
                           ![w] = [@ EXCEPT !.pc = "received", !.task = t]]
    BY <1>1 DEF Receive
  <2>2. broker' \in [Tasks -> Nat]
    BY <2>1 DEF TypeOK
  <2>3. worker' \in [Workers -> Workings]
    BY <2>1, <1>0 DEF TypeOK, Workings
  <2>4. UNCHANGED <<store, dlq, erp, handler, acked, interruptions>>
    BY <1>1 DEF Receive
  <2>. QED
    BY <2>2, <2>3, <2>4 DEF TypeOK
<1>. SUFFICES ASSUME ~Receive(w), ~At(w, "idle")
              PROVE  TypeOK'
  BY <1>1 DEF WorkerStep, SkipSettled, ClaimQueued, ClaimApproved, Claim, Extract,
     ParkUnreadable, ProviderTransient, ExtractionFails, AutoApprove, Park,
     ErpTransient, LookupUnanswered, CreateInvoice, SubmissionRefused,
     CreateUnanswered, CheckLedger, CommitSubmission, LedgerConflict, RecordRetry,
     Retry, RetryPublishFails, MarkExhausted, DeadLetter, DeadLetterFails,
     Acknowledge
<1>2. /\ worker[w].task \in Tasks
      /\ worker[w].task.doc \in Docs
      /\ worker[w].task.retries \in 0..MaxRetries
      /\ doc[DocOf(w)] \in Rows
  BY DEF TransactionShape, Shape, Tasks, TypeOK
<1>3. CASE SkipSettled(w)
  BY <1>0, <1>3, Stepping DEF SkipSettled, TypeOK
<1>4. ASSUME NEW state, NEW pc \in WorkerSteps, NEW row \in Rows,
             Claim(w, state, pc, row)
      PROVE  TypeOK'
  <2>1. worker' \in [Workers -> Workings]
    BY <1>4, Stepping DEF Claim
  <2>2. rowLock' \in [Docs -> Owners]
    BY <1>2, <1>4 DEF Claim, TypeOK, Owners
  <2>. QED
    BY <2>1, <2>2, <1>4 DEF Claim, TypeOK
<1>5. CASE ClaimQueued(w)
  <2>1. WithStatus(doc[DocOf(w)], "processing") \in Rows
    BY <1>2 DEF WithStatus, Rows, WorkflowState
  <2>. QED
    BY <2>1, <1>0, <1>4, <1>5 DEF ClaimQueued
<1>6. CASE ClaimApproved(w)
  BY <1>0, <1>2, <1>4, <1>6 DEF ClaimApproved
<1>7. CASE Extract(w)
  <2>1. PICK invoice \in Readings[DocOf(w)] \ {None} :
           Continue(w, "deciding",
                    [worker[w].row EXCEPT !.status = "extracted",
                                          !.extraction = invoice])
    BY <1>7 DEF Extract
  <2>2. [worker[w].row EXCEPT !.status = "extracted",
                              !.extraction = invoice] \in Rows
    BY <1>0, <1>2 DEF Rows, WorkflowState
  <2>3. worker' \in [Workers -> Workings]
    BY <2>1, <2>2, <1>0, Stepping
  <2>. QED
    BY <2>3, <1>7 DEF Extract, TypeOK
<1>8. ASSUME NEW row \in Rows, Commit(w, row)
      PROVE  /\ worker' \in [Workers -> Workings]
             /\ rowLock' \in [Docs -> Owners]
             /\ doc' \in [Docs -> Rows]
  BY <1>0, <1>2, <1>8, Stepping DEF Commit, TypeOK
<1>9. ASSUME NEW pc \in WorkerSteps, Rollback(w, pc)
      PROVE  /\ worker' \in [Workers -> Workings]
             /\ rowLock' \in [Docs -> Owners]
             /\ doc' \in [Docs -> Rows]
  BY <1>0, <1>2, <1>9, Stepping DEF Rollback, TypeOK
<1>10. CASE ParkUnreadable(w)
  <2>1. WithStatus(worker[w].row, "needs_review") \in Rows
    BY <1>0 DEF WithStatus, Rows, WorkflowState
  <2>. QED
    BY <2>1, <1>8, <1>10 DEF ParkUnreadable, TypeOK
<1>11. CASE ProviderTransient(w)
  BY <1>0, <1>9, <1>11 DEF ProviderTransient, Rollback, TypeOK
<1>12. CASE ExtractionFails(w)
  BY <1>0, <1>9, <1>12 DEF ExtractionFails, Rollback, TypeOK
<1>13. CASE AutoApprove(w)
  <2>1. [worker[w].row EXCEPT !.status = "approved",
                              !.decision = "auto_approve"] \in Rows
    BY <1>0 DEF Rows, WorkflowState, Decisions
  <2>2. worker' \in [Workers -> Workings]
    BY <2>1, <1>0, <1>13, Stepping DEF AutoApprove
  <2>. QED
    BY <2>2, <1>13 DEF AutoApprove, TypeOK
<1>14. CASE Park(w)
  <2>1. [worker[w].row EXCEPT !.status = "needs_review",
                              !.decision = "needs_review"] \in Rows
    BY <1>0 DEF Rows, WorkflowState, Decisions
  <2>. QED
    BY <2>1, <1>8, <1>14 DEF Park, TypeOK
<1>15. CASE ErpTransient(w)
  BY <1>0, <1>9, <1>15 DEF ErpTransient, Rollback, TypeOK
<1>16. CASE LookupUnanswered(w)
  BY <1>0, <1>9, <1>16 DEF LookupUnanswered, Rollback, TypeOK
<1>17. ASSUME At(w, "submitting")
       PROVE  ErpKey(w) \in Docs \X Numbers
  BY <1>2, <1>17 DEF TransactionShape, Shape, ReadyToSubmit, ErpKey, Invoices
<1>18. CASE CreateInvoice(w)
  <2>1. worker' \in [Workers -> Workings]
    BY <1>0, <1>18, Stepping DEF CreateInvoice
  <2>2. erp' \subseteq Docs \X Numbers
    BY <1>17, <1>18 DEF CreateInvoice, TypeOK
  <2>. QED
    BY <2>1, <2>2, <1>18 DEF CreateInvoice, TypeOK
<1>19. CASE SubmissionRefused(w)
  BY <1>0, <1>9, <1>19 DEF SubmissionRefused, Rollback, TypeOK
<1>20. CASE CreateUnanswered(w)
  <2>1. erp' \subseteq Docs \X Numbers
    BY <1>17, <1>20 DEF CreateUnanswered, TypeOK
  <2>. QED
    BY <2>1, <1>0, <1>9, <1>20 DEF CreateUnanswered, Rollback, TypeOK
<1>21. CASE CheckLedger(w)
  <2>1. WithStatus(worker[w].row, "submitted") \in Rows
    BY <1>0 DEF WithStatus, Rows, WorkflowState
  <2>2. Recorded(Invoice(w).number) \in BOOLEAN
    BY DEF Recorded
  <2>3. [worker[w] EXCEPT !.pc = "committing",
                          !.row = WithStatus(worker[w].row, "submitted"),
                          !.fresh = ~Recorded(Invoice(w).number)] \in Workings
    BY <2>1, <2>2, <1>0 DEF Workings
  <2>4. worker' \in [Workers -> Workings]
    BY <2>3, <1>21 DEF CheckLedger, TypeOK
  <2>. QED
    BY <2>4, <1>21 DEF CheckLedger, TypeOK
<1>22. CASE CommitSubmission(w)
  <2>1. [doc |-> DocOf(w), number |-> Invoice(w).number]
           \in [doc : Docs, number : Numbers]
    BY <1>2, <1>22 DEF CommitSubmission, TransactionShape, Shape, ReadyToSubmit, Invoices
  <2>2. ledger' \subseteq [doc : Docs, number : Numbers]
    BY <2>1, <1>22 DEF CommitSubmission, TypeOK
  <2>. QED
    BY <2>2, <1>0, <1>8, <1>22 DEF CommitSubmission, TypeOK
<1>23. CASE LedgerConflict(w)
  BY <1>0, <1>9, <1>23 DEF LedgerConflict, Rollback, TypeOK
<1>24. Retries(w) + 1 \in 0..(MaxRetries + 1)
  BY <1>2
<1>25. CASE RecordRetry(w)
  <2>1. [doc[DocOf(w)] EXCEPT !.retryCount = Retries(w) + 1] \in Rows
    BY <1>2, <1>24 DEF Rows
  <2>2. doc' \in [Docs -> Rows]
    BY <2>1, <1>2, <1>25 DEF RecordRetry, TypeOK
  <2>3. worker' \in [Workers -> Workings]
    BY <1>0, <1>25, Stepping DEF RecordRetry
  <2>. QED
    BY <2>2, <2>3, <1>25 DEF RecordRetry, TypeOK
<1>26. CASE Retry(w)
  <2>1. [doc |-> DocOf(w), retries |-> Retries(w) + 1] \in Tasks
    BY <1>2, <1>26 DEF Retry, TransactionShape, Shape, Tasks
  <2>2. broker' \in [Tasks -> Nat]
    BY <2>1, <1>26 DEF Retry, TypeOK
  <2>3. worker' \in [Workers -> Workings]
    BY <1>0, <1>26, Stepping DEF Retry
  <2>. QED
    BY <2>2, <2>3, <1>26 DEF Retry, TypeOK
<1>27. CASE RetryPublishFails(w)
  BY <1>0, <1>27, Stepping DEF RetryPublishFails, TypeOK
<1>28. CASE MarkExhausted(w)
  <2>1. [doc[DocOf(w)] EXCEPT !.retryCount = Retries(w) + 1] \in Rows
    BY <1>2, <1>24 DEF Rows
  <2>2. WithStatus([doc[DocOf(w)] EXCEPT !.retryCount = Retries(w) + 1], "failed")
           \in Rows
    BY <2>1 DEF WithStatus, Rows, WorkflowState
  <2>3. doc' \in [Docs -> Rows]
    BY <2>1, <2>2, <1>2, <1>28 DEF MarkExhausted, TypeOK
  <2>4. worker' \in [Workers -> Workings]
    BY <1>0, <1>28, Stepping DEF MarkExhausted
  <2>. QED
    BY <2>3, <2>4, <1>28 DEF MarkExhausted, TypeOK
<1>29. CASE DeadLetter(w)
  <2>1. dlq' \in [Docs -> Nat]
    BY <1>2, <1>29 DEF DeadLetter, TypeOK
  <2>2. worker' \in [Workers -> Workings]
    BY <1>0, <1>29, Stepping DEF DeadLetter
  <2>. QED
    BY <2>1, <2>2, <1>29 DEF DeadLetter, TypeOK
<1>30. CASE DeadLetterFails(w)
  BY <1>0, <1>30, Stepping DEF DeadLetterFails, TypeOK
<1>31. CASE Acknowledge(w)
  <2>1. worker' \in [Workers -> Workings]
    BY <1>31, IdleTyped DEF Acknowledge, TypeOK
  <2>. QED
    BY <2>1, <1>31 DEF Acknowledge, TypeOK
<1>. QED
  BY <1>3, <1>5, <1>6, <1>7, <1>10, <1>11, <1>12, <1>13, <1>14, <1>15, <1>16,
     <1>18, <1>19, <1>20, <1>21, <1>22, <1>23, <1>25, <1>26, <1>27, <1>28, <1>29,
     <1>30, <1>31 DEF WorkerStep

\* Neither does a worker's crash nor a redelivery.
LEMMA TypeFault ==
    ASSUME TypeOK, TransactionShape, NEW w \in Workers,
           WorkerCrash(w) \/ Redeliver(w)
    PROVE  TypeOK'
<1>. USE ConstantsAssumption DEF At, DocOf, store
<1>1. worker[w].task \in Tasks /\ worker[w].task.doc \in Docs
  BY DEF WorkerCrash, Redeliver, TransactionShape, Shape, Tasks
<1>2. /\ broker' \in [Tasks -> Nat]
      /\ interruptions' \in 0..MaxInterruptions
  BY <1>1 DEF WorkerCrash, Redeliver, Interrupt, TypeOK
<1>3. CASE WorkerCrash(w)
  <2>1. worker' \in [Workers -> Workings]
    BY <1>3, IdleTyped DEF WorkerCrash, TypeOK
  <2>2. rowLock' \in [Docs -> Owners]
    BY <1>1, <1>3 DEF WorkerCrash, TypeOK, Owners
  <2>. QED
    BY <2>1, <2>2, <1>2, <1>3 DEF WorkerCrash, TypeOK
<1>4. CASE Redeliver(w)
  BY <1>2, <1>4 DEF Redeliver, TypeOK
<1>. QED
  BY <1>3, <1>4

\* Neither does a step of an upload or of a review request.
LEMMA TypeApi ==
    ASSUME TypeOK, TransactionShape, TaskNamesRow, NEW h \in Handlers, Api(h)
    PROVE  TypeOK'
<1>. USE ConstantsAssumption DEF store
<1>1. /\ IdleHandler \in Requests
      /\ \A pc \in HandlerSteps, d \in Docs, edit \in Invoices \cup {None} :
            Request(pc, d, edit) \in Requests
      /\ HandlerSteps = {"idle", "creating", "enqueueing", "editing", "resuming"}
      /\ handler[h] \in Requests
      /\ h \in Owners /\ None \in Owners
  BY DEF IdleHandler, HandlerSteps, Request, Requests, Owners, TypeOK
<1>2. CASE \E d \in Docs : ReplayUpload(h, d)
  BY <1>2 DEF ReplayUpload, TypeOK
<1>3. CASE \E d \in Docs : StartUpload(h, d)
  BY <1>1, <1>3 DEF StartUpload, TypeOK
<1>4. ASSUME NEW d \in Docs, NEW invoice \in Invoices,
             CommitApproval(h, d, invoice), rowLock' \in [Docs -> Owners]
      PROVE  TypeOK'
  <2>1. doc[d] \in Rows
    BY DEF TypeOK
  <2>2. [doc[d] EXCEPT !.extraction = invoice, !.decision = "human_approve",
                       !.status = "approved"] \in Rows
    BY <2>1 DEF Rows, WorkflowState, Decisions
  <2>3. doc' \in [Docs -> Rows]
    BY <2>2, <1>4 DEF CommitApproval, TypeOK
  <2>4. handler' \in [Handlers -> Requests]
    BY <1>1, <1>4 DEF CommitApproval, TypeOK
  <2>. QED
    BY <2>3, <2>4, <1>4 DEF CommitApproval, TypeOK
<1>5. CASE \E d \in Docs : Approve(h, d)
  <2>1. PICK d \in Docs : Approve(h, d)
    BY <1>5
  <2>2. doc[d].extraction \in Invoices
    BY <2>1 DEF Approve, TypeOK, Rows
  <2>. QED
    BY <2>1, <2>2, <1>4 DEF Approve, TypeOK
<1>6. CASE \E d \in Docs : CheckEdit(h, d)
  <2>1. PICK d \in Docs : CheckEdit(h, d)
    BY <1>6
  <2>2. rowLock' \in [Docs -> Owners]
    BY <2>1, <1>1 DEF CheckEdit, TypeOK
  <2>3. handler' \in [Handlers -> Requests]
    BY <2>1, <1>1 DEF CheckEdit, TypeOK
  <2>. QED
    BY <2>1, <2>2, <2>3 DEF CheckEdit, TypeOK
<1>7. CASE ApproveEdited(h)
  <2>1. handler[h].doc \in Docs /\ handler[h].edit \in Invoices
    BY <1>7 DEF ApproveEdited, TransactionShape, EditShape
  <2>2. rowLock' \in [Docs -> Owners]
    BY <1>1, <1>7 DEF ApproveEdited, TypeOK
  <2>. QED
    BY <2>1, <2>2, <1>4, <1>7 DEF ApproveEdited
<1>8. CASE \E d \in Docs : Reject(h, d)
  <2>1. PICK d \in Docs : Reject(h, d)
    BY <1>8
  <2>4. doc[d] \in Rows
    BY DEF TypeOK
  <2>3. [doc[d] EXCEPT !.decision = "rejected", !.status = "rejected"] \in Rows
    BY <2>4 DEF Rows, WorkflowState, Decisions
  <2>2. doc' \in [Docs -> Rows]
    BY <2>1, <2>3 DEF Reject, TypeOK
  <2>. QED
    BY <2>1, <2>2 DEF Reject, TypeOK
<1>9. handler[h].pc # "idle" => handler[h].doc \in Docs
  BY DEF TaskNamesRow
<1>10. CASE CreateDocument(h)
  <2>1. WithStatus(NoRow, "queued") \in Rows
    BY NoRowTyped DEF WithStatus, Rows, WorkflowState
  <2>2. doc' \in [Docs -> Rows]
    BY <2>1, <1>9, <1>10 DEF CreateDocument, TypeOK
  <2>3. [handler[h] EXCEPT !.pc = "enqueueing"] \in Requests
    BY <1>1 DEF Requests
  <2>4. handler' \in [Handlers -> Requests]
    BY <2>3, <1>10 DEF CreateDocument, TypeOK
  <2>. QED
    BY <2>2, <2>4, <1>10 DEF CreateDocument, TypeOK
<1>11. ASSUME handler[h].pc # "idle", Enqueue(handler[h].doc)
       PROVE  broker' \in [Tasks -> Nat]
  <2>1. [doc |-> handler[h].doc, retries |-> 0] \in Tasks
    BY <1>9, <1>11 DEF Tasks
  <2>. QED
    BY <2>1, <1>11 DEF Enqueue, TypeOK
<1>12. CASE LoseUploadRace(h)
  BY <1>1, <1>12 DEF LoseUploadRace, TypeOK
<1>13. CASE EnqueueUpload(h)
  BY <1>1, <1>9, <1>11, <1>13 DEF EnqueueUpload, TypeOK
<1>14. CASE UploadEnqueueFails(h)
  BY <1>1, <1>14 DEF UploadEnqueueFails, TypeOK
<1>15. CASE EnqueueResume(h)
  BY <1>1, <1>11, <1>15 DEF EnqueueResume, TypeOK
<1>16. CASE ResumeEnqueueFails(h)
  BY <1>1, <1>16 DEF ResumeEnqueueFails, TypeOK
<1>17. CASE ApiCrash(h)
  BY <1>1, <1>17 DEF ApiCrash, Interrupt, TypeOK
<1>. QED
  BY <1>2, <1>3, <1>5, <1>6, <1>7, <1>8, <1>10, <1>12, <1>13, <1>14, <1>15, <1>16, <1>17
  DEF Api, UploadStep, ReviewStep

-----------------------------------------------------------------------------
(***************************************************************************)
(* The records of workers, and the rows under their locks.                 *)
(***************************************************************************)
\* What the three ways to move a worker leave in its record.
LEMMA Moved ==
    ASSUME TypeOK, NEW w \in Workers, NEW pc
    PROVE  /\ Goto(w, pc) =>
                 /\ worker'[w].pc = pc
                 /\ worker'[w].task = worker[w].task
                 /\ worker'[w].row = worker[w].row
           /\ \A row : Continue(w, pc, row) =>
                 /\ worker'[w].pc = pc
                 /\ worker'[w].task = worker[w].task
                 /\ worker'[w].row = row
           /\ EndTransaction(w, pc) =>
                 /\ worker'[w].pc = pc
                 /\ worker'[w].task = worker[w].task
                 /\ rowLock' = [rowLock EXCEPT ![DocOf(w)] = None]
<1>1. worker \in [Workers -> Workings] /\ worker[w] \in Workings
  BY DEF TypeOK
<1>2. Goto(w, pc) =>
         /\ worker'[w].pc = pc
         /\ worker'[w].task = worker[w].task
         /\ worker'[w].row = worker[w].row
  BY <1>1 DEF Goto, Workings
<1>3. ASSUME NEW row, Continue(w, pc, row)
      PROVE  /\ worker'[w].pc = pc
             /\ worker'[w].task = worker[w].task
             /\ worker'[w].row = row
  BY <1>1, <1>3 DEF Continue, Workings
<1>4. EndTransaction(w, pc) =>
         /\ worker'[w].pc = pc
         /\ worker'[w].task = worker[w].task
         /\ rowLock' = [rowLock EXCEPT ![DocOf(w)] = None]
  BY <1>1 DEF EndTransaction, IdleWorker
<1>. QED
  BY <1>2, <1>3, <1>4

\* A worker's step leaves the other workers' records alone, never takes an
\* invoice away from the ERP, and does not touch a row another worker locks.
LEMMA Frame ==
    ASSUME TypeOK, TransactionShape, LockDiscipline, NEW w \in Workers,
           WorkerStep(w) \/ WorkerCrash(w) \/ Redeliver(w)
    PROVE  /\ \A v \in Workers : v # w => worker'[v] = worker[v]
           /\ erp \subseteq erp'
           /\ \A d \in Docs : rowLock[d] \notin {None, w} =>
                 doc'[d] = doc[d] /\ rowLock'[d] = rowLock[d]
<1>. USE DEF At, DocOf, Unlocked, store
<1>0. /\ worker \in [Workers -> Workings]
      /\ doc \in [Docs -> Rows]
      /\ rowLock \in [Docs -> Owners]
  BY DEF TypeOK
<1>1. CASE Receive(w)
  BY <1>0, <1>1 DEF Receive
<1>2. CASE SkipSettled(w) \/ CreateInvoice(w) \/ Retry(w) \/ RetryPublishFails(w)
             \/ DeadLetter(w) \/ DeadLetterFails(w)
  BY <1>0, <1>2 DEF SkipSettled, CreateInvoice, Retry, RetryPublishFails, DeadLetter,
     DeadLetterFails, Goto
<1>3. CASE Extract(w) \/ AutoApprove(w) \/ CheckLedger(w) \/ Acknowledge(w)
  BY <1>0, <1>3 DEF Extract, AutoApprove, CheckLedger, Acknowledge, Continue
<1>4. CASE ClaimQueued(w) \/ ClaimApproved(w)
  BY <1>0, <1>4 DEF ClaimQueued, ClaimApproved, Claim, Continue
<1>5. CASE RecordRetry(w)
  BY <1>0, <1>5 DEF RecordRetry, Goto
<1>6. CASE MarkExhausted(w)
  BY <1>0, <1>6 DEF MarkExhausted, Goto
<1>7. CASE WorkerCrash(w) \/ Redeliver(w)
  BY <1>0, <1>7 DEF WorkerCrash, Redeliver
<1>8. ASSUME worker[w].pc \in InTransaction
      PROVE  DocOf(w) \in Docs /\ rowLock[DocOf(w)] = w
  BY <1>8 DEF TransactionShape, Shape, Tasks, LockDiscipline, InTransaction
<1>9. CASE ParkUnreadable(w) \/ Park(w) \/ CommitSubmission(w)
  <2>1. worker[w].pc \in InTransaction
    BY <1>9 DEF ParkUnreadable, Park, CommitSubmission, InTransaction
  <2>2. erp' = erp /\ \E row : Commit(w, row)
    BY <1>9 DEF ParkUnreadable, Park, CommitSubmission
  <2>. QED
    BY <2>1, <2>2, <1>0, <1>8 DEF Commit, EndTransaction
<1>10. CASE ProviderTransient(w) \/ ExtractionFails(w) \/ ErpTransient(w)
              \/ LookupUnanswered(w) \/ SubmissionRefused(w)
              \/ CreateUnanswered(w) \/ LedgerConflict(w)
  <2>1. worker[w].pc \in InTransaction
    BY <1>10 DEF ProviderTransient, ExtractionFails, ErpTransient, LookupUnanswered,
       SubmissionRefused, CreateUnanswered, LedgerConflict, InTransaction
  <2>2. erp \subseteq erp' /\ \E pc : Rollback(w, pc)
    BY <1>10 DEF ProviderTransient, ExtractionFails, ErpTransient, LookupUnanswered,
       SubmissionRefused, CreateUnanswered, LedgerConflict
  <2>. QED
    BY <2>1, <2>2, <1>0, <1>8 DEF Rollback, EndTransaction
<1>. QED
  BY <1>1, <1>2, <1>3, <1>4, <1>5, <1>6, <1>7, <1>9, <1>10 DEF WorkerStep

\* The step of one worker keeps its own part of LockDiscipline.
LEMMA OwnLock ==
    ASSUME TypeOK, TransactionShape, LockDiscipline, NEW w \in Workers,
           WorkerStep(w) \/ WorkerCrash(w) \/ Redeliver(w), NEW d \in Docs
    PROVE  (rowLock[d] = w <=> worker[w].pc \in InTransaction /\ DocOf(w) = d)'
<1>. USE ConstantsAssumption DEF At, DocOf, Unlocked, store
<1>0. /\ worker \in [Workers -> Workings]
      /\ worker[w] \in Workings
      /\ rowLock \in [Docs -> Owners]
      /\ rowLock[d] = w <=> worker[w].pc \in InTransaction /\ DocOf(w) = d
      /\ worker[w].pc # "idle" => DocOf(w) \in Docs
      /\ w # None
  BY DEF TypeOK, LockDiscipline, TransactionShape, Shape, Tasks
<1>1. CASE Receive(w)
  BY <1>0, <1>1 DEF Receive, InTransaction, Workings
<1>2. CASE SkipSettled(w) \/ Retry(w) \/ RetryPublishFails(w)
             \/ DeadLetter(w) \/ DeadLetterFails(w) \/ RecordRetry(w)
             \/ MarkExhausted(w)
  <2>1. worker[w].pc \notin InTransaction /\ rowLock' = rowLock
    BY <1>2 DEF SkipSettled, Retry, RetryPublishFails, DeadLetter, DeadLetterFails,
       RecordRetry, MarkExhausted, InTransaction
  <2>2. PICK pc \in WorkerSteps \ InTransaction : Goto(w, pc)
    BY <1>2 DEF SkipSettled, Retry, RetryPublishFails, DeadLetter, DeadLetterFails,
       RecordRetry, MarkExhausted, InTransaction, WorkerSteps
  <2>3. worker'[w].pc = pc
    BY <2>2, Moved
  <2>. QED
    BY <2>1, <2>2, <2>3, <1>0
<1>3. CASE Acknowledge(w)
  BY <1>0, <1>3 DEF Acknowledge, IdleWorker, InTransaction
<1>4. CASE Extract(w) \/ AutoApprove(w) \/ CheckLedger(w) \/ CreateInvoice(w)
  <2>1. worker[w].pc \in InTransaction /\ rowLock' = rowLock
    BY <1>4 DEF Extract, AutoApprove, CheckLedger, CreateInvoice, InTransaction
  <2>2. CASE CheckLedger(w)
    <3>1. worker'[w].pc = "committing" /\ worker'[w].task = worker[w].task
      BY <2>2, <1>0 DEF CheckLedger, Workings
    <3>. QED
      BY <2>1, <3>1, <1>0 DEF InTransaction
  <2>3. CASE ~CheckLedger(w)
    <3>1. \/ Goto(w, "recording")
          \/ \E row : \E pc \in InTransaction : Continue(w, pc, row)
      BY <2>3, <1>4 DEF Extract, AutoApprove, CreateInvoice, InTransaction
    <3>2. worker'[w].pc \in InTransaction /\ worker'[w].task = worker[w].task
      BY <3>1, Moved DEF InTransaction
    <3>. QED
      BY <2>1, <3>2, <1>0
  <2>. QED
    BY <2>2, <2>3
<1>5. CASE ClaimQueued(w) \/ ClaimApproved(w)
  <2>1. /\ worker[w].pc = "received"
        /\ Unlocked(DocOf(w))
        /\ rowLock' = [rowLock EXCEPT ![DocOf(w)] = w]
        /\ \E row : \E pc \in InTransaction : Continue(w, pc, row)
    BY <1>5 DEF ClaimQueued, ClaimApproved, Claim, InTransaction
  <2>2. worker'[w].pc \in InTransaction /\ worker'[w].task = worker[w].task
    BY <2>1, Moved
  <2>. QED
    BY <2>1, <2>2, <1>0 DEF InTransaction
<1>6. ASSUME NEW pc \in {"done", "transient"}, worker[w].pc \in InTransaction,
             EndTransaction(w, pc)
      PROVE  (rowLock[d] = w <=> worker[w].pc \in InTransaction /\ DocOf(w) = d)'
  BY <1>0, <1>6 DEF EndTransaction, IdleWorker, InTransaction
<1>7. CASE ParkUnreadable(w) \/ Park(w) \/ CommitSubmission(w)
  BY <1>6, <1>7 DEF ParkUnreadable, Park, CommitSubmission, Commit, InTransaction
<1>8. CASE ProviderTransient(w) \/ ExtractionFails(w) \/ ErpTransient(w)
             \/ LookupUnanswered(w) \/ SubmissionRefused(w)
             \/ CreateUnanswered(w) \/ LedgerConflict(w)
  BY <1>6, <1>8 DEF ProviderTransient, ExtractionFails, ErpTransient,
     LookupUnanswered, SubmissionRefused, CreateUnanswered, LedgerConflict, Rollback,
     InTransaction
<1>9. CASE WorkerCrash(w)
  BY <1>0, <1>9 DEF WorkerCrash, IdleWorker, InTransaction
<1>10. CASE Redeliver(w)
  BY <1>0, <1>10 DEF Redeliver
<1>. QED
  BY <1>1, <1>2, <1>3, <1>4, <1>5, <1>7, <1>8, <1>9, <1>10 DEF WorkerStep

\* A worker's own record keeps its shape across its own step.
LEMMA OwnShape ==
    ASSUME TypeOK, TransactionShape, LockDiscipline, NoPartialWork,
           ApprovedByHuman, NEW w \in Workers,
           WorkerStep(w) \/ WorkerCrash(w) \/ Redeliver(w)
    PROVE  Shape(w)'
<1>. USE ConstantsAssumption DEF At, DocOf, Retries, Invoice, Unlocked, store
<1>0. /\ worker \in [Workers -> Workings]
      /\ worker[w] \in Workings
      /\ doc \in [Docs -> Rows]
      /\ Shape(w)
      /\ worker[w].pc # "idle" => worker[w].task \in Tasks /\ DocOf(w) \in Docs
  BY DEF TypeOK, TransactionShape, Shape, Tasks
<1>1. CASE worker'[w].pc = "idle"
  BY <1>1 DEF Shape, InTransaction
<1>2. CASE Receive(w)
  <2>1. worker'[w].pc = "received" /\ worker'[w].task \in Tasks
    BY <1>0, <1>2 DEF Receive, Workings
  <2>. QED
    BY <2>1 DEF Shape, InTransaction
\* Outside the transaction only the task and the retry bound matter.
<1>3. ASSUME NEW pc \in WorkerSteps \ InTransaction,
             worker[w].pc # "idle",
             worker'[w].pc = pc,
             worker'[w].task = worker[w].task,
             pc = "retrying" => Retries(w) < MaxRetries,
             pc = "exhausted" => Retries(w) = MaxRetries
      PROVE  Shape(w)'
  BY <1>0, <1>3 DEF Shape, InTransaction, WorkerSteps
<1>4. CASE SkipSettled(w) \/ Retry(w) \/ RetryPublishFails(w)
             \/ DeadLetter(w) \/ DeadLetterFails(w) \/ MarkExhausted(w)
  <2>1. PICK pc \in {"done", "deadletter"} : Goto(w, pc)
    BY <1>4 DEF SkipSettled, Retry, RetryPublishFails, DeadLetter, DeadLetterFails,
       MarkExhausted
  <2>2. worker[w].pc # "idle"
    BY <1>4 DEF SkipSettled, Retry, RetryPublishFails, DeadLetter, DeadLetterFails,
       MarkExhausted
  <2>. QED
    BY <2>1, <2>2, <1>3, Moved DEF WorkerSteps, InTransaction
<1>5. CASE RecordRetry(w)
  <2>1. CASE Retries(w) >= MaxRetries
    <3>1. Goto(w, "exhausted") /\ worker[w].pc # "idle"
      BY <2>1, <1>5 DEF RecordRetry
    <3>2. Retries(w) = MaxRetries
      BY <2>1, <1>0, <3>1, ConstantsAssumption DEF Tasks
    <3>. QED
      BY <3>1, <3>2, <1>3, Moved DEF WorkerSteps, InTransaction
  <2>2. CASE ~(Retries(w) >= MaxRetries)
    <3>1. Goto(w, "retrying") /\ worker[w].pc # "idle"
      BY <2>2, <1>5 DEF RecordRetry
    <3>2. Retries(w) < MaxRetries
      BY <2>2, <1>0, <3>1 DEF Tasks
    <3>. QED
      BY <3>1, <3>2, <1>3, Moved DEF WorkerSteps, InTransaction
  <2>. QED
    BY <2>1, <2>2
<1>6. CASE ParkUnreadable(w) \/ Park(w) \/ CommitSubmission(w)
             \/ ProviderTransient(w) \/ ExtractionFails(w) \/ ErpTransient(w)
             \/ LookupUnanswered(w) \/ SubmissionRefused(w)
             \/ CreateUnanswered(w) \/ LedgerConflict(w)
  <2>1. worker[w].pc # "idle" /\ \E pc \in {"done", "transient"} : EndTransaction(w, pc)
    BY <1>6 DEF ParkUnreadable, Park, CommitSubmission, ProviderTransient,
       ExtractionFails, ErpTransient, LookupUnanswered, SubmissionRefused,
       CreateUnanswered, LedgerConflict, Commit, Rollback
  <2>. QED
    BY <2>1, <1>3, Moved DEF WorkerSteps, InTransaction
<1>7. CASE ClaimQueued(w)
  <2>. DEFINE claimed == WithStatus(doc[DocOf(w)], "processing")
  <2>1. /\ worker'[w].pc = "extracting"
        /\ worker'[w].task = worker[w].task
        /\ worker'[w].row = claimed
        /\ doc' = doc
        /\ doc[DocOf(w)].status = "queued"
        /\ worker[w].pc # "idle"
    <3>1. Continue(w, "extracting", claimed)
      BY <1>7 DEF ClaimQueued, Claim
    <3>2. /\ worker'[w].pc = "extracting"
          /\ worker'[w].task = worker[w].task
          /\ worker'[w].row = claimed
      BY <3>1, <1>0 DEF Continue, Workings
    <3>. QED
      BY <3>2, <1>7 DEF ClaimQueued, Claim
  <2>2. /\ claimed.status = "processing"
        /\ claimed.extraction = None
        /\ claimed.decision = "none"
        /\ claimed.retryCount = doc[DocOf(w)].retryCount
    BY <2>1, <1>0 DEF NoPartialWork, WithStatus, Rows
  <2>. QED
    BY <2>1, <2>2, <1>0 DEF Shape
<1>8. CASE ClaimApproved(w)
  <2>1. /\ worker'[w].pc = "submitting"
        /\ worker'[w].task = worker[w].task
        /\ worker'[w].row = doc[DocOf(w)]
        /\ doc' = doc
        /\ doc[DocOf(w)].status = "approved"
        /\ worker[w].pc # "idle"
    <3>1. Continue(w, "submitting", doc[DocOf(w)])
      BY <1>8 DEF ClaimApproved, Claim
    <3>2. /\ worker'[w].pc = "submitting"
          /\ worker'[w].task = worker[w].task
          /\ worker'[w].row = doc[DocOf(w)]
      BY <3>1, Moved
    <3>. QED
      BY <3>2, <1>8 DEF ClaimApproved, Claim
  <2>2. doc[DocOf(w)].extraction \in Invoices
    BY <2>1, <1>0 DEF ApprovedByHuman, Rows
  <2>. QED
    BY <2>1, <2>2, <1>0 DEF Shape, ReadyToSubmit
<1>9. CASE Extract(w)
  <2>1. PICK invoice \in Readings[DocOf(w)] \ {None} :
           Continue(w, "deciding",
                    [worker[w].row EXCEPT !.status = "extracted",
                                          !.extraction = invoice])
    BY <1>9 DEF Extract
  <2>2. /\ worker'[w].pc = "deciding"
        /\ worker'[w].task = worker[w].task
        /\ worker'[w].row = [worker[w].row EXCEPT !.status = "extracted",
                                                  !.extraction = invoice]
        /\ doc' = doc
        /\ worker[w].pc = "extracting"
    BY <2>1, <1>9, Moved DEF Extract
  <2>3. invoice \in Invoices
    BY <2>1, <2>2, <1>0
  <2>4. /\ worker'[w].row.status = "extracted"
        /\ worker'[w].row.extraction = invoice
        /\ worker'[w].row.decision = worker[w].row.decision
        /\ worker'[w].row.retryCount = worker[w].row.retryCount
    BY <2>2, <1>0 DEF Workings, Rows
  <2>5. /\ doc[DocOf(w)].status = "queued"
        /\ worker[w].row.decision = "none"
        /\ worker[w].row.retryCount = doc[DocOf(w)].retryCount
    BY <2>2, <1>0 DEF Shape, InTransaction
  <2>. QED
    BY <2>2, <2>3, <2>4, <2>5, <1>0 DEF Shape
<1>10. CASE AutoApprove(w)
  <2>1. /\ worker'[w].pc = "submitting"
        /\ worker'[w].task = worker[w].task
        /\ worker'[w].row = [worker[w].row EXCEPT !.status = "approved",
                                                  !.decision = "auto_approve"]
        /\ doc' = doc
        /\ worker[w].pc = "deciding"
    <3>1. PICK row : /\ row = [worker[w].row EXCEPT !.status = "approved",
                                                    !.decision = "auto_approve"]
                     /\ Continue(w, "submitting", row)
      BY <1>10 DEF AutoApprove
    <3>2. /\ worker'[w].pc = "submitting"
          /\ worker'[w].task = worker[w].task
          /\ worker'[w].row = row
      BY <3>1, <1>0 DEF Continue, Workings
    <3>. QED
      BY <3>1, <3>2, <1>10 DEF AutoApprove
  <2>2. /\ worker'[w].row.status = "approved"
        /\ worker'[w].row.extraction = worker[w].row.extraction
        /\ worker'[w].row.decision = "auto_approve"
        /\ worker'[w].row.retryCount = worker[w].row.retryCount
    BY <2>1, <1>0 DEF Workings, Rows
  <2>. QED
    BY <2>1, <2>2, <1>0 DEF Shape, ReadyToSubmit, InTransaction
<1>11. CASE CreateInvoice(w)
  <2>1. /\ worker'[w].pc = "recording"
        /\ worker'[w].task = worker[w].task
        /\ worker'[w].row = worker[w].row
        /\ doc' = doc
        /\ worker[w].pc = "submitting"
        /\ ErpKey(w) \in erp'
    BY <1>11, Moved DEF CreateInvoice
  <2>. QED
    BY <2>1, <1>0 DEF Shape, ReadyToSubmit, ErpKey, InTransaction
<1>12. CASE CheckLedger(w)
  <2>1. /\ worker'[w].pc = "committing"
        /\ worker'[w].task = worker[w].task
        /\ worker'[w].row = WithStatus(worker[w].row, "submitted")
        /\ doc' = doc /\ erp' = erp
        /\ worker[w].pc = "recording"
    BY <1>0, <1>12 DEF CheckLedger, Workings
  <2>2. /\ worker'[w].row.status = "submitted"
        /\ worker'[w].row.extraction = worker[w].row.extraction
        /\ worker'[w].row.decision = worker[w].row.decision
        /\ worker'[w].row.retryCount = worker[w].row.retryCount
    BY <2>1, <1>0 DEF Workings, Rows, WithStatus
  <2>. QED
    BY <2>1, <2>2, <1>0 DEF Shape, ReadyToSubmit, ErpKey, InTransaction
<1>13. CASE Acknowledge(w) \/ WorkerCrash(w)
  <2>1. worker'[w].pc = "idle"
    BY <1>0, <1>13 DEF Acknowledge, WorkerCrash, IdleWorker
  <2>. QED
    BY <2>1, <1>1
<1>14. CASE Redeliver(w)
  BY <1>0, <1>14 DEF Redeliver, Shape, ErpKey, ReadyToSubmit
<1>. QED
  BY <1>2, <1>4, <1>5, <1>6, <1>7, <1>8, <1>9, <1>10, <1>11, <1>12, <1>13, <1>14
  DEF WorkerStep

\* The four ways a worker's step can change a document's row.
Parks(old, new) ==
    /\ old.status = "queued"
    /\ new.status = "needs_review"
    /\ new.retryCount = old.retryCount

Submits(d, old, new) ==
    /\ old.status \in {"queued", "approved"}
    /\ new.status = "submitted"
    /\ new.extraction \in Invoices
    /\ <<d, new.extraction.number>> \in erp
    /\ new.retryCount = old.retryCount
    /\ old.status = "approved" => /\ new.extraction = old.extraction
                                  /\ new.decision = old.decision
    /\ old.status = "queued" => new.decision = "auto_approve"

Fails(old, new) ==
    /\ old.status \in {"queued", "approved"}
    /\ new.status = "failed"
    /\ new.extraction = old.extraction
    /\ new.decision = old.decision

Counts(old, new) ==
    /\ new.status = old.status
    /\ new.extraction = old.extraction
    /\ new.decision = old.decision

WorkerRow(d) ==
    \/ /\ UNCHANGED ledger
       /\ \/ Parks(doc[d], doc'[d])
          \/ Fails(doc[d], doc'[d])
          \/ Counts(doc[d], doc'[d])
    \/ /\ Submits(d, doc[d], doc'[d])
       /\ \/ UNCHANGED ledger
          \/ LET number == doc'[d].extraction.number
             IN  /\ ~Recorded(number)
                 /\ ledger' = ledger \cup {[doc |-> d, number |-> number]}

\* A worker's step changes at most one row, its own, in one of the four ways;
\* a ledger row is only ever inserted together with the submission it is of.
LEMMA WorkerRows ==
    ASSUME TypeOK, TransactionShape, TaskNamesRow, NoPartialWork,
           NEW w \in Workers, WorkerStep(w) \/ WorkerCrash(w) \/ Redeliver(w)
    PROVE  \/ UNCHANGED <<doc, ledger>>
           \/ /\ DocOf(w) \in Docs
              /\ \A d \in Docs : d # DocOf(w) => doc'[d] = doc[d]
              /\ WorkerRow(DocOf(w))
<1>. USE ConstantsAssumption DEF At, DocOf, Retries, Invoice, store
<1>0. /\ worker[w] \in Workings
      /\ worker[w].row \in Rows
      /\ doc \in [Docs -> Rows]
      /\ Shape(w)
      /\ worker[w].pc # "idle" =>
            /\ worker[w].task \in Tasks
            /\ DocOf(w) \in Docs
            /\ doc[DocOf(w)] \in Rows
            /\ doc[DocOf(w)].status # "absent"
            /\ Retries(w) + 1 > 0
  BY DEF TypeOK, TransactionShape, Shape, Tasks, Workings, TaskNamesRow
<1>1. CASE ParkUnreadable(w)
  <2>1. /\ doc' = [doc EXCEPT ![DocOf(w)] = WithStatus(worker[w].row, "needs_review")]
        /\ ledger' = ledger
        /\ worker[w].pc = "extracting"
    BY <1>1 DEF ParkUnreadable, Commit
  <2>2. Parks(doc[DocOf(w)], doc'[DocOf(w)])
    BY <2>1, <1>0 DEF Shape, Parks, WithStatus, Rows, InTransaction
  <2>. QED
    BY <2>1, <2>2, <1>0 DEF WorkerRow
<1>2. CASE Park(w)
  <2>1. /\ doc' = [doc EXCEPT ![DocOf(w)] =
                      [worker[w].row EXCEPT !.status = "needs_review",
                                            !.decision = "needs_review"]]
        /\ ledger' = ledger
        /\ worker[w].pc = "deciding"
    BY <1>2 DEF Park, Commit
  <2>2. Parks(doc[DocOf(w)], doc'[DocOf(w)])
    BY <2>1, <1>0 DEF Shape, Parks, Rows, InTransaction
  <2>. QED
    BY <2>1, <2>2, <1>0 DEF WorkerRow
<1>3. CASE CommitSubmission(w)
  <2>1. /\ doc' = [doc EXCEPT ![DocOf(w)] = worker[w].row]
        /\ worker[w].pc = "committing"
    BY <1>3 DEF CommitSubmission, Commit
  <2>2. Submits(DocOf(w), doc[DocOf(w)], doc'[DocOf(w)])
    BY <2>1, <1>0 DEF Shape, ReadyToSubmit, ErpKey, Submits, InTransaction
  <2>3. doc'[DocOf(w)] = worker[w].row
    BY <2>1, <1>0
  <2>4. \/ UNCHANGED ledger
        \/ /\ ~Recorded(worker[w].row.extraction.number)
           /\ ledger' = ledger \cup {[doc    |-> DocOf(w),
                                      number |-> worker[w].row.extraction.number]}
    BY <1>3 DEF CommitSubmission
  <2>. QED
    BY <2>1, <2>2, <2>3, <2>4, <1>0 DEF WorkerRow
<1>4. CASE RecordRetry(w)
  <2>1. /\ doc' = [doc EXCEPT ![DocOf(w)] =
                      [doc[DocOf(w)] EXCEPT !.retryCount = Retries(w) + 1]]
        /\ ledger' = ledger
        /\ worker[w].pc # "idle"
    BY <1>4 DEF RecordRetry
  <2>2. Counts(doc[DocOf(w)], doc'[DocOf(w)])
    BY <2>1, <1>0 DEF Counts, Rows
  <2>. QED
    BY <2>1, <2>2, <1>0 DEF WorkerRow
<1>5. CASE MarkExhausted(w)
  <2>. DEFINE counted == [doc[DocOf(w)] EXCEPT !.retryCount = Retries(w) + 1]
  <2>1. worker[w].pc # "idle" /\ ledger' = ledger
    BY <1>5 DEF MarkExhausted
  <2>2. /\ counted.status = doc[DocOf(w)].status
        /\ counted.extraction = doc[DocOf(w)].extraction
        /\ counted.decision = doc[DocOf(w)].decision
        /\ counted.retryCount = Retries(w) + 1
        /\ WithStatus(counted, "failed").status = "failed"
        /\ WithStatus(counted, "failed").retryCount = Retries(w) + 1
        /\ WithStatus(counted, "failed").extraction = doc[DocOf(w)].extraction
        /\ WithStatus(counted, "failed").decision = doc[DocOf(w)].decision
    BY <2>1, <1>0 DEF Rows, WithStatus
  <2>3. CASE doc' = doc
    BY <2>1, <2>3
  <2>4. CASE doc' = [doc EXCEPT ![DocOf(w)] = counted]
    <3>1. Counts(doc[DocOf(w)], doc'[DocOf(w)])
      BY <2>1, <2>2, <2>4, <1>0 DEF Counts
    <3>. QED
      BY <3>1, <2>1, <2>4, <1>0 DEF WorkerRow
  <2>5. CASE /\ doc[DocOf(w)].status \notin TerminalStates
             /\ TransitionAllowed(doc[DocOf(w)].status, "failed")
             /\ doc' = [doc EXCEPT ![DocOf(w)] = WithStatus(counted, "failed")]
    <3>1. doc[DocOf(w)].status \in {"queued", "approved", "needs_review"}
      BY <2>1, <2>5, <1>0 DEF NoPartialWork, Rows, WorkflowState, TerminalStates
    <3>2. doc[DocOf(w)].status \in {"queued", "approved"}
      BY <2>5, <3>1 DEF TransitionAllowed, AllowedTransitions
    <3>3. Fails(doc[DocOf(w)], doc'[DocOf(w)])
      BY <3>2, <2>1, <2>2, <2>5, <1>0 DEF Fails
    <3>. QED
      BY <3>3, <2>1, <2>5, <1>0 DEF WorkerRow
  <2>6. \/ doc' = doc
        \/ doc' = [doc EXCEPT ![DocOf(w)] = counted]
        \/ /\ TransitionAllowed(doc[DocOf(w)].status, "failed")
           /\ doc' = [doc EXCEPT ![DocOf(w)] = WithStatus(counted, "failed")]
    BY <1>5 DEF MarkExhausted
  <2>7. TransitionAllowed(doc[DocOf(w)].status, "failed")
           => doc[DocOf(w)].status \notin TerminalStates
    BY DEF TransitionAllowed, AllowedTransitions, TerminalStates
  <2>. QED
    BY <2>3, <2>4, <2>5, <2>6, <2>7
<1>6. CASE ~ \/ ParkUnreadable(w) \/ Park(w) \/ CommitSubmission(w)
             \/ RecordRetry(w) \/ MarkExhausted(w)
  <2>1. UNCHANGED <<doc, ledger>>
    BY <1>6 DEF WorkerStep, Receive, SkipSettled, ClaimQueued, ClaimApproved, Claim,
       Extract, ProviderTransient, ExtractionFails, AutoApprove, ErpTransient,
       LookupUnanswered, CreateInvoice, SubmissionRefused, CreateUnanswered,
       CheckLedger, LedgerConflict, Retry, RetryPublishFails, DeadLetter,
       DeadLetterFails, Acknowledge, WorkerCrash, Redeliver, Rollback
  <2>. QED
    BY <2>1
<1>. QED
  BY <1>1, <1>2, <1>3, <1>4, <1>5, <1>6

\* The three ways a request of thread h can change a document's row.
ApiRow(h, d) ==
    LET old == doc[d]
        new == doc'[d]
    IN  \/ /\ old.status = "absent"
           /\ new.status = "queued"
           /\ new.extraction = None
           /\ new.decision = "none"
        \/ /\ old.status = "needs_review"
           /\ rowLock[d] \in {None, h}
           /\ new.status = "approved"
           /\ new.decision = "human_approve"
           /\ new.extraction \in Invoices
        \/ /\ old.status = "needs_review"
           /\ Unlocked(d)
           /\ new.status = "rejected"

\* An API step leaves ledger, ERP, dead letters and workers alone and changes
\* at most one row, which nobody else holds.
LEMMA ApiRows ==
    ASSUME TypeOK, TaskNamesRow, TransactionShape, LockDiscipline,
           NEW h \in Handlers, Api(h)
    PROVE  /\ UNCHANGED <<ledger, dlq, erp, worker>>
           /\ \/ doc' = doc
              \/ \E d \in Docs :
                    /\ \A e \in Docs : e # d => doc'[e] = doc[e]
                    /\ ApiRow(h, d)
<1>. USE ConstantsAssumption DEF store
<1>0. doc \in [Docs -> Rows] /\ handler[h].pc # "idle" => handler[h].doc \in Docs
  BY DEF TypeOK, TaskNamesRow
<1>1. UNCHANGED <<ledger, dlq, erp, worker>>
  BY DEF Api, UploadStep, ReviewStep, ReplayUpload, StartUpload, Approve, CheckEdit,
     ApproveEdited, CommitApproval, Reject, CreateDocument, LoseUploadRace,
     EnqueueUpload, UploadEnqueueFails, EnqueueResume, ResumeEnqueueFails, ApiCrash
<1>2. CASE CreateDocument(h)
  <2>. DEFINE d == handler[h].doc
  <2>1. /\ d \in Docs
        /\ doc[d].status = "absent"
        /\ doc' = [doc EXCEPT ![d] = WithStatus(NoRow, "queued")]
    BY <1>2, <1>0 DEF CreateDocument, TaskNamesRow
  <2>2. ApiRow(h, d)
    BY <2>1, <1>0 DEF ApiRow, WithStatus, NoRow, TypeOK
  <2>. QED
    BY <2>1, <2>2, <1>0, <1>1 DEF TypeOK
<1>3. ASSUME NEW d \in Docs, NEW invoice \in Invoices,
             doc[d].status = "needs_review", rowLock[d] \in {None, h},
             CommitApproval(h, d, invoice)
      PROVE  \E e \in Docs :
                /\ \A f \in Docs : f # e => doc'[f] = doc[f]
                /\ ApiRow(h, e)
  <2>1. /\ doc[d] \in Rows
        /\ doc' = [doc EXCEPT ![d] = [@ EXCEPT !.extraction = invoice,
                                               !.decision = "human_approve",
                                               !.status = "approved"]]
    BY <1>3 DEF CommitApproval, TypeOK
  <2>2. /\ doc'[d].status = "approved"
        /\ doc'[d].decision = "human_approve"
        /\ doc'[d].extraction = invoice
    BY <2>1 DEF Rows, TypeOK
  <2>3. ApiRow(h, d)
    BY <2>2, <1>3 DEF ApiRow
  <2>. QED
    BY <2>1, <2>3 DEF TypeOK
<1>4. CASE \E d \in Docs : Approve(h, d)
  <2>1. PICK d \in Docs : Approve(h, d)
    BY <1>4
  <2>2. doc[d].extraction \in Invoices
    BY <2>1 DEF Approve, TypeOK, Rows
  <2>. QED
    BY <2>1, <2>2, <1>1, <1>3 DEF Approve, Reviewable, Unlocked
<1>5. CASE ApproveEdited(h)
  <2>. DEFINE d == handler[h].doc
  <2>1. /\ d \in Docs
        /\ handler[h].edit \in Invoices
        /\ doc[d].status = "needs_review"
    BY <1>5 DEF ApproveEdited, TransactionShape, EditShape
  <2>2. rowLock[d] = h
    BY <2>1, <1>5 DEF ApproveEdited, LockDiscipline
  <2>. QED
    BY <2>1, <2>2, <1>1, <1>3, <1>5 DEF ApproveEdited
<1>6. CASE \E d \in Docs : Reject(h, d)
  <2>1. PICK d \in Docs : Reject(h, d)
    BY <1>6
  <2>2. /\ doc[d] \in Rows
        /\ doc' = [doc EXCEPT ![d] = [@ EXCEPT !.decision = "rejected",
                                               !.status = "rejected"]]
    BY <2>1 DEF Reject, TypeOK
  <2>3. doc'[d].status = "rejected"
    BY <2>2 DEF Rows, TypeOK
  <2>4. ApiRow(h, d)
    BY <2>1, <2>3 DEF ApiRow, Reject, Reviewable
  <2>. QED
    BY <2>2, <2>4, <1>1 DEF TypeOK
<1>7. CASE ~ \/ CreateDocument(h) \/ ApproveEdited(h)
             \/ \E d \in Docs : Approve(h, d) \/ Reject(h, d)
  <2>1. doc' = doc
    BY <1>7 DEF Api, UploadStep, ReviewStep, ReplayUpload, StartUpload, CheckEdit,
       LoseUploadRace, EnqueueUpload, UploadEnqueueFails, EnqueueResume,
       ResumeEnqueueFails, ApiCrash
  <2>. QED
    BY <2>1, <1>1
<1>. QED
  BY <1>2, <1>4, <1>5, <1>6, <1>7

\* What an API step does to locks and requests: it takes a free one for the
\* edit it starts, gives its own back, and leaves the others' alone.
LEMMA ApiLocks ==
    ASSUME TypeOK, TaskNamesRow, TransactionShape, LockDiscipline,
           NEW h \in Handlers, Api(h)
    PROVE  /\ \A g \in Handlers : g # h => handler'[g] = handler[g]
           /\ \A d \in Docs, owner \in Workers \cup Handlers :
                 owner # h => (rowLock'[d] = owner <=> rowLock[d] = owner)
           /\ \A d \in Docs : rowLock'[d] = h <=>
                 handler'[h].pc = "editing" /\ handler'[h].doc = d
           /\ EditShape(h)'
<1>. USE ConstantsAssumption DEF store
<1>0. /\ rowLock \in [Docs -> Owners]
      /\ handler \in [Handlers -> Requests]
      /\ \A d \in Docs : rowLock[d] = h <=>
            handler[h].pc = "editing" /\ handler[h].doc = d
      /\ h # None /\ h \notin Workers
  BY DEF TypeOK, LockDiscipline
<1>1. CASE \E d \in Docs : ReplayUpload(h, d) \/ Reject(h, d)
  <2>1. /\ handler' = handler
        /\ rowLock' = rowLock
        /\ handler[h].pc = "idle"
    BY <1>1 DEF ReplayUpload, Reject, Reviewable
  <2>. QED
    BY <2>1, <1>0 DEF EditShape
\* Steps that move the request from one step outside the edit to another.
<1>2. ASSUME NEW r, handler' = [handler EXCEPT ![h] = r], r.pc # "editing",
             handler[h].pc # "editing", rowLock' = rowLock
      PROVE  /\ \A g \in Handlers : g # h => handler'[g] = handler[g]
             /\ \A d \in Docs, owner \in Workers \cup Handlers :
                   owner # h => (rowLock'[d] = owner <=> rowLock[d] = owner)
             /\ \A d \in Docs : rowLock'[d] = h <=>
                   handler'[h].pc = "editing" /\ handler'[h].doc = d
             /\ EditShape(h)'
  BY <1>0, <1>2 DEF EditShape
<1>3. CASE \/ LoseUploadRace(h) \/ EnqueueUpload(h) \/ UploadEnqueueFails(h)
           \/ EnqueueResume(h) \/ ResumeEnqueueFails(h)
  <2>1. /\ handler' = [handler EXCEPT ![h] = IdleHandler]
        /\ handler[h].pc # "editing"
        /\ rowLock' = rowLock
    BY <1>3 DEF LoseUploadRace, EnqueueUpload, UploadEnqueueFails, EnqueueResume,
       ResumeEnqueueFails
  <2>2. IdleHandler.pc # "editing"
    BY DEF IdleHandler
  <2>. QED
    BY <2>1, <2>2, <1>2
<1>4. CASE \E d \in Docs : StartUpload(h, d) \/ Approve(h, d)
  <2>1. PICK d \in Docs, pc \in {"creating", "resuming"} :
           /\ handler' = [handler EXCEPT ![h] = Request(pc, d, None)]
           /\ handler[h].pc = "idle"
           /\ rowLock' = rowLock
    BY <1>4 DEF StartUpload, Approve, CommitApproval, Reviewable
  <2>2. Request(pc, d, None).pc # "editing"
    BY DEF Request
  <2>. QED
    BY <2>1, <2>2, <1>2
<1>5. CASE CreateDocument(h)
  <2>1. /\ handler' = [handler EXCEPT ![h] = [handler[h] EXCEPT !.pc = "enqueueing"]]
        /\ handler[h].pc = "creating"
        /\ rowLock' = rowLock
    BY <1>5 DEF CreateDocument
  <2>2. [handler[h] EXCEPT !.pc = "enqueueing"].pc # "editing"
    BY <1>0 DEF Requests
  <2>. QED
    BY <2>1, <2>2, <1>2
<1>6. CASE \E d \in Docs : CheckEdit(h, d)
  <2>1. PICK d \in Docs, invoice \in Edits :
           /\ handler' = [handler EXCEPT ![h] = Request("editing", d, invoice)]
           /\ handler[h].pc = "idle"
           /\ rowLock[d] = None
           /\ doc[d].status = "needs_review"
           /\ doc' = doc
           /\ rowLock' = [rowLock EXCEPT ![d] = h]
    BY <1>6 DEF CheckEdit, Reviewable, Unlocked
  <2>2. /\ handler'[h].pc = "editing"
        /\ handler'[h].doc = d
        /\ handler'[h].edit = invoice
        /\ \A g \in Handlers : g # h => handler'[g] = handler[g]
    BY <2>1, <1>0 DEF Request
  <2>. QED
    BY <2>1, <2>2, <1>0 DEF EditShape
<1>7. CASE ApproveEdited(h)
  <2>1. /\ handler' = [handler EXCEPT ![h] = Request("resuming", handler[h].doc, None)]
        /\ handler[h].pc = "editing"
        /\ rowLock' = [rowLock EXCEPT ![handler[h].doc] = None]
    BY <1>7 DEF ApproveEdited, CommitApproval
  <2>2. /\ handler'[h].pc = "resuming"
        /\ \A g \in Handlers : g # h => handler'[g] = handler[g]
    BY <2>1, <1>0 DEF Request
  <2>. QED
    BY <2>1, <2>2, <1>0 DEF EditShape
<1>8. CASE ApiCrash(h)
  <2>1. /\ handler' = [handler EXCEPT ![h] = IdleHandler]
        /\ rowLock' = [d \in Docs |-> IF rowLock[d] = h THEN None ELSE rowLock[d]]
    BY <1>8 DEF ApiCrash
  <2>2. handler'[h].pc = "idle"
    BY <2>1, <1>0 DEF IdleHandler
  <2>. QED
    BY <2>1, <2>2, <1>0 DEF EditShape
<1>. QED
  BY <1>1, <1>3, <1>4, <1>5, <1>6, <1>7, <1>8 DEF Api, UploadStep, ReviewStep

\* The inductive invariant: every safety property of Pipeline, and the shape
\* of transactions and messages that they need.
Invariant ==
    /\ TypeOK
    /\ TransactionShape
    /\ TaskNamesRow
    /\ LockDiscipline
    /\ NoPartialWork
    /\ ApprovedByHuman
    /\ SubmittedIsBilled
    /\ LedgerAgrees
    /\ DeadLetterAfterTheEnd

\* What every step does to the tables: nothing, or a change of one row.
RowStep ==
    \/ UNCHANGED <<doc, ledger>>
    \/ \E d \in Docs :
          /\ \A e \in Docs : e # d => doc'[e] = doc[e]
          /\ WorkerRow(d) \/ (UNCHANGED ledger /\ \E h \in Handlers : ApiRow(h, d))

\* Each way of changing a row keeps what is said of the tables alone, and no
\* row leaves a terminal state or vanishes.
LEMMA RowsKeep ==
    ASSUME Invariant, TypeOK', erp \subseteq erp', RowStep
    PROVE  /\ NoPartialWork'
           /\ ApprovedByHuman'
           /\ SubmittedIsBilled'
           /\ LedgerAgrees'
           /\ \A d \in Docs :
                 /\ doc[d].status \in TerminalStates => doc'[d].status = doc[d].status
                 /\ doc[d].status # "absent" => doc'[d].status # "absent"
<1>. USE ConstantsAssumption DEF Invariant
<1>0. None \notin Invoices
  OBVIOUS
<1>1. CASE UNCHANGED <<doc, ledger>>
  BY <1>1 DEF NoPartialWork, ApprovedByHuman, SubmittedIsBilled, LedgerAgrees
<1>2. ASSUME NEW d \in Docs,
             \A e \in Docs : e # d => doc'[e] = doc[e],
             \/ WorkerRow(d)
             \/ UNCHANGED ledger /\ \E h \in Handlers : ApiRow(h, d)
      PROVE  /\ NoPartialWork'
             /\ ApprovedByHuman'
             /\ SubmittedIsBilled'
             /\ LedgerAgrees'
             /\ \A e \in Docs :
                   /\ doc[e].status \in TerminalStates => doc'[e].status = doc[e].status
                   /\ doc[e].status # "absent" => doc'[e].status # "absent"
  <2>. USE DEF WorkerRow, ApiRow, Parks, Submits, Fails, Counts
  <2>1. NoPartialWork'
    BY <1>2 DEF NoPartialWork
  <2>2. ApprovedByHuman'
    BY <1>0, <1>2 DEF ApprovedByHuman
  <2>3. SubmittedIsBilled'
    BY <1>0, <1>2 DEF SubmittedIsBilled
  <2>4. \A e \in Docs :
           /\ doc[e].status \in TerminalStates => doc'[e].status = doc[e].status
           /\ doc[e].status # "absent" => doc'[e].status # "absent"
    BY <1>2 DEF TerminalStates
  <2>5. ASSUME NEW entry \in ledger
        PROVE  /\ entry.doc \in Docs
               /\ doc[entry.doc].status = "submitted"
               /\ doc'[entry.doc].status = "submitted"
               /\ doc'[entry.doc].extraction = doc[entry.doc].extraction
    <3>1. entry.doc \in Docs /\ doc[entry.doc].status = "submitted"
      BY DEF TypeOK, LedgerAgrees
    <3>. QED
      BY <3>1, <1>2
  <2>. HIDE DEF Parks, Fails, Counts, ApiRow
  <2>6. SUFFICES ASSUME NEW entry \in ledger', NEW other \in ledger'
                 PROVE  /\ doc'[entry.doc].status = "submitted"
                        /\ doc'[entry.doc].extraction.number = entry.number
                        /\ other.doc = entry.doc \/ other.number = entry.number
                              => other = entry
    BY <2>1, <2>2, <2>3, <2>4 DEF LedgerAgrees
  <2>7. CASE UNCHANGED ledger
    BY <2>5, <2>7 DEF LedgerAgrees
  <2>8. CASE /\ Submits(d, doc[d], doc'[d])
             /\ ~Recorded(doc'[d].extraction.number)
             /\ ledger' = ledger \cup {[doc    |-> d,
                                       number |-> doc'[d].extraction.number]}
    <3>. DEFINE new == [doc |-> d, number |-> doc'[d].extraction.number]
    <3>1. ASSUME NEW old \in ledger
          PROVE  old.doc # new.doc /\ old.number # new.number
      BY <2>5, <2>8 DEF Recorded
    <3>2. new.doc = d /\ new.number = doc'[d].extraction.number
      OBVIOUS
    <3>3. CASE entry \in ledger /\ other \in ledger
      BY <2>5, <3>3 DEF LedgerAgrees
    <3>4. CASE entry \in ledger /\ other = new
      BY <2>5, <3>1, <3>4 DEF LedgerAgrees
    <3>5. CASE entry = new /\ other \in ledger
      BY <2>8, <3>1, <3>2, <3>5
    <3>6. CASE entry = new /\ other = new
      BY <2>8, <3>2, <3>6
    <3>. QED
      BY <2>8, <3>3, <3>4, <3>5, <3>6
  <2>. QED
    BY <2>7, <2>8, <1>2
<1>. QED
  BY <1>1, <1>2 DEF RowStep

\* Where a worker's messages and its task come from.
LEMMA WorkerTasks ==
    ASSUME TypeOK, TransactionShape, NEW w \in Workers,
           WorkerStep(w) \/ WorkerCrash(w) \/ Redeliver(w)
    PROVE  /\ handler' = handler
           /\ \A t \in Tasks : broker'[t] > 0 =>
                 \/ broker[t] > 0
                 \/ worker[w].pc # "idle" /\ t.doc = DocOf(w)
           /\ worker'[w].pc # "idle" =>
                 \/ worker[w].pc # "idle" /\ worker'[w].task = worker[w].task
                 \/ \E t \in Tasks : broker[t] > 0 /\ worker'[w].task = t
<1>. USE DEF At, DocOf, Retries, store
<1>0. /\ worker \in [Workers -> Workings]
      /\ worker[w] \in Workings
      /\ broker \in [Tasks -> Nat]
      /\ worker[w].pc # "idle" => worker[w].task \in Tasks /\ DocOf(w) \in Docs
  BY DEF TypeOK, TransactionShape, Shape, Tasks
<1>1. CASE Receive(w)
  BY <1>0, <1>1 DEF Receive, Workings
<1>2. CASE Acknowledge(w)
  BY <1>0, <1>2 DEF Acknowledge, IdleWorker
<1>3. CASE WorkerCrash(w) \/ Redeliver(w)
  BY <1>0, <1>3 DEF WorkerCrash, Redeliver, IdleWorker
<1>4. CASE Retry(w)
  <2>1. /\ worker[w].pc # "idle"
        /\ worker'[w].task = worker[w].task
        /\ handler' = handler
    BY <1>4, Moved DEF Retry
  <2>2. broker' = [broker EXCEPT
                      ![[doc |-> DocOf(w), retries |-> Retries(w) + 1]] = @ + 1]
    BY <1>4 DEF Retry
  <2>. QED
    BY <2>1, <2>2, <1>0
<1>5. CASE CheckLedger(w)
  BY <1>0, <1>5 DEF CheckLedger, Workings
<1>6. CASE ~ \/ Receive(w) \/ Acknowledge(w) \/ WorkerCrash(w) \/ Redeliver(w)
             \/ Retry(w) \/ CheckLedger(w)
  <2>1. /\ handler' = handler
        /\ broker' = broker
        /\ worker[w].pc # "idle"
        /\ \E pc \in WorkerSteps : \/ Goto(w, pc) \/ EndTransaction(w, pc)
                                   \/ \E row : Continue(w, pc, row)
    BY <1>6 DEF WorkerStep, SkipSettled, ClaimQueued, ClaimApproved, Claim,
       Extract, ParkUnreadable, ProviderTransient, ExtractionFails, AutoApprove,
       Park, ErpTransient, LookupUnanswered, CreateInvoice, SubmissionRefused,
       CreateUnanswered, CommitSubmission, LedgerConflict,
       RecordRetry, RetryPublishFails, MarkExhausted, DeadLetter,
       DeadLetterFails, Commit, Rollback, WorkerSteps, InTransaction
  <2>2. worker'[w].task = worker[w].task
    BY <2>1, Moved
  <2>. QED
    BY <2>1, <2>2
<1>. QED
  BY <1>1, <1>2, <1>3, <1>4, <1>5, <1>6

\* A worker's record keeps its shape while others work: its row is locked.
LEMMA ShapeKept ==
    ASSUME NEW v \in Workers, Shape(v), worker'[v] = worker[v], erp \subseteq erp',
           worker[v].pc \in InTransaction => doc'[DocOf(v)] = doc[DocOf(v)]
    PROVE  Shape(v)'
  BY DEF Shape, ReadyToSubmit, ErpKey, Invoice, At, DocOf, Retries, InTransaction

\* TransactionShape across the step of a worker.
LEMMA WorkerShapes ==
    ASSUME Invariant, NEW w \in Workers,
           WorkerStep(w) \/ WorkerCrash(w) \/ Redeliver(w)
    PROVE  TransactionShape'
<1>. USE ConstantsAssumption DEF Invariant
<1>1. ASSUME NEW g \in Handlers
      PROVE  EditShape(g)'
  <2>1. handler' = handler
    BY WorkerTasks
  <2>2. ASSUME handler[g].pc = "editing"
        PROVE  doc'[handler[g].doc] = doc[handler[g].doc]
    <3>1. handler[g].doc \in Docs
      BY <2>2 DEF TransactionShape, EditShape
    <3>2. rowLock[handler[g].doc] = g /\ g \notin {None, w}
      BY <2>2, <3>1 DEF LockDiscipline
    <3>. QED
      BY <3>1, <3>2, Frame
  <2>. QED
    BY <2>1, <2>2 DEF TransactionShape, EditShape
<1>. SUFFICES ASSUME NEW v \in Workers
              PROVE  Shape(v)'
  BY <1>1 DEF TransactionShape
<1>2. CASE v = w
  BY <1>2, OwnShape
<1>3. CASE v # w
  <2>1. worker'[v] = worker[v] /\ erp \subseteq erp'
    BY <1>3, Frame
  <2>2. ASSUME worker[v].pc \in InTransaction
        PROVE  doc'[DocOf(v)] = doc[DocOf(v)]
    <3>1. DocOf(v) \in Docs
      BY <2>2 DEF TransactionShape, Shape, InTransaction, Tasks, DocOf
    <3>2. rowLock[DocOf(v)] = v
      BY <2>2, <3>1 DEF LockDiscipline
    <3>. QED
      BY <3>1, <3>2, <1>3, Frame
  <2>. QED
    BY <2>1, <2>2, ShapeKept DEF TransactionShape
<1>. QED
  BY <1>2, <1>3

\* LockDiscipline across the step of a worker.
LEMMA WorkerLocks ==
    ASSUME Invariant, NEW w \in Workers,
           WorkerStep(w) \/ WorkerCrash(w) \/ Redeliver(w)
    PROVE  LockDiscipline'
<1>. USE ConstantsAssumption DEF Invariant
<1>1. SUFFICES ASSUME NEW d \in Docs
               PROVE  /\ \A v \in Workers : rowLock'[d] = v <=>
                            worker'[v].pc \in InTransaction /\ worker'[v].task.doc = d
                      /\ \A h \in Handlers : rowLock'[d] = h <=>
                            handler'[h].pc = "editing" /\ handler'[h].doc = d
  BY DEF LockDiscipline, DocOf
<1>2. rowLock'[d] = w <=>
         worker'[w].pc \in InTransaction /\ worker'[w].task.doc = d
  BY OwnLock DEF DocOf
\* w gives a lock to nobody but itself, and takes none that is another's.
<1>3. ASSUME NEW owner \in Workers \cup Handlers, owner # w
      PROVE  rowLock'[d] = owner <=> rowLock[d] = owner
  <2>1. CASE rowLock[d] \notin {None, w}
    BY <2>1, Frame
  <2>2. CASE rowLock[d] \in {None, w}
    <3>1. rowLock' = rowLock \/ \E e \in {w, None} :
              \/ rowLock' = [rowLock EXCEPT ![DocOf(w)] = e]
              \/ rowLock' = [rowLock EXCEPT ![DocOf(w)] =
                                IF @ = w THEN None ELSE @]
      BY DEF WorkerStep, Receive, SkipSettled, ClaimQueued, ClaimApproved, Claim,
         Extract, ParkUnreadable, ProviderTransient, ExtractionFails, AutoApprove,
         Park, ErpTransient, LookupUnanswered, CreateInvoice, SubmissionRefused,
         CreateUnanswered, CheckLedger, CommitSubmission, LedgerConflict,
         RecordRetry, Retry, RetryPublishFails, MarkExhausted, DeadLetter,
         DeadLetterFails, Acknowledge, WorkerCrash, Redeliver, Commit, Rollback,
         EndTransaction, store
    <3>2. rowLock'[d] \in {None, w}
      BY <3>1, <2>2 DEF TypeOK
    <3>. QED
      BY <3>2, <2>2, <1>3
  <2>. QED
    BY <2>1, <2>2
<1>4. ASSUME NEW v \in Workers, v # w
      PROVE  rowLock'[d] = v <=>
                worker'[v].pc \in InTransaction /\ worker'[v].task.doc = d
  <2>1. worker'[v] = worker[v]
    BY <1>4, Frame
  <2>. QED
    BY <2>1, <1>3, <1>4 DEF LockDiscipline, DocOf
<1>5. ASSUME NEW h \in Handlers
      PROVE  rowLock'[d] = h <=> handler'[h].pc = "editing" /\ handler'[h].doc = d
  <2>1. handler' = handler
    BY WorkerTasks
  <2>. QED
    BY <2>1, <1>3 DEF LockDiscipline
<1>. QED
  BY <1>2, <1>4, <1>5

\* An entry is pushed, or about to be, only of a document that has ended.
LEMMA WorkerLetters ==
    ASSUME TypeOK, TransactionShape, NEW w \in Workers,
           WorkerStep(w) \/ WorkerCrash(w) \/ Redeliver(w)
    PROVE  /\ \A d \in Docs : dlq'[d] > 0 =>
                 dlq[d] > 0 \/ (At(w, "deadletter") /\ DocOf(w) = d)
           /\ worker'[w].pc = "deadletter" =>
                 \/ worker'[w] = worker[w]
                 \/ /\ worker'[w].task = worker[w].task
                    /\ DocOf(w) \in Docs
                    /\ doc'[DocOf(w)].status \in TerminalStates
<1>. USE DEF At, DocOf, Retries, store
<1>0. /\ worker \in [Workers -> Workings]
      /\ worker[w] \in Workings
      /\ doc \in [Docs -> Rows]
      /\ dlq \in [Docs -> Nat]
      /\ worker[w].pc # "idle" => DocOf(w) \in Docs
  BY DEF TypeOK, TransactionShape, Shape, Tasks
<1>1. CASE MarkExhausted(w)
  <2>. DEFINE counted == [doc[DocOf(w)] EXCEPT !.retryCount = Retries(w) + 1]
  <2>1. /\ dlq' = dlq
        /\ DocOf(w) \in Docs
        /\ \/ Goto(w, "done")
           \/ /\ Goto(w, "deadletter")
              /\ \/ /\ doc[DocOf(w)].status \in TerminalStates
                    /\ doc' = [doc EXCEPT ![DocOf(w)] = counted]
                 \/ doc' = [doc EXCEPT ![DocOf(w)] = WithStatus(counted, "failed")]
    BY <1>0, <1>1 DEF MarkExhausted
  <2>2. /\ counted.status = doc[DocOf(w)].status
        /\ WithStatus(counted, "failed").status = "failed"
    BY <2>1, <1>0 DEF Rows, WithStatus
  <2>3. CASE Goto(w, "done")
    <3>1. worker'[w].pc = "done"
      BY <2>3, Moved
    <3>. QED
      BY <3>1, <2>1
  <2>4. CASE ~Goto(w, "done")
    <3>1. worker'[w].task = worker[w].task
      BY <2>1, <2>4, Moved
    <3>2. doc'[DocOf(w)].status \in TerminalStates
      BY <2>1, <2>2, <2>4, <1>0 DEF TerminalStates
    <3>. QED
      BY <3>1, <3>2, <2>1
  <2>. QED
    BY <2>3, <2>4
<1>2. CASE DeadLetter(w)
  <2>1. worker'[w].pc = "done"
    BY <1>2, Moved DEF DeadLetter
  <2>2. \A d \in Docs : dlq'[d] > 0 => dlq[d] > 0 \/ DocOf(w) = d
    BY <1>0, <1>2 DEF DeadLetter
  <2>. QED
    BY <2>1, <2>2, <1>2 DEF DeadLetter
<1>3. CASE Receive(w)
  BY <1>0, <1>3 DEF Receive, Workings
<1>4. CASE Acknowledge(w) \/ WorkerCrash(w)
  BY <1>0, <1>4 DEF Acknowledge, WorkerCrash, IdleWorker
<1>5. CASE Redeliver(w)
  BY <1>5 DEF Redeliver
<1>6. CASE CheckLedger(w)
  BY <1>0, <1>6 DEF CheckLedger, Workings
<1>7. CASE ~ \/ MarkExhausted(w) \/ DeadLetter(w) \/ Receive(w) \/ Acknowledge(w)
             \/ WorkerCrash(w) \/ Redeliver(w) \/ CheckLedger(w)
  <2>1. /\ dlq' = dlq
        /\ \E pc \in WorkerSteps \ {"deadletter"} :
              \/ Goto(w, pc) \/ EndTransaction(w, pc) \/ \E row : Continue(w, pc, row)
    BY <1>7 DEF WorkerStep, SkipSettled, ClaimQueued, ClaimApproved, Claim,
       Extract, ParkUnreadable, ProviderTransient, ExtractionFails, AutoApprove,
       Park, ErpTransient, LookupUnanswered, CreateInvoice, SubmissionRefused,
       CreateUnanswered, CommitSubmission, LedgerConflict,
       RecordRetry, Retry, RetryPublishFails, DeadLetterFails, Commit, Rollback,
       WorkerSteps, InTransaction
  <2>2. worker'[w].pc # "deadletter"
    BY <2>1, Moved
  <2>. QED
    BY <2>1, <2>2
<1>. QED
  BY <1>1, <1>2, <1>3, <1>4, <1>5, <1>6, <1>7

\* TaskNamesRow across the step of an API thread: a request enqueues only
\* what it has inserted or approved.
LEMMA ApiTasks ==
    ASSUME TypeOK, TransactionShape, TaskNamesRow, NEW h \in Handlers, Api(h),
           \A d \in Docs : doc[d].status # "absent" => doc'[d].status # "absent",
           worker' = worker
    PROVE  TaskNamesRow'
<1>. USE DEF store
<1>. DEFINE Present(d) == d \in Docs /\ doc'[d].status # "absent"
            Founded(r) == /\ r.pc # "idle" => r.doc \in Docs
                          /\ r.pc \in {"enqueueing", "resuming"} =>
                                doc'[r.doc].status # "absent"
<1>0. /\ doc \in [Docs -> Rows]
      /\ broker \in [Tasks -> Nat]
      /\ handler \in [Handlers -> Requests]
      /\ handler[h].pc # "idle" => handler[h].doc \in Docs
      /\ handler[h].pc \in {"enqueueing", "resuming"} => Present(handler[h].doc)
  BY DEF TypeOK, TaskNamesRow
<1>1. \A t \in Tasks : t.doc \in Docs
  BY DEF Tasks
<1>2. \A t \in Tasks : broker'[t] > 0 => Present(t.doc)
  <2>1. CASE broker' = broker
    BY <2>1, <1>1 DEF TaskNamesRow
  <2>2. CASE /\ handler[h].pc \in {"enqueueing", "resuming"}
             /\ Enqueue(handler[h].doc)
    <3>1. \A t \in Tasks : broker'[t] > 0 => broker[t] > 0 \/ t.doc = handler[h].doc
      BY <2>2, <1>0 DEF Enqueue
    <3>. QED
      BY <2>2, <3>1, <1>0, <1>1 DEF TaskNamesRow
  <2>. QED
    BY <2>1, <2>2 DEF Api, UploadStep, ReviewStep, ReplayUpload, StartUpload,
       Approve, CheckEdit, ApproveEdited, CommitApproval, Reject, CreateDocument,
       LoseUploadRace, EnqueueUpload, UploadEnqueueFails, EnqueueResume,
       ResumeEnqueueFails, ApiCrash
<1>3. \A v \in Workers :
         worker'[v].pc # "idle" => doc'[worker'[v].task.doc].status # "absent"
  BY DEF TaskNamesRow, TransactionShape, Shape, Tasks, DocOf
\* The request of a thread that moves; the others wait where they were.
<1>4. /\ \A g \in Handlers : g # h => handler'[g] = handler[g]
      /\ Founded(handler'[h])
  <2>1. CASE handler' = handler
    BY <2>1, <1>0
  <2>2. CASE handler' = [handler EXCEPT ![h] = IdleHandler]
    BY <2>2, <1>0 DEF IdleHandler
  <2>3. CASE \E d \in Docs : StartUpload(h, d) \/ CheckEdit(h, d)
    <3>1. \E edit : \E d \in Docs, pc \in {"creating", "editing"} :
             handler' = [handler EXCEPT ![h] = Request(pc, d, edit)]
      BY <2>3 DEF StartUpload, CheckEdit
    <3>2. PICK edit :
             \E d \in Docs, pc \in {"creating", "editing"} :
                handler' = [handler EXCEPT ![h] = Request(pc, d, edit)]
      BY <3>1
    <3>3. PICK d \in Docs, pc \in {"creating", "editing"} :
             handler' = [handler EXCEPT ![h] = Request(pc, d, edit)]
      BY <3>2
    <3>4. Founded(Request(pc, d, edit))
      BY <3>3 DEF Request
    <3>. QED
      BY <3>3, <3>4, <1>0
  <2>4. ASSUME NEW d \in Docs, NEW invoice, doc[d].status = "needs_review",
               CommitApproval(h, d, invoice)
        PROVE  /\ \A g \in Handlers : g # h => handler'[g] = handler[g]
               /\ Founded(handler'[h])
    <3>1. handler' = [handler EXCEPT ![h] = Request("resuming", d, None)]
      BY <2>4 DEF CommitApproval
    <3>2. Founded(Request("resuming", d, None))
      BY <2>4 DEF Request
    <3>. QED
      BY <3>1, <3>2, <1>0
  <2>5. CASE (\E d \in Docs : Approve(h, d)) \/ ApproveEdited(h)
    BY <2>4, <2>5 DEF Approve, Reviewable, ApproveEdited, TransactionShape, EditShape
  <2>6. CASE CreateDocument(h)
    <3>1. /\ handler' = [handler EXCEPT ![h] = [@ EXCEPT !.pc = "enqueueing"]]
          /\ handler[h].doc \in Docs
          /\ doc' = [doc EXCEPT ![handler[h].doc] = WithStatus(NoRow, "queued")]
      BY <2>6, <1>0 DEF CreateDocument
    <3>2. /\ handler'[h].doc = handler[h].doc
          /\ doc'[handler[h].doc].status # "absent"
      BY <3>1, <1>0 DEF WithStatus, NoRow, Requests
    <3>. QED
      BY <3>1, <3>2, <1>0
  <2>. QED
    BY <2>1, <2>2, <2>3, <2>5, <2>6 DEF Api, UploadStep, ReviewStep, ReplayUpload,
       Reject, LoseUploadRace, EnqueueUpload, UploadEnqueueFails, EnqueueResume,
       ResumeEnqueueFails, ApiCrash
<1>5. \A g \in Handlers : Founded(handler'[g])
  <2>1. ASSUME NEW g \in Handlers, g # h
        PROVE  Founded(handler'[g])
    BY <2>1, <1>4 DEF TaskNamesRow
  <2>. QED
    BY <2>1, <1>4
<1>. QED
  BY <1>2, <1>3, <1>5 DEF TaskNamesRow, DocOf

\* The invariant across the step of a worker.
LEMMA WorkerKeeps ==
    ASSUME Invariant, NEW w \in Workers,
           WorkerStep(w) \/ WorkerCrash(w) \/ Redeliver(w)
    PROVE  Invariant'
<1>. USE ConstantsAssumption DEF Invariant
<1>1. TypeOK'
  BY TypeWorker, TypeFault
<1>2. erp \subseteq erp' /\ \A v \in Workers : v # w => worker'[v] = worker[v]
  BY Frame
<1>3. RowStep
  BY WorkerRows DEF RowStep
<1>4. /\ NoPartialWork' /\ ApprovedByHuman' /\ SubmittedIsBilled'
      /\ LedgerAgrees'
      /\ \A d \in Docs :
            /\ doc[d].status \in TerminalStates => doc'[d].status = doc[d].status
            /\ doc[d].status # "absent" => doc'[d].status # "absent"
  BY <1>1, <1>2, <1>3, RowsKeep
<1>5. TransactionShape' /\ LockDiscipline'
  BY WorkerShapes, WorkerLocks
<1>6. \A v \in Workers : worker[v].pc # "idle" => DocOf(v) \in Docs
  BY DEF TransactionShape, Shape, Tasks, DocOf
<1>7. TaskNamesRow'
  <2>1. /\ handler' = handler
        /\ \A t \in Tasks : broker'[t] > 0 =>
              \/ broker[t] > 0
              \/ worker[w].pc # "idle" /\ t.doc = DocOf(w)
        /\ worker'[w].pc # "idle" =>
              \/ worker[w].pc # "idle" /\ worker'[w].task = worker[w].task
              \/ \E t \in Tasks : broker[t] > 0 /\ worker'[w].task = t
    BY WorkerTasks
  <2>2. \A t \in Tasks : t.doc \in Docs
    BY DEF Tasks
  <2>3. \A t \in Tasks : broker'[t] > 0 => doc'[t.doc].status # "absent"
    BY <2>1, <2>2, <1>4 DEF TaskNamesRow
  <2>4. ASSUME NEW v \in Workers, worker'[v].pc # "idle"
        PROVE  doc'[worker'[v].task.doc].status # "absent"
    <3>1. CASE v # w
      BY <3>1, <2>4, <1>2, <1>4, <1>6 DEF TaskNamesRow, DocOf
    <3>2. CASE v = w
      BY <3>2, <2>1, <2>2, <2>4, <1>4, <1>6 DEF TaskNamesRow, DocOf
    <3>. QED
      BY <3>1, <3>2
  <2>5. \A h \in Handlers :
           /\ handler'[h].pc # "idle" => handler'[h].doc \in Docs
           /\ handler'[h].pc \in {"enqueueing", "resuming"} =>
                 doc'[handler'[h].doc].status # "absent"
    BY <2>1, <1>4 DEF TaskNamesRow
  <2>. QED
    BY <2>3, <2>4, <2>5 DEF TaskNamesRow, DocOf
<1>8. DeadLetterAfterTheEnd'
  <2>1. /\ \A d \in Docs : dlq'[d] > 0 =>
              dlq[d] > 0 \/ (At(w, "deadletter") /\ DocOf(w) = d)
        /\ worker'[w].pc = "deadletter" =>
              \/ worker'[w] = worker[w]
              \/ /\ worker'[w].task = worker[w].task
                 /\ DocOf(w) \in Docs
                 /\ doc'[DocOf(w)].status \in TerminalStates
    BY WorkerLetters
  <2>2. ASSUME NEW d \in Docs, dlq'[d] > 0
        PROVE  doc'[d].status \in TerminalStates
    BY <2>1, <2>2, <1>4 DEF DeadLetterAfterTheEnd
  <2>3. ASSUME NEW v \in Workers, worker'[v].pc = "deadletter",
               NEW d \in Docs, worker'[v].task.doc = d
        PROVE  doc'[d].status \in TerminalStates
    <3>1. CASE worker'[v] = worker[v]
      BY <3>1, <2>3, <1>4 DEF DeadLetterAfterTheEnd, At, DocOf
    <3>2. CASE worker'[v] # worker[v]
      BY <3>2, <2>1, <2>3, <1>2 DEF DocOf
    <3>. QED
      BY <3>1, <3>2
  <2>. QED
    BY <2>2, <2>3 DEF DeadLetterAfterTheEnd, At, DocOf
<1>. QED
  BY <1>1, <1>4, <1>5, <1>7, <1>8

\* The invariant across the step of an API thread.
LEMMA ApiKeeps ==
    ASSUME Invariant, NEW h \in Handlers, Api(h)
    PROVE  Invariant'
<1>. USE ConstantsAssumption DEF Invariant
<1>1. TypeOK'
  BY TypeApi
<1>2. /\ UNCHANGED <<ledger, dlq, erp, worker>>
      /\ \/ doc' = doc
         \/ \E d \in Docs : /\ \A e \in Docs : e # d => doc'[e] = doc[e]
                            /\ ApiRow(h, d)
  BY ApiRows
<1>3. RowStep
  BY <1>2 DEF RowStep
<1>4. /\ NoPartialWork' /\ ApprovedByHuman' /\ SubmittedIsBilled'
      /\ LedgerAgrees'
      /\ \A d \in Docs :
            /\ doc[d].status \in TerminalStates => doc'[d].status = doc[d].status
            /\ doc[d].status # "absent" => doc'[d].status # "absent"
  BY <1>1, <1>2, <1>3, RowsKeep
<1>5. /\ \A g \in Handlers : g # h => handler'[g] = handler[g]
      /\ \A d \in Docs, owner \in Workers \cup Handlers :
            owner # h => (rowLock'[d] = owner <=> rowLock[d] = owner)
      /\ \A d \in Docs : rowLock'[d] = h <=>
            handler'[h].pc = "editing" /\ handler'[h].doc = d
      /\ EditShape(h)'
  BY ApiLocks
<1>6. LockDiscipline'
  <2>1. ASSUME NEW d \in Docs, NEW w \in Workers
        PROVE  rowLock'[d] = w <=>
                  worker'[w].pc \in InTransaction /\ worker'[w].task.doc = d
    BY <1>2, <1>5 DEF LockDiscipline, DocOf
  <2>2. ASSUME NEW d \in Docs, NEW g \in Handlers
        PROVE  rowLock'[d] = g <=>
                  handler'[g].pc = "editing" /\ handler'[g].doc = d
    BY <1>5 DEF LockDiscipline
  <2>. QED
    BY <2>1, <2>2 DEF LockDiscipline, DocOf
<1>7. TaskNamesRow'
  BY <1>2, <1>4, ApiTasks
\* The row of another's transaction is locked, so the request leaves it alone.
<1>8. ASSUME NEW d \in Docs, doc[d].status # "absent",
             rowLock[d] \notin {None, h}
      PROVE  doc'[d] = doc[d]
  <2>1. \A e \in Docs : ApiRow(h, e) => e # d
    BY <1>8 DEF ApiRow, Unlocked
  <2>. QED
    BY <2>1, <1>2
<1>9. ASSUME NEW v \in Workers
      PROVE  Shape(v)'
  <2>1. ASSUME worker[v].pc \in InTransaction
        PROVE  doc'[DocOf(v)] = doc[DocOf(v)]
    <3>1. DocOf(v) \in Docs /\ worker[v].pc # "idle"
      BY <2>1 DEF TransactionShape, Shape, InTransaction, Tasks, DocOf
    <3>2. rowLock[DocOf(v)] = v /\ doc[DocOf(v)].status # "absent"
      BY <2>1, <3>1 DEF LockDiscipline, TaskNamesRow
    <3>. QED
      BY <3>1, <3>2, <1>8
  <2>. QED
    BY <2>1, <1>2, ShapeKept DEF TransactionShape
<1>10. ASSUME NEW g \in Handlers, g # h
       PROVE  EditShape(g)'
  <2>1. ASSUME handler[g].pc = "editing"
        PROVE  doc'[handler[g].doc] = doc[handler[g].doc]
    <3>1. /\ handler[g].doc \in Docs
          /\ doc[handler[g].doc].status = "needs_review"
      BY <2>1 DEF TransactionShape, EditShape
    <3>2. rowLock[handler[g].doc] = g
      BY <2>1, <3>1 DEF LockDiscipline
    <3>. QED
      BY <3>1, <3>2, <1>8, <1>10
  <2>. QED
    BY <2>1, <1>5, <1>10 DEF TransactionShape, EditShape
<1>11. TransactionShape'
  BY <1>5, <1>9, <1>10 DEF TransactionShape
<1>12. DeadLetterAfterTheEnd'
  BY <1>2, <1>4 DEF DeadLetterAfterTheEnd, At, DocOf
<1>. QED
  BY <1>1, <1>4, <1>6, <1>7, <1>11, <1>12

\* An empty system satisfies the invariant.
LEMMA InitKeeps == Init => Invariant
<1>. SUFFICES ASSUME Init
              PROVE  Invariant
  OBVIOUS
<1>1. TypeOK
  BY TypeInit
<1>. USE ConstantsAssumption DEF Init, NoRow, IdleWorker, IdleHandler
<1>2. TransactionShape
  BY DEF TransactionShape, Shape, EditShape, At, InTransaction
<1>3. TaskNamesRow
  BY DEF TaskNamesRow
<1>4. LockDiscipline
  BY DEF LockDiscipline, InTransaction
<1>5. NoPartialWork /\ ApprovedByHuman /\ SubmittedIsBilled /\ LedgerAgrees
  BY DEF NoPartialWork, ApprovedByHuman, SubmittedIsBilled, LedgerAgrees
<1>6. DeadLetterAfterTheEnd
  BY DEF DeadLetterAfterTheEnd, At
<1>. QED
  BY <1>1, <1>2, <1>3, <1>4, <1>5, <1>6 DEF Invariant

\* Stuttering keeps every part of the invariant.
LEMMA StutterKeeps == Invariant /\ UNCHANGED vars => Invariant'
<1>. SUFFICES ASSUME Invariant, UNCHANGED vars
              PROVE  Invariant'
  OBVIOUS
<1>. USE DEF Invariant, vars
<1>1. TypeOK'
  BY DEF TypeOK
<1>2. TransactionShape'
  BY DEF TransactionShape, Shape, EditShape, ReadyToSubmit, ErpKey, Invoice, At, DocOf,
     Retries
<1>3. TaskNamesRow' /\ LockDiscipline' /\ DeadLetterAfterTheEnd'
  BY DEF TaskNamesRow, LockDiscipline, DeadLetterAfterTheEnd, DocOf, At
<1>4. NoPartialWork' /\ ApprovedByHuman' /\ SubmittedIsBilled' /\ LedgerAgrees'
  BY DEF NoPartialWork, ApprovedByHuman, SubmittedIsBilled, LedgerAgrees
<1>. QED
  BY <1>1, <1>2, <1>3, <1>4

\* The invariant holds in every reachable state of the pipeline.
THEOREM Inductive == Spec => []Invariant
<1>1. Init => Invariant
  BY InitKeeps
<1>2. Invariant /\ [Next]_vars => Invariant'
  BY StutterKeeps, ApiKeeps, WorkerKeeps DEF Next
<1>. QED
  BY <1>1, <1>2, PTL DEF Spec

\* Every variable keeps to its type (rows, messages, worker records).
THEOREM TypeCorrect == Spec => []TypeOK
<1>1. Invariant => TypeOK
  BY DEF Invariant
<1>. QED
  BY <1>1, Inductive, PTL

\* The row lock makes a worker's transaction exclusive (with_for_update).
THEOREM LocksExclude == Spec => []LockDiscipline
<1>1. Invariant => LockDiscipline
  BY DEF Invariant
<1>. QED
  BY <1>1, Inductive, PTL

\* Between claim and commit nobody else touches the row, and what is being
\* submitted is what the ERP was asked for (process_document).
THEOREM TransactionsAdvance == Spec => []TransactionShape
<1>1. Invariant => TransactionShape
  BY DEF Invariant
<1>. QED
  BY <1>1, Inductive, PTL

\* A task always finds the row it is about (enqueue after commit in app.py).
THEOREM TasksNameRows == Spec => []TaskNamesRow
<1>1. Invariant => TaskNamesRow
  BY DEF Invariant
<1>. QED
  BY <1>1, Inductive, PTL

\* Neither crash nor rollback leaves half of the work of process_document.
THEOREM WorkIsAllOrNothing == Spec => []NoPartialWork
<1>1. Invariant => NoPartialWork
  BY DEF Invariant
<1>. QED
  BY <1>1, Inductive, PTL

\* A row that says approved was approved by a reviewer (approve_review): the
\* worker's own approval is never durable without the submission.
THEOREM ApprovalIsHuman == Spec => []ApprovedByHuman
<1>1. Invariant => ApprovedByHuman
  BY DEF Invariant
<1>. QED
  BY <1>1, Inductive, PTL

\* A submitted document is billed under the number it shows
\* (_submit_approved_invoice).
THEOREM SubmissionIsBilled == Spec => []SubmittedIsBilled
<1>1. Invariant => SubmittedIsBilled
  BY DEF Invariant
<1>. QED
  BY <1>1, Inductive, PTL

\* submitted_invoices and documents agree, under the unique constraint.
THEOREM BooksAgree == Spec => []LedgerAgrees
<1>1. Invariant => LedgerAgrees
  BY DEF Invariant
<1>. QED
  BY <1>1, Inductive, PTL

\* A worker makes a row failed in one place, after the last attempt.
LEMMA WorkerFails ==
    ASSUME Invariant, NEW w \in Workers,
           WorkerStep(w) \/ WorkerCrash(w) \/ Redeliver(w),
           NEW d \in Docs, doc[d].status # "failed", doc'[d].status = "failed"
    PROVE  /\ doc'[d].retryCount = MaxRetries + 1
           /\ At(w, "exhausted") /\ DocOf(w) = d /\ Retries(w) = MaxRetries
<1>. USE DEF At, DocOf, Retries
<1>1. /\ TypeOK /\ Shape(w)
      /\ doc \in [Docs -> Rows]
      /\ worker[w].row \in Rows
  BY DEF Invariant, TypeOK, TransactionShape, Workings
<1>2. CASE MarkExhausted(w)
  <2>. DEFINE counted == [doc[DocOf(w)] EXCEPT !.retryCount = Retries(w) + 1]
              failed  == WithStatus(counted, "failed")
  <2>1. /\ worker[w].task \in Tasks
        /\ At(w, "exhausted") /\ Retries(w) = MaxRetries
    BY <1>1, <1>2 DEF MarkExhausted, Shape
  <2>2. DocOf(w) \in Docs /\ doc[DocOf(w)] \in Rows
    BY <1>1, <2>1 DEF Tasks
  <2>3. /\ counted.status = doc[DocOf(w)].status
        /\ failed.retryCount = Retries(w) + 1
    BY <2>2 DEF Rows, WithStatus
  <2>4. \/ doc' = doc
        \/ doc' = [doc EXCEPT ![DocOf(w)] = counted]
        \/ doc' = [doc EXCEPT ![DocOf(w)] = failed]
    BY <1>2 DEF MarkExhausted
  <2>5. ~ \/ doc' = doc
          \/ doc' = [doc EXCEPT ![DocOf(w)] = counted]
    <3>. HIDE DEF failed
    <3>. QED
      BY <1>1, <2>2, <2>3
  <2>6. doc' = [doc EXCEPT ![DocOf(w)] = failed]
    BY <2>4, <2>5
  <2>. HIDE DEF failed
  <2>7. d = DocOf(w) /\ doc'[d] = failed
    BY <1>1, <2>2, <2>6
  <2>. QED
    BY <2>1, <2>3, <2>7
<1>3. CASE ParkUnreadable(w) \/ Park(w)
  <2>. DEFINE parked  == WithStatus(worker[w].row, "needs_review")
              decided == [worker[w].row EXCEPT !.status   = "needs_review",
                                               !.decision = "needs_review"]
  <2>1. Commit(w, parked) \/ Commit(w, decided)
    BY <1>3 DEF ParkUnreadable, Park
  <2>2. parked.status = "needs_review" /\ decided.status = "needs_review"
    BY <1>1 DEF WithStatus, Rows
  <2>. QED
    <3>. HIDE DEF parked, decided
    <3>. QED
      BY <1>1, <2>1, <2>2 DEF Commit
<1>6. CASE CommitSubmission(w)
  <2>1. Commit(w, worker[w].row) /\ worker[w].row.status = "submitted"
    BY <1>1, <1>6 DEF CommitSubmission, Shape
  <2>. QED
    BY <1>1, <2>1 DEF Commit
<1>4. CASE RecordRetry(w)
  BY <1>1, <1>4 DEF RecordRetry, Rows
<1>5. CASE ~ \/ ParkUnreadable(w) \/ Park(w) \/ CommitSubmission(w)
             \/ RecordRetry(w) \/ MarkExhausted(w)
  <2>1. doc' = doc
    BY <1>5 DEF WorkerStep, Receive, SkipSettled, ClaimQueued, ClaimApproved,
       Claim, Extract, ProviderTransient, ExtractionFails, AutoApprove,
       ErpTransient, LookupUnanswered, CreateInvoice, SubmissionRefused,
       CreateUnanswered, CheckLedger, LedgerConflict, Retry,
       RetryPublishFails, DeadLetter, DeadLetterFails, Acknowledge,
       WorkerCrash, Redeliver, Rollback, store
  <2>. QED
    BY <2>1
<1>. QED
  BY <1>2, <1>3, <1>4, <1>5, <1>6

\* Only mark_retry_exhausted makes a failure durable, after the last attempt
\* and with the number of all attempts, however often tasks are redelivered.
THEOREM FailureIsExhaustion == Spec => FailedByExhaustion
<1>1. ASSUME Invariant, Next, NEW d \in Docs,
             doc[d].status # "failed", doc'[d].status = "failed"
      PROVE  /\ doc'[d].retryCount = MaxRetries + 1
             /\ \E w \in Workers :
                   At(w, "exhausted") /\ DocOf(w) = d
                                      /\ Retries(w) = MaxRetries
  <2>1. ASSUME NEW h \in Handlers, Api(h)  PROVE FALSE
    <3>1. \/ doc' = doc
          \/ \E e \in Docs : /\ \A f \in Docs : f # e => doc'[f] = doc[f]
                             /\ ApiRow(h, e)
      BY <1>1, <2>1, ApiRows DEF Invariant
    <3>. QED
      BY <1>1, <3>1 DEF ApiRow
  <2>. QED
    BY <1>1, <2>1, WorkerFails DEF Next
<1>2. Invariant /\ [Next]_vars =>
         [\A d \in Docs :
             doc[d].status # "failed" /\ doc'[d].status = "failed" =>
                 /\ doc'[d].retryCount = MaxRetries + 1
                 /\ \E w \in Workers :
                       At(w, "exhausted") /\ DocOf(w) = d
                                          /\ Retries(w) = MaxRetries]_vars
  BY <1>1
<1>. QED
  BY <1>2, Inductive, PTL DEF Spec, FailedByExhaustion

\* A dead letter is of a document that has come to its end: the commit of
\* mark_retry_exhausted precedes dlq.push.
THEOREM FailureIsFinal == Spec => []DeadLetterAfterTheEnd
<1>1. Invariant => DeadLetterAfterTheEnd
  BY DEF Invariant
<1>. QED
  BY <1>1, Inductive, PTL

-----------------------------------------------------------------------------
(***************************************************************************)
(* Pipeline implements Lifecycle: hiding queues, locks, transactions,      *)
(* retries and all but the status of a document and who is billed, every   *)
(* step is a move of the life cycle or changes nothing.  Invariant         *)
(* supplies what a step alone does not say: that the transaction's row is  *)
(* still queued or approved when it commits, and that the ERP has the      *)
(* invoice by then.                                                        *)
(***************************************************************************)
\* The abstract state: what Lifecycle's variables are mapped to.
Status == [d \in Docs |-> doc[d].status]
Billed == {key[1] : key \in erp}

\* The ERP is only ever sent invoices of a document under work, by a step
\* that leaves the documents table alone.
LEMMA WorkerBills ==
    ASSUME Invariant, NEW w \in Workers,
           WorkerStep(w) \/ WorkerCrash(w) \/ Redeliver(w)
    PROVE  \/ erp' = erp
           \/ /\ doc' = doc
              /\ DocOf(w) \in Docs
              /\ doc[DocOf(w)].status \in {"queued", "approved"}
              /\ erp' = erp \cup {ErpKey(w)}
<1>. USE DEF Invariant, At, store
<1>1. CASE CreateInvoice(w) \/ CreateUnanswered(w)
  <2>1. /\ doc' = doc
        /\ erp' \in {erp, erp \cup {ErpKey(w)}}
        /\ worker[w].pc = "submitting"
    BY <1>1 DEF CreateInvoice, CreateUnanswered, Rollback
  <2>2. /\ DocOf(w) \in Docs
        /\ doc[DocOf(w)].status \in {"queued", "approved"}
    BY <2>1 DEF TransactionShape, Shape, ReadyToSubmit, Tasks, DocOf
  <2>. QED
    BY <2>1, <2>2
<1>2. CASE ~(CreateInvoice(w) \/ CreateUnanswered(w))
  BY <1>2 DEF WorkerStep, Receive, SkipSettled, ClaimQueued, ClaimApproved, Claim,
     Extract, ParkUnreadable, ProviderTransient, ExtractionFails, AutoApprove, Park,
     ErpTransient, LookupUnanswered, SubmissionRefused, CheckLedger,
     CommitSubmission, LedgerConflict, RecordRetry, Retry, RetryPublishFails,
     MarkExhausted, DeadLetter, DeadLetterFails, Acknowledge, WorkerCrash, Redeliver
<1>. QED
  BY <1>1, <1>2

\* A change of one row's status is a move of that document.
LEMMA StatusMoves ==
    ASSUME NEW d \in Docs, \A e \in Docs : e # d => doc'[e] = doc[e], Billed' = Billed,
           NEW from, doc[d].status \in from, NEW to, doc'[d].status = to
    PROVE  Life!Move(d, from, to)
<1>1. Status' = [Status EXCEPT ![d] = to]
  BY DEF Status
<1>. QED
  BY <1>1 DEF Life!Move, Status, Billed

\* The four ways a worker changes a row are Park, Submit, Fail and a stutter.
LEMMA WorkerRowMoves ==
    ASSUME NEW d \in Docs, \A e \in Docs : e # d => doc'[e] = doc[e], erp' = erp,
           WorkerRow(d)
    PROVE  Life!Next \/ UNCHANGED Life!lifecycleVars
<1>0. Billed' = Billed
  BY DEF Billed
<1>1. CASE Parks(doc[d], doc'[d])
  BY <1>0, <1>1, StatusMoves DEF Parks, Life!Park, Life!Next
<1>2. CASE Fails(doc[d], doc'[d])
  BY <1>0, <1>2, StatusMoves DEF Fails, Life!Fail, Life!Next
<1>3. CASE Counts(doc[d], doc'[d])
  BY <1>0, <1>3 DEF Counts, Life!lifecycleVars, Billed
<1>4. CASE Submits(d, doc[d], doc'[d])
  <2>1. d \in Billed
    BY <1>4 DEF Submits, Billed
  <2>2. Life!Move(d, {"queued", "approved"}, "submitted")
    BY <1>0, <1>4, StatusMoves DEF Submits
  <2>. QED
    BY <2>1, <2>2 DEF Life!Submit, Life!Next, Billed
<1>. QED
  BY <1>1, <1>2, <1>3, <1>4 DEF WorkerRow

\* The three ways a request changes a row are Accept, Approve and Reject.
LEMMA ApiRowMoves ==
    ASSUME NEW h \in Handlers, NEW d \in Docs,
           \A e \in Docs : e # d => doc'[e] = doc[e], erp' = erp, ApiRow(h, d)
    PROVE  Life!Next
<1>0. Billed' = Billed
  BY DEF Billed
<1>1. CASE doc[d].status = "absent" /\ doc'[d].status = "queued"
  BY <1>0, <1>1, StatusMoves DEF Life!Accept, Life!Next
<1>2. CASE doc[d].status = "needs_review" /\ doc'[d].status = "approved"
  BY <1>0, <1>2, StatusMoves DEF Life!Approve, Life!Next
<1>3. CASE doc[d].status = "needs_review" /\ doc'[d].status = "rejected"
  BY <1>0, <1>3, StatusMoves DEF Life!Reject, Life!Next
<1>. QED
  BY <1>1, <1>2, <1>3 DEF ApiRow

\* Every step of the pipeline is a step of the life cycle or a stutter.
LEMMA StepRefines ==
    Invariant /\ [Next]_vars => [Life!Next]_(Life!lifecycleVars)
<1>. SUFFICES ASSUME Invariant, [Next]_vars
              PROVE  Life!Next \/ UNCHANGED Life!lifecycleVars
  OBVIOUS
<1>1. CASE UNCHANGED vars
  BY <1>1 DEF vars, Life!lifecycleVars
<1>2. ASSUME NEW h \in Handlers, Api(h)
      PROVE  Life!Next \/ UNCHANGED Life!lifecycleVars
  <2>1. /\ erp' = erp
        /\ \/ doc' = doc
           \/ \E d \in Docs : /\ \A e \in Docs : e # d => doc'[e] = doc[e]
                              /\ ApiRow(h, d)
    BY <1>2, ApiRows DEF Invariant
  <2>2. CASE doc' = doc
    BY <2>1, <2>2 DEF Life!lifecycleVars
  <2>. QED
    BY <2>1, <2>2, ApiRowMoves
<1>3. ASSUME NEW w \in Workers, WorkerStep(w) \/ WorkerCrash(w) \/ Redeliver(w)
      PROVE  Life!Next \/ UNCHANGED Life!lifecycleVars
  <2>1. CASE erp' = erp
    <3>1. \/ doc' = doc
          \/ /\ DocOf(w) \in Docs
             /\ \A d \in Docs : d # DocOf(w) => doc'[d] = doc[d]
             /\ WorkerRow(DocOf(w))
      BY <1>3, WorkerRows DEF Invariant
    <3>2. CASE doc' = doc
      BY <2>1, <3>2 DEF Life!lifecycleVars
    <3>. QED
      BY <2>1, <3>1, <3>2, WorkerRowMoves
  <2>2. CASE erp' # erp
    <3>1. /\ doc' = doc
          /\ DocOf(w) \in Docs
          /\ doc[DocOf(w)].status \in {"queued", "approved"}
          /\ erp' = erp \cup {ErpKey(w)}
      BY <1>3, <2>2, WorkerBills
    <3>2. PICK sent :
             /\ sent[1] \in Docs
             /\ doc[sent[1]].status \in {"queued", "approved"}
             /\ erp' = erp \cup {sent}
      <4>1. ErpKey(w)[1] = DocOf(w)
        BY DEF ErpKey
      <4>. QED
        BY <4>1, <3>1
    <3>3. Billed' = Billed \cup {sent[1]}
      <4>1. \A e : e \in Billed' <=> \E key \in erp' : e = key[1]
        BY DEF Billed
      <4>2. \A e : e \in Billed <=> \E key \in erp : e = key[1]
        BY DEF Billed
      <4>. QED
        BY <4>1, <4>2, <3>2
    <3>4. Status' = Status
      BY <3>1 DEF Status
    <3>5. Life!Bill(sent[1])
      BY <3>2, <3>3, <3>4 DEF Life!Bill, Status, Billed
    <3>. QED
      BY <3>2, <3>5 DEF Life!Next
  <2>. QED
    BY <2>1, <2>2
<1>. QED
  BY <1>1, <1>2, <1>3 DEF Next

\* The pipeline implements the life cycle of docs/architecture.md: whatever
\* crashes, retries and races, a document's durable status only makes the
\* promised moves, and the ERP is billed only while it is under work.
THEOREM Refinement == Spec => LifecycleSpec
<1>1. Init => Life!Init
  BY DEF Init, Life!Init, NoRow
<1>2. Invariant /\ [Next]_vars => [Life!Next]_(Life!lifecycleVars)
  BY StepRefines
<1>. QED
  BY <1>1, <1>2, Inductive, PTL DEF Spec, Life!Spec, LifecycleSpec

=============================================================================
