------------------------------ MODULE DocStore ------------------------------
(***************************************************************************)
(* The state every service shares: the PostgreSQL tables, the row locks a  *)
(* SELECT ... FOR UPDATE takes, the Celery broker, the Redis dead-letter   *)
(* list, and the ERP.  Ingestion, Review and Worker add the operations;    *)
(* Pipeline composes them.                                                 *)
(*                                                                         *)
(* A database transaction under a document's row lock is one step, except  *)
(* two that read what others may change before they commit: the worker's,  *)
(* which spans extraction and submission with an uncommitted copy of the   *)
(* row in worker[w].row, and the reviewer's edit, whose duplicate check    *)
(* and commit are two steps, with the edit in handler[h].edit.             *)
(***************************************************************************)
EXTENDS WorkflowStates, Naturals

CONSTANTS
    Docs,              \* idempotency keys of uploads; a key names one document
    Workers,           \* Celery worker processes
    Handlers,          \* ingestion API threads
    Numbers,           \* (supplier_name, invoice_number) pairs
    Readings,          \* what the provider may read in each document
    Edits,             \* invoices a reviewer may type
    MaxRetries,        \* settings.celery_worker_max_retries
    Faults,            \* the kinds of fault that may happen
    MaxInterruptions,  \* bound on crashes and redeliveries together
    None               \* no invoice, no lock owner, no task

VARIABLES
    doc,            \* documents, extractions, decisions: the committed rows
    ledger,         \* submitted_invoices
    rowLock,        \* who holds the lock of each document row
    broker,         \* Celery messages ready for delivery, with multiplicity
    dlq,            \* entries of each document in the Redis dead-letter list
    erp,            \* idempotency keys the ERP has created an invoice for
    worker,         \* each worker: its message, its step, its transaction
    handler,        \* each API thread: its request's step, document and edit
    acked,          \* documents a client holds an upload's 202 for
    interruptions   \* crashes and redeliveries so far

store == <<doc, ledger, rowLock>>
vars  == <<doc, ledger, rowLock, broker, dlq, erp, worker, handler, acked,
           interruptions>>

-----------------------------------------------------------------------------
(***************************************************************************)
(* What validate_invoice tells apart in an invoice, except its duplicates: *)
(*   clean            every rule passes                                    *)
(*   flawed           a rule fails, the ERP would still take it            *)
(*   noSupplier       supplier_id missing                                  *)
(*   unknownSupplier  the ERP answers 404 to the lookup and 400 to a create*)
(***************************************************************************)
Grades   == {"clean", "flawed", "noSupplier", "unknownSupplier"}
Invoices == [number : Numbers, grade : Grades]

Tasks == [doc : Docs, retries : 0..MaxRetries]

Decisions ==
    {"none", "auto_approve", "needs_review", "human_approve", "rejected"}

Rows == [status     : WorkflowState \cup {"absent"},
         retryCount : 0..(MaxRetries + 1),
         extraction : Invoices \cup {None},
         decision   : Decisions]

NoRow == [status |-> "absent", retryCount |-> 0,
          extraction |-> None, decision |-> "none"]

FaultKinds ==
    {"workerCrash",    \* a worker dies; the broker redelivers its message
     "redelivery",     \* the visibility timeout redelivers a running message
     "apiCrash",       \* an API thread dies between two of its steps
     "enqueue",        \* publishing to the broker fails
     "redis",          \* pushing to the dead-letter list fails
     "pdf",            \* the stored PDF cannot be read
     "providerFatal",  \* a non-recoverable provider error
     "erpTransport"}   \* no HTTP answer from the ERP: refused, lost, timed out

ASSUME ConstantsAssumption ==
    /\ Readings \in [Docs -> SUBSET (Invoices \cup {None})]
    /\ Edits \subseteq Invoices
    /\ MaxRetries \in Nat
    /\ MaxInterruptions \in Nat
    /\ Faults \subseteq FaultKinds
    /\ None \notin Workers \cup Handlers \cup Invoices \cup Tasks
    /\ Workers \cap Handlers = {}

-----------------------------------------------------------------------------
(***************************************************************************)
(* Workers and API threads.                                                *)
(***************************************************************************)
IdleWorker == [pc |-> "idle", task |-> None, row |-> NoRow, fresh |-> FALSE]

\* Steps inside the transaction that holds the document's row lock.
InTransaction ==
    {"extracting", "deciding", "submitting", "recording", "committing"}

WorkerSteps ==
    InTransaction \cup
    {"idle", "received", "transient", "retrying", "exhausted", "deadletter",
     "done"}

IdleHandler == [pc |-> "idle", doc |-> None, edit |-> None]

HandlerSteps == {"idle", "creating", "enqueueing", "editing", "resuming"}

\* A request about document d has come to step pc, with the invoice typed.
Request(pc, d, edit) == [pc |-> pc, doc |-> d, edit |-> edit]

\* UniqueConstraint(supplier_name, invoice_number) of submitted_invoices.
Recorded(number) == \E entry \in ledger : entry.number = number

Unlocked(d) == rowLock[d] = None

\* A document's row changes one field, its status, and nothing else.
WithStatus(row, status) == [row EXCEPT !.status = status]

\* enqueue_process_document: a fresh task message for the document.
Enqueue(d) ==
    broker' = [broker EXCEPT ![[doc |-> d, retries |-> 0]] = @ + 1]

\* A fault of the kinds that could repeat for ever uses up the bound.
Interrupt ==
    /\ interruptions < MaxInterruptions
    /\ interruptions' = interruptions + 1

-----------------------------------------------------------------------------
Init ==
    /\ doc = [d \in Docs |-> NoRow]
    /\ ledger = {}
    /\ rowLock = [d \in Docs |-> None]
    /\ broker = [t \in Tasks |-> 0]
    /\ dlq = [d \in Docs |-> 0]
    /\ erp = {}
    /\ worker = [w \in Workers |-> IdleWorker]
    /\ handler = [h \in Handlers |-> IdleHandler]
    /\ acked = {}
    /\ interruptions = 0

=============================================================================
