# DocFlow AI: a TLA+ model of the document pipeline

DocFlow AI takes invoice PDFs over HTTP, has an LLM read them, validates what
was read, submits it to an ERP, and sends to a human reviewer what does not
pass. This directory models the part of it where services, processes and
failures meet, the life of a document between the upload and its end; what
reviewers, clients and operators see of it; and three parts around it: the calls
to the LLM providers, the ERP mock, and the quality gate.

## The system

| Component | Source | State it keeps | Operations | What makes it correct |
|---|---|---|---|---|
| Workflow states | `services/worker/rules/states.py` | none | `assert_transition_allowed` | a durable row follows the life cycle, ends are final |
| Persistence | `services/persistence/` | documents, extractions, decisions, audit log, submitted invoices | `session_scope` | all or nothing; two unique constraints; the latest record is the last one |
| Ingestion | `services/ingestion/app.py` | none of its own | `POST /documents`, `GET /documents/{id}` | one document and one task per idempotency key; a task follows its row; a status shown is true |
| Human review | `services/worker/workflow/review.py` and its endpoints | none of its own | approve, edit and approve, reject | only parked documents; an edit passes every rule; an approval resumes the worker |
| Worker task | `services/worker/tasks.py`, `celery_app.py`, `transient.py` | the Celery message, its retries | process, record retry, retry, exhaust | bounded retries, nothing lost, failures reported |
| Workflow | `services/worker/workflow/process_document.py` | one transaction | claim, extract, decide, submit | one attempt at a time, submitted means billed |
| ERP client and mock | `services/worker/executor/erp_client.py`, `services/erp_mock/app.py` | invoices by idempotency key | lookups, create | one invoice per key |
| Business rules | `services/worker/rules/business_rules.py` | none | `validate_invoice`, `decide_workflow` | approved only if every rule passes |
| Dead-letter queue | `services/worker/dlq.py` | a Redis list | push, list, find, depth | each failed document is in it, once |
| LLM providers | `services/worker/providers/` | none | extract, corrective retry, fallback | the error class decides retry, park or fail |
| Review UI | `services/review_ui/` | session state of a page | list, detail, and the command of a button | a verdict reported as accepted stands |
| Observability | `services/observability/` | counters, spans, logs | record | counters agree with the table, whatever is rolled back |
| Evaluation and gate | `llmops/eval/` | none | run, score, compare | a regression fails the gate |
| Scripts, migrations | `scripts/`, `alembic/` | none | upload and poll | outside the running system |

They interact through PostgreSQL (rows, `SELECT ... FOR UPDATE`, unique
constraints), through messages (Celery over Redis), through HTTP (the ERP) and
through the Redis list of dead letters. The hard part is that these are four
systems and only the first has transactions: a message may be delivered twice,
a worker may die between the ERP's create and its commit, a publish may fail
after the commit it was meant to follow. `PROJECT.json` lists every such
hazard at its line, with the properties that cover it or the reason none does.

## The modules

    WorkflowStates    the states and the transition table
      DocStore        the shared state and what every service does with it
        Ingestion     POST /documents
        Review        approve, edit and approve, reject
        Worker        the Celery task, the workflow, the ERP calls
          Pipeline    their composition, the properties
            MCPipeline       instances for TLC
            PipelineProofs   the inductive invariant; Pipeline implements Lifecycle
              WorkProofs     how work travels: one task, nothing lost, nothing stray,
                             nothing repeated
            Desk             reviewers at the console
              MCDesk         its instance
              DeskProofs     Desk implements Pipeline; verdicts stand and are billed
            Operations       counters, dead-letter list, status page
              MCOperations   its instance
              OperationsProofs  Operations implements Pipeline; pages, counters and
                             dead letters tell the truth
    Lifecycle         the abstract specification

    ExtractionOrder   created_at against the order of commits
      OrderProofs     where the two agree
    ErpMock           create_invoice in a pool of threads
      Submission      its composition with ExtractionOrder: transactions that post
        MCSubmission  its instance
        SubmissionProofs  Submission implements both; what becomes of a key

    ProviderRouter    one extraction: retries, correction, fallback
      RouterProofs    its safety properties; it comes to an end
    BusinessRules     validate_invoice and decide_workflow
      QualityGate     run_evaluation, the metrics, the gate
        MCQualityGate the golden dataset and its baseline
        GateProofs    what a verdict means, for any dataset

`Pipeline` composes ingestion, review and workers over one shared state. `Desk`
and `Operations` each add an environment to it: every step of theirs is a step
of `Pipeline` with what it shows to a reviewer, a client or an operator, or a
read, so that what is proved of `Pipeline` holds in both. The others are about
parts the pipeline sees through a narrow interface: of several extractions
`doc` keeps the one committed last, which `ExtractionOrder` shows to be the
latest but after an early review, an extraction is a choice of what `ProviderRouter` may end with, the ERP is the set of keys
`ErpMock` has invoices for, and the rules are the grade of an invoice.

### State

| Variable | In the code |
|---|---|
| `doc` | the committed row of each document, with its latest extraction and decision |
| `ledger` | `submitted_invoices` |
| `rowLock` | the row lock of `with_for_update` |
| `broker` | messages ready for delivery, with multiplicity; a message is a document and `request.retries` |
| `dlq` | entries per document in the Redis list |
| `erp` | idempotency keys (document, number) the ERP has an invoice for |
| `worker` | each worker's message, its step, and its uncommitted copy of the row |
| `handler` | each API thread's request, step, and the invoice a reviewer typed |
| `acked` | documents a client holds a 202 for |
| `interruptions` | crashes and redeliveries so far (a bound, not state of the code) |

### Steps and transactions

A database transaction under a row lock that reads nothing but its row is one
step. Two are not, because others can change what they have read before they
commit. `run_document_processing` spans the claim, the extraction, the
decision, the ERP call and the ledger insert: the worker holds the lock and
works on `worker[w].row`, which `Commit` writes to `doc` and `Rollback`
forgets. An edit checks for duplicates and commits later: `CheckEdit`, then
`ApproveEdited`.

`session_scope` rolls back on every exception. So every transition to `failed`
inside `process_document` that precedes a `raise` is undone, and the actions
`ExtractionFails` and `SubmissionRefused` are rollbacks. It also follows that
no committed row is ever `processing` or `extracted`, or `queued` with an
extraction, a decision or a submission; the branches of `process_document`
that would resume such rows are not actions, and the theorem
`WorkIsAllOrNothing` is why.

After the transaction of the API comes the publish, a separate step that may
fail (`EnqueueUpload`, `UploadEnqueueFails`, `EnqueueResume`,
`ResumeEnqueueFails`). After the transaction of a worker comes `Acknowledge`
(`task_acks_late`), or the retry's bookkeeping: `RecordRetry` writes
`retry_count` in a transaction of its own, `Retry` publishes the next attempt
before this one is acknowledged, and past `MaxRetries` come `MarkExhausted` and
`DeadLetter`, commit first, push second. `WorkerCrash` rolls back and requeues
the message (`task_reject_on_worker_lost`); `Redeliver` is the Redis
transport's visibility timeout, which delivers a message again while it runs.

### Data

An invoice is a number, standing for `(supplier_name, invoice_number)`, and a
grade, standing for what `validate_invoice` and the ERP make of the rest:

- `clean`: every rule passes;
- `flawed`: a rule fails, and the ERP would take the invoice all the same;
- `noSupplier`: `supplier_id` is missing, which `_submit_approved_invoice`
  refuses before it calls the ERP;
- `unknownSupplier`: the ERP answers 404 to the lookup and 400 to a create of
  a key it does not know; to a known key it answers with the invoice it has.

Duplicates are not in the grade: they are looked up in `ledger` when the code
does. `Readings[d]` is what the provider may read in document `d`: it is asked
again on each attempt and need not answer the same. `None` in it is an output
that stays invalid (`ProviderOutputError`), which parks the document with no
extraction.

### Reviewers at the console

A Streamlit page keeps a choice in a select box and the contents of a text area,
and runs its whole script again on every click. `Desk` follows that script for
each of `Reviewers`: `Rerun` lists the parked documents, `LoadDetail` loads the
selected one, and only then the button that caused the run sends its command
(`PressApprove`, `PressEdit`, `PressReject`), or one that changes nothing
(`PressInVain`). `desk[u]` holds what is on the page. Between any two of these
calls other reviewers, clients and workers take the steps of `Pipeline`. An approval is
answered after its publish (`AnswerAccepted`), with a 503 or not at all
(`AnswerLost`), or too late for the client's 30 seconds (`AnswerLate`), and then
its thread goes on by itself.

`told` keeps the verdicts a reviewer was told are accepted. An answer marked
`idempotent_replay` is not one of them: the endpoint answers a command on a
document that has that verdict already with the same code, and drops an edit.
(The page shows both in green; see Findings.)

### Counters, dead letters and the status page

`Operations` adds to each step of the pipeline the increments its code makes.
They are not part of the transaction, so `CountExtractionFailed` and
`CountRefused` count a failure the rollback takes back, and `CountAutoApproval`
an approval that may never be committed. A counter is the total over all
processes since they started. `letters` is the Redis list in the order of its
`rpush`es, where `Pipeline` has a count per document.

A status page is two reads: `ReadRow` takes the row, and for a document that is
failed or has been retried `SearchLetters` looks through the latest `Window`
entries (1000 in the code) afterwards, without a lock. A client polls the page
again and again (`Poll`), as `wait_for_status` does.

### The latest extraction

`_latest_extraction` and `_latest_decision` take the greatest `created_at`,
which PostgreSQL sets to the time the transaction began. The order in which
transactions commit is that of the row lock. `ExtractionOrder` keeps one
document, its records with their times, and the transactions that queue for its
row: `Begin` is the first statement sent, `Lock` the moment the row is granted,
and one step does the rest and commits. The console offers a document only when
it is parked; but the endpoints take any id, and the client has it from the 202,
so a review may begin while the document is still queued and wait for the row
lock of the worker that parks it. Its records may then be older than the worker's.
`txn` keeps whether the document was queued when each transaction began (`saw`),
for the properties: they say which records are ordered, and that only an early
review's edit can be passed over.

### Calls to the LLM providers

`ProviderRouter` follows one `extract` through three nested loops: the router
over its providers, each provider's two attempts (the second with the first
one's validation error in the prompt), and `call_with_retries` within each
attempt. `asking`, `correcting` and `attempt` say where it is; `Begin` starts
an extraction with or without a fallback. Each step is one call and its answer:
an invoice, invalid output, a recoverable error of a class, or a fatal error.
`trail` counts the calls of each provider and attempt and keeps the last
answer, for the properties. The steps follow the code's exceptions:
`RetryCall`, `Correct`, `FallBack`, or one of the ends (`ReturnInvoice`,
`RaiseOutputError`, `RaiseFatal`, `RaiseTransient`).

### The ERP mock

`ErpMock` splits `create_invoice` where another thread may come between: the
lookup of the key (`Replay`, `Refuse` or `Start`), the insert by id, the insert
by key. A request goes on when its client has died or given up, and nothing
keeps a client from sending the key again meanwhile. `Restart` empties the
dictionaries.

Which requests overlap is decided by the workers, so `Submission` composes the
mock with the transactions of `ExtractionOrder`: `Post` sends the invoice from
inside a transaction that holds the row lock, `Conclude` commits on the answer,
and `Fail` ends the transaction without a commit whatever the post is doing. A
post left running is the only way two posts of a document overlap, because the
next attempt gets the lock only when the transaction has ended. `abandoned`
keeps these attempts, for the properties. All keys of a `Submission` are of its
one document, and an invoice stands for its number.

### The quality gate

`QualityGate` runs an evaluation case by case: what the fake provider (or its
degraded variant) reads, what `BusinessRules` decides about it, whether the
case came out as recorded, and what it adds to the four rates with a minimum;
then the comparison. Amounts are cents, a confidence is a percentage, rates are
pairs of integers compared by cross-multiplication (the code compares floats
with a slack of 1e-9). Expected and actual values are written in normalised
form, so that `values_equal` is equality. The payloads of the fake provider
and the default context of the rules are those of the code; the golden cases
and the baseline's minima are constants.

## Runs

| Run | Instance | Question |
|---|---|---|
| `Safety` | 2 documents of one business number, 2 workers, 1 thread, 1 retry, 1 interruption, every fault | ten safety properties; `LifecycleSpec` |
| `Tasks` | `Desk`: 1 reviewer and other clients, 2 threads, 1 worker, 2 documents (one clean or flawed, one unreadable), 1 retry, 1 API crash, failed publishes, bad PDFs, unanswered ERP calls | `SingleTask`; do verdicts stand, and are they what is billed |
| `Solo` | `Operations`: 2 documents, one read now as one number, now as another, one the ERP refuses, 1 worker, 1 redelivery, a client that polls, `Window` 1, the ERP and Redis always answer | `NoStrayInvoice`, `DuplicatesAreReviewed`; do counters, dead letters and pages tell the truth |
| `Liveness` | 2 documents of one number, 1 worker, 2 threads, 2 interruptions, crashes, redeliveries, Redis failures, no edits | `NoLostWork`, `WorkDescends`, `WorkSettles` |
| `Router` | 2 retries, 3 error classes, with and without a fallback, one extraction after another | the calls made, what the worker is told, `Answered` |
| `Submission` | 3 attempts, 2 reviews, 2 invoices, one document, 1 restart of the ERP | is the latest record the last one and the one billed; what do the ERP's dictionaries hold when posts overlap |
| `Gate` | dataset v1, v1 with any one case exchanged, all datasets of 1 or 2 cases; both fixtures; a baseline that fits or not | is a verdict exact, and what is a PASS worth |
| `CrashDuplicate`, `LostDeadLetter`, `UploadReplay`, `Outage`, `OverlappingPosts` | the smallest instance of each finding | see Findings |

The properties, from the code they are about:

- `LockDiscipline`: a row lock is held by exactly the worker whose transaction
  is on that document, or the reviewer editing it, and by nobody otherwise.
- `TransactionShape`: how far the uncommitted copy is ahead of the committed
  row at each step; nobody else moves the row meanwhile; from the ERP's answer
  on, the ERP holds the very invoice the commit will record.
- `TaskNamesRow`: a message is of a document that is committed.
- `NoPartialWork`, `ApprovedByHuman`: what a rollback or a crash leaves is the
  row as it was queued, or as a reviewer approved it.
- `SubmittedIsBilled`, `LedgerAgrees`: rows, ledger and ERP agree on what was
  submitted and under which number.
- `FailedByExhaustion`: a row becomes failed only in a commit of a task that is
  out of retries, and with the count of all its attempts; what fails earlier,
  though the code sets `failed` in five places, never becomes durable.
- `DeadLetterAfterTheEnd`: which documents the dead-letter list may hold.
- `SingleTask`: without redelivery, at most one message, task or pending
  publish per document, however requests race and die.
- `NoStrayInvoice`: the ERP holds no invoice nobody accounts for, if its
  answers arrive and the worker lives, however often the number is misread.
- `DuplicatesAreReviewed`: one worker submits a second document of a number
  only if a reviewer approved it, although the duplicate query and the ledger's
  insert are two steps, and an edit's check is older still.
- `NoLostWork`, `WorkSettles`: a waiting document has something that will bring
  a worker, and it settles.
- `WorkDescends`: a worker's step never leaves more to do than there was, the
  retry it publishes included; only a crash or a redelivery adds work.
- `VerdictStands`: what a reviewer was told is accepted stays so, with the very
  invoice of his page, however stale the page was and whoever else reviewed the
  document; no two reviewers are told different things.
- `VerdictBilled`: the ERP holds nothing of a rejected document, and of an
  approved one only the number approved, whatever earlier attempts did.
- `OutcomesCounted`: submitted, parked and rejected documents are counted
  exactly once although the increments precede the commit; what `failed` and
  `auto_approvals` count beyond the table is bounded.
- `ErpCountersExact`: the successes counted are the invoices in the ERP.
- `FailedAtLimit`: `record_retry_metadata`, which takes no row lock, never
  overwrites the count of a document that is failed.
- `DepthIsFailures`: the dead-letter list has one entry for each failed
  document, but for those on their way.
- `PageIsSound`, `FailureShown`: what a page said stays true although it was
  put together from two moments, and a client that polls sees the failure with
  its dead letter unless `Window` later failures hide it.
- `LatestIsLast`, `BilledIsLast`: a record is younger than all committed before
  it unless an early review wrote it, and what is billed is the extraction the
  last decision approved, unless that is an early review's edit: then it may be
  the extraction the edit replaced.
- `AwaitedKeysAreUnique`: at most one invoice of a key is of an attempt that
  waited for its answer. A second one needs a post abandoned while it ran.
- `BilledStands`: what was billed is in the ERP, under its key, until the ERP
  restarts.
- `SettledKeysStay`: once a key is known and no request of it is between lookup
  and insert, it gets no further invoice and keeps its answer until a restart.
- `CallsBounded`, `Answered`: a provider is called at most `LLM_MAX_RETRIES` + 1
  times in each of its two attempts, and every extraction ends.
- `TransientIsExhausted`, `ParkedAfterCorrection`: the worker is told to retry
  only when every provider has given up, and parks a document as unreadable
  only after a corrective attempt.
- `ReasonIsPrimarys`: `fallback_reason` is the error the primary gave up with.
- `VerdictIsExact`: PASS if and only if each minimum is reached by the rate of
  all points of the dataset taken at once (`PointsAsked`, `PointsWon`), where the
  code adds the cases up one by one, some of them exempt from some metrics.
- `PassIsFaithful`: after a PASS against the shipped baseline each case had the
  error class, the decision, the final state and every field it records, although
  the gate sees averages only, one of them with slack for the cases that are
  meant to be invalid. Two expectations of a case exempt from the decision metric
  are held against nothing by the code, and the property says which: the decision
  and final state of an invoice that was read, and the final state of a provider
  failure (`DecisionCounts`, `StateCounts`).
- `PassHasEvidence`: no minimum is met by a rate of nothing.
- `DegradedFails`, `ShippedBaselinePasses`: the degraded fixture fails whenever
  a field it spoils is compared; the shipped dataset passes its baseline.

Bounds. The conflicts in this code are between two actors over one document or
one business number: two workers on a redelivered task, two submissions of one
number, two requests on one key, a reviewer and a worker. Two of each suffices
to meet them. One retry has both the attempt that retries and the one that is
exhausted. One interruption in `Safety` gives two copies of a task, hence two workers at once;
`Liveness` has two, so a crash also hits a redelivered copy. A fault that could
repeat for ever (`workerCrash`, `redelivery`, `apiCrash`) uses up
`MaxInterruptions`; the others end an attempt or a request and are bounded by
it. The theorems hold without any of these bounds. Deadlock is
checked in the runs of the pipeline and of the router: a client may always
repeat an upload, and an extraction follows another, so none is expected.
`Submission`, `OverlappingPosts` and `Gate` do stop, when all transactions have
ended or the verdict is given, and say `CHECK_DEADLOCK FALSE`.

An edit changes nothing about how a document settles but triples the states, so
`Liveness` leaves edits to the other runs; its two threads race their uploads.
One reviewer at a desk is enough in `Tasks` because the second thread serves any
other client of the API at any time, a second reviewer's commands among them;
`VerdictsStand` is proved for any number of desks. The threads are
interchangeable, and so are the attempts, the reviews and the invoices of
`Submission`; no other symmetry is used. In `Solo` two documents that may both
fail and a window of one make the older entry drop out, and a redelivery
overlaps with every step of the task it copies. In `Submission` three attempts
give one that parks, one that abandons its post and one that submits, or two
abandoned posts beside a third; two reviews have one that is early and waits for
the worker, and one that waits for the other.

Two retries in `Router` give a first, a middle and a last call. The restart in
`Submission` may fall between any two steps of the posts, and the second invoice
gives a retry that reads another number, hence another key. In `Gate` an exchanged case of v1 meets the exact minimum of
`schema_validity_rate` from both sides, and the small datasets include those
in which a metric counts no case.

`Safety` names each reading and fault that could break it. The runs that
leave faults out do so because the code does not survive them, and the runs
under Findings show each: `Tasks` leaves out redeliveries and worker crashes,
which make a second task (and a failed push to Redis, which neither its tasks
nor its verdicts depend on); `Solo` leaves out crashes and unanswered ERP calls
(`CrashDuplicate`), Redis failures (`LostDeadLetter`); `Liveness` leaves out
publish failures (`UploadReplay`), unanswered calls
(`Outage`), the failures the worker drops after a rollback (an unreadable PDF,
a fatal provider error, the ERP's refusal of an invoice a reviewer approved),
and a second worker (a lost race of the unique constraint, `LedgerConflict`,
leaves a row queued).

Fairness. `FairSpec` is weak fairness of each worker's own steps and of each
API thread's: a process that can continue does, and a Celery worker with a
message at hand takes one. Nothing is fair about clients, reviewers, crashes or
redeliveries. Which of the outcomes of a call occurs is free; that transient
ones do not repeat for ever is the code's retry bound and not an assumption.
`OperationsSpec` adds that a client that polls goes on polling; the scripts
give up after 120 seconds (`wait_for_status`), so `FailureShown` is about a
client more patient than they are.
The router's `FairSpec` is weak fairness of its one `Step`: each call ends, by
its answer or by the timeout given to the client library; which way is free.
`Desk`, `ExtractionOrder`, `ErpMock`, `Submission` and `QualityGate` assume no
fairness.

## Findings

Each is a run that refutes one sentence of the documentation; `PROJECT.json`
quotes it with its line.

- `CrashDuplicate`: the idempotency key holds the extracted number, which a
  crash forgets, so "exactly once" becomes twice if it is then read otherwise.
- `LostDeadLetter`: a crash between the commit of `failed` and the push leaves
  a failed document no dead letter names.
- `UploadReplay`: after a 503 the row has moved on, and the repeated upload is
  answered as a replay and enqueues nothing.
- `Outage`: with the ERP unreachable there are no retries to wait for, since
  httpx's transport errors are not classified as transient.
- `OverlappingPosts`: the mock's lookup and inserts are not atomic
  (`erp_mock/app.py:134-154`), a worker that dies or times out leaves its post
  running, and the next attempt's post of the same key makes a second invoice,
  where `README.md:12` has "idempotent invoice submission". The number is the
  same in both, so this is not `CrashDuplicate`. What holds all the same is in
  `Submission`.

Further divergences follow from the same actions, and no run is kept for them:

- A rejected document may be billed, by the window of `CrashDuplicate`, when the
  redelivered task parks what the first one had billed; after a redelivery the
  dead-letter list may name a document that was submitted.
- A repeated approve after a 503 enqueues nothing, as the upload does.
- Approving a parked duplicate as extracted evaluates no rule, so two documents
  of one business number are submitted.
- A second reviewer's edit of an approved document is dropped and answered 202,
  and the console shows the answer in green (`review.py:184`,
  `review_ui/app.py:135-136`); ADR 0004 calls duplicate approvals safe, which
  holds for the document and not for the edit.
- When the list changes under a reviewer, the select box starts at its first
  option and the press he made applies to that document (`Rerun`).
- `docflow_documents_completed_total{final_state="failed"}` counts failures the
  rollback takes back and `docflow_auto_approvals_total` an approval per attempt
  (`OutcomesCounted` bounds both). An ERP call that is not answered is counted
  nowhere, so the alert on the share of failed submissions is silent while the
  ERP is down. `docflow_dlq_depth` is 0 while Redis is.
- `scripts/run_demo.py:211` takes `dlq_present` from the first page that says
  failed, which may come before the push; `scripts/load_test.py:98` keeps the
  error of a poll that was followed by a final status.
- A review that begins before its document is parked may write an edit whose
  `created_at` is older than the extraction it replaces, and that extraction is
  then submitted. TLC shows it if `Early(last)` is dropped from `BilledIsLast`.
  The console offers no document before it is parked; the API does not ask.

## Proofs

The proofs about the pipeline are for any sets of documents, workers, threads,
numbers, readings and edits, any number of retries and interruptions and, where
a theorem does not name others, any set of faults, from the one assumption
`ConstantsAssumption` of `DocStore` (their types; that `None` is none of them;
that workers and threads are different things).

`PipelineProofs` proves the nine safety invariants of run `Safety` at once, as

    Invariant == TypeOK /\ TransactionShape /\ TaskNamesRow /\ LockDiscipline
                 /\ NoPartialWork /\ ApprovedByHuman /\ SubmittedIsBilled
                 /\ LedgerAgrees /\ DeadLetterAfterTheEnd

because none is inductive alone. What carries the argument is
`TransactionShape` with `LockDiscipline`: whether a commit keeps
`SubmittedIsBilled` depends on what the worker has learned since its claim
(`Shape`), and that this is still so depends on nobody else having moved the
row, which is the lock. The lemmas follow that line. `OwnLock` and `OwnShape`:
an actor's own step takes its record from one shape to the next. `Frame`: it
leaves the records of all other actors valid, for they hold locks of other
documents. `WorkerRows` and `ApiRows` sort the steps by what they do to the
committed row, and `RowsKeep` shows that each kind keeps the invariants of
rows; `WorkerTasks`, `ApiTasks`, `WorkerLetters` and `ApiLocks` do so for
messages, dead letters and locks. The first lemmas are the types: one for every
action. `FailedByExhaustion` is an action property and follows from the same
invariant: of the steps that write a row, `WorkerFails` leaves `MarkExhausted`
alone, and `Shape` says that a task gets there with its retries used up.

Its last theorem is `Spec => LifecycleSpec`: with `status` the status of
each committed row and `billed` the documents of `erp`, each step is one step
of `Lifecycle` or leaves both unchanged. The invariant is what makes it true:
only a document at work is billed because the worker that bills holds its lock,
and only a billed one becomes submitted because of `Shape` at `committing`.

`WorkProofs` is about what carries a document to its end: a message, a task at
work, or a request about to publish. `WorkerMoves` and `ApiMoves` say how each
step moves these carriers: it keeps one, drops it or passes its document on. The
theorems that follow are each for the faults under which they hold.

- *One carrier.* If no message is delivered twice (`DeliveredOnce`: neither
  redelivery nor a worker's crash), every document has one carrier at most, and
  none while it is parked or not yet committed (`OneCarrier`). That is inductive
  because a request becomes a carrier only by moving a row out of one of these
  two states, and only one request can. `SingleTask` is its count.
- *Billed as decided.* `BilledAsDecided` says what the ERP may have of a
  document in each state: nothing while it is absent, parked or rejected, and
  after a reviewer's approval only the number approved. What makes it inductive
  is the queued document: if it is billed, nothing carries it but the attempt
  that has just billed it, or nothing at all, because that attempt ended for
  good (`Billing`). So no later attempt can park what an earlier one billed.
- *One task after the other.* If no message is delivered twice, or if one worker
  serves the queue (`OneWorker`), the attempts of a document follow each other:
  the row of an attempt that failed is still waiting, and a failed row has its
  last attempt's number (`AttemptsInOrder`), also if the one worker's own task
  was redelivered.
- *One worker.* What it has learned of the ledger since its claim is still so
  when it commits (`WorkIsCurrent`). So an invoice of the ERP always belongs to
  a submitted document or to the one in its hands (`NoStrayInvoice`), if it
  does not crash in between and the ERP answers. The lock alone does not give
  this: two workers on different documents of one number race for the ledger,
  which is why `LedgerConflict` exists. With every fault, a document it approves
  by itself has a number nobody has recorded (`FreeToSubmit`: the duplicate
  query found none, and nobody else inserts), hence `DuplicatesAreReviewed`.
- *Several workers.* That race is all there is. Without worker crashes and
  unanswered calls, the only invoices `NoStrayInvoice` does not account for are of
  a number recorded for another document (`StrayIsDuplicate`); where every
  publish and call is answered, the only document left without a carrier is one
  that lost the race (`LostIsDuplicate`). The refused flush is the only step
  that makes either, and what it names stays in the ledger (`LedgerGrows`).
  With every fault, the number of a submitted document is recorded, for it or
  for the one that was first (`NumbersAreRecorded`).
- *Nothing lost.* `WaitingIsCarried`: a waiting document is carried. Each step
  that drops a carrier has to be shown to have moved the row on, and the faults
  excluded (`Answering`) and invoices excluded (`ReadingsTaken`) are exactly the
  steps that drop one without. Crashes and redeliveries of any number are
  allowed.
- *Nothing repeated.* `WorkDescends` is proved from the steps a worker's program
  counter can take (`Paths`) and a number for each place on them: every path
  goes down, and a retry goes from one attempt to the next. With `NoLostWork`
  this is what fairness turns into `WorkSettles`, which TLC checks.

These hypotheses are what the deployment or the findings say. `OneWorker` is how
the worker is started: one container, `--pool=solo`
(`services/worker/Dockerfile:17`). `DeliveredOnce` holds of the Redis transport
as long as a task takes less than its visibility timeout and the worker lives.
The other faults excluded are those of the findings, and the failures after
which the worker drops its message ("Bounds").

`DeskProofs` and `OperationsProofs` build on these. Both first show that the
larger specification implements `Spec`, one lemma per kind of step, so that
`Invariant` may be assumed at every state. For `VerdictsStand` the strengthening
is `Session`: a reviewer is only ever at a document that has been parked; what
his page shows when he presses is what the row holds for as long as it is
parked, since nothing but a reviewer's command changes a parked row
(`RowsAdvance`); and the thread he waits for is editing his document with his
invoice, or has approved it with that invoice. `OneDeskPerThread` keeps an
answer from reaching the wrong desk. The verdicts told before stay because rows
only go forward (`VerdictsKept`). `VerdictBilled` follows from the verdicts
that stand and `BilledAsDecided`.
For `PagesStand` it is that a page in the middle of its two reads holds a
status which, if final, is still the row's, and that whoever is in the list is
at its end, which is `DeadLetterAfterTheEnd` carried over to the order of the
list.

The counters are not part of a transaction, and a theorem about them says by how
much they differ from the table. With one worker the difference is one task at
most. `Outcomes` adds to `OutcomesCounted` that the sets counted are finite, and
that an approval in the worker's hands is of a clean invoice: it is committed,
or a transient answer takes it back, which is counted, and the ERP never refuses
it. Each step is then one of a few kinds: it changes neither rows nor counts
(`QuietOutcomes`), parks, fails or submits one document (`ParkedOnce`,
`FailedOnce`, `SubmittedOnce`), or is a request (`RequestTurns`), and each kind
changes a counter and a cardinality by the same number. `DepthIsFailures` is
similar, for any number of workers: the list and the pushes on their way are
together one longer exactly when a row becomes failed. That a row fails once is
`AttemptsInOrder` again, so this holds with one worker, which finds the row of a
redelivered task failed already, or if nothing is delivered twice.
`ErpCountersExact` uses `NoStrayInvoice`: a document for which the worker asks
for an invoice has none, so each success is a new key. `FailedAtLimit` has the
hypothesis of `AttemptsInOrder` and no other: the write that takes no lock comes
from a task whose attempt failed while its document was waiting, and as no other
task of the document is at work, it still is waiting.

`GateProofs` is about every dataset, every minimum and both fixtures, not only
v1, from `GateAssumption`, which is what `GoldenCase` and `FakeScenario` allow.
The gate compares averages, so the inductive invariant must remember what the
averages forget. `FullSoFar`: if a numerator equals its denominator, every case
so far scored in full, because no case scores more than it counts. `Evidence`: a
denominator above zero was raised by some case. `PassIsFaithful` follows for
minima of one for the rates of success and decisions, as the shipped baseline
has them (`Full`); both are needed, since a provider failure is a success
whatever its final state. `PassHasEvidence` needs no hypothesis. `DegradedFails`
also needs that no golden case expects one of the values the degraded fixture
makes up (`NobodyExpectsDegraded`), as in v1: on such a case the fixture could
come out as recorded. `VerdictIsExact` needs no hypothesis. Its invariant says
that the tallies are the numbers of the points asked and won in the cases so far
(`PointsTallied`): a case adds as many points as it scores (`CasePoints`), and
they are others than those before (`Joined`).

`OrderProofs` proves `LatestIsLast` and `BilledIsLast` for any attempts and
commands, begun at any time. The argument is about who may still write. A queued
document has no record, and the attempt that ends this phase writes the first of
each kind (`QueuedIsBlank`). A review that begins after that is later than every
record there is, but for those of another review; and the review that writes
moves the document on, so that no review that waited beside it writes another
(`ReviewersAreLater`). So each record is younger than all before it unless its
review is early, although attempts that began earlier may still be waiting. Of
extractions there are at most two, the worker's and an edit of it (`Recorded`),
which is what `BilledIsLast` needs to name the one that may be billed instead.

`RouterProofs` proves the router's four safety properties, for any number of
retries and any error classes, with two facts that are not properties of their
own: `Counting`, that the retry counter is the number of calls recorded for the
attempt in progress, and `Chain`, that a fallback in use has a primary that
gave up with the reason kept. The assumption is `RouterAssumption`: the types
of the constants. `ExtractionsEnd` adds that the calls an extraction can still
make (`CallsLeft`: those of this attempt, of its correction, and of a fallback)
become fewer with every answer; they are 4 (`LlmMaxRetries` + 1) at most, and
the worker holds the row lock that long.

`SubmissionProofs` is about the ERP mock, first by itself: for any requests, keys
and restarts, overlapping as they like, an invoice that was answered exists
under its key until a restart (`AnswersExist`, with `InvoicesIndexed` inductive),
and a settled key stays as it is (`SettledKeysStay`). Then it shows that
`Submission` implements `OrderSpec` and `ErpSpec`, so that all of this holds in
the composition. `AwaitedKeysAreUnique` is a fact of neither part alone: the row
lock keeps two attempts from awaiting answers at a time, so the lookup of the
second comes after the inserts of the first unless that one was abandoned.
`SubmissionInvariant` states it for every step between lookup and insert, and
restarts are harmless because they empty both dictionaries and cut off what is
in flight.

The type invariant of `Pipeline` is proved and in a run; those of the other
modules with proofs are proved and in no run.

| Theorem | Statement |
|---|---|
| `Inductive` | `Spec => []Invariant` |
| `TypeCorrect` | `Spec => []TypeOK` |
| `LocksExclude` | `Spec => []LockDiscipline` |
| `TransactionsAdvance` | `Spec => []TransactionShape` |
| `TasksNameRows` | `Spec => []TaskNamesRow` |
| `WorkIsAllOrNothing` | `Spec => []NoPartialWork` |
| `ApprovalIsHuman` | `Spec => []ApprovedByHuman` |
| `SubmissionIsBilled` | `Spec => []SubmittedIsBilled` |
| `BooksAgree` | `Spec => []LedgerAgrees` |
| `FailureIsExhaustion` | `Spec => FailedByExhaustion` |
| `FailureIsFinal` | `Spec => []DeadLetterAfterTheEnd` |
| `Refinement` | `Spec => LifecycleSpec` |
| `DeskImplementsPipeline`, `DeskTypes` | `DeskSpec => Spec`, `DeskSpec => []DeskTypeOK` |
| `VerdictsStand` | `DeskSpec => []VerdictStands` |
| `OperationsImplementPipeline`, `OperationsTypes` | `OperationsSpec => Spec`, `OperationsSpec => []OperationsTypeOK` |
| `PagesStand` | `OperationsSpec => []PageIsSound` |
| `OneTaskPerDocument` | `DeliveredOnce` gives `Spec => []SingleTask` |
| `DecisionsAreBilled` | `DeliveredOnce` gives `Spec => []BilledAsDecided` |
| `VerdictsAreBilled` | `DeliveredOnce` gives `DeskSpec => []VerdictBilled` |
| `EveryInvoiceAccounted` | `OneWorker`, no worker crash, no unanswered ERP call: `Spec => []NoStrayInvoice` |
| `StraysAreDuplicates` | no worker crash, no unanswered ERP call: `Spec => []StrayIsDuplicate` |
| `SubmissionsAreRecorded` | `Spec => []NumbersAreRecorded` |
| `SecondSubmissionsAreReviewed` | `OneWorker` gives `Spec => []DuplicatesAreReviewed` |
| `WorkIsNeverLost` | `OneWorker`, `Answering`, `ReadingsTaken`: `Spec => []NoLostWork` |
| `LostWorkIsDuplicate` | `Answering`, `ReadingsTaken`: `Spec => []LostIsDuplicate` |
| `WorkNeverRepeats` | `Spec => WorkDescends` |
| `FailuresAtLimit` | `OneWorker \/ DeliveredOnce` gives `OperationsSpec => []FailedAtLimit` |
| `DepthCountsFailures` | `OneWorker \/ DeliveredOnce`, no worker crash, no Redis failure: `OperationsSpec => []DepthIsFailures` |
| `CountersTellOutcomes`, `SuccessesAreInvoices` | `OneWorker`, no worker crash, no unanswered ERP call: `OperationsSpec => []` of `OutcomesCounted`, `ErpCountersExact` |
| `GateInductive`, `RatesWithinOne` | `Spec => []GateInvariant`, `Spec => []TypeOK` |
| `PassVouchesForEveryCase` | `Full` of two rates gives `Spec => []PassIsFaithful` |
| `VerdictsAreExact` | `Spec => []VerdictIsExact` |
| `PassRestsOnEvidence` | `Spec => []PassHasEvidence` |
| `DegradedNeverPasses` | `Full` of two rates, `NobodyExpectsDegraded`: `Spec => []DegradedFails` |
| `LatestExtractionIsLast`, `BilledExtractionIsLast`, `OrderTypes` | `OrderSpec => []` of `LatestIsLast`, `BilledIsLast`, `OrderTypeOK` |
| `RouterTypeCorrect`, `ErpTypeCorrect` | `Spec => []TypeOK`, `ErpSpec => []ErpTypeOK` |
| `RetriesBounded`, `TransientAfterAll`, `ParkedIsCorrected`, `ReasonIsTrue` | `Spec => []` of `CallsBounded`, `TransientIsExhausted`, `ParkedAfterCorrection`, `ReasonIsPrimarys` |
| `ExtractionsEnd` | `Spec => ExtractionDescends` |
| `AnsweredInvoicesExist`, `SettledKeysKeepInvoice` | `ErpSpec => []AnswersExist`, `ErpSpec => SettledKeysStay` |
| `SubmissionIsOrderly`, `SubmissionIsErp` | `SubmissionSpec => OrderSpec`, `SubmissionSpec => ErpSpec` |
| `AwaitedInvoicesAreUnique`, `BilledInvoiceStands` | `SubmissionSpec => []` of `AwaitedKeysAreUnique`, `BilledStands` |

Only model-checked: the liveness properties `WorkSettles`, `FailureShown` and
`Answered`, since the proof system does not reason about fairness and
enabledness (`WorkDescends` and `ExtractionDescends` are their arguments as far
as one step goes); and `ShippedBaselinePasses`, which is a computation on one
dataset and says nothing about another: what it means for any dataset is
`VerdictIsExact`.

## Not modelled

- A publish either happens or fails; one that is reported as failed although
  the message arrived is left out, as is a commit that fails.
- The audit log, spans and logs, the histograms and the counters of provider
  calls, validation issues and review actions, which no decision reads.
- In `Desk`: the texts of a page, and the input it refuses before any call.
- In `Operations`: a scrape, a counter's loss when its process restarts, and a
  search of the dead-letter list that Redis does not answer, which makes the
  page a 500 that shows nothing.
- Two transactions that begin in the same microsecond.
- The stored PDFs, except that one may be unreadable.
- In the pipeline, the ERP's restart and its own check-then-act: there it is
  one atomic set of keys. `ErpMock` and `Submission` model both.
- In the pipeline, a review that begins before its document is parked: a command
  is one step under the row lock there, and `doc` keeps the extraction committed
  last. `ExtractionOrder` says when the code takes another.
- The texts by which a provider's errors are classified, the contents of
  prompts, and the fake provider inside the pipeline.
- In the gate: the normalisation of values, the accuracy per field, latencies
  and their percentile, reports, MLflow and the static checks run before it.
- `GET /documents/{id}/source` and `GET /dlq`, settings, the scripts beyond their
  polling, and migrations.

## Plan

Done: the pipeline with its refinement; the reviewers' console (`Desk`); the
counters, the dead-letter list and the status page (`Operations`);
`ExtractionOrder`, `ErpMock` and their composition `Submission`;
`ProviderRouter`; `BusinessRules` and `QualityGate`; their runs; and the proofs above.

Left, in this order:

1. Proofs: the outcome counters for several workers, whose increments may then be
   ahead of the table by a task each.
2. The grades of `DocStore` derived from `BusinessRules`: for each grade an
   invoice that has it, and the reviewer's edits over bounded amounts.
3. The router in the pipeline: an extraction of `Worker` as one of the ends
   `ProviderRouter` has, with the fatal errors kept apart.
4. The accuracy per field and the latency percentile of the gate.
