----------------------------- MODULE WorkProofs -----------------------------
(***************************************************************************)
(* How work travels through Pipeline, and what that means for the ERP.     *)
(*                                                                         *)
(* A document is carried to its end by messages, tasks at work and         *)
(* requests about to publish.  Each step of the pipeline keeps a carrier,  *)
(* drops it or passes its document on to the next (WorkerMoves, ApiMoves). *)
(* Several arguments follow from this.                                     *)
(*                                                                         *)
(*  - Where no message is delivered twice there is one carrier at most     *)
(*    (OneCarrier), hence one task; and no billing of an attempt that did  *)
(*    not succeed is ever beside a reviewer's decision (BilledAsDecided).  *)
(*  - There, and also where one worker serves the queue, the tasks of a    *)
(*    document come one after the other, so a failed row has its last      *)
(*    attempt's number (AttemptsInOrder).                                  *)
(*  - Where one worker serves the queue, what it has read of the ledger is *)
(*    still so when it writes (WorkIsCurrent): the later of two submissions*)
(*    with one number went past a reviewer.                                *)
(*  - Every invoice of the ERP that is not of a submitted document, or of  *)
(*    one being submitted, and every waiting document without a carrier is *)
(*    due to a number found twice in the ledger: with one worker there is  *)
(*    none, with several nothing else.                                     *)
(*  - No carrier of a waiting document is dropped before the document has  *)
(*    moved on, where every publish and every call is answered.            *)
(*  - Each step between two deliveries brings a worker nearer to the end of*)
(*    its task, and each retry is of a later attempt (Left).               *)
(***************************************************************************)
EXTENDS PipelineProofs, FiniteSetTheorems

\* Messages about d that are ready for delivery.
Waiting(d) == {t \in Tasks : t.doc = d /\ broker[t] > 0}

\* Steps of a request that ends with a publish.
Publishing == {"enqueueing", "resuming"}

Resting == {"idle", "done"}

-----------------------------------------------------------------------------
(***************************************************************************)
(* The ways of a carrier.                                                  *)
(***************************************************************************)
\* A worker's step keeps its task, takes one from the broker, or publishes
\* the next attempt; a fault puts the message back.
LEMMA WorkerMoves ==
    ASSUME Invariant, NEW w \in Workers,
           WorkerStep(w) \/ WorkerCrash(w) \/ Redeliver(w)
    PROVE  /\ handler' = handler
           /\ \A v \in Workers : v # w => worker'[v] = worker[v]
           /\ \/ /\ broker' = broker
                 /\ worker'[w].pc \notin Resting =>
                       /\ worker[w].pc \notin Resting
                       /\ worker'[w].task = worker[w].task
              \/ \E t \in Tasks :
                    /\ worker[w].pc = "idle"
                    /\ broker[t] > 0
                    /\ broker' = [broker EXCEPT ![t] = @ - 1]
                    /\ worker'[w].pc = "received"
                    /\ worker'[w].task = t
              \/ \E t \in Tasks :
                    /\ worker[w].pc = "retrying"
                    /\ t.doc = DocOf(w)
                    /\ broker' = [broker EXCEPT ![t] = @ + 1]
                    /\ worker'[w].pc = "done"
              \/ /\ WorkerCrash(w) \/ Redeliver(w)
                 /\ worker[w].pc # "idle"
                 /\ worker[w].task \in Tasks
                 /\ broker' = [broker EXCEPT ![worker[w].task] = @ + 1]
                 /\ worker'[w] = worker[w] \/ worker'[w].pc = "idle"
<1>. USE DEF Invariant, At, DocOf, Retries, Resting, store
<1>0. /\ worker \in [Workers -> Workings]
      /\ worker[w] \in Workings
      /\ worker[w].pc # "idle" => worker[w].task \in Tasks
      /\ handler' = handler
      /\ \A v \in Workers : v # w => worker'[v] = worker[v]
  BY Frame, WorkerTasks DEF TypeOK, TransactionShape, Shape
<1>1. CASE Receive(w)
  <2>1. PICK t \in Tasks :
           /\ broker[t] > 0
           /\ broker' = [broker EXCEPT ![t] = @ - 1]
           /\ worker' = [worker EXCEPT
                            ![w] = [@ EXCEPT !.pc = "received", !.task = t]]
    BY <1>1 DEF Receive
  <2>2. worker'[w].pc = "received" /\ worker'[w].task = t /\ worker[w].pc = "idle"
    BY <1>0, <1>1, <2>1 DEF Receive, Workings
  <2>. QED
    BY <1>0, <2>1, <2>2
<1>2. CASE Retry(w)
  <2>. DEFINE next == [doc |-> DocOf(w), retries |-> Retries(w) + 1]
  <2>1. /\ worker[w].pc = "retrying"
        /\ worker'[w].pc = "done"
        /\ broker' = [broker EXCEPT ![next] = @ + 1]
    BY <1>2, Moved DEF Retry
  <2>2. next \in Tasks /\ next.doc = DocOf(w)
    BY <1>0, <2>1, ConstantsAssumption DEF TransactionShape, Shape, Tasks
  <2>. QED
    BY <1>0, <2>1, <2>2
<1>3. CASE WorkerCrash(w) \/ Redeliver(w)
  BY <1>0, <1>3 DEF WorkerCrash, Redeliver, IdleWorker
<1>4. CASE Acknowledge(w)
  BY <1>0, <1>4 DEF Acknowledge, IdleWorker
<1>5. CASE CheckLedger(w)
  BY <1>0, <1>5 DEF CheckLedger, Workings
<1>6. CASE ~ \/ Receive(w) \/ Retry(w) \/ WorkerCrash(w) \/ Redeliver(w)
             \/ Acknowledge(w) \/ CheckLedger(w)
  <2>1. /\ broker' = broker
        /\ worker[w].pc \notin Resting
        /\ \E pc : \/ Goto(w, pc) \/ EndTransaction(w, pc)
                   \/ \E row : Continue(w, pc, row)
    BY <1>6 DEF WorkerStep, SkipSettled, ClaimQueued, ClaimApproved, Claim,
       Extract, ParkUnreadable, ProviderTransient, ExtractionFails, AutoApprove,
       Park, ErpTransient, LookupUnanswered, CreateInvoice, SubmissionRefused,
       CreateUnanswered, CommitSubmission, LedgerConflict,
       RecordRetry, RetryPublishFails, MarkExhausted, DeadLetter,
       DeadLetterFails, Commit, Rollback
  <2>2. worker'[w].task = worker[w].task
    BY <2>1, Moved
  <2>. QED
    BY <1>0, <2>1, <2>2
<1>. QED
  BY <1>1, <1>2, <1>3, <1>4, <1>5, <1>6

\* A request comes to its publish by creating a document or by deciding one
\* that waits for a review; it publishes, or a fault ends it.
LEMMA ApiMoves ==
    ASSUME Invariant, NEW h \in Handlers, Api(h)
    PROVE  /\ worker' = worker
           /\ \A g \in Handlers : g # h => handler'[g] = handler[g]
           /\ \/ /\ broker' = broker
                 /\ handler'[h].pc \in Publishing => handler'[h] = handler[h]
                 /\ handler[h].pc \in Publishing =>
                       \/ handler'[h] = handler[h]
                       \/ Faults \cap {"enqueue", "apiCrash"} # {}
              \/ \E d \in Docs :
                    /\ broker' = broker
                    /\ doc[d].status \in {"absent", "needs_review"}
                    /\ doc'[d].status \in {"queued", "approved"}
                    /\ handler[h].pc \notin Publishing
                    /\ handler'[h].doc = d
                    /\ handler'[h].pc \in Publishing
              \/ /\ handler[h].pc \in Publishing
                 /\ Enqueue(handler[h].doc)
                 /\ handler'[h].pc = "idle"
<1>. USE DEF Invariant, Publishing, store
<1>0. /\ handler \in [Handlers -> Requests]
      /\ handler[h] \in Requests
      /\ handler[h].pc # "idle" => handler[h].doc \in Docs
      /\ worker' = worker
      /\ \A g \in Handlers : g # h => handler'[g] = handler[g]
  BY ApiRows, ApiLocks DEF TypeOK, TaskNamesRow
<1>1. CASE \E d \in Docs : ReplayUpload(h, d) \/ Reject(h, d)
  BY <1>0, <1>1 DEF ReplayUpload, Reject, Reviewable
<1>2. CASE \E d \in Docs : StartUpload(h, d) \/ CheckEdit(h, d)
  <2>1. /\ broker' = broker
        /\ handler[h].pc = "idle"
        /\ \E d, edit : \E pc \in {"creating", "editing"} :
              handler' = [handler EXCEPT ![h] = Request(pc, d, edit)]
    BY <1>2 DEF StartUpload, CheckEdit, Reviewable
  <2>. QED
    BY <1>0, <2>1 DEF Request
<1>3. ASSUME NEW d \in Docs, NEW invoice \in Invoices, doc[d].status = "needs_review",
             handler[h].pc \in {"idle", "editing"}, CommitApproval(h, d, invoice)
      PROVE  /\ broker' = broker
             /\ doc'[d].status = "approved"
             /\ handler[h].pc \notin Publishing
             /\ handler'[h].doc = d
             /\ handler'[h].pc \in Publishing
  <2>1. /\ broker' = broker
        /\ handler' = [handler EXCEPT ![h] = Request("resuming", d, None)]
        /\ doc' = [doc EXCEPT ![d] = [@ EXCEPT !.extraction = invoice,
                                               !.decision = "human_approve",
                                               !.status = "approved"]]
    BY <1>3 DEF CommitApproval
  <2>2. doc'[d].status = "approved"
    BY <2>1 DEF TypeOK, Rows
  <2>. QED
    BY <1>0, <1>3, <2>1, <2>2 DEF Request
<1>4. CASE (\E d \in Docs : Approve(h, d)) \/ ApproveEdited(h)
  <2>1. PICK d \in Docs, invoice \in Invoices :
           /\ doc[d].status = "needs_review"
           /\ handler[h].pc \in {"idle", "editing"}
           /\ CommitApproval(h, d, invoice)
    <3>1. CASE ApproveEdited(h)
      BY <3>1 DEF ApproveEdited, TransactionShape, EditShape
    <3>2. ASSUME NEW d \in Docs, Approve(h, d)
          PROVE  doc[d].extraction \in Invoices
      BY <3>2 DEF Approve, TypeOK, Rows
    <3>. QED
      BY <1>4, <3>1, <3>2 DEF Approve, Reviewable
  <2>. QED
    BY <1>0, <1>3, <2>1
<1>5. CASE CreateDocument(h)
  <2>1. /\ broker' = broker
        /\ handler[h].pc = "creating"
        /\ doc[handler[h].doc].status = "absent"
        /\ handler' = [handler EXCEPT ![h] = [@ EXCEPT !.pc = "enqueueing"]]
        /\ doc' = [doc EXCEPT ![handler[h].doc] = WithStatus(NoRow, "queued")]
    BY <1>5 DEF CreateDocument
  <2>2. /\ handler'[h].pc = "enqueueing"
        /\ handler'[h].doc = handler[h].doc
        /\ doc'[handler[h].doc].status = "queued"
    BY <1>0, <2>1 DEF Requests, WithStatus, NoRow, TypeOK
  <2>. QED
    BY <1>0, <2>1, <2>2
<1>6. CASE LoseUploadRace(h) \/ UploadEnqueueFails(h) \/ ResumeEnqueueFails(h)
           \/ ApiCrash(h)
  <2>1. /\ broker' = broker
        /\ handler' = [handler EXCEPT ![h] = IdleHandler]
        /\ handler[h].pc = "creating" \/ Faults \cap {"enqueue", "apiCrash"} # {}
    BY <1>6 DEF LoseUploadRace, UploadEnqueueFails, ResumeEnqueueFails, ApiCrash
  <2>. QED
    BY <1>0, <2>1 DEF IdleHandler
<1>7. CASE EnqueueUpload(h) \/ EnqueueResume(h)
  BY <1>0, <1>7 DEF EnqueueUpload, EnqueueResume, IdleHandler
<1>. QED
  BY <1>1, <1>2, <1>4, <1>5, <1>6, <1>7 DEF Api, UploadStep, ReviewStep

-----------------------------------------------------------------------------
(***************************************************************************)
(* No message is delivered twice.                                          *)
(***************************************************************************)
\* The broker keeps its messages until they are acknowledged, and no visibility
\* timeout passes before that.
DeliveredOnce == {"workerCrash", "redelivery"} \cap Faults = {}

AtMostOne(S) == \A x, y \in S : x = y

Carried(d) == Waiting(d) \cup Running(d) \cup Sending(d) # {}

CarriedOnce(d) ==
    /\ AtMostOne(Waiting(d)) /\ AtMostOne(Running(d)) /\ AtMostOne(Sending(d))
    /\ Waiting(d) = {} \/ Running(d) = {}
    /\ Waiting(d) = {} \/ Sending(d) = {}
    /\ Running(d) = {} \/ Sending(d) = {}

\* One carrier at most, of one message, and none while a reviewer has to act:
\* so the task of an approval meets no other.
OneCarrier ==
    /\ \A t \in Tasks : broker[t] <= 1
    /\ \A d \in Docs :
          /\ CarriedOnce(d)
          /\ Carried(d) => doc[d].status \notin {"absent", "needs_review"}

\* A worker's step drops a carrier or replaces it.
LEMMA WorkerCarries ==
    ASSUME Invariant, OneCarrier, DeliveredOnce, NEW w \in Workers,
           WorkerStep(w) \/ WorkerCrash(w) \/ Redeliver(w)
    PROVE  /\ \A t \in Tasks : broker'[t] <= 1
           /\ \A d \in Docs : CarriedOnce(d)' /\ (Carried(d)' => Carried(d))
<1>. USE DEF Waiting, Running, Sending, DocOf, Resting
<1>1. /\ broker \in [Tasks -> Nat]
      /\ \A t \in Tasks : t.doc \in Docs
      /\ \A v \in Workers : worker[v].pc # "idle" => DocOf(v) \in Docs
      /\ handler' = handler
      /\ \A v \in Workers : v # w => worker'[v] = worker[v]
  BY WorkerMoves DEF Invariant, TypeOK, Tasks, TransactionShape, Shape
<1>2. CASE /\ broker' = broker
           /\ worker'[w].pc \notin Resting =>
                 /\ worker[w].pc \notin Resting
                 /\ worker'[w].task = worker[w].task
  <2>1. ASSUME NEW d \in Docs
        PROVE  /\ Waiting(d)' = Waiting(d)
               /\ Running(d)' \subseteq Running(d)
               /\ Sending(d)' = Sending(d)
    BY <1>1, <1>2
  <2>. QED
    BY <1>2, <2>1 DEF OneCarrier, CarriedOnce, AtMostOne, Carried
<1>3. ASSUME NEW t \in Tasks,
             worker[w].pc = "idle",
             broker[t] > 0,
             broker' = [broker EXCEPT ![t] = @ - 1],
             worker'[w].pc = "received",
             worker'[w].task = t
      PROVE  /\ \A u \in Tasks : broker'[u] <= 1
             /\ \A d \in Docs : CarriedOnce(d)' /\ (Carried(d)' => Carried(d))
  <2>1. /\ \A u \in Tasks : broker'[u] <= 1 /\ broker'[u] <= broker[u]
        /\ broker'[t] = 0
    BY <1>1, <1>3 DEF OneCarrier
  <2>2. ASSUME NEW d \in Docs
        PROVE  /\ Waiting(d)' \subseteq Waiting(d) \ {t}
               /\ Running(d)' \subseteq IF d = t.doc THEN Running(d) \cup {w} ELSE Running(d)
               /\ Sending(d)' = Sending(d)
    BY <1>1, <1>3, <2>1
  <2>3. t \in Waiting(t.doc)
    BY <1>3
  <2>4. \A d \in Docs : CarriedOnce(d)
    BY DEF OneCarrier
  <2>5. \A d \in Docs : CarriedOnce(d)' /\ (Carried(d)' => Carried(d))
    BY <2>2, <2>3, <2>4 DEF CarriedOnce, AtMostOne, Carried
  <2>. QED
    BY <2>1, <2>5
<1>4. ASSUME NEW t \in Tasks,
             worker[w].pc = "retrying",
             t.doc = DocOf(w),
             broker' = [broker EXCEPT ![t] = @ + 1],
             worker'[w].pc = "done"
      PROVE  /\ \A u \in Tasks : broker'[u] <= 1
             /\ \A d \in Docs : CarriedOnce(d)' /\ (Carried(d)' => Carried(d))
  <2>1. ASSUME NEW d \in Docs
        PROVE  /\ Waiting(d)' \subseteq IF d = t.doc THEN Waiting(d) \cup {t} ELSE Waiting(d)
               /\ Running(d)' \subseteq Running(d) \ {w}
               /\ Sending(d)' = Sending(d)
    BY <1>1, <1>4
  <2>2. w \in Running(t.doc)
    BY <1>4
  <2>3. \A d \in Docs : CarriedOnce(d)
    BY DEF OneCarrier
  <2>4. \A d \in Docs : CarriedOnce(d)' /\ (Carried(d)' => Carried(d))
    BY <2>1, <2>2, <2>3 DEF CarriedOnce, AtMostOne, Carried
  <2>5. broker[t] = 0
    <3>1. t \notin Waiting(t.doc)
      BY <2>2, <2>3, <1>1 DEF CarriedOnce
    <3>. QED
      BY <3>1, <1>1
  <2>. QED
    BY <2>4, <2>5, <1>1, <1>4 DEF OneCarrier
<1>5. ~(WorkerCrash(w) \/ Redeliver(w))
  BY DEF DeliveredOnce, WorkerCrash, Redeliver
<1>. QED
  BY <1>2, <1>3, <1>4, <1>5, WorkerMoves

\* A request's step drops its carrier, publishes, or is the first to carry a
\* document that nothing carries.
LEMMA ApiCarries ==
    ASSUME Invariant, OneCarrier, NEW h \in Handlers, Api(h)
    PROVE  /\ \A t \in Tasks : broker'[t] <= 1
           /\ \A d \in Docs :
                 /\ CarriedOnce(d)'
                 /\ Carried(d)' => \/ Carried(d)
                                   \/ doc'[d].status \in {"queued", "approved"}
<1>. USE DEF Waiting, Running, Sending, DocOf, Publishing
<1>1. /\ broker \in [Tasks -> Nat]
      /\ \A t \in Tasks : t.doc \in Docs
      /\ worker' = worker
      /\ \A g \in Handlers : g # h => handler'[g] = handler[g]
      /\ \A g \in Handlers : handler[g].pc \in Publishing => handler[g].doc \in Docs
  BY ApiMoves DEF Invariant, TypeOK, Tasks, TaskNamesRow
<1>2. \A d \in Docs : CarriedOnce(d)
  BY DEF OneCarrier
<1>3. CASE /\ broker' = broker
           /\ handler'[h].pc \in Publishing => handler'[h] = handler[h]
  <2>1. ASSUME NEW d \in Docs
        PROVE  /\ Waiting(d)' = Waiting(d)
               /\ Running(d)' = Running(d)
               /\ Sending(d)' \subseteq Sending(d)
    BY <1>1, <1>3
  <2>. QED
    BY <1>2, <1>3, <2>1 DEF OneCarrier, CarriedOnce, AtMostOne, Carried
<1>4. ASSUME NEW e \in Docs,
             broker' = broker,
             doc[e].status \in {"absent", "needs_review"},
             doc'[e].status \in {"queued", "approved"},
             handler'[h].doc = e
      PROVE  /\ \A t \in Tasks : broker'[t] <= 1
             /\ \A d \in Docs :
                   /\ CarriedOnce(d)'
                   /\ Carried(d)' => \/ Carried(d)
                                     \/ doc'[d].status \in {"queued", "approved"}
  <2>1. ASSUME NEW d \in Docs
        PROVE  /\ Waiting(d)' = Waiting(d)
               /\ Running(d)' = Running(d)
               /\ Sending(d)' \subseteq IF d = e THEN Sending(d) \cup {h} ELSE Sending(d)
    BY <1>1, <1>4
  <2>2. ~Carried(e)
    BY <1>4 DEF OneCarrier
  <2>3. \A d \in Docs : CarriedOnce(d)' /\ (Carried(d)' => Carried(d) \/ d = e)
    BY <1>2, <2>1, <2>2 DEF CarriedOnce, AtMostOne, Carried
  <2>. QED
    BY <1>4, <2>3 DEF OneCarrier
<1>5. CASE /\ handler[h].pc \in Publishing
           /\ Enqueue(handler[h].doc)
           /\ handler'[h].pc = "idle"
  <2>1. PICK t \in Tasks : /\ t.doc = handler[h].doc
                           /\ broker' = [broker EXCEPT ![t] = @ + 1]
    <3>1. [doc |-> handler[h].doc, retries |-> 0] \in Tasks
      BY <1>1, <1>5, ConstantsAssumption DEF Tasks
    <3>. QED
      BY <1>5, <3>1 DEF Enqueue
  <2>2. ASSUME NEW d \in Docs
        PROVE  /\ Waiting(d)' \subseteq IF d = t.doc THEN Waiting(d) \cup {t} ELSE Waiting(d)
               /\ Running(d)' = Running(d)
               /\ Sending(d)' \subseteq Sending(d) \ {h}
    BY <1>1, <1>5, <2>1
  <2>3. h \in Sending(t.doc)
    BY <1>5, <2>1
  <2>4. \A d \in Docs : CarriedOnce(d)' /\ (Carried(d)' => Carried(d))
    BY <1>2, <2>2, <2>3 DEF CarriedOnce, AtMostOne, Carried
  <2>5. broker[t] = 0
    <3>1. t \notin Waiting(t.doc)
      BY <1>1, <1>2, <2>3 DEF CarriedOnce
    <3>. QED
      BY <3>1, <1>1
  <2>. QED
    BY <1>1, <2>1, <2>4, <2>5 DEF OneCarrier
<1>. QED
  BY <1>3, <1>4, <1>5, ApiMoves

\* Only a worker parks a document, and its task is done with that.
LEMMA Parking ==
    ASSUME Invariant, NEW w \in Workers,
           WorkerStep(w) \/ WorkerCrash(w) \/ Redeliver(w),
           NEW d \in Docs, doc[d].status # "needs_review",
           doc'[d].status = "needs_review"
    PROVE  /\ ParkUnreadable(w) \/ Park(w)
           /\ DocOf(w) = d
           /\ worker[w].pc \in {"extracting", "deciding"}
           /\ worker'[w].pc = "done"
<1>. USE DEF Invariant, At
<1>1. /\ doc'[d] # doc[d]
      /\ d = DocOf(w)
      /\ WorkerRow(d)
      /\ worker[w].pc # "idle" => worker[w].task \in Tasks
  BY WorkerRows DEF TransactionShape, Shape
<1>2. CASE ParkUnreadable(w) \/ Park(w)
  BY <1>1, <1>2, Moved DEF ParkUnreadable, Park, Commit
<1>3. CASE CommitSubmission(w)
  <2>1. /\ worker[w].pc = "committing"
        /\ doc' = [doc EXCEPT ![DocOf(w)] = worker[w].row]
    BY <1>3 DEF CommitSubmission, Commit
  <2>. QED
    BY <1>1, <2>1 DEF TransactionShape, Shape, TypeOK
<1>4. CASE RecordRetry(w) \/ MarkExhausted(w)
  <2>. DEFINE counted == [doc[d] EXCEPT !.retryCount = Retries(w) + 1]
  <2>1. \/ doc' = [doc EXCEPT ![d] = counted]
        \/ doc' = [doc EXCEPT ![d] = WithStatus(counted, "failed")]
        \/ doc' = doc
    BY <1>1, <1>4 DEF RecordRetry, MarkExhausted
  <2>2. counted.status = doc[d].status /\ WithStatus(counted, "failed").status = "failed"
    BY DEF TypeOK, Rows, WithStatus
  <2>. QED
    BY <1>1, <2>1, <2>2 DEF TypeOK
<1>5. CASE ~ \/ ParkUnreadable(w) \/ Park(w) \/ CommitSubmission(w)
             \/ RecordRetry(w) \/ MarkExhausted(w)
  <2>1. doc' = doc
    BY <1>5 DEF WorkerStep, Receive, SkipSettled, ClaimQueued, ClaimApproved, Claim,
       Extract, ProviderTransient, ExtractionFails, AutoApprove, ErpTransient,
       LookupUnanswered, CreateInvoice, SubmissionRefused, CreateUnanswered,
       CheckLedger, LedgerConflict, Retry, RetryPublishFails, DeadLetter,
       DeadLetterFails, Acknowledge, WorkerCrash, Redeliver, Rollback, store
  <2>. QED
    BY <1>1, <2>1
<1>. QED
  BY <1>2, <1>3, <1>4, <1>5

LEMMA OneCarrierKeeps ==
    ASSUME Invariant, OneCarrier, DeliveredOnce, [Next]_vars
    PROVE  OneCarrier'
<1>1. CASE UNCHANGED vars
  BY <1>1 DEF vars, OneCarrier, CarriedOnce, Carried, AtMostOne, Waiting, Running,
     Sending, DocOf
<1>2. ASSUME NEW h \in Handlers, Api(h)
      PROVE  OneCarrier'
  <2>1. ASSUME NEW d \in Docs, Carried(d)
        PROVE  doc'[d] = doc[d]
    <3>1. doc[d].status \notin {"absent", "needs_review"}
      BY <2>1 DEF OneCarrier
    <3>2. ~ApiRow(h, d)
      BY <3>1 DEF ApiRow
    <3>. QED
      BY <1>2, <3>2, ApiRows DEF Invariant
  <2>. QED
    BY <1>2, <2>1, ApiCarries DEF OneCarrier
<1>3. ASSUME NEW w \in Workers, WorkerStep(w) \/ WorkerCrash(w) \/ Redeliver(w)
      PROVE  OneCarrier'
  <2>1. ASSUME NEW d \in Docs, Carried(d)', doc'[d].status \in {"absent", "needs_review"}
        PROVE  FALSE
    <3>1. /\ Carried(d)
          /\ doc[d].status \notin {"absent", "needs_review"}
          /\ CarriedOnce(d)
      BY <1>3, <2>1, WorkerCarries DEF OneCarrier
    <3>2. doc'[d].status # "absent"
      BY <1>3, <3>1, WorkerRows DEF Invariant, WorkerRow, Parks, Fails, Counts, Submits
    <3>3. /\ ParkUnreadable(w) \/ Park(w)
          /\ DocOf(w) = d
          /\ worker[w].pc \in {"extracting", "deciding"}
          /\ worker'[w].pc = "done"
      BY <1>3, <2>1, <3>1, <3>2, Parking
    <3>4. /\ broker' = broker
          /\ handler' = handler
          /\ \A v \in Workers : v # w => worker'[v] = worker[v]
      BY <1>3, <3>3, WorkerMoves DEF ParkUnreadable, Park
    <3>5. Waiting(d)' = Waiting(d) /\ Sending(d)' = Sending(d)
      BY <3>4 DEF Waiting, Sending
    <3>6. Running(d)' \subseteq Running(d) \ {w} /\ w \in Running(d)
      BY <3>3, <3>4 DEF Running, DocOf
    <3>. QED
      BY <2>1, <3>1, <3>5, <3>6 DEF CarriedOnce, AtMostOne, Carried
  <2>. QED
    BY <1>3, <2>1, WorkerCarries DEF OneCarrier
<1>. QED
  BY <1>1, <1>2, <1>3 DEF Next

LEMMA OneCarrierInit == Init => OneCarrier
BY DEF Init, OneCarrier, CarriedOnce, Carried, AtMostOne, Waiting, Running, Sending,
   IdleWorker, IdleHandler

LEMMA OneCarrierInductive ==
    ASSUME DeliveredOnce
    PROVE  Spec => []OneCarrier
<1>1. Init => OneCarrier
  BY OneCarrierInit
<1>2. Invariant /\ OneCarrier /\ [Next]_vars => OneCarrier'
  BY OneCarrierKeeps
<1>. QED
  BY <1>1, <1>2, Inductive, PTL DEF Spec

\* A set whose elements are all the same has none or one.
LEMMA CardinalityOfOne ==
    ASSUME NEW S, AtMostOne(S)
    PROVE  Cardinality(S) = IF S = {} THEN 0 ELSE 1
<1>1. CASE S = {}
  BY <1>1, FS_EmptySet
<1>2. CASE S # {}
  <2>1. PICK x : S = {x}
    BY <1>2 DEF AtMostOne
  <2>. QED
    BY <2>1, FS_Singleton
<1>. QED
  BY <1>1, <1>2

\* If no message is delivered twice, a document never has two tasks at work
\* (process_document_task, its retries, and the enqueues of app.py), however
\* uploads race, requests die, publishes fail and attempts are retried.
THEOREM OneTaskPerDocument ==
    ASSUME DeliveredOnce
    PROVE  Spec => []SingleTask
<1>1. ASSUME Invariant, OneCarrier
      PROVE  SingleTask
  <2>. SUFFICES ASSUME NEW d \in Docs
                PROVE  Cardinality(Messages(d)) + Cardinality(Running(d))
                           + Cardinality(Sending(d)) <= 1
    BY DEF SingleTask
  <2>1. CarriedOnce(d) /\ \A t \in Tasks : broker[t] \in {0, 1}
    BY <1>1 DEF OneCarrier, Invariant, TypeOK
  \* One copy of one message.
  <2>2. \A copy \in Messages(d) : copy[1] \in Waiting(d) /\ copy = <<copy[1], 1>>
    BY <2>1, ConstantsAssumption DEF Messages, Waiting, MaxCopies
  <2>3. AtMostOne(Messages(d)) /\ (Waiting(d) = {} => Messages(d) = {})
    BY <2>1, <2>2 DEF CarriedOnce, AtMostOne
  <2>4. /\ Cardinality(Messages(d)) = IF Messages(d) = {} THEN 0 ELSE 1
        /\ Cardinality(Running(d)) = IF Running(d) = {} THEN 0 ELSE 1
        /\ Cardinality(Sending(d)) = IF Sending(d) = {} THEN 0 ELSE 1
    BY <2>1, <2>3, CardinalityOfOne DEF CarriedOnce
  <2>. QED
    BY <2>1, <2>3, <2>4 DEF CarriedOnce
<1>. QED
  BY <1>1, Inductive, OneCarrierInductive, PTL

-----------------------------------------------------------------------------
(***************************************************************************)
(* What the ERP has billed, beside what was decided.                       *)
(***************************************************************************)
Unbilled(d) == \A key \in erp : key[1] # d

AtErp == {"recording", "committing"}

\* Nothing carries d but a worker the ERP has answered.
Billing(d) ==
    /\ Waiting(d) = {} /\ Sending(d) = {}
    /\ \A w \in Running(d) : worker[w].pc \in AtErp

\* No invoice of a document nobody has approved, and of one a reviewer has
\* approved no other invoice than that.  A queued document is billed by the
\* attempt in progress, or by one that ended for good, with its task.
BilledAsDecided ==
    \A d \in Docs :
        /\ doc[d].status \in {"absent", "needs_review", "rejected"} => Unbilled(d)
        /\ doc[d].decision = "human_approve" =>
              \A key \in erp : key[1] = d => key[2] = doc[d].extraction.number
        /\ doc[d].status = "queued" => Unbilled(d) \/ Billing(d)

\* Once the ERP has answered, the attempt commits or ends for good.
LEMMA AtErpStays ==
    ASSUME Invariant, NEW w \in Workers, WorkerStep(w), worker[w].pc \in AtErp
    PROVE  /\ worker'[w].pc \in {"committing", "done"}
           /\ worker'[w].task = worker[w].task
           /\ broker' = broker
           /\ erp' = erp
<1>. USE DEF AtErp, At
<1>1. worker \in [Workers -> Workings]
  BY DEF Invariant, TypeOK
<1>2. CASE CheckLedger(w)
  BY <1>1, <1>2 DEF CheckLedger, Workings
<1>3. CASE CommitSubmission(w) \/ LedgerConflict(w)
  BY <1>3, Moved DEF CommitSubmission, LedgerConflict, Commit, Rollback, Invariant
<1>. QED
  BY <1>2, <1>3 DEF WorkerStep, Receive, SkipSettled, ClaimQueued, ClaimApproved,
     Claim, Extract, ParkUnreadable, ProviderTransient, ExtractionFails, AutoApprove,
     Park, ErpTransient, LookupUnanswered, CreateInvoice, SubmissionRefused,
     CreateUnanswered, RecordRetry, Retry, RetryPublishFails, MarkExhausted,
     DeadLetter, DeadLetterFails, Acknowledge

\* The create is sent for the one carrier of its document, and what it says of
\* an approved row is what the reviewer approved.
LEMMA Bills ==
    ASSUME Invariant, OneCarrier, NEW w \in Workers, WorkerStep(w), erp' # erp
    PROVE  /\ doc' = doc
           /\ handler' = handler
           /\ broker' = broker
           /\ \A v \in Workers : v # w => worker'[v] = worker[v]
           /\ \E d \in Docs :
                 /\ d = DocOf(w)
                 /\ erp' = erp \cup {<<d, Invoice(w).number>>}
                 /\ w \in Running(d)
                 /\ worker'[w].pc \in {"recording", "done"}
                 /\ worker'[w].task = worker[w].task
                 /\ \/ doc[d].status = "queued"
                    \/ /\ doc[d].status = "approved"
                       /\ Invoice(w).number = doc[d].extraction.number
<1>. USE DEF Invariant, At, DocOf, Invoice
<1>1. CreateInvoice(w) \/ CreateUnanswered(w)
  BY DEF WorkerStep, Receive, SkipSettled, ClaimQueued, ClaimApproved, Claim,
     Extract, ParkUnreadable, ProviderTransient, ExtractionFails, AutoApprove, Park,
     ErpTransient, LookupUnanswered, SubmissionRefused, CheckLedger,
     CommitSubmission, LedgerConflict, RecordRetry, Retry, RetryPublishFails,
     MarkExhausted, DeadLetter, DeadLetterFails, Acknowledge
<1>2. /\ doc' = doc
      /\ handler' = handler
      /\ broker' = broker
      /\ worker[w].pc = "submitting"
      /\ erp' = erp \cup {ErpKey(w)}
  BY <1>1 DEF CreateInvoice, CreateUnanswered, Rollback, store
<1>3. \A v \in Workers : v # w => worker'[v] = worker[v]
  BY WorkerMoves
<1>4. worker'[w].pc \in {"recording", "done"} /\ worker'[w].task = worker[w].task
  BY <1>1, Moved DEF CreateInvoice, CreateUnanswered, Rollback
<1>5. /\ DocOf(w) \in Docs
      /\ ReadyToSubmit(doc[DocOf(w)], worker[w].row)
  BY <1>2 DEF TransactionShape, Shape, Tasks
<1>. QED
  BY <1>2, <1>3, <1>4, <1>5 DEF ReadyToSubmit, ErpKey, Running

LEMMA WorkerBillsAsDecided ==
    ASSUME Invariant, OneCarrier, DeliveredOnce, BilledAsDecided, NEW w \in Workers,
           WorkerStep(w) \/ WorkerCrash(w) \/ Redeliver(w)
    PROVE  BilledAsDecided'
<1>. USE DEF DocOf
<1>0. WorkerStep(w)
  BY DEF DeliveredOnce, WorkerCrash, Redeliver
<1>. SUFFICES ASSUME NEW d \in Docs
              PROVE  /\ doc'[d].status \in {"absent", "needs_review", "rejected"} =>
                           Unbilled(d)'
                     /\ doc'[d].decision = "human_approve" =>
                           \A key \in erp' : key[1] = d => key[2] = doc'[d].extraction.number
                     /\ doc'[d].status = "queued" => Unbilled(d)' \/ Billing(d)'
  BY DEF BilledAsDecided
<1>1. CASE erp' # erp
  <2>1. PICK e \in Docs :
           /\ e = DocOf(w)
           /\ erp' = erp \cup {<<e, Invoice(w).number>>}
           /\ w \in Running(e)
           /\ worker'[w].pc \in {"recording", "done"}
           /\ worker'[w].task = worker[w].task
           /\ \/ doc[e].status = "queued"
              \/ /\ doc[e].status = "approved"
                 /\ Invoice(w).number = doc[e].extraction.number
    BY <1>0, <1>1, Bills
  <2>2. /\ doc' = doc
        /\ handler' = handler
        /\ broker' = broker
        /\ \A v \in Workers : v # w => worker'[v] = worker[v]
    BY <1>0, <1>1, Bills
  <2>3. Waiting(d)' = Waiting(d) /\ Sending(d)' = Sending(d)
    BY <2>2 DEF Waiting, Sending
  <2>4. CASE d = e
    <3>1. /\ CarriedOnce(d)
          /\ doc[d].status = "queued" => doc[d].decision = "none"
      BY DEF OneCarrier, Invariant, NoPartialWork
    <3>2. Billing(d)'
      BY <2>1, <2>2, <2>3, <2>4, <3>1
      DEF Billing, CarriedOnce, AtMostOne, Running, AtErp
    <3>. QED
      BY <2>1, <2>2, <2>4, <3>1, <3>2 DEF BilledAsDecided
  <2>5. CASE d # e
    <3>1. Running(d)' = Running(d) /\ w \notin Running(d)
      BY <2>1, <2>2, <2>5 DEF Running
    <3>2. Billing(d) => Billing(d)'
      BY <2>2, <2>3, <3>1 DEF Billing, Running
    <3>3. /\ Unbilled(d) => Unbilled(d)'
          /\ \A key \in erp' : key[1] = d => key \in erp
      BY <2>1, <2>5 DEF Unbilled
    <3>. QED
      BY <2>2, <3>2, <3>3 DEF BilledAsDecided
  <2>. QED
    BY <2>4, <2>5
<1>2. CASE erp' = erp
  <2>1. Unbilled(d)' <=> Unbilled(d)
    BY <1>2 DEF Unbilled
  <2>2. doc'[d] = doc[d] \/ (d = DocOf(w) /\ WorkerRow(d))
    BY <1>0, WorkerRows DEF Invariant
  <2>3. doc'[d].status \in {"absent", "needs_review", "rejected"} => Unbilled(d)
    <3>1. CASE doc'[d].status = doc[d].status
      BY <3>1 DEF BilledAsDecided
    <3>2. CASE doc'[d].status # doc[d].status /\ doc'[d].status = "needs_review"
      <4>1. w \in Running(d) /\ worker[w].pc \in {"extracting", "deciding"}
        BY <1>0, <3>2, Parking DEF Running
      <4>2. ~Billing(d)
        BY <4>1 DEF Billing, AtErp
      <4>3. doc[d].status = "queued"
        BY <2>2, <3>2 DEF WorkerRow, Parks, Fails, Counts, Submits
      <4>. QED
        BY <4>2, <4>3 DEF BilledAsDecided
    <3>3. CASE doc'[d].status # doc[d].status /\ doc'[d].status # "needs_review"
      BY <2>2, <3>3 DEF WorkerRow, Parks, Fails, Counts, Submits
    <3>. QED
      BY <3>1, <3>2, <3>3
  <2>4. doc'[d].decision = "human_approve" =>
           \A key \in erp' : key[1] = d => key[2] = doc'[d].extraction.number
    <3>1. CASE doc'[d].status = "needs_review"
      BY <1>2, <2>3, <3>1 DEF Unbilled
    <3>2. CASE doc'[d].status # "needs_review"
      BY <1>2, <2>2, <3>2 DEF BilledAsDecided, WorkerRow, Parks, Fails, Counts, Submits
    <3>. QED
      BY <3>1, <3>2
  <2>5. ASSUME doc'[d].status = "queued", ~Unbilled(d)
        PROVE  Billing(d)'
    <3>1. Billing(d)
      BY <2>2, <2>5 DEF BilledAsDecided, WorkerRow, Parks, Fails, Counts, Submits
    <3>2. CASE w \in Running(d)
      <4>1. /\ worker'[w].pc \in {"committing", "done"}
            /\ worker'[w].task = worker[w].task
            /\ broker' = broker
            /\ handler' = handler
            /\ \A v \in Workers : v # w => worker'[v] = worker[v]
        BY <1>0, <3>1, <3>2, AtErpStays, WorkerMoves DEF Billing
      <4>. QED
        BY <3>1, <3>2, <4>1 DEF Billing, Waiting, Sending, Running, AtErp
    <3>3. CASE w \notin Running(d)
      <4>1. /\ handler' = handler
            /\ \A v \in Workers : v # w => worker'[v] = worker[v]
            /\ \A t \in Waiting(d)' : t \in Waiting(d)
            /\ w \notin Running(d)'
        <5>1. broker \in [Tasks -> Nat]
          BY DEF Invariant, TypeOK
        <5>2. \A t \in Tasks : t.doc = d => broker[t] = 0
          BY <3>1, <5>1 DEF Billing, Waiting
        <5>. QED
          BY <1>0, <3>3, <5>1, <5>2, WorkerMoves, DeliveredOnce
          DEF Waiting, Running, Resting, DeliveredOnce, WorkerCrash, Redeliver
      <4>. QED
        BY <3>1, <4>1 DEF Billing, Waiting, Sending, Running
    <3>. QED
      BY <3>2, <3>3
  <2>. QED
    BY <2>1, <2>3, <2>4, <2>5
<1>. QED
  BY <1>1, <1>2

LEMMA ApiBillsAsDecided ==
    ASSUME Invariant, OneCarrier, BilledAsDecided, NEW h \in Handlers, Api(h)
    PROVE  BilledAsDecided'
<1>1. /\ erp' = erp
      /\ \/ doc' = doc
         \/ \E d \in Docs : /\ \A e \in Docs : e # d => doc'[e] = doc[e]
                            /\ ApiRow(h, d)
  BY ApiRows DEF Invariant
<1>. SUFFICES ASSUME NEW d \in Docs
              PROVE  /\ doc'[d].status \in {"absent", "needs_review", "rejected"} =>
                           Unbilled(d)'
                     /\ doc'[d].decision = "human_approve" =>
                           \A key \in erp' : key[1] = d => key[2] = doc'[d].extraction.number
                     /\ doc'[d].status = "queued" => Unbilled(d)' \/ Billing(d)'
  BY DEF BilledAsDecided
<1>2. Unbilled(d)' <=> Unbilled(d)
  BY <1>1 DEF Unbilled
<1>3. CASE doc'[d] # doc[d]
  <2>1. ApiRow(h, d)
    BY <1>1, <1>3
  <2>2. Unbilled(d)
    BY <2>1 DEF ApiRow, BilledAsDecided
  <2>. QED
    BY <1>1, <1>2, <2>2 DEF Unbilled
<1>4. CASE doc'[d] = doc[d]
  <2>1. ASSUME doc[d].status = "queued", Billing(d)
        PROVE  Billing(d)'
    <3>1. /\ worker' = worker
          /\ broker \in [Tasks -> Nat]
          /\ handler[h].pc \in Publishing => handler[h].doc # d
          /\ \A t \in Tasks : t.doc = d => broker[t] = 0
      BY <2>1, ApiMoves DEF Billing, Waiting, Sending, Publishing, Invariant, TypeOK
    <3>2. \A t \in Tasks : t.doc = d => broker'[t] = broker[t]
      <4>1. \/ broker' = broker
            \/ /\ handler[h].doc # d
               /\ Enqueue(handler[h].doc)
        BY <3>1, ApiMoves
      <4>2. CASE handler[h].doc # d /\ Enqueue(handler[h].doc)
        BY <3>1, <4>2 DEF Enqueue
      <4>. QED
        BY <4>1, <4>2
    <3>3. \A g \in Handlers : ~(handler'[g].pc \in Publishing /\ handler'[g].doc = d)
      BY <1>4, <2>1, <3>1, ApiMoves DEF Billing, Sending, Publishing
    <3>. QED
      BY <2>1, <3>1, <3>2, <3>3 DEF Billing, Waiting, Sending, Running, Publishing, DocOf
  <2>. QED
    BY <1>1, <1>2, <1>4, <2>1 DEF BilledAsDecided
<1>. QED
  BY <1>3, <1>4

\* Whatever attempts fail after the ERP was called, and whoever reviews
\* meanwhile: what the ERP has of a document is what was decided of it, if no
\* message is delivered twice (_submit_approved_invoice, approve_review).
THEOREM DecisionsAreBilled ==
    ASSUME DeliveredOnce
    PROVE  Spec => []BilledAsDecided
<1>1. Init => BilledAsDecided
  BY DEF Init, NoRow, BilledAsDecided, Unbilled
<1>2. ASSUME Invariant, OneCarrier, BilledAsDecided, [Next]_vars
      PROVE  BilledAsDecided'
  <2>1. CASE UNCHANGED vars
    BY <1>2, <2>1 DEF vars, BilledAsDecided, Unbilled, Billing, Waiting, Running,
       Sending, DocOf
  <2>. QED
    BY <1>2, <2>1, ApiBillsAsDecided, WorkerBillsAsDecided DEF Next
<1>. QED
  BY <1>1, <1>2, Inductive, OneCarrierInductive, PTL DEF Spec

-----------------------------------------------------------------------------
(***************************************************************************)
(* The last attempt fails.                                                 *)
(***************************************************************************)
\* One Celery process with one task at a time serves the queue: the worker is
\* started with --pool=solo (src/services/worker/Dockerfile:17).
OneWorker == \A v, w \in Workers : v = w

OneAtWork == \A d \in Docs : AtMostOne(Running(d))

\* Two ways to have no second task beside a document's own.
LEMMA TasksAreAlone ==
    ASSUME OneWorker \/ DeliveredOnce
    PROVE  Spec => []OneAtWork
<1>1. CASE OneWorker
  <2>1. OneAtWork
    BY <1>1 DEF OneWorker, OneAtWork, AtMostOne, Running
  <2>. QED
    BY <2>1, PTL
<1>2. CASE DeliveredOnce
  <2>1. OneCarrier => OneAtWork
    BY DEF OneCarrier, CarriedOnce, OneAtWork
  <2>. QED
    BY <1>2, <2>1, OneCarrierInductive, PTL
<1>. QED
  BY <1>1, <1>2

\* After a transient failure the document still waits for a worker, and the
\* attempt that gives up is the last one.  So no other attempt writes the
\* count of a failed row.
OnAttempt(w) ==
    /\ worker[w].pc \in {"transient", "retrying", "exhausted"} =>
          doc[DocOf(w)].status \in {"queued", "approved"}
    /\ At(w, "exhausted") => Retries(w) = MaxRetries

FailedLast(d) == doc[d].status = "failed" => doc[d].retryCount = MaxRetries + 1

AttemptsInOrder ==
    /\ \A w \in Workers : OnAttempt(w)
    /\ \A d \in Docs : FailedLast(d)

LEMMA WorkerKeepsOrder ==
    ASSUME Invariant, AttemptsInOrder, OneAtWork, NEW w \in Workers,
           WorkerStep(w) \/ WorkerCrash(w) \/ Redeliver(w)
    PROVE  AttemptsInOrder'
<1>. USE DEF At, DocOf, Retries, store
<1>. DEFINE Ahead == {"transient", "retrying", "exhausted"}
<1>1. /\ worker \in [Workers -> Workings]
      /\ doc \in [Docs -> Rows]
      /\ worker[w].pc # "idle" =>
            /\ DocOf(w) \in Docs
            /\ Retries(w) \in 0..MaxRetries
  BY DEF Invariant, TypeOK, TransactionShape, Shape, Tasks
\* Another worker's document is another document.
<1>2. SUFFICES OnAttempt(w)' /\ \A d \in Docs : FailedLast(d)'
  <2>. SUFFICES ASSUME NEW v \in Workers, v # w, worker[v].pc \in Ahead
                PROVE  OnAttempt(v)'
    BY WorkerMoves DEF AttemptsInOrder, OnAttempt
  <2>1. worker'[v] = worker[v] /\ DocOf(v) \in Docs
    BY WorkerMoves DEF Invariant, TransactionShape, Shape, Tasks
  <2>2. DocOf(v) = DocOf(w) => worker[w].pc \in Resting
    BY <2>1 DEF OneAtWork, AtMostOne, Running, Resting
  <2>3. worker[w].pc \in Resting => doc' = doc
    BY DEF Resting, WorkerStep, Receive, SkipSettled, ClaimQueued, ClaimApproved,
       Claim, Extract, ParkUnreadable, ProviderTransient, ExtractionFails,
       AutoApprove, Park, ErpTransient, LookupUnanswered, CreateInvoice,
       SubmissionRefused, CreateUnanswered, CheckLedger, CommitSubmission,
       LedgerConflict, RecordRetry, Retry, RetryPublishFails, MarkExhausted,
       DeadLetter, DeadLetterFails, Acknowledge, WorkerCrash, Redeliver
  <2>4. doc'[DocOf(v)] = doc[DocOf(v)]
    BY <2>1, <2>2, <2>3, WorkerRows DEF Invariant
  <2>. QED
    BY <2>1, <2>4 DEF AttemptsInOrder, OnAttempt
<1>3. OnAttempt(w) /\ \A d \in Docs : FailedLast(d)
  BY DEF AttemptsInOrder
\* Steps that change no row and leave nothing to know.
<1>4. ASSUME doc' = doc, worker'[w].pc \notin Ahead
      PROVE  OnAttempt(w)' /\ \A d \in Docs : FailedLast(d)'
  BY <1>3, <1>4 DEF OnAttempt, FailedLast
<1>5. CASE ProviderTransient(w) \/ ErpTransient(w)
  <2>1. /\ doc' = doc
        /\ worker'[w].pc = "transient"
        /\ worker'[w].task = worker[w].task
        /\ worker[w].pc \in {"extracting", "deciding", "submitting"}
    BY <1>5, Moved DEF ProviderTransient, ErpTransient, Rollback, Invariant
  <2>2. doc[DocOf(w)].status \in {"queued", "approved"}
    BY <2>1 DEF Invariant, TransactionShape, Shape, ReadyToSubmit
  <2>. QED
    BY <1>3, <2>1, <2>2 DEF OnAttempt, FailedLast
<1>6. CASE RecordRetry(w)
  <2>1. /\ doc' = [doc EXCEPT ![DocOf(w)].retryCount = Retries(w) + 1]
        /\ worker[w].pc = "transient"
        /\ worker'[w].pc = IF Retries(w) >= MaxRetries THEN "exhausted" ELSE "retrying"
        /\ worker'[w].task = worker[w].task
    BY <1>6, Moved DEF RecordRetry, Invariant
  <2>2. /\ doc'[DocOf(w)].status = doc[DocOf(w)].status
        /\ doc[DocOf(w)].status \in {"queued", "approved"}
        /\ \A d \in Docs : d # DocOf(w) => doc'[d] = doc[d]
    BY <1>1, <1>3, <2>1 DEF OnAttempt, Rows
  <2>3. worker'[w].pc = "exhausted" => Retries(w) = MaxRetries
    BY <1>1, <2>1, ConstantsAssumption
  <2>. QED
    BY <1>3, <2>1, <2>2, <2>3 DEF OnAttempt, FailedLast
<1>7. CASE MarkExhausted(w)
  <2>1. /\ worker[w].pc = "exhausted"
        /\ doc[DocOf(w)].status \in {"queued", "approved"}
        /\ Retries(w) = MaxRetries
    BY <1>3, <1>7 DEF MarkExhausted, OnAttempt
  <2>2. /\ TransitionAllowed(doc[DocOf(w)].status, "failed")
        /\ doc[DocOf(w)].status \notin TerminalStates
    BY <2>1 DEF TransitionAllowed, AllowedTransitions, TerminalStates
  <2>3. /\ doc' = [doc EXCEPT ![DocOf(w)] =
                      WithStatus([doc[DocOf(w)] EXCEPT !.retryCount = Retries(w) + 1],
                                 "failed")]
        /\ worker'[w].pc = "deadletter"
    BY <1>7, <2>2, Moved DEF MarkExhausted, Invariant
  <2>4. /\ doc'[DocOf(w)].retryCount = MaxRetries + 1
        /\ \A d \in Docs : d # DocOf(w) => doc'[d] = doc[d]
    BY <1>1, <2>1, <2>3 DEF Rows, WithStatus
  <2>. QED
    BY <1>3, <2>3, <2>4 DEF OnAttempt, FailedLast
<1>8. CASE ParkUnreadable(w) \/ Park(w) \/ CommitSubmission(w)
  <2>1. worker'[w].pc = "done"
    BY <1>8, Moved DEF ParkUnreadable, Park, CommitSubmission, Commit, Invariant
  <2>2. /\ \A d \in Docs : d # DocOf(w) => doc'[d] = doc[d]
        /\ doc'[DocOf(w)].status # "failed"
    <3>1. /\ DocOf(w) \in Docs
          /\ At(w, "committing") => worker[w].row.status = "submitted"
      BY <1>1, <1>8 DEF ParkUnreadable, Park, CommitSubmission, Invariant,
         TransactionShape, Shape
    <3>2. worker[w].row \in Rows
      BY <1>1 DEF Workings
    <3>3. CASE ParkUnreadable(w)
      BY <1>1, <3>1, <3>2, <3>3 DEF ParkUnreadable, Commit, WithStatus, Rows
    <3>4. CASE Park(w)
      BY <1>1, <3>1, <3>2, <3>4 DEF Park, Commit, Rows
    <3>5. CASE CommitSubmission(w)
      BY <1>1, <3>1, <3>5 DEF CommitSubmission, Commit
    <3>. QED
      BY <1>8, <3>3, <3>4, <3>5
  <2>. QED
    BY <1>3, <2>1, <2>2 DEF OnAttempt, FailedLast
<1>9. CASE Redeliver(w)
  <2>1. doc' = doc /\ ledger' = ledger /\ worker' = worker
    BY <1>9 DEF Redeliver
  <2>. QED
    BY <1>3, <2>1 DEF OnAttempt, FailedLast
<1>10. CASE Receive(w) \/ Acknowledge(w) \/ WorkerCrash(w) \/ CheckLedger(w)
  <2>1. doc' = doc
    BY <1>10 DEF Receive, Acknowledge, WorkerCrash, CheckLedger
  <2>2. worker'[w].pc \in {"received", "idle", "committing"}
    <3>1. CASE Receive(w)
      <4>1. PICK t \in Tasks :
               worker' = [worker EXCEPT ![w] = [@ EXCEPT !.pc = "received", !.task = t]]
        BY <3>1 DEF Receive
      <4>. QED
        BY <1>1, <4>1 DEF Workings
    <3>2. CASE CheckLedger(w)
      BY <1>1, <3>2 DEF CheckLedger, Workings
    <3>3. CASE Acknowledge(w) \/ WorkerCrash(w)
      <4>1. worker' = [worker EXCEPT ![w] = IdleWorker]
        BY <3>3 DEF Acknowledge, WorkerCrash
      <4>. QED
        BY <1>1, <4>1 DEF IdleWorker
    <3>. QED
      BY <1>10, <3>1, <3>2, <3>3
  <2>. QED
    BY <1>4, <2>1, <2>2
<1>11. CASE \/ SkipSettled(w) \/ ClaimQueued(w) \/ ClaimApproved(w) \/ Extract(w)
            \/ ExtractionFails(w) \/ AutoApprove(w) \/ LookupUnanswered(w)
            \/ CreateInvoice(w) \/ SubmissionRefused(w) \/ CreateUnanswered(w)
            \/ LedgerConflict(w) \/ Retry(w) \/ RetryPublishFails(w)
            \/ DeadLetter(w) \/ DeadLetterFails(w)
  <2>1. /\ doc' = doc
        /\ \E pc : /\ pc \notin Ahead
                   /\ \/ Goto(w, pc) \/ EndTransaction(w, pc)
                      \/ \E row : Continue(w, pc, row)
    BY <1>11 DEF SkipSettled, ClaimQueued, ClaimApproved, Claim, Extract,
       ExtractionFails, AutoApprove, LookupUnanswered, CreateInvoice,
       SubmissionRefused, CreateUnanswered, LedgerConflict, Retry,
       RetryPublishFails, DeadLetter, DeadLetterFails, Rollback
  <2>2. worker'[w].pc \notin Ahead
    BY <2>1, Moved DEF Invariant
  <2>. QED
    BY <1>4, <2>1, <2>2
<1>. QED
  BY <1>5, <1>6, <1>6, <1>7, <1>8, <1>9, <1>10, <1>11 DEF WorkerStep

LEMMA ApiKeepsOrder ==
    ASSUME Invariant, AttemptsInOrder, NEW h \in Handlers, Api(h)
    PROVE  AttemptsInOrder'
<1>1. /\ UNCHANGED worker
      /\ \/ doc' = doc
         \/ \E d \in Docs : /\ \A e \in Docs : e # d => doc'[e] = doc[e]
                            /\ ApiRow(h, d)
  BY ApiRows DEF Invariant
<1>2. \A d \in Docs :
         /\ doc[d].status \in {"queued", "approved"} => doc'[d] = doc[d]
         /\ doc'[d].status = "failed" => doc'[d] = doc[d]
  BY <1>1 DEF ApiRow
<1>3. \A w \in Workers : worker[w].pc # "idle" => DocOf(w) \in Docs
  BY DEF Invariant, TransactionShape, Shape, DocOf, Tasks
<1>4. ASSUME NEW w \in Workers
      PROVE  OnAttempt(w)'
  BY <1>1, <1>2, <1>3 DEF AttemptsInOrder, OnAttempt, At, DocOf, Retries
<1>. QED
  BY <1>2, <1>4 DEF AttemptsInOrder, FailedLast

LEMMA AttemptsStayInOrder ==
    ASSUME OneWorker \/ DeliveredOnce
    PROVE  Spec => []AttemptsInOrder
<1>1. Init => AttemptsInOrder
  BY DEF Init, AttemptsInOrder, OnAttempt, FailedLast, At, IdleWorker, NoRow
<1>2. ASSUME Invariant, AttemptsInOrder, OneAtWork, [Next]_vars
      PROVE  AttemptsInOrder'
  <2>1. CASE UNCHANGED vars
    BY <1>2, <2>1 DEF vars, AttemptsInOrder, OnAttempt, FailedLast, At, DocOf, Retries
  <2>. QED
    BY <1>2, <2>1, ApiKeepsOrder, WorkerKeepsOrder DEF Next
<1>. QED
  BY <1>1, <1>2, Inductive, TasksAreAlone, PTL DEF Spec

-----------------------------------------------------------------------------
(***************************************************************************)
(* One worker reads what it writes.                                        *)
(***************************************************************************)
\* A worker comes to its commit by the query alone.
LEMMA ComesToCommit ==
    ASSUME Invariant, [Next]_vars, NEW w \in Workers, At(w, "committing")'
    PROVE  worker'[w] = worker[w] \/ CheckLedger(w)
<1>. USE DEF At, Invariant
<1>1. /\ worker \in [Workers -> Workings]
      /\ worker'[w].pc = "committing"
  BY DEF TypeOK
<1>2. CASE UNCHANGED vars
  BY <1>2 DEF vars
<1>3. ASSUME NEW h \in Handlers, Api(h)
      PROVE  worker'[w] = worker[w]
  BY <1>3, ApiRows
<1>4. ASSUME NEW v \in Workers, WorkerStep(v) \/ WorkerCrash(v) \/ Redeliver(v)
      PROVE  worker'[w] = worker[w] \/ CheckLedger(w)
  <2>1. v # w => worker'[w] = worker[w]
    BY <1>4, WorkerMoves
  <2>. SUFFICES ASSUME v = w PROVE worker'[w] = worker[w] \/ CheckLedger(w)
    BY <2>1
  <2>2. CASE Receive(w)
    BY <1>1, <2>2 DEF Receive, Workings
  <2>3. CASE Acknowledge(w) \/ WorkerCrash(w)
    BY <1>1, <2>3 DEF Acknowledge, WorkerCrash, IdleWorker
  <2>4. CASE Redeliver(w)
    BY <2>4 DEF Redeliver
  <2>5. CASE ~ \/ Receive(w) \/ Acknowledge(w) \/ WorkerCrash(w)
               \/ Redeliver(w) \/ CheckLedger(w)
    <3>1. \E pc : /\ pc # "committing"
                  /\ \/ Goto(w, pc) \/ EndTransaction(w, pc)
                     \/ \E row : Continue(w, pc, row)
      BY <1>4, <2>5 DEF WorkerStep, SkipSettled, ClaimQueued, ClaimApproved, Claim,
         Extract, ParkUnreadable, ProviderTransient, ExtractionFails, AutoApprove,
         Park, ErpTransient, LookupUnanswered, CreateInvoice, SubmissionRefused,
         CreateUnanswered, CommitSubmission, LedgerConflict, RecordRetry, Retry,
         RetryPublishFails, MarkExhausted, DeadLetter, DeadLetterFails, Commit,
         Rollback
    <3>. QED
      BY <1>1, <3>1, Moved
  <2>. QED
    BY <2>2, <2>3, <2>4, <2>5
<1>. QED
  BY <1>2, <1>3, <1>4 DEF Next

\* The one worker inserts and nobody else does: whether its invoice's number is
\* recorded is at the commit as its query found it.
Current(w) ==
    At(w, "committing") => (worker[w].fresh <=> ~Recorded(Invoice(w).number))

WorkIsCurrent == \A w \in Workers : Current(w)

LEMMA WorkStaysCurrent ==
    ASSUME OneWorker
    PROVE  Spec => []WorkIsCurrent
<1>. USE DEF At, Invoice
<1>1. Init => WorkIsCurrent
  BY DEF Init, WorkIsCurrent, Current, IdleWorker
<1>2. ASSUME Invariant, WorkIsCurrent, [Next]_vars
      PROVE  WorkIsCurrent'
  <2>. SUFFICES ASSUME NEW w \in Workers, worker'[w].pc = "committing"
                PROVE  worker'[w].fresh <=> ~Recorded(Invoice(w).number)'
    BY DEF WorkIsCurrent, Current
  <2>1. CASE CheckLedger(w)
    <3>1. /\ worker[w] \in Workings
          /\ worker'[w] = [worker[w] EXCEPT !.pc = "committing",
                                    !.row = WithStatus(worker[w].row, "submitted"),
                                    !.fresh = ~Recorded(Invoice(w).number)]
          /\ ledger' = ledger
      BY <1>2, <2>1 DEF CheckLedger, store, Invariant, TypeOK
    <3>2. /\ worker'[w].row.extraction = worker[w].row.extraction
          /\ worker'[w].fresh = ~Recorded(Invoice(w).number)
      BY <3>1 DEF Workings, Rows, WithStatus
    <3>. QED
      BY <3>1, <3>2 DEF Recorded
  <2>2. CASE worker'[w] = worker[w] /\ ledger' = ledger
    BY <1>2, <2>2 DEF WorkIsCurrent, Current, Recorded
  <2>3. ledger' = ledger \/ \E v \in Workers : CommitSubmission(v)
    <3>1. ASSUME NEW h \in Handlers, Api(h)
          PROVE  ledger' = ledger
      BY <1>2, <3>1, ApiRows DEF Invariant
    <3>. QED
      BY <1>2, <3>1 DEF Next, vars, WorkerStep, Receive, SkipSettled, ClaimQueued,
         ClaimApproved, Claim, Extract, ParkUnreadable, ProviderTransient,
         ExtractionFails, AutoApprove, Park, ErpTransient, LookupUnanswered,
         CreateInvoice, SubmissionRefused, CreateUnanswered, CheckLedger,
         LedgerConflict, RecordRetry, Retry, RetryPublishFails, MarkExhausted,
         DeadLetter, DeadLetterFails, Acknowledge, WorkerCrash, Redeliver, Rollback,
         store
  <2>4. ~CommitSubmission(w)
    BY <1>2, Moved DEF CommitSubmission, Commit, Invariant
  <2>. QED
    BY <1>2, <2>1, <2>2, <2>3, <2>4, ComesToCommit DEF OneWorker
<1>. QED
  BY <1>1, <1>2, Inductive, PTL DEF Spec

-----------------------------------------------------------------------------
(***************************************************************************)
(* Every invoice is accounted for, or doubled.                             *)
(***************************************************************************)
\* The invoice is its document's own, submitted or in a worker's hands.
Accounted(key) ==
    \/ /\ doc[key[1]].status = "submitted"
       /\ doc[key[1]].extraction.number = key[2]
    \/ \E w \in Workers : worker[w].pc \in AtErp /\ ErpKey(w) = key

\* Its business number is recorded for another document.
Raced(key) ==
    \E entry \in ledger : entry.number = key[2] /\ entry.doc # key[1]

\* The only invoice nobody accounts for is one of a number recorded for another
\* document: when two workers submit a number at once, the unique constraint
\* of submitted_invoices stops the second after the ERP has been asked.
StrayIsDuplicate == \A key \in erp : Accounted(key) \/ Raced(key)

\* What is recorded stays recorded.
LEMMA LedgerGrows ==
    ASSUME Invariant, [Next]_vars
    PROVE  ledger \subseteq ledger'
<1>1. ASSUME NEW h \in Handlers, Api(h)
      PROVE  ledger \subseteq ledger'
  BY <1>1, ApiRows DEF Invariant
<1>2. ASSUME NEW w \in Workers, WorkerStep(w) \/ WorkerCrash(w) \/ Redeliver(w)
      PROVE  ledger \subseteq ledger'
  <2>1. UNCHANGED <<doc, ledger>> \/ WorkerRow(DocOf(w))
    BY <1>2, WorkerRows DEF Invariant
  <2>. QED
    BY <2>1 DEF WorkerRow
<1>. QED
  BY <1>1, <1>2 DEF Next, vars

\* A flush is refused only because of another document: its own row says that
\* it is not submitted, and the ledger records submitted documents only.
LEMMA ConflictIsRace ==
    ASSUME Invariant, NEW w \in Workers, LedgerConflict(w)
    PROVE  /\ DocOf(w) \in Docs
           /\ ErpKey(w) \in erp
           /\ Raced(ErpKey(w))
<1>. USE DEF At
<1>1. /\ worker[w].pc = "committing"
      /\ \E entry \in ledger : entry.number = Invoice(w).number
  BY DEF LedgerConflict, Recorded
<1>2. /\ DocOf(w) \in Docs
      /\ ErpKey(w) \in erp
      /\ doc[DocOf(w)].status # "submitted"
  BY <1>1 DEF Invariant, TransactionShape, Shape, ReadyToSubmit, Tasks, DocOf
<1>3. \A entry \in ledger : doc[entry.doc].status = "submitted"
  BY DEF Invariant, LedgerAgrees
<1>. QED
  BY <1>1, <1>2, <1>3 DEF Raced, ErpKey

\* A worker's step accounts for the invoice it creates and for those that were
\* accounted for; only a refused flush lets go of one.
LEMMA AccountStays ==
    ASSUME {"workerCrash", "erpTransport"} \cap Faults = {}, Invariant,
           NEW w \in Workers, WorkerStep(w) \/ WorkerCrash(w) \/ Redeliver(w),
           NEW key \in erp', key \in erp => Accounted(key)
    PROVE  Accounted(key)' \/ (LedgerConflict(w) /\ key = ErpKey(w))
<1>1. /\ worker \in [Workers -> Workings]
      /\ erp \subseteq Docs \X Numbers
      /\ \A v \in Workers : v # w => worker'[v] = worker[v]
  BY WorkerMoves DEF Invariant, TypeOK
<1>2. CASE key \notin erp
  <2>1. CreateInvoice(w)
    BY <1>2 DEF WorkerStep, Receive, SkipSettled, ClaimQueued, ClaimApproved,
       Claim, Extract, ParkUnreadable, ProviderTransient, ExtractionFails,
       AutoApprove, Park, ErpTransient, LookupUnanswered, SubmissionRefused,
       CreateUnanswered, CheckLedger, CommitSubmission, LedgerConflict, RecordRetry,
       Retry, RetryPublishFails, MarkExhausted, DeadLetter, DeadLetterFails,
       Acknowledge, WorkerCrash, Redeliver
  <2>2. key = ErpKey(w) /\ Goto(w, "recording")
    BY <1>2, <2>1 DEF CreateInvoice
  <2>3. worker'[w].pc = "recording" /\ ErpKey(w)' = ErpKey(w)
    BY <2>2, Moved DEF Invariant, ErpKey, DocOf, Invoice
  <2>. QED
    BY <2>2, <2>3 DEF Accounted, AtErp
<1>3. CASE worker[w].pc \in AtErp /\ ErpKey(w) = key
  <2>. USE DEF At, AtErp, ErpKey, DocOf, Invoice
  <2>1. CASE Redeliver(w)
    BY <1>3, <2>1 DEF Redeliver, Accounted
  <2>2. CASE CheckLedger(w)
    <3>1. worker'[w] = [worker[w] EXCEPT !.pc = "committing",
                                         !.row = WithStatus(worker[w].row, "submitted"),
                                         !.fresh = ~Recorded(Invoice(w).number)]
      BY <1>1, <2>2 DEF CheckLedger
    <3>2. /\ worker'[w].pc = "committing"
          /\ worker'[w].task = worker[w].task
          /\ worker'[w].row.extraction = worker[w].row.extraction
      BY <1>1, <3>1 DEF Workings, Rows, WithStatus
    <3>. QED
      BY <1>3, <3>2 DEF Accounted
  <2>3. CASE CommitSubmission(w)
    <3>1. /\ worker[w].pc = "committing"
          /\ doc' = [doc EXCEPT ![DocOf(w)] = worker[w].row]
      BY <2>3 DEF CommitSubmission, Commit
    <3>2. DocOf(w) \in Docs /\ worker[w].row.status = "submitted"
      BY <3>1 DEF Invariant, TransactionShape, Shape, Tasks
    <3>3. doc'[DocOf(w)] = worker[w].row
      BY <3>1, <3>2 DEF Invariant, TypeOK
    <3>. QED
      BY <1>3, <3>2, <3>3 DEF Accounted
  <2>. QED
    BY <1>3, <2>1, <2>2, <2>3
    DEF WorkerStep, Receive, SkipSettled, ClaimQueued, ClaimApproved,
       Claim, Extract, ParkUnreadable, ProviderTransient, ExtractionFails,
       AutoApprove, Park, ErpTransient, LookupUnanswered, CreateInvoice,
       SubmissionRefused, CreateUnanswered, RecordRetry,
       Retry, RetryPublishFails, MarkExhausted, DeadLetter, DeadLetterFails,
       Acknowledge, WorkerCrash
<1>4. CASE \E v \in Workers : v # w /\ worker[v].pc \in AtErp /\ ErpKey(v) = key
  BY <1>1, <1>4 DEF Accounted, ErpKey, DocOf, Invoice
<1>5. CASE /\ key \in erp
           /\ doc[key[1]].status = "submitted"
           /\ doc[key[1]].extraction.number = key[2]
  <2>1. key[1] \in Docs
    BY <1>1, <1>5
  <2>2. doc'[key[1]] = doc[key[1]] \/ WorkerRow(key[1])
    BY <2>1, WorkerRows DEF Invariant
  <2>. QED
    BY <1>5, <2>2 DEF Accounted, WorkerRow, Parks, Fails, Counts, Submits
<1>. QED
  BY <1>2, <1>3, <1>4, <1>5 DEF Accounted

\* A request leaves accounts as they are.
LEMMA ApiAccounts ==
    ASSUME Invariant, NEW h \in Handlers, Api(h)
    PROVE  erp' = erp /\ \A key \in erp : Accounted(key) => Accounted(key)'
<1>1. /\ UNCHANGED <<erp, worker>>
      /\ \/ doc' = doc
         \/ \E d \in Docs : /\ \A e \in Docs : e # d => doc'[e] = doc[e]
                            /\ ApiRow(h, d)
      /\ erp \subseteq Docs \X Numbers
  BY ApiRows DEF Invariant, TypeOK
<1>2. \A d \in Docs : doc[d].status = "submitted" => doc'[d] = doc[d]
  BY <1>1 DEF ApiRow
<1>3. \A key \in erp : key[1] \in Docs
  BY <1>1
<1>. QED
  BY <1>1, <1>2, <1>3 DEF Accounted, ErpKey, DocOf, Invoice

LEMMA AccountsStutter ==
    ASSUME UNCHANGED vars
    PROVE  erp' = erp /\ \A key : Accounted(key)' = Accounted(key)
BY DEF vars, Accounted, ErpKey, DocOf, Invoice

\* The ERP holds no invoice nobody accounts for (_submit_approved_invoice): one
\* worker that does not crash, and no call to the ERP without an answer.
THEOREM EveryInvoiceAccounted ==
    ASSUME OneWorker, {"workerCrash", "erpTransport"} \cap Faults = {}
    PROVE  Spec => []NoStrayInvoice
<1>1. NoStrayInvoice <=> \A key \in erp : Accounted(key)
  BY DEF NoStrayInvoice, Accounted, AtErp
<1>2. NoStrayInvoice' <=> \A key \in erp' : Accounted(key)'
  BY DEF NoStrayInvoice, Accounted, AtErp
<1>3. Init => NoStrayInvoice
  BY DEF Init, NoStrayInvoice
<1>4. ASSUME Invariant, WorkIsCurrent, NoStrayInvoice, [Next]_vars
      PROVE  NoStrayInvoice'
  <2>. SUFFICES ASSUME NEW key \in erp'
                PROVE  Accounted(key)'
    BY <1>2
  <2>1. \A old \in erp : Accounted(old)
    BY <1>1, <1>4
  \* Its number is recorded by nobody else.
  <2>2. \A w \in Workers : ~LedgerConflict(w)
    BY <1>4 DEF LedgerConflict, WorkIsCurrent, Current
  <2>3. CASE UNCHANGED vars
    BY <2>1, <2>3, AccountsStutter
  <2>. QED
    BY <1>4, <2>1, <2>2, <2>3, AccountStays, ApiAccounts DEF Next
<1>. QED
  BY <1>3, <1>4, Inductive, WorkStaysCurrent, PTL DEF Spec

\* With several workers the ERP's only strays are invoices of a number that is
\* recorded for another document, as a race for the unique constraint leaves
\* them (_submit_approved_invoice); no worker crashes and the ERP answers.
THEOREM StraysAreDuplicates ==
    ASSUME {"workerCrash", "erpTransport"} \cap Faults = {}
    PROVE  Spec => []StrayIsDuplicate
<1>1. Init => StrayIsDuplicate
  BY DEF Init, StrayIsDuplicate
<1>2. ASSUME Invariant, StrayIsDuplicate, [Next]_vars
      PROVE  StrayIsDuplicate'
  <2>. SUFFICES ASSUME NEW key \in erp'
                PROVE  Accounted(key)' \/ Raced(key)'
    BY DEF StrayIsDuplicate
  <2>1. Raced(key) => Raced(key)'
    BY <1>2, LedgerGrows DEF Raced
  <2>2. CASE key \in erp /\ Raced(key)
    BY <2>1, <2>2
  <2>3. CASE key \in erp => Accounted(key)
    <3>1. ASSUME NEW w \in Workers, LedgerConflict(w), key = ErpKey(w)
          PROVE  Raced(key)
      BY <1>2, <3>1, ConflictIsRace
    <3>2. CASE UNCHANGED vars
      BY <2>3, <3>2, AccountsStutter
    <3>. QED
      BY <1>2, <2>1, <2>3, <3>1, <3>2, AccountStays, ApiAccounts DEF Next
  <2>. QED
    BY <1>2, <2>2, <2>3 DEF StrayIsDuplicate
<1>. QED
  BY <1>1, <1>2, Inductive, PTL DEF Spec

-----------------------------------------------------------------------------
(***************************************************************************)
(* The numbers of submitted documents.                                     *)
(***************************************************************************)
\* A document becomes submitted by the commit of its worker's copy; later its
\* invoice and its decision stay.
LEMMA Submitting ==
    ASSUME Invariant, [Next]_vars, NEW d \in Docs, doc'[d].status = "submitted"
    PROVE  \/ /\ doc[d].status = "submitted"
              /\ doc'[d].extraction = doc[d].extraction
              /\ doc'[d].decision = doc[d].decision
           \/ \E w \in Workers :
                 /\ CommitSubmission(w)
                 /\ DocOf(w) = d
                 /\ doc'[d] = worker[w].row
<1>. USE DEF Invariant
<1>1. CASE UNCHANGED vars
  BY <1>1 DEF vars
<1>2. ASSUME NEW h \in Handlers, Api(h)
      PROVE  doc'[d] = doc[d]
  BY <1>2, ApiRows DEF ApiRow
<1>3. ASSUME NEW w \in Workers, WorkerStep(w) \/ WorkerCrash(w) \/ Redeliver(w),
             doc'[d] # doc[d]
      PROVE  \/ /\ doc[d].status = "submitted"
                /\ doc'[d].extraction = doc[d].extraction
                /\ doc'[d].decision = doc[d].decision
             \/ /\ CommitSubmission(w)
                /\ DocOf(w) = d
                /\ doc'[d] = worker[w].row
  <2>1. d = DocOf(w) /\ WorkerRow(d)
    BY <1>3, WorkerRows
  <2>2. CASE CommitSubmission(w)
    BY <2>1, <2>2 DEF CommitSubmission, Commit, TypeOK
  <2>3. CASE ParkUnreadable(w) \/ Park(w)
    <3>1. At(w, "extracting") \/ At(w, "deciding")
      BY <2>3 DEF ParkUnreadable, Park
    <3>2. worker[w].row \in Rows
      BY DEF TypeOK, Workings
    <3>3. doc' = [doc EXCEPT ![d] = WithStatus(worker[w].row, "needs_review")]
          \/ doc' = [doc EXCEPT ![d] = [worker[w].row EXCEPT !.status = "needs_review",
                                                             !.decision = "needs_review"]]
      BY <2>1, <2>3 DEF ParkUnreadable, Park, Commit
    <3>. QED
      BY <3>2, <3>3 DEF WithStatus, Rows, TypeOK
  <2>4. CASE RecordRetry(w) \/ MarkExhausted(w)
    <3>. DEFINE counted == [doc[d] EXCEPT !.retryCount = Retries(w) + 1]
    <3>1. \/ doc' = [doc EXCEPT ![d] = counted]
          \/ doc' = [doc EXCEPT ![d] = WithStatus(counted, "failed")]
          \/ doc' = doc
      BY <2>1, <2>4 DEF RecordRetry, MarkExhausted
    <3>2. /\ counted.status = doc[d].status
          /\ counted.extraction = doc[d].extraction
          /\ counted.decision = doc[d].decision
          /\ WithStatus(counted, "failed").status = "failed"
      BY DEF TypeOK, Rows, WithStatus
    <3>. QED
      BY <1>3, <3>1, <3>2 DEF TypeOK
  <2>5. CASE ~ \/ ParkUnreadable(w) \/ Park(w) \/ CommitSubmission(w)
               \/ RecordRetry(w) \/ MarkExhausted(w)
    BY <1>3, <2>5 DEF WorkerStep, Receive, SkipSettled, ClaimQueued, ClaimApproved,
       Claim, Extract, ProviderTransient, ExtractionFails, AutoApprove, ErpTransient,
       LookupUnanswered, CreateInvoice, SubmissionRefused, CreateUnanswered,
       CheckLedger, LedgerConflict, Retry, RetryPublishFails, DeadLetter,
       DeadLetterFails, Acknowledge, WorkerCrash, Redeliver, Rollback, store
  <2>. QED
    BY <2>2, <2>3, <2>4, <2>5
<1>. QED
  BY <1>1, <1>2, <1>3 DEF Next

\* Whoever submits a number, it is recorded, for the document itself or for the
\* one that was first.
NumbersAreRecorded ==
    \A d \in Docs :
        doc[d].status = "submitted" => Recorded(doc[d].extraction.number)

\* What CheckLedger found recorded still is at the commit.
FoundStays ==
    \A w \in Workers :
        At(w, "committing") /\ ~worker[w].fresh => Recorded(Invoice(w).number)

\* A submitted document's number is in submitted_invoices, for it or for the
\* document that recorded it first: any number of workers, every fault
\* (_submit_approved_invoice inserts unless its query found the number).
THEOREM SubmissionsAreRecorded == Spec => []NumbersAreRecorded
<1>1. Init => NumbersAreRecorded /\ FoundStays
  BY DEF Init, NumbersAreRecorded, FoundStays, At, NoRow, IdleWorker
<1>2. ASSUME Invariant, NumbersAreRecorded, FoundStays, [Next]_vars
      PROVE  NumbersAreRecorded' /\ FoundStays'
  <2>1. \A number : Recorded(number) => Recorded(number)'
    BY <1>2, LedgerGrows DEF Recorded
  <2>2. ASSUME NEW d \in Docs, doc'[d].status = "submitted"
        PROVE  Recorded(doc[d].extraction.number)'
    <3>1. CASE /\ doc[d].status = "submitted"
               /\ doc'[d].extraction = doc[d].extraction
      BY <1>2, <2>1, <3>1 DEF NumbersAreRecorded
    <3>2. ASSUME NEW w \in Workers, CommitSubmission(w), DocOf(w) = d,
                 doc'[d] = worker[w].row
          PROVE  Recorded(doc[d].extraction.number)'
      BY <1>2, <2>1, <3>2 DEF CommitSubmission, FoundStays, Recorded, Invoice
    <3>. QED
      BY <1>2, <2>2, <3>1, <3>2, Submitting
  <2>3. ASSUME NEW w \in Workers, At(w, "committing")', ~worker'[w].fresh
        PROVE  Recorded(worker[w].row.extraction.number)'
    <3>1. CASE worker'[w] = worker[w]
      BY <1>2, <2>1, <2>3, <3>1 DEF FoundStays, At, Invoice
    <3>2. CASE CheckLedger(w)
      <4>1. worker[w] \in Workings
            /\ worker'[w] = [worker[w] EXCEPT !.pc = "committing",
                                    !.row = WithStatus(worker[w].row, "submitted"),
                                    !.fresh = ~Recorded(Invoice(w).number)]
        BY <1>2, <3>2 DEF CheckLedger, Invariant, TypeOK
      <4>2. /\ worker'[w].row.extraction = Invoice(w)
            /\ worker'[w].fresh = ~Recorded(Invoice(w).number)
        BY <4>1 DEF Workings, Rows, WithStatus, Invoice
      <4>. QED
        BY <2>1, <2>3, <4>2
    <3>. QED
      BY <1>2, <2>3, <3>1, <3>2, ComesToCommit
  <2>. QED
    BY <2>2, <2>3 DEF NumbersAreRecorded, FoundStays, Invoice
<1>. QED
  BY <1>1, <1>2, Inductive, PTL DEF Spec

\* While the one worker submits an invoice nobody has reviewed, its number is
\* still as free as the duplicate query of the decision found it.
FreeToSubmit(w) ==
    /\ worker[w].pc \in {"submitting", "recording", "committing"}
    /\ worker[w].row.decision = "auto_approve"
    => ~Recorded(Invoice(w).number)

\* A worker's copy is an invoice to submit once it is approved or claimed so.
LEMMA FreeStays ==
    ASSUME Invariant, OneWorker, [Next]_vars, \A w \in Workers : FreeToSubmit(w),
           NEW w \in Workers
    PROVE  FreeToSubmit(w)'
<1>. USE DEF At, Invariant, DocOf, Invoice, store
<1>. DEFINE Submission == {"submitting", "recording", "committing"}
<1>1. /\ worker \in [Workers -> Workings]
      /\ worker[w].row \in Rows
      /\ FreeToSubmit(w)
  BY DEF TypeOK, Workings
<1>2. SUFFICES ASSUME worker'[w].pc \in Submission,
                      worker'[w].row.decision = "auto_approve"
               PROVE  ~Recorded(worker[w].row.extraction.number)'
  BY DEF FreeToSubmit
<1>3. CASE UNCHANGED <<worker, ledger>>
  BY <1>1, <1>2, <1>3 DEF FreeToSubmit, Recorded
<1>4. CASE \E h \in Handlers : Api(h)
  BY <1>3, <1>4, ApiRows
<1>5. ASSUME NEW v \in Workers, WorkerStep(v) \/ WorkerCrash(v) \/ Redeliver(v)
      PROVE  ~Recorded(worker[w].row.extraction.number)'
  <2>0. v = w
    BY DEF OneWorker
  <2>1. CASE Receive(w) \/ Acknowledge(w) \/ WorkerCrash(w)
    <3>1. CASE Receive(w)
      <4>1. PICK t \in Tasks :
               worker' = [worker EXCEPT ![w] = [@ EXCEPT !.pc = "received", !.task = t]]
        BY <3>1 DEF Receive
      <4>. QED
        BY <1>1, <1>2, <4>1 DEF Workings
    <3>2. CASE Acknowledge(w) \/ WorkerCrash(w)
      <4>1. worker' = [worker EXCEPT ![w] = IdleWorker]
        BY <3>2 DEF Acknowledge, WorkerCrash
      <4>. QED
        BY <1>1, <1>2, <4>1 DEF IdleWorker
    <3>. QED
      BY <2>1, <3>1, <3>2
  <2>2. CASE Redeliver(w)
    BY <1>3, <2>2 DEF Redeliver
  <2>3. CASE ClaimApproved(w)
    <3>1. /\ Continue(w, "submitting", doc[DocOf(w)])
          /\ doc[DocOf(w)].status = "approved"
          /\ worker[w].pc = "received"
      BY <2>3 DEF ClaimApproved, Claim
    <3>2. worker'[w].row = doc[DocOf(w)]
      BY <1>1, <3>1 DEF Continue, Workings
    <3>3. DocOf(w) \in Docs
      BY <3>1 DEF TransactionShape, Shape, Tasks
    <3>. QED
      BY <1>2, <3>1, <3>2, <3>3 DEF ApprovedByHuman
  <2>4. CASE AutoApprove(w)
    <3>. DEFINE row == [worker[w].row EXCEPT !.status = "approved",
                                             !.decision = "auto_approve"]
    <3>1. /\ Continue(w, "submitting", row)
          /\ ledger' = ledger
          /\ ~Recorded(Invoice(w).number)
      BY <2>4 DEF AutoApprove, Approvable
    <3>2. worker'[w].row = row
      BY <1>1, <3>1 DEF Continue, Workings
    <3>3. worker'[w].row.extraction = worker[w].row.extraction
      BY <1>1, <3>2 DEF Rows
    <3>. QED
      BY <3>1, <3>3 DEF Recorded
  <2>5. CASE CreateInvoice(w)
    <3>1. /\ worker'[w].row = worker[w].row
          /\ ledger' = ledger
          /\ worker[w].pc = "submitting"
      BY <2>5, Moved DEF CreateInvoice
    <3>. QED
      BY <1>1, <1>2, <3>1 DEF FreeToSubmit, Recorded
  <2>6. CASE CheckLedger(w)
    <3>1. /\ worker'[w] = [worker[w] EXCEPT !.pc = "committing",
                                    !.row = WithStatus(worker[w].row, "submitted"),
                                    !.fresh = ~Recorded(Invoice(w).number)]
          /\ ledger' = ledger
          /\ worker[w].pc = "recording"
      BY <1>1, <2>6 DEF CheckLedger
    <3>2. /\ worker'[w].row.extraction = worker[w].row.extraction
          /\ worker'[w].row.decision = worker[w].row.decision
      BY <1>1, <3>1 DEF Workings, Rows, WithStatus
    <3>. QED
      BY <1>1, <1>2, <3>1, <3>2 DEF FreeToSubmit, Recorded
  <2>7. CASE ~ \/ Receive(w) \/ Acknowledge(w) \/ WorkerCrash(w) \/ Redeliver(w)
               \/ ClaimApproved(w) \/ AutoApprove(w) \/ CreateInvoice(w)
               \/ CheckLedger(w)
    <3>1. \E pc : /\ pc \notin Submission
                  /\ \/ Goto(w, pc) \/ EndTransaction(w, pc)
                     \/ \E row : Continue(w, pc, row)
      BY <1>5, <2>0, <2>7 DEF WorkerStep, SkipSettled, ClaimQueued, Claim, Extract,
         ParkUnreadable, ProviderTransient, ExtractionFails, Park, ErpTransient,
         LookupUnanswered, SubmissionRefused, CreateUnanswered, CommitSubmission,
         LedgerConflict, RecordRetry, Retry, RetryPublishFails, MarkExhausted,
         DeadLetter, DeadLetterFails, Commit, Rollback
    <3>2. worker'[w].pc \notin Submission
      BY <3>1, Moved
    <3>. QED
      BY <1>2, <3>2
  <2>. QED
    BY <2>1, <2>2, <2>3, <2>4, <2>5, <2>6, <2>7
<1>. QED
  BY <1>3, <1>4, <1>5 DEF Next, vars

\* One worker submits a second invoice under a recorded number only if a
\* reviewer approved it (the duplicate_business check of process_document and
\* its use in validate_invoice), under every fault.
THEOREM SecondSubmissionsAreReviewed ==
    ASSUME OneWorker
    PROVE  Spec => []DuplicatesAreReviewed
<1>. DEFINE Free == \A w \in Workers : FreeToSubmit(w)
<1>1. Init => DuplicatesAreReviewed /\ Free
  BY DEF Init, DuplicatesAreReviewed, FreeToSubmit, NoRow, IdleWorker
<1>2. ASSUME Invariant, WorkIsCurrent, DuplicatesAreReviewed, Free, [Next]_vars
      PROVE  DuplicatesAreReviewed' /\ Free'
  <2>1. Free'
    BY <1>2, FreeStays
  <2>2. ledger \subseteq ledger'
    BY <1>2, LedgerGrows
  <2>3. ASSUME NEW d \in Docs, doc'[d].status = "submitted"
        PROVE  \E entry \in ledger' :
                  /\ entry.number = doc'[d].extraction.number
                  /\ entry.doc = d \/ doc'[d].decision = "human_approve"
    <3>1. CASE /\ doc[d].status = "submitted"
               /\ doc'[d].extraction = doc[d].extraction
               /\ doc'[d].decision = doc[d].decision
      BY <1>2, <2>2, <3>1 DEF DuplicatesAreReviewed
    <3>2. ASSUME NEW w \in Workers, CommitSubmission(w), DocOf(w) = d,
                 doc'[d] = worker[w].row
          PROVE  \E entry \in ledger' :
                    /\ entry.number = doc'[d].extraction.number
                    /\ entry.doc = d \/ doc'[d].decision = "human_approve"
      <4>. USE DEF At, Invoice
      <4>1. CASE worker[w].fresh
        <5>. DEFINE entry == [doc |-> d, number |-> Invoice(w).number]
        <5>1. entry \in ledger'
          BY <3>2, <4>1 DEF CommitSubmission
        <5>2. entry.number = doc'[d].extraction.number /\ entry.doc = d
          BY <3>2
        <5>. QED
          BY <5>1, <5>2
      <4>2. CASE ~worker[w].fresh
        <5>1. worker[w].pc = "committing"
          BY <3>2 DEF CommitSubmission
        <5>2. PICK entry \in ledger : entry.number = Invoice(w).number
          BY <1>2, <4>2, <5>1 DEF WorkIsCurrent, Current, Recorded
        <5>3. worker[w].row.decision # "auto_approve"
          BY <1>2, <5>1, <5>2 DEF FreeToSubmit, Recorded
        <5>4. worker[w].row.decision = "human_approve"
          BY <1>2, <3>2, <5>1, <5>3
          DEF Invariant, TransactionShape, Shape, ReadyToSubmit, ApprovedByHuman
        <5>. QED
          BY <2>2, <3>2, <5>2, <5>4
      <4>. QED
        BY <4>1, <4>2
    <3>. QED
      BY <1>2, <2>3, <3>1, <3>2, Submitting
  <2>. QED
    BY <2>1, <2>3 DEF DuplicatesAreReviewed
<1>. QED
  BY <1>1, <1>2, Inductive, WorkStaysCurrent, PTL DEF Spec

-----------------------------------------------------------------------------
(***************************************************************************)
(* No work is lost.                                                        *)
(***************************************************************************)
\* Every publish and every call is answered, and requests end as they should.
Answering ==
    {"enqueue", "apiCrash", "pdf", "providerFatal", "erpTransport"} \cap Faults = {}

\* The ERP takes it: it has a supplier the ERP knows.
Taken(invoice) == invoice \in Invoices => invoice.grade \in {"clean", "flawed"}

\* Whatever is read has a supplier the ERP knows.
ReadingsTaken == \A d \in Docs : \A invoice \in Readings[d] : Taken(invoice)

AllTaken ==
    /\ \A d \in Docs : Taken(doc[d].extraction)
    /\ \A w \in Workers : Taken(worker[w].row.extraction)
    /\ \A h \in Handlers : Taken(handler[h].edit)

Waits(d) == doc[d].status \in {"queued", "approved"}

WaitingIsCarried == \A d \in Docs : Waits(d) => Carried(d)

\* Where the invoice of a row, of a worker's copy and of a request come from.
LEMMA WorkerReads ==
    ASSUME Invariant, NEW w \in Workers,
           WorkerStep(w) \/ WorkerCrash(w) \/ Redeliver(w)
    PROVE  /\ \A d \in Docs : doc'[d].extraction \in
                 {doc[d].extraction, worker[w].row.extraction}
           /\ \/ worker'[w].row.extraction \in {None, worker[w].row.extraction}
              \/ /\ DocOf(w) \in Docs
                 /\ worker'[w].row.extraction \in
                       {doc[DocOf(w)].extraction} \cup Readings[DocOf(w)]
<1>. USE DEF store
<1>1. /\ worker \in [Workers -> Workings]
      /\ doc \in [Docs -> Rows]
      /\ worker[w].row \in Rows
      /\ \A d \in Docs : doc[d] \in Rows
      /\ worker[w].pc # "idle" => DocOf(w) \in Docs
  BY DEF Invariant, TypeOK, TransactionShape, Shape, Tasks, DocOf, Workings
\* The records a step leaves, one way to move at a time.
<1>2. ASSUME NEW pc, Goto(w, pc) \/ EndTransaction(w, pc)
      PROVE  worker'[w].row.extraction \in {None, worker[w].row.extraction}
  <2>1. CASE Goto(w, pc)
    BY <2>1, Moved DEF Invariant
  <2>2. CASE EndTransaction(w, pc)
    <3>1. worker'[w] = [IdleWorker EXCEPT !.pc = pc, !.task = worker[w].task]
      BY <1>1, <2>2 DEF EndTransaction
    <3>2. worker'[w].row = NoRow
      BY <3>1 DEF IdleWorker
    <3>. QED
      BY <3>2 DEF NoRow
  <2>. QED
    BY <1>2, <2>1, <2>2
<1>3. CASE Receive(w)
  <2>1. PICK t \in Tasks :
           worker' = [worker EXCEPT ![w] = [@ EXCEPT !.pc = "received", !.task = t]]
    BY <1>3 DEF Receive
  <2>2. doc' = doc
    BY <1>3 DEF Receive
  <2>3. worker'[w].row = worker[w].row
    BY <1>1, <2>1 DEF Workings
  <2>. QED
    BY <2>2, <2>3
<1>4. CASE ClaimQueued(w) \/ ClaimApproved(w)
  <2>1. doc' = doc /\ DocOf(w) \in Docs
    BY <1>1, <1>4 DEF ClaimQueued, ClaimApproved, Claim, At
  <2>2. PICK pc, row : /\ Continue(w, pc, row)
                       /\ \/ row = doc[DocOf(w)]
                          \/ row = WithStatus(doc[DocOf(w)], "processing")
    BY <1>4 DEF ClaimQueued, ClaimApproved, Claim
  <2>3. worker'[w].row = row
    BY <2>2, Moved DEF Invariant
  <2>4. \/ worker'[w].row = doc[DocOf(w)]
        \/ worker'[w].row = WithStatus(doc[DocOf(w)], "processing")
    BY <2>2, <2>3
  <2>5. WithStatus(doc[DocOf(w)], "processing").extraction = doc[DocOf(w)].extraction
    BY <1>1, <2>1 DEF WithStatus, Rows
  <2>. QED
    BY <2>1, <2>4, <2>5
<1>5. CASE Extract(w)
  <2>1. /\ doc' = doc
        /\ worker[w].pc = "extracting"
        /\ DocOf(w) \in Docs
    BY <1>1, <1>5 DEF Extract, At
  <2>2. PICK invoice \in Readings[DocOf(w)] :
           Continue(w, "deciding",
                    [worker[w].row EXCEPT !.status = "extracted",
                                          !.extraction = invoice])
    BY <1>5 DEF Extract
  <2>. DEFINE row == [worker[w].row EXCEPT !.status = "extracted",
                                           !.extraction = invoice]
  <2>3. row.extraction = invoice
    BY <1>1 DEF Rows
  <2>4. Continue(w, "deciding", row)
    BY <2>2
  <2>. HIDE DEF row
  <2>5. worker'[w].row = row
    BY <2>4, Moved DEF Invariant
  <2>. QED
    BY <2>1, <2>3, <2>5
<1>6. CASE AutoApprove(w)
  <2>. DEFINE row == [worker[w].row EXCEPT !.status = "approved",
                                           !.decision = "auto_approve"]
  <2>1. doc' = doc /\ Continue(w, "submitting", row)
    BY <1>6 DEF AutoApprove
  <2>2. row.extraction = worker[w].row.extraction
    BY <1>1 DEF Rows
  <2>. HIDE DEF row
  <2>3. worker'[w].row = row
    BY <2>1, Moved DEF Invariant
  <2>. QED
    BY <2>1, <2>2, <2>3
<1>7. CASE CheckLedger(w)
  <2>1. /\ doc' = doc
        /\ worker'[w] = [worker[w] EXCEPT !.pc = "committing",
                                          !.row = WithStatus(worker[w].row, "submitted"),
                                          !.fresh = ~Recorded(Invoice(w).number)]
    BY <1>1, <1>7 DEF CheckLedger
  <2>. QED
    BY <1>1, <2>1 DEF Workings, WithStatus, Rows
<1>8. CASE RecordRetry(w) \/ MarkExhausted(w)
  <2>1. /\ DocOf(w) \in Docs
        /\ \E pc : Goto(w, pc)
        /\ \/ doc' = doc
           \/ doc' = [doc EXCEPT ![DocOf(w)].retryCount = Retries(w) + 1]
           \/ doc' = [doc EXCEPT ![DocOf(w)] =
                         [@ EXCEPT !.retryCount = Retries(w) + 1]]
           \/ doc' = [doc EXCEPT ![DocOf(w)] =
                         WithStatus([@ EXCEPT !.retryCount = Retries(w) + 1], "failed")]
    BY <1>1, <1>8 DEF RecordRetry, MarkExhausted, At
  <2>2. \A d \in Docs : doc'[d].extraction = doc[d].extraction
    <3>1. CASE doc' = doc
      BY <3>1
    <3>2. CASE doc' = [doc EXCEPT ![DocOf(w)].retryCount = Retries(w) + 1]
      BY <1>1, <2>1, <3>2 DEF Rows
    <3>3. CASE doc' = [doc EXCEPT ![DocOf(w)] =
                         [@ EXCEPT !.retryCount = Retries(w) + 1]]
      BY <1>1, <2>1, <3>3 DEF Rows
    <3>4. CASE doc' = [doc EXCEPT ![DocOf(w)] =
                         WithStatus([@ EXCEPT !.retryCount = Retries(w) + 1], "failed")]
      BY <1>1, <2>1, <3>4 DEF WithStatus, Rows
    <3>. QED
      BY <2>1, <3>1, <3>2, <3>3, <3>4
  <2>. QED
    BY <1>2, <2>1, <2>2
<1>9. CASE ParkUnreadable(w) \/ Park(w) \/ CommitSubmission(w)
  <2>1. PICK row : Commit(w, row) /\ row.extraction = worker[w].row.extraction
    <3>1. WithStatus(worker[w].row, "needs_review").extraction = worker[w].row.extraction
      BY <1>1 DEF WithStatus, Rows
    <3>2. [worker[w].row EXCEPT !.status = "needs_review",
                                !.decision = "needs_review"].extraction
             = worker[w].row.extraction
      BY <1>1 DEF Rows
    <3>. QED
      BY <1>9, <3>1, <3>2 DEF ParkUnreadable, Park, CommitSubmission
  <2>2. EndTransaction(w, "done") /\ doc' = [doc EXCEPT ![DocOf(w)] = row]
    BY <2>1 DEF Commit
  <2>3. \A d \in Docs : doc'[d] = doc[d] \/ doc'[d] = row
    BY <1>1, <2>2
  <2>. QED
    BY <1>2, <2>1, <2>2, <2>3
<1>10. CASE Acknowledge(w) \/ WorkerCrash(w)
  <2>1. doc' = doc /\ worker' = [worker EXCEPT ![w] = IdleWorker]
    BY <1>10 DEF Acknowledge, WorkerCrash
  <2>. QED
    BY <1>1, <2>1 DEF IdleWorker, NoRow
<1>11. CASE Redeliver(w)
  BY <1>11 DEF Redeliver
<1>12. CASE \/ SkipSettled(w) \/ CreateInvoice(w) \/ Retry(w)
            \/ RetryPublishFails(w) \/ DeadLetter(w) \/ DeadLetterFails(w)
            \/ ProviderTransient(w) \/ ErpTransient(w) \/ ExtractionFails(w)
            \/ LookupUnanswered(w) \/ SubmissionRefused(w) \/ CreateUnanswered(w)
            \/ LedgerConflict(w)
  <2>1. doc' = doc /\ \E pc : Goto(w, pc) \/ EndTransaction(w, pc)
    BY <1>12 DEF SkipSettled, CreateInvoice, Retry, RetryPublishFails, DeadLetter,
       DeadLetterFails, ProviderTransient, ErpTransient, ExtractionFails,
       LookupUnanswered, SubmissionRefused, CreateUnanswered, LedgerConflict, Rollback
  <2>. QED
    BY <1>2, <2>1
<1>. QED
  BY <1>3, <1>4, <1>5, <1>6, <1>7, <1>8, <1>9, <1>10, <1>11, <1>12 DEF WorkerStep

\* Every invoice that is read, typed, worked on or recorded is one the ERP
\* takes.
LEMMA TakenStays ==
    ASSUME ReadingsTaken, Invariant, AllTaken, [Next]_vars
    PROVE  AllTaken'
<1>1. CASE UNCHANGED vars
  BY <1>1 DEF AllTaken, vars
<1>2. ASSUME NEW w \in Workers, WorkerStep(w) \/ WorkerCrash(w) \/ Redeliver(w)
      PROVE  AllTaken'
  <2>1. /\ handler' = handler
        /\ \A v \in Workers : v # w => worker'[v] = worker[v]
    BY <1>2, WorkerMoves
  <2>2. Taken(None)
    BY ConstantsAssumption DEF Taken
  <2>3. \A d \in Docs : Taken(doc'[d].extraction)
    BY <1>2, WorkerReads DEF AllTaken
  <2>4. Taken(worker'[w].row.extraction)
    BY <1>2, <2>2, WorkerReads DEF AllTaken, ReadingsTaken
  <2>. QED
    BY <2>1, <2>3, <2>4 DEF AllTaken
<1>3. ASSUME NEW h \in Handlers, Api(h)
      PROVE  AllTaken'
  <2>1. /\ worker' = worker
        /\ \A g \in Handlers : g # h => handler'[g] = handler[g]
        /\ handler \in [Handlers -> Requests]
        /\ doc \in [Docs -> Rows]
        /\ Taken(None)
    BY <1>3, ApiMoves, ConstantsAssumption DEF Invariant, TypeOK, Taken
  <2>2. ASSUME NEW d \in Docs, NEW invoice, Taken(invoice), CommitApproval(h, d, invoice)
        PROVE  Taken(handler'[h].edit) /\ \A e \in Docs : Taken(doc'[e].extraction)
    <3>1. handler' = [handler EXCEPT ![h] = Request("resuming", d, None)]
      BY <2>2 DEF CommitApproval
    <3>2. handler'[h].edit = None
      BY <2>1, <3>1 DEF Request
    <3>3. doc' = [doc EXCEPT ![d] = [@ EXCEPT !.extraction = invoice,
                                              !.decision = "human_approve",
                                              !.status = "approved"]]
      BY <2>2 DEF CommitApproval
    <3>4. \A e \in Docs : doc'[e].extraction \in {doc[e].extraction, invoice}
      BY <2>1, <3>3 DEF Rows
    <3>. QED
      BY <2>1, <2>2, <3>2, <3>4 DEF AllTaken
  <2>3. CASE (\E d \in Docs : Approve(h, d)) \/ ApproveEdited(h)
    <3>1. \E d \in Docs : \E invoice : Taken(invoice) /\ CommitApproval(h, d, invoice)
      <4>1. CASE ApproveEdited(h)
        BY <4>1 DEF ApproveEdited, AllTaken, Invariant, TransactionShape, EditShape
      <4>. QED
        BY <2>3, <4>1 DEF Approve, AllTaken
    <3>. QED
      BY <2>1, <2>2, <3>1 DEF AllTaken
  <2>4. CASE \E d \in Docs : CheckEdit(h, d)
    <3>1. doc' = doc
      BY <2>4 DEF CheckEdit
    <3>2. PICK d \in Docs, invoice \in Edits :
             /\ invoice.grade = "clean"
             /\ handler' = [handler EXCEPT ![h] = Request("editing", d, invoice)]
      BY <2>4 DEF CheckEdit
    <3>3. handler'[h].edit = invoice
      BY <2>1, <3>2 DEF Request
    <3>. QED
      BY <2>1, <3>1, <3>2, <3>3 DEF AllTaken, Taken
  <2>5. CASE \E d \in Docs : Reject(h, d)
    <3>1. /\ handler' = handler
          /\ \E d \in Docs : doc' = [doc EXCEPT ![d] = [@ EXCEPT !.decision = "rejected",
                                                                !.status = "rejected"]]
      BY <2>5 DEF Reject
    <3>2. \A e \in Docs : doc'[e].extraction = doc[e].extraction
      BY <2>1, <3>1 DEF Rows
    <3>. QED
      BY <2>1, <3>1, <3>2 DEF AllTaken
  <2>6. CASE CreateDocument(h)
    <3>1. /\ handler' = [handler EXCEPT ![h] = [@ EXCEPT !.pc = "enqueueing"]]
          /\ doc' = [doc EXCEPT ![handler[h].doc] = WithStatus(NoRow, "queued")]
      BY <2>6 DEF CreateDocument
    <3>2. handler'[h].edit = handler[h].edit
      BY <2>1, <3>1 DEF Requests
    <3>3. \A e \in Docs : doc'[e].extraction \in {doc[e].extraction, None}
      BY <2>1, <3>1 DEF WithStatus, NoRow
    <3>. QED
      BY <2>1, <3>2, <3>3 DEF AllTaken
  <2>7. CASE \E d \in Docs : StartUpload(h, d)
    <3>1. doc' = doc
      BY <2>7 DEF StartUpload, store
    <3>2. \E d \in Docs : handler' = [handler EXCEPT ![h] = Request("creating", d, None)]
      BY <2>7 DEF StartUpload
    <3>3. handler'[h].edit = None
      BY <2>1, <3>2 DEF Request
    <3>. QED
      BY <2>1, <3>1, <3>3 DEF AllTaken
  <2>8. CASE \/ LoseUploadRace(h) \/ EnqueueUpload(h) \/ UploadEnqueueFails(h)
             \/ EnqueueResume(h) \/ ResumeEnqueueFails(h) \/ ApiCrash(h)
    <3>1. doc' = doc /\ handler' = [handler EXCEPT ![h] = IdleHandler]
      BY <2>8 DEF LoseUploadRace, EnqueueUpload, UploadEnqueueFails, EnqueueResume,
         ResumeEnqueueFails, ApiCrash, store
    <3>2. handler'[h].edit = None
      BY <2>1, <3>1 DEF IdleHandler
    <3>. QED
      BY <2>1, <3>1, <3>2 DEF AllTaken
  <2>9. CASE \E d \in Docs : ReplayUpload(h, d)
    BY <2>9 DEF ReplayUpload, AllTaken, store
  <2>. QED
    BY <1>3, <2>3, <2>4, <2>5, <2>6, <2>7, <2>8, <2>9 DEF Api, UploadStep, ReviewStep
<1>. QED
  BY <1>1, <1>2, <1>3 DEF Next

\* A task ends without a successor only if its document has moved on, or its
\* flush was refused.
LEMMA EndsWithItsWork ==
    ASSUME Answering, Invariant, AllTaken, NEW w \in Workers,
           WorkerStep(w), worker[w].pc \notin Resting, worker'[w].pc \in Resting,
           broker' = broker, ~LedgerConflict(w)
    PROVE  doc'[DocOf(w)].status \notin {"queued", "approved"}
<1>. USE DEF At, DocOf, Resting, Answering
<1>1. /\ worker \in [Workers -> Workings]
      /\ doc \in [Docs -> Rows]
      /\ worker[w].row \in Rows
      /\ worker[w].task \in Tasks
      /\ DocOf(w) \in Docs
  BY DEF Invariant, TypeOK, TransactionShape, Shape, Tasks, Workings
<1>2. worker'[w].pc \in {"idle", "done"}
  OBVIOUS
<1>3. CASE SkipSettled(w) \/ DeadLetter(w) \/ DeadLetterFails(w)
  <2>1. doc[DocOf(w)].status \in WorkerNoopStates /\ doc' = doc
    BY <1>1, <1>3 DEF SkipSettled, DeadLetter, DeadLetterFails, Invariant,
       DeadLetterAfterTheEnd, WorkerNoopStates, store
  <2>2. worker'[w].task = worker[w].task
    BY <1>3, Moved DEF SkipSettled, DeadLetter, DeadLetterFails, Invariant
  <2>. QED
    BY <2>1, <2>2 DEF WorkerNoopStates, TerminalStates
<1>4. CASE ParkUnreadable(w) \/ Park(w) \/ CommitSubmission(w)
  <2>1. PICK row : Commit(w, row) /\ row.status \in {"needs_review", "submitted"}
    <3>1. WithStatus(worker[w].row, "needs_review").status = "needs_review"
      BY <1>1 DEF WithStatus, Rows
    <3>2. [worker[w].row EXCEPT !.status = "needs_review",
                                !.decision = "needs_review"].status = "needs_review"
      BY <1>1 DEF Rows
    <3>3. CommitSubmission(w) => worker[w].row.status = "submitted"
      BY DEF CommitSubmission, Invariant, TransactionShape, Shape
    <3>. QED
      BY <1>4, <3>1, <3>2, <3>3 DEF ParkUnreadable, Park, CommitSubmission
  <2>2. worker'[w].task = worker[w].task
    BY <2>1, Moved DEF Commit, Invariant
  <2>3. doc'[DocOf(w)] = row
    BY <1>1, <2>1 DEF Commit
  <2>. QED
    BY <2>1, <2>2, <2>3
<1>5. CASE MarkExhausted(w)
  <2>1. CASE doc[DocOf(w)].status \in {"queued", "approved"}
    <3>1. TransitionAllowed(doc[DocOf(w)].status, "failed")
      BY <2>1 DEF TransitionAllowed, AllowedTransitions
    <3>2. worker'[w].pc = "deadletter"
      BY <1>5, <3>1, Moved DEF MarkExhausted, Invariant
    <3>. QED
      BY <1>2, <3>2
  <2>2. CASE doc[DocOf(w)].status \notin {"queued", "approved"}
    <3>1. doc'[DocOf(w)].status \notin {"queued", "approved"}
      <4>1. doc'[DocOf(w)] = doc[DocOf(w)] \/ WorkerRow(DocOf(w))
        BY <1>1, WorkerRows DEF Invariant
      <4>. QED
        BY <2>2, <4>1 DEF WorkerRow, Parks, Fails, Counts, Submits
    <3>2. worker'[w].task = worker[w].task
      BY <1>5, Moved DEF MarkExhausted, Invariant
    <3>. QED
      BY <3>1, <3>2
  <2>. QED
    BY <2>1, <2>2
\* The ERP takes what was read.
<1>6. ~SubmissionRefused(w)
  <2>1. ASSUME SubmissionRefused(w)
        PROVE  FALSE
    <3>1. Invoice(w) \in Invoices /\ Taken(Invoice(w))
      BY <2>1 DEF SubmissionRefused, Invariant, TransactionShape, Shape,
         ReadyToSubmit, AllTaken, Invoice
    <3>. QED
      BY <2>1, <3>1 DEF SubmissionRefused, Billable, Taken
  <2>. QED
    BY <2>1
<1>7. ~Acknowledge(w) /\ ~Receive(w)
  BY DEF Acknowledge, Receive
<1>8. ~Retry(w)
  <2>1. ASSUME Retry(w)
        PROVE  FALSE
    <3>. DEFINE next == [doc |-> DocOf(w), retries |-> Retries(w) + 1]
    <3>1. broker' = [broker EXCEPT ![next] = @ + 1] /\ worker[w].pc = "retrying"
      BY <2>1 DEF Retry
    <3>2. next \in Tasks
      BY <1>1, <3>1, ConstantsAssumption DEF Invariant, TransactionShape, Shape,
         Retries, Tasks
    <3>3. broker \in [Tasks -> Nat]
      BY DEF Invariant, TypeOK
    <3>. HIDE DEF next
    <3>. QED
      BY <3>1, <3>2, <3>3
  <2>. QED
    BY <2>1
<1>9. CASE CheckLedger(w)
  BY <1>1, <1>2, <1>9 DEF CheckLedger, Workings
\* Every other step leads to a step before the end.
<1>10. CASE \/ ClaimQueued(w) \/ ClaimApproved(w) \/ Extract(w) \/ AutoApprove(w)
            \/ ProviderTransient(w) \/ ErpTransient(w) \/ CreateInvoice(w)
            \/ RecordRetry(w)
  <2>1. \E pc \in WorkerSteps \ Resting :
           \/ Goto(w, pc) \/ EndTransaction(w, pc) \/ \E row : Continue(w, pc, row)
    BY <1>10 DEF ClaimQueued, ClaimApproved, Claim, Extract, AutoApprove,
       ProviderTransient, ErpTransient, CreateInvoice, RecordRetry, Rollback,
       WorkerSteps, InTransaction
  <2>. QED
    BY <1>2, <2>1, Moved DEF Invariant
<1>. QED
  BY <1>3, <1>4, <1>5, <1>6, <1>7, <1>8, <1>9, <1>10
  DEF WorkerStep, ExtractionFails, LookupUnanswered, CreateUnanswered,
      RetryPublishFails

\* A request that makes a document wait is about to publish its task.
LEMMA BeginsWithItsWork ==
    ASSUME Invariant, NEW h \in Handlers, Api(h), NEW d \in Docs,
           Waits(d)', ~Waits(d)
    PROVE  handler'[h].pc \in Publishing /\ handler'[h].doc = d
<1>. USE DEF Waits, Publishing, store
<1>1. handler \in [Handlers -> Requests] /\ doc \in [Docs -> Rows]
  BY DEF Invariant, TypeOK
<1>2. CASE (\E e \in Docs : Approve(h, e)) \/ ApproveEdited(h)
  <2>1. PICK e, invoice : CommitApproval(h, e, invoice)
    BY <1>2 DEF Approve, ApproveEdited
  <2>2. d = e
    BY <1>1, <2>1 DEF CommitApproval
  <2>3. handler' = [handler EXCEPT ![h] = Request("resuming", e, None)]
    BY <2>1 DEF CommitApproval
  <2>. QED
    BY <1>1, <2>2, <2>3 DEF Request
<1>3. CASE \E e \in Docs : Reject(h, e)
  <2>1. PICK e \in Docs : doc' = [doc EXCEPT ![e] = [@ EXCEPT !.decision = "rejected",
                                                            !.status = "rejected"]]
    BY <1>3 DEF Reject
  <2>2. doc'[e].status = "rejected" /\ \A f \in Docs : f # e => doc'[f] = doc[f]
    BY <1>1, <2>1 DEF Rows
  <2>. QED
    BY <2>2
<1>4. CASE CreateDocument(h)
  <2>1. /\ doc' = [doc EXCEPT ![handler[h].doc] = WithStatus(NoRow, "queued")]
        /\ handler' = [handler EXCEPT ![h] = [@ EXCEPT !.pc = "enqueueing"]]
    BY <1>4 DEF CreateDocument
  <2>2. d = handler[h].doc
    BY <1>1, <2>1
  <2>. QED
    BY <1>1, <2>1, <2>2 DEF Requests
<1>. QED
  BY <1>2, <1>3, <1>4 DEF Api, UploadStep, ReviewStep, ReplayUpload, StartUpload,
     CheckEdit, LoseUploadRace, EnqueueUpload, UploadEnqueueFails, EnqueueResume,
     ResumeEnqueueFails, ApiCrash

\* The step of a worker carries a waiting document on, or lets go of it with a
\* refused flush.
LEMMA WorkerCarriesOn ==
    ASSUME Answering, Invariant, AllTaken, NEW w \in Workers,
           WorkerStep(w) \/ WorkerCrash(w) \/ Redeliver(w),
           NEW d \in Docs, Waits(d)', Carried(d)
    PROVE  Carried(d)' \/ (LedgerConflict(w) /\ d = DocOf(w))
<1>. USE DEF Waiting, Running, Sending, DocOf, Resting, Carried
<1>1. /\ broker \in [Tasks -> Nat]
      /\ handler' = handler
      /\ \A v \in Workers : v # w => worker'[v] = worker[v]
  BY WorkerMoves DEF Invariant, TypeOK
<1>2. ASSUME broker' = broker,
             worker'[w].pc \notin Resting =>
                 /\ worker[w].pc \notin Resting
                 /\ worker'[w].task = worker[w].task
      PROVE  Carried(d)' \/ (LedgerConflict(w) /\ d = DocOf(w))
  <2>1. CASE w \in Running(d) /\ worker'[w].pc \in Resting
    <3>1. ~(WorkerCrash(w) \/ Redeliver(w))
      <4>1. worker[w].pc # "idle"
        BY <2>1
      <4>2. worker[w].task \in Tasks
        BY <4>1 DEF Invariant, TransactionShape, Shape
      <4>. QED
        BY <1>1, <1>2, <4>2 DEF WorkerCrash, Redeliver
    <3>. QED
      BY <1>2, <2>1, <3>1, EndsWithItsWork DEF Waits
  <2>2. CASE w \notin Running(d) \/ worker'[w].pc \notin Resting
    BY <1>1, <1>2, <2>2
  <2>. QED
    BY <2>1, <2>2
<1>3. ASSUME NEW t \in Tasks,
             worker[w].pc = "idle",
             broker' = [broker EXCEPT ![t] = @ - 1],
             worker'[w].pc = "received",
             worker'[w].task = t
      PROVE  Carried(d)'
  <2>1. CASE d = t.doc
    BY <1>3, <2>1
  <2>2. CASE d # t.doc
    BY <1>1, <1>3, <2>2
  <2>. QED
    BY <2>1, <2>2
<1>4. ASSUME NEW t \in Tasks,
             broker' = [broker EXCEPT ![t] = @ + 1],
             worker[w].pc \notin Resting => t.doc = DocOf(w)
      PROVE  Carried(d)'
  <2>1. /\ \A u \in Tasks : broker[u] > 0 => broker'[u] > 0
        /\ broker'[t] > 0
    BY <1>1, <1>4
  <2>. QED
    BY <1>1, <1>4, <2>1
<1>. QED
  BY <1>2, <1>3, <1>4, WorkerMoves

\* A document that waits after a worker's step has waited before it.
LEMMA WaitedBefore ==
    ASSUME Invariant, NEW w \in Workers,
           WorkerStep(w) \/ WorkerCrash(w) \/ Redeliver(w),
           NEW d \in Docs, Waits(d)'
    PROVE  Waits(d)
<1>1. doc'[d] = doc[d] \/ WorkerRow(d)
  BY WorkerRows DEF Invariant
<1>. QED
  BY <1>1 DEF Waits, WorkerRow, Parks, Fails, Counts, Submits

\* The step of a request carries a waiting document on, and brings what it
\* makes wait.
LEMMA ApiCarriesOn ==
    ASSUME Answering, Invariant, NEW h \in Handlers, Api(h),
           NEW d \in Docs, Waits(d)', Waits(d) => Carried(d)
    PROVE  Carried(d)'
<1>. USE DEF Waiting, Running, Sending, DocOf, Carried, Publishing
<1>1. /\ broker \in [Tasks -> Nat]
      /\ worker' = worker
      /\ \A g \in Handlers : g # h => handler'[g] = handler[g]
  BY ApiMoves DEF Invariant, TypeOK
<1>2. CASE ~Waits(d)
  BY <1>2, BeginsWithItsWork
<1>3. CASE Waits(d) /\ broker' = broker
  <2>1. handler[h].pc \notin Publishing \/ handler'[h] = handler[h]
    <3>1. ASSUME handler[h].pc \in Publishing, Enqueue(handler[h].doc)
          PROVE  FALSE
      <4>. DEFINE t == [doc |-> handler[h].doc, retries |-> 0]
      <4>1. broker' = [broker EXCEPT ![t] = @ + 1]
        BY <3>1 DEF Enqueue
      <4>2. t \in Tasks
        BY <3>1, ConstantsAssumption DEF Invariant, TaskNamesRow, Tasks
      <4>. HIDE DEF t
      <4>. QED
        BY <1>1, <1>3, <4>1, <4>2
    <3>. QED
      BY <3>1, ApiMoves DEF Answering
  <2>. QED
    BY <1>1, <1>3, <2>1
<1>4. CASE Waits(d) /\ broker' # broker
  <2>1. handler[h].pc \in Publishing /\ Enqueue(handler[h].doc)
    BY <1>4, ApiMoves
  <2>. DEFINE t == [doc |-> handler[h].doc, retries |-> 0]
  <2>2. t \in Tasks /\ t.doc = handler[h].doc /\ broker' = [broker EXCEPT ![t] = @ + 1]
    BY <2>1, ConstantsAssumption DEF Enqueue, Invariant, TaskNamesRow, Tasks
  <2>. HIDE DEF t
  <2>3. /\ \A u \in Tasks : broker[u] > 0 => broker'[u] > 0
        /\ broker'[t] > 0
    BY <1>1, <2>2
  <2>. QED
    BY <1>1, <1>4, <2>2, <2>3
<1>. QED
  BY <1>2, <1>3, <1>4

LEMMA CarryStutter ==
    ASSUME UNCHANGED vars, NEW d
    PROVE  Waits(d)' = Waits(d) /\ Carried(d)' = Carried(d)
BY DEF vars, Waits, Carried, Waiting, Running, Sending, DocOf

\* A message that waits has a first copy.
LEMMA CarriedHasWork ==
    ASSUME Invariant, NEW d \in Docs, Carried(d)
    PROVE  Messages(d) \cup Running(d) \cup Sending(d) # {}
<1>1. ASSUME NEW t \in Waiting(d)
      PROVE  <<t, 1>> \in Messages(d)
  BY <1>1, ConstantsAssumption DEF Messages, Waiting, MaxCopies, Invariant, TypeOK
<1>. QED
  BY <1>1 DEF Carried

LEMMA TakenInit == Init => AllTaken
BY ConstantsAssumption DEF Init, AllTaken, Taken, NoRow, IdleWorker, IdleHandler

\* While every publish and every call is answered, a document that waits for a
\* worker has something that brings one, across crashes, redeliveries and
\* retries (task_acks_late, and the enqueues after the commits in app.py).
THEOREM WorkIsNeverLost ==
    ASSUME OneWorker, Answering, ReadingsTaken
    PROVE  Spec => []NoLostWork
<1>1. Init => AllTaken /\ WaitingIsCarried
  BY TakenInit DEF Init, WaitingIsCarried, Waits, NoRow
<1>2. ASSUME Invariant, WorkIsCurrent, AllTaken, WaitingIsCarried, [Next]_vars
      PROVE  AllTaken' /\ WaitingIsCarried'
  <2>1. \A w \in Workers : ~LedgerConflict(w)
    BY <1>2 DEF LedgerConflict, WorkIsCurrent, Current
  <2>2. ASSUME NEW d \in Docs, Waits(d)'
        PROVE  Carried(d)'
    <3>1. Waits(d) => Carried(d)
      BY <1>2 DEF WaitingIsCarried
    <3>2. CASE UNCHANGED vars
      BY <2>2, <3>1, <3>2, CarryStutter
    <3>. QED
      BY <1>2, <2>1, <2>2, <3>1, <3>2, WorkerCarriesOn, WaitedBefore, ApiCarriesOn
      DEF Next
  <2>. QED
    BY <1>2, <2>2, TakenStays DEF WaitingIsCarried
<1>3. Invariant /\ WaitingIsCarried => NoLostWork
  BY CarriedHasWork DEF WaitingIsCarried, NoLostWork, Waits
<1>. QED
  BY <1>1, <1>2, <1>3, Inductive, WorkStaysCurrent, PTL DEF Spec

\* A document whose flush was refused: the ERP has its invoice, and the number
\* is recorded for another document.
Beaten(d) == \E key \in erp : key[1] = d /\ Raced(key)

LostIsDuplicate ==
    \A d \in Docs :
        doc[d].status \in {"queued", "approved"} =>
            \/ Messages(d) \cup Running(d) \cup Sending(d) # {}
            \/ Beaten(d)

\* With several workers the only document that can wait for ever is one the ERP
\* has under a number recorded for another document: the refused flush of
\* _submit_approved_invoice ends its task, acknowledged (tasks.py).  Every
\* publish and every call is answered.
THEOREM LostWorkIsDuplicate ==
    ASSUME Answering, ReadingsTaken
    PROVE  Spec => []LostIsDuplicate
<1>. DEFINE CarriedOrBeaten == \A d \in Docs : Waits(d) => Carried(d) \/ Beaten(d)
<1>1. Init => AllTaken /\ CarriedOrBeaten
  BY TakenInit DEF Init, Waits, NoRow
<1>2. ASSUME Invariant, AllTaken, CarriedOrBeaten, [Next]_vars
      PROVE  AllTaken' /\ CarriedOrBeaten'
  <2>1. ASSUME NEW d \in Docs, Beaten(d)
        PROVE  Beaten(d)'
    <3>1. erp \subseteq erp'
      <4>1. \A w \in Workers : WorkerStep(w) \/ WorkerCrash(w) \/ Redeliver(w) =>
                 erp \subseteq erp'
        BY <1>2, Frame DEF Invariant
      <4>2. \A h \in Handlers : Api(h) => erp' = erp
        BY <1>2, ApiRows DEF Invariant
      <4>. QED
        BY <1>2, <4>1, <4>2 DEF Next, vars
    <3>. QED
      BY <1>2, <2>1, <3>1, LedgerGrows DEF Beaten, Raced
  <2>2. ASSUME NEW w \in Workers, LedgerConflict(w), DocOf(w) \in Docs
        PROVE  Beaten(DocOf(w))
    BY <1>2, <2>2, ConflictIsRace DEF Beaten, ErpKey
  <2>3. ASSUME NEW d \in Docs, Waits(d)'
        PROVE  Carried(d)' \/ Beaten(d)'
    <3>1. CASE Beaten(d)
      BY <2>1, <3>1
    <3>2. CASE Waits(d) => Carried(d)
      <4>1. CASE UNCHANGED vars
        BY <2>3, <3>2, <4>1, CarryStutter
      <4>2. ASSUME NEW w \in Workers, WorkerStep(w) \/ WorkerCrash(w) \/ Redeliver(w)
            PROVE  Carried(d)' \/ Beaten(d)'
        BY <1>2, <2>1, <2>2, <2>3, <3>2, <4>2, WorkerCarriesOn, WaitedBefore
      <4>. QED
        BY <1>2, <2>3, <3>2, <4>1, <4>2, ApiCarriesOn DEF Next
    <3>. QED
      BY <1>2, <3>1, <3>2
  <2>. QED
    BY <1>2, <2>3, TakenStays
<1>3. Invariant /\ CarriedOrBeaten => LostIsDuplicate
  BY CarriedHasWork DEF LostIsDuplicate, Waits
<1>. QED
  BY <1>1, <1>2, <1>3, Inductive, PTL DEF Spec

-----------------------------------------------------------------------------
(***************************************************************************)
(* Work does not repeat.                                                   *)
(***************************************************************************)
\* From step to step, when neither the broker nor a fault has a part in it.
Paths ==
    ({"received"}   \X {"extracting", "submitting", "done"}) \cup
    ({"extracting"} \X {"deciding", "transient", "done"}) \cup
    ({"deciding"}   \X {"submitting", "transient", "done"}) \cup
    ({"submitting"} \X {"recording", "transient", "done"}) \cup
    ({"recording"}  \X {"committing"}) \cup
    ({"committing", "retrying", "deadletter"} \X {"done"}) \cup
    ({"transient"}  \X {"retrying", "exhausted"}) \cup
    ({"exhausted"}  \X {"deadletter", "done"})

\* A task goes along Paths, and its worker takes the next after it has ended.
LEMMA WorkerPaths ==
    ASSUME Invariant, NEW w \in Workers, WorkerStep(w), ~Receive(w), ~Retry(w)
    PROVE  /\ broker' = broker
           /\ \/ /\ <<worker[w].pc, worker'[w].pc>> \in Paths
                 /\ worker'[w].task = worker[w].task
              \/ worker[w].pc = "done" /\ worker'[w].pc = "idle"
<1>. USE DEF At, Invariant, Paths, store
<1>1. worker \in [Workers -> Workings]
  BY DEF TypeOK
<1>2. CASE Acknowledge(w)
  BY <1>1, <1>2 DEF Acknowledge, IdleWorker
<1>3. CASE CheckLedger(w)
  BY <1>1, <1>3 DEF CheckLedger, Workings
<1>4. CASE SkipSettled(w) \/ ClaimQueued(w) \/ ClaimApproved(w)
  BY <1>4, Moved DEF SkipSettled, ClaimQueued, ClaimApproved, Claim
<1>5. CASE Extract(w) \/ ParkUnreadable(w) \/ ProviderTransient(w) \/ ExtractionFails(w)
  BY <1>5, Moved DEF Extract, ParkUnreadable, ProviderTransient, ExtractionFails,
     Commit, Rollback
<1>6. CASE AutoApprove(w) \/ Park(w) \/ LookupUnanswered(w)
  BY <1>6, Moved DEF AutoApprove, Park, LookupUnanswered, Commit, Rollback
<1>7. CASE ErpTransient(w)
  BY <1>7, Moved DEF ErpTransient, Rollback
<1>8. CASE CreateInvoice(w) \/ SubmissionRefused(w) \/ CreateUnanswered(w)
  BY <1>8, Moved DEF CreateInvoice, SubmissionRefused, CreateUnanswered, Rollback
<1>9. CASE CommitSubmission(w) \/ LedgerConflict(w)
  BY <1>9, Moved DEF CommitSubmission, LedgerConflict, Commit, Rollback
<1>10. CASE RecordRetry(w) \/ RetryPublishFails(w)
  BY <1>10, Moved DEF RecordRetry, RetryPublishFails
<1>11. CASE MarkExhausted(w) \/ DeadLetter(w) \/ DeadLetterFails(w)
  BY <1>11, Moved DEF MarkExhausted, DeadLetter, DeadLetterFails
<1>. QED
  BY <1>2, <1>3, <1>4, <1>5, <1>6, <1>7, <1>8, <1>9, <1>10, <1>11 DEF WorkerStep

\* Each step of a path leaves less to do.
LEMMA PathsDescend ==
    ASSUME NEW path \in Paths, NEW rest \in Nat
    PROVE  LET Ended   == {"idle", "done", "deadletter", "exhausted"}
               Due(pc) == StepsLeft(pc) + IF pc \in Ended THEN 0 ELSE rest
           IN  Due(path[2]) < Due(path[1])
BY DEF Paths, StepsLeft

\* A worker's step never leaves more to do than there was: what it has left,
\* with the attempt it publishes, is less than what it had, with the message it
\* received (process_document_task, self.retry), whatever the constants are.
THEOREM WorkNeverRepeats == Spec => WorkDescends
<1>. USE DEF AttemptSteps
<1>. DEFINE Descends(w) ==
        worker'[w] # worker[w] =>
            \/ interruptions' > interruptions
            \/ broker' = broker /\ Left(w)' < Left(w)
            \/ \E t \in Tasks :
                  \/ /\ broker' = [broker EXCEPT ![t] = @ - 1]
                     /\ Left(w)' < Left(w) + Load(t)
                  \/ /\ broker' = [broker EXCEPT ![t] = @ + 1]
                     /\ Left(w)' + Load(t) < Left(w)
<1>1. ASSUME Invariant, [Next]_vars, NEW w \in Workers
      PROVE  Descends(w)
  <2>. USE DEF Invariant
  <2>1. /\ worker \in [Workers -> Workings]
        /\ worker[w].pc # "idle" => worker[w].task \in Tasks
        /\ MaxRetries \in Nat
    BY <1>1, ConstantsAssumption DEF TypeOK, TransactionShape, Shape
  <2>2. CASE UNCHANGED vars
    BY <2>2 DEF vars
  <2>3. ASSUME NEW h \in Handlers, Api(h)
        PROVE  Descends(w)
    BY <1>1, <2>3, ApiRows
  <2>4. ASSUME NEW v \in Workers, WorkerStep(v) \/ WorkerCrash(v) \/ Redeliver(v), v # w
        PROVE  Descends(w)
    BY <1>1, <2>4, WorkerMoves
  <2>5. CASE WorkerCrash(w) \/ Redeliver(w)
    BY <1>1, <2>5 DEF WorkerCrash, Redeliver, Interrupt, TypeOK
  <2>6. CASE Receive(w)
    <3>1. PICK t \in Tasks :
             /\ broker' = [broker EXCEPT ![t] = @ - 1]
             /\ worker' = [worker EXCEPT ![w] = [@ EXCEPT !.pc = "received", !.task = t]]
      BY <2>6 DEF Receive
    <3>2. /\ worker[w].pc = "idle"
          /\ worker'[w].pc = "received"
          /\ worker'[w].task = t
      BY <2>1, <2>6, <3>1 DEF Receive, At, Workings
    <3>3. Left(w) = 0 /\ Left(w)' = 9 + 12 * (MaxRetries - t.retries)
      BY <3>2 DEF Left, StepsLeft, Retries
    <3>4. Load(t) = 11 + 12 * (MaxRetries - t.retries) /\ t.retries \in 0..MaxRetries
      BY DEF Load, Tasks
    <3>5. Left(w)' < Left(w) + Load(t)
      BY <2>1, <3>3, <3>4
    <3>. QED
      BY <3>1, <3>5
  <2>7. CASE Retry(w)
    <3>. DEFINE next == [doc |-> DocOf(w), retries |-> Retries(w) + 1]
    <3>1. /\ worker[w].pc = "retrying"
          /\ worker'[w].pc = "done"
          /\ broker' = [broker EXCEPT ![next] = @ + 1]
      BY <1>1, <2>7, Moved DEF Retry, At
    <3>2. next \in Tasks /\ Retries(w) \in 0..MaxRetries
      BY <1>1, <2>1, <3>1 DEF TransactionShape, Shape, Tasks, At, DocOf, Retries
    <3>3. Left(w) = 3 + 12 * (MaxRetries - Retries(w)) /\ Left(w)' = 1
      BY <3>1 DEF Left, StepsLeft
    <3>4. Load(next) = 11 + 12 * (MaxRetries - (Retries(w) + 1))
      BY DEF Load
    <3>5. Left(w)' + Load(next) < Left(w)
      BY <2>1, <3>2, <3>3, <3>4
    <3>. QED
      BY <3>1, <3>2, <3>5
  <2>8. CASE WorkerStep(w) /\ ~Receive(w) /\ ~Retry(w)
    <3>. SUFFICES Left(w)' < Left(w)
      BY <1>1, <2>8, WorkerPaths
    <3>1. CASE worker[w].pc = "done" /\ worker'[w].pc = "idle"
      <4>1. Left(w) = 1 /\ Left(w)' = 0
        BY <3>1 DEF Left, StepsLeft
      <4>. QED
        BY <4>1
    <3>2. CASE /\ <<worker[w].pc, worker'[w].pc>> \in Paths
               /\ worker'[w].task = worker[w].task
      <4>. DEFINE rest == 12 * (MaxRetries - Retries(w))
      <4>1. worker[w].pc # "idle"
        BY <3>2 DEF Paths
      <4>2. rest \in Nat
        BY <2>1, <4>1 DEF Tasks, Retries
      <4>. QED
        BY <3>2, <4>2, PathsDescend DEF Left, Retries
    <3>. QED
      BY <1>1, <2>8, <3>1, <3>2, WorkerPaths
  <2>. QED
    BY <1>1, <2>2, <2>3, <2>4, <2>5, <2>6, <2>7, <2>8 DEF Next
<1>2. Invariant /\ [Next]_vars => [\A w \in Workers : Descends(w)]_vars
  BY <1>1
<1>. QED
  BY <1>2, Inductive, PTL DEF Spec, WorkDescends

=============================================================================
