-------------------------- MODULE OperationsProofs --------------------------
(***************************************************************************)
(* Operations observes Pipeline and never holds it up, and what a client   *)
(* reads on a status page stays true: PageIsSound for any documents,       *)
(* workers, threads, retries and faults.                                   *)
(*                                                                         *)
(* A page is built from two reads at two times.  It is sound because a     *)
(* terminal row never changes its status again and because an entry is     *)
(* only pushed once its row is terminal: both hold at any later time.      *)
(*                                                                         *)
(* The counters and the dead-letter list run ahead of the table or behind  *)
(* it, by the steps between an increment or a push and a commit.  The list *)
(* is behind by the documents whose entries are on their way, however many *)
(* workers there are, as long as a document does not fail twice            *)
(* (DepthInvariant).  With one worker there is one task between increment  *)
(* and commit, so each counter is the number of rows it stands for but for *)
(* that task's: Outcomes and Creates say by how much, and each step changes*)
(* counter and rows alike.                                                 *)
(***************************************************************************)
EXTENDS Operations, WorkProofs

\* What is read, shown or listed is of a document that has come to its end.
ReadsLast ==
    /\ \A i \in 1..Len(letters) : doc[letters[i]].status \in TerminalStates
    /\ \A d \in Watched :
          page[d].read \in TerminalStates => doc[d].status = page[d].read
    /\ PageIsSound

OperationsInvariant ==
    /\ Invariant
    /\ OperationsTypeOK
    /\ ReadsLast

-----------------------------------------------------------------------------
\* Every observed step is one of the pipeline, or leaves it alone.
LEMMA OperationsStepsPipeline == [OperationsNext]_<<vars, operationsVars>> => [Next]_vars
<1>. SUFFICES ASSUME [OperationsNext]_<<vars, operationsVars>>
              PROVE  [Next]_vars
  OBVIOUS
<1>1. CASE UNCHANGED <<vars, operationsVars>>
  BY <1>1
<1>2. ASSUME NEW w \in Workers, ObservedWorkerStep(w) \/ Interruption(w)
      PROVE  [Next]_vars
  <2>1. WorkerStep(w) \/ WorkerCrash(w) \/ Redeliver(w)
    BY <1>2 DEF ObservedWorkerStep, Interruption, CountParked, CountExtractionFailed,
       CountAutoApproval, CountErpTransient, CountRefused, CountCreated,
       CountSubmitted, CountRetry, CountExhausted, CountNothing, PushLetter,
       WorkerStep
  <2>. QED
    BY <2>1 DEF Next
<1>3. ASSUME NEW h \in Handlers, ObservedRequestStep(h) \/ ObservedClientStep(h)
      PROVE  [Next]_vars
  <2>1. Api(h)
    BY <1>3 DEF ObservedRequestStep, ObservedClientStep, CountIngested, CountRejected,
       Api, UploadStep
  <2>. QED
    BY <2>1 DEF Next
<1>4. ASSUME NEW d \in Watched, Poll(d)
      PROVE  [Next]_vars
  BY <1>4 DEF Poll, ReadRow, SearchLetters
<1>. QED
  BY <1>1, <1>2, <1>3, <1>4 DEF OperationsNext

\* A document that has come to its end stays there, in the same state.
LEMMA EndIsFinal ==
    ASSUME Invariant, [Next]_vars, NEW d \in Docs, doc[d].status \in TerminalStates
    PROVE  doc'[d].status = doc[d].status
<1>1. RowStep /\ erp \subseteq erp'
  <2>1. CASE UNCHANGED vars
    BY <2>1 DEF RowStep, vars
  <2>2. ASSUME NEW h \in Handlers, Api(h)
        PROVE  RowStep /\ erp \subseteq erp'
    BY <2>2, ApiRows DEF Invariant, RowStep
  <2>3. ASSUME NEW w \in Workers, WorkerStep(w) \/ WorkerCrash(w) \/ Redeliver(w)
        PROVE  RowStep /\ erp \subseteq erp'
    BY <2>3, WorkerRows, Frame DEF Invariant, RowStep
  <2>. QED
    BY <2>1, <2>2, <2>3 DEF Next
<1>2. TypeOK'
  BY StutterKeeps, ApiKeeps, WorkerKeeps DEF Next, Invariant
<1>. QED
  BY <1>1, <1>2, RowsKeep

-----------------------------------------------------------------------------
\* Whatever is counted, a counter counts.
LEMMA CountsTyped ==
    ASSUME OperationsTypeOK,
           UNCHANGED count \/ \E names \in SUBSET Counters : Increment(names)
    PROVE  count' \in [Counters -> Nat]
BY DEF OperationsTypeOK, Increment

LEMMA Counted ==
    ASSUME [OperationsNext]_<<vars, operationsVars>>
    PROVE  UNCHANGED count \/ \E names \in SUBSET Counters : Increment(names)
<1>1. CASE UNCHANGED <<vars, operationsVars>>
  BY <1>1 DEF operationsVars
<1>2. ASSUME NEW w \in Workers, ObservedWorkerStep(w) \/ Interruption(w)
      PROVE  UNCHANGED count \/ \E names \in SUBSET Counters : Increment(names)
  BY <1>2 DEF ObservedWorkerStep, Interruption, CountParked, CountExtractionFailed,
     CountAutoApproval, CountErpTransient, CountRefused, CountCreated, CountSubmitted,
     CountRetry, CountExhausted, CountNothing, PushLetter, operationsVars, Counters
<1>3. ASSUME NEW h \in Handlers, ObservedRequestStep(h) \/ ObservedClientStep(h)
      PROVE  UNCHANGED count \/ \E names \in SUBSET Counters : Increment(names)
  BY <1>3 DEF ObservedRequestStep, ObservedClientStep, CountIngested, CountRejected,
     Counters
<1>4. ASSUME NEW d \in Watched, Poll(d)
      PROVE  UNCHANGED count
  BY <1>4 DEF Poll, ReadRow, SearchLetters
<1>. QED
  BY <1>1, <1>2, <1>3, <1>4 DEF OperationsNext

\* What a step does to the list and to the pages.
LEMMA LettersAndPages ==
    ASSUME [OperationsNext]_<<vars, operationsVars>>
    PROVE  \/ UNCHANGED <<letters, page>>
           \/ /\ UNCHANGED page
              /\ \E w \in Workers :
                    At(w, "deadletter") /\ letters' = Append(letters, DocOf(w))
           \/ /\ UNCHANGED <<vars, count, letters>>
              /\ \E d \in Watched : ReadRow(d) \/ SearchLetters(d)
<1>1. CASE UNCHANGED <<vars, operationsVars>>
  BY <1>1 DEF operationsVars
<1>2. ASSUME NEW w \in Workers, ObservedWorkerStep(w) \/ Interruption(w)
      PROVE  \/ UNCHANGED <<letters, page>>
             \/ /\ UNCHANGED page
                /\ At(w, "deadletter") /\ letters' = Append(letters, DocOf(w))
  BY <1>2 DEF ObservedWorkerStep, Interruption, PushLetter, DeadLetter, operationsVars
<1>3. ASSUME NEW h \in Handlers, ObservedRequestStep(h) \/ ObservedClientStep(h)
      PROVE  UNCHANGED <<letters, page>>
  BY <1>3 DEF ObservedRequestStep, ObservedClientStep
<1>4. ASSUME NEW d \in Watched, Poll(d)
      PROVE  UNCHANGED <<vars, count, letters>> /\ (ReadRow(d) \/ SearchLetters(d))
  BY <1>4 DEF Poll, ReadRow, SearchLetters
<1>. QED
  BY <1>1, <1>2, <1>3, <1>4 DEF OperationsNext

\* An answer in full: what the two reads of a poll leave on the page.
LEMMA PageStep ==
    ASSUME OperationsInvariant, NEW d \in Watched, ReadRow(d) \/ SearchLetters(d)
    PROVE  /\ page' \in [Watched -> Answers]
           /\ ReadsLast'
<1>. USE OperationsAssumption
<1>1. /\ page \in [Watched -> Answers]
      /\ letters \in Seq(Docs)
      /\ doc \in [Docs -> Rows]
      /\ d \in Docs
      /\ doc[d] \in Rows
      /\ page[d] \in Answers
      /\ UNCHANGED <<doc, letters>>
  BY DEF OperationsInvariant, OperationsTypeOK, Invariant, TypeOK, ReadRow,
     SearchLetters, vars
<1>2. doc[d].status \in WorkflowState \cup {"absent"}
  BY <1>1 DEF Rows
<1>3. ASSUME NEW answer \in Answers,
             page' = [page EXCEPT ![d] = answer],
             answer.read \in TerminalStates => doc[d].status = answer.read,
             answer.status \in TerminalStates => doc[d].status = answer.status,
             answer.dlqPresent => doc[d].status \in TerminalStates
      PROVE  /\ page' \in [Watched -> Answers]
             /\ ReadsLast'
  <2>1. page'[d] = answer /\ \A e \in Watched : e # d => page'[e] = page[e]
    BY <1>1, <1>3
  <2>. QED
    BY <1>1, <1>3, <2>1 DEF ReadsLast, PageIsSound, OperationsInvariant
<1>4. ReadsLast
  BY DEF OperationsInvariant
<1>5. CASE ReadRow(d) /\ NeedsSearch(d)
  <2>. DEFINE answer == [page[d] EXCEPT !.pc = "searching", !.read = doc[d].status]
  <2>1. answer \in Answers
    BY <1>1, <1>2 DEF Answers
  <2>2. page' = [page EXCEPT ![d] = answer]
    BY <1>5 DEF ReadRow
  <2>3. /\ answer.read = doc[d].status
        /\ answer.status = page[d].status
        /\ answer.dlqPresent = page[d].dlqPresent
    BY <1>1 DEF Answers
  <2>. HIDE DEF answer
  <2>. QED
    BY <1>3, <1>4, <2>1, <2>2, <2>3 DEF ReadsLast, PageIsSound
<1>6. CASE ReadRow(d) /\ ~NeedsSearch(d)
  <2>. DEFINE answer == [NoAnswer EXCEPT !.status = doc[d].status]
  <2>1. answer \in Answers
    BY <1>2 DEF Answers, NoAnswer
  <2>2. page' = [page EXCEPT ![d] = answer]
    BY <1>6 DEF ReadRow
  <2>3. answer.read = "absent" /\ answer.status = doc[d].status /\ ~answer.dlqPresent
    BY DEF NoAnswer
  <2>. HIDE DEF answer
  <2>. QED
    BY <1>3, <2>1, <2>2, <2>3 DEF TerminalStates
<1>7. CASE SearchLetters(d)
  <2>. DEFINE answer == [NoAnswer EXCEPT !.status = page[d].read, !.dlqPresent = Found(d)]
  <2>1. answer \in Answers
    BY <1>1 DEF Answers, NoAnswer, Found
  <2>2. page' = [page EXCEPT ![d] = answer]
    BY <1>7 DEF SearchLetters
  <2>3. /\ answer.read = "absent"
        /\ answer.status = page[d].read
        /\ answer.dlqPresent = Found(d)
    BY DEF NoAnswer
  <2>4. Found(d) => doc[d].status \in TerminalStates
    BY <1>4 DEF Found, ReadsLast
  <2>. HIDE DEF answer
  <2>. QED
    BY <1>3, <1>4, <2>1, <2>2, <2>3, <2>4 DEF ReadsLast, TerminalStates
<1>. QED
  BY <1>5, <1>6, <1>7

LEMMA OperationsKeeps ==
    ASSUME OperationsInvariant, [OperationsNext]_<<vars, operationsVars>>
    PROVE  OperationsInvariant'
<1>. USE OperationsAssumption
<1>1. Invariant /\ [Next]_vars
  BY OperationsStepsPipeline DEF OperationsInvariant
<1>2. Invariant'
  BY <1>1, StutterKeeps, ApiKeeps, WorkerKeeps DEF Next
<1>3. \A d \in Docs : doc[d].status \in TerminalStates => doc'[d].status = doc[d].status
  BY <1>1, EndIsFinal
<1>4. count' \in [Counters -> Nat]
  BY Counted, CountsTyped DEF OperationsInvariant
<1>5. letters \in Seq(Docs) /\ page \in [Watched -> Answers] /\ ReadsLast
  BY DEF OperationsInvariant, OperationsTypeOK
\* Terminal rows stay, so what was read of them does.
<1>6. /\ \A i \in 1..Len(letters) : doc'[letters[i]].status \in TerminalStates
      /\ UNCHANGED page =>
            /\ \A d \in Watched :
                  page'[d].read \in TerminalStates => doc'[d].status = page'[d].read
            /\ PageIsSound'
  <2>1. ASSUME NEW i \in 1..Len(letters)
        PROVE  doc'[letters[i]].status \in TerminalStates
    <3>1. letters[i] \in Docs
      BY <1>5
    <3>. QED
      BY <3>1, <1>3, <1>5 DEF ReadsLast
  <2>2. \A d \in Watched : d \in Docs
    OBVIOUS
  <2>. QED
    BY <2>1, <2>2, <1>3, <1>5 DEF ReadsLast, PageIsSound
<1>7. CASE UNCHANGED <<letters, page>>
  BY <1>2, <1>4, <1>5, <1>6, <1>7 DEF OperationsInvariant, OperationsTypeOK, ReadsLast
<1>8. ASSUME UNCHANGED page, NEW w \in Workers, At(w, "deadletter"),
             letters' = Append(letters, DocOf(w))
      PROVE  OperationsInvariant'
  <2>1. PICK d \in Docs : d = DocOf(w)
    BY <1>1, <1>8 DEF Invariant, TransactionShape, Shape, At, DocOf, Tasks
  <2>2. doc'[d].status \in TerminalStates
    BY <2>1, <1>1, <1>3, <1>8 DEF Invariant, DeadLetterAfterTheEnd
  <2>3. /\ letters' \in Seq(Docs)
        /\ Len(letters') = Len(letters) + 1
        /\ \A i \in 1..Len(letters') :
              letters'[i] = d \/ (i \in 1..Len(letters) /\ letters'[i] = letters[i])
    BY <2>1, <1>5, <1>8
  <2>4. \A i \in 1..Len(letters') : doc'[letters'[i]].status \in TerminalStates
    BY <2>2, <2>3, <1>6
  <2>. QED
    BY <2>3, <2>4, <1>2, <1>4, <1>5, <1>6, <1>8
    DEF OperationsInvariant, OperationsTypeOK, ReadsLast
<1>9. ASSUME NEW d \in Watched, ReadRow(d) \/ SearchLetters(d), UNCHANGED letters
      PROVE  OperationsInvariant'
  BY <1>2, <1>4, <1>5, <1>9, PageStep DEF OperationsInvariant, OperationsTypeOK
<1>. QED
  BY <1>7, <1>8, <1>9, LettersAndPages

LEMMA OperationsInitKeeps == OperationsInit => OperationsInvariant
<1>. SUFFICES ASSUME OperationsInit
              PROVE  OperationsInvariant
  OBVIOUS
<1>1. Invariant
  BY InitKeeps DEF OperationsInit
<1>2. OperationsTypeOK
  BY DEF OperationsInit, OperationsTypeOK, Answers, NoAnswer
<1>3. ReadsLast
  BY DEF OperationsInit, ReadsLast, PageIsSound, NoAnswer, TerminalStates
<1>. QED
  BY <1>1, <1>2, <1>3 DEF OperationsInvariant

\* What a page or the dead-letter list has read of a row is still so
\* (get_document, DeadLetterQueue.push).
THEOREM OperationsInductive == OperationsSpec => []OperationsInvariant
<1>1. OperationsInit => OperationsInvariant
  BY OperationsInitKeeps
<1>2. OperationsInvariant /\ [OperationsNext]_<<vars, operationsVars>>
         => OperationsInvariant'
  BY OperationsKeeps
<1>. QED
  BY <1>1, <1>2, PTL DEF OperationsSpec

\* Counting and polling add no behaviour to the pipeline: everything proved
\* of Spec holds of the services with their metrics and status pages.
THEOREM OperationsImplementPipeline == OperationsSpec => Spec
<1>1. OperationsInit => Init
  BY DEF OperationsInit
<1>. QED
  BY <1>1, OperationsStepsPipeline, PTL DEF OperationsSpec, Spec

\* Counters, the list and the pages keep to their types.
THEOREM OperationsTypes == OperationsSpec => []OperationsTypeOK
<1>1. OperationsInvariant => OperationsTypeOK
  BY DEF OperationsInvariant
<1>. QED
  BY <1>1, OperationsInductive, PTL

\* What a client has read on a status page stays true (get_document: the row,
\* then DeadLetterQueue.find_for_document).
THEOREM PagesStand == OperationsSpec => []PageIsSound
<1>1. OperationsInvariant => PageIsSound
  BY DEF OperationsInvariant, ReadsLast
<1>. QED
  BY <1>1, OperationsInductive, PTL

-----------------------------------------------------------------------------
(***************************************************************************)
(* What the counters and the list count: rows by their status and          *)
(* decision, and the step of the one worker.                               *)
(***************************************************************************)
\* No row changes its status or its decision.
QuietRows ==
    \A d \in Docs : /\ doc'[d].status = doc[d].status
                    /\ doc'[d].decision = doc[d].decision

\* Row d, and no other, comes to a status it did not have.
Comes(d, status) ==
    /\ d \in Docs
    /\ doc[d].status # status
    /\ doc'[d].status = status
    /\ \A e \in Docs : e # d => doc'[e] = doc[e]

LEMMA QuietCounts ==
    ASSUME QuietRows
    PROVE  /\ \A status : Having(status)' = Having(status)
           /\ Reviewed' = Reviewed
           /\ AutoSubmitted' = AutoSubmitted
BY DEF QuietRows, Having, Reviewed, AutoSubmitted

LEMMA ComingCounts ==
    ASSUME NEW d, NEW status, Comes(d, status)
    PROVE  /\ d \notin Having(status)
           /\ Having(status)' = Having(status) \cup {d}
           /\ \A other : other \notin {status, doc[d].status} =>
                 Having(other)' = Having(other)
BY DEF Comes, Having

\* A retry writes its number, and nothing else.
LEMMA RetryQuiet ==
    ASSUME Invariant, NEW w \in Workers, RecordRetry(w)
    PROVE  QuietRows
<1>1. doc' = [doc EXCEPT ![DocOf(w)].retryCount = Retries(w) + 1]
  BY DEF RecordRetry
<1>2. DocOf(w) \in Docs /\ doc \in [Docs -> Rows]
  BY DEF RecordRetry, Invariant, TypeOK, TransactionShape, Shape, Tasks, DocOf, At
<1>. QED
  BY <1>1, <1>2 DEF QuietRows, Rows

\* All steps of a worker but these four leave every status and decision.
LEMMA WorkerQuiet ==
    ASSUME Invariant, NEW w \in Workers,
           WorkerStep(w) \/ WorkerCrash(w) \/ Redeliver(w),
           ~(ParkUnreadable(w) \/ Park(w) \/ CommitSubmission(w) \/ MarkExhausted(w))
    PROVE  QuietRows
<1>1. CASE RecordRetry(w)
  BY <1>1, RetryQuiet
<1>2. CASE ~RecordRetry(w)
  <2>1. doc' = doc
    BY <1>2 DEF WorkerStep, Receive, SkipSettled, ClaimQueued, ClaimApproved, Claim,
       Extract, ProviderTransient, ExtractionFails, AutoApprove, ErpTransient,
       LookupUnanswered, CreateInvoice, SubmissionRefused, CreateUnanswered,
       CheckLedger, LedgerConflict, Retry, RetryPublishFails, DeadLetter,
       DeadLetterFails, Acknowledge, WorkerCrash, Redeliver, Rollback, store
  <2>. QED
    BY <2>1 DEF QuietRows
<1>. QED
  BY <1>1, <1>2

\* A document is parked out of the queue, with no decision or the machine's.
LEMMA ParkComes ==
    ASSUME Invariant, NEW w \in Workers, ParkUnreadable(w) \/ Park(w)
    PROVE  /\ Comes(DocOf(w), "needs_review")
           /\ doc[DocOf(w)].status = "queued"
           /\ doc[DocOf(w)].decision = "none"
           /\ doc'[DocOf(w)].decision \in {"none", "needs_review"}
           /\ worker[w].pc \in {"extracting", "deciding"}
           /\ worker'[w].pc = "done"
<1>. USE DEF At, DocOf
<1>1. /\ worker[w].pc \in {"extracting", "deciding"}
      /\ At(w, "extracting") \/ Park(w)
      /\ \E row : Commit(w, row)
  BY DEF ParkUnreadable, Park
<1>2. /\ doc \in [Docs -> Rows]
      /\ worker[w].row \in Rows
      /\ DocOf(w) \in Docs
      /\ doc[DocOf(w)].status = "queued"
      /\ doc[DocOf(w)].decision = "none"
      /\ worker[w].row.decision = "none"
  BY <1>1 DEF Invariant, TypeOK, Workings, TransactionShape, Shape, Tasks, NoPartialWork
<1>3. worker'[w].pc = "done"
  BY <1>1, Moved DEF Commit, Invariant
<1>4. /\ doc'[DocOf(w)].status = "needs_review"
      /\ doc'[DocOf(w)].decision \in {"none", "needs_review"}
      /\ \A e \in Docs : e # DocOf(w) => doc'[e] = doc[e]
  <2>1. CASE ParkUnreadable(w)
    <3>1. doc' = [doc EXCEPT ![DocOf(w)] = WithStatus(worker[w].row, "needs_review")]
      BY <2>1 DEF ParkUnreadable, Commit
    <3>. QED
      BY <1>2, <3>1 DEF WithStatus, Rows
  <2>2. CASE Park(w)
    <3>1. doc' = [doc EXCEPT ![DocOf(w)] = [worker[w].row EXCEPT
                                               !.status = "needs_review",
                                               !.decision = "needs_review"]]
      BY <2>2 DEF Park, Commit
    <3>. QED
      BY <1>2, <3>1 DEF Rows
  <2>. QED
    BY <2>1, <2>2
<1>. QED
  BY <1>1, <1>2, <1>3, <1>4 DEF Comes

\* A submission is of an auto-approval in this worker's hands, or of the row
\* a reviewer approved.
LEMMA SubmissionComes ==
    ASSUME Invariant, NEW w \in Workers, CommitSubmission(w)
    PROVE  /\ Comes(DocOf(w), "submitted")
           /\ worker[w].pc = "committing"
           /\ worker'[w].pc = "done"
           /\ doc'[DocOf(w)].decision = worker[w].row.decision
           /\ \/ /\ doc[DocOf(w)].status = "queued"
                 /\ doc[DocOf(w)].decision = "none"
                 /\ worker[w].row.decision = "auto_approve"
              \/ /\ doc[DocOf(w)].status = "approved"
                 /\ doc[DocOf(w)].decision = "human_approve"
                 /\ worker[w].row.decision = "human_approve"
<1>. USE DEF At, DocOf
<1>1. worker[w].pc = "committing" /\ Commit(w, worker[w].row)
  BY DEF CommitSubmission
<1>2. /\ doc \in [Docs -> Rows]
      /\ DocOf(w) \in Docs
      /\ worker[w].row.status = "submitted"
      /\ ReadyToSubmit(doc[DocOf(w)], worker[w].row)
  BY <1>1 DEF Invariant, TypeOK, TransactionShape, Shape, Tasks
<1>3. /\ doc[DocOf(w)].status = "queued" => doc[DocOf(w)].decision = "none"
      /\ doc[DocOf(w)].status = "approved" => doc[DocOf(w)].decision = "human_approve"
  BY <1>2 DEF Invariant, NoPartialWork, ApprovedByHuman
<1>4. worker'[w].pc = "done"
  BY <1>1, Moved DEF Commit, Invariant
<1>5. /\ doc'[DocOf(w)] = worker[w].row
      /\ \A e \in Docs : e # DocOf(w) => doc'[e] = doc[e]
  BY <1>1, <1>2 DEF Commit
<1>. QED
  BY <1>1, <1>2, <1>3, <1>4, <1>5 DEF Comes, ReadyToSubmit

\* A document fails only while it waits, with its last attempt.
LEMMA FailureComes ==
    ASSUME Invariant, AttemptsInOrder, NEW w \in Workers, MarkExhausted(w)
    PROVE  /\ Comes(DocOf(w), "failed")
           /\ doc[DocOf(w)].status \in {"queued", "approved"}
           /\ TransitionAllowed(doc[DocOf(w)].status, "failed")
           /\ doc'[DocOf(w)].decision = doc[DocOf(w)].decision
           /\ worker[w].pc = "exhausted"
           /\ worker'[w].pc = "deadletter"
           /\ worker'[w].task = worker[w].task
<1>. USE DEF At, DocOf
<1>1. /\ worker[w].pc = "exhausted"
      /\ doc[DocOf(w)].status \in {"queued", "approved"}
  BY DEF MarkExhausted, AttemptsInOrder, OnAttempt
<1>2. /\ TransitionAllowed(doc[DocOf(w)].status, "failed")
      /\ doc[DocOf(w)].status \notin TerminalStates
  BY <1>1 DEF TransitionAllowed, AllowedTransitions, TerminalStates
<1>3. /\ doc' = [doc EXCEPT ![DocOf(w)] =
                    WithStatus([doc[DocOf(w)] EXCEPT !.retryCount = Retries(w) + 1],
                               "failed")]
      /\ Goto(w, "deadletter")
  BY <1>2 DEF MarkExhausted
<1>4. worker'[w].pc = "deadletter" /\ worker'[w].task = worker[w].task
  BY <1>3, Moved DEF Invariant
<1>5. doc \in [Docs -> Rows] /\ DocOf(w) \in Docs
  BY <1>1 DEF Invariant, TypeOK, TransactionShape, Shape, Tasks
<1>6. /\ doc'[DocOf(w)].status = "failed"
      /\ doc'[DocOf(w)].decision = doc[DocOf(w)].decision
      /\ \A e \in Docs : e # DocOf(w) => doc'[e] = doc[e]
  BY <1>3, <1>5 DEF WithStatus, Rows
<1>. QED
  BY <1>1, <1>2, <1>4, <1>5, <1>6 DEF Comes

\* A step of a request: no failure, no submission, nothing in a worker's hands.
LEMMA RequestRows ==
    ASSUME Invariant, NEW h \in Handlers, Api(h)
    PROVE  /\ UNCHANGED <<erp, worker>>
           /\ \A status \in {"submitted", "failed"} : Having(status)' = Having(status)
           /\ AutoSubmitted' = AutoSubmitted
<1>1. /\ UNCHANGED <<erp, worker>>
      /\ \/ doc' = doc
         \/ \E d \in Docs : /\ \A e \in Docs : e # d => doc'[e] = doc[e]
                            /\ ApiRow(h, d)
  BY ApiRows DEF Invariant
<1>2. \A d \in Docs, status \in {"submitted", "failed"} :
         doc[d].status = status \/ doc'[d].status = status => doc'[d] = doc[d]
  BY <1>1 DEF ApiRow
<1>. QED
  BY <1>1, <1>2 DEF Having, AutoSubmitted

\* An observed step of the API is one of the pipeline, and no letter.
LEMMA ObservedRequests ==
    ASSUME NEW h \in Handlers, ObservedRequestStep(h) \/ ObservedClientStep(h)
    PROVE  Api(h) /\ UNCHANGED <<letters, page>>
BY DEF ObservedRequestStep, ObservedClientStep, CountIngested, CountRejected, Api, UploadStep

\* So is a worker's; a letter is pushed by the step for it, if that succeeds.
LEMMA ObservedWork ==
    ASSUME NEW w \in Workers, ObservedWorkerStep(w) \/ Interruption(w)
    PROVE  /\ WorkerStep(w) \/ WorkerCrash(w) \/ Redeliver(w)
           /\ \/ PushLetter(w)
              \/ /\ letters' = letters
                 /\ worker[w].pc = "deadletter" =>
                       DeadLetterFails(w) \/ WorkerCrash(w) \/ Redeliver(w)
<1>1. WorkerStep(w) \/ WorkerCrash(w) \/ Redeliver(w)
  BY DEF ObservedWorkerStep, Interruption, CountParked, CountExtractionFailed,
     CountAutoApproval, CountErpTransient, CountRefused, CountCreated,
     CountSubmitted, CountRetry, CountExhausted, CountNothing, PushLetter, WorkerStep
<1>2. CASE ~PushLetter(w)
  <2>1. letters' = letters
    BY <1>2 DEF ObservedWorkerStep, Interruption, operationsVars
  <2>2. worker[w].pc = "deadletter" =>
           DeadLetterFails(w) \/ WorkerCrash(w) \/ Redeliver(w)
    BY <1>2 DEF ObservedWorkerStep, Interruption, CountParked, CountExtractionFailed,
       CountAutoApproval, CountErpTransient, CountRefused, CountCreated,
       CountSubmitted, CountRetry, CountExhausted, CountNothing, At, Receive,
       SkipSettled, ClaimQueued, ClaimApproved, Claim, Extract, ParkUnreadable,
       ProviderTransient, ExtractionFails, AutoApprove, Park, ErpTransient,
       LookupUnanswered, CreateInvoice, SubmissionRefused, CreateUnanswered,
       CheckLedger, CommitSubmission, LedgerConflict, RecordRetry, Retry,
       RetryPublishFails, MarkExhausted, Acknowledge
  <2>. QED
    BY <1>1, <2>1, <2>2
<1>. QED
  BY <1>1, <1>2

-----------------------------------------------------------------------------
(***************************************************************************)
(* The depth of the dead-letter list.                                      *)
(***************************************************************************)
DepthInvariant ==
    /\ DepthIsFailures
    /\ IsFiniteSet(Having("failed"))
    /\ IsFiniteSet(OnTheWay)
    /\ \A w \in OnTheWay : doc[DocOf(w)].status = "failed"

LEMMA DepthKeptByWorker ==
    ASSUME {"workerCrash", "redis"} \cap Faults = {},
           OperationsInvariant, AttemptsInOrder, DepthInvariant,
           NEW w \in Workers, ObservedWorkerStep(w) \/ Interruption(w)
    PROVE  DepthInvariant'
<1>. USE DEF At, DocOf
<1>1. /\ Invariant
      /\ WorkerStep(w) \/ WorkerCrash(w) \/ Redeliver(w)
      /\ letters \in Seq(Docs)
  BY ObservedWork DEF OperationsInvariant, OperationsTypeOK
\* Whoever else is on the way stays there, and the row it failed stays failed.
<1>2. /\ \A v \in Workers : v # w => worker'[v] = worker[v]
      /\ OnTheWay' = IF worker'[w].pc = "deadletter" THEN OnTheWay \cup {w}
                                                    ELSE OnTheWay \ {w}
      /\ w \in OnTheWay <=> worker[w].pc = "deadletter"
      /\ \A v \in OnTheWay : v # w => DocOf(v) \in Having("failed")
  <2>1. \A v \in Workers : v # w => worker'[v] = worker[v]
    BY <1>1, WorkerMoves
  <2>2. \A v \in OnTheWay : DocOf(v) \in Having("failed")
    BY <1>1 DEF OnTheWay, Having, DepthInvariant, Invariant, TransactionShape, Shape,
       Tasks
  <2>. QED
    BY <2>1, <2>2 DEF OnTheWay
<1>3. /\ Len(letters) + Cardinality(OnTheWay) = Cardinality(Having("failed"))
      /\ IsFiniteSet(Having("failed"))
      /\ IsFiniteSet(OnTheWay)
      /\ Cardinality(Having("failed")) \in Nat
      /\ Cardinality(OnTheWay) \in Nat
      /\ Len(letters) \in Nat
      /\ \A i \in 1..Len(letters) : letters[i] \in Docs /\ letters[i] \in Having("failed")
  BY <1>1, FS_CardinalityType DEF DepthInvariant, DepthIsFailures, Having
<1>4. SUFFICES /\ Len(letters') + Cardinality(OnTheWay') = Cardinality(Having("failed")')
               /\ IsFiniteSet(Having("failed")')
               /\ IsFiniteSet(OnTheWay')
               /\ Having("failed") \subseteq Having("failed")'
               /\ \A i \in 1..Len(letters') : letters'[i] \in Having("failed")'
               /\ worker'[w].pc = "deadletter" =>
                     doc'[worker'[w].task.doc].status = "failed"
  <2>. SUFFICES ASSUME Having("failed") \subseteq Having("failed")',
                       worker'[w].pc = "deadletter" =>
                           doc'[worker'[w].task.doc].status = "failed",
                       NEW v \in OnTheWay'
                PROVE  doc'[worker'[v].task.doc].status = "failed"
    BY DEF DepthInvariant, DepthIsFailures, Having
  <2>1. CASE v = w
    BY <2>1 DEF OnTheWay
  <2>2. CASE v # w
    <3>1. v \in OnTheWay /\ v \in Workers /\ worker'[v] = worker[v]
      BY <1>2, <2>2 DEF OnTheWay
    <3>. QED
      BY <1>2, <2>2, <3>1 DEF Having
  <2>. QED
    BY <2>1, <2>2
<1>5. CASE MarkExhausted(w)
  <2>1. /\ Comes(DocOf(w), "failed")
        /\ worker[w].pc = "exhausted"
        /\ worker'[w].pc = "deadletter"
        /\ worker'[w].task = worker[w].task
    BY <1>1, <1>5, FailureComes
  <2>2. letters' = letters
    BY <2>1, ObservedWork DEF PushLetter, DeadLetter
  <2>3. /\ DocOf(w) \notin Having("failed")
        /\ Having("failed")' = Having("failed") \cup {DocOf(w)}
    BY <2>1, ComingCounts
  <2>4. /\ IsFiniteSet(Having("failed")')
        /\ Cardinality(Having("failed")') = Cardinality(Having("failed")) + 1
    <3>. DEFINE failed == Having("failed")
    <3>. HIDE DEF failed
    <3>1. IsFiniteSet(failed) /\ DocOf(w) \notin failed
      BY <1>3, <2>3 DEF failed
    <3>2. /\ IsFiniteSet(failed \cup {DocOf(w)})
          /\ Cardinality(failed \cup {DocOf(w)}) = Cardinality(failed) + 1
      BY <3>1, FS_AddElement
    <3>. QED
      BY <2>3, <3>2 DEF failed
  <2>5. doc'[worker'[w].task.doc].status = "failed"
    BY <2>1 DEF Comes
  <2>6. /\ IsFiniteSet(OnTheWay')
        /\ Cardinality(OnTheWay') = Cardinality(OnTheWay) + 1
    BY <1>2, <1>3, <2>1, FS_AddElement
  <2>. QED
    BY <1>3, <2>1, <2>2, <2>3, <2>4, <2>5, <2>6
<1>6. CASE ParkUnreadable(w) \/ Park(w) \/ CommitSubmission(w)
  <2>1. /\ \E status \in {"needs_review", "submitted"} : Comes(DocOf(w), status)
        /\ doc[DocOf(w)].status # "failed"
        /\ worker[w].pc # "deadletter"
        /\ worker'[w].pc = "done"
    BY <1>1, <1>6, ParkComes, SubmissionComes
  <2>2. Having("failed")' = Having("failed") /\ letters' = letters
    BY <2>1, ComingCounts, ObservedWork DEF PushLetter, DeadLetter
  <2>3. OnTheWay' = OnTheWay
    BY <1>2, <2>1
  <2>. QED
    BY <1>3, <2>1, <2>2, <2>3
<1>7. CASE ~(ParkUnreadable(w) \/ Park(w) \/ CommitSubmission(w) \/ MarkExhausted(w))
  <2>1. Having("failed")' = Having("failed")
    BY <1>1, <1>7, WorkerQuiet, QuietCounts
  <2>2. CASE PushLetter(w)
    <3>1. /\ worker[w].pc = "deadletter"
          /\ worker'[w].pc = "done"
          /\ letters' = Append(letters, DocOf(w))
      BY <1>1, <2>2, Moved DEF PushLetter, DeadLetter, Invariant
    <3>2. DocOf(w) \in Docs /\ DocOf(w) \in Having("failed")
      <4>1. DocOf(w) \in Docs
        BY <1>1, <3>1 DEF Invariant, TransactionShape, Shape, Tasks
      <4>. QED
        BY <3>1, <4>1 DEF DepthInvariant, OnTheWay, Having
    <3>3. /\ Len(letters') = Len(letters) + 1
          /\ \A i \in 1..Len(letters') :
                letters'[i] = DocOf(w) \/ (i \in 1..Len(letters) /\ letters'[i] = letters[i])
      BY <1>1, <3>1, <3>2
    <3>4. /\ IsFiniteSet(OnTheWay')
          /\ Cardinality(OnTheWay') = Cardinality(OnTheWay) - 1
      BY <1>2, <1>3, <3>1, FS_RemoveElement
    <3>5. \A i \in 1..Len(letters') : letters'[i] \in Having("failed")
      BY <1>3, <3>2, <3>3
    <3>6. Len(letters') + Cardinality(OnTheWay') = Cardinality(Having("failed"))
      BY <1>3, <3>3, <3>4
    <3>. QED
      BY <1>3, <2>1, <3>1, <3>4, <3>5, <3>6
  <2>3. CASE ~PushLetter(w)
    <3>1. letters' = letters
      BY <2>3, ObservedWork
    <3>2. worker[w].pc = "deadletter" => worker' = worker /\ doc' = doc
      BY <2>3, ObservedWork DEF DeadLetterFails, WorkerCrash, Redeliver, store
    <3>3. worker[w].pc # "deadletter" => worker'[w].pc # "deadletter"
      <4>. DEFINE Steps == WorkerSteps \ {"deadletter"}
      <4>1. CASE Receive(w) \/ Acknowledge(w) \/ CheckLedger(w)
        <5>1. worker \in [Workers -> Workings]
          BY <1>1 DEF Invariant, TypeOK
        <5>2. CASE CheckLedger(w)
          BY <5>1, <5>2 DEF CheckLedger, Workings
        <5>3. CASE Acknowledge(w)
          BY <5>1, <5>3 DEF Acknowledge, IdleWorker
        <5>4. CASE Receive(w)
          <6>1. PICK t \in Tasks :
                   worker' = [worker EXCEPT ![w] = [@ EXCEPT !.pc = "received", !.task = t]]
            BY <5>4 DEF Receive
          <6>. QED
            BY <5>1, <6>1 DEF Workings
        <5>. QED
          BY <4>1, <5>2, <5>3, <5>4
      <4>2. CASE WorkerCrash(w) \/ Redeliver(w)
        BY <4>2 DEF WorkerCrash, Redeliver
      <4>3. CASE DeadLetter(w) \/ DeadLetterFails(w)
        BY <4>3 DEF DeadLetter, DeadLetterFails
      <4>4. CASE ~ \/ Receive(w) \/ Acknowledge(w) \/ CheckLedger(w)
                   \/ WorkerCrash(w) \/ Redeliver(w)
                   \/ DeadLetter(w) \/ DeadLetterFails(w)
        <5>1. \E pc \in Steps : \/ Goto(w, pc) \/ EndTransaction(w, pc)
                                 \/ \E row : Continue(w, pc, row)
          BY <1>1, <1>7, <4>4 DEF WorkerStep, SkipSettled, ClaimQueued, ClaimApproved,
             Claim, Extract, ProviderTransient, ExtractionFails, AutoApprove,
             ErpTransient, LookupUnanswered, CreateInvoice, SubmissionRefused,
             CreateUnanswered, LedgerConflict, RecordRetry, Retry, RetryPublishFails,
             Rollback, WorkerSteps, InTransaction
        <5>. QED
          BY <1>1, <5>1, Moved DEF Invariant
      <4>. QED
        BY <4>1, <4>2, <4>3, <4>4
    <3>4. worker'[w].pc = "deadletter" => doc[worker[w].task.doc].status = "failed"
      BY <3>3 DEF DepthInvariant, OnTheWay
    <3>5. OnTheWay' = OnTheWay
      BY <1>2, <3>2, <3>3
    <3>. QED
      BY <1>3, <2>1, <3>1, <3>2, <3>3, <3>4, <3>5
  <2>. QED
    BY <2>2, <2>3
<1>. QED
  BY <1>5, <1>6, <1>7

\* docflow_dlq_depth is the number of failed documents, but for those whose
\* entry is on its way (finalize_exhausted_failure): no worker crashes, Redis
\* answers, and one worker serves the queue or nothing is delivered twice.
THEOREM DepthCountsFailures ==
    ASSUME OneWorker \/ DeliveredOnce, {"workerCrash", "redis"} \cap Faults = {}
    PROVE  OperationsSpec => []DepthIsFailures
<1>1. OperationsInit => DepthInvariant
  <2>. SUFFICES ASSUME OperationsInit
                PROVE  DepthInvariant
    OBVIOUS
  <2>1. Having("failed") = {} /\ OnTheWay = {} /\ letters = <<>>
    BY DEF OperationsInit, Init, Having, OnTheWay, NoRow, IdleWorker, At
  <2>. QED
    BY <2>1, FS_EmptySet DEF DepthInvariant, DepthIsFailures
<1>2. ASSUME OperationsInvariant, AttemptsInOrder, DepthInvariant,
             [OperationsNext]_<<vars, operationsVars>>
      PROVE  DepthInvariant'
  <2>1. CASE UNCHANGED <<letters, worker>> /\ Having("failed")' = Having("failed")
                /\ \A w \in OnTheWay : doc'[DocOf(w)].status = doc[DocOf(w)].status
    <3>1. OnTheWay' = OnTheWay
      BY <2>1 DEF OnTheWay, At
    <3>2. \A i \in 1..Len(letters) : doc'[letters[i]].status = "failed"
      BY <1>2, <2>1 DEF DepthInvariant, DepthIsFailures, Having, OperationsInvariant,
         OperationsTypeOK
    <3>. QED
      BY <1>2, <2>1, <3>1, <3>2 DEF DepthInvariant, DepthIsFailures, DocOf
  <2>2. CASE UNCHANGED <<vars, letters>>
    BY <2>1, <2>2 DEF vars, Having
  <2>3. ASSUME NEW h \in Handlers, ObservedRequestStep(h) \/ ObservedClientStep(h)
        PROVE  DepthInvariant'
    <3>1. /\ UNCHANGED <<letters, worker>>
          /\ Having("failed")' = Having("failed")
      BY <1>2, <2>3, ObservedRequests, RequestRows DEF OperationsInvariant
    <3>2. \A w \in OnTheWay : doc'[DocOf(w)].status = doc[DocOf(w)].status
      <4>1. \A w \in OnTheWay : DocOf(w) \in Having("failed")
        BY <1>2 DEF DepthInvariant, OperationsInvariant, Invariant, TransactionShape,
           Shape, OnTheWay, Having, At, DocOf, Tasks
      <4>. QED
        BY <3>1, <4>1 DEF Having
    <3>. QED
      BY <2>1, <3>1, <3>2
  <2>. QED
    BY <1>2, <2>2, <2>3, DepthKeptByWorker
    DEF OperationsNext, Poll, ReadRow, SearchLetters, operationsVars
<1>3. DepthInvariant => DepthIsFailures
  BY DEF DepthInvariant
<1>. QED
  BY <1>1, <1>2, <1>3, OperationsInductive, OperationsImplementPipeline,
     AttemptsStayInOrder, PTL DEF OperationsSpec

\* A failed document says so with its last attempt's number
\* (mark_retry_exhausted, and record_retry_metadata without a lock): any fault
\* with one worker, any number of workers if nothing is delivered twice.
THEOREM FailuresAtLimit ==
    ASSUME OneWorker \/ DeliveredOnce
    PROVE  OperationsSpec => []FailedAtLimit
<1>1. AttemptsInOrder => FailedAtLimit
  BY DEF AttemptsInOrder, FailedLast, FailedAtLimit, Having
<1>. QED
  BY <1>1, OperationsImplementPipeline, AttemptsStayInOrder, PTL

-----------------------------------------------------------------------------
(***************************************************************************)
(* The outcome counters and the table, with one worker.                    *)
(***************************************************************************)
EverParked == Having("needs_review") \cup Reviewed

Countable ==
    /\ IsFiniteSet(Having("submitted"))
    /\ IsFiniteSet(EverParked)
    /\ IsFiniteSet(Having("rejected"))
    /\ IsFiniteSet(Having("failed"))
    /\ IsFiniteSet(AutoSubmitted)

\* A row that is not there is decided by nobody, and what is approved by the
\* machine is clean.
Outcomes ==
    /\ OutcomesCounted
    /\ Countable
    /\ \A d \in Docs : doc[d].status = "absent" => doc[d].decision = "none"
    /\ \A w \in AutoInHand : Invoice(w).grade = "clean"

InHand(w)  == IF w \in AutoInHand THEN 1 ELSE 0
Commits(w) == IF w \in Committing THEN 1 ELSE 0

LEMMA Incremented ==
    ASSUME NEW names, Increment(names), NEW c \in Counters
    PROVE  count'[c] = IF c \in names THEN count[c] + 1 ELSE count[c]
BY DEF Increment

\* A set of workers is counted by its one worker.
LEMMA OneCounts ==
    ASSUME OneWorker, NEW w \in Workers, NEW S \in SUBSET Workers
    PROVE  Cardinality(S) = IF w \in S THEN 1 ELSE 0
<1>1. AtMostOne(S) /\ (S = {} <=> w \notin S)
  BY DEF OneWorker, AtMostOne
<1>. QED
  BY <1>1, CardinalityOfOne

\* With one worker, automatic and committing are what it has in its hands.
LEMMA HandsCount ==
    ASSUME OneWorker, NEW w \in Workers
    PROVE  /\ Cardinality(AutoInHand) = InHand(w)
           /\ Cardinality(AutoInHand') = InHand(w)'
           /\ Cardinality(Committing) = Commits(w)
           /\ Cardinality(Committing') = Commits(w)'
<1>1. /\ AutoInHand \in SUBSET Workers /\ AutoInHand' \in SUBSET Workers
      /\ Committing \in SUBSET Workers /\ Committing' \in SUBSET Workers
  BY DEF AutoInHand, Committing
<1>2. /\ InHand(w) = IF w \in AutoInHand THEN 1 ELSE 0
      /\ InHand(w)' = IF w \in AutoInHand' THEN 1 ELSE 0
      /\ Commits(w) = IF w \in Committing THEN 1 ELSE 0
      /\ Commits(w)' = IF w \in Committing' THEN 1 ELSE 0
  BY DEF InHand, Commits
<1>. QED
  BY <1>1, <1>2, OneCounts

\* A step that leaves the rows alone counts what it takes into its hands or
\* hands over, and every auto-approval it drops as an ERP failure.
LEMMA QuietOutcomes ==
    ASSUME OneWorker, OperationsTypeOK, OperationsTypeOK', Outcomes, QuietRows,
           NEW w \in Workers,
           count'["submitted"] = count["submitted"] + Commits(w)' - Commits(w),
           count'["needs_review"] = count["needs_review"],
           count'["rejected"] = count["rejected"],
           count'["failed"] >= count["failed"],
           count'["auto_approved"] >= count["auto_approved"] + InHand(w)' - InHand(w),
           count'["auto_approved"] - count'["erp_failure"]
              <= count["auto_approved"] - count["erp_failure"] + InHand(w)' - InHand(w),
           InHand(w)' = 1 => Invoice(w)'.grade = "clean"
    PROVE  Outcomes'
<1>1. /\ Having("submitted")' = Having("submitted")
      /\ Having("needs_review")' = Having("needs_review")
      /\ Having("rejected")' = Having("rejected")
      /\ Having("failed")' = Having("failed")
      /\ Reviewed' = Reviewed
      /\ AutoSubmitted' = AutoSubmitted
  BY QuietCounts
<1>2. Countable' /\ EverParked' = EverParked
  BY <1>1 DEF Countable, EverParked, Outcomes
<1>3. /\ Cardinality(AutoSubmitted) \in Nat
      /\ Cardinality(Having("failed")) \in Nat
      /\ Cardinality(Having("submitted")) \in Nat
      /\ \A c \in Counters : count[c] \in Nat /\ count'[c] \in Nat
      /\ InHand(w) \in {0, 1} /\ InHand(w)' \in {0, 1}
      /\ Commits(w) \in {0, 1} /\ Commits(w)' \in {0, 1}
  BY FS_CardinalityType DEF Outcomes, Countable, OperationsTypeOK, InHand, Commits
<1>4. /\ count["submitted"] = Cardinality(Having("submitted")) + Commits(w)
      /\ count["needs_review"] = Cardinality(Having("needs_review") \cup Reviewed)
      /\ count["rejected"] = Cardinality(Having("rejected"))
      /\ count["failed"] >= Cardinality(Having("failed"))
      /\ count["auto_approved"] >= Cardinality(AutoSubmitted) + InHand(w)
      /\ count["auto_approved"] <=
            Cardinality(AutoSubmitted) + InHand(w) + count["erp_failure"]
  BY HandsCount DEF Outcomes, OutcomesCounted
<1>5. OutcomesCounted'
  <2>1. count'["submitted"] = Cardinality(Having("submitted")) + Commits(w)'
    BY <1>3, <1>4 DEF Counters
  <2>2. count'["failed"] >= Cardinality(Having("failed"))
    BY <1>3, <1>4 DEF Counters
  <2>3. /\ count'["auto_approved"] >= Cardinality(AutoSubmitted) + InHand(w)'
        /\ count'["auto_approved"] <=
              Cardinality(AutoSubmitted) + InHand(w)' + count'["erp_failure"]
    BY <1>3, <1>4 DEF Counters
  <2>. QED
    BY <1>1, <1>4, <2>1, <2>2, <2>3, HandsCount DEF OutcomesCounted
<1>6. \A d \in Docs : doc'[d].status = "absent" => doc'[d].decision = "none"
  BY DEF QuietRows, Outcomes
<1>7. \A v \in AutoInHand' : Invoice(v)'.grade = "clean"
  BY DEF InHand, OneWorker, AutoInHand
<1>. QED
  BY <1>2, <1>5, <1>6, <1>7 DEF Outcomes

LEMMA Hands ==
    ASSUME NEW w \in Workers
    PROVE  /\ InHand(w) = IF /\ worker[w].pc \in InTransaction
                             /\ worker[w].row.decision = "auto_approve"
                          THEN 1 ELSE 0
           /\ InHand(w)' = IF /\ worker'[w].pc \in InTransaction
                              /\ worker'[w].row.decision = "auto_approve"
                           THEN 1 ELSE 0
           /\ Commits(w) = IF worker[w].pc = "committing" THEN 1 ELSE 0
           /\ Commits(w)' = IF worker'[w].pc = "committing" THEN 1 ELSE 0
BY DEF InHand, Commits, AutoInHand, Committing, At

\* The steps of a worker that leave the rows as they are, one counter each.
LEMMA OutcomesInWork ==
    ASSUME OneWorker, {"workerCrash", "erpTransport"} \cap Faults = {},
           OperationsInvariant, OperationsTypeOK', WorkIsCurrent, Outcomes,
           NEW w \in Workers,
           \/ CountExtractionFailed(w) \/ CountAutoApproval(w) \/ CountErpTransient(w)
           \/ CountRefused(w) \/ CountCreated(w) \/ CountSubmitted(w)
           \/ CountRetry(w) \/ (CountNothing(w) /\ ~CommitSubmission(w))
           \/ PushLetter(w)
    PROVE  Outcomes'
<1>. USE DEF At, DocOf, Counters
<1>0. TypeOK
  BY DEF OperationsInvariant, Invariant
<1>1. /\ Invariant /\ OperationsTypeOK
      /\ worker \in [Workers -> Workings]
      /\ worker[w] \in Workings
      /\ worker[w].row \in Rows
      /\ doc \in [Docs -> Rows]
      /\ \A c \in Counters : count[c] \in Nat
  BY DEF OperationsInvariant, OperationsTypeOK, Invariant, TypeOK, Workings
<1>2. /\ worker[w].pc # "idle" => DocOf(w) \in Docs
      /\ worker[w].pc \in {"extracting", "deciding"} => worker[w].row.decision = "none"
  BY <1>1 DEF Invariant, TransactionShape, Shape, Tasks
<1>h. /\ InHand(w) = IF /\ worker[w].pc \in InTransaction
                        /\ worker[w].row.decision = "auto_approve"
                     THEN 1 ELSE 0
      /\ InHand(w)' = IF /\ worker'[w].pc \in InTransaction
                         /\ worker'[w].row.decision = "auto_approve"
                      THEN 1 ELSE 0
      /\ Commits(w) = IF worker[w].pc = "committing" THEN 1 ELSE 0
      /\ Commits(w)' = IF worker'[w].pc = "committing" THEN 1 ELSE 0
  BY Hands
<1>3. InHand(w) = 1 => Invoice(w).grade = "clean"
  BY DEF Outcomes, InHand
<1>4. QuietRows
  <2>1. CASE CountRetry(w)
    BY <1>1, <2>1, RetryQuiet DEF CountRetry
  <2>2. CASE ~CountRetry(w)
    <3>1. doc' = doc
      BY <2>2 DEF CountExtractionFailed, CountAutoApproval, CountErpTransient,
         CountRefused, CountCreated, CountSubmitted, CountNothing, PushLetter, Receive,
         SkipSettled, ClaimQueued, ClaimApproved, Claim, Extract, ProviderTransient,
         ExtractionFails, AutoApprove, ErpTransient, LookupUnanswered, CreateInvoice,
         SubmissionRefused, CreateUnanswered, CheckLedger, LedgerConflict, Retry,
         RetryPublishFails, DeadLetter, DeadLetterFails, Acknowledge, Rollback, store
    <3>. QED
      BY <3>1 DEF QuietRows
  <2>. QED
    BY <2>1, <2>2
\* What is counted, and what the worker has in its hands then.
<1>5. ASSUME NEW names \in SUBSET Counters, Increment(names),
             names \cap {"needs_review", "rejected"} = {},
             "submitted" \in names <=> Commits(w)' = 1 /\ Commits(w) = 0,
             Commits(w) = 1 => Commits(w)' = 1,
             "auto_approved" \in names <=> InHand(w)' = 1 /\ InHand(w) = 0,
             InHand(w) = 1 /\ InHand(w)' = 0 => "erp_failure" \in names,
             InHand(w)' = 1 => Invoice(w)'.grade = "clean"
      PROVE  Outcomes'
  <2>1. \A c \in Counters : count'[c] = IF c \in names THEN count[c] + 1 ELSE count[c]
    BY <1>5, Incremented
  <2>2. InHand(w) \in {0, 1} /\ InHand(w)' \in {0, 1} /\ Commits(w) \in {0, 1}
        /\ Commits(w)' \in {0, 1}
    BY <1>h
  <2>3. count'["submitted"] = count["submitted"] + Commits(w)' - Commits(w)
    BY <1>1, <1>5, <2>1, <2>2
  <2>4. /\ count'["needs_review"] = count["needs_review"]
        /\ count'["rejected"] = count["rejected"]
        /\ count'["failed"] >= count["failed"]
    BY <1>1, <1>5, <2>1
  <2>5. /\ count'["auto_approved"] >= count["auto_approved"] + InHand(w)' - InHand(w)
        /\ count'["auto_approved"] - count'["erp_failure"]
              <= count["auto_approved"] - count["erp_failure"] + InHand(w)' - InHand(w)
    BY <1>1, <1>5, <2>1, <2>2
  <2>. QED
    BY <1>1, <1>4, <1>5, <2>3, <2>4, <2>5, QuietOutcomes
<1>6. ASSUME UNCHANGED count, InHand(w)' = InHand(w), Commits(w)' = Commits(w),
             InHand(w)' = 1 => Invoice(w)'.grade = "clean"
      PROVE  Outcomes'
  <2>1. InHand(w) \in {0, 1} /\ Commits(w) \in {0, 1}
    BY <1>h
  <2>2. \A c \in Counters : count'[c] = count[c]
    BY <1>6
  <2>. QED
    BY <1>1, <1>4, <1>6, <2>1, <2>2, QuietOutcomes
<1>7. CASE CountExtractionFailed(w)
  <2>1. /\ Increment({"failed"})
        /\ worker[w].pc = "extracting"
        /\ worker'[w].pc = "done"
    BY <1>0, <1>7, Moved DEF CountExtractionFailed, ExtractionFails, Rollback
  <2>. QED
    BY <1>h, <1>2, <1>5, <2>1 DEF InTransaction
<1>8. CASE CountAutoApproval(w)
  <2>. DEFINE row == [worker[w].row EXCEPT !.status = "approved",
                                           !.decision = "auto_approve"]
  <2>1. /\ Increment({"auto_approved"})
        /\ worker[w].pc = "deciding"
        /\ Invoice(w).grade = "clean"
    BY <1>8 DEF CountAutoApproval, AutoApprove, Approvable
  <2>0. Continue(w, "submitting", row)
    BY <1>8 DEF CountAutoApproval, AutoApprove
  <2>2. row.decision = "auto_approve" /\ row.extraction = worker[w].row.extraction
    BY <1>1 DEF Rows
  <2>. HIDE DEF row
  <2>3. worker'[w].pc = "submitting" /\ worker'[w].row = row
    BY <1>0, <2>0, Moved
  <2>4. Commits(w) = 0 /\ Commits(w)' = 0 /\ InHand(w) = 0 /\ InHand(w)' = 1
    BY <1>h, <1>2, <2>1, <2>2, <2>3 DEF InTransaction
  <2>5. Invoice(w)' = Invoice(w)
    BY <2>2, <2>3 DEF Invoice
  <2>. QED
    BY <1>5, <2>1, <2>4, <2>5
<1>9. CASE CountErpTransient(w)
  <2>1. /\ Increment(IF worker[w].pc = "submitting" THEN {"erp_failure"} ELSE {})
        /\ worker[w].pc \in {"deciding", "submitting"}
        /\ worker'[w].pc = "transient"
    BY <1>0, <1>9, Moved DEF CountErpTransient, ErpTransient, Rollback
  <2>2. Commits(w) = 0 /\ Commits(w)' = 0 /\ InHand(w)' = 0
    BY <1>h, <2>1 DEF InTransaction
  <2>3. InHand(w) = 1 => worker[w].pc = "submitting"
    BY <1>h, <1>2, <2>1
  <2>. QED
    BY <1>5, <2>1, <2>2, <2>3
<1>10. CASE CountRefused(w)
  <2>1. /\ Increment(IF Invoice(w).grade = "noSupplier"
                         THEN {} ELSE {"erp_failure", "failed"})
        /\ worker[w].pc = "submitting"
        /\ Invoice(w).grade # "clean"
        /\ worker'[w].pc = "done"
    BY <1>0, <1>10, Moved DEF CountRefused, SubmissionRefused, Billable, Rollback
  <2>2. Commits(w) = 0 /\ Commits(w)' = 0 /\ InHand(w)' = 0 /\ InHand(w) = 0
    BY <1>h, <1>3, <2>1 DEF InTransaction
  <2>. QED
    BY <1>5, <2>1, <2>2
<1>11. CASE CountCreated(w)
  <2>1. /\ Increment({"erp_success"})
        /\ worker[w].pc = "submitting"
        /\ worker'[w].pc = "recording"
        /\ worker'[w].row = worker[w].row
    BY <1>0, <1>11, Moved DEF CountCreated, CreateInvoice
  <2>. QED
    BY <1>h, <1>3, <1>5, <2>1 DEF InTransaction, Invoice
<1>12. CASE CountSubmitted(w)
  <2>1. /\ Increment({"submitted"})
        /\ worker[w].pc = "recording"
        /\ worker'[w] = [worker[w] EXCEPT !.pc = "committing",
                                          !.row = WithStatus(worker[w].row, "submitted"),
                                          !.fresh = ~Recorded(Invoice(w).number)]
    BY <1>1, <1>12 DEF CountSubmitted, CheckLedger
  <2>2. /\ worker'[w].pc = "committing"
        /\ worker'[w].row.decision = worker[w].row.decision
        /\ worker'[w].row.extraction = worker[w].row.extraction
    BY <1>1, <2>1 DEF Workings, WithStatus, Rows
  <2>3. Commits(w) = 0 /\ Commits(w)' = 1 /\ InHand(w)' = InHand(w)
    BY <1>h, <2>1, <2>2 DEF InTransaction
  <2>4. Invoice(w)' = Invoice(w)
    BY <2>2 DEF Invoice
  <2>. QED
    BY <1>3, <1>5, <2>1, <2>3, <2>4
<1>13. CASE CountRetry(w)
  <2>1. /\ Increment({"retried"})
        /\ worker[w].pc = "transient"
        /\ worker'[w].pc \in {"exhausted", "retrying"}
    BY <1>0, <1>13, Moved DEF CountRetry, RecordRetry
  <2>. QED
    BY <1>h, <1>5, <2>1 DEF InTransaction
<1>14. CASE PushLetter(w)
  <2>1. /\ UNCHANGED count
        /\ worker[w].pc = "deadletter"
        /\ worker'[w].pc = "done"
    BY <1>0, <1>14, Moved DEF PushLetter, DeadLetter
  <2>. QED
    BY <1>h, <1>6, <2>1 DEF InTransaction
<1>15. CASE CountNothing(w) /\ ~CommitSubmission(w)
  <2>1. UNCHANGED count
    BY <1>15 DEF CountNothing
  <2>2. CASE ClaimQueued(w) \/ ClaimApproved(w)
    <3>1. /\ worker[w].pc = "received"
          /\ DocOf(w) \in Docs
          /\ \/ /\ doc[DocOf(w)].status = "queued"
                /\ Continue(w, "extracting", WithStatus(doc[DocOf(w)], "processing"))
             \/ /\ doc[DocOf(w)].status = "approved"
                /\ Continue(w, "submitting", doc[DocOf(w)])
      BY <1>2, <2>2 DEF ClaimQueued, ClaimApproved, Claim
    <3>2. WithStatus(doc[DocOf(w)], "processing").decision = doc[DocOf(w)].decision
      BY <1>1, <3>1 DEF WithStatus, Rows
    <3>3. /\ worker'[w].pc \in {"extracting", "submitting"}
          /\ worker'[w].row.decision = doc[DocOf(w)].decision
      <4>1. PICK pc \in {"extracting", "submitting"}, row \in
                  {WithStatus(doc[DocOf(w)], "processing"), doc[DocOf(w)]} :
                Continue(w, pc, row)
        BY <3>1
      <4>2. worker'[w].pc = pc /\ worker'[w].row = row
        BY <1>1, <4>1 DEF Continue, Workings
      <4>. QED
        BY <3>2, <4>1, <4>2
    <3>4. doc[DocOf(w)].decision # "auto_approve"
      BY <1>1, <3>1 DEF Invariant, NoPartialWork, ApprovedByHuman
    <3>5. Commits(w) = 0 /\ Commits(w)' = 0 /\ InHand(w) = 0 /\ InHand(w)' = 0
      BY <1>h, <3>1, <3>3, <3>4 DEF InTransaction
    <3>. QED
      BY <1>6, <2>1, <3>5
  <2>3. CASE Extract(w)
    <3>1. PICK invoice \in Readings[DocOf(w)] :
             /\ worker[w].pc = "extracting"
             /\ Continue(w, "deciding",
                         [worker[w].row EXCEPT !.status = "extracted",
                                               !.extraction = invoice])
      BY <2>3 DEF Extract
    <3>. DEFINE row == [worker[w].row EXCEPT !.status = "extracted",
                                             !.extraction = invoice]
    <3>2. row.decision = worker[w].row.decision
      BY <1>1 DEF Rows
    <3>3. Continue(w, "deciding", row)
      BY <3>1
    <3>. HIDE DEF row
    <3>4. worker'[w].pc = "deciding" /\ worker'[w].row = row
      BY <1>0, <3>3, Moved
    <3>5. Commits(w) = 0 /\ Commits(w)' = 0 /\ InHand(w) = 0 /\ InHand(w)' = 0
      BY <1>h, <1>2, <3>1, <3>2, <3>4 DEF InTransaction
    <3>. QED
      BY <1>6, <2>1, <3>5
  <2>4. CASE ProviderTransient(w)
    <3>1. worker[w].pc = "extracting" /\ worker'[w].pc = "transient"
      BY <1>0, <2>4, Moved DEF ProviderTransient, Rollback
    <3>. QED
      BY <1>h, <1>2, <1>6, <2>1, <3>1 DEF InTransaction
  \* Whatever the ERP is asked, it answers; nobody else records a number.
  <2>5. ~(LookupUnanswered(w) \/ CreateUnanswered(w) \/ LedgerConflict(w))
    BY DEF LookupUnanswered, CreateUnanswered, LedgerConflict, WorkIsCurrent, Current
  <2>6. CASE \/ Receive(w) \/ SkipSettled(w) \/ Retry(w) \/ RetryPublishFails(w)
             \/ DeadLetterFails(w) \/ Acknowledge(w)
    <3>1. worker[w].pc \notin InTransaction
      BY <2>6 DEF Receive, SkipSettled, Retry, RetryPublishFails, DeadLetterFails,
         Acknowledge, InTransaction
    <3>2. worker'[w].pc \notin InTransaction
      <4>1. CASE Receive(w)
        <5>1. PICK t \in Tasks :
                 worker' = [worker EXCEPT ![w] = [@ EXCEPT !.pc = "received", !.task = t]]
          BY <4>1 DEF Receive
        <5>. QED
          BY <1>1, <5>1 DEF Workings, InTransaction
      <4>2. CASE Acknowledge(w)
        BY <1>1, <4>2 DEF Acknowledge, IdleWorker, InTransaction
      <4>3. CASE SkipSettled(w) \/ Retry(w) \/ RetryPublishFails(w) \/ DeadLetterFails(w)
        <5>1. worker'[w].pc = "done"
          BY <1>0, <4>3, Moved DEF SkipSettled, Retry, RetryPublishFails, DeadLetterFails
        <5>. QED
          BY <1>h, <5>1 DEF InTransaction
      <4>. QED
        BY <2>6, <4>1, <4>2, <4>3
    <3>. QED
      BY <1>h, <1>6, <2>1, <3>1, <3>2 DEF InTransaction
  <2>. QED
    BY <1>15, <2>2, <2>3, <2>4, <2>5, <2>6 DEF CountNothing
<1>. QED
  BY <1>7, <1>8, <1>9, <1>10, <1>11, <1>12, <1>13, <1>14, <1>15

\* What the counters say with what the one worker has in its hands.
LEMMA FromHands ==
    ASSUME OneWorker, NEW w \in Workers, OperationsTypeOK, Outcomes
    PROVE  /\ count["submitted"] = Cardinality(Having("submitted")) + Commits(w)
           /\ count["needs_review"] = Cardinality(EverParked)
           /\ count["rejected"] = Cardinality(Having("rejected"))
           /\ count["failed"] >= Cardinality(Having("failed"))
           /\ count["auto_approved"] >= Cardinality(AutoSubmitted) + InHand(w)
           /\ count["auto_approved"] <=
                 Cardinality(AutoSubmitted) + InHand(w) + count["erp_failure"]
           /\ Cardinality(Having("submitted")) \in Nat
           /\ Cardinality(EverParked) \in Nat
           /\ Cardinality(Having("failed")) \in Nat
           /\ Cardinality(AutoSubmitted) \in Nat
           /\ \A c \in Counters : count[c] \in Nat
<1>1. /\ count["submitted"] = Cardinality(Having("submitted")) + Commits(w)
      /\ count["needs_review"] = Cardinality(EverParked)
      /\ count["rejected"] = Cardinality(Having("rejected"))
      /\ count["failed"] >= Cardinality(Having("failed"))
      /\ count["auto_approved"] >= Cardinality(AutoSubmitted) + InHand(w)
      /\ count["auto_approved"] <=
            Cardinality(AutoSubmitted) + InHand(w) + count["erp_failure"]
  BY HandsCount DEF Outcomes, OutcomesCounted, EverParked
<1>2. /\ Cardinality(Having("submitted")) \in Nat
      /\ Cardinality(EverParked) \in Nat
      /\ Cardinality(Having("failed")) \in Nat
      /\ Cardinality(AutoSubmitted) \in Nat
      /\ \A c \in Counters : count[c] \in Nat
  BY FS_CardinalityType DEF Outcomes, Countable, OperationsTypeOK
<1>. QED
  BY <1>1, <1>2

LEMMA ToHands ==
    ASSUME OneWorker, NEW w \in Workers, Countable',
           count'["submitted"] = Cardinality(Having("submitted")') + Commits(w)',
           count'["needs_review"] = Cardinality(EverParked'),
           count'["rejected"] = Cardinality(Having("rejected")'),
           count'["failed"] >= Cardinality(Having("failed")'),
           count'["auto_approved"] >= Cardinality(AutoSubmitted') + InHand(w)',
           count'["auto_approved"] <=
              Cardinality(AutoSubmitted') + InHand(w)' + count'["erp_failure"],
           \A d \in Docs : doc'[d].status = "absent" => doc'[d].decision = "none",
           InHand(w)' = 0
    PROVE  Outcomes'
<1>1. OutcomesCounted'
  BY HandsCount DEF OutcomesCounted, EverParked
<1>2. \A v \in AutoInHand' : Invoice(v)'.grade = "clean"
  BY DEF InHand, OneWorker, AutoInHand
<1>. QED
  BY <1>1, <1>2 DEF Outcomes

\* A document is parked, and counted, once: it came from the queue.
LEMMA ParkedOnce ==
    ASSUME OneWorker, OperationsInvariant, OperationsTypeOK', Outcomes,
           NEW w \in Workers, CountParked(w)
    PROVE  Outcomes'
<1>. DEFINE d == DocOf(w)
<1>1. Invariant /\ OperationsTypeOK /\ Increment({"needs_review"})
  BY DEF OperationsInvariant, CountParked
<1>2. /\ Comes(d, "needs_review")
      /\ doc[d].status = "queued"
      /\ doc[d].decision = "none"
      /\ doc'[d].decision \in {"none", "needs_review"}
      /\ worker[w].pc \in {"extracting", "deciding"}
      /\ worker'[w].pc = "done"
  BY <1>1, ParkComes DEF CountParked
<1>3. /\ InHand(w) = 0 /\ InHand(w)' = 0
      /\ Commits(w) = 0 /\ Commits(w)' = 0
  <2>1. worker[w].row.decision = "none"
    BY <1>1, <1>2 DEF Invariant, TransactionShape, Shape, At
  <2>. QED
    BY <1>2, <2>1, Hands DEF InTransaction
<1>4. /\ d \notin Having("needs_review")
      /\ Having("needs_review")' = Having("needs_review") \cup {d}
      /\ Having("submitted")' = Having("submitted")
      /\ Having("rejected")' = Having("rejected")
      /\ Having("failed")' = Having("failed")
  BY <1>2, ComingCounts
<1>5. /\ d \notin Reviewed
      /\ Reviewed' = Reviewed
      /\ AutoSubmitted' = AutoSubmitted
  BY <1>2, <1>4 DEF Comes, Reviewed, AutoSubmitted, Having
<1>6. d \notin EverParked /\ EverParked' = EverParked \cup {d}
  BY <1>4, <1>5 DEF EverParked
<1>7. /\ Cardinality(EverParked') = Cardinality(EverParked) + 1
      /\ Countable'
  BY <1>4, <1>5, <1>6, FS_AddElement DEF Outcomes, Countable
<1>8. \A c \in Counters : count'[c] = IF c = "needs_review" THEN count[c] + 1 ELSE count[c]
  BY <1>1, Incremented
<1>9. \A e \in Docs : doc'[e].status = "absent" => doc'[e].decision = "none"
  BY <1>2 DEF Comes, Outcomes
<1>10. /\ count'["needs_review"] = count["needs_review"] + 1
       /\ \A c \in {"submitted", "rejected", "failed", "auto_approved", "erp_failure"} :
             count'[c] = count[c]
  BY <1>8 DEF Counters
<1>. QED
  BY <1>1, <1>3, <1>4, <1>5, <1>7, <1>9, <1>10, FromHands, ToHands

\* A document fails, and is counted then, once more than it was for nothing.
LEMMA FailedOnce ==
    ASSUME OneWorker, OperationsInvariant, OperationsTypeOK', AttemptsInOrder, Outcomes,
           NEW w \in Workers, CountExhausted(w)
    PROVE  Outcomes'
<1>. DEFINE d == DocOf(w)
<1>1. Invariant /\ OperationsTypeOK
  BY DEF OperationsInvariant
<1>2. /\ Comes(d, "failed")
      /\ doc[d].status \in {"queued", "approved"}
      /\ TransitionAllowed(doc[d].status, "failed")
      /\ doc'[d].decision = doc[d].decision
      /\ worker[w].pc = "exhausted"
      /\ worker'[w].pc = "deadletter"
  BY <1>1, FailureComes DEF CountExhausted
<1>3. /\ InHand(w) = 0 /\ InHand(w)' = 0
      /\ Commits(w) = 0 /\ Commits(w)' = 0
  BY <1>2, Hands DEF InTransaction
<1>4. /\ d \notin Having("failed")
      /\ Having("failed")' = Having("failed") \cup {d}
      /\ Having("needs_review")' = Having("needs_review")
      /\ Having("submitted")' = Having("submitted")
      /\ Having("rejected")' = Having("rejected")
  BY <1>2, ComingCounts
<1>5. Reviewed' = Reviewed /\ AutoSubmitted' = AutoSubmitted
  BY <1>2, <1>4 DEF Comes, Reviewed, AutoSubmitted, Having
<1>6. EverParked' = EverParked
  BY <1>4, <1>5 DEF EverParked
<1>7. /\ Cardinality(Having("failed")') = Cardinality(Having("failed")) + 1
      /\ Countable'
  BY <1>4, <1>5, <1>6, FS_AddElement DEF Outcomes, Countable
<1>8. Increment({"failed"})
  BY <1>2 DEF CountExhausted
<1>9. \A c \in Counters : count'[c] = IF c = "failed" THEN count[c] + 1 ELSE count[c]
  BY <1>8, Incremented
<1>10. \A e \in Docs : doc'[e].status = "absent" => doc'[e].decision = "none"
  BY <1>2 DEF Comes, Outcomes
<1>11. /\ count'["failed"] = count["failed"] + 1
       /\ \A c \in {"submitted", "rejected", "needs_review", "auto_approved", "erp_failure"} :
             count'[c] = count[c]
  BY <1>9 DEF Counters
<1>12. /\ count["failed"] \in Nat
       /\ Cardinality(Having("failed")) \in Nat
       /\ count["failed"] >= Cardinality(Having("failed"))
  BY <1>1, FromHands DEF Counters
<1>13. count'["failed"] >= Cardinality(Having("failed")')
  BY <1>7, <1>11, <1>12
<1>. QED
  BY <1>1, <1>3, <1>4, <1>5, <1>6, <1>7, <1>10, <1>11, <1>13, FromHands, ToHands

\* A submission was counted before it is committed; the machine's approval
\* goes from the worker's hands into the table.
LEMMA SubmittedOnce ==
    ASSUME OneWorker, OperationsInvariant, OperationsTypeOK', Outcomes,
           NEW w \in Workers, CommitSubmission(w), UNCHANGED count
    PROVE  Outcomes'
<1>. DEFINE d == DocOf(w)
<1>1. Invariant /\ OperationsTypeOK
  BY DEF OperationsInvariant
<1>2. /\ Comes(d, "submitted")
      /\ worker[w].pc = "committing"
      /\ worker'[w].pc = "done"
      /\ doc'[d].decision = worker[w].row.decision
      /\ \/ /\ doc[d].status = "queued"
            /\ doc[d].decision = "none"
            /\ worker[w].row.decision = "auto_approve"
         \/ /\ doc[d].status = "approved"
            /\ doc[d].decision = "human_approve"
            /\ worker[w].row.decision = "human_approve"
  BY <1>1, SubmissionComes
<1>3. /\ InHand(w) = (IF worker[w].row.decision = "auto_approve" THEN 1 ELSE 0)
      /\ InHand(w)' = 0
      /\ Commits(w) = 1 /\ Commits(w)' = 0
  BY <1>2, Hands DEF InTransaction
<1>4. /\ d \notin Having("submitted")
      /\ Having("submitted")' = Having("submitted") \cup {d}
      /\ Having("needs_review")' = Having("needs_review")
      /\ Having("rejected")' = Having("rejected")
      /\ Having("failed")' = Having("failed")
  BY <1>2, ComingCounts
<1>5. EverParked' = EverParked
  <2>1. Reviewed' = Reviewed
    BY <1>2 DEF Comes, Reviewed
  <2>. QED
    BY <1>4, <2>1 DEF EverParked
<1>6. /\ d \notin AutoSubmitted
      /\ AutoSubmitted' = IF worker[w].row.decision = "auto_approve"
                          THEN AutoSubmitted \cup {d} ELSE AutoSubmitted
  BY <1>2, <1>4 DEF Comes, AutoSubmitted, Having
<1>7. /\ Cardinality(Having("submitted")') = Cardinality(Having("submitted")) + 1
      /\ IsFiniteSet(Having("submitted")')
  BY <1>4, FS_AddElement DEF Outcomes, Countable
<1>8. /\ IsFiniteSet(AutoSubmitted')
      /\ Cardinality(AutoSubmitted') = Cardinality(AutoSubmitted) + InHand(w)
  <2>1. IsFiniteSet(AutoSubmitted) /\ Cardinality(AutoSubmitted) \in Nat
    BY FS_CardinalityType DEF Outcomes, Countable
  <2>2. CASE worker[w].row.decision = "auto_approve"
    BY <1>3, <1>6, <2>1, <2>2, FS_AddElement
  <2>3. CASE worker[w].row.decision # "auto_approve"
    BY <1>3, <1>6, <2>1, <2>3
  <2>. QED
    BY <2>2, <2>3
<1>9. Countable'
  BY <1>4, <1>5, <1>7, <1>8 DEF Outcomes, Countable
<1>10. \A e \in Docs : doc'[e].status = "absent" => doc'[e].decision = "none"
  BY <1>2 DEF Comes, Outcomes
<1>11. InHand(w) \in {0, 1} /\ \A c \in Counters : count'[c] = count[c]
  BY <1>3
<1>12. /\ count'["submitted"] = Cardinality(Having("submitted")') + Commits(w)'
       /\ count'["auto_approved"] >= Cardinality(AutoSubmitted') + InHand(w)'
       /\ count'["auto_approved"] <=
             Cardinality(AutoSubmitted') + InHand(w)' + count'["erp_failure"]
  BY <1>1, <1>3, <1>7, <1>8, <1>11, FromHands DEF Counters
<1>. QED
  BY <1>1, <1>3, <1>4, <1>5, <1>9, <1>10, <1>11, <1>12, FromHands, ToHands DEF Counters

\* Row d, and no other, goes from one status to another, decided so.
Turns(d, old, new, decision) ==
    /\ d \in Docs
    /\ doc[d].status = old
    /\ doc'[d].status = new
    /\ doc'[d].decision = decision
    /\ \A e \in Docs : e # d => doc'[e] = doc[e]

\* What an observed step of the API does to the rows, and what it counts.
LEMMA RequestTurns ==
    ASSUME Invariant, NEW h \in Handlers, ObservedRequestStep(h) \/ ObservedClientStep(h)
    PROVE  \/ UNCHANGED doc /\ (UNCHANGED count \/ Increment({"ingested"}))
           \/ /\ UNCHANGED count
              /\ \E d \in Docs : \/ Turns(d, "absent", "queued", "none")
                                 \/ Turns(d, "needs_review", "approved", "human_approve")
           \/ /\ Increment({"rejected"})
              /\ \E d \in Docs : Turns(d, "needs_review", "rejected", "rejected")
<1>1. doc \in [Docs -> Rows]
  BY DEF Invariant, TypeOK
<1>2. ASSUME NEW d \in Docs, NEW invoice, doc[d].status = "needs_review",
             CommitApproval(h, d, invoice)
      PROVE  Turns(d, "needs_review", "approved", "human_approve")
  <2>1. doc' = [doc EXCEPT ![d] = [@ EXCEPT !.extraction = invoice,
                                            !.decision = "human_approve",
                                            !.status = "approved"]]
    BY <1>2 DEF CommitApproval
  <2>. QED
    BY <1>1, <1>2, <2>1 DEF Turns, Rows
<1>3. CASE CountRejected(h)
  <2>1. PICK d \in Docs : Reject(h, d)
    BY <1>3 DEF CountRejected
  <2>2. /\ doc[d].status = "needs_review"
        /\ doc' = [doc EXCEPT ![d] = [@ EXCEPT !.decision = "rejected",
                                               !.status = "rejected"]]
    BY <2>1 DEF Reject, Reviewable
  <2>3. Turns(d, "needs_review", "rejected", "rejected")
    BY <1>1, <2>2 DEF Turns, Rows
  <2>. QED
    BY <1>3, <2>3 DEF CountRejected
<1>4. CASE CreateDocument(h) /\ UNCHANGED count
  <2>1. /\ handler[h].doc \in Docs
        /\ doc[handler[h].doc].status = "absent"
        /\ doc' = [doc EXCEPT ![handler[h].doc] = WithStatus(NoRow, "queued")]
    BY <1>4 DEF CreateDocument, Invariant, TaskNamesRow
  <2>2. Turns(handler[h].doc, "absent", "queued", "none")
    BY <1>1, <2>1 DEF Turns, WithStatus, NoRow
  <2>. QED
    BY <1>4, <2>1, <2>2
<1>5. ASSUME NEW d \in Docs, Approve(h, d), UNCHANGED count
      PROVE  Turns(d, "needs_review", "approved", "human_approve")
  BY <1>2, <1>5 DEF Approve, Reviewable
<1>6. CASE ApproveEdited(h) /\ UNCHANGED count
  <2>1. /\ handler[h].doc \in Docs
        /\ doc[handler[h].doc].status = "needs_review"
        /\ CommitApproval(h, handler[h].doc, handler[h].edit)
    BY <1>6 DEF ApproveEdited, Invariant, TransactionShape, EditShape
  <2>2. Turns(handler[h].doc, "needs_review", "approved", "human_approve")
    BY <1>2, <2>1
  <2>. QED
    BY <1>6, <2>1, <2>2
<1>7. CASE ~(\/ CountRejected(h) \/ CreateDocument(h) \/ ApproveEdited(h)
             \/ \E d \in Docs : Approve(h, d))
  BY <1>7 DEF ObservedRequestStep, ObservedClientStep, CountIngested, EnqueueUpload,
     LoseUploadRace, UploadEnqueueFails, ReviewStep, EnqueueResume, ResumeEnqueueFails,
     ReplayUpload, StartUpload, CheckEdit, ApiCrash, store
<1>8. CASE ~CountRejected(h) /\ \/ CreateDocument(h) \/ ApproveEdited(h)
                                \/ \E d \in Docs : Approve(h, d)
  <2>1. UNCHANGED count
    <3>1. CASE CountIngested(h)
      <4>1. handler[h].pc = "enqueueing" /\ doc' = doc
        BY <3>1 DEF CountIngested, EnqueueUpload, store
      <4>. QED
        BY <1>8, <4>1 DEF CreateDocument, ApproveEdited, Approve, Reviewable
    <3>2. CASE ~CountIngested(h)
      BY <1>8, <3>2 DEF ObservedRequestStep, ObservedClientStep
    <3>. QED
      BY <3>1, <3>2
  <2>. QED
    BY <1>4, <1>5, <1>6, <1>8, <2>1
<1>. QED
  BY <1>3, <1>7, <1>8

\* No request parks or submits: a reviewer's decision moves a document that
\* was counted as parked, and a rejection is counted with its commit.
LEMMA OutcomesInRequests ==
    ASSUME OperationsInvariant, OperationsTypeOK', Outcomes,
           NEW h \in Handlers, ObservedRequestStep(h) \/ ObservedClientStep(h)
    PROVE  Outcomes'
<1>1. Invariant /\ Api(h) /\ UNCHANGED worker
  BY ObservedRequests, RequestRows DEF OperationsInvariant
<1>2. /\ Having("submitted")' = Having("submitted")
      /\ Having("failed")' = Having("failed")
      /\ AutoSubmitted' = AutoSubmitted
  BY <1>1, RequestRows
<1>3. AutoInHand' = AutoInHand /\ Committing' = Committing
  BY <1>1 DEF AutoInHand, Committing, At
<1>4. \A w \in AutoInHand' : Invoice(w)'.grade = "clean"
  BY <1>1, <1>3 DEF Outcomes, Invoice
<1>5. ASSUME EverParked' = EverParked, IsFiniteSet(Having("rejected")'),
             count'["rejected"] = Cardinality(Having("rejected")'),
             \A c \in Counters \ {"ingested", "rejected"} : count'[c] = count[c],
             \A d \in Docs : doc'[d].status = "absent" => doc'[d].decision = "none"
      PROVE  Outcomes'
  <2>1. Countable'
    BY <1>2, <1>5 DEF Outcomes, Countable
  <2>2. OutcomesCounted'
    BY <1>2, <1>3, <1>5 DEF Outcomes, OutcomesCounted, Counters, EverParked
  <2>. QED
    BY <1>4, <1>5, <2>1, <2>2 DEF Outcomes
<1>6. ASSUME UNCHANGED count \/ Increment({"ingested"}), EverParked' = EverParked,
             Having("rejected")' = Having("rejected"),
             \A d \in Docs : doc'[d].status = "absent" => doc'[d].decision = "none"
      PROVE  Outcomes'
  <2>1. \A c \in Counters \ {"ingested"} : count'[c] = count[c]
    BY <1>6, Incremented
  <2>. QED
    BY <1>5, <1>6, <2>1 DEF Outcomes, OutcomesCounted, Countable, Counters
<1>7. CASE UNCHANGED doc /\ (UNCHANGED count \/ Increment({"ingested"}))
  BY <1>6, <1>7 DEF EverParked, Having, Reviewed, Outcomes
<1>8. ASSUME UNCHANGED count, NEW d \in Docs, Turns(d, "absent", "queued", "none")
      PROVE  Outcomes'
  <2>1. doc[d].decision = "none"
    BY <1>8 DEF Outcomes, Turns
  <2>2. EverParked' = EverParked /\ Having("rejected")' = Having("rejected")
    BY <1>8, <2>1 DEF Turns, EverParked, Having, Reviewed
  <2>. QED
    BY <1>6, <1>8, <2>2 DEF Turns, Outcomes
<1>9. ASSUME UNCHANGED count, NEW d \in Docs,
             Turns(d, "needs_review", "approved", "human_approve")
      PROVE  Outcomes'
  <2>1. EverParked' = EverParked /\ Having("rejected")' = Having("rejected")
    BY <1>9 DEF Turns, EverParked, Having, Reviewed
  <2>. QED
    BY <1>6, <1>9, <2>1 DEF Turns, Outcomes
<1>10. ASSUME Increment({"rejected"}), NEW d \in Docs,
              Turns(d, "needs_review", "rejected", "rejected")
       PROVE  Outcomes'
  <2>1. /\ EverParked' = EverParked
        /\ d \notin Having("rejected")
        /\ Having("rejected")' = Having("rejected") \cup {d}
    BY <1>10 DEF Turns, EverParked, Having, Reviewed
  <2>2. \A c \in Counters : count'[c] = IF c = "rejected" THEN count[c] + 1 ELSE count[c]
    BY <1>10, Incremented
  <2>3. /\ IsFiniteSet(Having("rejected"))
        /\ count["rejected"] = Cardinality(Having("rejected"))
    BY DEF Outcomes, OutcomesCounted, Countable
  <2>4. /\ IsFiniteSet(Having("rejected")')
        /\ Cardinality(Having("rejected")') = Cardinality(Having("rejected")) + 1
    BY <2>1, <2>3, FS_AddElement
  <2>5. /\ count'["rejected"] = Cardinality(Having("rejected")')
        /\ \A c \in Counters \ {"ingested", "rejected"} : count'[c] = count[c]
    BY <2>2, <2>3, <2>4 DEF Counters
  <2>. QED
    BY <1>5, <1>10, <2>1, <2>4, <2>5 DEF Turns, Outcomes
<1>. QED
  BY <1>1, <1>7, <1>8, <1>9, <1>10, RequestTurns

\* The outcome counters agree with the table (_record_outcome inside the
\* transactions of process_document, and the rejection in review.py), with
\* one worker that does not crash and an ERP that answers.
THEOREM CountersTellOutcomes ==
    ASSUME OneWorker, {"workerCrash", "erpTransport"} \cap Faults = {}
    PROVE  OperationsSpec => []OutcomesCounted
<1>1. OperationsInit => Outcomes
  <2>. SUFFICES ASSUME OperationsInit
                PROVE  Outcomes
    OBVIOUS
  <2>1. /\ \A status \in {"submitted", "needs_review", "rejected", "failed"} :
              Having(status) = {}
        /\ Reviewed = {}
        /\ AutoSubmitted = {}
        /\ AutoInHand = {}
        /\ Committing = {}
    BY DEF OperationsInit, Init, Having, Reviewed, AutoSubmitted, AutoInHand,
       Committing, NoRow, IdleWorker, At, InTransaction
  <2>2. Having("needs_review") \cup Reviewed = {}
    BY <2>1
  <2>3. \A c \in Counters : count[c] = 0
    BY DEF OperationsInit
  <2>4. \A d \in Docs : doc[d].decision = "none"
    BY DEF OperationsInit, Init, NoRow
  <2>. QED
    BY <2>1, <2>2, <2>3, <2>4, FS_EmptySet
    DEF Outcomes, OutcomesCounted, Countable, EverParked, Counters
<1>2. ASSUME OperationsInvariant, WorkIsCurrent, AttemptsInOrder, Outcomes,
             [OperationsNext]_<<vars, operationsVars>>
      PROVE  Outcomes'
  <2>1. OperationsTypeOK'
    BY <1>2, OperationsKeeps DEF OperationsInvariant
  <2>2. CASE UNCHANGED <<doc, worker, count>>
    BY <1>2, <2>2 DEF Outcomes, OutcomesCounted, Countable, EverParked, Having,
       Reviewed, AutoSubmitted, AutoInHand, Committing, At, Invoice
  <2>3. ASSUME NEW w \in Workers, ObservedWorkerStep(w)
        PROVE  Outcomes'
    <3>1. CASE CommitSubmission(w) /\ UNCHANGED count
      BY <1>2, <2>1, <3>1, SubmittedOnce
    <3>. QED
      BY <1>2, <2>1, <2>3, <3>1, ParkedOnce, FailedOnce, OutcomesInWork
      DEF ObservedWorkerStep, CountNothing
  <2>4. ASSUME NEW w \in Workers, Interruption(w)
        PROVE  Outcomes'
    <3>1. Redeliver(w)
      BY <2>4 DEF Interruption, WorkerCrash
    <3>. QED
      BY <2>2, <2>4, <3>1 DEF Interruption, Redeliver, store, operationsVars
  <2>5. ASSUME NEW h \in Handlers, ObservedRequestStep(h) \/ ObservedClientStep(h)
        PROVE  Outcomes'
    BY <1>2, <2>1, <2>5, OutcomesInRequests
  <2>6. ASSUME NEW d \in Watched, Poll(d)
        PROVE  Outcomes'
    BY <2>2, <2>6 DEF Poll, ReadRow, SearchLetters, vars
  <2>. QED
    BY <1>2, <2>2, <2>3, <2>4, <2>5, <2>6 DEF OperationsNext, vars, operationsVars
<1>3. Outcomes => OutcomesCounted
  BY DEF Outcomes
<1>. QED
  BY <1>1, <1>2, <1>3, OperationsInductive, OperationsImplementPipeline,
     WorkStaysCurrent, AttemptsStayInOrder, PTL DEF OperationsSpec

-----------------------------------------------------------------------------
(***************************************************************************)
(* The ERP's counter of successes, with one worker.                        *)
(***************************************************************************)
Creates == IsFiniteSet(erp) /\ ErpCountersExact

\* No other step asks the ERP for an invoice, or counts a success.
LEMMA OthersCreateNothing ==
    ASSUME OperationsInvariant, "erpTransport" \notin Faults,
           [OperationsNext]_<<vars, operationsVars>>,
           \A w \in Workers : ~CountCreated(w)
    PROVE  erp' = erp /\ count'["erp_success"] = count["erp_success"]
<1>1. \A names : Increment(names) /\ "erp_success" \notin names =>
         count'["erp_success"] = count["erp_success"]
  BY DEF Increment, Counters
<1>2. ASSUME NEW w \in Workers, ObservedWorkerStep(w)
      PROVE  erp' = erp /\ count'["erp_success"] = count["erp_success"]
  <2>1. CASE \/ CountParked(w) \/ CountExtractionFailed(w) \/ CountAutoApproval(w)
             \/ CountErpTransient(w) \/ CountRefused(w)
    BY <1>1, <2>1 DEF CountParked, CountExtractionFailed, CountAutoApproval,
       CountErpTransient, CountRefused, ParkUnreadable, Park, ExtractionFails,
       AutoApprove, ErpTransient, SubmissionRefused
  <2>2. CASE CountSubmitted(w) \/ CountRetry(w) \/ CountExhausted(w) \/ PushLetter(w)
    BY <1>1, <2>2 DEF CountSubmitted, CountRetry, CountExhausted, PushLetter,
       CheckLedger, RecordRetry, MarkExhausted, DeadLetter
  <2>3. CASE CountNothing(w)
    <3>1. ~CreateUnanswered(w)
      BY DEF CreateUnanswered
    <3>. QED
      BY <2>3, <3>1 DEF CountNothing, Receive, SkipSettled, ClaimQueued, ClaimApproved,
         Claim, Extract, ProviderTransient, LookupUnanswered, CommitSubmission,
         LedgerConflict, Retry, RetryPublishFails, DeadLetterFails, Acknowledge
  <2>. QED
    BY <1>2, <2>1, <2>2, <2>3 DEF ObservedWorkerStep
<1>3. ASSUME NEW w \in Workers, Interruption(w)
      PROVE  erp' = erp /\ count'["erp_success"] = count["erp_success"]
  BY <1>3 DEF Interruption, WorkerCrash, Redeliver, operationsVars
<1>4. ASSUME NEW h \in Handlers, ObservedRequestStep(h) \/ ObservedClientStep(h)
      PROVE  erp' = erp /\ count'["erp_success"] = count["erp_success"]
  <2>1. erp' = erp
    BY <1>4, ObservedRequests, RequestRows DEF OperationsInvariant
  <2>. QED
    BY <1>1, <1>4, <2>1 DEF ObservedRequestStep, ObservedClientStep, CountIngested,
       CountRejected
<1>5. ASSUME NEW d \in Watched, Poll(d)
      PROVE  erp' = erp /\ count'["erp_success"] = count["erp_success"]
  BY <1>5 DEF Poll, ReadRow, SearchLetters, vars
<1>. QED
  BY <1>2, <1>3, <1>4, <1>5 DEF OperationsNext, vars, operationsVars

\* docflow_erp_submissions_total{outcome="success"} is the number of invoices
\* in the ERP (_submit_approved_invoice): a worker that asks for an invoice
\* has its document queued or approved, and no such document has one there.
THEOREM SuccessesAreInvoices ==
    ASSUME OneWorker, {"workerCrash", "erpTransport"} \cap Faults = {}
    PROVE  OperationsSpec => []ErpCountersExact
<1>1. OperationsInit => Creates
  BY FS_EmptySet DEF OperationsInit, Init, Creates, ErpCountersExact, Counters
<1>2. ASSUME OperationsInvariant, NoStrayInvoice, Creates,
             [OperationsNext]_<<vars, operationsVars>>
      PROVE  Creates'
  <2>1. ASSUME NEW w \in Workers, CountCreated(w)
        PROVE  Creates'
    <3>1. /\ worker[w].pc = "submitting"
          /\ erp' = erp \cup {ErpKey(w)}
          /\ Increment({"erp_success"})
      BY <2>1 DEF CountCreated, CreateInvoice, At
    <3>2. doc[DocOf(w)].status \in {"queued", "approved"}
      BY <1>2, <3>1 DEF OperationsInvariant, Invariant, TransactionShape, Shape,
         ReadyToSubmit
    <3>3. ErpKey(w) \notin erp
      <4>1. ErpKey(w)[1] = DocOf(w)
        BY DEF ErpKey
      <4>2. \A v \in Workers : worker[v].pc \notin {"recording", "committing"}
        BY <3>1 DEF OneWorker
      <4>. QED
        BY <1>2, <3>2, <4>1, <4>2 DEF NoStrayInvoice
    <3>4. count'["erp_success"] = count["erp_success"] + 1
      BY <3>1 DEF Increment, Counters
    <3>. QED
      BY <1>2, <3>1, <3>3, <3>4, FS_AddElement DEF Creates, ErpCountersExact
  <2>2. CASE \A w \in Workers : ~CountCreated(w)
    <3>1. erp' = erp /\ count'["erp_success"] = count["erp_success"]
      BY <1>2, <2>2, OthersCreateNothing
    <3>. QED
      BY <1>2, <3>1 DEF Creates, ErpCountersExact
  <2>. QED
    BY <2>1, <2>2
<1>3. Creates => ErpCountersExact
  BY DEF Creates
<1>. QED
  BY <1>1, <1>2, <1>3, OperationsInductive, OperationsImplementPipeline,
     EveryInvoiceAccounted, PTL DEF OperationsSpec

=============================================================================
