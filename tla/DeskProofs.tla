----------------------------- MODULE DeskProofs -----------------------------
(***************************************************************************)
(* Desk drives Pipeline and adds nothing to what it may do, and what it    *)
(* tells a reviewer stands: VerdictStands for any documents, workers,      *)
(* threads, reviewers, retries and faults.                                 *)
(*                                                                         *)
(* A row that was ever parked never waits for extraction again, and once   *)
(* decided it keeps its extraction and decision (RowsAdvance).  So a stale *)
(* page is harmless: it shows the extraction an approve will submit for as *)
(* long as the approve is not in vain.  And a thread that serves a desk    *)
(* serves one, so the answer a reviewer waits for is about his document.   *)
(*                                                                         *)
(* What the ERP has of a document is what was decided of it, if messages   *)
(* are delivered once (BilledAsDecided of WorkProofs).  With the verdicts  *)
(* that stand this is VerdictBilled: nothing is billed beside them.        *)
(***************************************************************************)
EXTENDS Desk, WorkProofs

\* Document d is approved, with this invoice, whatever the worker does next.
Settled(d, invoice) ==
    /\ doc[d].status \in {"approved", "submitted", "failed"}
    /\ doc[d].decision = "human_approve"
    /\ doc[d].extraction = invoice

\* The page and the request of reviewer u are about a document that has been
\* parked, and about the invoice his verdict will stand for.
Session(u) ==
    LET d == desk[u].doc
        h == desk[u].thread
    IN  /\ desk[u].pc # "page" =>
              d \in Docs /\ doc[d].status \notin {"absent", "queued"}
        /\ desk[u].pc = "pressed" /\ doc[d].status = "needs_review" =>
              desk[u].shown = doc[d].extraction
        /\ desk[u].pc = "waiting" =>
              /\ h \in Handlers
              /\ handler[h].doc = d
              /\ \/ handler[h].pc = "editing" /\ handler[h].edit = desk[u].shown
                 \/ handler[h].pc = "resuming" /\ Settled(d, desk[u].shown)

\* No two reviewers wait for the same thread.
OneDeskPerThread ==
    \A u, v \in Reviewers :
        /\ desk[u].pc = "waiting"
        /\ desk[v].pc = "waiting"
        /\ desk[u].thread = desk[v].thread
        => u = v

Stands(verdict) ==
    \/ verdict.outcome = "approved" /\ Settled(verdict.doc, verdict.invoice)
    \/ /\ verdict.outcome = "rejected"
       /\ verdict.invoice = None
       /\ doc[verdict.doc].status = "rejected"

DeskInvariant ==
    /\ Invariant
    /\ DeskTypeOK
    /\ \A u \in Reviewers : Session(u)
    /\ OneDeskPerThread
    /\ \A verdict \in told : Stands(verdict)

-----------------------------------------------------------------------------
(***************************************************************************)
(* Desk beside Pipeline.                                                   *)
(***************************************************************************)

\* Every step at a desk is one of the pipeline, or leaves it alone.
LEMMA DeskStepsPipeline ==
    ASSUME DeskInvariant, [DeskNext]_<<vars, deskVars>>
    PROVE  [Next]_vars
<1>1. CASE UNCHANGED <<vars, deskVars>>
  BY <1>1
<1>2. ASSUME NEW u \in Reviewers, DeskStep(u)
      PROVE  [Next]_vars
  <2>1. desk[u].pc # "page" => desk[u].doc \in Docs
    BY DEF DeskInvariant, Session
  <2>2. CASE Rerun(u) \/ RerunEmpty(u) \/ LoadDetail(u) \/ AnswerLate(u)
    BY <2>2 DEF Rerun, RerunEmpty, LoadDetail, AnswerLate
  <2>3. ASSUME NEW h \in Handlers,
               PressApprove(u, h) \/ PressEdit(u, h) \/ PressReject(u, h)
        PROVE  [Next]_vars
    <3>1. desk[u].doc \in Docs
      BY <2>1, <2>3 DEF PressApprove, PressEdit, PressReject, Pressed
    <3>2. \E d \in Docs : Approve(h, d) \/ CheckEdit(h, d) \/ Reject(h, d)
      BY <2>3, <3>1 DEF PressApprove, PressEdit, PressReject
    <3>. QED
      BY <3>2 DEF Next, Api
  <2>4. ASSUME NEW h \in Handlers, PressInVain(u, h)
        PROVE  [Next]_vars
    BY <2>4 DEF PressInVain
  <2>5. CASE AnswerAccepted(u) \/ AnswerLost(u)
    <3>1. desk[u].pc = "waiting"
      BY <2>5 DEF AnswerAccepted, AnswerLost
    <3>2. desk[u].thread \in Handlers
      BY <3>1 DEF DeskInvariant, Session
    <3>3. \/ EnqueueResume(desk[u].thread)
          \/ ResumeEnqueueFails(desk[u].thread)
          \/ ApiCrash(desk[u].thread)
      BY <2>5 DEF AnswerAccepted, AnswerLost
    <3>. QED
      BY <3>2, <3>3 DEF Next, Api, ReviewStep
  <2>. QED
    BY <1>2, <2>2, <2>3, <2>4, <2>5 DEF DeskStep
<1>3. ASSUME NEW h \in Handlers, Api(h) \/ ApproveEdited(h)
      PROVE  [Next]_vars
  BY <1>3 DEF Next, Api, ReviewStep
<1>4. ASSUME NEW w \in Workers, WorkerStep(w) \/ WorkerCrash(w) \/ Redeliver(w)
      PROVE  [Next]_vars
  BY <1>4 DEF Next
<1>. QED
  BY <1>1, <1>2, <1>3, <1>4 DEF DeskNext

\* What a row that has been parked may still become.
LEMMA RowsAdvance ==
    ASSUME Invariant, [Next]_vars, NEW d \in Docs,
           doc[d].status \notin {"absent", "queued"}
    PROVE  /\ doc'[d].status \notin {"absent", "queued"}
           /\ doc'[d].status = "needs_review" =>
                 /\ doc[d].status = "needs_review"
                 /\ doc'[d].extraction = doc[d].extraction
           /\ \A invoice : Settled(d, invoice) => Settled(d, invoice)'
           /\ doc[d].status = "rejected" => doc'[d].status = "rejected"
<1>1. RowStep
  <2>1. CASE UNCHANGED vars
    BY <2>1 DEF RowStep, vars
  <2>2. ASSUME NEW h \in Handlers, Api(h)
        PROVE  RowStep
    BY <2>2, ApiRows DEF Invariant, RowStep
  <2>3. ASSUME NEW w \in Workers, WorkerStep(w) \/ WorkerCrash(w) \/ Redeliver(w)
        PROVE  RowStep
    BY <2>3, WorkerRows DEF Invariant, RowStep
  <2>. QED
    BY <2>1, <2>2, <2>3 DEF Next
<1>2. CASE doc'[d] = doc[d]
  BY <1>2 DEF Settled
<1>3. CASE WorkerRow(d) \/ \E h \in Handlers : ApiRow(h, d)
  <2>1. doc[d].status # "processing"
    BY DEF Invariant, NoPartialWork
  <2>. QED
    BY <1>3, <2>1 DEF WorkerRow, ApiRow, Parks, Submits, Fails, Counts, Settled
<1>. QED
  BY <1>1, <1>2, <1>3 DEF RowStep

\* The rows and requests of everyone but thread h are as h's step found them.
LEMMA Bystanders ==
    ASSUME Invariant, NEW h \in Handlers,
           Api(h) \/ UNCHANGED vars,
           NEW g \in Handlers, g # h
    PROVE  handler'[g] = handler[g]
<1>1. CASE Api(h)
  BY <1>1, ApiLocks DEF Invariant
<1>2. CASE UNCHANGED vars
  BY <1>2 DEF vars
<1>. QED
  BY <1>1, <1>2

-----------------------------------------------------------------------------
(***************************************************************************)
(* What a step leaves of the verdicts and of the sessions it is not about. *)
(***************************************************************************)
LEMMA VerdictsKept ==
    ASSUME DeskInvariant, [Next]_vars, NEW verdict \in told
    PROVE  Stands(verdict)'
<1>1. verdict.doc \in Docs /\ Stands(verdict)
  BY DEF DeskInvariant, DeskTypeOK, Verdicts
<1>2. doc[verdict.doc].status \notin {"absent", "queued"}
  BY <1>1 DEF Stands, Settled
<1>. QED
  BY <1>1, <1>2, RowsAdvance DEF Stands, DeskInvariant

LEMMA SessionKept ==
    ASSUME DeskInvariant, [Next]_vars, NEW u \in Reviewers,
           desk'[u] = desk[u],
           desk[u].pc = "waiting" =>
               handler'[desk[u].thread] = handler[desk[u].thread]
    PROVE  Session(u)'
<1>1. Session(u) /\ Invariant
  BY DEF DeskInvariant
<1>2. CASE desk[u].pc = "page"
  BY <1>2 DEF Session
<1>3. CASE desk[u].pc # "page"
  <2>1. PICK d \in Docs : d = desk[u].doc /\ doc[d].status \notin {"absent", "queued"}
    BY <1>1, <1>3 DEF Session
  <2>2. /\ doc'[d].status \notin {"absent", "queued"}
        /\ doc'[d].status = "needs_review" =>
              /\ doc[d].status = "needs_review"
              /\ doc'[d].extraction = doc[d].extraction
        /\ \A invoice : Settled(d, invoice) => Settled(d, invoice)'
    BY <1>1, <2>1, RowsAdvance
  <2>3. desk'[u].doc = d
    BY <2>1
  <2>4. desk[u].pc = "waiting" /\ Settled(d, desk[u].shown) =>
            Settled(d, desk[u].shown)'
    <3>1. PICK invoice : invoice = desk[u].shown
      OBVIOUS
    <3>2. desk'[u].shown = invoice
      BY <3>1
    <3>. QED
      BY <2>2, <3>1, <3>2 DEF Settled
  <2>. QED
    BY <1>1, <2>1, <2>2, <2>3, <2>4 DEF Session, Settled
<1>. QED
  BY <1>2, <1>3

\* A step that changes nobody's session.
LEMMA DesksIdle ==
    ASSUME DeskInvariant, [Next]_vars, UNCHANGED deskVars,
           \A u \in Reviewers : desk[u].pc = "waiting" =>
               handler'[desk[u].thread] = handler[desk[u].thread]
    PROVE  DeskInvariant'
<1>1. Invariant'
  BY StutterKeeps, ApiKeeps, WorkerKeeps DEF Next, DeskInvariant
<1>2. \A u \in Reviewers : Session(u)'
  BY SessionKept DEF deskVars
<1>3. \A verdict \in told' : Stands(verdict)'
  BY VerdictsKept DEF deskVars
<1>. QED
  BY <1>1, <1>2, <1>3 DEF DeskInvariant, DeskTypeOK, OneDeskPerThread, deskVars

\* A step of reviewer u's, who does not wait for thread h after it unless the
\* thread has just taken his request.
LEMMA DeskMoves ==
    ASSUME DeskInvariant, [Next]_vars, NEW u \in Reviewers, NEW session \in Sessions,
           desk' = [desk EXCEPT ![u] = session],
           \A v \in Reviewers : v # u /\ desk[v].pc = "waiting" =>
               /\ handler'[desk[v].thread] = handler[desk[v].thread]
               /\ session.pc = "waiting" => desk[v].thread # session.thread,
           Session(u)',
           told' \subseteq Verdicts,
           \A verdict \in told' \ told : Stands(verdict)'
    PROVE  DeskInvariant'
<1>1. Invariant'
  BY StutterKeeps, ApiKeeps, WorkerKeeps DEF Next, DeskInvariant
<1>2. /\ desk \in [Reviewers -> Sessions]
      /\ desk'[u] = session
      /\ \A v \in Reviewers : v # u => desk'[v] = desk[v]
  BY DEF DeskInvariant, DeskTypeOK
<1>3. DeskTypeOK'
  BY <1>2 DEF DeskTypeOK
<1>4. \A v \in Reviewers : Session(v)'
  BY <1>2, SessionKept
<1>5. OneDeskPerThread'
  BY <1>2 DEF OneDeskPerThread, DeskInvariant
<1>6. \A verdict \in told' : Stands(verdict)'
  BY VerdictsKept
<1>. QED
  BY <1>1, <1>3, <1>4, <1>5, <1>6 DEF DeskInvariant

-----------------------------------------------------------------------------
(***************************************************************************)
(* The steps of a reviewer.                                                *)
(***************************************************************************)

\* The thread that takes or answers u's request serves no other desk.
LEMMA OtherDesks ==
    ASSUME DeskInvariant, NEW u \in Reviewers, NEW h \in Handlers, Api(h),
           \/ handler[h].pc = "idle"
           \/ desk[u].pc = "waiting" /\ desk[u].thread = h,
           NEW v \in Reviewers, v # u, desk[v].pc = "waiting"
    PROVE  /\ desk[v].thread # h
           /\ handler'[desk[v].thread] = handler[desk[v].thread]
<1>1. /\ desk[v].thread \in Handlers
      /\ handler[desk[v].thread].pc # "idle"
  BY DEF DeskInvariant, Session
<1>2. desk[v].thread # h
  BY <1>1 DEF DeskInvariant, OneDeskPerThread
<1>. QED
  BY <1>1, <1>2, Bystanders DEF DeskInvariant

\* Reading the list or a detail, and giving up, leave the pipeline alone.
LEMMA ReadingKeeps ==
    ASSUME DeskInvariant, NEW u \in Reviewers,
           \/ Rerun(u) \/ RerunEmpty(u) \/ LoadDetail(u) \/ AnswerLate(u)
           \/ \E h \in Handlers : PressInVain(u, h)
    PROVE  DeskInvariant'
<1>1. /\ UNCHANGED <<vars, told>>
      /\ [Next]_vars
  BY DEF Rerun, RerunEmpty, LoadDetail, AnswerLate, PressInVain
<1>2. /\ UNCHANGED doc
      /\ UNCHANGED handler
      /\ UNCHANGED told
  BY <1>1 DEF vars
<1>3. desk[u] \in Sessions /\ told \subseteq Verdicts /\ doc \in [Docs -> Rows]
  BY DEF DeskInvariant, DeskTypeOK, Invariant, TypeOK
<1>4. desk \in [Reviewers -> Sessions]
  BY DEF DeskInvariant, DeskTypeOK
<1>5. ASSUME NEW session \in Sessions, session.pc # "waiting",
             desk' = [desk EXCEPT ![u] = session],
             Session(u)'
      PROVE  DeskInvariant'
  BY <1>1, <1>2, <1>3, <1>5, DeskMoves
<1>6. CASE AnswerLate(u) \/ \E h \in Handlers : PressInVain(u, h)
  <2>. DEFINE left == [desk[u] EXCEPT !.pc = "page", !.button = "none", !.thread = None]
  <2>1. desk' = [desk EXCEPT ![u] = left]
    BY <1>6 DEF AnswerLate, PressInVain, ToPage
  <2>2. left \in Sessions /\ left.pc = "page"
    BY <1>3 DEF Sessions
  <2>3. Session(u)'
    BY <2>1, <2>2, <1>4 DEF Session
  <2>. QED
    BY <2>1, <2>2, <2>3, <1>5
<1>7. CASE RerunEmpty(u)
  <2>1. NoPage \in Sessions /\ NoPage.pc = "page"
    BY DEF NoPage, Sessions
  <2>2. desk' = [desk EXCEPT ![u] = NoPage]
    BY <1>7 DEF RerunEmpty
  <2>3. Session(u)'
    BY <2>1, <2>2, <1>4 DEF Session
  <2>. QED
    BY <2>1, <2>2, <2>3, <1>5
<1>8. CASE Rerun(u)
  <2>1. PICK button \in Buttons \cup {"none"}, d \in Parked :
           desk' = [desk EXCEPT ![u] = [desk[u] EXCEPT !.pc      = "listed",
                                                       !.offered = Parked,
                                                       !.doc     = d,
                                                       !.button  = button]]
    BY <1>8 DEF Rerun
  <2>. DEFINE listed == [desk[u] EXCEPT !.pc = "listed", !.offered = Parked,
                                        !.doc = d, !.button = button]
  <2>2. d \in Docs /\ doc[d].status = "needs_review" /\ Parked \subseteq Docs
    BY DEF Parked
  <2>3. listed \in Sessions /\ listed.pc = "listed" /\ listed.doc = d
    BY <2>2, <1>3 DEF Sessions
  <2>4. Session(u)'
    BY <2>1, <2>2, <2>3, <1>2, <1>4 DEF Session
  <2>. QED
    BY <2>1, <2>3, <2>4, <1>5
<1>9. CASE LoadDetail(u)
  <2>1. /\ desk[u].pc = "listed"
        /\ desk[u].doc \in Docs
        /\ doc[desk[u].doc].status \notin {"absent", "queued"}
    BY <1>9 DEF LoadDetail, DeskInvariant, Session
  <2>. DEFINE pc     == IF desk[u].button = "none" THEN "page" ELSE "pressed"
              loaded == [desk[u] EXCEPT !.shown = doc[desk[u].doc].extraction, !.pc = pc]
  <2>2. desk' = [desk EXCEPT ![u] = loaded]
    BY <1>9 DEF LoadDetail
  <2>3. doc[desk[u].doc].extraction \in Invoices \cup {None}
    BY <2>1, <1>3 DEF Rows
  <2>4. /\ loaded \in Sessions
        /\ loaded.pc \in {"page", "pressed"}
        /\ loaded.doc = desk[u].doc
        /\ loaded.shown = doc[desk[u].doc].extraction
    BY <2>3, <1>3 DEF Sessions
  <2>. HIDE DEF loaded
  <2>5. desk'[u] = loaded
    BY <2>2, <1>4
  <2>6. Session(u)'
    BY <2>1, <2>4, <2>5, <1>2 DEF Session
  <2>. QED
    BY <2>2, <2>4, <2>6, <1>5
<1>. QED
  BY <1>6, <1>7, <1>8, <1>9

\* A command that the endpoint takes.
LEMMA PressKeeps ==
    ASSUME DeskInvariant, NEW u \in Reviewers, NEW h \in Handlers,
           PressApprove(u, h) \/ PressEdit(u, h) \/ PressReject(u, h)
    PROVE  DeskInvariant'
<1>1. /\ desk \in [Reviewers -> Sessions]
      /\ desk[u] \in Sessions
      /\ told \subseteq Verdicts
      /\ doc \in [Docs -> Rows]
      /\ handler \in [Handlers -> Requests]
  BY DEF DeskInvariant, DeskTypeOK, Invariant, TypeOK
<1>2. /\ desk[u].pc = "pressed"
      /\ Session(u)
  BY DEF PressApprove, PressEdit, PressReject, Pressed, DeskInvariant
<1>3. PICK d \in Docs : d = desk[u].doc
  BY <1>2 DEF Session
<1>4. Approve(h, d) \/ CheckEdit(h, d) \/ Reject(h, d)
  BY <1>3 DEF PressApprove, PressEdit, PressReject
<1>5. /\ Api(h)
      /\ handler[h].pc = "idle"
      /\ doc[d].status = "needs_review"
      /\ doc[d] \in Rows
  BY <1>1, <1>4 DEF Api, Approve, CheckEdit, Reject, Reviewable
<1>6. [Next]_vars
  BY <1>5 DEF Next
<1>7. ASSUME NEW session \in Sessions,
             desk' = [desk EXCEPT ![u] = session],
             session.pc = "waiting" => session.thread = h,
             Session(u)',
             told' \subseteq Verdicts,
             \A verdict \in told' \ told : Stands(verdict)'
      PROVE  DeskInvariant'
  <2>1. \A v \in Reviewers : v # u /\ desk[v].pc = "waiting" =>
           /\ handler'[desk[v].thread] = handler[desk[v].thread]
           /\ desk[v].thread # h
    BY <1>5, OtherDesks
  <2>. QED
    BY <2>1, <1>6, <1>7, DeskMoves
<1>8. ASSUME NEW invoice \in Invoices, Await(u, h, invoice), UNCHANGED told,
             handler'[h].doc = d,
             \/ handler'[h].pc = "editing" /\ handler'[h].edit = invoice
             \/ handler'[h].pc = "resuming" /\ Settled(d, invoice)',
             doc'[d].status \notin {"absent", "queued"}
      PROVE  DeskInvariant'
  <2>. DEFINE sent == [desk[u] EXCEPT !.pc = "waiting", !.shown = invoice, !.thread = h]
  <2>1. desk' = [desk EXCEPT ![u] = sent]
    BY <1>8 DEF Await
  <2>2. /\ sent \in Sessions
        /\ sent.pc = "waiting"
        /\ sent.doc = d
        /\ sent.shown = invoice
        /\ sent.thread = h
    BY <1>1, <1>3 DEF Sessions
  <2>. HIDE DEF sent
  <2>3. desk'[u] = sent
    BY <2>1, <1>1
  <2>4. Session(u)'
    BY <2>2, <2>3, <1>8 DEF Session, Settled
  <2>. QED
    BY <2>1, <2>2, <2>4, <1>1, <1>7, <1>8
<1>9. CASE PressApprove(u, h)
  <2>1. PICK invoice \in Invoices : invoice = doc[d].extraction
    BY <1>3, <1>5, <1>9 DEF PressApprove, Approve, Rows
  <2>2. desk[u].shown = invoice
    BY <1>2, <1>3, <1>5, <2>1 DEF Session
  <2>3. CommitApproval(h, d, invoice) /\ UNCHANGED told
    BY <1>3, <1>9, <2>1 DEF PressApprove, Approve
  <2>4. handler'[h].doc = d /\ handler'[h].pc = "resuming"
    BY <2>3, <1>1 DEF CommitApproval, Request
  <2>5. /\ doc'[d].status = "approved"
        /\ doc'[d].decision = "human_approve"
        /\ doc'[d].extraction = invoice
    BY <2>3, <1>1, <1>5 DEF CommitApproval, Rows
  <2>6. Settled(d, invoice)'
    BY <2>5 DEF Settled
  <2>7. Await(u, h, invoice)
    BY <1>9, <2>2 DEF PressApprove
  <2>. QED
    BY <2>3, <2>4, <2>5, <2>6, <2>7, <1>8
<1>10. CASE PressEdit(u, h)
  <2>1. PICK invoice \in Edits :
           /\ handler' = [handler EXCEPT ![h] = Request("editing", d, invoice)]
           /\ UNCHANGED doc
    BY <1>3, <1>10 DEF PressEdit, CheckEdit
  <2>2. /\ handler'[h].pc = "editing"
        /\ handler'[h].doc = d
        /\ handler'[h].edit = invoice
    BY <2>1, <1>1 DEF Request
  <2>3. Await(u, h, invoice) /\ UNCHANGED told
    BY <2>2, <1>10 DEF PressEdit
  <2>4. invoice \in Invoices
    BY ConstantsAssumption
  <2>. QED
    BY <2>1, <2>2, <2>3, <2>4, <1>5, <1>8
<1>11. CASE PressReject(u, h)
  <2>. DEFINE left    == [desk[u] EXCEPT !.pc = "page", !.button = "none", !.thread = None]
              verdict == [doc |-> d, outcome |-> "rejected", invoice |-> None]
  <2>1. /\ desk' = [desk EXCEPT ![u] = left]
        /\ told' = told \cup {verdict}
        /\ Reject(h, d)
    BY <1>3, <1>11 DEF PressReject, ToPage
  <2>2. left \in Sessions /\ left.pc = "page"
    BY <1>1 DEF Sessions
  <2>3. Session(u)'
    BY <2>1, <2>2, <1>1 DEF Session
  <2>4. doc'[d].status = "rejected"
    BY <2>1, <1>1, <1>5 DEF Reject, Rows
  <2>5. Stands(verdict)'
    BY <2>4 DEF Stands
  <2>6. told' \subseteq Verdicts
    BY <2>1, <1>1 DEF Verdicts
  <2>. QED
    BY <2>1, <2>2, <2>3, <2>5, <2>6, <1>7
<1>. QED
  BY <1>9, <1>10, <1>11

\* The answer a reviewer waits for, or its loss.
LEMMA AnswerKeeps ==
    ASSUME DeskInvariant, NEW u \in Reviewers, AnswerAccepted(u) \/ AnswerLost(u)
    PROVE  DeskInvariant'
<1>1. /\ desk \in [Reviewers -> Sessions]
      /\ desk[u] \in Sessions
      /\ told \subseteq Verdicts
  BY DEF DeskInvariant, DeskTypeOK
<1>2. desk[u].pc = "waiting" /\ Session(u)
  BY DEF AnswerAccepted, AnswerLost, DeskInvariant
<1>3. PICK h \in Handlers : h = desk[u].thread
  BY <1>2 DEF Session
<1>4. PICK d \in Docs : d = desk[u].doc
  BY <1>2 DEF Session
<1>5. PICK invoice \in Invoices \cup {None} : invoice = desk[u].shown
  BY <1>1 DEF Sessions
<1>6. /\ Api(h)
      /\ UNCHANGED doc
  BY <1>3 DEF AnswerAccepted, AnswerLost, Api, ReviewStep, EnqueueResume,
     ResumeEnqueueFails, ApiCrash, store
<1>7. [Next]_vars
  BY <1>6 DEF Next
<1>8. \A v \in Reviewers : v # u /\ desk[v].pc = "waiting" =>
         handler'[desk[v].thread] = handler[desk[v].thread]
  BY <1>2, <1>3, <1>6, OtherDesks
<1>. DEFINE left    == [desk[u] EXCEPT !.pc = "page", !.button = "none", !.thread = None]
            verdict == [doc |-> d, outcome |-> "approved", invoice |-> invoice]
<1>9. desk' = [desk EXCEPT ![u] = left]
  BY DEF AnswerAccepted, AnswerLost, ToPage
<1>10. left \in Sessions /\ left.pc = "page"
  BY <1>1 DEF Sessions
<1>11. Session(u)'
  BY <1>1, <1>9, <1>10 DEF Session
<1>12. told' \ told \subseteq {verdict} /\ verdict \in Verdicts
  BY <1>4, <1>5 DEF AnswerAccepted, AnswerLost, Verdicts
<1>13. ASSUME verdict \in told' \ told
       PROVE  Stands(verdict)'
  <2>1. handler[h].pc = "resuming"
    BY <1>3, <1>13 DEF AnswerAccepted, AnswerLost, EnqueueResume
  <2>2. Settled(d, invoice)
    BY <2>1, <1>2, <1>3, <1>4, <1>5 DEF Session
  <2>3. Settled(d, invoice)'
    BY <2>2, <1>6 DEF Settled
  <2>. QED
    BY <2>3 DEF Stands
<1>. HIDE DEF left
<1>. QED
  BY <1>1, <1>7, <1>8, <1>9, <1>10, <1>11, <1>12, <1>13, DeskMoves

-----------------------------------------------------------------------------
(***************************************************************************)
(* The steps of the others.                                                *)
(***************************************************************************)

\* The commit of an edit keeps the reviewer waiting for its answer.
LEMMA EditKeeps ==
    ASSUME DeskInvariant, NEW h \in Handlers, ApproveEdited(h), UNCHANGED deskVars
    PROVE  DeskInvariant'
<1>1. Api(h) /\ [Next]_vars
  BY DEF Next, Api, ReviewStep
<1>2. Invariant'
  BY <1>1, ApiKeeps DEF DeskInvariant
<1>3. /\ doc \in [Docs -> Rows]
      /\ handler \in [Handlers -> Requests]
      /\ handler[h].pc = "editing"
  BY DEF DeskInvariant, Invariant, TypeOK, ApproveEdited
<1>4. PICK d \in Docs, invoice \in Invoices : d = handler[h].doc /\ invoice = handler[h].edit
  BY <1>3 DEF DeskInvariant, Invariant, TransactionShape, EditShape
<1>5. /\ handler'[h].pc = "resuming"
      /\ handler'[h].doc = d
      /\ doc'[d].status = "approved"
      /\ doc'[d].decision = "human_approve"
      /\ doc'[d].extraction = invoice
  BY <1>3, <1>4 DEF ApproveEdited, CommitApproval, Request, Rows
<1>6. ASSUME NEW u \in Reviewers
      PROVE  Session(u)'
  <2>1. desk'[u] = desk[u] /\ Session(u)
    BY DEF deskVars, DeskInvariant
  <2>2. CASE desk[u].pc = "waiting" /\ desk[u].thread = h
    <3>1. desk[u].doc = d /\ desk[u].shown = invoice
      BY <2>1, <2>2, <1>3, <1>4 DEF Session
    <3>. QED
      BY <2>1, <2>2, <3>1, <1>5 DEF Session, Settled
  <2>3. CASE ~(desk[u].pc = "waiting" /\ desk[u].thread = h)
    <3>1. desk[u].pc = "waiting" =>
             handler'[desk[u].thread] = handler[desk[u].thread]
      BY <2>1, <2>3, <1>1, Bystanders DEF Session, DeskInvariant
    <3>. QED
      BY <2>1, <3>1, <1>1, SessionKept
  <2>. QED
    BY <2>2, <2>3
<1>7. \A verdict \in told' : Stands(verdict)'
  BY <1>1, VerdictsKept DEF deskVars
<1>. QED
  BY <1>2, <1>6, <1>7 DEF DeskInvariant, DeskTypeOK, OneDeskPerThread, deskVars

LEMMA DeskKeeps ==
    ASSUME DeskInvariant, [DeskNext]_<<vars, deskVars>>
    PROVE  DeskInvariant'
<1>1. CASE UNCHANGED <<vars, deskVars>>
  <2>1. UNCHANGED deskVars /\ UNCHANGED vars /\ UNCHANGED handler
    BY <1>1 DEF vars
  <2>. QED
    BY <2>1, DesksIdle
<1>2. ASSUME NEW u \in Reviewers, DeskStep(u)
      PROVE  DeskInvariant'
  BY <1>2, ReadingKeeps, PressKeeps, AnswerKeeps DEF DeskStep
<1>3. ASSUME NEW h \in Handlers, Api(h), ~ServesDesk(h), UNCHANGED deskVars
      PROVE  DeskInvariant'
  <2>1. ASSUME NEW u \in Reviewers, desk[u].pc = "waiting"
        PROVE  handler'[desk[u].thread] = handler[desk[u].thread]
    <3>1. desk[u].thread \in Handlers /\ desk[u].thread # h
      BY <1>3, <2>1 DEF ServesDesk, DeskInvariant, Session
    <3>. QED
      BY <1>3, <3>1, Bystanders DEF DeskInvariant
  <2>. QED
    BY <1>3, <2>1, DesksIdle DEF Next
<1>4. ASSUME NEW h \in Handlers, ApproveEdited(h), UNCHANGED deskVars
      PROVE  DeskInvariant'
  BY <1>4, EditKeeps
<1>5. ASSUME NEW w \in Workers, WorkerStep(w) \/ WorkerCrash(w) \/ Redeliver(w),
             UNCHANGED deskVars
      PROVE  DeskInvariant'
  <2>1. handler' = handler
    BY <1>5, WorkerTasks DEF DeskInvariant, Invariant
  <2>. QED
    BY <1>5, <2>1, DesksIdle DEF Next
<1>. QED
  BY <1>1, <1>2, <1>3, <1>4, <1>5 DEF DeskNext

-----------------------------------------------------------------------------
LEMMA DeskInitKeeps == DeskInit => DeskInvariant
<1>. SUFFICES ASSUME DeskInit
              PROVE  DeskInvariant
  OBVIOUS
<1>1. Invariant
  BY InitKeeps DEF DeskInit
<1>2. NoPage \in Sessions
  BY DEF NoPage, Sessions
<1>. QED
  BY <1>1, <1>2 DEF DeskInit, DeskInvariant, DeskTypeOK, Session, OneDeskPerThread,
     NoPage

\* What the desks have loaded, pressed and been told stays in step with the
\* rows, the threads and each other (main() of review_ui/app.py).
THEOREM DeskInductive == DeskSpec => []DeskInvariant
<1>1. DeskInit => DeskInvariant
  BY DeskInitKeeps
<1>2. DeskInvariant /\ [DeskNext]_<<vars, deskVars>> => DeskInvariant'
  BY DeskKeeps
<1>. QED
  BY <1>1, <1>2, PTL DEF DeskSpec

\* The reviewers at their desks add no behaviour to the pipeline: everything
\* proved of Spec holds with the console (services/review_ui) in use.
THEOREM DeskImplementsPipeline == DeskSpec => Spec
<1>1. DeskInit => Init
  BY DEF DeskInit
<1>2. DeskInvariant /\ [DeskNext]_<<vars, deskVars>> => [Next]_vars
  BY DeskStepsPipeline
<1>. QED
  BY <1>1, <1>2, DeskInductive, PTL DEF DeskSpec, Spec

\* Sessions and verdicts keep to their types.
THEOREM DeskTypes == DeskSpec => []DeskTypeOK
<1>1. DeskInvariant => DeskTypeOK
  BY DEF DeskInvariant
<1>. QED
  BY <1>1, DeskInductive, PTL

\* What a reviewer is told stands, however stale his page was (approve_review
\* and reject_review behind services/review_ui/app.py).
THEOREM VerdictsStand == DeskSpec => []VerdictStands
<1>1. ASSUME DeskInvariant
      PROVE  VerdictStands
  <2>. SUFFICES ASSUME NEW v \in told
                PROVE  /\ v.outcome = "approved" => Settled(v.doc, v.invoice)
                       /\ v.outcome = "rejected" => doc[v.doc].status = "rejected"
                       /\ \A other \in told : other.doc = v.doc => other = v
    BY DEF VerdictStands, Settled
  <2>1. \A verdict \in told : Stands(verdict) /\ verdict \in Verdicts
    BY <1>1 DEF DeskInvariant, DeskTypeOK
  <2>2. ASSUME NEW other \in told, other.doc = v.doc
        PROVE  other = v
    <3>1. other.outcome = v.outcome /\ other.invoice = v.invoice
      BY <2>1, <2>2 DEF Stands, Settled
    <3>2. other \in Verdicts /\ v \in Verdicts
      BY <2>1
    <3>. QED
      BY <2>2, <3>1, <3>2 DEF Verdicts
  <2>. QED
    BY <2>1, <2>2 DEF Stands
<1>. QED
  BY <1>1, DeskInductive, PTL

\* The ERP is never billed beside a verdict (reject_review and approve_review,
\* and every attempt before and after them), if no message is delivered twice:
\* nothing of a rejected document, nothing but what the reviewer approved.
THEOREM VerdictsAreBilled ==
    ASSUME DeliveredOnce
    PROVE  DeskSpec => []VerdictBilled
<1>1. ASSUME DeskInvariant, BilledAsDecided
      PROVE  VerdictBilled
  <2>. SUFFICES ASSUME NEW v \in told, NEW key \in erp, key[1] = v.doc
                PROVE  v.outcome = "approved" /\ key[2] = v.invoice.number
    BY DEF VerdictBilled
  <2>1. v.doc \in Docs /\ Stands(v)
    BY <1>1 DEF DeskInvariant, DeskTypeOK, Verdicts
  <2>2. v.outcome # "rejected"
    BY <1>1, <2>1 DEF Stands, BilledAsDecided, Unbilled
  <2>3. Settled(v.doc, v.invoice) /\ v.outcome = "approved"
    BY <2>1, <2>2 DEF Stands
  <2>. QED
    BY <1>1, <2>1, <2>3 DEF Settled, BilledAsDecided
<1>. QED
  BY <1>1, DeskInductive, DeskImplementsPipeline, DecisionsAreBilled, PTL

=============================================================================
