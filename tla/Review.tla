------------------------------- MODULE Review -------------------------------
(***************************************************************************)
(* The review commands of services/worker/workflow/review.py and their     *)
(* endpoints in services/ingestion/app.py.  Each is one transaction under  *)
(* the document's row lock; an approval then enqueues the worker task that *)
(* submits.  Answers that change nothing (404, 409, 422, the unchanged     *)
(* replay of an approve or a reject) are stuttering steps.                 *)
(***************************************************************************)
EXTENDS DocStore

Reviewable(h, d) ==
    /\ handler[h].pc = "idle"
    /\ Unlocked(d)
    /\ doc[d].status = "needs_review"

\* The transaction of an approval: the extraction that will be submitted,
\* the human decision, and the task to enqueue once it has committed.
CommitApproval(h, d, invoice) ==
    /\ doc' = [doc EXCEPT ![d] = [@ EXCEPT !.extraction = invoice,
                                           !.decision = "human_approve",
                                           !.status = "approved"]]
    /\ handler' = [handler EXCEPT ![h] = Request("resuming", d, None)]
    /\ UNCHANGED <<ledger, broker, dlq, erp, worker, acked, interruptions>>

\* Approve as extracted: no rule is evaluated again, but there must be an
\* extraction (a document parked on a provider output error has none).
Approve(h, d) ==
    /\ Reviewable(h, d)
    /\ doc[d].extraction # None
    /\ CommitApproval(h, d, doc[d].extraction)
    /\ UNCHANGED rowLock

\* Edit and approve: the edited invoice must pass every rule, duplicates
\* included, as they stand when the transaction looks.
CheckEdit(h, d) ==
    /\ Reviewable(h, d)
    /\ \E invoice \in Edits :
          /\ invoice.grade = "clean"
          /\ ~Recorded(invoice.number)
          /\ handler' = [handler EXCEPT ![h] = Request("editing", d, invoice)]
    /\ rowLock' = [rowLock EXCEPT ![d] = h]
    /\ UNCHANGED <<doc, ledger, broker, dlq, erp, worker, acked, interruptions>>

ApproveEdited(h) ==
    /\ handler[h].pc = "editing"
    /\ CommitApproval(h, handler[h].doc, handler[h].edit)
    /\ rowLock' = [rowLock EXCEPT ![handler[h].doc] = None]

\* Faulty variant: an approved document may still be rejected.
RejectApproved(h, d) ==
    /\ handler[h].pc = "idle"
    /\ Unlocked(d)
    /\ doc[d].status \in {"needs_review", "approved"}
    /\ doc' = [doc EXCEPT ![d] = [@ EXCEPT !.decision = "rejected",
                                           !.status = "rejected"]]
    /\ UNCHANGED <<ledger, rowLock, broker, dlq, erp, worker, handler, acked,
                   interruptions>>

Reject(h, d) ==
    /\ Reviewable(h, d)
    /\ doc' = [doc EXCEPT ![d] = [@ EXCEPT !.decision = "rejected",
                                           !.status = "rejected"]]
    /\ UNCHANGED <<ledger, rowLock, broker, dlq, erp, worker, handler, acked,
                   interruptions>>

EnqueueResume(h) ==
    /\ handler[h].pc = "resuming"
    /\ Enqueue(handler[h].doc)
    /\ handler' = [handler EXCEPT ![h] = IdleHandler]
    /\ UNCHANGED <<store, dlq, erp, worker, acked, interruptions>>

\* 503; the committed row stays approved, and a second approve is unchanged.
ResumeEnqueueFails(h) ==
    /\ "enqueue" \in Faults
    /\ handler[h].pc = "resuming"
    /\ handler' = [handler EXCEPT ![h] = IdleHandler]
    /\ UNCHANGED <<store, broker, dlq, erp, worker, acked, interruptions>>

\* The steps a request in progress takes by itself.
ReviewStep(h) ==
    \/ ApproveEdited(h)
    \/ EnqueueResume(h)
    \/ ResumeEnqueueFails(h)

=============================================================================
