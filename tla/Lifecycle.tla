----------------------------- MODULE Lifecycle ------------------------------
(***************************************************************************)
(* What the pipeline promises about one document after another, with no    *)
(* queue, no worker, no transaction and no retry in sight: which durable   *)
(* status follows which, and when the ERP may be billed.  Pipeline         *)
(* implements it.                                                          *)
(***************************************************************************)
CONSTANT Docs

VARIABLES
    status,   \* what a reader of the documents table sees
    billed    \* documents the ERP holds an invoice of

lifecycleVars == <<status, billed>>

Init ==
    /\ status = [d \in Docs |-> "absent"]
    /\ billed = {}

Move(d, from, to) ==
    /\ status[d] \in from
    /\ status' = [status EXCEPT ![d] = to]
    /\ UNCHANGED billed

Accept(d)  == Move(d, {"absent"}, "queued")
Park(d)    == Move(d, {"queued"}, "needs_review")
Approve(d) == Move(d, {"needs_review"}, "approved")
Reject(d)  == Move(d, {"needs_review"}, "rejected")
Fail(d)    == Move(d, {"queued", "approved"}, "failed")

\* The ERP is called only for a document that is being worked on, never for
\* one that waits for a reviewer or has reached its end.
Bill(d) ==
    /\ status[d] \in {"queued", "approved"}
    /\ billed' = billed \cup {d}
    /\ UNCHANGED status

\* Submitted is recorded only of an invoice the ERP has.
Submit(d) ==
    /\ d \in billed
    /\ Move(d, {"queued", "approved"}, "submitted")

Next ==
    \E d \in Docs :
        \/ Accept(d) \/ Park(d) \/ Approve(d) \/ Reject(d) \/ Fail(d)
        \/ Bill(d) \/ Submit(d)

Spec == Init /\ [][Next]_lifecycleVars

=============================================================================
