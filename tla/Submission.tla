----------------------------- MODULE Submission -----------------------------
(***************************************************************************)
(* The transactions of ExtractionOrder together with the calls they make   *)
(* to ErpMock.  A worker posts its invoice in the middle of a transaction, *)
(* under the row lock; the thread that serves the post goes on when the    *)
(* worker has given up or died, the lock is free again, and the next       *)
(* attempt posts the same key.  All keys are of one document, so that a    *)
(* key is what tells its invoices apart.                                   *)
(***************************************************************************)
EXTENDS ExtractionOrder, ErpMock

\* An attempt posts once, and an invoice stands for its number, which within
\* one document makes the key (build_erp_idempotency_key).
ASSUME SubmissionAssumption ==
    /\ Requests = Attempts
    /\ Keys = Invoices

VARIABLE
    abandoned  \* the attempts that ended while their post still ran, kept for
               \* the properties only

submissionVars == <<orderVars, erpVars, abandoned>>

SubmissionInit == OrderInit /\ ErpInit /\ abandoned = {}

-----------------------------------------------------------------------------
(***************************************************************************)
(* The steps of a transaction, around its post.                            *)
(***************************************************************************)
\* Nothing of the ERP is involved in a beginning, a park or a review.
Undisturbed(x) ==
    /\ \/ Begin(x) \/ Lock(x)
       \/ x \in Attempts /\ At(x, "unsent") /\ (Park(x) \/ ParkUnreadable(x))
       \/ x \in Commands /\ (Approve(x) \/ ApproveEdited(x) \/ Reject(x)
                                 \/ EndCommand(x))
    /\ UNCHANGED <<erpVars, abandoned>>

\* A queued document's invoice is what was read just now, of a supplier the
\* ERP knows; an approved document's is its latest extraction.
Post(w) ==
    /\ Holding(w)
    /\ \/ /\ status = "queued"
          /\ \E invoice \in Invoices : Send(w, invoice)
          /\ request'[w].supplier = "known"
       \/ /\ status = "approved"
          /\ Send(w, Latest(extractions).invoice)
    /\ UNCHANGED <<orderVars, abandoned>>

\* The ERP has answered with an invoice: the attempt commits.
Conclude(w) ==
    /\ At(w, "answered")
    /\ \/ AutoSubmit(w) /\ billed' = KeyOf(w)
       \/ SubmitApproved(w)
    /\ UNCHANGED <<erpVars, abandoned>>

\* Whatever has become of the post, the attempt may end without a commit: it
\* was refused, cut off or not answered in time, the flush fails, the worker
\* dies.
Fail(w) ==
    /\ EndAttempt(w)
    /\ abandoned' = IF request[w].pc \in InFlight THEN abandoned \cup {w}
                                                  ELSE abandoned
    /\ UNCHANGED erpVars

ErpStep ==
    /\ Restart \/ \E r \in Requests : Serve(r)
    /\ UNCHANGED <<orderVars, abandoned>>

SubmissionNext ==
    \/ \E x \in Transactions : Undisturbed(x)
    \/ \E w \in Attempts : Post(w) \/ Conclude(w) \/ Fail(w)
    \/ ErpStep

SubmissionSpec == SubmissionInit /\ [][SubmissionNext]_submissionVars

-----------------------------------------------------------------------------
\* Of the invoices of one key at most one is of an attempt that waited for its
\* answer: row lock and key lookup together allow a second one only if a post
\* is abandoned while it runs (process_document, create_invoice).
AwaitedKeysAreUnique ==
    \A r, s \in Attempts \ abandoned :
        byId[r] # Null /\ byId[r] = byId[s] => r = s

\* What was billed is in the ERP under its key until the ERP restarts: the
\* attempt that submitted the document had an answer that names it.
BilledStands ==
    billed # None =>
        \E w \in Attempts :
            /\ At(w, "answered")
            /\ KeyOf(w) = billed
            /\ request[w].epoch = restarts =>
                  /\ byId[request[w].got] = billed
                  /\ byKey[billed] # Null

=============================================================================
