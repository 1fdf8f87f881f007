--------------------------- MODULE ExtractionOrder --------------------------
(***************************************************************************)
(* Which extraction, and which decision, of a document is the latest.  The *)
(* code takes the one with the greatest created_at, and created_at is when *)
(* the record's transaction BEGAN (server_default now()), while the        *)
(* document's row lock orders the transactions by when they LOCKED.  This  *)
(* module keeps of one document what tells the two orders apart: its       *)
(* status, its records, and the transactions that wait for its row.  A     *)
(* reviewer finds documents in the list of those that are parked; but the  *)
(* endpoints take any document's id, and the client has it from the 202,   *)
(* so a review may begin at any time.                                      *)
(*                                                                         *)
(* No two transactions begin at the same microsecond.                      *)
(***************************************************************************)
EXTENDS Naturals, Sequences

CONSTANTS
    Attempts,    \* worker transactions: deliveries of the document's task
    Commands,    \* review transactions: approve, edit and reject requests
    Invoices,    \* what an extraction may say
    None         \* no transaction, no invoice

ASSUME OrderAssumption ==
    /\ Attempts \cap Commands = {}
    /\ None \notin Attempts \cup Commands \cup Invoices

VARIABLES
    status,       \* documents.status, as committed
    extractions,  \* extraction records, in the order of their commits
    decisions,    \* decision records, in the order of their commits
    rowLock,      \* the transaction that holds the row lock
    txn,          \* each transaction: its step, when it began, and whether the
                  \* document was queued then, kept for the properties only
    clock,        \* begun transactions so far
    billed        \* the invoice submitted to the ERP

orderVars == <<status, extractions, decisions, rowLock, txn, clock, billed>>

Transactions == Attempts \cup Commands

OrderInit ==
    /\ status = "queued"
    /\ extractions = <<>>
    /\ decisions = <<>>
    /\ rowLock = None
    /\ txn = [x \in Transactions |->
                  [pc |-> "new", begun |-> 0, saw |-> "queued"]]
    /\ clock = 0
    /\ billed = None

\* Faulty variant: the records are taken from the wrong end.
EarliestOf(records) ==
    CHOOSE r \in {records[i] : i \in 1..Len(records)} :
        \A i \in 1..Len(records) : r.created <= records[i].created

\* _latest_extraction and _latest_decision: the greatest created_at.
Latest(records) ==
    CHOOSE r \in {records[i] : i \in 1..Len(records)} :
        \A i \in 1..Len(records) : records[i].created <= r.created

-----------------------------------------------------------------------------
(***************************************************************************)
(* Begin, lock, and what ends a transaction.                               *)
(***************************************************************************)

Sight == IF status = "queued" THEN "queued" ELSE "later"

\* BEGIN, sent ahead of the SELECT ... FOR UPDATE, fixes now().
Begin(x) ==
    /\ txn[x].pc = "new"
    /\ clock' = clock + 1
    /\ txn' = [txn EXCEPT ![x] = [pc |-> "waiting", begun |-> clock + 1,
                                     saw |-> Sight]]
    /\ UNCHANGED <<status, extractions, decisions, rowLock, billed>>

\* The row lock is granted to any of those that wait.
Lock(x) ==
    /\ txn[x].pc = "waiting"
    /\ rowLock = None
    /\ rowLock' = x
    /\ txn' = [txn EXCEPT ![x].pc = "holding"]
    /\ UNCHANGED <<status, extractions, decisions, clock, billed>>

Holding(x) == txn[x].pc = "holding"

End(x) ==
    /\ rowLock' = None
    /\ txn' = [txn EXCEPT ![x].pc = "ended"]
    /\ UNCHANGED clock

Extracted(x, invoice) ==
    extractions' = Append(extractions, [created |-> txn[x].begun,
                                        invoice |-> invoice])

Decided(x, decision) ==
    decisions' = Append(decisions, [created  |-> txn[x].begun,
                                    decision |-> decision])

-----------------------------------------------------------------------------
(***************************************************************************)
(* The worker's transactions.                                              *)
(***************************************************************************)

\* Extracted and parked on a rule.
Park(w) ==
    /\ Holding(w)
    /\ status = "queued"
    /\ status' = "needs_review"
    /\ \E invoice \in Invoices : Extracted(w, invoice)
    /\ Decided(w, "needs_review")
    /\ End(w)
    /\ UNCHANGED billed

\* Parked on a provider output error: no record of either kind.
ParkUnreadable(w) ==
    /\ Holding(w)
    /\ status = "queued"
    /\ status' = "needs_review"
    /\ End(w)
    /\ UNCHANGED <<extractions, decisions, billed>>

AutoSubmit(w) ==
    /\ Holding(w)
    /\ status = "queued"
    /\ status' = "submitted"
    /\ \E invoice \in Invoices :
          /\ Extracted(w, invoice)
          /\ billed' = invoice
    /\ Decided(w, "auto_approve")
    /\ End(w)

\* The resumed task submits the latest extraction.
SubmitApproved(w) ==
    /\ Holding(w)
    /\ status = "approved"
    /\ status' = "submitted"
    /\ billed' = Latest(extractions).invoice
    /\ End(w)
    /\ UNCHANGED <<extractions, decisions>>

\* A no-op state, or an exception that rolls everything back.
EndAttempt(w) ==
    /\ Holding(w)
    /\ End(w)
    /\ UNCHANGED <<status, extractions, decisions, billed>>

-----------------------------------------------------------------------------
(***************************************************************************)
(* The reviewers' transactions.                                            *)
(***************************************************************************)
Approve(r) ==
    /\ Holding(r)
    /\ status = "needs_review"
    /\ extractions # <<>>
    /\ status' = "approved"
    /\ Decided(r, "human_approve")
    /\ End(r)
    /\ UNCHANGED <<extractions, billed>>

\* Faulty variant: an edit is taken whatever the document's state.
ApproveEditedAgain(r) ==
    /\ Holding(r)
    /\ status \in {"needs_review", "approved"}
    /\ status' = "approved"
    /\ \E invoice \in Invoices : Extracted(r, invoice)
    /\ Decided(r, "human_approve")
    /\ End(r)
    /\ UNCHANGED billed

ApproveEdited(r) ==
    /\ Holding(r)
    /\ status = "needs_review"
    /\ status' = "approved"
    /\ \E invoice \in Invoices : Extracted(r, invoice)
    /\ Decided(r, "human_approve")
    /\ End(r)
    /\ UNCHANGED billed

Reject(r) ==
    /\ Holding(r)
    /\ status = "needs_review"
    /\ status' = "rejected"
    /\ Decided(r, "rejected")
    /\ End(r)
    /\ UNCHANGED <<extractions, billed>>

\* An unchanged replay, a conflict, or an edit that is refused.
EndCommand(r) ==
    /\ Holding(r)
    /\ End(r)
    /\ UNCHANGED <<status, extractions, decisions, billed>>

-----------------------------------------------------------------------------
WorkerNext(w) ==
    \/ Begin(w) \/ Lock(w)
    \/ Park(w) \/ ParkUnreadable(w) \/ AutoSubmit(w) \/ SubmitApproved(w)
    \/ EndAttempt(w)

ReviewNext(r) ==
    \/ Begin(r) \/ Lock(r)
    \/ Approve(r) \/ ApproveEdited(r) \/ Reject(r) \/ EndCommand(r)

OrderNext ==
    \/ \E w \in Attempts : WorkerNext(w)
    \/ \E r \in Commands : ReviewNext(r)

OrderSpec == OrderInit /\ [][OrderNext]_orderVars

-----------------------------------------------------------------------------
Statuses  == {"queued", "needs_review", "approved", "submitted", "rejected"}
Decisions == {"auto_approve", "needs_review", "human_approve", "rejected"}

OrderTypeOK ==
    /\ status \in Statuses
    /\ extractions \in Seq([created : Nat, invoice : Invoices])
    /\ decisions \in Seq([created : Nat, decision : Decisions])
    /\ rowLock \in Transactions \cup {None}
    /\ txn \in [Transactions ->
                   [pc    : {"new", "waiting", "holding", "ended"},
                    begun : Nat,
                    saw   : {"queued", "later"}]]
    /\ clock \in Nat
    /\ billed \in Invoices \cup {None}

\* The record of a review that began while its document was still queued.
Early(record) ==
    \E r \in Commands :
        txn[r].begun = record.created /\ txn[r].saw = "queued"

\* A later record that is not the greatest so far is of an early review.
Orderly(records) ==
    \A i, j \in 1..Len(records) :
        i < j /\ records[j].created <= records[i].created => Early(records[j])

\* The order of the transactions' beginnings, which the code sorts by, is the
\* order of their commits but for early reviews: no record of a reviewer who
\* found the document parked hides behind one that was committed before it.
LatestIsLast == Orderly(extractions) /\ Orderly(decisions)

\* What the ERP is billed is the extraction committed last, and that is the
\* one the last decision of the document approved.  Only an early review's
\* edit may be passed over, and then for the extraction it replaced.
BilledIsLast ==
    billed # None =>
        LET last == extractions[Len(extractions)]
        IN  /\ decisions[Len(decisions)].decision \in
                  {"auto_approve", "human_approve"}
            /\ \/ billed = last.invoice
               \/ Early(last) /\ billed = extractions[1].invoice

=============================================================================
