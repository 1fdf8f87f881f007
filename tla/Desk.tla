-------------------------------- MODULE Desk --------------------------------
(***************************************************************************)
(* Reviewers at the Streamlit console (services/review_ui/app.py) and the  *)
(* review endpoints it calls, beside the pipeline: who is shown what, and  *)
(* what each is told of the verdict he gave.  Every step of Desk is a step *)
(* of Pipeline or leaves Pipeline's variables alone.                       *)
(*                                                                         *)
(* Each click runs the script main() from its first line: list the parked  *)
(* documents, load the selected one, and only then send the command of the *)
(* button that was pressed.  A document reviewed elsewhere may change      *)
(* between any two of these calls.                                         *)
(***************************************************************************)
EXTENDS Pipeline

CONSTANT Reviewers      \* browser sessions of the review console

VARIABLES
    desk,       \* each reviewer's session: list, selection, page, request
    told        \* verdicts answered as accepted, and not as a replay

deskVars == <<desk, told>>

Buttons  == {"approve", "edit", "reject"}
Verdicts == [doc : Docs, outcome : {"approved", "rejected"},
             invoice : Invoices \cup {None}]

\* Nothing on the screen.
NoPage == [pc |-> "page", offered |-> {}, doc |-> None, shown |-> None,
           button |-> "none", thread |-> None]

DeskInit ==
    /\ Init
    /\ desk = [u \in Reviewers |-> NoPage]
    /\ told = {}

\* GET /reviews, list_needs_review_documents.
Parked == {d \in Docs : doc[d].status = "needs_review"}

ToPage(u) == desk' = [desk EXCEPT ![u] = [@ EXCEPT !.pc     = "page",
                                                   !.button = "none",
                                                   !.thread = None]]

-----------------------------------------------------------------------------
(***************************************************************************)
(* The script, from the top.                                               *)
(***************************************************************************)

\* A click runs the script again.  The select box keeps its choice, or takes
\* the new one, as long as its options are the same; with other options it
\* starts at the first, the oldest document (the model keeps no creation
\* time: any of them).  A button pressed stays pressed.
Rerun(u) ==
    /\ desk[u].pc = "page"
    /\ \E button \in Buttons \cup {"none"}, d \in Parked :
          /\ button # "none" => desk[u].doc # None
          /\ button # "none" /\ desk[u].offered = Parked => d = desk[u].doc
          /\ desk' = [desk EXCEPT ![u] = [@ EXCEPT !.pc      = "listed",
                                                   !.offered = Parked,
                                                   !.doc     = d,
                                                   !.button  = button]]
    /\ UNCHANGED <<vars, told>>

\* Nothing waits for a review: the script returns, whatever was pressed.
RerunEmpty(u) ==
    /\ desk[u].pc = "page"
    /\ Parked = {}
    /\ desk' = [desk EXCEPT ![u] = NoPage]
    /\ UNCHANGED <<vars, told>>

\* GET /reviews/{id}: the row's latest extraction, whatever its status is now.
LoadDetail(u) ==
    /\ desk[u].pc = "listed"
    /\ desk' = [desk EXCEPT
                   ![u] = [@ EXCEPT
                              !.shown = doc[desk[u].doc].extraction,
                              !.pc    = IF desk[u].button = "none"
                                            THEN "page" ELSE "pressed"]]
    /\ UNCHANGED <<vars, told>>

-----------------------------------------------------------------------------
(***************************************************************************)
(* The command.  Thread h serves it, once it has the document's row lock.  *)
(***************************************************************************)
Pressed(u, button) == desk[u].pc = "pressed" /\ desk[u].button = button

\* The request is on its way, for the invoice on the page.
Await(u, h, invoice) ==
    desk' = [desk EXCEPT ![u] = [@ EXCEPT !.pc     = "waiting",
                                          !.shown  = invoice,
                                          !.thread = h]]

\* approve_review changes the row; the answer comes after the enqueue.
PressApprove(u, h) ==
    /\ Pressed(u, "approve")
    /\ Approve(h, desk[u].doc)
    /\ Await(u, h, desk[u].shown)
    /\ UNCHANGED told

\* The text area holds the invoice typed.
PressEdit(u, h) ==
    /\ Pressed(u, "edit")
    /\ CheckEdit(h, desk[u].doc)
    /\ Await(u, h, handler'[h].edit)
    /\ UNCHANGED told

\* reject_review commits with the answer.
PressReject(u, h) ==
    /\ Pressed(u, "reject")
    /\ Reject(h, desk[u].doc)
    /\ told' = told \cup {[doc     |-> desk[u].doc,
                           outcome |-> "rejected",
                           invoice |-> None]}
    /\ ToPage(u)

\* Faulty variant: a replay of an approval counts as the approval.
PressInVainAccepted(u, h) ==
    LET row == doc[desk[u].doc]
    IN  /\ desk[u].pc = "pressed"
        /\ handler[h].pc = "idle"
        /\ Unlocked(desk[u].doc)
        /\ Pressed(u, "approve") =>
              row.status # "needs_review" \/ row.extraction = None
        /\ Pressed(u, "reject") => row.status # "needs_review"
        /\ told' = IF /\ ~Pressed(u, "reject")
                      /\ row.status \in {"approved", "submitted"}
                       THEN told \cup {[doc     |-> desk[u].doc,
                                        outcome |-> "approved",
                                        invoice |-> desk[u].shown]}
                       ELSE told
        /\ ToPage(u)
        /\ UNCHANGED vars

\* The answer changes nothing: 202 for the replay of an approve and 200 of a
\* reject (the page is green, the answer says idempotent_replay, an edit is
\* dropped), 409 for the other states, 422 for an approve without extraction,
\* 422 or 400 for an edit that fails a rule or an ERP lookup.
PressInVain(u, h) ==
    LET row == doc[desk[u].doc]
    IN  /\ desk[u].pc = "pressed"
        /\ handler[h].pc = "idle"
        /\ Unlocked(desk[u].doc)
        /\ Pressed(u, "approve") =>
              row.status # "needs_review" \/ row.extraction = None
        /\ Pressed(u, "reject") => row.status # "needs_review"
        /\ ToPage(u)
        /\ UNCHANGED <<vars, told>>

\* 202: the approval is committed and its task published.
AnswerAccepted(u) ==
    LET h == desk[u].thread
    IN  /\ desk[u].pc = "waiting"
        /\ EnqueueResume(h)
        /\ told' = told \cup
                      {[doc     |-> desk[u].doc,
                        outcome |-> "approved",
                        invoice |-> desk[u].shown]}
        /\ ToPage(u)

\* 503 from the endpoint, or no answer from a dead thread.
AnswerLost(u) ==
    /\ desk[u].pc = "waiting"
    /\ ResumeEnqueueFails(desk[u].thread) \/ ApiCrash(desk[u].thread)
    /\ ToPage(u)
    /\ UNCHANGED told

\* The client waits 30 seconds; the thread goes on.
AnswerLate(u) ==
    /\ desk[u].pc = "waiting"
    /\ ToPage(u)
    /\ UNCHANGED <<vars, told>>

-----------------------------------------------------------------------------
DeskStep(u) ==
    \/ Rerun(u) \/ RerunEmpty(u) \/ LoadDetail(u)
    \/ \E h \in Handlers :
          \/ PressApprove(u, h) \/ PressEdit(u, h) \/ PressReject(u, h)
          \/ PressInVain(u, h)
    \/ AnswerAccepted(u) \/ AnswerLost(u) \/ AnswerLate(u)

\* A thread that serves no reviewer at a desk: another client of the API, or
\* a reviewer who is no longer waiting.
ServesDesk(h) == \E u \in Reviewers : desk[u].pc = "waiting" /\ desk[u].thread = h

DeskNext ==
    \/ \E u \in Reviewers : DeskStep(u)
    \/ \E h \in Handlers :
          /\ \/ ~ServesDesk(h) /\ Api(h)
             \/ ServesDesk(h) /\ ApproveEdited(h)
          /\ UNCHANGED deskVars
    \/ \E w \in Workers :
          /\ WorkerStep(w) \/ WorkerCrash(w) \/ Redeliver(w)
          /\ UNCHANGED deskVars

DeskSpec == DeskInit /\ [][DeskNext]_<<vars, deskVars>>

-----------------------------------------------------------------------------
Sessions == [pc      : {"page", "listed", "pressed", "waiting"},
             offered : SUBSET Docs,
             doc     : Docs \cup {None},
             shown   : Invoices \cup {None},
             button  : Buttons \cup {"none"},
             thread  : Handlers \cup {None}]

DeskTypeOK ==
    /\ desk \in [Reviewers -> Sessions]
    /\ told \subseteq Verdicts

\* A verdict a reviewer was told is accepted stands for good, however stale
\* his page was and whoever else reviewed, edited or processed the document
\* meanwhile: an approved document is submitted, or fails, with the very
\* invoice on the reviewer's page (as it was shown, or as he typed it); a
\* rejected document is never submitted; nobody else is told otherwise.
VerdictStands ==
    \A v \in told :
        /\ v.outcome = "approved" =>
              /\ doc[v.doc].status \in {"approved", "submitted", "failed"}
              /\ doc[v.doc].decision = "human_approve"
              /\ doc[v.doc].extraction = v.invoice
        /\ v.outcome = "rejected" => doc[v.doc].status = "rejected"
        /\ \A other \in told : other.doc = v.doc => other = v

\* The ERP is never billed beside a reviewer's verdict: nothing for a
\* rejected document, for an approved one nothing but the invoice approved,
\* also if earlier attempts on the document, or the submission itself, ended
\* in an error after the ERP was called.  No message is delivered twice.
VerdictBilled ==
    \A v \in told : \A key \in erp :
        key[1] = v.doc => /\ v.outcome = "approved"
                          /\ key[2] = v.invoice.number

=============================================================================
