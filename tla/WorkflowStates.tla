--------------------------- MODULE WorkflowStates ---------------------------
(***************************************************************************)
(* The document life cycle of services/worker/rules/states.py: the states, *)
(* the transitions the code asserts, and the classes of states the worker  *)
(* and the review service branch on.                                       *)
(***************************************************************************)

WorkflowState ==
    {"received", "queued", "processing", "extracted", "needs_review",
     "approved", "submitted", "rejected", "failed"}

AllowedTransitions ==
    [received     |-> {"queued", "failed"},
     queued       |-> {"processing", "failed"},
     processing   |-> {"extracted", "needs_review", "failed"},
     extracted    |-> {"approved", "needs_review", "failed"},
     approved     |-> {"submitted", "failed"},
     needs_review |-> {"approved", "rejected"},
     submitted    |-> {},
     rejected     |-> {},
     failed       |-> {}]

TransitionAllowed(current, target) == target \in AllowedTransitions[current]

TerminalStates == {"submitted", "rejected", "failed"}

\* A task that finds its document in one of these returns without work.
WorkerNoopStates == TerminalStates \cup {"needs_review"}

=============================================================================
