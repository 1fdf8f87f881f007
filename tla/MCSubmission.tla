---------------------------- MODULE MCSubmission ----------------------------
(***************************************************************************)
(* The instance of Submission that TLC checks.  Which attempt, which review*)
(* or which invoice is which makes no difference.                          *)
(***************************************************************************)
EXTENDS Submission, TLC

Interchangeable ==
    Permutations(Attempts) \cup Permutations(Commands)
        \cup Permutations(Invoices)

=============================================================================
