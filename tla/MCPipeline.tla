----------------------------- MODULE MCPipeline -----------------------------
(***************************************************************************)
(* Small instances of Pipeline.  Two documents; invoice numbers n1 and n2. *)
(***************************************************************************)
EXTENDS Pipeline, TLC

CONSTANTS d1, d2, w1, w2, n1, n2

Clean(n)           == [number |-> n, grade |-> "clean"]
Flawed(n)          == [number |-> n, grade |-> "flawed"]
NoSupplier(n)      == [number |-> n, grade |-> "noSupplier"]
UnknownSupplier(n) == [number |-> n, grade |-> "unknownSupplier"]

\* Both documents carry one business number; the first may be unreadable and
\* the second read without its supplier.
SameNumber  == (d1 :> {Clean(n1), None}) @@ (d2 :> {Clean(n1), NoSupplier(n1)})

\* As above with an invoice the ERP takes, whatever a reviewer does.
SameNumber1 == (d1 :> {Clean(n1), None}) @@ (d2 :> {Clean(n1), Flawed(n1)})

\* One document, whose number is read now right, now wrong.
Unstable1   == d1 :> {Clean(n1), Clean(n2)}

\* What a reviewer may type: passing the rules, or failing one.
EditsTyped == {Clean(n2), Flawed(n2)}
NoEdits    == {}

=============================================================================
