------------------------------- MODULE MCDesk -------------------------------
(***************************************************************************)
(* The instance of Desk that TLC checks, over MCPipeline's documents.      *)
(***************************************************************************)
EXTENDS MCPipeline, Desk

CONSTANTS h1, h2

\* The first is approved automatically or parked with an invoice the ERP
\* takes; the second is parked without an extraction.
OftenParked == (d1 :> {Clean(n1), Flawed(n1)}) @@ (d2 :> {None})

\* The API threads are interchangeable.
Threads == Permutations({h1, h2})

=============================================================================
