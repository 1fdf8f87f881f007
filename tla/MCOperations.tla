---------------------------- MODULE MCOperations ----------------------------
(***************************************************************************)
(* The instance of Operations that TLC checks, over MCPipeline's documents.*)
(***************************************************************************)
EXTENDS MCPipeline, Operations

\* The first is read now with one number, now with the other; the second is
\* parked, and the ERP refuses it if it is approved as it was read.
OftenRefused ==
    (d1 :> {Clean(n1), Clean(n2)})
        @@ (d2 :> {NoSupplier(n1), UnknownSupplier(n1)})

=============================================================================
