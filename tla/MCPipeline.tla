------------------------------ MODULE MCPipeline ------------------------------
(* Values for the constants of Pipeline. *)
EXTENDS Pipeline, TLC

CONSTANTS w1, w2, w3, w4, w5

\* One task for each worker, and a second one for the worker that a run is about.
EachOnce    == (w1 :> "Snos") @@ (w2 :> "Proving") @@ (w3 :> "DataSubmission")
               @@ (w4 :> "UpdateState")
TwoSettling == EachOnce @@ (w5 :> "UpdateState")
===============================================================================
