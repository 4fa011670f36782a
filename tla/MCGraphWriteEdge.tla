-------------------------- MODULE MCGraphWriteEdge --------------------------
(* TLC instances of the write edge: two processes, two authorization runs. *)
EXTENDS GraphWriteEdge, TLC

CONSTANTS r1, r2, p1, p2

\* Each authorization run has its own plan.
MCPlanOf == (r1 :> p1) @@ (r2 :> p2)

\* Processes are interchangeable; the runs are not (PlanOf tells them apart).
WorkerSymmetry == Permutations(Workers)
=============================================================================
