------------------------ MODULE MCLiveWriteEvidence ------------------------
(* TLC instance of the S4d composition: two processes, two runs. *)
EXTENDS LiveWriteEvidence, TLC

CONSTANTS r1, r2, p1, p2

\* Each authorization run has its own plan and its own correlation.
MCPlanOf == (r1 :> p1) @@ (r2 :> p2)

\* Processes are interchangeable; the runs are not (PlanOf tells them apart).
WorkerSymmetry == Permutations(Workers)
=============================================================================
