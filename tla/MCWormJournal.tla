--------------------------- MODULE MCWormJournal ---------------------------
(* TLC instance of the journal: two committers with the same body and one  *)
(* with another anchor, over the chains that the outbox accepts.            *)
EXTENDS WormJournal, TLC

CONSTANTS a, b, c1, c2, c3, x, y

\* One event for each case that the rules tell apart: "verified" stands for
\* the success codes of a readback, "confirmed" for the outcomes that are not
\* uncertain, and one person operates, one approves.
MCOffered ==
  {e \in Events : /\ e.phase = "outcome" => e.code # "failed"
                  /\ e.phase = "readback" => e.code # "confirmed"
                  /\ e.phase = "reconciliation_required" =>
                       e.reason # "readback-missing"
                  /\ e.operator # b}

MCBodyOf == (c1 :> x) @@ (c2 :> x) @@ (c3 :> y)

\* The two committers with the same body are interchangeable.
CommitterSymmetry == Permutations({c1, c2})
=============================================================================
