----------------------- MODULE MCEvidencePublication -----------------------
(* TLC instances of the publication: two publishers, normal chains and the *)
(* chain that a publication requirement is reconciled with.                *)
EXTENDS EvidencePublication, TLC

CONSTANTS a, b

Plain(phase, code, reason) ==
  [phase |-> phase, code |-> code, reason |-> reason,
   operator |-> Nobody, approver |-> Nobody]

NormalEvents ==
  { Plain("intent", NoCode, NoCode), Plain("outcome", "confirmed", NoCode),
    Plain("readback", "verified", NoCode) }

ReconciledEvents ==
  { Plain("intent", NoCode, NoCode), Plain("outcome", UncertainOutcomeCode, NoCode),
    Plain("reconciliation_required", NoCode, "evidence-publication-incomplete"),
    Plain("readback", "verified", NoCode),
    [phase |-> "reconciliation_closed", code |-> "reconciled", reason |-> NoCode,
     operator |-> a, approver |-> b] }

\* Callers that may take either way.
MixedEvents == NormalEvents \cup ReconciledEvents

Interchangeable ==
  Permutations(Publishers) \cup Permutations(Claims) \cup Permutations(Refs)
=============================================================================
