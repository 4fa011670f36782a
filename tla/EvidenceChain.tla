--------------------------- MODULE EvidenceChain ---------------------------
(***************************************************************************)
(* The immutable evidence chain of one correlation: the append path of     *)
(* InMemoryEvidenceOutbox and of the SQLite staging outbox, with the       *)
(* transition rules (_validate_transition) and the verdict (verify_chain)  *)
(* of nac_runtime/immutable_evidence.py.                                   *)
(*                                                                         *)
(* An event is reduced to what the rules tell apart: its phase, its result *)
(* code, its reason code and the two principals of a closure.  Sequence    *)
(* numbers and hashes are the position in the chain: an event built on     *)
(* another head, with another binding (tenant, actor, manifest, ...) or    *)
(* without the provider binding of a successful readback is refused, which *)
(* is a stuttering step.                                                   *)
(***************************************************************************)
EXTENDS Integers, Sequences

CONSTANTS
  Principals,      \* stable principal references
  Nobody,          \* the principals of an event that names none
  Offered          \* the events that callers present to the outbox

VARIABLE chain     \* the records of the correlation, oldest first

NoCode == "none"

SuccessReadbackCodes == {"confirmed", "verified"}
UncertainOutcomeCode == "write-state-uncertain"
ReconciliationReasons ==
  {"readback-missing", "provider-readback-required",
   "evidence-publication-incomplete"}

\* build_event and _validate_event_shape: which phase carries which fields,
\* and that operator and approver of a closure are separate principals.
Events ==
  [phase : {"intent"}, code : {NoCode}, reason : {NoCode},
   operator : {Nobody}, approver : {Nobody}]
  \cup
  [phase : {"outcome"}, code : {"confirmed", "failed", UncertainOutcomeCode},
   reason : {NoCode}, operator : {Nobody}, approver : {Nobody}]
  \cup
  [phase : {"readback"}, code : SuccessReadbackCodes \cup {"failed"},
   reason : {NoCode}, operator : {Nobody}, approver : {Nobody}]
  \cup
  [phase : {"reconciliation_required"}, code : {NoCode},
   reason : ReconciliationReasons, operator : {Nobody}, approver : {Nobody}]
  \cup
  {e \in [phase : {"reconciliation_closed"}, code : {"reconciled", "failed"},
          reason : {NoCode}, operator : Principals, approver : Principals] :
     e.operator # e.approver}

ASSUME OfferedAssumption == Offered \subseteq Events

NormalPhaseOrder == <<"intent", "outcome", "readback">>

ReconciliationPhaseOrders ==
  { <<"intent", "outcome", "reconciliation_required", "readback",
      "reconciliation_closed">>,
    <<"intent", "outcome", "readback", "reconciliation_required", "readback",
      "reconciliation_closed">>,
    <<"intent", "outcome", "reconciliation_required", "readback",
      "reconciliation_closed", "readback", "reconciliation_closed">> }

LegalPhaseOrders == {NormalPhaseOrder} \cup ReconciliationPhaseOrders

Phases(c) == [i \in 1 .. Len(c) |-> c[i].phase]

Last(c) == c[Len(c)]

ReadbackAllowed(c) ==
  \/ Last(c).phase = "outcome" /\ Last(c).code # UncertainOutcomeCode
  \/ Last(c).phase = "reconciliation_required"
  \/ Last(c).phase = "reconciliation_closed" /\ Last(c).code = "failed"

\* Mutant of RequirementAllowed: a failed readback cannot be escalated.
RequirementOnlyAfterOutcome(c, e) ==
  /\ Last(c).phase = "outcome"
  /\ \/ Last(c).code = UncertainOutcomeCode
     \/ e.reason \in {"readback-missing", "provider-readback-required"}

RequirementAllowed(c, e) ==
  \/ /\ Last(c).phase = "outcome"
     /\ \/ Last(c).code = UncertainOutcomeCode
        \/ e.reason \in {"readback-missing", "provider-readback-required"}
  \/ /\ Last(c).phase = "readback"
     /\ Last(c).code = "failed"
     /\ e.reason = "provider-readback-required"

ClosureAllowed(c, e) ==
  /\ Last(c).phase = "readback"
  /\ \E i \in 1 .. Len(c) : c[i].phase = "reconciliation_required"
  /\ e.code = "failed" \/ Last(c).code \in SuccessReadbackCodes

Allowed(c, e) ==
  \/ Len(c) = 0 /\ e.phase = "intent"
  \/ Phases(c) = <<"intent">> /\ e.phase = "outcome"
  \/ /\ Len(c) > 1
     /\ \/ e.phase = "readback" /\ ReadbackAllowed(c)
        \/ e.phase = "reconciliation_required" /\ RequirementAllowed(c, e)
        \/ e.phase = "reconciliation_closed" /\ ClosureAllowed(c, e)

DeclaredPrefix(phases) ==
  \E order \in LegalPhaseOrders :
    Len(phases) <= Len(order) /\ SubSeq(order, 1, Len(phases)) = phases

\* _validate_transition
Transition(c, e) ==
  /\ Allowed(c, e)
  /\ DeclaredPrefix(Phases(Append(c, e)))

\* Mutant of Complete: the code of the last closure is not looked at.
CompleteByPhases(c) ==
  \/ /\ Phases(c) = NormalPhaseOrder
     /\ c[2].code \in {"confirmed", "failed"}
     /\ c[3].code \in SuccessReadbackCodes
  \/ Phases(c) \in ReconciliationPhaseOrders

\* The verdict of verify_chain.
Complete(c) ==
  \/ /\ Phases(c) = NormalPhaseOrder
     /\ c[2].code \in {"confirmed", "failed"}
     /\ c[3].code \in SuccessReadbackCodes
  \/ /\ Phases(c) \in ReconciliationPhaseOrders
     /\ c[Len(c) - 1].code \in SuccessReadbackCodes
     /\ Last(c).code = "reconciled"

-----------------------------------------------------------------------------
ChainInit == chain = << >>

AppendEvent(e) ==
  /\ Transition(chain, e)
  /\ chain' = Append(chain, e)

ChainNext == \E e \in Offered : AppendEvent(e)

ChainSpec == ChainInit /\ [][ChainNext]_chain

-----------------------------------------------------------------------------
(* Properties. *)

\* A chain that verify_chain calls complete is finished: _validate_transition
\* accepts no further event, so the head a publication claims never moves.
CompleteChainsAreFinal ==
  Complete(chain) => \A e \in Events : ~Transition(chain, e)

\* An uncertain write is never settled by an observation alone: its chain is
\* complete only after a requirement, a successful readback that follows it
\* and a closure by two separate principals.
UncertaintyNeedsDualControl ==
  Complete(chain) /\ chain[2].code = UncertainOutcomeCode =>
    \E i, j \in 3 .. Len(chain) - 1 :
      /\ i < j
      /\ chain[i].phase = "reconciliation_required"
      /\ chain[j].phase = "readback"
      /\ chain[j].code \in SuccessReadbackCodes
      /\ Last(chain).phase = "reconciliation_closed"
      /\ Last(chain).operator # Last(chain).approver

\* Only people can wedge a correlation: an incomplete chain that accepts no
\* further event ends with a closure that two separate principals declared
\* failed.  Every other incomplete chain can still be continued.
WedgedOnlyByFailedClosure ==
  (~Complete(chain) /\ \A e \in Events : ~Transition(chain, e)) =>
    /\ Last(chain).phase = "reconciliation_closed"
    /\ Last(chain).code = "failed"
    /\ Last(chain).operator # Last(chain).approver
=============================================================================
