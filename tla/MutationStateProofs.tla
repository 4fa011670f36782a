------------------------ MODULE MutationStateProofs ------------------------
(***************************************************************************)
(* Proofs about MutationState for every set of runs, plans and mutations,  *)
(* every generation limit and every caller.                                *)
(***************************************************************************)
EXTENDS MutationState, TLAPS

\* The inductive invariant: the properties of MutationState need the shape of
\* the row and the link between the row and the intents to be inductive.
StateInv ==
  /\ TypeOK
  /\ RowShape
  /\ IntentsCoverGenerations
  /\ EvidenceMatchesIntent
  /\ ReopenedOnlyIfNotApplied
  /\ ClosureHasProof
  /\ UncertaintyIsLast
  /\ RetryNeedsAnotherRun

\* The empty database satisfies the inductive invariant.
LEMMA InitEstablishesInv == StateInit => StateInv
<1> SUFFICES ASSUME StateInit PROVE StateInv
  OBVIOUS
<1>1. TypeOK
  BY MaxGenerationAssumption DEF StateInit, TypeOK, AbsentRow, Row
<1>2. RowShape
  BY DEF StateInit, RowShape, AbsentRow
<1>3. IntentsCoverGenerations
  BY MaxGenerationAssumption DEF StateInit, IntentsCoverGenerations, AbsentRow, Generations
<1>4. ReopenedOnlyIfNotApplied
  BY MaxGenerationAssumption DEF StateInit, ReopenedOnlyIfNotApplied, AbsentRow, Generations
<1>5. EvidenceMatchesIntent /\ ClosureHasProof /\ UncertaintyIsLast /\ RetryNeedsAnotherRun
  BY DEF StateInit, EvidenceMatchesIntent, ClosureHasProof, UncertaintyIsLast,
         RetryNeedsAnotherRun, AbsentRow
<1> QED BY <1>1, <1>2, <1>3, <1>4, <1>5 DEF StateInv

\* Opening a generation, first or retried, preserves the inductive invariant.
LEMMA IntentPreservesInv ==
  ASSUME StateInv, NEW e \in IntentEvidence, Intent(e)
  PROVE  StateInv'
<1> USE MaxGenerationAssumption
<1>0. /\ e.generation \in 1 .. MaxGeneration
      /\ e.expected \in 0 .. MaxGeneration
      /\ e.run \in Runs /\ e.plan \in Plans /\ e.mutation \in Mutations
  BY DEF IntentEvidence, Generations
<1>1. /\ row.reconciliation = "clear"
      /\ row.generation = e.expected
      /\ row.intent \in {"absent", "retryable"}
      /\ row.closed = e.expected
      /\ row.intent = "retryable" => row.run = e.prior /\ e.run # e.prior
  BY DEF Intent, OpenFirst, OpenRetry, StateInv, TypeOK, Row, RowShape
<1>2. /\ row' \in Row
      /\ row'.reconciliation = "clear"
      /\ row'.intent = "open"
      /\ row'.generation = e.generation
      /\ row'.closed = e.expected
      /\ row'.run = e.run /\ row'.plan = e.plan /\ row'.mutation = e.mutation
  <2>1. CASE OpenFirst(e)
    BY <2>1, <1>0, <1>1 DEF OpenFirst, Row, StateInv, TypeOK
  <2>2. CASE OpenRetry(e)
    <3>1. /\ row \in Row
          /\ row' = [row EXCEPT !.intent = "open", !.generation = e.generation,
                                !.run = e.run, !.plan = e.plan]
          /\ row.reconciliation = "clear"
          /\ row.closed = e.expected
          /\ row.mutation = e.mutation
      BY <2>2 DEF OpenRetry, StateInv, TypeOK
    <3>2. /\ e.generation \in 0 .. MaxGeneration
          /\ e.run \in Runs \cup {None} /\ e.plan \in Plans \cup {None}
      BY <1>0
    <3>3. row' \in Row
      BY <3>1, <3>2 DEF Row
    <3> QED BY <3>1, <3>3 DEF Row
  <2> QED BY <2>1, <2>2 DEF Intent
<1>3. /\ e.generation = row.generation + 1
      /\ intents' = intents \cup {e}
      /\ UNCHANGED <<outcomes, requirements, readbacks>>
      /\ row.generation \in 0 .. MaxGeneration
  BY <1>1 DEF Intent, StateInv, TypeOK, Row
<1>4. TypeOK'
  BY <1>2, <1>3 DEF StateInv, TypeOK
<1>5. RowShape'
  BY <1>0, <1>1, <1>2, <1>3 DEF RowShape
<1>6. \A f \in intents : f.generation \in Generations /\ f.generation <= row.generation
  BY DEF StateInv, TypeOK, IntentsCoverGenerations, IntentEvidence
<1>7. IntentsCoverGenerations'
  <2>1. \A g \in Generations :
          g <= row'.generation <=> \E f \in intents' : f.generation = g
    BY <1>0, <1>2, <1>3 DEF StateInv, IntentsCoverGenerations, Generations
  <2>2. \A f, h \in intents' : f.generation = h.generation => f = h
    BY <1>3, <1>6 DEF StateInv, IntentsCoverGenerations, Generations
  <2>3. \A f \in intents' : f.generation = row'.generation =>
          f.run = row'.run /\ f.plan = row'.plan /\ f.mutation = row'.mutation
    BY <1>2, <1>3, <1>6 DEF Generations
  <2> QED BY <2>1, <2>2, <2>3 DEF IntentsCoverGenerations
<1>8. EvidenceMatchesIntent'
  BY <1>3 DEF StateInv, EvidenceMatchesIntent
<1>9. ReopenedOnlyIfNotApplied'
  <2> SUFFICES ASSUME NEW g \in Generations, g < row'.generation
               PROVE  \E f \in readbacks : /\ f.generation = g
                                           /\ f.close
                                           /\ f.completion = "retryable"
                                           /\ f.code = "verified_not_applied"
    BY <1>3 DEF ReopenedOnlyIfNotApplied
  <2>1. CASE g < row.generation
    BY <2>1 DEF StateInv, ReopenedOnlyIfNotApplied
  <2>2. CASE g = row.generation
    <3>1. row.intent = "retryable"
      BY <2>2, <1>1 DEF StateInv, RowShape, Generations
    <3>2. PICK f \in readbacks : /\ f.generation = row.generation
                                 /\ f.close
                                 /\ f.completion = "retryable"
      BY <3>1 DEF StateInv, ClosureHasProof
    <3>3. f.code = "verified_not_applied"
      BY <3>2 DEF StateInv, TypeOK, ReadbackEvidence
    <3> QED BY <2>2, <3>2, <3>3
  <2> QED BY <2>1, <2>2, <1>2, <1>3 DEF Generations
<1>10. ClosureHasProof'
  BY <1>2 DEF ClosureHasProof
<1>11. UncertaintyIsLast'
  BY <1>1, <1>3 DEF StateInv, UncertaintyIsLast
<1>12. RetryNeedsAnotherRun'
  <2> SUFFICES ASSUME NEW f \in intents', NEW h \in intents',
                      h.generation = f.generation + 1
               PROVE  h.run # f.run
    BY DEF RetryNeedsAnotherRun
  <2>1. f \in intents
    BY <1>0, <1>3, <1>6 DEF Generations
  <2>2. CASE h \in intents
    BY <2>1, <2>2 DEF StateInv, RetryNeedsAnotherRun
  <2>3. CASE h = e
    <3>1. f.generation = row.generation
      BY <2>1, <2>3, <1>3, <1>6 DEF Generations
    <3>2. row.intent = "retryable"
      BY <2>1, <3>1, <1>1, <1>6 DEF StateInv, RowShape, Generations
    <3>3. f.run = row.run
      BY <2>1, <3>1 DEF StateInv, IntentsCoverGenerations
    <3> QED BY <2>3, <3>2, <3>3, <1>1
  <2> QED BY <2>2, <2>3, <1>3
<1> QED BY <1>4, <1>5, <1>7, <1>8, <1>9, <1>10, <1>11, <1>12 DEF StateInv

\* Evidence that matches the open row matches the intent of its generation.
LEMMA OpenRowHasIntent ==
  ASSUME StateInv, NEW e, NEW s, e.generation \in Generations,
         MatchesOpenState(e, s)
  PROVE  \E i \in intents : /\ i.generation = e.generation
                            /\ i.run = e.run
                            /\ i.plan = e.plan
                            /\ i.mutation = e.mutation
<1>1. PICK i \in intents : i.generation = e.generation
  BY MaxGenerationAssumption
  DEF StateInv, TypeOK, Row, MatchesOpenState, IntentsCoverGenerations, Generations
<1> QED BY <1>1 DEF StateInv, MatchesOpenState, IntentsCoverGenerations

\* Recording an outcome preserves the inductive invariant.
LEMMA OutcomePreservesInv ==
  ASSUME StateInv, NEW e \in OutcomeEvidence, Outcome(e)
  PROVE  StateInv'
<1>1. \E i \in intents : /\ i.generation = e.generation
                         /\ i.run = e.run
                         /\ i.plan = e.plan
                         /\ i.mutation = e.mutation
  BY OpenRowHasIntent DEF Outcome, OutcomeEvidence
<1>2. outcomes' = outcomes \cup {e} /\ UNCHANGED <<row, intents, requirements, readbacks>>
  BY DEF Outcome
<1>3. TypeOK'
  BY <1>2 DEF StateInv, TypeOK
<1>4. EvidenceMatchesIntent'
  BY <1>1, <1>2 DEF StateInv, EvidenceMatchesIntent
<1>5. RowShape' /\ IntentsCoverGenerations' /\ ReopenedOnlyIfNotApplied'
      /\ ClosureHasProof' /\ UncertaintyIsLast' /\ RetryNeedsAnotherRun'
  BY <1>2 DEF StateInv, RowShape, IntentsCoverGenerations, ReopenedOnlyIfNotApplied,
              ClosureHasProof, UncertaintyIsLast, RetryNeedsAnotherRun
<1> QED BY <1>3, <1>4, <1>5 DEF StateInv

\* Requiring reconciliation preserves the inductive invariant.
LEMMA RequirePreservesInv ==
  ASSUME StateInv, NEW e \in ReasonEvidence, RequireReconciliation(e)
  PROVE  StateInv'
<1>1. \E i \in intents : /\ i.generation = e.generation
                         /\ i.run = e.run
                         /\ i.plan = e.plan
                         /\ i.mutation = e.mutation
  BY OpenRowHasIntent DEF RequireReconciliation, ReasonEvidence
<1>2. /\ requirements' = requirements \cup {e}
      /\ UNCHANGED <<intents, outcomes, readbacks>>
      /\ MatchesOpenState(e, "clear")
  BY DEF RequireReconciliation
<1>3. /\ row' \in Row
      /\ row'.reconciliation = "required" /\ row'.intent = "open"
      /\ row'.generation = row.generation /\ row'.closed = row.closed
      /\ row'.run = row.run /\ row'.plan = row.plan /\ row'.mutation = row.mutation
  BY DEF RequireReconciliation, MatchesOpenState, StateInv, TypeOK, Row
<1>4. TypeOK'
  BY <1>2, <1>3 DEF StateInv, TypeOK
<1>5. EvidenceMatchesIntent'
  BY <1>1, <1>2 DEF StateInv, EvidenceMatchesIntent
<1>6. UncertaintyIsLast'
  BY <1>2, <1>3 DEF StateInv, UncertaintyIsLast, MatchesOpenState
<1>7. RowShape' /\ IntentsCoverGenerations' /\ ReopenedOnlyIfNotApplied'
      /\ ClosureHasProof' /\ RetryNeedsAnotherRun'
  BY <1>2, <1>3 DEF StateInv, RowShape, IntentsCoverGenerations, ReopenedOnlyIfNotApplied,
              ClosureHasProof, RetryNeedsAnotherRun, MatchesOpenState
<1> QED BY <1>4, <1>5, <1>6, <1>7 DEF StateInv

\* A readback, closing or not, preserves the inductive invariant.
LEMMA ReadbackPreservesInv ==
  ASSUME StateInv, NEW e \in ReadbackEvidence, Readback(e)
  PROVE  StateInv'
<1>0. e.generation \in Generations /\ e.close \in BOOLEAN
  BY DEF ReadbackEvidence
<1>1. \E i \in intents : /\ i.generation = e.generation
                         /\ i.run = e.run
                         /\ i.plan = e.plan
                         /\ i.mutation = e.mutation
  BY <1>0, OpenRowHasIntent DEF Readback, CloseIntent, ObserveOnly
<1>2. /\ readbacks' = readbacks \cup {e}
      /\ UNCHANGED <<intents, outcomes, requirements>>
  BY DEF Readback
<1>3. EvidenceMatchesIntent'
  BY <1>1, <1>2 DEF StateInv, EvidenceMatchesIntent
<1>4. CASE ObserveOnly(e)
  <2>1. row' = row /\ row.intent = "open"
    BY <1>4 DEF ObserveOnly, MatchesOpenState
  <2>2. TypeOK'
    BY <1>2, <2>1 DEF StateInv, TypeOK
  <2>3. ReopenedOnlyIfNotApplied'
    BY <1>2, <2>1 DEF StateInv, ReopenedOnlyIfNotApplied
  <2>4. RowShape' /\ IntentsCoverGenerations'
        /\ ClosureHasProof' /\ UncertaintyIsLast' /\ RetryNeedsAnotherRun'
    BY <1>2, <2>1 DEF StateInv, RowShape, IntentsCoverGenerations,
                      ClosureHasProof, UncertaintyIsLast, RetryNeedsAnotherRun
  <2> QED BY <1>3, <2>2, <2>3, <2>4 DEF StateInv
<1>5. CASE CloseIntent(e)
  <2>1. /\ e.close
        /\ MatchesOpenState(e, "clear")
        /\ row.generation \in Nat /\ row.closed \in Nat
    BY <1>5, MaxGenerationAssumption DEF CloseIntent, StateInv, TypeOK, Row
  <2>2. /\ row' \in Row
        /\ row'.reconciliation = "clear"
        /\ row'.intent = IF e.completion = "retryable" THEN "retryable" ELSE "closed"
        /\ row'.generation = row.generation /\ row'.closed = row.generation
        /\ row'.run = row.run /\ row'.plan = row.plan /\ row'.mutation = row.mutation
    BY <1>5, <2>1 DEF CloseIntent, MatchesOpenState, StateInv, TypeOK, Row
  <2>3. TypeOK'
    BY <1>2, <2>2 DEF StateInv, TypeOK
  <2>4. RowShape'
    BY <2>1, <2>2 DEF StateInv, RowShape, MatchesOpenState
  <2>5. ReopenedOnlyIfNotApplied'
    BY <1>2, <2>2 DEF StateInv, ReopenedOnlyIfNotApplied
  <2>6. ClosureHasProof'
    <3>1. /\ e \in readbacks'
          /\ e.generation = row'.generation
          /\ e.run = row'.run
          /\ e.code # "not_verified"
      BY <1>2, <2>1, <2>2 DEF ReadbackEvidence, MatchesOpenState
    <3>2. (e.completion = "retryable") <=> (row'.intent = "retryable")
      BY <2>2
    <3> QED BY <2>1, <3>1, <3>2 DEF ClosureHasProof
  <2>7. UncertaintyIsLast'
    BY <1>2, <2>1 DEF StateInv, UncertaintyIsLast, MatchesOpenState
  <2>8. IntentsCoverGenerations' /\ RetryNeedsAnotherRun'
    BY <1>2, <2>2 DEF StateInv, IntentsCoverGenerations, RetryNeedsAnotherRun
  <2> QED BY <1>3, <2>3, <2>4, <2>5, <2>6, <2>7, <2>8 DEF StateInv
<1> QED BY <1>4, <1>5 DEF Readback

\* Every transaction of the hook preserves the inductive invariant.
LEMMA NextPreservesInv == StateInv /\ [StateNext]_stateVars => StateInv'
<1> SUFFICES ASSUME StateInv, [StateNext]_stateVars PROVE StateInv'
  OBVIOUS
<1>1. CASE \E e \in IntentEvidence : Intent(e)
  BY <1>1, IntentPreservesInv
<1>2. CASE \E e \in OutcomeEvidence : Outcome(e)
  BY <1>2, OutcomePreservesInv
<1>3. CASE \E e \in ReasonEvidence : RequireReconciliation(e)
  BY <1>3, RequirePreservesInv
<1>4. CASE \E e \in ReadbackEvidence : Readback(e)
  BY <1>4, ReadbackPreservesInv
<1>5. CASE UNCHANGED stateVars
  BY <1>5 DEF stateVars, StateInv, TypeOK, RowShape, IntentsCoverGenerations,
     EvidenceMatchesIntent, ReopenedOnlyIfNotApplied, ClosureHasProof,
     UncertaintyIsLast, RetryNeedsAnotherRun
<1> QED BY <1>1, <1>2, <1>3, <1>4, <1>5 DEF StateNext

\* Every reachable state of the hook satisfies the inductive invariant.
THEOREM StateInvariance == StateSpec => []StateInv
BY InitEstablishesInv, NextPreservesInv, PTL DEF StateSpec

\* The row and the tables only ever hold values the hook writes.
THEOREM TypeCorrect == StateSpec => []TypeOK
<1>1. StateInv => TypeOK
  BY DEF StateInv
<1> QED BY <1>1, StateInvariance, PTL

\* A generation is superseded only after a readback that closed it and
\* verified that the write was not applied.
THEOREM RetrySafety == StateSpec => []ReopenedOnlyIfNotApplied
<1>1. StateInv => ReopenedOnlyIfNotApplied
  BY DEF StateInv
<1> QED BY <1>1, StateInvariance, PTL

\* A generation whose reconciliation was required is never closed and never
\* superseded.
THEOREM ReconciliationIsSticky == StateSpec => []UncertaintyIsLast
<1>1. StateInv => UncertaintyIsLast
  BY DEF StateInv
<1> QED BY <1>1, StateInvariance, PTL

\* No caller can attach evidence to the intent of another authorization run.
THEOREM EvidenceBinding == StateSpec => []EvidenceMatchesIntent
<1>1. StateInv => EvidenceMatchesIntent
  BY DEF StateInv
<1> QED BY <1>1, StateInvariance, PTL

\* A closed or retryable row always has its verified closing readback.
THEOREM ClosureProof == StateSpec => []ClosureHasProof
<1>1. StateInv => ClosureHasProof
  BY DEF StateInv
<1> QED BY <1>1, StateInvariance, PTL

\* Two consecutive generations belong to different authorization runs.
THEOREM RetrySeparation == StateSpec => []RetryNeedsAnotherRun
<1>1. StateInv => RetryNeedsAnotherRun
  BY DEF StateInv
<1> QED BY <1>1, StateInvariance, PTL

\* A closed row and a row that requires reconciliation never change again.
THEOREM FinalSettlement == StateSpec => SettlementIsFinal
<1>1. StateInv /\ [StateNext]_stateVars =>
        [row.intent = "closed" \/ row.reconciliation = "required" => row' = row]_stateVars
  BY DEF StateInv, RowShape, StateNext, Intent, OpenFirst, OpenRetry, Outcome,
         RequireReconciliation, Readback, CloseIntent, ObserveOnly,
         MatchesOpenState, stateVars
<1> QED BY <1>1, StateInvariance, PTL DEF StateSpec, SettlementIsFinal
=============================================================================
