--------------------------- MODULE MutationState ---------------------------
(***************************************************************************)
(* The durable mutation state behind the governed Graph write edge:        *)
(* SqliteMutationEvidenceHook of nac_m365_graph/                           *)
(* business_case_type_write_state.py.                                      *)
(*                                                                         *)
(* One execution key is modelled.  Every statement of the hook selects its *)
(* row and its events by execution_key, so keys do not interact.  The row  *)
(* of table mutation_state is the record row; the four event tables are    *)
(* the sets intents, outcomes, requirements and readbacks, each with the   *)
(* primary key (execution_key, intent_generation).                         *)
(*                                                                         *)
(* A hook call is one SQLite transaction (BEGIN IMMEDIATE ... COMMIT), so  *)
(* it is one action.  A call that is refused, finds the database busy or   *)
(* fails its size check rolls back and changes nothing: a stuttering step. *)
(* The callers here are arbitrary: any evidence that passes                *)
(* _validated_evidence may arrive in any order.                            *)
(***************************************************************************)
EXTENDS Integers

CONSTANTS
  Runs,            \* authorization_run_identity values
  Plans,           \* plan_sha256 values
  Mutations,       \* the other bindings: mutation, operation, target, S5 hash
  None,            \* SQL NULL
  MaxGeneration,   \* largest generation _is_generation accepts (2^63 - 2)
  OutcomeCodes,    \* _RESULT_CODES["outcome"]
  ReasonCodes      \* _RESULT_CODES["reconciliation"]

ASSUME MaxGenerationAssumption == MaxGeneration \in Nat \ {0}
ASSUME NoneAssumption == None \notin Runs \cup Plans \cup Mutations

VARIABLES
  row,             \* the mutation_state row; intent = "absent" when there is none
  intents,         \* table intent_events
  outcomes,        \* table outcome_events
  requirements,    \* table reconciliation_events
  readbacks        \* table readback_events

tables == <<intents, outcomes, requirements, readbacks>>
stateVars == <<row, intents, outcomes, requirements, readbacks>>

-----------------------------------------------------------------------------
(* What the hook accepts as evidence: _validated_evidence. *)

Generations == 1 .. MaxGeneration

ReadbackCodes == {"not_verified", "verified_applied", "verified_not_applied"}

CompletionStates == {"terminal", "retryable"}

IntentEvidence ==
  [generation : Generations, expected : 0 .. MaxGeneration,
   prior : Runs \cup {None}, run : Runs, plan : Plans, mutation : Mutations]

OutcomeEvidence ==
  [generation : Generations, run : Runs, plan : Plans, mutation : Mutations,
   code : OutcomeCodes]

ReasonEvidence ==
  [generation : Generations, run : Runs, plan : Plans, mutation : Mutations,
   code : ReasonCodes]

\* A closing readback must be verified, only a verified non-application may be
\* completed as retryable, and a readback that does not close is terminal.
ReadbackEvidence ==
  {e \in [generation : Generations, run : Runs, plan : Plans,
          mutation : Mutations, code : ReadbackCodes,
          close : BOOLEAN, completion : CompletionStates] :
     /\ e.close => e.code # "not_verified"
     /\ e.completion = "retryable" => e.code = "verified_not_applied"
     /\ ~e.close => e.completion = "terminal"}

Row ==
  [reconciliation : {"clear", "required"},
   intent : {"absent", "open", "retryable", "closed"},
   generation : 0 .. MaxGeneration, closed : 0 .. MaxGeneration,
   run : Runs \cup {None}, plan : Plans \cup {None},
   mutation : Mutations \cup {None}]

\* What persistence_state reports when the table has no row for the key.
AbsentRow ==
  [reconciliation |-> "clear", intent |-> "absent", generation |-> 0,
   closed |-> 0, run |-> None, plan |-> None, mutation |-> None]

-----------------------------------------------------------------------------
(* The transactions. *)

\* A second event of one phase and generation violates the primary key, and
\* the IntegrityError rolls the whole transaction back.
NoEvent(table, generation) == \A e \in table : e.generation # generation

MatchesOpenState(e, reconciliation) ==
  /\ row.reconciliation = reconciliation
  /\ row.intent = "open"
  /\ row.generation = e.generation
  /\ row.closed < row.generation
  /\ row.run = e.run
  /\ row.mutation = e.mutation
  /\ row.plan = e.plan

OpenFirst(e) ==
  /\ row.intent = "absent"
  /\ e.expected = 0
  /\ e.prior = None
  /\ row' = [reconciliation |-> "clear", intent |-> "open",
             generation |-> e.generation, closed |-> 0,
             run |-> e.run, plan |-> e.plan, mutation |-> e.mutation]

\* Mutant of OpenRetry: the test against the prior run identity is dropped.
OpenRetryAnyRun(e) ==
  /\ row.reconciliation = "clear"
  /\ row.intent = "retryable"
  /\ row.generation = e.expected
  /\ row.closed = e.expected
  /\ row.run = e.prior
  /\ row.mutation = e.mutation
  /\ row' = [row EXCEPT !.intent = "open", !.generation = e.generation,
                        !.run = e.run, !.plan = e.plan]

\* Mutant of OpenRetry: a closed generation may be opened again.
OpenRetryClosed(e) ==
  /\ row.intent \in {"retryable", "closed"}
  /\ row.generation = e.expected
  /\ row.run = e.prior
  /\ e.run # e.prior
  /\ row.mutation = e.mutation
  /\ row' = [row EXCEPT !.intent = "open", !.generation = e.generation,
                        !.run = e.run, !.plan = e.plan]

OpenRetry(e) ==
  /\ row.reconciliation = "clear"
  /\ row.intent = "retryable"
  /\ row.generation = e.expected
  /\ row.closed = e.expected
  /\ row.run = e.prior
  /\ e.run # e.prior
  /\ row.mutation = e.mutation
  /\ row' = [row EXCEPT !.intent = "open", !.generation = e.generation,
                        !.run = e.run, !.plan = e.plan]

Intent(e) ==
  /\ e.generation = e.expected + 1
  /\ OpenFirst(e) \/ OpenRetry(e)
  /\ NoEvent(intents, e.generation)
  /\ intents' = intents \cup {e}
  /\ UNCHANGED <<outcomes, requirements, readbacks>>

\* Mutant of Outcome: the outcome is appended whichever run presents it.
OutcomeOfAnyRun(e) ==
  /\ row.intent = "open"
  /\ row.generation = e.generation
  /\ NoEvent(outcomes, e.generation)
  /\ outcomes' = outcomes \cup {e}
  /\ UNCHANGED <<row, intents, requirements, readbacks>>

Outcome(e) ==
  /\ MatchesOpenState(e, "clear")
  /\ NoEvent(outcomes, e.generation)
  /\ outcomes' = outcomes \cup {e}
  /\ UNCHANGED <<row, intents, requirements, readbacks>>

RequireReconciliation(e) ==
  /\ MatchesOpenState(e, "clear")
  /\ row' = [row EXCEPT !.reconciliation = "required"]
  /\ NoEvent(requirements, e.generation)
  /\ requirements' = requirements \cup {e}
  /\ UNCHANGED <<intents, outcomes, readbacks>>

\* Mutant of CloseIntent: reconciliation no longer blocks the closure.
CloseRequired(e) ==
  /\ e.close
  /\ MatchesOpenState(e, row.reconciliation)
  /\ row' = [row EXCEPT
       !.reconciliation = "clear",
       !.intent = IF e.completion = "retryable" THEN "retryable" ELSE "closed",
       !.closed = row.generation]

\* Mutant of CloseIntent: every verified closure can be reopened.
CloseAlwaysRetryable(e) ==
  /\ e.close
  /\ MatchesOpenState(e, "clear")
  /\ row' = [row EXCEPT !.intent = "retryable", !.closed = row.generation]

\* Mutant of CloseIntent: the completion state is stored as the intent state.
CloseStoresCompletion(e) ==
  /\ e.close
  /\ MatchesOpenState(e, "clear")
  /\ row' = [row EXCEPT !.intent = e.completion, !.closed = row.generation]

CloseIntent(e) ==
  /\ e.close
  /\ MatchesOpenState(e, "clear")
  /\ row' = [row EXCEPT
       !.intent = IF e.completion = "retryable" THEN "retryable" ELSE "closed",
       !.closed = row.generation]

ObserveOnly(e) ==
  /\ ~e.close
  /\ e.completion = "terminal"
  /\ MatchesOpenState(e, "required")
  /\ UNCHANGED row

Readback(e) ==
  /\ CloseIntent(e) \/ ObserveOnly(e)
  /\ NoEvent(readbacks, e.generation)
  /\ readbacks' = readbacks \cup {e}
  /\ UNCHANGED <<intents, outcomes, requirements>>

-----------------------------------------------------------------------------
StateInit ==
  /\ row = AbsentRow
  /\ intents = {}
  /\ outcomes = {}
  /\ requirements = {}
  /\ readbacks = {}

StateNext ==
  \/ \E e \in IntentEvidence : Intent(e)
  \/ \E e \in OutcomeEvidence : Outcome(e)
  \/ \E e \in ReasonEvidence : RequireReconciliation(e)
  \/ \E e \in ReadbackEvidence : Readback(e)

StateSpec == StateInit /\ [][StateNext]_stateVars

-----------------------------------------------------------------------------
(* Properties. *)

\* The row and the four tables hold only values the hook writes.
TypeOK ==
  /\ row \in Row
  /\ intents \subseteq IntentEvidence
  /\ outcomes \subseteq OutcomeEvidence
  /\ requirements \subseteq ReasonEvidence
  /\ readbacks \subseteq ReadbackEvidence

\* The CHECK constraints of the table and _valid_state_row: an open row is
\* exactly one generation ahead of its closure, any other row is closed up to
\* its generation, and only an open row can require reconciliation.
RowShape ==
  /\ (row.intent = "absent") <=> (row.generation = 0)
  /\ row.intent = "open" => row.generation = row.closed + 1
  /\ row.intent # "open" => row.generation = row.closed
  /\ row.reconciliation = "required" => row.intent = "open"

\* The generations the hook has opened are exactly 1 .. row.generation, each
\* with one intent, and the row carries the bindings of the last one.
IntentsCoverGenerations ==
  /\ \A g \in Generations :
       g <= row.generation <=> \E e \in intents : e.generation = g
  /\ \A e, f \in intents : e.generation = f.generation => e = f
  /\ \A e \in intents : e.generation = row.generation =>
       /\ e.run = row.run
       /\ e.plan = row.plan
       /\ e.mutation = row.mutation

\* Outcome, reconciliation and readback events (_matches_open_state) carry the
\* run, plan and mutation of the intent of their generation: no caller can
\* attach its evidence to the intent of another authorization run.
EvidenceMatchesIntent ==
  \A e \in outcomes \cup requirements \cup readbacks :
    \E i \in intents :
      /\ i.generation = e.generation
      /\ i.run = e.run
      /\ i.plan = e.plan
      /\ i.mutation = e.mutation

\* A generation is superseded only after a readback that closed it and
\* verified that its write was not applied (_readback, then _intent).
ReopenedOnlyIfNotApplied ==
  \A g \in Generations : g < row.generation =>
    \E e \in readbacks :
      /\ e.generation = g
      /\ e.close
      /\ e.completion = "retryable"
      /\ e.code = "verified_not_applied"

\* The closed state always has its proof: a verified readback that closed this
\* very generation on behalf of the run recorded in the row.
ClosureHasProof ==
  row.intent \in {"closed", "retryable"} =>
    \E e \in readbacks :
      /\ e.generation = row.generation
      /\ e.run = row.run
      /\ e.close
      /\ e.code # "not_verified"
      /\ e.completion = "retryable" <=> row.intent = "retryable"

\* A generation whose reconciliation was required is the last one: it is never
\* closed and never superseded (_require_reconciliation has no way back).
UncertaintyIsLast ==
  \A e \in requirements :
    /\ e.generation = row.generation
    /\ row.intent = "open"
    /\ row.reconciliation = "required"

\* Two consecutive generations belong to different authorization runs: a retry
\* needs another authorization than the attempt before it (_intent).
RetryNeedsAnotherRun ==
  \A e, f \in intents : f.generation = e.generation + 1 => f.run # e.run

\* Terminal states of the row are final: a closed row and a row that requires
\* reconciliation never change again, whatever evidence arrives.
SettlementIsFinal ==
  [][row.intent = "closed" \/ row.reconciliation = "required" => row' = row]_stateVars

\* "A later, separately authorized run may restart only with a new canonical
\* authorization-run identity": no run identity opens two generations.
AuthorizationUsedOnce ==
  \A e, f \in intents : e.run = f.run => e.generation = f.generation
=============================================================================
