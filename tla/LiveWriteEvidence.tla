------------------------- MODULE LiveWriteEvidence -------------------------
(***************************************************************************)
(* The S4d composition of nac_m365_graph: the write edge runs over         *)
(* S4dMutationEvidenceHook (business_case_type_live_write_evidence.py),    *)
(* which keeps two stores in step that share no transaction: the local     *)
(* mutation state and the immutable evidence chain with its publisher.     *)
(* BusinessCaseTypeLiveWriteBoundary.execute reports the result.           *)
(*                                                                         *)
(* Every call of the hook that the edge makes is a sequence of steps here, *)
(* one per store it touches, so that a process can die, a store can fail   *)
(* or lose its answer, and another process can act between any two of      *)
(* them.  The other steps of the edge are those of GraphWriteEdge.         *)
(*                                                                         *)
(* The evidence context of a run has one correlation, so the chains are    *)
(* indexed by run: an event of another operation binding is refused.       *)
(***************************************************************************)
EXTENDS GraphWriteEdge

VARIABLES
  chains,          \* chains[r] = the canonical records of run r's correlation
  published,       \* the runs whose chain the publisher has completed
  receipt          \* receipt[w] = the hook in w holds a publication_result

evidenceVars == <<chains, published, receipt>>
liveVars == <<edgeVars, evidenceVars>>

\* The transition rules and the verdict of the evidence chain.
Canon == INSTANCE EvidenceChain
           WITH Principals <- {}, Nobody <- None, Offered <- {}, chain <- << >>

-----------------------------------------------------------------------------
(* The canonical chain. *)

\* Mutant of CanonicalCode: every verified observation counts as a success.
CanonicalCodeOfAnyObservation(phase, code) ==
  CASE phase = "outcome" ->
         IF code \in {"confirmed", "deduplicated"} THEN "confirmed"
         ELSE IF code = "write_state_uncertain" THEN Canon!UncertainOutcomeCode
         ELSE "failed"
    [] phase = "readback" -> IF code = "not_verified" THEN "failed" ELSE "verified"
    [] OTHER -> Canon!NoCode

CanonicalCode(phase, code) ==
  CASE phase = "outcome" ->
         IF code \in {"confirmed", "deduplicated"} THEN "confirmed"
         ELSE IF code = "write_state_uncertain" THEN Canon!UncertainOutcomeCode
         ELSE "failed"
    [] phase = "readback" ->
         IF code = "verified_applied" THEN "verified" ELSE "failed"
    [] OTHER -> Canon!NoCode

Canonical(phase, code) ==
  [phase |-> phase, code |-> CanonicalCode(phase, code),
   reason |-> IF phase = "reconciliation_required"
                THEN "provider-readback-required" ELSE Canon!NoCode,
   operator |-> None, approver |-> None]

\* _append: a phase that is already there must be the very same event.
Recorded(chain, event) == \E i \in DOMAIN chain : chain[i] = event

HasPhase(chain, phase) == \E i \in DOMAIN chain : chain[i].phase = phase

AppendTo(r, event) ==
  \/ /\ Recorded(chains[r], event)
     /\ UNCHANGED chains
  \/ /\ ~HasPhase(chains[r], event.phase)
     /\ Canon!Transition(chains[r], event)
     /\ chains' = [chains EXCEPT ![r] = Append(@, event)]

\* The outbox takes the event and says so, takes it without saying so, or
\* refuses it.  The hook sees an exception in the last two cases.
AppendCall(w, event, ok, failed) ==
  /\ \/ AppendTo(edge[w].run, event) /\ Become(w, ok)
     \/ AppendTo(edge[w].run, event) /\ Become(w, failed)
     \/ UNCHANGED chains /\ Become(w, failed)
  /\ UNCHANGED <<stateVars, listVars, calls, foreign, published, receipt>>

\* A call of the local hook leaves the canonical evidence alone.
LocalCall(w, Transaction, ok, failed) ==
  HookCall(w, Transaction, ok, failed) /\ UNCHANGED evidenceVars

\* _require_local_reconciliation: done already, or one more local call.
RequiredFor(s) ==
  /\ row.reconciliation = "required"
  /\ row.intent = "open"
  /\ row.generation = s.gen
  /\ row.run = s.run

RequireLocal(w, ok, failed) == LET s == edge[w] IN
  LocalCall(w, \/ RequiredFor(s) /\ UNCHANGED stateVars
               \/ /\ ~RequiredFor(s)
                  /\ \E code \in ReasonCodes : RequireReconciliation(EventOf(s, code)),
            ok, failed)

-----------------------------------------------------------------------------
(* intent: the local intent first, then the canonical one. *)

LocalIntent(w) == LET s == edge[w] IN
  /\ s.pc = "intent"
  /\ LocalCall(w, IntentOf(s) \in IntentEvidence /\ Intent(IntentOf(s)),
               [s EXCEPT !.pc = "intentAppend"], Done(s, "BLOCKED_EVIDENCE"))

\* Mutant of AppendIntent: a canonical intent that fails is not missed.
AppendIntentRegardless(w) == LET s == edge[w] IN
  /\ s.pc = "intentAppend"
  /\ AppendCall(w, Canonical("intent", "none"),
                [s EXCEPT !.pc = "intentCheck"], [s EXCEPT !.pc = "intentCheck"])

AppendIntent(w) == LET s == edge[w] IN
  /\ s.pc = "intentAppend"
  /\ AppendCall(w, Canonical("intent", "none"),
                [s EXCEPT !.pc = "intentCheck"], [s EXCEPT !.pc = "intentFailed"])

IntentFailed(w) == LET s == edge[w] IN
  /\ s.pc = "intentFailed"
  /\ RequireLocal(w, Done(s, "BLOCKED_EVIDENCE"), Done(s, "BLOCKED_EVIDENCE"))

-----------------------------------------------------------------------------
(* outcome: the local outcome first; a canonical failure is only reported. *)

LocalOutcome(w) == LET s == edge[w] IN
  /\ s.pc = "outcome"
  /\ LocalCall(w, Outcome(EventOf(s, OutcomeCode[s.kind])),
               [s EXCEPT !.pc = "outcomeAppend"], AfterOutcome(s, FALSE))

AppendOutcome(w) == LET s == edge[w] IN
  /\ s.pc = "outcomeAppend"
  /\ AppendCall(w, Canonical("outcome", OutcomeCode[s.kind]),
                AfterOutcome(s, TRUE), AfterOutcome(s, FALSE))

-----------------------------------------------------------------------------
(* reconciliation_required: the canonical event is best effort, the answer *)
(* is that of the local call.                                              *)

LocalRequirement(w) == LET s == edge[w] IN
  /\ s.pc = "require"
  /\ RequireLocal(w, [s EXCEPT !.pc = "requireAppend", !.persisted = TRUE],
                     [s EXCEPT !.pc = "requireAppend", !.persisted = FALSE])

AppendRequirement(w) == LET s == edge[w]
                            t == IF s.persisted THEN [s EXCEPT !.pc = "requireCheck"]
                                 ELSE AfterRequire(s, FALSE) IN
  /\ s.pc = "requireAppend"
  /\ AppendCall(w, Canonical("reconciliation_required", "none"), t, t)

-----------------------------------------------------------------------------
(* readback: canonical readback, publication, and only then the closure.   *)

AppendReadback(w) == LET s == edge[w] IN
  /\ s.pc = "readback"
  /\ AppendCall(w, Canonical("readback", ReadbackCode(s.obs)),
                [s EXCEPT !.pc = IF s.need THEN "readbackLocal" ELSE "finalize"],
                [s EXCEPT !.pc = "readbackFailed"])

\* The publisher completes only a complete chain; it may fail at any stage,
\* and its answer can be lost after the publication is durable.
Publish(r) == Canon!Complete(chains[r]) /\ published' = published \cup {r}

\* _validated_publication_result: a chain of three events, all acknowledged.
ThreeEvents(r) == Len(chains[r]) = 3

\* Mutant of Finalize: the closure does not wait for the publication.
FinalizeRegardless(w) == LET s == edge[w] IN
  /\ s.pc = "finalize"
  /\ \/ /\ Publish(s.run)
        /\ ThreeEvents(s.run)
        /\ receipt' = [receipt EXCEPT ![w] = TRUE]
     \/ UNCHANGED <<published, receipt>>
  /\ Become(w, [s EXCEPT !.pc = "readbackLocal"])
  /\ UNCHANGED <<stateVars, listVars, calls, foreign, chains>>

Finalize(w) == LET s == edge[w] IN
  /\ s.pc = "finalize"
  /\ \/ /\ Publish(s.run)
        /\ ThreeEvents(s.run)
        /\ receipt' = [receipt EXCEPT ![w] = TRUE]
        /\ Become(w, [s EXCEPT !.pc = "readbackLocal"])
     \/ /\ Publish(s.run) \/ UNCHANGED published
        /\ Become(w, [s EXCEPT !.pc = "readbackFailed"])
        /\ UNCHANGED receipt
  /\ UNCHANGED <<stateVars, listVars, calls, foreign, chains>>

LocalReadback(w) == LET s == edge[w] IN
  /\ s.pc = "readbackLocal"
  /\ LocalCall(w, ReadbackOf(s) \in ReadbackEvidence /\ Readback(ReadbackOf(s)),
               [s EXCEPT !.pc = "readbackCheck"], ReadbackFailed(s))

ReadbackRaised(w) == LET s == edge[w]
                         t == IF s.need THEN ReadbackFailed(s)
                              ELSE [s EXCEPT !.pc = "readbackObserve"] IN
  /\ s.pc = "readbackFailed"
  /\ RequireLocal(w, t, t)

\* _record_non_closing_readback
ObservedOnly(s) ==
  [ReadbackOf(s) EXCEPT !.code = "not_verified", !.close = FALSE,
                        !.completion = "terminal"]

RecordObservedOnly(w) == LET s == edge[w] IN
  /\ s.pc = "readbackObserve"
  /\ LocalCall(w, Readback(ObservedOnly(s)), ReadbackFailed(s), ReadbackFailed(s))

-----------------------------------------------------------------------------
(* The boundary. *)

\* execute: the static, identity and composition gates, then a fresh hook.
LiveExecute(w, r) ==
  /\ \/ Execute(w, r)
     \/ /\ edge[w].pc = "idle"
        /\ calls < MaxCalls
        /\ calls' = calls + 1
        /\ Become(w, Done([Idle EXCEPT !.run = r], "S4D_BLOCKED"))
        /\ UNCHANGED <<stateVars, listVars, foreign>>
  /\ receipt' = [receipt EXCEPT ![w] = FALSE]
  /\ UNCHANGED <<chains, published>>

\* An exception that leaves the edge is reported as uncertain.
Escape(w) ==
  /\ edge[w].pc \notin {"idle", "done"}
  /\ Become(w, Done(edge[w], "S4D_RECONCILIATION_REQUIRED"))
  /\ LocalStep

\* The status that the boundary reports for a finished execution.
Status(w) ==
  IF edge[w].result \in SettledResults /\ receipt[w]
    THEN "S4D_WRITE_VERIFIED" ELSE edge[w].result

\* The steps of the edge that do not go through the evidence hook.
EdgeStep(w) ==
  /\ \/ Admit(w) \/ DedupeRead(w) \/ FreshnessRead(w) \/ CheckIntent(w)
     \/ Write(w) \/ CheckRequire(w) \/ Observe(w) \/ ObserveItem(w)
     \/ CheckReadback(w) \/ Return(w) \/ Crash(w) \/ Escape(w)
  /\ UNCHANGED evidenceVars

HookStep(w) ==
  \/ LocalIntent(w) \/ AppendIntent(w) \/ IntentFailed(w)
  \/ LocalOutcome(w) \/ AppendOutcome(w)
  \/ LocalRequirement(w) \/ AppendRequirement(w)
  \/ AppendReadback(w) \/ Finalize(w) \/ LocalReadback(w)
  \/ ReadbackRaised(w) \/ RecordObservedOnly(w)

ListStep ==
  /\ ForeignChange \/ \E g \in pending : LateRequest(g)
  /\ UNCHANGED evidenceVars

LiveInit ==
  /\ EdgeInit
  /\ chains = [r \in Runs |-> << >>]
  /\ published = {}
  /\ receipt = [w \in Workers |-> FALSE]

LiveNext ==
  \/ \E w \in Workers, r \in Runs : LiveExecute(w, r)
  \/ \E w \in Workers : EdgeStep(w) \/ HookStep(w)
  \/ ListStep

LiveSpec == LiveInit /\ [][LiveNext]_liveVars

-----------------------------------------------------------------------------
(* Properties. *)

\* "Local closure occurs only after verified WORM readback" (AC-S4D-01): a row
\* that is no longer open belongs to a run whose chain is published, has the
\* three events of a normal write and ends with a verified readback.
ClosedIsPublished ==
  row.intent \in {"closed", "retryable"} =>
    /\ row.run \in published
    /\ Canon!Phases(chains[row.run]) = Canon!NormalPhaseOrder
    /\ chains[row.run][3].code = "verified"

\* "A failure before step 6 causes zero write attempts": a request leaves the
\* process only after both the local and the canonical intent are recorded.
CanonicalIntentFirst ==
  \A g \in Generations : writes[g] > 0 =>
    \E e \in intents : /\ e.generation = g
                       /\ HasPhase(chains[e.run], "intent")

\* "Automatic mutation replay is forbidden" (AC-S4D-04): whatever fails, one
\* mutation is sent at most once.  Only a verified non-application could
\* release the row for another run, and its chain can never be published.
NeverReplayed ==
  \A g, h \in Generations : writes[g] > 0 /\ writes[h] > 0 => g = h /\ writes[g] = 1

\* A report is true: a settled result is always S4D_WRITE_VERIFIED and then
\* the row is closed by that run, its chain is published and the provider was
\* seen with the change applied.
VerifiedIsTrue ==
  \A w \in Workers :
    edge[w].pc = "done" /\ edge[w].result \in SettledResults =>
      /\ Status(w) = "S4D_WRITE_VERIFIED"
      /\ row.intent = "closed" /\ row.run = edge[w].run
      /\ edge[w].run \in published
      /\ \E e \in readbacks : /\ e.run = edge[w].run
                              /\ e.close
                              /\ e.code = "verified_applied"
=============================================================================
