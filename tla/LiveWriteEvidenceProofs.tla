---------------------- MODULE LiveWriteEvidenceProofs ----------------------
(***************************************************************************)
(* Proofs about the S4d composition for every number of processes, runs,   *)
(* calls and foreign edits, and every generation limit.                    *)
(*                                                                         *)
(* The argument: a closing readback is recorded only after the canonical   *)
(* chain was published, a chain with a failed readback is never published, *)
(* and a verified non-application is a failed readback.  So no generation  *)
(* is ever released, there is only a first one, and the execution that     *)
(* recorded its intent is the only one that holds it.                      *)
(***************************************************************************)
EXTENDS LiveWriteEvidence, GraphWriteEdgeProofs

-----------------------------------------------------------------------------
(* The invariant. *)

\* The locals of an execution.
Fields == {"pc", "run", "seen", "prior", "gen", "kind", "obs", "item", "etag", "recorded",
           "need", "place", "persisted", "result"}

\* The steps that handle a response, apart from the end of the readback.
Plain == {"outcome", "outcomeAppend", "require", "requireAppend", "requireCheck", "observe",
          "observeItem", "readback", "readbackFailed", "readbackObserve"}
Handling == Plain \cup {"finalize", "readbackLocal", "readbackCheck"}

\* The steps before the request, and all steps after the local intent.
Unsent == {"intentAppend", "intentFailed", "intentCheck", "write"}
Holding == Unsent \cup Handling

Requiring == {"require", "requireAppend", "requireCheck"}

\* What the locals say of each other.
Locals(s) ==
  /\ DOMAIN s = Fields
  /\ s.recorded \in BOOLEAN /\ s.need \in BOOLEAN /\ s.persisted \in BOOLEAN
  /\ s.pc # "idle" => s.run \in Runs
  /\ s.pc \in Holding => s.gen \in Generations
  /\ s.pc \in {"intent", "intentAppend", "intentCheck"} => s.kind \in PlanKinds
  /\ s.pc \in Handling => s.kind \in Handled
  /\ s.pc \in Requiring => s.need /\ s.place \in {"before", "after", "final"}
  /\ s.pc \in {"finalize", "readbackObserve"} => ~s.need

\* A published chain: that of a normal write whose readback verified it.
Verified(c) == Canon!Phases(c) = Canon!NormalPhaseOrder /\ c[3].code = "verified"

\* The execution has closed its generation, and the hook holds the receipt.
Settled(s, rec, r, rbs, pub) ==
  /\ rec /\ r.intent = "closed" /\ r.run = s.run /\ s.run \in pub
  /\ \E e \in rbs : e.run = s.run /\ e.close /\ e.code = "verified_applied"

\* What the two stores say of an execution: receipt rec, row r, readbacks rbs,
\* requests n, chains cs and publications pub.
Tied(s, rec, r, rbs, n, cs, pub) ==
  /\ s.pc \in Holding => r.generation = s.gen /\ r.run = s.run
  /\ s.pc \in Unsent => n[s.gen] = 0
  /\ s.pc \in {"intentCheck", "write"} \cup Handling => HasPhase(cs[s.run], "intent")
  /\ s.pc = "finalize" => Recorded(cs[s.run], Canonical("readback", ReadbackCode(s.obs)))
  /\ s.pc = "readbackLocal" /\ ~s.need =>
       rec /\ s.run \in pub /\ Verified(cs[s.run]) /\ s.obs = "applied"
  /\ s.pc = "readbackCheck" /\ ~s.need => Settled(s, rec, r, rbs, pub)
  /\ s.pc = "done" /\ s.result \in SettledResults => Settled(s, rec, r, rbs, pub)

ExecutionsAreTied ==
  /\ DOMAIN edge = Workers /\ receipt \in [Workers -> BOOLEAN]
  /\ \A w \in Workers :
       Locals(edge[w]) /\ Tied(edge[w], receipt[w], row, readbacks, writes, chains, published)

\* One execution at a time holds the generation.
OneHolder ==
  \A v, w \in Workers : edge[v].pc \in Holding /\ edge[w].pc \in Holding => v = w

\* No readback has released a generation.
NoRelease == \A e \in readbacks : e.completion = "terminal"

ChainsOK == chains \in [Runs -> Seq(Canon!Events)]

RequestsOK ==
  /\ writes \in [Generations -> Nat]
  /\ \A g \in Generations : writes[g] <= 1
  /\ CanonicalIntentFirst

StoresAgree == NoRelease /\ ChainsOK /\ RequestsOK /\ ClosedIsPublished

LiveInv == StateInv /\ ExecutionsAreTied /\ OneHolder /\ StoresAgree

-----------------------------------------------------------------------------
(* The canonical chain. *)

CanonicalPhases == {"intent", "outcome", "readback", "reconciliation_required"}

\* The events of the hook are events of the chain.
LEMMA CanonicalIs ==
  ASSUME NEW phase \in CanonicalPhases, NEW code
  PROVE  Canonical(phase, code) \in Canon!Events /\ Canonical(phase, code).phase = phase
<1>1. /\ phase = "intent" => CanonicalCode(phase, code) = Canon!NoCode
      /\ phase = "outcome" =>
           CanonicalCode(phase, code) \in {"confirmed", "failed", Canon!UncertainOutcomeCode}
      /\ phase = "readback" => CanonicalCode(phase, code) \in {"verified", "failed"}
      /\ phase = "reconciliation_required" => CanonicalCode(phase, code) = Canon!NoCode
  BY DEF CanonicalCode, CanonicalPhases
<1> QED
  BY <1>1 DEF Canonical, CanonicalPhases, Canon!Events, Canon!SuccessReadbackCodes,
              Canon!ReconciliationReasons

\* The positions of a normal chain.
LEMMA NormalIs ==
  ASSUME NEW c \in Seq(Canon!Events), Canon!Phases(c) = Canon!NormalPhaseOrder
  PROVE  /\ Len(c) = 3
         /\ c[1].phase = "intent" /\ c[2].phase = "outcome" /\ c[3].phase = "readback"
<1>1. Len(c) \in Nat /\ DOMAIN Canon!Phases(c) = 1 .. Len(c)
  BY DEF Canon!Phases
<1>2. DOMAIN Canon!Phases(c) = 1 .. 3
  BY DEF Canon!NormalPhaseOrder
<1>3. Len(c) = 3
  BY <1>1, <1>2
<1>4. \A i \in 1 .. 3 : c[i].phase = Canon!NormalPhaseOrder[i]
  BY <1>3 DEF Canon!Phases
<1> QED BY <1>3, <1>4 DEF Canon!NormalPhaseOrder

\* A published chain takes no further event of the hook.
LEMMA VerifiedIsFinal ==
  ASSUME NEW c \in Seq(Canon!Events), Verified(c), NEW e, e.phase \in CanonicalPhases,
         ~HasPhase(c, e.phase)
  PROVE  ~Canon!Transition(c, e)
<1>1. /\ Len(c) = 3 /\ c[3].code = "verified"
      /\ c[1].phase = "intent" /\ c[2].phase = "outcome" /\ c[3].phase = "readback"
  BY NormalIs DEF Verified
<1>2. 1 \in DOMAIN c /\ 2 \in DOMAIN c /\ 3 \in DOMAIN c
  BY <1>1
<1>3. e.phase = "reconciliation_required"
  BY <1>1, <1>2 DEF HasPhase, CanonicalPhases
<1>4. ~Canon!RequirementAllowed(c, e)
  BY <1>1 DEF Canon!RequirementAllowed, Canon!Last
<1> QED BY <1>1, <1>3, <1>4 DEF Canon!Transition, Canon!Allowed

\* A chain that the publisher takes and that has three events, one of them the
\* readback of this observation: the write was seen applied.
LEMMA PublishedIsApplied ==
  ASSUME NEW c \in Seq(Canon!Events), Canon!Complete(c), Len(c) = 3, NEW obs,
         Recorded(c, Canonical("readback", ReadbackCode(obs)))
  PROVE  Verified(c) /\ obs = "applied"
<1>1. ASSUME Canon!Phases(c) \in Canon!ReconciliationPhaseOrders PROVE FALSE
  <2>1. DOMAIN Canon!Phases(c) = 1 .. 3
    BY DEF Canon!Phases
  <2>2. \E n \in {5, 6, 7} : DOMAIN Canon!Phases(c) = 1 .. n
    <3>1. \A order \in Canon!ReconciliationPhaseOrders : \E n \in {5, 6, 7} : DOMAIN order = 1 .. n
      BY DEF Canon!ReconciliationPhaseOrders
    <3> QED BY <1>1, <3>1
  <2>3. PICK n \in {5, 6, 7} : DOMAIN Canon!Phases(c) = 1 .. n
    BY <2>2
  <2>4. 4 \in 1 .. n /\ 4 \notin 1 .. 3
    BY <2>3
  <2> QED BY <2>1, <2>3, <2>4
<1>2. Canon!Phases(c) = Canon!NormalPhaseOrder /\ c[3].code \in {"confirmed", "verified"}
  BY <1>1 DEF Canon!Complete, Canon!SuccessReadbackCodes
<1>3. PICK i \in DOMAIN c : c[i] = Canonical("readback", ReadbackCode(obs))
  BY DEF Recorded
<1>4. i = 3
  <2>1. i \in 1 .. 3
    BY <1>3
  <2>2. c[i].phase = "readback"
    BY <1>3, CanonicalIs DEF CanonicalPhases
  <2> QED BY <1>2, <2>1, <2>2, NormalIs
<1>5. c[3].code = CanonicalCode("readback", ReadbackCode(obs))
  BY <1>3, <1>4 DEF Canonical
<1>6. ReadbackCode(obs) = "verified_applied" /\ c[3].code = "verified"
  BY <1>2, <1>5 DEF CanonicalCode
<1>7. obs = "applied"
  BY <1>6 DEF ReadbackCode
<1> QED BY <1>2, <1>6, <1>7 DEF Verified

\* What an accepted event leaves of the chains.
LEMMA AppendIs ==
  ASSUME ChainsOK, NEW r \in Runs, NEW e \in Canon!Events, e.phase \in CanonicalPhases,
         AppendTo(r, e)
  PROVE  /\ ChainsOK'
         /\ \A q \in Runs : \A phase : HasPhase(chains[q], phase) => HasPhase(chains'[q], phase)
         /\ \A q \in Runs : Verified(chains[q]) => chains'[q] = chains[q]
         /\ Recorded(chains'[r], e)
<1>1. CASE Recorded(chains[r], e) /\ UNCHANGED chains
  BY <1>1 DEF ChainsOK
<1>2. CASE /\ ~HasPhase(chains[r], e.phase) /\ Canon!Transition(chains[r], e)
           /\ chains' = [chains EXCEPT ![r] = Append(@, e)]
  <2> DEFINE c == chains[r]  d == Append(c, e)
  <2>1. c \in Seq(Canon!Events) /\ Len(c) \in Nat
    BY DEF ChainsOK
  <2>2. /\ d \in Seq(Canon!Events) /\ DOMAIN d = 1 .. Len(c) + 1 /\ DOMAIN c = 1 .. Len(c)
        /\ d[Len(c) + 1] = e /\ \A i \in 1 .. Len(c) : d[i] = c[i]
    BY <2>1
  <2> HIDE DEF d
  <2>3. chains' \in [Runs -> Seq(Canon!Events)]
        /\ \A q \in Runs : chains'[q] = IF q = r THEN d ELSE chains[q]
    BY <1>2, <2>2 DEF ChainsOK, d
  <2>4. \A phase : HasPhase(c, phase) => HasPhase(d, phase)
    BY <2>1, <2>2 DEF HasPhase
  <2>5. Recorded(d, e)
    <3>1. Len(c) + 1 \in DOMAIN d
      BY <2>1, <2>2
    <3> QED BY <2>2, <3>1 DEF Recorded
  <2>6. ~Verified(c)
    BY <1>2, <2>1, VerifiedIsFinal
  <2> QED BY <2>3, <2>4, <2>5, <2>6 DEF ChainsOK
<1> QED BY <1>1, <1>2 DEF AppendTo

-----------------------------------------------------------------------------
(* Only the first generation exists. *)

\* Without a release the row is never reopened.
LEMMA FirstIsLast ==
  ASSUME StateInv, NoRelease
  PROVE  /\ row \in Row /\ row.intent # "retryable" /\ row.generation \in Nat
         /\ row.generation <= 1
         /\ row.intent = "absent" <=> row.generation = 0
<1>1. row \in Row /\ row.generation \in 0 .. MaxGeneration /\ MaxGeneration \in Nat
  BY MaxGenerationAssumption DEF StateInv, TypeOK, Row
<1>2. row.intent # "retryable"
  BY DEF StateInv, ClosureHasProof, NoRelease
<1>3. ASSUME row.generation > 1 PROVE FALSE
  <2>1. 1 \in Generations /\ 1 < row.generation
    BY <1>1, <1>3 DEF Generations
  <2> QED BY <2>1 DEF StateInv, ReopenedOnlyIfNotApplied, NoRelease
<1> QED BY <1>1, <1>2, <1>3 DEF StateInv, RowShape

\* An execution that holds a generation finds it recorded.
LEMMA HolderIs ==
  ASSUME LiveInv, NEW w \in Workers
  PROVE  /\ Locals(edge[w])
         /\ Tied(edge[w], receipt[w], row, readbacks, writes, chains, published)
         /\ edge[w].pc \in Holding =>
              /\ edge[w].gen \in Generations /\ edge[w].run \in Runs
              /\ row.generation = edge[w].gen /\ row.run = edge[w].run
              /\ row.generation # 0
BY MaxGenerationAssumption
DEF LiveInv, ExecutionsAreTied, Locals, Tied, Holding, Unsent, Handling, Plain, Generations

-----------------------------------------------------------------------------
(* One execution moves and the others stay. *)

\* A step of worker w to the local state t.  Only the holder changes what the
\* other executions could rely on, and a closed row stays closed.
LEMMA LiveStepKeeps ==
  ASSUME LiveInv, StateInv', StoresAgree', NEW w \in Workers, NEW t,
         edge' = [edge EXCEPT ![w] = t], receipt' \in [Workers -> BOOLEAN],
         \A v \in Workers : v # w => receipt'[v] = receipt[v],
         Locals(t), Tied(t, receipt'[w], row', readbacks', writes', chains', published'),
         t.pc \in Holding => edge[w].pc \in Holding \/ row.generation = 0,
         edge[w].pc \notin Holding /\ row.generation # 0 => UNCHANGED <<row, writes, chains>>,
         row.intent = "closed" => row' = row,
         readbacks \subseteq readbacks', published \subseteq published'
  PROVE  LiveInv'
<1>1. DOMAIN edge = Workers /\ \A v \in Workers : edge'[v] = IF v = w THEN t ELSE edge[v]
  BY DEF LiveInv, ExecutionsAreTied
<1>2. OneHolder'
  <2> SUFFICES ASSUME NEW u \in Workers, NEW v \in Workers, edge'[u].pc \in Holding,
                      edge'[v].pc \in Holding, u # v
               PROVE  FALSE
    BY DEF OneHolder
  <2>1. \A x \in Workers : x # w => (edge'[x].pc \in Holding => edge[x].pc \in Holding)
    BY <1>1
  <2>2. PICK x \in {u, v} : x # w
    OBVIOUS
  <2>3. edge[x].pc \in Holding /\ row.generation # 0
    BY <2>1, <2>2, HolderIs
  <2>4. CASE u # w /\ v # w
    BY <2>1, <2>4 DEF LiveInv, OneHolder
  <2>5. CASE u = w \/ v = w
    <3>1. edge[w].pc \in Holding
      BY <1>1, <2>3, <2>5
    <3> QED BY <2>2, <2>3, <3>1 DEF LiveInv, OneHolder
  <2> QED BY <2>4, <2>5
<1>3. ASSUME NEW v \in Workers, v # w
      PROVE  Tied(edge[v], receipt[v], row', readbacks', writes', chains', published')
  <2>1. Locals(edge[v]) /\ Tied(edge[v], receipt[v], row, readbacks, writes, chains, published)
    BY HolderIs
  <2>2. CASE edge[v].pc \in Holding
    <3>1. edge[w].pc \notin Holding /\ row.generation # 0
      BY <1>3, <2>2, HolderIs DEF LiveInv, OneHolder
    <3>2. row' = row /\ writes' = writes /\ chains' = chains
      BY <3>1
    <3>3. edge[v].pc # "done"
      BY <2>2 DEF Holding, Unsent, Handling, Plain
    <3> QED BY <2>1, <3>2, <3>3 DEF Tied, Settled
  <2>3. CASE edge[v].pc \notin Holding
    <3>1. Settled(edge[v], receipt[v], row, readbacks, published) =>
            Settled(edge[v], receipt[v], row', readbacks', published')
      BY DEF Settled
    <3>2. edge[v].pc \notin Handling \cup Unsent
      BY <2>3 DEF Holding
    <3> QED BY <2>1, <2>3, <3>1, <3>2 DEF Tied, Handling, Unsent
  <2> QED BY <2>2, <2>3
<1>4. ExecutionsAreTied'
  <2>1. DOMAIN edge' = Workers
    BY <1>1
  <2>2. ASSUME NEW v \in Workers
        PROVE  Locals(edge'[v])
               /\ Tied(edge'[v], receipt'[v], row', readbacks', writes', chains', published')
    <3>1. CASE v = w
      BY <1>1, <3>1
    <3>2. CASE v # w
      BY <1>1, <1>3, <3>2, HolderIs
    <3> QED BY <3>1, <3>2
  <2> QED BY <2>1, <2>2 DEF ExecutionsAreTied
<1> QED BY <1>2, <1>4 DEF LiveInv

\* A step that changes nothing but the local state of one execution.
Still == UNCHANGED <<row, intents, outcomes, requirements, readbacks, writes, chains, published>>

\* The stores agree as they did.
LEMMA StillAgrees ==
  ASSUME StateInv, StoresAgree, Still
  PROVE  StateInv' /\ StoresAgree'
<1>1. StateInv'
  BY NextPreservesInv DEF Still, stateVars
<1>2. StoresAgree'
  BY DEF Still, StoresAgree, NoRelease, ChainsOK, RequestsOK, CanonicalIntentFirst,
         ClosedIsPublished
<1> QED BY <1>1, <1>2

\* A local step.
LEMMA StillKeeps ==
  ASSUME LiveInv, NEW w \in Workers, NEW t, edge' = [edge EXCEPT ![w] = t], Still,
         UNCHANGED receipt, Locals(t),
         Tied(t, receipt[w], row, readbacks, writes, chains, published),
         t.pc \in Holding => edge[w].pc \in Holding
  PROVE  LiveInv'
<1>1. StateInv' /\ StoresAgree'
  BY StillAgrees DEF LiveInv
<1>2. receipt \in [Workers -> BOOLEAN]
  BY DEF LiveInv, ExecutionsAreTied
<1>3. UNCHANGED <<row, readbacks, writes, chains, published>>
  BY DEF Still
<1> QED BY <1>1, <1>2, <1>3, LiveStepKeeps

-----------------------------------------------------------------------------
(* The local states that the steps lead to. *)

\* The execution in s goes on handling the response, or ends without a settled
\* result.
Continues(s, t) ==
  /\ Locals(t)
  /\ \/ t.pc \in Plain /\ t.gen = s.gen /\ t.run = s.run
     \/ t.pc = "done" /\ t.result \notin SettledResults

\* Then it claims no more than that the row and the canonical intent are its own.
LEMMA ContinuesTied ==
  ASSUME NEW s, NEW t, Continues(s, t), NEW rec, NEW r, NEW rbs, NEW n, NEW cs, NEW pub,
         r.generation = s.gen, r.run = s.run, HasPhase(cs[s.run], "intent")
  PROVE  Tied(t, rec, r, rbs, n, cs, pub)
<1>1. CASE t.pc \in Plain /\ t.gen = s.gen /\ t.run = s.run
  <2>1. /\ t.pc \notin Unsent
        /\ t.pc \notin {"finalize", "readbackLocal", "readbackCheck", "done"}
    BY <1>1 DEF Plain, Unsent
  <2> QED BY <1>1, <2>1 DEF Tied
<1>2. CASE t.pc = "done" /\ t.result \notin SettledResults
  BY <1>2 DEF Tied, Holding, Unsent, Handling, Plain
<1> QED BY <1>1, <1>2 DEF Continues

\* The fields of an idle and of a finished execution.
LEMMA EndIs ==
  /\ DOMAIN Idle = Fields /\ Locals(Idle) /\ Idle.pc = "idle"
  /\ \A s, status : LET d == Done(s, status)
                    IN /\ DOMAIN d = Fields /\ d.pc = "done" /\ d.run = s.run
                       /\ d.result = status
                       /\ d.recorded = FALSE /\ d.need = FALSE /\ d.persisted = TRUE
<1>1. DOMAIN Idle = Fields /\ Idle.pc = "idle" /\ Idle.recorded = FALSE /\ Idle.need = FALSE
      /\ Idle.persisted = TRUE
  BY DEF Idle, Fields
<1>2. Locals(Idle)
  BY <1>1 DEF Locals, Holding, Unsent, Handling, Plain, Requiring
<1>3. ASSUME NEW s, NEW status
      PROVE  LET d == Done(s, status)
             IN /\ DOMAIN d = Fields /\ d.pc = "done" /\ d.run = s.run
                /\ d.result = status
                /\ d.recorded = FALSE /\ d.need = FALSE /\ d.persisted = TRUE
  BY <1>1 DEF Done, Fields
<1> QED BY <1>1, <1>2, <1>3

\* A result that settles nothing.
LEMMA UnsettledIs ==
  ASSUME NEW s, s.run \in Runs, NEW status, status \notin SettledResults
  PROVE  Continues(s, Done(s, status))
<1> DEFINE d == Done(s, status)
<1>1. /\ DOMAIN d = Fields /\ d.pc = "done" /\ d.run = s.run /\ d.result = status
      /\ d.recorded = FALSE /\ d.need = FALSE /\ d.persisted = TRUE
  BY EndIs
<1> HIDE DEF d
<1>2. Locals(d)
  BY <1>1 DEF Locals, Holding, Unsent, Handling, Plain, Requiring
<1>3. Continues(s, d)
  BY <1>1, <1>2 DEF Continues
<1> QED BY <1>3 DEF d

\* An execution that is not holding claims nothing either.
LEMMA OutsideTied ==
  ASSUME NEW t, t.pc \notin Holding, t.pc = "done" => t.result \notin SettledResults,
         NEW rec, NEW r, NEW rbs, NEW n, NEW cs, NEW pub
  PROVE  Tied(t, rec, r, rbs, n, cs, pub)
BY DEF Tied, Holding, Unsent, Handling

\* The report of an execution that needs reconciliation.
LEMMA NeedyReport ==
  ASSUME NEW s, s.kind \in Handled, s.need = TRUE, s.persisted \in BOOLEAN
  PROVE  Report(s) \notin SettledResults
<1>1. Report(s) \in {"RECONCILIATION_REQUIRED", "RECONCILIATION_PERSISTENCE_FAILED"}
  BY ReportIs
<1> QED BY <1>1 DEF SettledResults

\* After the outcome.
LEMMA OutcomeContinues ==
  ASSUME NEW s, Locals(s), s.pc \in Handling, NEW ok \in BOOLEAN
  PROVE  Continues(s, AfterOutcome(s, ok))
<1> DEFINE t == [s EXCEPT !.recorded = ok]
           marked == [t EXCEPT !.pc = "require", !.place = "before", !.need = TRUE]
           plain == [t EXCEPT !.pc = "observe"]
<1>0. /\ DOMAIN s = Fields /\ s.need \in BOOLEAN /\ s.persisted \in BOOLEAN
      /\ s.run \in Runs /\ s.gen \in Generations /\ s.kind \in Handled
  BY DEF Locals, Holding, Handling, Plain
<1>1. /\ DOMAIN t = Fields /\ t.run = s.run /\ t.gen = s.gen /\ t.kind = s.kind
      /\ t.recorded = ok /\ t.need = s.need /\ t.persisted = s.persisted
  BY <1>0 DEF Fields
<1> HIDE DEF t
<1>2. /\ DOMAIN marked = Fields /\ marked.run = s.run /\ marked.gen = s.gen
      /\ marked.kind = s.kind /\ marked.recorded = ok /\ marked.need = TRUE
      /\ marked.persisted = s.persisted /\ marked.pc = "require" /\ marked.place = "before"
  BY <1>1 DEF Fields
<1>3. /\ DOMAIN plain = Fields /\ plain.run = s.run /\ plain.gen = s.gen
      /\ plain.kind = s.kind /\ plain.recorded = ok /\ plain.need = s.need
      /\ plain.persisted = s.persisted /\ plain.pc = "observe"
  BY <1>1 DEF Fields
<1>4. AfterOutcome(s, ok) \in {marked, plain}
  BY DEF AfterOutcome, t
<1> HIDE DEF marked, plain
<1>5. Continues(s, marked)
  BY <1>0, <1>2 DEF Continues, Locals, Plain, Requiring
<1>6. Continues(s, plain)
  BY <1>0, <1>3 DEF Continues, Locals, Plain, Requiring
<1> QED BY <1>4, <1>5, <1>6

\* After the marker.
LEMMA RequireContinues ==
  ASSUME NEW s, Locals(s), s.pc \in Requiring, NEW ok \in BOOLEAN
  PROVE  Continues(s, AfterRequire(s, ok))
<1> DEFINE t == [s EXCEPT !.persisted = ok]
           to(p) == [t EXCEPT !.pc = p]
<1>0. /\ DOMAIN s = Fields /\ s.need = TRUE /\ s.recorded \in BOOLEAN
      /\ s.run \in Runs /\ s.gen \in Generations /\ s.kind \in Handled
      /\ s.place \in {"before", "after", "final"}
  BY DEF Locals, Holding, Handling, Plain, Requiring
<1>1. /\ DOMAIN t = Fields /\ t.run = s.run /\ t.gen = s.gen /\ t.kind = s.kind
      /\ t.recorded = s.recorded /\ t.need = TRUE /\ t.persisted = ok
  BY <1>0 DEF Fields
<1> HIDE DEF t
<1>2. ASSUME NEW p \in {"observe", "readback"} PROVE Continues(s, to(p))
  <2>1. /\ DOMAIN to(p) = Fields /\ to(p).run = s.run /\ to(p).gen = s.gen
        /\ to(p).kind = s.kind /\ to(p).recorded = s.recorded /\ to(p).need = TRUE
        /\ to(p).persisted = ok /\ to(p).pc = p
    BY <1>1 DEF Fields
  <2> HIDE DEF to
  <2> QED BY <1>0, <2>1 DEF Continues, Locals, Plain, Requiring
<1>3. Continues(t, Done(t, Report(t)))
  BY <1>0, <1>1, NeedyReport, UnsettledIs
<1>4. Done(t, Report(t)).pc = "done"
  BY EndIs
<1>5. Continues(s, Done(t, Report(t)))
  BY <1>3, <1>4 DEF Continues, Plain
<1>6. AfterRequire(s, ok) \in {to("observe"), to("readback"), Done(t, Report(t))}
  BY <1>0 DEF AfterRequire, t
<1> HIDE DEF to
<1> QED BY <1>2, <1>5, <1>6

\* After the observation.
LEMMA ObserveContinues ==
  ASSUME NEW s, Locals(s), s.pc \in Handling, NEW obs
  PROVE  Continues(s, AfterObserve(s, obs))
<1> DEFINE t == [s EXCEPT !.obs = obs]
           need == NeedsReconciliation(t)
           n == [t EXCEPT !.need = need]
           marked == [n EXCEPT !.pc = "require", !.place = "after"]
           plain == [n EXCEPT !.pc = "readback"]
<1>0. /\ DOMAIN s = Fields /\ s.recorded \in BOOLEAN /\ s.persisted \in BOOLEAN
      /\ s.run \in Runs /\ s.gen \in Generations /\ s.kind \in Handled
  BY DEF Locals, Holding, Handling, Plain
<1>1. /\ DOMAIN t = Fields /\ t.run = s.run /\ t.gen = s.gen /\ t.kind = s.kind
      /\ t.recorded = s.recorded /\ t.persisted = s.persisted
  BY <1>0 DEF Fields
<1>2. AfterObserve(s, obs) = IF MarksAfter(t) THEN marked ELSE plain
  BY DEF AfterObserve
<1> HIDE DEF t
<1>3. need \in BOOLEAN /\ (MarksAfter(t) => need = TRUE)
  BY <1>0, <1>1, NeedsIs DEF MarksAfter
<1> HIDE DEF need
<1>4. /\ DOMAIN n = Fields /\ n.run = s.run /\ n.gen = s.gen /\ n.kind = s.kind
      /\ n.recorded = s.recorded /\ n.persisted = s.persisted /\ n.need = need
  BY <1>1 DEF Fields
<1> HIDE DEF n
<1>5. /\ DOMAIN marked = Fields /\ marked.run = s.run /\ marked.gen = s.gen
      /\ marked.kind = s.kind /\ marked.recorded = s.recorded /\ marked.need = need
      /\ marked.persisted = s.persisted /\ marked.pc = "require" /\ marked.place = "after"
  BY <1>4 DEF Fields
<1>6. /\ DOMAIN plain = Fields /\ plain.run = s.run /\ plain.gen = s.gen
      /\ plain.kind = s.kind /\ plain.recorded = s.recorded /\ plain.need = need
      /\ plain.persisted = s.persisted /\ plain.pc = "readback"
  BY <1>4 DEF Fields
<1> HIDE DEF marked, plain
<1>7. MarksAfter(t) => Continues(s, marked)
  BY <1>0, <1>3, <1>5 DEF Continues, Locals, Plain, Requiring
<1>8. Continues(s, plain)
  BY <1>0, <1>3, <1>6 DEF Continues, Locals, Plain, Requiring
<1> QED BY <1>2, <1>7, <1>8

\* After a readback that was not confirmed.
LEMMA FailureContinues ==
  ASSUME NEW s, Locals(s), s.pc \in Handling
  PROVE  Continues(s, ReadbackFailed(s))
<1> DEFINE t == [s EXCEPT !.need = TRUE, !.pc = "require", !.place = "final"]
<1>0. /\ DOMAIN s = Fields /\ s.recorded \in BOOLEAN /\ s.persisted \in BOOLEAN
      /\ s.need \in BOOLEAN /\ s.run \in Runs /\ s.gen \in Generations /\ s.kind \in Handled
  BY DEF Locals, Holding, Handling, Plain
<1>1. /\ DOMAIN t = Fields /\ t.run = s.run /\ t.gen = s.gen /\ t.kind = s.kind
      /\ t.recorded = s.recorded /\ t.persisted = s.persisted /\ t.need = TRUE
      /\ t.pc = "require" /\ t.place = "final"
  BY <1>0 DEF Fields
<1>2. ReadbackFailed(s) = IF s.need THEN Done(s, Report(s)) ELSE t
  BY DEF ReadbackFailed
<1> HIDE DEF t
<1>3. Continues(s, t)
  BY <1>0, <1>1 DEF Continues, Locals, Plain, Requiring
<1>4. s.need => Continues(s, Done(s, Report(s)))
  BY <1>0, NeedyReport, UnsettledIs
<1> QED BY <1>2, <1>3, <1>4

\* The next step of the same execution.
LEMMA MovesOn ==
  ASSUME NEW s, Locals(s), NEW p, p # "idle", s.pc # "idle"
  PROVE  LET t == [s EXCEPT !.pc = p]
         IN /\ DOMAIN t = Fields /\ t.pc = p /\ t.run = s.run /\ t.gen = s.gen
            /\ t.kind = s.kind /\ t.obs = s.obs /\ t.need = s.need /\ t.place = s.place
            /\ t.recorded \in BOOLEAN /\ t.need \in BOOLEAN /\ t.persisted \in BOOLEAN
            /\ t.run \in Runs
BY DEF Locals, Fields

-----------------------------------------------------------------------------
(* The steps of the edge that leave the stores alone. *)

\* The handling goes on.
LEMMA ContinuesKeeps ==
  ASSUME LiveInv, NEW w \in Workers, NEW t, edge' = [edge EXCEPT ![w] = t], Still,
         UNCHANGED receipt, edge[w].pc \in Handling, Continues(edge[w], t)
  PROVE  LiveInv'
<1>1. edge[w].pc \in Holding
  BY DEF Holding
<1>2. /\ row.generation = edge[w].gen /\ row.run = edge[w].run
      /\ HasPhase(chains[edge[w].run], "intent")
  BY <1>1, HolderIs DEF Tied
<1>3. Tied(t, receipt[w], row, readbacks, writes, chains, published)
  BY <1>2, ContinuesTied
<1> QED BY <1>1, <1>3, StillKeeps DEF Continues

\* The execution ends with a result that settles nothing.
LEMMA EndKeeps ==
  ASSUME LiveInv, NEW w \in Workers, Still, UNCHANGED receipt, edge[w].pc # "idle",
         NEW status, status \notin SettledResults, Become(w, Done(edge[w], status))
  PROVE  LiveInv'
<1> DEFINE d == Done(edge[w], status)
<1>1. Locals(d) /\ d.pc = "done" /\ d.result = status
  BY HolderIs, UnsettledIs, EndIs DEF Continues, Locals
<1>2. edge' = [edge EXCEPT ![w] = d]
  BY DEF Become
<1> HIDE DEF d
<1>3. d.pc \notin Holding
  BY <1>1 DEF Holding, Unsent, Handling, Plain
<1>4. Tied(d, receipt[w], row, readbacks, writes, chains, published)
  BY <1>1, <1>3, OutsideTied
<1> QED BY <1>1, <1>2, <1>3, <1>4, StillKeeps

\* A local step of the edge.
LEMMA LocalIsStill ==
  ASSUME LocalStep, UNCHANGED evidenceVars
  PROVE  Still /\ UNCHANGED receipt
BY DEF LocalStep, Still, stateVars, listVars, evidenceVars

\* The steps up to the intent.
LEMMA EarlyKeeps ==
  ASSUME LiveInv, NEW w \in Workers, Still, UNCHANGED receipt, NEW t,
         edge' = [edge EXCEPT ![w] = t], edge[w].pc # "idle",
         t.pc \in {"dedupe", "freshness", "intent"}, DOMAIN t = Fields, t.run = edge[w].run,
         t.recorded = edge[w].recorded, t.need = edge[w].need,
         t.persisted = edge[w].persisted, t.pc = "intent" => t.kind \in PlanKinds
  PROVE  LiveInv'
<1>1. t.pc \notin Holding /\ t.pc # "done"
  BY DEF Holding, Unsent, Handling, Plain
<1>2. Locals(t)
  BY <1>1, HolderIs DEF Locals, Holding, Requiring, Handling, Plain
<1>3. Tied(t, receipt[w], row, readbacks, writes, chains, published)
  BY <1>1, OutsideTied
<1> QED BY <1>1, <1>2, <1>3, StillKeeps

\* The first state read.
LEMMA LiveAdmit ==
  ASSUME LiveInv, NEW w \in Workers, Admit(w), UNCHANGED evidenceVars
  PROVE  LiveInv'
<1> DEFINE s == edge[w]
           next == IF method = "POST" THEN "dedupe" ELSE "freshness"
           t == [s EXCEPT !.seen = row.generation, !.prior = row.run, !.pc = next]
<1>1. s.pc = "admit" /\ Still /\ UNCHANGED receipt /\ DOMAIN s = Fields
  BY LocalIsStill, HolderIs DEF Admit, Locals
<1>2. CASE Become(w, Done(s, "BLOCKED_RECONCILIATION_STATE"))
  BY <1>1, <1>2, EndKeeps DEF SettledResults
<1>3. CASE Refusal(s) # "none" /\ Become(w, Done(s, Refusal(s)))
  <2>1. Refusal(s) \notin SettledResults
    BY <1>3 DEF Refusal, SettledResults
  <2> QED BY <1>1, <1>3, <2>1, EndKeeps
<1>4. CASE Become(w, t)
  <2>1. /\ DOMAIN t = Fields /\ t.pc = next /\ t.run = s.run /\ t.recorded = s.recorded
        /\ t.need = s.need /\ t.persisted = s.persisted
    BY <1>1 DEF Fields
  <2>2. edge' = [edge EXCEPT ![w] = t]
    BY <1>4 DEF Become
  <2> HIDE DEF t
  <2> QED BY <1>1, <2>1, <2>2, EarlyKeeps
<1> QED BY <1>2, <1>3, <1>4 DEF Admit

\* The reads before the intent.
LEMMA LivePreflight ==
  ASSUME LiveInv, NEW w \in Workers, DedupeRead(w) \/ FreshnessRead(w), UNCHANGED evidenceVars
  PROVE  LiveInv'
<1> DEFINE s == edge[w]
           plain == [s EXCEPT !.pc = "intent", !.gen = s.seen + 1, !.kind = "write"]
           known(i) == [s EXCEPT !.pc = "intent", !.gen = s.seen + 1, !.kind = "dedupe",
                                 !.item = i, !.etag = items[i].etag]
           torn(obs) == [s EXCEPT !.pc = "intent", !.gen = s.seen + 1, !.kind = "ambiguous",
                                  !.obs = obs]
           blocked == {"BLOCKED_PREFLIGHT_TRANSPORT", "BLOCKED_DEDUPE_READ",
                       "BLOCKED_FRESHNESS_READ", "BLOCKED_ETAG_DRIFT"}
<1>1. s.pc \in {"dedupe", "freshness"} /\ Still /\ UNCHANGED receipt /\ DOMAIN s = Fields
  BY LocalIsStill, HolderIs DEF DedupeRead, FreshnessRead, Locals
<1>2. ASSUME NEW status \in blocked, Become(w, Done(s, status)) PROVE LiveInv'
  BY <1>1, <1>2, EndKeeps DEF SettledResults
<1>3. CASE Become(w, plain)
  <2>1. /\ DOMAIN plain = Fields /\ plain.pc = "intent" /\ plain.run = s.run
        /\ plain.recorded = s.recorded /\ plain.need = s.need
        /\ plain.persisted = s.persisted /\ plain.kind = "write"
    BY <1>1 DEF Fields
  <2>2. edge' = [edge EXCEPT ![w] = plain]
    BY <1>3 DEF Become
  <2> HIDE DEF plain
  <2> QED BY <1>1, <2>1, <2>2, EarlyKeeps DEF PlanKinds
<1>4. ASSUME NEW i, Become(w, known(i)) PROVE LiveInv'
  <2> DEFINE t == known(i)
  <2>1. /\ DOMAIN t = Fields /\ t.pc = "intent" /\ t.run = s.run
        /\ t.recorded = s.recorded /\ t.need = s.need
        /\ t.persisted = s.persisted /\ t.kind = "dedupe"
    BY <1>1 DEF Fields
  <2>2. edge' = [edge EXCEPT ![w] = t]
    BY <1>4 DEF Become
  <2> HIDE DEF t
  <2> QED BY <1>1, <2>1, <2>2, EarlyKeeps DEF PlanKinds
<1>5. ASSUME NEW obs, Become(w, torn(obs)) PROVE LiveInv'
  <2> DEFINE t == torn(obs)
  <2>1. /\ DOMAIN t = Fields /\ t.pc = "intent" /\ t.run = s.run
        /\ t.recorded = s.recorded /\ t.need = s.need
        /\ t.persisted = s.persisted /\ t.kind = "ambiguous"
    BY <1>1 DEF Fields
  <2>2. edge' = [edge EXCEPT ![w] = t]
    BY <1>5 DEF Become
  <2> HIDE DEF t
  <2> QED BY <1>1, <2>1, <2>2, EarlyKeeps DEF PlanKinds
<1>6. \/ \E status \in blocked : Become(w, Done(s, status))
      \/ Become(w, plain) \/ (\E i : Become(w, known(i))) \/ (\E obs : Become(w, torn(obs)))
  <2>1. CASE DedupeRead(w)
    BY <2>1 DEF DedupeRead
  <2>2. CASE FreshnessRead(w)
    BY <2>2 DEF FreshnessRead
  <2> QED BY <2>1, <2>2
<1> HIDE DEF plain, known, torn, blocked, s
<1> QED BY <1>2, <1>3, <1>4, <1>5, <1>6

\* The state read after the intent.
LEMMA LiveCheckIntent ==
  ASSUME LiveInv, NEW w \in Workers, CheckIntent(w), UNCHANGED evidenceVars
  PROVE  LiveInv'
<1> DEFINE s == edge[w]
           next == IF s.kind = "write" THEN "write" ELSE "outcome"
           t == [s EXCEPT !.pc = next]
<1>1. s.pc = "intentCheck" /\ Still /\ UNCHANGED receipt /\ Locals(s)
      /\ Tied(s, receipt[w], row, readbacks, writes, chains, published)
  BY LocalIsStill, HolderIs DEF CheckIntent
<1>2. CASE Become(w, Done(s, "BLOCKED_EVIDENCE"))
  BY <1>1, <1>2, EndKeeps DEF SettledResults
<1>3. CASE Become(w, t)
  <2>1. /\ s.kind \in PlanKinds /\ s.gen \in Generations /\ s.run \in Runs
        /\ row.generation = s.gen /\ row.run = s.run /\ writes[s.gen] = 0
        /\ HasPhase(chains[s.run], "intent")
    BY <1>1 DEF Locals, Tied, Holding, Unsent
  <2>2. /\ DOMAIN t = Fields /\ t.pc = next /\ t.run = s.run /\ t.gen = s.gen
        /\ t.kind = s.kind
        /\ t.recorded \in BOOLEAN /\ t.need \in BOOLEAN /\ t.persisted \in BOOLEAN
    BY <1>1, MovesOn
  <2>3. edge' = [edge EXCEPT ![w] = t]
    BY <1>3 DEF Become
  <2> HIDE DEF t
  <2>4. t.pc = "write" \/ (t.pc = "outcome" /\ t.kind \in Handled)
    BY <2>1, <2>2 DEF PlanKinds, Handled
  <2>5. Locals(t)
    BY <2>1, <2>2, <2>4 DEF Locals, Handling, Plain, Requiring
  <2>6. Tied(t, receipt[w], row, readbacks, writes, chains, published)
    BY <2>1, <2>2, <2>4 DEF Tied, Unsent
  <2>7. s.pc \in Holding
    BY <1>1 DEF Holding, Unsent
  <2> QED BY <1>1, <2>3, <2>5, <2>6, <2>7, StillKeeps
<1> QED BY <1>2, <1>3 DEF CheckIntent

\* The state read after the marker, and the observations.
LEMMA LiveHandle ==
  ASSUME LiveInv, NEW w \in Workers, CheckRequire(w) \/ Observe(w) \/ ObserveItem(w),
         UNCHANGED evidenceVars
  PROVE  LiveInv'
<1> DEFINE s == edge[w]
           second(i) == [s EXCEPT !.pc = "observeItem", !.item = i, !.etag = items[i].etag]
<1>1. /\ s.pc \in {"requireCheck", "observe", "observeItem"} /\ s.pc \in Handling
      /\ Still /\ UNCHANGED receipt /\ Locals(s)
  BY LocalIsStill, HolderIs DEF CheckRequire, Observe, ObserveItem, Handling, Plain
<1>2. ASSUME NEW t, Become(w, t), Continues(s, t) PROVE LiveInv'
  BY <1>1, <1>2, ContinuesKeeps DEF Become
<1>3. ASSUME NEW i PROVE Continues(s, second(i))
  <2> DEFINE t == second(i)
  <2>1. /\ DOMAIN s = Fields /\ s.run \in Runs /\ s.gen \in Generations /\ s.kind \in Handled
        /\ s.recorded \in BOOLEAN /\ s.need \in BOOLEAN /\ s.persisted \in BOOLEAN
    BY <1>1 DEF Locals, Holding, Handling, Plain
  <2>2. /\ DOMAIN t = Fields /\ t.pc = "observeItem" /\ t.run = s.run /\ t.gen = s.gen
        /\ t.kind = s.kind /\ t.recorded = s.recorded /\ t.need = s.need
        /\ t.persisted = s.persisted
    BY <2>1 DEF Fields
  <2> HIDE DEF t
  <2>3. Continues(s, t)
    BY <2>1, <2>2 DEF Continues, Locals, Plain, Requiring
  <2> QED BY <2>3 DEF t
<1>4. CASE CheckRequire(w)
  <2>1. s.pc \in Requiring /\ \E ok \in BOOLEAN : Become(w, AfterRequire(s, ok))
    BY <1>4 DEF CheckRequire, Requiring
  <2> QED BY <1>1, <1>2, <2>1, RequireContinues
<1>5. CASE Observe(w) \/ ObserveItem(w)
  <2>1. (\E obs : Become(w, AfterObserve(s, obs))) \/ (\E i : Become(w, second(i)))
    <3>1. CASE Observe(w)
      BY <3>1 DEF Observe
    <3>2. CASE ObserveItem(w)
      BY <3>2 DEF ObserveItem
    <3> QED BY <1>5, <3>1, <3>2
  <2> HIDE DEF second
  <2> QED BY <1>1, <1>2, <1>3, <2>1, ObserveContinues
<1> QED BY <1>4, <1>5

\* The state read after the readback: it confirms what the execution knows.
LEMMA LiveCheckReadback ==
  ASSUME LiveInv, NEW w \in Workers, CheckReadback(w), UNCHANGED evidenceVars
  PROVE  LiveInv'
<1> DEFINE s == edge[w]
           d == Done(s, Report(s))
<1>1. /\ s.pc = "readbackCheck" /\ s.pc \in Handling /\ Still /\ UNCHANGED receipt /\ Locals(s)
      /\ Tied(s, receipt[w], row, readbacks, writes, chains, published)
  BY LocalIsStill, HolderIs DEF CheckReadback, Handling
<1>2. CASE Become(w, ReadbackFailed(s))
  BY <1>1, <1>2, FailureContinues, ContinuesKeeps DEF Become
<1>3. CASE Become(w, d)
  <2>1. s.run \in Runs /\ s.kind \in Handled /\ s.need \in BOOLEAN /\ s.persisted \in BOOLEAN
    BY <1>1 DEF Locals
  <2>2. CASE s.need
    BY <1>1, <1>3, <2>1, <2>2, NeedyReport, EndKeeps
  <2>3. CASE ~s.need
    <3>1. Settled(s, receipt[w], row, readbacks, published)
      BY <1>1, <2>3 DEF Tied
    <3>2. /\ DOMAIN d = Fields /\ d.pc = "done" /\ d.run = s.run
          /\ d.recorded = FALSE /\ d.need = FALSE /\ d.persisted = TRUE
      BY EndIs
    <3>3. edge' = [edge EXCEPT ![w] = d]
      BY <1>3 DEF Become
    <3> HIDE DEF d
    <3>4. d.pc \notin Holding
      BY <3>2 DEF Holding, Unsent, Handling, Plain
    <3>5. Locals(d)
      BY <2>1, <3>2, <3>4 DEF Locals, Holding, Requiring, Handling, Plain
    <3>6. Settled(d, receipt[w], row, readbacks, published)
      BY <3>1, <3>2 DEF Settled
    <3>7. Tied(d, receipt[w], row, readbacks, writes, chains, published)
      BY <3>2, <3>4, <3>6 DEF Tied, Holding, Unsent, Handling
    <3> QED BY <1>1, <3>3, <3>4, <3>5, <3>7, StillKeeps
  <2> QED BY <2>1, <2>2, <2>3
<1> QED BY <1>2, <1>3 DEF CheckReadback

\* The result is taken, the process dies, or an exception leaves the edge.
LEMMA LiveForget ==
  ASSUME LiveInv, NEW w \in Workers, Return(w) \/ Crash(w) \/ Escape(w), UNCHANGED evidenceVars
  PROVE  LiveInv'
<1>1. Still /\ UNCHANGED receipt /\ edge[w].pc # "idle"
  BY LocalIsStill DEF Return, Crash, Escape
<1>2. CASE Become(w, Idle)
  <2>1. Idle.pc \notin Holding /\ Idle.pc # "done" /\ Locals(Idle)
    BY EndIs DEF Holding, Unsent, Handling, Plain
  <2>2. Tied(Idle, receipt[w], row, readbacks, writes, chains, published)
    BY <2>1, OutsideTied
  <2> QED BY <1>1, <1>2, <2>1, <2>2, StillKeeps DEF Become
<1>3. CASE Become(w, Done(edge[w], "S4D_RECONCILIATION_REQUIRED"))
  BY <1>1, <1>3, EndKeeps DEF SettledResults
<1> QED BY <1>2, <1>3 DEF Return, Crash, Escape

-----------------------------------------------------------------------------
(* The call of the boundary. *)

\* A new execution with a hook that has no publication result yet.
LEMMA LiveExecuteKeeps ==
  ASSUME LiveInv, NEW w \in Workers, NEW r \in Runs, LiveExecute(w, r)
  PROVE  LiveInv'
<1> DEFINE a == [Idle EXCEPT !.pc = "admit", !.run = r]
           b == [Idle EXCEPT !.run = r]
<1>1. /\ Still /\ edge[w].pc = "idle" /\ receipt' = [receipt EXCEPT ![w] = FALSE]
  BY DEF LiveExecute, Execute, Still, stateVars, listVars
<1>2. /\ receipt' \in [Workers -> BOOLEAN]
      /\ \A v \in Workers : v # w => receipt'[v] = receipt[v]
  BY <1>1 DEF LiveInv, ExecutionsAreTied
<1>3. StateInv' /\ StoresAgree'
  BY <1>1, StillAgrees DEF LiveInv
<1>4. ASSUME NEW t, Become(w, t), Locals(t), t.pc \notin Holding,
             t.pc = "done" => t.result \notin SettledResults
      PROVE  LiveInv'
  <2>1. Tied(t, receipt'[w], row', readbacks', writes', chains', published')
    BY <1>4, OutsideTied
  <2>2. UNCHANGED <<row, readbacks, writes, chains, published>>
    BY <1>1 DEF Still
  <2> QED BY <1>2, <1>3, <1>4, <2>1, <2>2, LiveStepKeeps DEF Become
<1>5. CASE Become(w, a)
  <2>1. /\ DOMAIN a = Fields /\ a.pc = "admit" /\ a.run = r /\ a.recorded = Idle.recorded
        /\ a.need = Idle.need /\ a.persisted = Idle.persisted
    BY EndIs DEF Fields
  <2> HIDE DEF a
  <2>2. a.pc \notin Holding
    BY <2>1 DEF Holding, Unsent, Handling, Plain
  <2>3. Locals(a)
    BY <2>1, <2>2, EndIs DEF Locals, Holding, Requiring, Handling, Plain
  <2> QED BY <1>4, <1>5, <2>1, <2>2, <2>3
<1>6. ASSUME NEW status \in {"BLOCKED_PLAN", "S4D_BLOCKED"}, Become(w, Done(b, status))
      PROVE  LiveInv'
  <2>1. b.run = r
    BY EndIs DEF Fields
  <2> HIDE DEF b
  <2> DEFINE d == Done(b, status)
  <2>2. Locals(d) /\ d.pc = "done" /\ d.result = status /\ status \notin SettledResults
    BY <2>1, EndIs, UnsettledIs DEF Continues, SettledResults
  <2> HIDE DEF d
  <2>3. d.pc \notin Holding
    BY <2>2 DEF Holding, Unsent, Handling, Plain
  <2> QED BY <1>4, <1>6, <2>2, <2>3 DEF d
<1>7. \/ Become(w, a)
      \/ \E status \in {"BLOCKED_PLAN", "S4D_BLOCKED"} : Become(w, Done(b, status))
  BY DEF LiveExecute, Execute
<1> HIDE DEF a, b
<1> QED BY <1>5, <1>6, <1>7

-----------------------------------------------------------------------------
(* Calls of the canonical outbox. *)

\* What a call of the outbox may have done.
LEMMA AppendEnds ==
  ASSUME NEW w, NEW e, NEW yes, NEW no, AppendCall(w, e, yes, no)
  PROVE  /\ \/ AppendTo(edge[w].run, e) /\ edge' = [edge EXCEPT ![w] = yes]
            \/ AppendTo(edge[w].run, e) /\ edge' = [edge EXCEPT ![w] = no]
            \/ UNCHANGED chains /\ edge' = [edge EXCEPT ![w] = no]
         /\ UNCHANGED <<row, intents, outcomes, requirements, readbacks, writes, published, receipt>>
BY DEF AppendCall, Become, stateVars, listVars

\* The chains grow, and the stores still agree.
LEMMA GrowthAgrees ==
  ASSUME LiveInv, ChainsOK',
         UNCHANGED <<row, intents, outcomes, requirements, readbacks, writes, published, receipt>>,
         \A q \in Runs : \A phase : HasPhase(chains[q], phase) => HasPhase(chains'[q], phase),
         \A q \in Runs : Verified(chains[q]) => chains'[q] = chains[q]
  PROVE  StateInv' /\ StoresAgree'
<1>1. StateInv'
  BY NextPreservesInv DEF LiveInv, stateVars
<1>2. RequestsOK'
  <2>1. intents \subseteq IntentEvidence
    BY DEF LiveInv, StateInv, TypeOK
  <2>2. \A e \in intents : e.run \in Runs
    BY <2>1 DEF IntentEvidence
  <2> QED BY <2>2 DEF LiveInv, StoresAgree, RequestsOK, CanonicalIntentFirst
<1>3. ClosedIsPublished'
  <2> SUFFICES ASSUME row.intent \in {"closed", "retryable"}
               PROVE  /\ row.run \in published
                      /\ Canon!Phases(chains'[row.run]) = Canon!NormalPhaseOrder
                      /\ chains'[row.run][3].code = "verified"
    BY DEF ClosedIsPublished
  <2>1. row.run \in published /\ Verified(chains[row.run])
    BY DEF LiveInv, StoresAgree, ClosedIsPublished, Verified
  <2>2. row.run \in Runs
    <3>1. row.generation \in Generations
      BY MaxGenerationAssumption DEF LiveInv, StateInv, TypeOK, Row, RowShape, Generations
    <3>2. PICK e \in intents : e.generation = row.generation
      BY <3>1 DEF LiveInv, StateInv, IntentsCoverGenerations, TypeOK, Row, Generations
    <3>3. e.run = row.run /\ e \in IntentEvidence
      BY <3>2 DEF LiveInv, StateInv, IntentsCoverGenerations, TypeOK
    <3> QED BY <3>3 DEF IntentEvidence
  <2>3. chains'[row.run] = chains[row.run]
    BY <2>1, <2>2
  <2> QED BY <2>1, <2>3 DEF Verified
<1>4. NoRelease'
  BY DEF LiveInv, StoresAgree, NoRelease
<1> QED BY <1>1, <1>2, <1>3, <1>4 DEF StoresAgree

\* A call of the outbox by the holder leads to t.
LEMMA AppendKeeps ==
  ASSUME LiveInv, NEW w \in Workers, edge[w].pc \in Holding,
         NEW phase \in CanonicalPhases, NEW code, NEW t, edge' = [edge EXCEPT ![w] = t],
         AppendTo(edge[w].run, Canonical(phase, code)) \/ UNCHANGED chains,
         UNCHANGED <<row, intents, outcomes, requirements, readbacks, writes, published, receipt>>,
         Locals(t), Tied(t, receipt[w], row, readbacks, writes, chains', published)
  PROVE  LiveInv'
<1>1. edge[w].run \in Runs
  BY HolderIs
<1>2. ChainsOK
  BY DEF LiveInv, StoresAgree
<1>3. /\ ChainsOK'
      /\ \A q \in Runs : \A p : HasPhase(chains[q], p) => HasPhase(chains'[q], p)
      /\ \A q \in Runs : Verified(chains[q]) => chains'[q] = chains[q]
  <2>1. CASE UNCHANGED chains
    BY <1>2, <2>1 DEF ChainsOK
  <2>2. CASE AppendTo(edge[w].run, Canonical(phase, code))
    <3> DEFINE e == Canonical(phase, code)
    <3>1. e \in Canon!Events /\ e.phase \in CanonicalPhases /\ AppendTo(edge[w].run, e)
      BY <2>2, CanonicalIs
    <3> HIDE DEF e
    <3> QED BY <1>1, <1>2, <3>1, AppendIs
  <2> QED BY <2>1, <2>2
<1>4. StateInv' /\ StoresAgree'
  BY <1>3, GrowthAgrees
<1>5. receipt \in [Workers -> BOOLEAN]
  BY DEF LiveInv, ExecutionsAreTied
<1> QED BY <1>4, <1>5, LiveStepKeeps

\* The canonical intent of the holder stays where it is.
LEMMA IntentStays ==
  ASSUME LiveInv, NEW w \in Workers, edge[w].pc \in Handling,
         NEW phase \in CanonicalPhases, NEW code,
         AppendTo(edge[w].run, Canonical(phase, code)) \/ UNCHANGED chains
  PROVE  HasPhase(chains'[edge[w].run], "intent")
<1>1. HasPhase(chains[edge[w].run], "intent") /\ edge[w].run \in Runs /\ ChainsOK
  BY HolderIs DEF Tied, Holding, LiveInv, StoresAgree
<1>2. CASE AppendTo(edge[w].run, Canonical(phase, code))
  <2> DEFINE e == Canonical(phase, code)
  <2>1. e \in Canon!Events /\ e.phase \in CanonicalPhases /\ AppendTo(edge[w].run, e)
    BY <1>2, CanonicalIs
  <2> HIDE DEF e
  <2> QED BY <1>1, <2>1, AppendIs
<1> QED BY <1>1, <1>2

\* A call of the outbox in the handling of a response.
LEMMA AppendContinues ==
  ASSUME LiveInv, NEW w \in Workers, edge[w].pc \in Handling,
         NEW phase \in CanonicalPhases, NEW code, NEW t, edge' = [edge EXCEPT ![w] = t],
         AppendTo(edge[w].run, Canonical(phase, code)) \/ UNCHANGED chains,
         UNCHANGED <<row, intents, outcomes, requirements, readbacks, writes, published, receipt>>,
         Continues(edge[w], t)
  PROVE  LiveInv'
<1>1. edge[w].pc \in Holding
  BY DEF Holding
<1>2. /\ row.generation = edge[w].gen /\ row.run = edge[w].run
      /\ HasPhase(chains'[edge[w].run], "intent")
  BY <1>1, HolderIs, IntentStays
<1>3. Tied(t, receipt[w], row, readbacks, writes, chains', published)
  BY <1>2, ContinuesTied
<1> QED BY <1>1, <1>3, AppendKeeps DEF Continues

\* The canonical intent.
LEMMA AppendIntentKeeps ==
  ASSUME LiveInv, NEW w \in Workers, AppendIntent(w)
  PROVE  LiveInv'
<1> DEFINE s == edge[w]
           e == Canonical("intent", "none")
           t == [s EXCEPT !.pc = "intentCheck"]
           f == [s EXCEPT !.pc = "intentFailed"]
<1>1. s.pc = "intentAppend" /\ AppendCall(w, e, t, f)
  BY DEF AppendIntent
<1>2. /\ Locals(s) /\ s.pc \in Holding /\ s.gen \in Generations /\ s.run \in Runs
      /\ row.generation = s.gen /\ row.run = s.run /\ writes[s.gen] = 0 /\ s.kind \in PlanKinds
  BY <1>1, HolderIs DEF Locals, Tied, Holding, Unsent
<1>3. /\ DOMAIN t = Fields /\ t.pc = "intentCheck" /\ t.run = s.run /\ t.gen = s.gen
      /\ t.kind = s.kind
      /\ t.recorded \in BOOLEAN /\ t.need \in BOOLEAN /\ t.persisted \in BOOLEAN
  BY <1>1, <1>2, MovesOn
<1>4. /\ DOMAIN f = Fields /\ f.pc = "intentFailed" /\ f.run = s.run /\ f.gen = s.gen
      /\ f.kind = s.kind
      /\ f.recorded \in BOOLEAN /\ f.need \in BOOLEAN /\ f.persisted \in BOOLEAN
  BY <1>1, <1>2, MovesOn
<1> HIDE DEF t, f, e
<1>5. /\ \/ AppendTo(s.run, e) /\ edge' = [edge EXCEPT ![w] = t]
         \/ AppendTo(s.run, e) /\ edge' = [edge EXCEPT ![w] = f]
         \/ UNCHANGED chains /\ edge' = [edge EXCEPT ![w] = f]
      /\ UNCHANGED <<row, intents, outcomes, requirements, readbacks, writes, published, receipt>>
  BY <1>1, AppendEnds
<1>6. Locals(t) /\ Locals(f)
  BY <1>2, <1>3, <1>4 DEF Locals, Handling, Plain, Requiring
<1>7. \A cs : Tied(f, receipt[w], row, readbacks, writes, cs, published)
  BY <1>2, <1>4 DEF Tied, Handling, Plain
<1>8. CASE edge' = [edge EXCEPT ![w] = f]
  BY <1>2, <1>5, <1>6, <1>7, <1>8, AppendKeeps DEF e, CanonicalPhases
<1>9. CASE AppendTo(s.run, e) /\ edge' = [edge EXCEPT ![w] = t]
  <2>1. e \in Canon!Events /\ e.phase = "intent"
    BY CanonicalIs DEF e, CanonicalPhases
  <2>2. Recorded(chains'[s.run], e)
    BY <1>2, <1>9, <2>1, AppendIs DEF CanonicalPhases, LiveInv, StoresAgree
  <2>3. HasPhase(chains'[s.run], "intent")
    BY <2>1, <2>2 DEF Recorded, HasPhase
  <2>4. Tied(t, receipt[w], row, readbacks, writes, chains', published)
    BY <1>2, <1>3, <2>3 DEF Tied, Handling, Plain
  <2> QED BY <1>2, <1>5, <1>6, <1>9, <2>4, AppendKeeps DEF e, CanonicalPhases
<1> QED BY <1>5, <1>8, <1>9

\* The canonical outcome.
LEMMA AppendOutcomeKeeps ==
  ASSUME LiveInv, NEW w \in Workers, AppendOutcome(w)
  PROVE  LiveInv'
<1> DEFINE s == edge[w]
           code == OutcomeCode[s.kind]
           yes == AfterOutcome(s, TRUE)
           no == AfterOutcome(s, FALSE)
<1>1. s.pc = "outcomeAppend" /\ AppendCall(w, Canonical("outcome", code), yes, no)
  BY DEF AppendOutcome
<1>2. s.pc \in Handling /\ Locals(s)
  BY <1>1, HolderIs DEF Handling, Plain
<1>3. Continues(s, yes) /\ Continues(s, no)
  BY <1>2, OutcomeContinues
<1> HIDE DEF yes, no, code
<1>4. /\ \/ edge' = [edge EXCEPT ![w] = yes] \/ edge' = [edge EXCEPT ![w] = no]
      /\ AppendTo(s.run, Canonical("outcome", code)) \/ UNCHANGED chains
      /\ UNCHANGED <<row, intents, outcomes, requirements, readbacks, writes, published, receipt>>
  <2>1. AppendCall(w, Canonical("outcome", code), yes, no)
    BY <1>1
  <2> QED BY <2>1, AppendEnds
<1>5. "outcome" \in CanonicalPhases
  BY DEF CanonicalPhases
<1>6. CASE edge' = [edge EXCEPT ![w] = yes]
  BY <1>2, <1>3, <1>4, <1>5, <1>6, AppendContinues
<1>7. CASE edge' = [edge EXCEPT ![w] = no]
  BY <1>2, <1>3, <1>4, <1>5, <1>7, AppendContinues
<1> QED BY <1>4, <1>6, <1>7

\* The canonical requirement, best effort.
LEMMA AppendRequirementKeeps ==
  ASSUME LiveInv, NEW w \in Workers, AppendRequirement(w)
  PROVE  LiveInv'
<1> DEFINE s == edge[w]
           u == [s EXCEPT !.pc = "requireCheck"]
           t == IF s.persisted THEN u ELSE AfterRequire(s, FALSE)
<1>1. s.pc = "requireAppend" /\ AppendCall(w, Canonical("reconciliation_required", "none"), t, t)
  BY DEF AppendRequirement
<1>2. /\ s.pc \in Handling /\ s.pc \in Requiring /\ Locals(s)
      /\ s.gen \in Generations /\ s.kind \in Handled
      /\ s.need /\ s.place \in {"before", "after", "final"}
  BY <1>1, HolderIs DEF Handling, Plain, Requiring, Locals, Holding
<1>3. /\ DOMAIN u = Fields /\ u.pc = "requireCheck" /\ u.run = s.run /\ u.gen = s.gen
      /\ u.kind = s.kind /\ u.need = s.need /\ u.place = s.place /\ u.run \in Runs
      /\ u.recorded \in BOOLEAN /\ u.need \in BOOLEAN /\ u.persisted \in BOOLEAN
  <2>1. Locals(s) /\ s.pc # "idle"
    BY <1>1, HolderIs
  <2> QED BY <2>1, MovesOn
<1> HIDE DEF u
<1>4. Continues(s, u)
  BY <1>2, <1>3 DEF Continues, Locals, Plain
<1>5. Continues(s, t)
  BY <1>2, <1>4, RequireContinues
<1> HIDE DEF t
<1>6. /\ edge' = [edge EXCEPT ![w] = t]
      /\ AppendTo(s.run, Canonical("reconciliation_required", "none")) \/ UNCHANGED chains
      /\ UNCHANGED <<row, intents, outcomes, requirements, readbacks, writes, published, receipt>>
  BY <1>1, AppendEnds
<1> QED BY <1>2, <1>5, <1>6, AppendContinues DEF CanonicalPhases

\* The canonical readback.
LEMMA AppendReadbackKeeps ==
  ASSUME LiveInv, NEW w \in Workers, AppendReadback(w)
  PROVE  LiveInv'
<1> DEFINE s == edge[w]
           code == ReadbackCode(s.obs)
           next == IF s.need THEN "readbackLocal" ELSE "finalize"
           t == [s EXCEPT !.pc = next]
           f == [s EXCEPT !.pc = "readbackFailed"]
<1>1. s.pc = "readback" /\ AppendCall(w, Canonical("readback", code), t, f)
  BY DEF AppendReadback
<1>2. /\ s.pc \in Handling /\ s.pc \in Holding /\ Locals(s)
      /\ s.gen \in Generations /\ s.kind \in Handled /\ s.run \in Runs
      /\ row.generation = s.gen /\ row.run = s.run
  BY <1>1, HolderIs DEF Handling, Plain, Locals, Holding
<1>3. /\ DOMAIN t = Fields /\ t.pc = next /\ t.run = s.run /\ t.gen = s.gen
      /\ t.kind = s.kind /\ t.need = s.need /\ t.obs = s.obs
      /\ t.recorded \in BOOLEAN /\ t.need \in BOOLEAN /\ t.persisted \in BOOLEAN
  BY <1>1, <1>2, MovesOn
<1>4. /\ DOMAIN f = Fields /\ f.pc = "readbackFailed" /\ f.run = s.run /\ f.gen = s.gen
      /\ f.kind = s.kind
      /\ f.recorded \in BOOLEAN /\ f.need \in BOOLEAN /\ f.persisted \in BOOLEAN
  BY <1>1, <1>2, MovesOn
<1> HIDE DEF t, f, code
<1>5. /\ \/ AppendTo(s.run, Canonical("readback", code)) /\ edge' = [edge EXCEPT ![w] = t]
         \/ AppendTo(s.run, Canonical("readback", code)) /\ edge' = [edge EXCEPT ![w] = f]
         \/ UNCHANGED chains /\ edge' = [edge EXCEPT ![w] = f]
      /\ UNCHANGED <<row, intents, outcomes, requirements, readbacks, writes, published, receipt>>
  BY <1>1, AppendEnds
<1>6. CASE edge' = [edge EXCEPT ![w] = f]
  <2>1. Continues(s, f)
    BY <1>2, <1>4 DEF Continues, Locals, Plain, Requiring
  <2> QED BY <1>2, <1>5, <1>6, <2>1, AppendContinues DEF CanonicalPhases
<1>7. CASE AppendTo(s.run, Canonical("readback", code)) /\ edge' = [edge EXCEPT ![w] = t]
  <2>1. Locals(t)
    BY <1>2, <1>3 DEF Locals, Requiring
  <2>2. HasPhase(chains'[s.run], "intent")
    BY <1>2, <1>7, IntentStays DEF CanonicalPhases
  <2>3. Recorded(chains'[s.run], Canonical("readback", code))
    <3> DEFINE e == Canonical("readback", code)
    <3>1. e \in Canon!Events /\ e.phase \in CanonicalPhases /\ AppendTo(s.run, e)
      BY <1>7, CanonicalIs DEF CanonicalPhases
    <3> HIDE DEF e
    <3>2. Recorded(chains'[s.run], e)
      BY <1>2, <3>1, AppendIs DEF LiveInv, StoresAgree
    <3> QED BY <3>2 DEF e
  <2>4. Tied(t, receipt[w], row, readbacks, writes, chains', published)
    BY <1>2, <1>3, <2>2, <2>3 DEF Tied, Unsent, code
  <2> QED BY <1>2, <1>5, <1>7, <2>1, <2>4, AppendKeeps DEF CanonicalPhases
<1> QED BY <1>5, <1>6, <1>7

-----------------------------------------------------------------------------
(* Calls of the local hook. *)

\* A transaction leaves a closed row alone and only appends.
LEMMA TransactionIs ==
  ASSUME StateInv, [StateNext]_stateVars
  PROVE  /\ StateInv' /\ intents \subseteq intents' /\ readbacks \subseteq readbacks'
         /\ row.intent = "closed" => row' = row
<1>1. StateInv'
  BY NextPreservesInv
<1>2. intents \subseteq intents' /\ readbacks \subseteq readbacks'
  BY TablesGrow DEF stateVars
<1>3. row.intent = "closed" => row' = row
  BY DEF StateInv, RowShape, StateNext, Intent, OpenFirst, OpenRetry, Outcome,
         RequireReconciliation, Readback, CloseIntent, ObserveOnly, MatchesOpenState, stateVars
<1> QED BY <1>1, <1>2, <1>3

\* A transaction that neither releases the generation nor closes it unpublished.
LEMMA TransactKeeps ==
  ASSUME LiveInv, NEW w \in Workers, NEW t, edge' = [edge EXCEPT ![w] = t],
         [StateNext]_stateVars, UNCHANGED listVars, UNCHANGED evidenceVars,
         edge[w].pc \in Holding \/ row.generation = 0, NoRelease', ClosedIsPublished',
         Locals(t), Tied(t, receipt[w], row', readbacks', writes, chains, published)
  PROVE  LiveInv'
<1>1. /\ StateInv' /\ intents \subseteq intents' /\ readbacks \subseteq readbacks'
      /\ row.intent = "closed" => row' = row
  BY TransactionIs DEF LiveInv
<1>2. UNCHANGED <<writes, chains, published, receipt>>
  BY DEF listVars, evidenceVars
<1>3. RequestsOK'
  BY <1>1, <1>2 DEF LiveInv, StoresAgree, RequestsOK, CanonicalIntentFirst
<1>4. StoresAgree'
  BY <1>2, <1>3 DEF LiveInv, StoresAgree, ChainsOK
<1>5. receipt \in [Workers -> BOOLEAN]
  BY DEF LiveInv, ExecutionsAreTied
<1> QED BY <1>1, <1>2, <1>4, <1>5, LiveStepKeeps

\* A transaction that records an event and leaves the intent as it is, or none.
Marking ==
  /\ [StateNext]_stateVars
  /\ UNCHANGED <<readbacks, writes, chains, published, receipt>>
  /\ row'.intent = row.intent /\ row'.generation = row.generation /\ row'.run = row.run

\* The holder records an event and goes on in t.
LEMMA MarkKeeps ==
  ASSUME LiveInv, NEW w \in Workers, edge[w].pc \in Holding, Marking,
         UNCHANGED listVars, UNCHANGED evidenceVars, NEW t, edge' = [edge EXCEPT ![w] = t],
         Locals(t), Tied(t, receipt[w], row', readbacks', writes, chains, published)
  PROVE  LiveInv'
<1>1. NoRelease'
  BY DEF Marking, LiveInv, StoresAgree, NoRelease
<1>2. ClosedIsPublished'
  BY DEF Marking, LiveInv, StoresAgree, ClosedIsPublished
<1> QED BY <1>1, <1>2, TransactKeeps DEF Marking

\* The holder records an event while it handles the response.
LEMMA MarkContinues ==
  ASSUME LiveInv, NEW w \in Workers, edge[w].pc \in Handling, Marking,
         UNCHANGED listVars, UNCHANGED evidenceVars, NEW t, edge' = [edge EXCEPT ![w] = t],
         Continues(edge[w], t)
  PROVE  LiveInv'
<1>1. edge[w].pc \in Holding
  BY DEF Holding
<1>2. /\ row'.generation = edge[w].gen /\ row'.run = edge[w].run
      /\ HasPhase(chains[edge[w].run], "intent")
  BY <1>1, HolderIs DEF Tied, Marking
<1>3. Tied(t, receipt[w], row', readbacks', writes, chains, published)
  BY <1>2, ContinuesTied
<1> QED BY <1>1, <1>3, MarkKeeps DEF Continues

\* A call that changes nothing.
LEMMA QuietMarks ==
  ASSUME Quiet, UNCHANGED evidenceVars
  PROVE  Marking
BY DEF Quiet, evidenceVars, Marking, stateVars

\* What a call of _require_local_reconciliation may have done.
LEMMA RequireLocalIs ==
  ASSUME LiveInv, NEW w \in Workers, edge[w].pc \in Holding, NEW yes, NEW no,
         RequireLocal(w, yes, no)
  PROVE  /\ \E t \in {yes, no} : edge' = [edge EXCEPT ![w] = t]
         /\ Marking /\ UNCHANGED listVars /\ UNCHANGED evidenceVars
<1> DEFINE s == edge[w]
           done == RequiredFor(s) /\ UNCHANGED stateVars
           call == ~RequiredFor(s)
                   /\ \E code \in ReasonCodes : RequireReconciliation(EventOf(s, code))
<1>1. HookCall(w, done \/ call, yes, no) /\ UNCHANGED evidenceVars
  BY DEF RequireLocal, LocalCall
<1>2. s.gen \in Generations /\ s.run \in Runs /\ row \in Row
  BY HolderIs DEF LiveInv, StateInv, TypeOK
<1>3. done => Marking \/ ~UNCHANGED listVars
  BY <1>1 DEF Marking, evidenceVars, listVars, stateVars
<1>4. call => Marking \/ ~UNCHANGED listVars
  <2> SUFFICES ASSUME NEW code \in ReasonCodes, RequireReconciliation(EventOf(s, code)),
                      UNCHANGED listVars
               PROVE  Marking
    OBVIOUS
  <2>1. StateNext
    BY <1>2, EventIs DEF StateNext
  <2>2. row' = [row EXCEPT !.reconciliation = "required"] /\ UNCHANGED readbacks
    BY DEF RequireReconciliation
  <2>3. row'.intent = row.intent /\ row'.generation = row.generation /\ row'.run = row.run
    BY <1>2, <2>2 DEF Row
  <2> QED BY <1>1, <2>1, <2>2, <2>3 DEF Marking, evidenceVars, listVars
<1> HIDE DEF s, done, call
<1>5. /\ \/ (done \/ call) /\ edge' = [edge EXCEPT ![w] = yes]
         \/ (done \/ call) /\ edge' = [edge EXCEPT ![w] = no]
         \/ Quiet /\ edge' = [edge EXCEPT ![w] = no]
      /\ UNCHANGED listVars
  BY <1>1, CallEnds
<1> QED BY <1>1, <1>3, <1>4, <1>5, QuietMarks

\* The canonical intent failed: the local one is marked and the execution ends.
LEMMA IntentFailedKeeps ==
  ASSUME LiveInv, NEW w \in Workers, IntentFailed(w)
  PROVE  LiveInv'
<1> DEFINE d == Done(edge[w], "BLOCKED_EVIDENCE")
<1>1. edge[w].pc \in Holding /\ RequireLocal(w, d, d)
  BY DEF IntentFailed, Holding, Unsent
<1>2. Locals(d) /\ d.pc = "done" /\ d.result \notin SettledResults
  BY <1>1, HolderIs, UnsettledIs, EndIs DEF Continues, SettledResults
<1> HIDE DEF d
<1>3. /\ edge' = [edge EXCEPT ![w] = d]
      /\ Marking /\ UNCHANGED listVars /\ UNCHANGED evidenceVars
  BY <1>1, RequireLocalIs
<1>4. d.pc \notin Holding
  BY <1>2 DEF Holding, Unsent, Handling, Plain
<1>5. Tied(d, receipt[w], row', readbacks', writes, chains, published)
  BY <1>2, <1>4, OutsideTied
<1> QED BY <1>1, <1>2, <1>3, <1>5, MarkKeeps

\* The local outcome.
LEMMA LocalOutcomeKeeps ==
  ASSUME LiveInv, NEW w \in Workers, LocalOutcome(w)
  PROVE  LiveInv'
<1> DEFINE s == edge[w]
           e == EventOf(s, OutcomeCode[s.kind])
           t == [s EXCEPT !.pc = "outcomeAppend"]
           f == AfterOutcome(s, FALSE)
<1>1. s.pc = "outcome" /\ HookCall(w, Outcome(e), t, f) /\ UNCHANGED evidenceVars
  BY DEF LocalOutcome, LocalCall
<1>2. /\ s.pc \in Handling /\ Locals(s) /\ s.pc # "idle"
      /\ s.gen \in Generations /\ s.run \in Runs /\ s.kind \in Handled
  BY <1>1, HolderIs DEF Handling, Plain, Locals, Holding
<1>3. e \in OutcomeEvidence
  BY <1>2, EventIs, CodeIs
<1>4. Continues(s, f)
  BY <1>2, OutcomeContinues
<1>5. Continues(s, t)
  <2>1. /\ DOMAIN t = Fields /\ t.pc = "outcomeAppend" /\ t.run = s.run /\ t.gen = s.gen
        /\ t.kind = s.kind
        /\ t.recorded \in BOOLEAN /\ t.need \in BOOLEAN /\ t.persisted \in BOOLEAN
    BY <1>2, MovesOn
  <2> HIDE DEF t
  <2> QED BY <1>2, <2>1 DEF Continues, Locals, Plain, Requiring
<1> HIDE DEF e, t, f
<1>6. /\ \/ Outcome(e) /\ edge' = [edge EXCEPT ![w] = t]
         \/ Outcome(e) /\ edge' = [edge EXCEPT ![w] = f]
         \/ Quiet /\ edge' = [edge EXCEPT ![w] = f]
      /\ UNCHANGED listVars
  <2>1. HookCall(w, Outcome(e), t, f)
    BY <1>1
  <2> HIDE DEF s
  <2> QED BY <2>1, CallEnds
<1>7. Outcome(e) => Marking
  BY <1>1, <1>3, <1>6 DEF Outcome, Marking, StateNext, listVars, evidenceVars
<1>8. Marking /\ \E x \in {t, f} : edge' = [edge EXCEPT ![w] = x]
  BY <1>1, <1>6, <1>7, QuietMarks
<1> QED BY <1>1, <1>2, <1>4, <1>5, <1>6, <1>8, MarkContinues

\* The local requirement.
LEMMA LocalRequirementKeeps ==
  ASSUME LiveInv, NEW w \in Workers, LocalRequirement(w)
  PROVE  LiveInv'
<1> DEFINE s == edge[w]
           t(ok) == [s EXCEPT !.pc = "requireAppend", !.persisted = ok]
<1>1. s.pc = "require" /\ RequireLocal(w, t(TRUE), t(FALSE))
  BY DEF LocalRequirement
<1>2. /\ s.pc \in Handling /\ s.pc \in Holding /\ DOMAIN s = Fields /\ s.recorded \in BOOLEAN
      /\ s.gen \in Generations /\ s.run \in Runs /\ s.kind \in Handled
      /\ s.need = TRUE /\ s.place \in {"before", "after", "final"}
  BY <1>1, HolderIs DEF Handling, Plain, Locals, Holding, Requiring
<1>3. ASSUME NEW ok \in BOOLEAN PROVE Continues(s, t(ok))
  <2> DEFINE u == t(ok)
  <2>1. /\ DOMAIN u = Fields /\ u.pc = "requireAppend" /\ u.run = s.run /\ u.gen = s.gen
        /\ u.kind = s.kind /\ u.need = TRUE /\ u.place = s.place
        /\ u.recorded = s.recorded /\ u.persisted = ok
    BY <1>2 DEF Fields
  <2> HIDE DEF u
  <2>2. Continues(s, u)
    BY <1>2, <2>1 DEF Continues, Locals, Plain
  <2> QED BY <2>2 DEF u
<1> HIDE DEF t
<1>4. /\ \E x \in {t(TRUE), t(FALSE)} : edge' = [edge EXCEPT ![w] = x]
      /\ Marking /\ UNCHANGED listVars /\ UNCHANGED evidenceVars
  BY <1>1, <1>2, RequireLocalIs
<1> QED BY <1>2, <1>3, <1>4, MarkContinues

\* The requirement after a canonical readback or a publication that failed.
LEMMA ReadbackRaisedKeeps ==
  ASSUME LiveInv, NEW w \in Workers, ReadbackRaised(w)
  PROVE  LiveInv'
<1> DEFINE s == edge[w]
           u == [s EXCEPT !.pc = "readbackObserve"]
           t == IF s.need THEN ReadbackFailed(s) ELSE u
<1>1. s.pc = "readbackFailed" /\ RequireLocal(w, t, t)
  BY DEF ReadbackRaised
<1>2. /\ s.pc \in Handling /\ s.pc \in Holding /\ Locals(s) /\ s.pc # "idle"
      /\ s.gen \in Generations /\ s.run \in Runs /\ s.kind \in Handled
  BY <1>1, HolderIs DEF Handling, Plain, Locals, Holding
<1>3. /\ DOMAIN u = Fields /\ u.pc = "readbackObserve" /\ u.run = s.run /\ u.gen = s.gen
      /\ u.kind = s.kind /\ u.need = s.need
      /\ u.recorded \in BOOLEAN /\ u.need \in BOOLEAN /\ u.persisted \in BOOLEAN
  BY <1>2, MovesOn
<1> HIDE DEF u
<1>4. ~s.need => Continues(s, u)
  BY <1>2, <1>3 DEF Continues, Locals, Plain, Requiring
<1>5. Continues(s, t)
  BY <1>2, <1>4, FailureContinues
<1> HIDE DEF t
<1>6. /\ edge' = [edge EXCEPT ![w] = t]
      /\ Marking /\ UNCHANGED listVars /\ UNCHANGED evidenceVars
  BY <1>1, <1>2, RequireLocalIs
<1> QED BY <1>2, <1>5, <1>6, MarkContinues

\* The local intent: the first of the key, by the execution that then holds it.
LEMMA LocalIntentKeeps ==
  ASSUME LiveInv, NEW w \in Workers, LocalIntent(w)
  PROVE  LiveInv'
<1> DEFINE s == edge[w]
           e == IntentOf(s)
           t == [s EXCEPT !.pc = "intentAppend"]
           d == Done(s, "BLOCKED_EVIDENCE")
<1>1. /\ s.pc = "intent" /\ HookCall(w, e \in IntentEvidence /\ Intent(e), t, d)
      /\ UNCHANGED evidenceVars
  BY DEF LocalIntent, LocalCall
<1>2. Locals(s) /\ s.run \in Runs /\ s.kind \in PlanKinds /\ s.pc # "idle"
  BY <1>1, HolderIs DEF Locals
<1>3. e.generation = s.gen /\ e.run = s.run
  BY DEF IntentOf
<1>4. /\ DOMAIN t = Fields /\ t.pc = "intentAppend" /\ t.run = s.run /\ t.gen = s.gen
      /\ t.kind = s.kind
      /\ t.recorded \in BOOLEAN /\ t.need \in BOOLEAN /\ t.persisted \in BOOLEAN
  BY <1>2, MovesOn
<1>5. Locals(d) /\ d.pc = "done" /\ d.result \notin SettledResults
  BY <1>2, UnsettledIs, EndIs DEF Continues, SettledResults
<1> HIDE DEF e, t, d
<1>6. /\ \/ e \in IntentEvidence /\ Intent(e) /\ edge' = [edge EXCEPT ![w] = t]
         \/ e \in IntentEvidence /\ Intent(e) /\ edge' = [edge EXCEPT ![w] = d]
         \/ Quiet /\ edge' = [edge EXCEPT ![w] = d]
      /\ UNCHANGED listVars
  <2>1. HookCall(w, e \in IntentEvidence /\ Intent(e), t, d)
    BY <1>1
  <2> HIDE DEF s
  <2> QED BY <2>1, CallEnds
<1>7. ASSUME NEW r, NEW rbs PROVE Tied(d, receipt[w], r, rbs, writes, chains, published)
  <2>1. d.pc \notin Holding
    BY <1>5 DEF Holding, Unsent, Handling, Plain
  <2> QED BY <1>5, <2>1, OutsideTied
<1>8. CASE Quiet /\ edge' = [edge EXCEPT ![w] = d]
  <2>1. Still /\ UNCHANGED receipt
    BY <1>1, <1>8 DEF Quiet, Still, evidenceVars
  <2>2. d.pc \notin Holding
    BY <1>5 DEF Holding, Unsent, Handling, Plain
  <2> QED BY <1>5, <1>7, <1>8, <2>1, <2>2, StillKeeps
<1>9. ASSUME e \in IntentEvidence, Intent(e) PROVE LiveInv'
  <2>1. row.intent = "absent" /\ row.generation = 0
    <3>1. row.intent # "retryable" /\ (row.intent = "absent" <=> row.generation = 0)
      BY FirstIsLast DEF LiveInv, StoresAgree
    <3> QED BY <1>9, <3>1 DEF Intent, OpenFirst, OpenRetry
  <2>2. row'.intent = "open" /\ row'.generation = s.gen /\ row'.run = s.run
    BY <1>3, <1>9, <2>1 DEF Intent, OpenFirst, OpenRetry
  <2>3. s.gen \in Generations /\ NoEvent(intents, s.gen) /\ UNCHANGED readbacks
    BY <1>3, <1>9 DEF Intent, IntentEvidence
  <2>4. writes[s.gen] = 0
    <3>1. writes[s.gen] \in Nat /\ ~(writes[s.gen] > 0)
      BY <2>3 DEF LiveInv, StoresAgree, RequestsOK, CanonicalIntentFirst, NoEvent
    <3> QED BY <3>1
  <2>5. NoRelease' /\ ClosedIsPublished'
    BY <2>2, <2>3 DEF LiveInv, StoresAgree, NoRelease, ClosedIsPublished
  <2>6. [StateNext]_stateVars
    BY <1>9 DEF StateNext
  <2>7. CASE edge' = [edge EXCEPT ![w] = t]
    <3>1. Locals(t)
      BY <1>2, <1>4, <2>3 DEF Locals, Handling, Plain, Requiring
    <3>2. Tied(t, receipt[w], row', readbacks', writes, chains, published)
      BY <1>4, <2>2, <2>4 DEF Tied, Handling, Plain
    <3> QED BY <1>1, <1>6, <2>1, <2>5, <2>6, <2>7, <3>1, <3>2, TransactKeeps
  <2>8. CASE edge' = [edge EXCEPT ![w] = d]
    BY <1>1, <1>5, <1>6, <1>7, <2>1, <2>5, <2>6, <2>8, TransactKeeps
  <2> QED BY <1>1, <1>6, <1>8, <2>7, <2>8
<1> QED BY <1>6, <1>8, <1>9

\* A readback that does not close leaves the row as it is.
LEMMA ObservingKeeps ==
  ASSUME LiveInv, NEW w \in Workers, edge[w].pc \in Holding, NEW e \in ReadbackEvidence,
         e.close = FALSE, Readback(e), UNCHANGED listVars, UNCHANGED evidenceVars,
         NEW t, edge' = [edge EXCEPT ![w] = t], Locals(t),
         \A rbs : Tied(t, receipt[w], row, rbs, writes, chains, published)
  PROVE  LiveInv'
<1>1. row' = row /\ readbacks' = readbacks \cup {e} /\ e.completion = "terminal"
  BY DEF Readback, CloseIntent, ObserveOnly
<1>2. NoRelease'
  BY <1>1 DEF LiveInv, StoresAgree, NoRelease
<1>3. ClosedIsPublished'
  BY <1>1 DEF LiveInv, StoresAgree, ClosedIsPublished, evidenceVars
<1>4. [StateNext]_stateVars
  BY DEF StateNext
<1>5. Tied(t, receipt[w], row', readbacks', writes, chains, published)
  BY <1>1
<1> QED BY <1>2, <1>3, <1>4, <1>5, TransactKeeps

\* The non-closing readback is acceptable evidence.
LEMMA ObservedOnlyIs ==
  ASSUME NEW s, s.gen \in Generations, s.run \in Runs
  PROVE  ObservedOnly(s) \in ReadbackEvidence /\ ObservedOnly(s).close = FALSE
<1> DEFINE e == ObservedOnly(s)
           b == ReadbackOf(s)
           All == [generation : Generations, run : Runs, plan : Plans, mutation : Mutations,
                   code : ReadbackCodes, close : BOOLEAN, completion : CompletionStates]
<1>1. ReadbackCode(s.obs) \in ReadbackCodes /\ Completion(s) \in CompletionStates
  BY DEF ReadbackCode, ReadbackCodes, Completion, CompletionStates
<1>2. b \in All
  BY <1>1, BindingAssumption DEF ReadbackOf
<1> HIDE DEF b
<1>3. e = [b EXCEPT !.code = "not_verified", !.close = FALSE, !.completion = "terminal"]
  BY DEF ObservedOnly, b
<1>4. e \in All /\ e.code = "not_verified" /\ e.close = FALSE /\ e.completion = "terminal"
  BY <1>2, <1>3 DEF ReadbackCodes, CompletionStates
<1> HIDE DEF e
<1>5. e \in ReadbackEvidence /\ e.close = FALSE
  BY <1>4 DEF ReadbackEvidence
<1> QED BY <1>5 DEF e

\* _record_non_closing_readback.
LEMMA RecordObservedOnlyKeeps ==
  ASSUME LiveInv, NEW w \in Workers, RecordObservedOnly(w)
  PROVE  LiveInv'
<1> DEFINE s == edge[w]
           e == ObservedOnly(s)
           f == ReadbackFailed(s)
<1>1. s.pc = "readbackObserve" /\ HookCall(w, Readback(e), f, f) /\ UNCHANGED evidenceVars
  BY DEF RecordObservedOnly, LocalCall
<1>2. /\ s.pc \in Handling /\ s.pc \in Holding /\ Locals(s)
      /\ s.gen \in Generations /\ s.run \in Runs /\ s.kind \in Handled
      /\ row.generation = s.gen /\ row.run = s.run /\ HasPhase(chains[s.run], "intent")
  BY <1>1, HolderIs DEF Handling, Plain, Locals, Holding, Tied
<1>3. e \in ReadbackEvidence /\ e.close = FALSE
  BY <1>2, ObservedOnlyIs
<1>4. Continues(s, f)
  BY <1>2, FailureContinues
<1> HIDE DEF e, f
<1>5. /\ \/ Readback(e) /\ edge' = [edge EXCEPT ![w] = f]
         \/ Quiet /\ edge' = [edge EXCEPT ![w] = f]
      /\ UNCHANGED listVars
  <2>1. HookCall(w, Readback(e), f, f)
    BY <1>1
  <2> HIDE DEF s
  <2> QED BY <2>1, CallEnds
<1>6. \A rbs : Tied(f, receipt[w], row, rbs, writes, chains, published)
  BY <1>2, <1>4, ContinuesTied
<1>7. CASE Quiet /\ edge' = [edge EXCEPT ![w] = f]
  BY <1>1, <1>2, <1>4, <1>5, <1>7, QuietMarks, MarkContinues
<1>8. CASE Readback(e) /\ edge' = [edge EXCEPT ![w] = f]
  BY <1>1, <1>2, <1>3, <1>4, <1>5, <1>6, <1>8, ObservingKeeps DEF Continues
<1> QED BY <1>5, <1>7, <1>8

\* The closing readback: the chain is published, so the write was seen applied.
LEMMA ClosingKeeps ==
  ASSUME LiveInv, NEW w \in Workers, edge[w].pc = "readbackLocal", ~edge[w].need,
         Readback(ReadbackOf(edge[w])), ReadbackOf(edge[w]) \in ReadbackEvidence,
         UNCHANGED listVars, UNCHANGED evidenceVars,
         NEW t, edge' = [edge EXCEPT ![w] = t], Locals(t),
         \/ t.pc = "readbackCheck" /\ t.run = edge[w].run /\ t.gen = edge[w].gen
         \/ Continues(edge[w], t)
  PROVE  LiveInv'
<1> DEFINE s == edge[w]
           e == ReadbackOf(s)
<1>1. /\ s.pc \in Holding /\ row.generation = s.gen /\ row.run = s.run
      /\ HasPhase(chains[s.run], "intent") /\ receipt[w] /\ s.run \in published
      /\ Verified(chains[s.run]) /\ s.obs = "applied"
  BY HolderIs DEF Tied, Holding, Handling
<1>2. /\ e.run = s.run /\ e.close /\ e.code = "verified_applied" /\ e.completion = "terminal"
  BY <1>1 DEF ReadbackOf, ReadbackCode, Completion
<1>3. e \in ReadbackEvidence /\ Readback(e)
  OBVIOUS
<1> HIDE DEF e
<1>4. CloseIntent(e) /\ readbacks' = readbacks \cup {e}
  BY <1>2, <1>3 DEF Readback, ObserveOnly
<1>5. row'.intent = "closed" /\ row'.generation = s.gen /\ row'.run = s.run
  <2>1. row \in Row
    BY DEF LiveInv, StateInv, TypeOK
  <2> QED BY <1>1, <1>2, <1>4, <2>1 DEF CloseIntent, Row
<1>6. NoRelease'
  BY <1>2, <1>4 DEF LiveInv, StoresAgree, NoRelease
<1>7. ClosedIsPublished'
  BY <1>1, <1>5 DEF ClosedIsPublished, Verified, evidenceVars
<1>8. [StateNext]_stateVars
  BY <1>3 DEF StateNext
<1>9. Tied(t, receipt[w], row', readbacks', writes, chains, published)
  <2>1. CASE t.pc = "readbackCheck" /\ t.run = s.run /\ t.gen = s.gen
    <3>1. \E x \in readbacks' : x.run = s.run /\ x.close /\ x.code = "verified_applied"
      BY <1>2, <1>4
    <3>2. Settled(t, receipt[w], row', readbacks', published)
      BY <1>1, <1>5, <2>1, <3>1 DEF Settled
    <3> QED BY <1>1, <1>5, <2>1, <3>2 DEF Tied, Unsent
  <2>2. CASE Continues(s, t)
    BY <1>1, <1>5, <2>2, ContinuesTied
  <2> QED BY <2>1, <2>2
<1> QED BY <1>1, <1>6, <1>7, <1>8, <1>9, TransactKeeps

\* The local readback.
LEMMA LocalReadbackKeeps ==
  ASSUME LiveInv, NEW w \in Workers, LocalReadback(w)
  PROVE  LiveInv'
<1> DEFINE s == edge[w]
           e == ReadbackOf(s)
           t == [s EXCEPT !.pc = "readbackCheck"]
           f == ReadbackFailed(s)
<1>1. /\ s.pc = "readbackLocal" /\ HookCall(w, e \in ReadbackEvidence /\ Readback(e), t, f)
      /\ UNCHANGED evidenceVars
  BY DEF LocalReadback, LocalCall
<1>2. /\ s.pc \in Handling /\ s.pc \in Holding /\ Locals(s) /\ s.pc # "idle" /\ s.need \in BOOLEAN
      /\ s.gen \in Generations /\ s.run \in Runs /\ s.kind \in Handled
      /\ row.generation = s.gen /\ row.run = s.run /\ HasPhase(chains[s.run], "intent")
  BY <1>1, HolderIs DEF Handling, Locals, Holding, Tied
<1>3. Continues(s, f)
  BY <1>2, FailureContinues
<1>4. /\ DOMAIN t = Fields /\ t.pc = "readbackCheck" /\ t.run = s.run /\ t.gen = s.gen
      /\ t.kind = s.kind /\ t.need = s.need
      /\ t.recorded \in BOOLEAN /\ t.need \in BOOLEAN /\ t.persisted \in BOOLEAN
  BY <1>2, MovesOn
<1>5. e.close = ~s.need
  BY DEF ReadbackOf
<1> HIDE DEF t, f, e
<1>6. /\ \/ e \in ReadbackEvidence /\ Readback(e) /\ edge' = [edge EXCEPT ![w] = t]
         \/ e \in ReadbackEvidence /\ Readback(e) /\ edge' = [edge EXCEPT ![w] = f]
         \/ Quiet /\ edge' = [edge EXCEPT ![w] = f]
      /\ UNCHANGED listVars
  <2>1. HookCall(w, e \in ReadbackEvidence /\ Readback(e), t, f)
    BY <1>1
  <2> HIDE DEF s
  <2> QED BY <2>1, CallEnds
<1>7. Locals(t)
  BY <1>2, <1>4 DEF Locals, Requiring
<1>8. CASE Quiet /\ edge' = [edge EXCEPT ![w] = f]
  BY <1>1, <1>2, <1>3, <1>6, <1>8, QuietMarks, MarkContinues
<1>9. ASSUME e \in ReadbackEvidence, Readback(e), s.need = TRUE, NEW x \in {t, f},
             edge' = [edge EXCEPT ![w] = x]
      PROVE  LiveInv'
  <2>1. \A rbs : Tied(f, receipt[w], row, rbs, writes, chains, published)
    BY <1>2, <1>3, ContinuesTied
  <2>2. \A rbs : Tied(t, receipt[w], row, rbs, writes, chains, published)
    BY <1>2, <1>4, <1>9 DEF Tied, Unsent
  <2>3. Locals(x) /\ e.close = FALSE
    BY <1>3, <1>5, <1>7, <1>9 DEF Continues
  <2>4. \A rbs : Tied(x, receipt[w], row, rbs, writes, chains, published)
    BY <1>9, <2>1, <2>2
  <2> QED BY <1>1, <1>2, <1>6, <1>9, <2>3, <2>4, ObservingKeeps
<1>10. ASSUME e \in ReadbackEvidence, Readback(e), ~s.need, NEW x \in {t, f},
              edge' = [edge EXCEPT ![w] = x]
       PROVE  LiveInv'
  <2>1. ReadbackOf(edge[w]) \in ReadbackEvidence /\ Readback(ReadbackOf(edge[w]))
    BY <1>10 DEF e
  <2>2. /\ Locals(x)
        /\ \/ x.pc = "readbackCheck" /\ x.run = edge[w].run /\ x.gen = edge[w].gen
           \/ Continues(edge[w], x)
    BY <1>3, <1>4, <1>7, <1>10 DEF Continues
  <2> QED BY <1>1, <1>6, <1>10, <2>1, <2>2, ClosingKeeps
<1> QED BY <1>2, <1>6, <1>8, <1>9, <1>10

-----------------------------------------------------------------------------
(* The publication, the request and the list. *)

\* The chain is published, or the hook sees a failure.
LEMMA FinalizeKeeps ==
  ASSUME LiveInv, NEW w \in Workers, Finalize(w)
  PROVE  LiveInv'
<1> DEFINE s == edge[w]
           t == [s EXCEPT !.pc = "readbackLocal"]
           f == [s EXCEPT !.pc = "readbackFailed"]
<1>1. /\ s.pc = "finalize"
      /\ UNCHANGED <<row, intents, outcomes, requirements, readbacks, writes, chains>>
      /\ \/ /\ Canon!Complete(chains[s.run]) /\ published' = published \cup {s.run}
            /\ Len(chains[s.run]) = 3
            /\ receipt' = [receipt EXCEPT ![w] = TRUE] /\ edge' = [edge EXCEPT ![w] = t]
         \/ /\ published' = published \cup {s.run} \/ UNCHANGED published
            /\ UNCHANGED receipt /\ edge' = [edge EXCEPT ![w] = f]
  BY DEF Finalize, Publish, ThreeEvents, Become, stateVars, listVars
<1>2. /\ s.pc \in Handling /\ s.pc \in Holding /\ Locals(s) /\ s.pc # "idle"
      /\ s.gen \in Generations /\ s.run \in Runs /\ s.kind \in Handled
      /\ row.generation = s.gen /\ row.run = s.run /\ HasPhase(chains[s.run], "intent")
      /\ Recorded(chains[s.run], Canonical("readback", ReadbackCode(s.obs)))
  BY <1>1, HolderIs DEF Handling, Locals, Holding, Tied
<1>3. /\ DOMAIN t = Fields /\ t.pc = "readbackLocal" /\ t.run = s.run /\ t.gen = s.gen
      /\ t.kind = s.kind /\ t.obs = s.obs
      /\ t.recorded \in BOOLEAN /\ t.need \in BOOLEAN /\ t.persisted \in BOOLEAN
  BY <1>2, MovesOn
<1>4. /\ DOMAIN f = Fields /\ f.pc = "readbackFailed" /\ f.run = s.run /\ f.gen = s.gen
      /\ f.kind = s.kind
      /\ f.recorded \in BOOLEAN /\ f.need \in BOOLEAN /\ f.persisted \in BOOLEAN
  BY <1>2, MovesOn
<1> HIDE DEF t, f
<1>5. published \subseteq published'
  BY <1>1
<1>6. StateInv' /\ StoresAgree'
  <2>1. StateInv'
    BY <1>1, NextPreservesInv DEF LiveInv, stateVars
  <2> QED BY <1>1, <1>5, <2>1 DEF LiveInv, StoresAgree, NoRelease, ChainsOK, RequestsOK,
                                  CanonicalIntentFirst, ClosedIsPublished
<1>7. receipt \in [Workers -> BOOLEAN]
  BY DEF LiveInv, ExecutionsAreTied
<1>8. CASE UNCHANGED receipt /\ edge' = [edge EXCEPT ![w] = f]
  <2>1. Continues(s, f)
    BY <1>2, <1>4 DEF Continues, Locals, Plain, Requiring
  <2>2. Tied(f, receipt'[w], row', readbacks', writes', chains', published')
    BY <1>1, <1>2, <2>1, ContinuesTied
  <2> QED BY <1>1, <1>2, <1>5, <1>6, <1>7, <1>8, <2>1, <2>2, LiveStepKeeps DEF Continues
<1>9. CASE /\ Canon!Complete(chains[s.run]) /\ published' = published \cup {s.run}
           /\ Len(chains[s.run]) = 3
           /\ receipt' = [receipt EXCEPT ![w] = TRUE] /\ edge' = [edge EXCEPT ![w] = t]
  <2>1. chains[s.run] \in Seq(Canon!Events)
    BY <1>2 DEF LiveInv, StoresAgree, ChainsOK
  <2>2. Verified(chains[s.run]) /\ s.obs = "applied"
    BY <1>2, <1>9, <2>1, PublishedIsApplied
  <2>3. /\ receipt' \in [Workers -> BOOLEAN] /\ receipt'[w] = TRUE
        /\ \A v \in Workers : v # w => receipt'[v] = receipt[v]
    BY <1>7, <1>9
  <2>4. Locals(t)
    BY <1>2, <1>3 DEF Locals, Requiring
  <2>5. Tied(t, receipt'[w], row', readbacks', writes', chains', published')
    BY <1>1, <1>2, <1>3, <1>9, <2>2, <2>3 DEF Tied, Unsent
  <2> QED BY <1>1, <1>2, <1>5, <1>6, <1>9, <2>3, <2>4, <2>5, LiveStepKeeps
<1> QED BY <1>1, <1>8, <1>9

\* The request of the holder, whose two intents are recorded.
LEMMA LiveWrite ==
  ASSUME LiveInv, NEW w \in Workers, Write(w), UNCHANGED evidenceVars
  PROVE  LiveInv'
<1> DEFINE s == edge[w]
           t(kind, i) == [s EXCEPT !.pc = "outcome", !.kind = kind, !.item = i]
<1>1. /\ s.pc = "write" /\ writes' = [writes EXCEPT ![s.gen] = writes[s.gen] + 1]
      /\ UNCHANGED <<row, intents, outcomes, requirements, readbacks, chains, published, receipt>>
      /\ \E kind \in Handled : \E i : edge' = [edge EXCEPT ![w] = t(kind, i)]
  <2>1. \E kind \in Handled : \E i : edge' = [edge EXCEPT ![w] = t(kind, i)]
    <3>1. \E kind \in Handled : \E named : Responds(w, kind, named)
      BY DEF Write, WriteTakesEffect, WriteHasNoEffect, WriteStaysInFlight, Handled
    <3> QED BY <3>1 DEF Responds, Become
  <2> QED BY <2>1 DEF Write, stateVars, evidenceVars
<1>2. /\ s.pc \in Holding /\ DOMAIN s = Fields
      /\ s.recorded \in BOOLEAN /\ s.need \in BOOLEAN /\ s.persisted \in BOOLEAN
      /\ s.gen \in Generations /\ s.run \in Runs
      /\ row.generation = s.gen /\ row.run = s.run /\ HasPhase(chains[s.run], "intent")
      /\ writes[s.gen] = 0
  BY <1>1, HolderIs DEF Unsent, Locals, Holding, Tied
<1>3. PICK kind \in Handled : \E i : edge' = [edge EXCEPT ![w] = t(kind, i)]
  BY <1>1
<1>4. PICK i : edge' = [edge EXCEPT ![w] = t(kind, i)]
  BY <1>3
<1> DEFINE u == t(kind, i)
<1>5. /\ DOMAIN u = Fields /\ u.pc = "outcome" /\ u.run = s.run /\ u.gen = s.gen
      /\ u.kind = kind /\ u.recorded = s.recorded /\ u.need = s.need
      /\ u.persisted = s.persisted
  BY <1>2 DEF Fields
<1>6. edge' = [edge EXCEPT ![w] = u]
  BY <1>4
<1> HIDE DEF u
<1>7. Continues(s, u)
  BY <1>2, <1>5 DEF Continues, Locals, Plain, Requiring
<1>8. Tied(u, receipt'[w], row', readbacks', writes', chains', published')
  BY <1>1, <1>2, <1>7, ContinuesTied
<1>9. StateInv'
  BY <1>1, NextPreservesInv DEF LiveInv, stateVars
<1>10. RequestsOK'
  <2>1. /\ writes \in [Generations -> Nat] /\ CanonicalIntentFirst
        /\ \A g \in Generations : writes[g] <= 1
    BY DEF LiveInv, StoresAgree, RequestsOK
  <2>2. /\ writes' \in [Generations -> Nat]
        /\ \A g \in Generations : writes'[g] = IF g = s.gen THEN 1 ELSE writes[g]
    BY <1>1, <1>2, <2>1
  <2>3. PICK e \in intents : e.generation = s.gen /\ e.run = s.run
    <3>1. PICK x \in intents : x.generation = s.gen
      <4>1. row.generation \in Nat
        BY FirstIsLast DEF LiveInv, StoresAgree
      <4>2. s.gen <= row.generation
        BY <1>2, <4>1
      <4> QED BY <1>2, <4>2 DEF LiveInv, StateInv, IntentsCoverGenerations
    <3>2. x.run = row.run
      BY <1>2, <3>1 DEF LiveInv, StateInv, IntentsCoverGenerations
    <3> QED BY <1>2, <3>1, <3>2
  <2>4. CanonicalIntentFirst'
    BY <1>1, <1>2, <2>1, <2>2, <2>3 DEF CanonicalIntentFirst
  <2> QED BY <2>1, <2>2, <2>4 DEF RequestsOK
<1>11. StoresAgree'
  BY <1>1, <1>10 DEF LiveInv, StoresAgree, NoRelease, ChainsOK, ClosedIsPublished
<1>12. receipt \in [Workers -> BOOLEAN]
  BY DEF LiveInv, ExecutionsAreTied
<1> QED BY <1>1, <1>2, <1>6, <1>7, <1>8, <1>9, <1>11, <1>12, LiveStepKeeps DEF Continues

\* Steps that the two stores and the executions do not see.
LEMMA ElsewhereKeeps ==
  ASSUME LiveInv, Still, UNCHANGED <<edge, receipt>>
  PROVE  LiveInv'
<1>1. StateInv' /\ StoresAgree'
  BY StillAgrees DEF LiveInv
<1> QED BY <1>1 DEF LiveInv, ExecutionsAreTied, OneHolder, Still

-----------------------------------------------------------------------------
(* The invariant is inductive. *)

\* Nothing is recorded, sent or published at first.
LEMMA InitEstablishesLiveInv == LiveInit => LiveInv
<1> SUFFICES ASSUME LiveInit PROVE LiveInv
  OBVIOUS
<1>1. StateInv
  BY InitEstablishesInv DEF LiveInit, EdgeInit
<1>2. /\ readbacks = {} /\ row.intent = "absent" /\ edge = [w \in Workers |-> Idle]
      /\ writes = [g \in Generations |-> 0] /\ chains = [r \in Runs |-> << >>]
      /\ receipt = [w \in Workers |-> FALSE]
  BY DEF LiveInit, EdgeInit, StateInit, AbsentRow
<1>3. Idle.pc \notin Holding /\ Idle.pc # "done" /\ Locals(Idle)
  BY EndIs DEF Holding, Unsent, Handling, Plain
<1>4. \A w \in Workers : edge[w] = Idle
  BY <1>2
<1>5. ExecutionsAreTied
  <2>1. \A w \in Workers : Tied(Idle, receipt[w], row, readbacks, writes, chains, published)
    BY <1>3, OutsideTied
  <2> QED BY <1>2, <1>3, <1>4, <2>1 DEF ExecutionsAreTied
<1>6. OneHolder
  BY <1>3, <1>4 DEF OneHolder
<1>7. StoresAgree
  BY <1>2 DEF StoresAgree, NoRelease, ChainsOK, RequestsOK, CanonicalIntentFirst,
              ClosedIsPublished
<1> QED BY <1>1, <1>5, <1>6, <1>7 DEF LiveInv

\* Every step of the composition keeps the invariant.
LEMMA NextKeepsLiveInv == LiveInv /\ [LiveNext]_liveVars => LiveInv'
<1> SUFFICES ASSUME LiveInv, [LiveNext]_liveVars PROVE LiveInv'
  OBVIOUS
<1>1. CASE UNCHANGED liveVars
  <2>1. Still /\ UNCHANGED <<edge, receipt>>
    BY <1>1 DEF liveVars, edgeVars, evidenceVars, Still
  <2> QED BY <2>1, ElsewhereKeeps
<1>2. CASE ListStep
  <2>1. Still /\ UNCHANGED <<edge, receipt>>
    BY <1>2 DEF ListStep, ForeignChange, LateRequest, evidenceVars, stateVars, Still
  <2> QED BY <2>1, ElsewhereKeeps
<1>3. ASSUME NEW w \in Workers, NEW r \in Runs, LiveExecute(w, r) PROVE LiveInv'
  BY <1>3, LiveExecuteKeeps
<1>4. ASSUME NEW w \in Workers, EdgeStep(w) PROVE LiveInv'
  BY <1>4, LiveAdmit, LivePreflight, LiveCheckIntent, LiveWrite, LiveHandle, LiveCheckReadback,
     LiveForget
  DEF EdgeStep
<1>5. ASSUME NEW w \in Workers, HookStep(w) PROVE LiveInv'
  BY <1>5, LocalIntentKeeps, AppendIntentKeeps, IntentFailedKeeps, LocalOutcomeKeeps,
     AppendOutcomeKeeps, LocalRequirementKeeps, AppendRequirementKeeps, AppendReadbackKeeps,
     FinalizeKeeps, LocalReadbackKeeps, ReadbackRaisedKeeps, RecordObservedOnlyKeeps
  DEF HookStep
<1> QED BY <1>1, <1>2, <1>3, <1>4, <1>5 DEF LiveNext

-----------------------------------------------------------------------------
(* Theorems. *)

\* The two stores and the executions agree in every reachable state.
THEOREM LiveInvariance == LiveSpec => []LiveInv
BY InitEstablishesLiveInv, NextKeepsLiveInv, PTL DEF LiveSpec

\* A row is closed only for a run whose canonical chain is published and ends
\* with a verified readback, whichever store fails and whoever dies in between.
THEOREM PublishedClosure == LiveSpec => []ClosedIsPublished
<1>1. LiveInv => ClosedIsPublished
  BY DEF LiveInv, StoresAgree
<1> QED BY <1>1, LiveInvariance, PTL

\* A request leaves the process only after the local and the canonical intent.
THEOREM CanonicalWriteAhead == LiveSpec => []CanonicalIntentFirst
<1>1. LiveInv => CanonicalIntentFirst
  BY DEF LiveInv, StoresAgree, RequestsOK
<1> QED BY <1>1, LiveInvariance, PTL

\* One mutation is sent at most once, over all runs, processes and crashes.
THEOREM NoReplay == LiveSpec => []NeverReplayed
<1>1. LiveInv => NeverReplayed
  <2> SUFFICES ASSUME LiveInv, NEW g \in Generations, NEW h \in Generations,
                      writes[g] > 0, writes[h] > 0
               PROVE  g = h /\ writes[g] = 1
    BY DEF NeverReplayed
  <2>1. /\ writes[g] \in Nat /\ writes[g] <= 1
        /\ \E e \in intents : e.generation = g
        /\ \E e \in intents : e.generation = h
    BY DEF LiveInv, StoresAgree, RequestsOK, CanonicalIntentFirst
  <2>2. row.generation \in Nat /\ row.generation <= 1
    BY FirstIsLast DEF LiveInv, StoresAgree
  <2>3. g <= row.generation /\ h <= row.generation
    BY <2>1 DEF LiveInv, StateInv, IntentsCoverGenerations
  <2>4. g \in Nat /\ h \in Nat /\ 1 <= g /\ 1 <= h
    BY MaxGenerationAssumption DEF Generations
  <2> QED BY <2>1, <2>2, <2>3, <2>4
<1> QED BY <1>1, LiveInvariance, PTL

\* A settled result is reported as verified, and then the row is closed by that
\* run, its chain is published and the provider was seen with the change.
THEOREM TrueVerification == LiveSpec => []VerifiedIsTrue
<1>1. LiveInv => VerifiedIsTrue
  <2> SUFFICES ASSUME LiveInv, NEW w \in Workers, edge[w].pc = "done",
                      edge[w].result \in SettledResults
               PROVE  /\ Status(w) = "S4D_WRITE_VERIFIED"
                      /\ row.intent = "closed" /\ row.run = edge[w].run
                      /\ edge[w].run \in published
                      /\ \E e \in readbacks : /\ e.run = edge[w].run
                                              /\ e.close
                                              /\ e.code = "verified_applied"
    BY DEF VerifiedIsTrue
  <2>1. Settled(edge[w], receipt[w], row, readbacks, published)
    BY HolderIs DEF Tied
  <2> QED BY <2>1 DEF Settled, Status
<1> QED BY <1>1, LiveInvariance, PTL

\* The composition only uses the local hook in ways the durable state allows:
\* whatever holds of MutationState for every caller holds under S4d as well.
THEOREM LiveUsesState == LiveSpec => StateSpec
<1>1. LiveInit => StateInit
  BY DEF LiveInit, EdgeInit
<1>2. LiveInv /\ [LiveNext]_liveVars => [StateNext]_stateVars
  <2> SUFFICES ASSUME LiveInv, LiveNext PROVE [StateNext]_stateVars
    BY DEF liveVars, edgeVars, stateVars
  <2>1. ASSUME NEW w \in Workers, NEW r \in Runs, LiveExecute(w, r) PROVE UNCHANGED stateVars
    BY <2>1 DEF LiveExecute, Execute, stateVars
  <2>2. ASSUME NEW w \in Workers, EdgeStep(w) PROVE UNCHANGED stateVars
    BY <2>2 DEF EdgeStep, Admit, DedupeRead, FreshnessRead, CheckIntent, Write, CheckRequire,
                Observe, ObserveItem, CheckReadback, Return, Crash, Escape, LocalStep, stateVars
  <2>3. ASSUME ListStep PROVE UNCHANGED stateVars
    BY <2>3 DEF ListStep, ForeignChange, LateRequest, stateVars
  <2>4. ASSUME NEW w \in Workers, LocalIntent(w) \/ LocalReadback(w) PROVE [StateNext]_stateVars
    BY <2>4 DEF LocalIntent, LocalReadback, LocalCall, HookCall, StateNext
  <2>5. ASSUME NEW w \in Workers, LocalOutcome(w) PROVE [StateNext]_stateVars
    <3>1. edge[w].gen \in Generations /\ edge[w].kind \in Handled /\ edge[w].run \in Runs
      BY <2>5, HolderIs DEF LocalOutcome, Locals, Holding, Handling, Plain
    <3>2. EventOf(edge[w], OutcomeCode[edge[w].kind]) \in OutcomeEvidence
      BY <3>1, EventIs, CodeIs
    <3> QED BY <2>5, <3>2 DEF LocalOutcome, LocalCall, HookCall, StateNext
  <2>6. ASSUME NEW w \in Workers, RecordObservedOnly(w) PROVE [StateNext]_stateVars
    <3>1. edge[w].gen \in Generations /\ edge[w].run \in Runs
      BY <2>6, HolderIs DEF RecordObservedOnly, Holding, Handling, Plain
    <3>2. ObservedOnly(edge[w]) \in ReadbackEvidence
      BY <3>1, ObservedOnlyIs
    <3> QED BY <2>6, <3>2 DEF RecordObservedOnly, LocalCall, HookCall, StateNext
  <2>7. ASSUME NEW w \in Workers, IntentFailed(w) \/ LocalRequirement(w) \/ ReadbackRaised(w)
        PROVE  [StateNext]_stateVars
    <3>1. edge[w].pc \in Holding /\ \E yes, no : RequireLocal(w, yes, no)
      BY <2>7 DEF IntentFailed, LocalRequirement, ReadbackRaised, Holding, Unsent, Handling, Plain
    <3>2. Marking
      BY <3>1, RequireLocalIs
    <3> QED BY <3>2 DEF Marking
  <2>8. ASSUME NEW w \in Workers, AppendIntent(w) \/ AppendOutcome(w) \/ AppendRequirement(w)
                                  \/ AppendReadback(w) \/ Finalize(w)
        PROVE  UNCHANGED stateVars
    BY <2>8 DEF AppendIntent, AppendOutcome, AppendRequirement, AppendReadback, Finalize,
                AppendCall, stateVars
  <2> QED BY <2>1, <2>2, <2>3, <2>4, <2>5, <2>6, <2>7, <2>8 DEF LiveNext, HookStep
<1> QED BY <1>1, <1>2, LiveInvariance, PTL DEF LiveSpec, StateSpec
=============================================================================
