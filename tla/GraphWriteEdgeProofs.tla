----------------------- MODULE GraphWriteEdgeProofs -----------------------
(***************************************************************************)
(* Proofs about GraphWriteEdge for every number of worker processes, calls *)
(* and foreign edits, every set of runs and plans and every generation     *)
(* limit.                                                                  *)
(***************************************************************************)
EXTENDS GraphWriteEdge, MutationStateProofs, FiniteSetTheorems

-----------------------------------------------------------------------------
(* The invariant. *)

\* The steps of an execution that has recorded the intent of its generation.
Past == {"outcome", "require", "requireCheck", "observe", "observeItem", "readback",
         "readbackCheck"}
Owning == {"intentCheck", "write"} \cup Past

PlanKinds == {"write", "dedupe", "ambiguous"}

\* The ways a response is handled: the domain of OutcomeCode.
Handled == {"dedupe", "ambiguous", "unknown", "server_error", "precondition", "conflict",
            "retryable", "rejected", "success"}

Reads == {"not_applied", "applied", "invalid", "duplicate", "divergent", "paged"}

Blocks == {"BLOCKED_PLAN", "BLOCKED_COMPLETED_MUTATION", "BLOCKED_RETRY_AUTHORIZATION",
           "BLOCKED_RECONCILIATION", "BLOCKED_RECONCILIATION_STATE",
           "BLOCKED_PREFLIGHT_TRANSPORT", "BLOCKED_DEDUPE_READ", "BLOCKED_FRESHNESS_READ",
           "BLOCKED_ETAG_DRIFT", "BLOCKED_EVIDENCE"}

Results == SettledResults \cup Blocks
           \cup {"RECONCILIATION_REQUIRED", "RECONCILIATION_PERSISTENCE_FAILED"}

Executions ==
  [pc : Owning \cup {"idle", "admit", "dedupe", "freshness", "intent", "done"},
   run : Runs \cup {None}, seen : 0 .. MaxGeneration,
   prior : Runs \cup {None}, gen : Nat, kind : {"none", "write"} \cup Handled,
   obs : Reads \cup {"none"}, item : Nat, etag : Nat, recorded : BOOLEAN, need : BOOLEAN,
   place : {"none", "before", "after", "final"}, persisted : BOOLEAN,
   result : Results \cup {"none"}]

\* The execution has not sent its closing readback: the row waits for it.
Waiting(s) ==
  \/ s.pc \in {"intentCheck", "write", "outcome", "observe", "observeItem", "readback"}
  \/ s.pc \in {"require", "requireCheck"} /\ s.place # "final"

\* What the local state of an execution says of itself.
Sensible(s) ==
  /\ s \in Executions
  /\ s.pc # "idle" => s.run \in Runs
  /\ s.pc \in {"admit", "dedupe", "freshness", "intent", "intentCheck", "write", "outcome"} =>
       ~s.need /\ ~s.recorded
  /\ s.pc \in {"intent", "intentCheck"} => s.kind \in PlanKinds
  /\ s.pc = "intent" => s.gen = s.seen + 1
  /\ s.pc = "write" => s.kind = "write"
  /\ s.pc \in Owning => s.gen \in Generations
  /\ s.pc \in Past => s.kind \in Handled
  /\ s.pc \in Past \ {"outcome"} /\ s.kind \in UnclearKinds => s.need
  /\ s.pc = "observe" => (s.need <=> MarksFirst(s))
  /\ s.pc = "observeItem" => s.kind = "conflict" /\ ~s.need
  /\ s.pc \in {"require", "requireCheck"} =>
       /\ s.need /\ s.place \in {"before", "after", "final"}
       /\ s.place = "before" => MarksFirst(s)
  /\ s.pc \in {"readback", "readbackCheck"} /\ ~s.need => ~NeedsReconciliation(s)

\* What the durable state (row r, intents ins, outcomes outs, readbacks rbs) and
\* the number n of requests of each generation say of an execution.
Backed(s, r, ins, outs, rbs, n) ==
  /\ s.pc \in Owning => \E e \in ins : e.generation = s.gen
  /\ Waiting(s) => /\ r.intent = "open" /\ r.generation = s.gen
                   /\ ~s.need => r.reconciliation = "clear"
  /\ s.pc \in {"intentCheck", "write"} => n[s.gen] = 0
  /\ s.pc \in Past => n[s.gen] = IF s.kind \in {"dedupe", "ambiguous"} THEN 0 ELSE 1
  /\ s.pc \in Past /\ s.recorded =>
       \E e \in outs : e.generation = s.gen /\ e.run = s.run /\ e.code = OutcomeCode[s.kind]
  /\ s.pc \in {"observe", "readback", "readbackCheck"} /\ s.need /\ s.persisted =>
       r.reconciliation = "required" /\ r.generation = s.gen /\ r.run = s.run
  /\ s.pc = "readbackCheck" /\ ~s.need =>
       /\ s.obs \in {"applied", "not_applied"}
       /\ \E e \in rbs : /\ e.generation = s.gen /\ e.run = s.run /\ e.close
                         /\ e.code = ReadbackCode(s.obs)
  /\ s.pc = "done" /\ s.result = "RECONCILIATION_REQUIRED" =>
       r.reconciliation = "required" /\ r.generation = s.gen /\ r.run = s.run
  /\ s.pc = "done" /\ s.result \in SettledResults =>
       /\ s.gen \in Generations /\ s.gen <= r.closed
       /\ \E e \in outs : e.generation = s.gen /\ e.run = s.run /\ e.code = OutcomeCode[s.kind]
       /\ \E e \in rbs : /\ e.generation = s.gen /\ e.run = s.run /\ e.close
                         /\ e.code = IF s.result \in AppliedResults THEN "verified_applied"
                                     ELSE "verified_not_applied"
       /\ n[s.gen] = IF s.kind = "dedupe" THEN 0 ELSE 1

ExecutionsAreSound ==
  \A w \in Workers :
    Sensible(edge[w]) /\ Backed(edge[w], row, intents, outcomes, readbacks, writes)

\* A generation belongs to the execution that recorded its intent.
OneOwner ==
  \A v, w \in Workers :
    v # w /\ edge[v].pc \in Owning /\ edge[w].pc \in Owning => edge[v].gen # edge[w].gen

\* A request that is still travelling was sent by an execution that will not
\* close its generation.
Travelling(g, s) == s.pc \in Owning /\ s.gen = g => s.kind \in {"unknown", "server_error"}

PendingIsUnclear ==
  \A g \in pending :
    /\ g \in Generations /\ row.generation = g /\ row.intent = "open" /\ writes[g] = 1
    /\ \A w \in Workers : Travelling(g, edge[w])

ListItem == [live : BOOLEAN, applied : BOOLEAN, etag : Nat, own : BOOLEAN]

\* An update has its one item.
ListOK ==
  /\ items \in Seq(ListItem)
  /\ method \in {"POST", "PATCH"}
  /\ method = "PATCH" => Len(items) = 1

EdgeTypeOK ==
  /\ edge \in [Workers -> Executions]
  /\ writes \in [Generations -> Nat]
  /\ ListOK

EdgeInv ==
  /\ StateInv
  /\ EdgeTypeOK
  /\ WriteAheadIntent
  /\ ExecutionsAreSound
  /\ OneOwner
  /\ PendingIsUnclear

-----------------------------------------------------------------------------
(* One execution moves and the others stay. *)

\* What a step of an execution in state s leaves alone: an open row of another
\* generation, a row that requires reconciliation, and the requests of other
\* generations.
Leaves(s) ==
  /\ intents \subseteq intents' /\ outcomes \subseteq outcomes' /\ readbacks \subseteq readbacks'
  /\ row.closed <= row'.closed
  /\ row.intent = "open" /\ ~(s.pc \in Owning /\ row.generation = s.gen) => row' = row
  /\ row.reconciliation = "required" => row' = row
  /\ \A h \in Generations :
       ~(s.pc \in Owning /\ h = s.gen) \/ h <= row.closed => writes'[h] = writes[h]

\* The numbers of the row.
LEMMA RowNumbers ==
  ASSUME StateInv
  PROVE  row.generation \in Nat /\ row.closed \in Nat /\ row \in Row
BY MaxGenerationAssumption DEF StateInv, TypeOK, Row

\* Then the durable state says of the others what it said before.
LEMMA OthersKeep ==
  ASSUME StateInv, StateInv', NEW s, Leaves(s), NEW t, Sensible(t),
         Backed(t, row, intents, outcomes, readbacks, writes),
         s.pc \in Owning /\ t.pc \in Owning => t.gen # s.gen
  PROVE  Backed(t, row', intents', outcomes', readbacks', writes')
<1>0. row.closed \in Nat /\ row'.closed \in Nat /\ row.closed <= row'.closed /\ t.gen \in Nat
  BY MaxGenerationAssumption DEF StateInv, TypeOK, Row, Leaves, Sensible, Executions
<1>1. Waiting(t) => row' = row
  <2>1. Waiting(t) => t.pc \in Owning
    BY DEF Waiting, Owning, Past
  <2> QED BY <2>1 DEF Backed, Leaves
<1>2. row.reconciliation = "required" => row' = row
  BY DEF Leaves
<1>3. t.pc \in Owning => writes'[t.gen] = writes[t.gen]
  BY DEF Leaves, Sensible
<1>4. ASSUME t.pc = "done", t.result \in SettledResults
      PROVE  writes'[t.gen] = writes[t.gen] /\ t.gen <= row'.closed
  BY <1>0, <1>4 DEF Leaves, Backed
<1>5. /\ t.pc \in Owning => \E e \in intents' : e.generation = t.gen
      /\ Waiting(t) => /\ row'.intent = "open" /\ row'.generation = t.gen
                       /\ ~t.need => row'.reconciliation = "clear"
      /\ t.pc \in {"observe", "readback", "readbackCheck"} /\ t.need /\ t.persisted =>
           row'.reconciliation = "required" /\ row'.generation = t.gen /\ row'.run = t.run
      /\ t.pc = "done" /\ t.result = "RECONCILIATION_REQUIRED" =>
           row'.reconciliation = "required" /\ row'.generation = t.gen /\ row'.run = t.run
  BY <1>1, <1>2 DEF Backed, Leaves
<1>6. /\ t.pc \in {"intentCheck", "write"} => writes'[t.gen] = 0
      /\ t.pc \in Past => writes'[t.gen] = IF t.kind \in {"dedupe", "ambiguous"} THEN 0 ELSE 1
  BY <1>3 DEF Backed, Owning
<1>7. /\ t.pc \in Past /\ t.recorded =>
           \E e \in outcomes' : e.generation = t.gen /\ e.run = t.run /\ e.code = OutcomeCode[t.kind]
      /\ t.pc = "readbackCheck" /\ ~t.need =>
           /\ t.obs \in {"applied", "not_applied"}
           /\ \E e \in readbacks' : /\ e.generation = t.gen /\ e.run = t.run /\ e.close
                                    /\ e.code = ReadbackCode(t.obs)
  BY DEF Backed, Leaves
<1>8. t.pc = "done" /\ t.result \in SettledResults =>
       /\ t.gen \in Generations /\ t.gen <= row'.closed
       /\ \E e \in outcomes' : e.generation = t.gen /\ e.run = t.run /\ e.code = OutcomeCode[t.kind]
       /\ \E e \in readbacks' : /\ e.generation = t.gen /\ e.run = t.run /\ e.close
                                /\ e.code = IF t.result \in AppliedResults THEN "verified_applied"
                                            ELSE "verified_not_applied"
       /\ writes'[t.gen] = IF t.kind = "dedupe" THEN 0 ELSE 1
  BY <1>4 DEF Backed, Leaves
<1> QED BY <1>5, <1>6, <1>7, <1>8 DEF Backed

\* A step of one execution keeps the invariant.
LEMMA StepKeeps ==
  ASSUME EdgeInv, StateInv', NEW w \in Workers, NEW s, edge' = [edge EXCEPT ![w] = s],
         Leaves(edge[w]), writes' \in [Generations -> Nat], WriteAheadIntent',
         ListOK',
         Sensible(s), Backed(s, row', intents', outcomes', readbacks', writes'),
         s.pc \in Owning => \/ edge[w].pc \in Owning /\ s.gen = edge[w].gen
                            \/ NoEvent(intents, s.gen),
         \A g \in pending' : /\ g \in pending \/ (edge[w].pc \in Owning /\ g = edge[w].gen)
                             /\ g \in Generations /\ row'.generation = g /\ row'.intent = "open"
                             /\ writes'[g] = 1 /\ Travelling(g, s)
  PROVE  EdgeInv'
<1>0. edge \in [Workers -> Executions] /\ s \in Executions
  BY DEF EdgeInv, EdgeTypeOK, Sensible
<1>1. edge'[w] = s /\ \A v \in Workers : v # w => edge'[v] = edge[v]
  BY <1>0
<1>2. EdgeTypeOK'
  BY <1>0 DEF EdgeTypeOK
<1>3. \A v \in Workers : Sensible(edge[v])
                         /\ Backed(edge[v], row, intents, outcomes, readbacks, writes)
  BY DEF EdgeInv, ExecutionsAreSound
<1>4. ExecutionsAreSound'
  <2>1. ASSUME NEW v \in Workers, v # w
        PROVE  Backed(edge[v], row', intents', outcomes', readbacks', writes')
    <3>1. edge[w].pc \in Owning /\ edge[v].pc \in Owning => edge[v].gen # edge[w].gen
      BY <2>1 DEF EdgeInv, OneOwner
    <3> QED BY <1>3, <3>1, OthersKeep DEF EdgeInv
  <2> QED BY <1>1, <1>3, <2>1 DEF ExecutionsAreSound
<1>5. OneOwner'
  <2>1. ASSUME NEW v \in Workers, v # w, edge[v].pc \in Owning, s.pc \in Owning
        PROVE  edge[v].gen # s.gen
    <3>1. CASE edge[w].pc \in Owning /\ s.gen = edge[w].gen
      BY <2>1, <3>1 DEF EdgeInv, OneOwner
    <3>2. CASE NoEvent(intents, s.gen)
      BY <1>3, <2>1, <3>2 DEF NoEvent, Backed
    <3> QED BY <2>1, <3>1, <3>2
  <2>2. \A v, u \in Workers :
          v # u /\ edge[v].pc \in Owning /\ edge[u].pc \in Owning => edge[v].gen # edge[u].gen
    BY DEF EdgeInv, OneOwner
  <2> QED BY <1>1, <2>1, <2>2 DEF OneOwner
<1>6. PendingIsUnclear'
  <2>1. ASSUME NEW g \in pending', NEW v \in Workers, v # w PROVE Travelling(g, edge[v])
    <3>1. CASE g \in pending
      BY <3>1 DEF EdgeInv, PendingIsUnclear
    <3>2. CASE edge[w].pc \in Owning /\ g = edge[w].gen
      BY <2>1, <3>2 DEF EdgeInv, OneOwner, Travelling
    <3> QED BY <3>1, <3>2
  <2> QED BY <1>1, <2>1 DEF PendingIsUnclear
<1> QED BY <1>2, <1>4, <1>5, <1>6 DEF EdgeInv


Quiet ==
  UNCHANGED <<row, intents, outcomes, requirements, readbacks, method, writes, pending, items>>

\* A step that changes nothing but the local state.
LEMMA QuietKeeps ==
  ASSUME EdgeInv, NEW w \in Workers, NEW s, edge' = [edge EXCEPT ![w] = s], Quiet,
         Sensible(s), Backed(s, row, intents, outcomes, readbacks, writes),
         s.pc \in Owning => /\ edge[w].pc \in Owning
                            /\ s.gen = edge[w].gen /\ s.kind = edge[w].kind
  PROVE  EdgeInv'
<1>1. UNCHANGED <<row, intents, outcomes, requirements, readbacks, method, writes, pending, items>>
  BY DEF Quiet
<1>2. StateInv'
  BY <1>1, NextPreservesInv DEF EdgeInv, stateVars
<1>3. Leaves(edge[w])
  BY <1>1, RowNumbers DEF Leaves, EdgeInv
<1>4. WriteAheadIntent'
  BY <1>1 DEF WriteAheadIntent, EdgeInv
<1>5. Backed(s, row', intents', outcomes', readbacks', writes')
  BY <1>1
<1>6. \A g \in pending' : /\ g \in pending /\ g \in Generations
                          /\ row'.generation = g /\ row'.intent = "open"
                          /\ writes'[g] = 1 /\ Travelling(g, s)
  BY <1>1 DEF EdgeInv, PendingIsUnclear, Travelling
<1>7. /\ writes' \in [Generations -> Nat]
      /\ ListOK'
  BY <1>1 DEF EdgeInv, EdgeTypeOK, ListOK
<1> QED BY <1>2, <1>3, <1>4, <1>5, <1>6, <1>7, StepKeeps

\* An execution stays one when one of its fields takes another of its values.
LEMMA FieldKeeps ==
  ASSUME NEW s \in Executions
  PROVE  /\ \A v \in Owning \cup {"idle", "admit", "dedupe", "freshness", "intent", "done"} :
              [s EXCEPT !.pc = v] \in Executions
         /\ \A v \in Runs \cup {None} : [s EXCEPT !.run = v] \in Executions
         /\ \A v \in Nat : [s EXCEPT !.gen = v] \in Executions
         /\ \A v \in {"none", "write"} \cup Handled : [s EXCEPT !.kind = v] \in Executions
         /\ \A v \in Reads \cup {"none"} : [s EXCEPT !.obs = v] \in Executions
         /\ \A v \in Nat : [s EXCEPT !.item = v] \in Executions
         /\ \A v \in Nat : [s EXCEPT !.etag = v] \in Executions
         /\ \A v \in Results \cup {"none"} : [s EXCEPT !.result = v] \in Executions
<1>1. \A v \in Owning \cup {"idle", "admit", "dedupe", "freshness", "intent", "done"} :
        [s EXCEPT !.pc = v] \in Executions
  BY DEF Executions
<1>2. \A v \in Runs \cup {None} : [s EXCEPT !.run = v] \in Executions
  BY DEF Executions
<1>3. \A v \in Nat : [s EXCEPT !.gen = v] \in Executions
  BY DEF Executions
<1>4. \A v \in {"none", "write"} \cup Handled : [s EXCEPT !.kind = v] \in Executions
  BY DEF Executions
<1>5. \A v \in Reads \cup {"none"} : [s EXCEPT !.obs = v] \in Executions
  BY DEF Executions
<1>6. \A v \in Nat : [s EXCEPT !.item = v] \in Executions
  BY DEF Executions
<1>7. \A v \in Nat : [s EXCEPT !.etag = v] \in Executions
  BY DEF Executions
<1>8. \A v \in Results \cup {"none"} : [s EXCEPT !.result = v] \in Executions
  BY DEF Executions
<1> QED BY <1>1, <1>2, <1>3, <1>4, <1>5, <1>6, <1>7, <1>8

\* The plan of a generation as a change of the local state.
LEMMA PlanIs ==
  ASSUME NEW s \in Executions, NEW g \in Nat, NEW kind \in {"none", "write"} \cup Handled
  PROVE  [s EXCEPT !.pc = "intent", !.gen = g, !.kind = kind] \in Executions
<1> DEFINE a == [s EXCEPT !.pc = "intent"]
           b == [a EXCEPT !.gen = g]
<1>1. a \in Executions
  BY FieldKeeps
<1>2. [s EXCEPT !.pc = "intent", !.gen = g, !.kind = kind] = [b EXCEPT !.kind = kind]
  OBVIOUS
<1> HIDE DEF a
<1>3. b \in Executions
  BY <1>1, FieldKeeps
<1> HIDE DEF b
<1>4. [b EXCEPT !.kind = kind] \in Executions
  BY <1>3, FieldKeeps
<1> QED BY <1>2, <1>4

\* An idle process.
LEMMA IdleIs ==
  /\ Idle \in Executions /\ Idle.pc = "idle" /\ ~Idle.need /\ ~Idle.recorded /\ Sensible(Idle)
  /\ \A r, ins, outs, rbs, n : Backed(Idle, r, ins, outs, rbs, n)
<1>1. Idle \in Executions /\ Idle.pc = "idle" /\ ~Idle.need /\ ~Idle.recorded
  BY MaxGenerationAssumption DEF Idle, Executions, Handled, Results, Reads, Owning
<1>2. Sensible(Idle)
  BY <1>1 DEF Sensible, Owning, Past
<1>3. \A r, ins, outs, rbs, n : Backed(Idle, r, ins, outs, rbs, n)
  BY <1>1 DEF Backed, Owning, Past, Waiting
<1> QED BY <1>1, <1>2, <1>3

\* A finished execution.
LEMMA DoneIs ==
  ASSUME NEW s \in Executions, NEW status \in Results
  PROVE  LET d == Done(s, status)
         IN /\ d \in Executions /\ d.pc = "done" /\ d.run = s.run /\ d.gen = s.gen
            /\ d.kind = s.kind /\ d.result = status
            /\ s.run \in Runs => Sensible(d)
<1> DEFINE d == Done(s, status)
<1>a. /\ s.run \in Runs \cup {None} /\ s.gen \in Nat
      /\ s.kind \in {"none", "write"} \cup Handled
  BY DEF Executions
<1> DEFINE e == [Idle EXCEPT !.pc = "done", !.run = s.run]
<1>b. d = [e EXCEPT !.gen = s.gen, !.kind = s.kind, !.result = status]
  BY DEF Done
<1>c. /\ e \in Executions /\ e.pc = "done" /\ e.run = s.run
  <2> DEFINE z == Idle
             y == [z EXCEPT !.pc = "done"]
  <2>1. z \in Executions
    BY IdleIs
  <2>2. e = [y EXCEPT !.run = s.run]
    OBVIOUS
  <2> HIDE DEF z
  <2>3. y \in Executions /\ y.pc = "done"
    BY <2>1, FieldKeeps DEF Executions
  <2> HIDE DEF y, e
  <2> QED BY <1>a, <2>2, <2>3, FieldKeeps DEF Executions
<1> DEFINE f == [e EXCEPT !.gen = s.gen]
           g == [f EXCEPT !.kind = s.kind]
<1>f. d = [g EXCEPT !.result = status]
  BY <1>b
<1> HIDE DEF d, e
<1>g. f \in Executions /\ f.pc = "done" /\ f.run = s.run /\ f.gen = s.gen
  BY <1>a, <1>c, FieldKeeps DEF Executions
<1> HIDE DEF f
<1>h. g \in Executions /\ g.pc = "done" /\ g.run = s.run /\ g.gen = s.gen /\ g.kind = s.kind
  BY <1>a, <1>g, FieldKeeps DEF Executions
<1> HIDE DEF g
<1>1. /\ d \in Executions /\ d.pc = "done" /\ d.run = s.run /\ d.gen = s.gen
      /\ d.kind = s.kind /\ d.result = status
  BY <1>f, <1>h, FieldKeeps DEF Executions
<1>2. s.run \in Runs => Sensible(d)
  BY <1>1 DEF Sensible, Owning, Past
<1> QED BY <1>1, <1>2 DEF d

\* A result that claims nothing of the durable state.
LEMMA ModestResult ==
  ASSUME NEW s, s.pc = "done", s.result \notin SettledResults,
         s.result # "RECONCILIATION_REQUIRED",
         NEW r, NEW ins, NEW outs, NEW rbs, NEW n
  PROVE  Backed(s, r, ins, outs, rbs, n)
BY DEF Backed, Owning, Past, Waiting

\* An execution gives up, or is forgotten.
LEMMA GivesUp ==
  ASSUME EdgeInv, NEW w \in Workers, NEW status \in Blocks, Quiet, edge[w].pc # "idle",
         Become(w, Done(edge[w], status))
  PROVE  EdgeInv'
<1> DEFINE d == Done(edge[w], status)
<1>1. edge[w] \in Executions /\ edge[w].run \in Runs
  BY DEF EdgeInv, EdgeTypeOK, ExecutionsAreSound, Sensible
<1>2. d.pc = "done" /\ d.result = status /\ Sensible(d)
  BY <1>1, DoneIs DEF Results
<1>3. edge' = [edge EXCEPT ![w] = d]
  BY DEF Become
<1> HIDE DEF d
<1>4. Backed(d, row, intents, outcomes, readbacks, writes)
  BY <1>2, ModestResult DEF Blocks, SettledResults
<1> QED BY <1>2, <1>3, <1>4, QuietKeeps DEF Owning, Past

\* What LocalStep leaves alone.
LEMMA LocalIsQuiet == LocalStep => Quiet
BY DEF LocalStep, Quiet, stateVars, listVars

\* Steps up to the intent claim nothing.
LEMMA EarlyIsBacked ==
  ASSUME NEW s, s.pc \in {"admit", "dedupe", "freshness", "intent"},
         NEW r, NEW ins, NEW outs, NEW rbs, NEW n
  PROVE  Backed(s, r, ins, outs, rbs, n)
BY DEF Backed, Owning, Past, Waiting

\* A call of execute.
LEMMA ExecuteKeeps ==
  ASSUME EdgeInv, NEW w \in Workers, NEW r \in Runs, Execute(w, r)
  PROVE  EdgeInv'
<1> DEFINE s == [Idle EXCEPT !.pc = "admit", !.run = r]
           b == [Idle EXCEPT !.run = r]
<1>0. Quiet
  BY DEF Execute, Quiet, stateVars, listVars
<1>1. s \in Executions /\ s.pc = "admit" /\ s.run = r /\ ~s.need /\ ~s.recorded
  BY IdleIs DEF Executions
<1>2. b \in Executions /\ b.run = r
  BY IdleIs DEF Executions
<1>3. \/ edge' = [edge EXCEPT ![w] = s]
      \/ edge' = [edge EXCEPT ![w] = Done(b, "BLOCKED_PLAN")]
  BY DEF Execute, Become
<1> HIDE DEF s, b
<1>4. CASE edge' = [edge EXCEPT ![w] = s]
  <2>1. Sensible(s)
    BY <1>1 DEF Sensible, Owning, Past
  <2>2. Backed(s, row, intents, outcomes, readbacks, writes)
    BY <1>1, EarlyIsBacked
  <2> QED BY <1>0, <1>1, <1>4, <2>1, <2>2, QuietKeeps DEF Owning, Past
<1>5. CASE edge' = [edge EXCEPT ![w] = Done(b, "BLOCKED_PLAN")]
  <2> DEFINE d == Done(b, "BLOCKED_PLAN")
  <2>1. d.pc = "done" /\ d.result = "BLOCKED_PLAN" /\ Sensible(d)
    BY <1>2, DoneIs DEF Results, Blocks
  <2> HIDE DEF d
  <2>2. Backed(d, row, intents, outcomes, readbacks, writes)
    BY <2>1, ModestResult DEF SettledResults
  <2> QED BY <1>0, <1>5, <2>1, <2>2, QuietKeeps DEF Owning, Past, d
<1> QED BY <1>3, <1>4, <1>5

\* Returns and crashes.
LEMMA ForgetKeeps ==
  ASSUME EdgeInv, NEW w \in Workers, Return(w) \/ Crash(w)
  PROVE  EdgeInv'
<1>1. Quiet /\ edge' = [edge EXCEPT ![w] = Idle]
  BY LocalIsQuiet DEF Return, Crash, Become
<1> QED BY <1>1, IdleIs, QuietKeeps DEF Owning, Past


-----------------------------------------------------------------------------
(* The local steps of an execution. *)

\* When a response needs reconciliation.
LEMMA NeedsIs ==
  ASSUME NEW s, s.kind \in Handled, s.recorded \in BOOLEAN
  PROVE  /\ NeedsReconciliation(s) \in BOOLEAN
         /\ MarksFirst(s) \in BOOLEAN
         /\ MarksFirst(s) => NeedsReconciliation(s)
         /\ s.kind \in UnclearKinds => NeedsReconciliation(s)
         /\ ~NeedsReconciliation(s) => s.recorded /\ s.kind \notin UnclearKinds
         /\ ~NeedsReconciliation(s) /\ s.kind \in {"success", "dedupe", "conflict"} =>
              s.obs = "applied"
<1>1. MarksFirst(s) \in BOOLEAN
  BY DEF MarksFirst, UnclearKinds
<1>2. CASE s.kind \in UnclearKinds
  <2>1. NeedsReconciliation(s) = TRUE
    BY <1>2 DEF NeedsReconciliation, UnclearKinds
  <2> QED BY <1>1, <1>2, <2>1 DEF UnclearKinds
<1>3. CASE s.kind \in {"precondition", "rejected"}
  <2>1. NeedsReconciliation(s) = (~s.recorded \/ s.obs = "invalid")
    BY <1>3 DEF NeedsReconciliation, UnclearKinds
  <2> QED BY <1>3, <2>1 DEF MarksFirst, UnclearKinds
<1>4. CASE s.kind \in {"conflict", "dedupe"}
  <2>1. NeedsReconciliation(s) = (~s.recorded \/ s.obs # "applied")
    BY <1>4 DEF NeedsReconciliation, UnclearKinds
  <2> QED BY <1>4, <2>1 DEF MarksFirst, UnclearKinds
<1>5. CASE s.kind = "retryable"
  <2>1. NeedsReconciliation(s) = (~s.recorded \/ s.obs \notin {"applied", "not_applied"})
    BY <1>5 DEF NeedsReconciliation, UnclearKinds
  <2> QED BY <1>5, <2>1 DEF MarksFirst, UnclearKinds
<1>6. CASE s.kind = "success"
  <2>1. NeedsReconciliation(s) = (MarksFirst(s) \/ s.obs # "applied")
    BY <1>6 DEF NeedsReconciliation, UnclearKinds
  <2> QED BY <1>1, <1>6, <2>1 DEF MarksFirst, UnclearKinds
<1> QED BY <1>2, <1>3, <1>4, <1>5, <1>6 DEF Handled, UnclearKinds

\* The state after an observation of the provider.
LEMMA ObservedIs ==
  ASSUME NEW s, Sensible(s), s.pc \in {"observe", "observeItem"}, NEW obs \in Reads
  PROVE  LET t == AfterObserve(s, obs)
         IN /\ Sensible(t) /\ t.pc \in {"require", "readback"} /\ t.obs = obs
            /\ t.gen = s.gen /\ t.kind = s.kind /\ t.run = s.run /\ t.item = s.item
            /\ t.recorded = s.recorded /\ t.persisted = s.persisted
            /\ t.pc = "require" => t.place = "after"
            /\ s.need => t.need
            /\ t.pc = "readback" /\ t.need => s.need /\ s.pc = "observe"
<1> DEFINE o == [s EXCEPT !.obs = obs]
           n == [o EXCEPT !.need = NeedsReconciliation(o)]
           t == AfterObserve(s, obs)
<1>0. /\ s \in Executions /\ s.kind \in Handled /\ s.recorded \in BOOLEAN /\ s.run \in Runs
      /\ s.gen \in Generations
  BY DEF Sensible, Executions, Past, Owning
<1>1. /\ o \in Executions /\ o.obs = obs /\ o.pc = s.pc /\ o.run = s.run /\ o.gen = s.gen
      /\ o.kind = s.kind /\ o.item = s.item /\ o.recorded = s.recorded
      /\ o.persisted = s.persisted /\ o.need = s.need
  BY <1>0 DEF Executions
<1> HIDE DEF o
<1>2. MarksFirst(o) = MarksFirst(s)
  BY <1>1 DEF MarksFirst
<1>3. /\ NeedsReconciliation(o) \in BOOLEAN /\ MarksFirst(o) \in BOOLEAN
      /\ MarksFirst(o) => NeedsReconciliation(o)
      /\ o.kind \in UnclearKinds => NeedsReconciliation(o)
  BY <1>0, <1>1, NeedsIs
<1>4. /\ n \in Executions /\ n.obs = obs /\ n.pc = s.pc /\ n.run = s.run /\ n.gen = s.gen
      /\ n.kind = s.kind /\ n.item = s.item /\ n.recorded = s.recorded
      /\ n.persisted = s.persisted /\ n.need = NeedsReconciliation(o)
  BY <1>1, <1>3 DEF Executions
<1>5. t = IF MarksAfter(o) THEN [n EXCEPT !.pc = "require", !.place = "after"]
          ELSE [n EXCEPT !.pc = "readback"]
  BY DEF AfterObserve, o
<1> HIDE DEF n
<1>6. /\ t \in Executions /\ t.obs = obs /\ t.run = s.run /\ t.gen = s.gen
      /\ t.kind = s.kind /\ t.item = s.item /\ t.recorded = s.recorded
      /\ t.persisted = s.persisted /\ t.need = NeedsReconciliation(o)
      /\ t.pc = IF MarksAfter(o) THEN "require" ELSE "readback"
      /\ MarksAfter(o) => t.place = "after"
  <2>1. CASE MarksAfter(o)
    <3>1. t = [n EXCEPT !.pc = "require", !.place = "after"]
      BY <1>5, <2>1
    <3> HIDE DEF t
    <3> QED BY <1>4, <2>1, <3>1 DEF Executions, Owning, Past
  <2>2. CASE ~MarksAfter(o)
    <3>1. t = [n EXCEPT !.pc = "readback"]
      BY <1>5, <2>2
    <3> HIDE DEF t
    <3> QED BY <1>4, <2>2, <3>1 DEF Executions, Owning, Past
  <2> QED BY <2>1, <2>2
<1> HIDE DEF t
<1>7. NeedsReconciliation(t) = NeedsReconciliation(o)
  BY <1>1, <1>6 DEF NeedsReconciliation, MarksFirst
<1>8. MarksAfter(o) => NeedsReconciliation(o)
  BY DEF MarksAfter
<1>9. Sensible(t)
  <2>1. t.pc \in {"require", "readback"} /\ (t.pc = "require" => t.need /\ t.place = "after")
    BY <1>6, <1>8
  <2>2. t.kind \in UnclearKinds => t.need
    BY <1>1, <1>3, <1>6
  <2>3. ~t.need => ~NeedsReconciliation(t)
    BY <1>6, <1>7
  <2> QED BY <1>0, <1>6, <2>1, <2>2, <2>3 DEF Sensible, Owning, Past
<1>10. s.need => t.need
  <2>1. s.need => MarksFirst(s)
    BY DEF Sensible
  <2> QED BY <1>2, <1>3, <1>6, <2>1
<1>11. ASSUME t.pc = "readback", t.need PROVE s.need /\ s.pc = "observe"
  <2>1. ~MarksAfter(o) /\ NeedsReconciliation(o)
    BY <1>6, <1>11
  <2>2. s.kind \in UnclearKinds \/ (s.kind = "success" /\ MarksFirst(s))
    BY <1>1, <1>2, <2>1 DEF MarksAfter
  <2>3. s.pc = "observe"
    BY <2>2 DEF Sensible, UnclearKinds
  <2>4. MarksFirst(s)
    BY <2>2 DEF MarksFirst
  <2> QED BY <2>3, <2>4 DEF Sensible
<1> QED BY <1>6, <1>9, <1>10, <1>11 DEF t


\* What the invariant says of one execution.
LEMMA ExecutionIs ==
  ASSUME EdgeInv, NEW w \in Workers
  PROVE  /\ edge[w] \in Executions /\ Sensible(edge[w])
         /\ Backed(edge[w], row, intents, outcomes, readbacks, writes)
         /\ edge[w].pc # "idle" => edge[w].run \in Runs
BY DEF EdgeInv, EdgeTypeOK, ExecutionsAreSound, Sensible

\* The first state read.
LEMMA AdmitKeeps ==
  ASSUME EdgeInv, NEW w \in Workers, Admit(w)
  PROVE  EdgeInv'
<1> DEFINE s == edge[w]
           next == IF method = "POST" THEN "dedupe" ELSE "freshness"
           t == [s EXCEPT !.seen = row.generation, !.prior = row.run, !.pc = next]
<1>0. Quiet /\ s.pc = "admit"
  BY LocalIsQuiet DEF Admit
<1>1. s \in Executions /\ Sensible(s) /\ s.run \in Runs
  BY <1>0, ExecutionIs
<1>2. row \in Row
  BY RowNumbers DEF EdgeInv
<1>3. CASE Become(w, Done(s, "BLOCKED_RECONCILIATION_STATE"))
  BY <1>0, <1>3, GivesUp DEF Blocks
<1>4. CASE Refusal(s) # "none" /\ Become(w, Done(s, Refusal(s)))
  <2>1. Refusal(s) \in Blocks
    BY <1>4 DEF Refusal, Blocks
  <2> QED BY <1>0, <1>4, <2>1, GivesUp
<1>5. CASE edge' = [edge EXCEPT ![w] = t]
  <2>1. next \in {"dedupe", "freshness"}
    OBVIOUS
  <2> HIDE DEF next
  <2>a. row.generation \in 0 .. MaxGeneration /\ row.run \in Runs \cup {None}
    BY <1>2 DEF Row
  <2>b. t \in Executions
    BY <1>1, <2>1, <2>a DEF Executions
  <2>c. t.pc = next /\ t.run = s.run /\ t.need = s.need /\ t.recorded = s.recorded
    BY <1>1 DEF Executions
  <2>2. /\ t \in Executions /\ t.pc = next /\ t.run = s.run
        /\ t.need = s.need /\ t.recorded = s.recorded
    BY <2>b, <2>c
  <2> HIDE DEF t
  <2>3. ~t.need /\ ~t.recorded
    BY <1>0, <1>1, <2>2 DEF Sensible
  <2>4. Sensible(t)
    BY <1>1, <2>1, <2>2, <2>3 DEF Sensible, Owning, Past
  <2>5. Backed(t, row, intents, outcomes, readbacks, writes)
    BY <2>1, <2>2, EarlyIsBacked
  <2> QED BY <1>0, <1>5, <2>1, <2>2, <2>4, <2>5, QuietKeeps DEF Owning, Past
<1> QED BY <1>3, <1>4, <1>5 DEF Admit, Become

\* The plan of a generation is made.
LEMMA PlanKeeps ==
  ASSUME EdgeInv, NEW w \in Workers, edge[w].pc \in {"dedupe", "freshness"}, Quiet, NEW t,
         edge' = [edge EXCEPT ![w] = t], t \in Executions, t.pc = "intent",
         t.gen = t.seen + 1, t.kind \in PlanKinds, t.run = edge[w].run,
         t.need = edge[w].need, t.recorded = edge[w].recorded
  PROVE  EdgeInv'
<1>1. Sensible(edge[w]) /\ t.run \in Runs
  BY ExecutionIs
<1>2. ~t.need /\ ~t.recorded
  BY <1>1 DEF Sensible
<1>3. Sensible(t)
  BY <1>1, <1>2 DEF Sensible, Owning, Past
<1>4. Backed(t, row, intents, outcomes, readbacks, writes)
  BY EarlyIsBacked
<1> QED BY <1>3, <1>4, QuietKeeps DEF Owning, Past

\* The list as the requests see it.
LEMMA ListIs ==
  ASSUME EdgeInv
  PROVE  /\ CollectionObservations \subseteq Reads
         /\ \A i : ItemObservations(i) \subseteq Reads
         /\ \A i \in LiveItems : i \in Nat /\ i \in 1 .. Len(items) /\ items[i].etag \in Nat
<1>1. items \in Seq(ListItem)
  BY DEF EdgeInv, EdgeTypeOK, ListOK
<1>2. CollectionObservations \subseteq Reads
  BY DEF CollectionObservations, CollectionState, Reads
<1>3. \A i : ItemObservations(i) \subseteq Reads
  BY DEF ItemObservations, ItemState, Reads
<1>4. \A i \in LiveItems : i \in Nat /\ i \in 1 .. Len(items) /\ items[i].etag \in Nat
  <2>1. DOMAIN items = 1 .. Len(items) /\ Len(items) \in Nat
    BY <1>1
  <2>2. \A i \in DOMAIN items :
          items[i] \in ListItem
    BY <1>1, <2>1
  <2> QED BY <2>1, <2>2 DEF LiveItems, ListItem
<1> QED BY <1>2, <1>3, <1>4

\* The dedupe read.
LEMMA DedupeReadKeeps ==
  ASSUME EdgeInv, NEW w \in Workers, DedupeRead(w)
  PROVE  EdgeInv'
<1> DEFINE s == edge[w]
           plain == [s EXCEPT !.pc = "intent", !.gen = s.seen + 1, !.kind = "write"]
           known(i) == [s EXCEPT !.pc = "intent", !.gen = s.seen + 1, !.kind = "dedupe",
                                 !.item = i, !.etag = items[i].etag]
           torn(obs) == [s EXCEPT !.pc = "intent", !.gen = s.seen + 1, !.kind = "ambiguous",
                                  !.obs = obs]
<1>0. Quiet /\ s.pc = "dedupe" /\ s \in Executions
  BY LocalIsQuiet, ExecutionIs DEF DedupeRead
<1>1. s.seen \in Nat /\ s.seen + 1 \in Nat
  BY <1>0, MaxGenerationAssumption DEF Executions
<1>2. CASE Become(w, Done(s, "BLOCKED_PREFLIGHT_TRANSPORT"))
  BY <1>0, <1>2, GivesUp DEF Blocks
<1>3. CASE Become(w, Done(s, "BLOCKED_DEDUPE_READ"))
  BY <1>0, <1>3, GivesUp DEF Blocks
<1>4. CASE edge' = [edge EXCEPT ![w] = plain]
  <2>a. plain \in Executions
    BY <1>0, <1>1, PlanIs
  <2>b. plain.pc = "intent" /\ plain.gen = s.seen + 1 /\ plain.seen = s.seen
    BY <1>0 DEF Executions
  <2>c. /\ plain.kind = "write" /\ plain.run = s.run
        /\ plain.need = s.need /\ plain.recorded = s.recorded
    BY <1>0 DEF Executions
  <2>1. /\ plain \in Executions /\ plain.pc = "intent" /\ plain.gen = plain.seen + 1
        /\ plain.kind = "write" /\ plain.run = s.run
        /\ plain.need = s.need /\ plain.recorded = s.recorded
    BY <2>a, <2>b, <2>c
  <2> HIDE DEF plain
  <2> QED BY <1>0, <1>4, <2>1, PlanKeeps DEF PlanKinds
<1>5. ASSUME NEW i \in LiveItems, edge' = [edge EXCEPT ![w] = known(i)] PROVE EdgeInv'
  <2> DEFINE k == known(i)
  <2>0. i \in Nat /\ items[i].etag \in Nat
    BY ListIs
  <2>a. k \in Executions
    <3> DEFINE p == [s EXCEPT !.pc = "intent", !.gen = s.seen + 1, !.kind = "dedupe"]
    <3>1. p \in Executions
      BY <1>0, <1>1, PlanIs DEF Handled
    <3> DEFINE q == [p EXCEPT !.item = i]
    <3>2. k = [q EXCEPT !.etag = items[i].etag]
      OBVIOUS
    <3> HIDE DEF p, k
    <3>3. q \in Executions
      BY <2>0, <3>1, FieldKeeps
    <3> HIDE DEF q
    <3> QED BY <2>0, <3>2, <3>3, FieldKeeps
  <2>b. k.pc = "intent" /\ k.gen = s.seen + 1 /\ k.seen = s.seen /\ k.kind = "dedupe"
    BY <1>0 DEF Executions
  <2>c. k.run = s.run /\ k.need = s.need /\ k.recorded = s.recorded
    BY <1>0 DEF Executions
  <2>1. /\ k \in Executions /\ k.pc = "intent" /\ k.gen = k.seen + 1
        /\ k.kind = "dedupe" /\ k.run = s.run
        /\ k.need = s.need /\ k.recorded = s.recorded
    BY <2>a, <2>b, <2>c
  <2>2. edge' = [edge EXCEPT ![w] = k]
    BY <1>5
  <2> HIDE DEF k
  <2> QED BY <1>0, <2>1, <2>2, PlanKeeps DEF PlanKinds
<1>6. ASSUME NEW obs \in {"paged", "duplicate", "divergent"},
             edge' = [edge EXCEPT ![w] = torn(obs)]
      PROVE  EdgeInv'
  <2> DEFINE k == torn(obs)
  <2>a. k \in Executions
    <3> DEFINE p == [s EXCEPT !.pc = "intent", !.gen = s.seen + 1, !.kind = "ambiguous"]
    <3>1. p \in Executions
      BY <1>0, <1>1, PlanIs DEF Handled
    <3>2. k = [p EXCEPT !.obs = obs]
      OBVIOUS
    <3>3. obs \in Reads \cup {"none"}
      BY DEF Reads
    <3> HIDE DEF p, k
    <3> QED BY <3>1, <3>2, <3>3, FieldKeeps
  <2>b. k.pc = "intent" /\ k.gen = s.seen + 1 /\ k.seen = s.seen /\ k.kind = "ambiguous"
    BY <1>0 DEF Executions
  <2>c. k.run = s.run /\ k.need = s.need /\ k.recorded = s.recorded
    BY <1>0 DEF Executions
  <2>1. /\ k \in Executions /\ k.pc = "intent" /\ k.gen = k.seen + 1
        /\ k.kind = "ambiguous" /\ k.run = s.run
        /\ k.need = s.need /\ k.recorded = s.recorded
    BY <2>a, <2>b, <2>c
  <2>2. edge' = [edge EXCEPT ![w] = k]
    BY <1>6
  <2> HIDE DEF k
  <2> QED BY <1>0, <2>1, <2>2, PlanKeeps DEF PlanKinds
<1> QED BY <1>2, <1>3, <1>4, <1>5, <1>6 DEF DedupeRead, Become

\* The freshness read.
LEMMA FreshnessReadKeeps ==
  ASSUME EdgeInv, NEW w \in Workers, FreshnessRead(w)
  PROVE  EdgeInv'
<1> DEFINE s == edge[w]
           plain == [s EXCEPT !.pc = "intent", !.gen = s.seen + 1, !.kind = "write"]
<1>0. Quiet /\ s.pc = "freshness" /\ s \in Executions
  BY LocalIsQuiet, ExecutionIs DEF FreshnessRead
<1>1. s.seen \in Nat /\ s.seen + 1 \in Nat
  BY <1>0, MaxGenerationAssumption DEF Executions
<1>2. CASE \/ Become(w, Done(s, "BLOCKED_PREFLIGHT_TRANSPORT"))
           \/ Become(w, Done(s, "BLOCKED_FRESHNESS_READ"))
           \/ Become(w, Done(s, "BLOCKED_ETAG_DRIFT"))
  BY <1>0, <1>2, GivesUp DEF Blocks
<1>3. CASE edge' = [edge EXCEPT ![w] = plain]
  <2>a. plain \in Executions
    BY <1>0, <1>1, PlanIs
  <2>b. plain.pc = "intent" /\ plain.gen = s.seen + 1 /\ plain.seen = s.seen
    BY <1>0 DEF Executions
  <2>c. /\ plain.kind = "write" /\ plain.run = s.run
        /\ plain.need = s.need /\ plain.recorded = s.recorded
    BY <1>0 DEF Executions
  <2>1. /\ plain \in Executions /\ plain.pc = "intent" /\ plain.gen = plain.seen + 1
        /\ plain.kind = "write" /\ plain.run = s.run
        /\ plain.need = s.need /\ plain.recorded = s.recorded
    BY <2>a, <2>b, <2>c
  <2> HIDE DEF plain
  <2> QED BY <1>0, <1>3, <2>1, PlanKeeps DEF PlanKinds
<1> QED BY <1>2, <1>3 DEF FreshnessRead, Become

\* The fresh read after the intent.
LEMMA CheckIntentKeeps ==
  ASSUME EdgeInv, NEW w \in Workers, CheckIntent(w)
  PROVE  EdgeInv'
<1> DEFINE s == edge[w]
           next == IF s.kind = "write" THEN "write" ELSE "outcome"
           t == [s EXCEPT !.pc = next]
<1>0. Quiet /\ s.pc = "intentCheck" /\ s \in Executions /\ Sensible(s) /\ s.run \in Runs
      /\ Backed(s, row, intents, outcomes, readbacks, writes)
  BY LocalIsQuiet, ExecutionIs DEF CheckIntent
<1>1. CASE Become(w, Done(s, "BLOCKED_EVIDENCE"))
  BY <1>0, <1>1, GivesUp DEF Blocks
<1>2. CASE edge' = [edge EXCEPT ![w] = t]
  <2>1. /\ t \in Executions /\ t.pc = next /\ t.run = s.run /\ t.gen = s.gen /\ t.kind = s.kind
        /\ t.need = s.need /\ t.recorded = s.recorded
    BY <1>0 DEF Executions, Owning, Past
  <2>2. next \in {"write", "outcome"} /\ (next = "write" => s.kind = "write")
        /\ (next = "outcome" => s.kind \in {"dedupe", "ambiguous"})
    BY <1>0 DEF Sensible, PlanKinds
  <2> HIDE DEF t, next
  <2>3. Sensible(t)
    <3>1. ~t.need /\ ~t.recorded /\ t.gen \in Generations
      BY <1>0, <2>1 DEF Sensible, Owning
    <3> QED BY <1>0, <2>1, <2>2, <3>1 DEF Sensible, Owning, Past, Handled
  <2>4. Backed(t, row, intents, outcomes, readbacks, writes)
    <3>1. /\ \E e \in intents : e.generation = t.gen
          /\ row.intent = "open" /\ row.generation = t.gen /\ row.reconciliation = "clear"
          /\ writes[t.gen] = 0 /\ ~t.need /\ ~t.recorded
      BY <1>0, <2>1 DEF Backed, Sensible, Owning, Waiting
    <3> QED BY <2>1, <2>2, <3>1 DEF Backed, Past
  <2> QED BY <1>0, <1>2, <2>1, <2>2, <2>3, <2>4, QuietKeeps DEF Owning, Past
<1> QED BY <1>1, <1>2 DEF CheckIntent, Become


\* An execution has observed the provider.
LEMMA ObservedKeeps ==
  ASSUME EdgeInv, NEW w \in Workers, edge[w].pc \in {"observe", "observeItem"}, Quiet,
         NEW obs \in Reads, edge' = [edge EXCEPT ![w] = AfterObserve(edge[w], obs)]
  PROVE  EdgeInv'
<1> DEFINE s == edge[w]
           t == AfterObserve(s, obs)
<1>0. Sensible(s) /\ Backed(s, row, intents, outcomes, readbacks, writes)
  BY ExecutionIs
<1>1. /\ Sensible(t) /\ t.pc \in {"require", "readback"}
      /\ t.gen = s.gen /\ t.kind = s.kind /\ t.run = s.run
      /\ t.recorded = s.recorded /\ t.persisted = s.persisted
      /\ t.pc = "require" => t.place = "after"
      /\ s.need => t.need
      /\ t.pc = "readback" /\ t.need => s.need /\ s.pc = "observe"
  BY <1>0, ObservedIs
<1>2. edge' = [edge EXCEPT ![w] = t]
  OBVIOUS
<1> HIDE DEF t
<1>3. /\ \E e \in intents : e.generation = t.gen
      /\ row.intent = "open" /\ row.generation = t.gen
      /\ ~t.need => row.reconciliation = "clear"
      /\ writes[t.gen] = IF t.kind \in {"dedupe", "ambiguous"} THEN 0 ELSE 1
      /\ t.recorded => \E e \in outcomes : e.generation = t.gen /\ e.run = t.run
                                           /\ e.code = OutcomeCode[t.kind]
  BY <1>0, <1>1 DEF Backed, Waiting, Owning, Past
<1>4. t.pc = "readback" /\ t.need /\ t.persisted =>
        row.reconciliation = "required" /\ row.run = t.run
  BY <1>0, <1>1 DEF Backed
<1>5. Backed(t, row, intents, outcomes, readbacks, writes)
  BY <1>1, <1>3, <1>4 DEF Backed
<1> QED BY <1>1, <1>2, <1>5, QuietKeeps DEF Owning, Past

\* The observation of the provider.
LEMMA ObserveKeeps ==
  ASSUME EdgeInv, NEW w \in Workers, Observe(w)
  PROVE  EdgeInv'
<1> DEFINE s == edge[w]
           second(i) == [s EXCEPT !.pc = "observeItem", !.item = i, !.etag = items[i].etag]
<1>0. Quiet /\ s.pc = "observe"
  BY LocalIsQuiet DEF Observe
<1>1. ASSUME NEW obs \in Reads, Become(w, AfterObserve(s, obs)) PROVE EdgeInv'
  BY <1>0, <1>1, ObservedKeeps DEF Become
<1>2. ASSUME NEW i \in LiveItems, s.kind = "conflict", edge' = [edge EXCEPT ![w] = second(i)]
      PROVE  EdgeInv'
  <2> DEFINE t == second(i)
  <2>0. i \in Nat /\ items[i].etag \in Nat
    BY ListIs
  <2>1. /\ s \in Executions /\ Sensible(s) /\ s.run \in Runs
        /\ Backed(s, row, intents, outcomes, readbacks, writes)
    BY <1>0, ExecutionIs
  <2>a. t \in Executions
    <3> DEFINE a == [s EXCEPT !.pc = "observeItem"]
               b == [a EXCEPT !.item = i]
    <3>1. a \in Executions
      BY <2>1, FieldKeeps DEF Owning, Past
    <3>2. t = [b EXCEPT !.etag = items[i].etag]
      OBVIOUS
    <3> HIDE DEF a, t
    <3>3. b \in Executions
      BY <2>0, <3>1, FieldKeeps
    <3> HIDE DEF b
    <3> QED BY <2>0, <3>2, <3>3, FieldKeeps
  <2>b. /\ t.pc = "observeItem" /\ t.run = s.run /\ t.gen = s.gen
        /\ t.kind = s.kind /\ t.need = s.need /\ t.recorded = s.recorded
    BY <2>1 DEF Executions
  <2>2. /\ t \in Executions /\ t.pc = "observeItem" /\ t.run = s.run /\ t.gen = s.gen
        /\ t.kind = s.kind /\ t.need = s.need /\ t.recorded = s.recorded
    BY <2>a, <2>b
  <2>3. edge' = [edge EXCEPT ![w] = t]
    BY <1>2
  <2> HIDE DEF t
  <2>4. ~t.need /\ t.gen \in Generations
    BY <1>0, <1>2, <2>1, <2>2 DEF Sensible, MarksFirst, UnclearKinds, Owning, Past
  <2>5. Sensible(t)
    BY <1>2, <2>1, <2>2, <2>4 DEF Sensible, Owning, Past, UnclearKinds, Handled
  <2>6. Backed(t, row, intents, outcomes, readbacks, writes)
    <3>1. /\ \E e \in intents : e.generation = t.gen
          /\ row.intent = "open" /\ row.generation = t.gen /\ row.reconciliation = "clear"
          /\ writes[t.gen] = IF t.kind \in {"dedupe", "ambiguous"} THEN 0 ELSE 1
          /\ t.recorded => \E e \in outcomes : e.generation = t.gen /\ e.run = t.run
                                               /\ e.code = OutcomeCode[t.kind]
      BY <1>0, <2>1, <2>2, <2>4 DEF Backed, Waiting, Owning, Past
    <3> QED BY <2>2, <2>4, <3>1 DEF Backed
  <2> QED BY <1>0, <2>2, <2>3, <2>5, <2>6, QuietKeeps DEF Owning, Past
<1>3. SameItemObservations(s) \subseteq Reads /\ "invalid" \in Reads
  BY ListIs DEF SameItemObservations, Reads
<1>4. CASE \E obs \in SameItemObservations(s) : Become(w, AfterObserve(s, obs))
  BY <1>1, <1>3, <1>4
<1>5. CASE Become(w, AfterObserve(s, "invalid"))
  BY <1>1, <1>3, <1>5
<1>6. CASE \E obs \in IF s.item = 0 THEN CollectionObservations ELSE ItemObservations(s.item) :
             Become(w, AfterObserve(s, obs))
  BY <1>1, <1>6, ListIs
<1>7. CASE s.kind = "conflict" /\ \E i \in LiveItems : Become(w, second(i))
  BY <1>2, <1>7 DEF Become
<1> QED BY <1>4, <1>5, <1>6, <1>7 DEF Observe

\* The second read of a conflict.
LEMMA ObserveItemKeeps ==
  ASSUME EdgeInv, NEW w \in Workers, ObserveItem(w)
  PROVE  EdgeInv'
<1>1. Quiet /\ edge[w].pc = "observeItem"
  BY LocalIsQuiet DEF ObserveItem
<1>2. SameItemObservations(edge[w]) \subseteq Reads
  BY ListIs DEF SameItemObservations, Reads
<1> QED BY <1>1, <1>2, ObservedKeeps DEF ObserveItem, Become


\* What is reported to the caller.
LEMMA ReportIs ==
  ASSUME NEW s, s.kind \in Handled, s.need \in BOOLEAN, s.persisted \in BOOLEAN
  PROVE  /\ s.need => Report(s) = IF s.persisted THEN "RECONCILIATION_REQUIRED"
                                  ELSE "RECONCILIATION_PERSISTENCE_FAILED"
         /\ ~s.need /\ s.kind \notin UnclearKinds => Report(s) \in SettledResults
         /\ ~s.need /\ s.kind \in {"success", "dedupe", "conflict"} =>
              Report(s) \in AppliedResults
         /\ ~s.need /\ s.kind \in {"precondition", "retryable", "rejected"} =>
              (Report(s) \in AppliedResults <=> s.obs = "applied")
<1>1. CASE s.need
  <2>1. CASE s.persisted
    BY <1>1, <2>1 DEF Report
  <2>2. CASE ~s.persisted
    BY <1>1, <2>2 DEF Report
  <2> QED BY <1>1, <2>1, <2>2
<1>2. CASE ~s.need /\ s.kind = "success"
  <2>1. Report(s) = "APPLIED"
    BY <1>2 DEF Report
  <2> QED BY <1>2, <2>1 DEF SettledResults, AppliedResults
<1>3. CASE ~s.need /\ s.kind \in {"dedupe", "conflict"}
  <2>1. Report(s) = "DEDUPLICATED"
    BY <1>3 DEF Report
  <2> QED BY <1>3, <2>1 DEF SettledResults, AppliedResults
<1>4. CASE ~s.need /\ s.kind = "precondition"
  <2>1. Report(s) = IF s.obs = "applied" THEN "PRECONDITION_FAILED_ALREADY_APPLIED"
                    ELSE "PRECONDITION_FAILED"
    BY <1>4 DEF Report
  <2> QED BY <1>4, <2>1 DEF SettledResults, AppliedResults
<1>5. CASE ~s.need /\ s.kind = "retryable"
  <2>1. Report(s) = IF s.obs = "applied" THEN "RETRYABLE_RESPONSE_STATE_ALREADY_APPLIED"
                    ELSE "RETRYABLE_NOT_APPLIED"
    BY <1>5 DEF Report
  <2> QED BY <1>5, <2>1 DEF SettledResults, AppliedResults
<1>6. CASE ~s.need /\ s.kind = "rejected"
  <2>1. Report(s) = IF s.obs = "applied" THEN "WRITE_REJECTED_STATE_ALREADY_APPLIED"
                    ELSE "WRITE_REJECTED"
    BY <1>6 DEF Report
  <2> QED BY <1>6, <2>1 DEF SettledResults, AppliedResults
<1>7. CASE ~s.need /\ s.kind \in UnclearKinds
  BY <1>7 DEF UnclearKinds
<1> QED BY <1>1, <1>2, <1>3, <1>4, <1>5, <1>6, <1>7 DEF Handled, UnclearKinds

\* An execution ends with the report of an unresolved response.
LEMMA UnresolvedIs ==
  ASSUME NEW s \in Executions, s.kind \in Handled, s.run \in Runs, s.need,
         NEW r, NEW ins, NEW outs, NEW rbs, NEW n,
         s.persisted => r.reconciliation = "required" /\ r.generation = s.gen /\ r.run = s.run
  PROVE  LET d == Done(s, Report(s))
         IN Sensible(d) /\ d.pc = "done" /\ Backed(d, r, ins, outs, rbs, n)
<1> DEFINE d == Done(s, Report(s))
<1>0. s.need \in BOOLEAN /\ s.persisted \in BOOLEAN
  BY DEF Executions
<1>1. Report(s) = IF s.persisted THEN "RECONCILIATION_REQUIRED"
                  ELSE "RECONCILIATION_PERSISTENCE_FAILED"
  BY <1>0, ReportIs
<1>2. Report(s) \in Results
  BY <1>1 DEF Results
<1>3. Sensible(d) /\ d.pc = "done" /\ d.run = s.run /\ d.gen = s.gen /\ d.result = Report(s)
  BY <1>2, DoneIs
<1> HIDE DEF d
<1>4. d.result \notin SettledResults /\ (d.result = "RECONCILIATION_REQUIRED" => s.persisted)
  BY <1>1, <1>3 DEF SettledResults
<1>5. Backed(d, r, ins, outs, rbs, n)
  BY <1>3, <1>4 DEF Backed, Owning, Past, Waiting
<1> QED BY <1>3, <1>5 DEF d

\* The state after the marker was, or was not, persisted.
LEMMA RequiredIs ==
  ASSUME NEW s, Sensible(s), s.pc \in {"require", "requireCheck"}, NEW ok \in BOOLEAN,
         NEW r, NEW ins, NEW outs, NEW rbs, NEW n, Backed(s, r, ins, outs, rbs, n),
         ok => r.reconciliation = "required" /\ r.generation = s.gen /\ r.run = s.run
  PROVE  LET t == AfterRequire(s, ok)
         IN /\ Sensible(t) /\ t.pc \in {"observe", "readback", "done"}
            /\ t.gen = s.gen /\ t.kind = s.kind
            /\ Backed(t, r, ins, outs, rbs, n)
<1> DEFINE t == AfterRequire(s, ok)
           p == [s EXCEPT !.persisted = ok]
<1>0. /\ s \in Executions /\ s.kind \in Handled /\ s.run \in Runs /\ s.need
      /\ s.gen \in Generations /\ s.place \in {"before", "after", "final"}
      /\ s.place = "before" => MarksFirst(s)
  BY DEF Sensible, Owning, Past
<1>1. /\ p \in Executions /\ p.run = s.run /\ p.gen = s.gen /\ p.kind = s.kind
      /\ p.need = s.need /\ p.recorded = s.recorded /\ p.item = s.item /\ p.persisted = ok
  BY <1>0 DEF Executions
<1>2. /\ s.place = "final" => t = Done(p, Report(p))
      /\ s.place = "after" => t = [p EXCEPT !.pc = "readback"]
      /\ s.place = "before" /\ s.kind = "ambiguous" => t = [p EXCEPT !.pc = "readback"]
      /\ s.place = "before" /\ s.kind # "ambiguous" => t = [p EXCEPT !.pc = "observe"]
  BY DEF AfterRequire
<1> HIDE DEF p
<1>3. CASE s.place = "final"
  <2> DEFINE d == Done(p, Report(p))
  <2>1. d.gen = p.gen /\ d.kind = p.kind
    BY IdleIs DEF Done, Executions
  <2>2. Sensible(d) /\ d.pc = "done" /\ Backed(d, r, ins, outs, rbs, n)
    BY <1>0, <1>1, UnresolvedIs
  <2> QED BY <1>1, <1>2, <1>3, <2>1, <2>2
<1>4. ASSUME s.place # "final", NEW pc \in {"readback", "observe"}, t = [p EXCEPT !.pc = pc],
             pc = "observe" => s.place = "before"
      PROVE  /\ Sensible(t) /\ t.pc \in {"observe", "readback", "done"}
             /\ t.gen = s.gen /\ t.kind = s.kind
             /\ Backed(t, r, ins, outs, rbs, n)
  <2> HIDE DEF t
  <2>1. /\ t \in Executions /\ t.run = s.run /\ t.gen = s.gen /\ t.kind = s.kind /\ t.pc = pc
        /\ t.need = s.need /\ t.recorded = s.recorded /\ t.item = s.item /\ t.persisted = ok
    BY <1>1, <1>4 DEF Executions, Owning, Past
  <2>2. MarksFirst(t) = MarksFirst(s)
    BY <2>1 DEF MarksFirst
  <2>3. Sensible(t)
    BY <1>0, <1>4, <2>1, <2>2 DEF Sensible, Owning, Past
  <2>4. /\ \E e \in ins : e.generation = t.gen
        /\ r.intent = "open" /\ r.generation = t.gen
        /\ n[t.gen] = IF t.kind \in {"dedupe", "ambiguous"} THEN 0 ELSE 1
        /\ t.recorded => \E e \in outs : e.generation = t.gen /\ e.run = t.run
                                         /\ e.code = OutcomeCode[t.kind]
    BY <1>4, <2>1 DEF Backed, Waiting, Owning, Past
  <2>5. Backed(t, r, ins, outs, rbs, n)
    BY <1>0, <2>1, <2>4 DEF Backed
  <2> QED BY <2>1, <2>3, <2>5
<1>5. CASE s.place = "after"
  BY <1>2, <1>4, <1>5
<1>6. CASE s.place = "before"
  BY <1>2, <1>4, <1>6
<1> QED BY <1>0, <1>3, <1>5, <1>6

\* The fresh read after the marker.
LEMMA CheckRequireKeeps ==
  ASSUME EdgeInv, NEW w \in Workers, CheckRequire(w)
  PROVE  EdgeInv'
<1> DEFINE s == edge[w]
<1>0. /\ Quiet /\ s.pc = "requireCheck" /\ Sensible(s)
      /\ Backed(s, row, intents, outcomes, readbacks, writes)
  BY LocalIsQuiet, ExecutionIs DEF CheckRequire
<1>1. PICK ok \in BOOLEAN :
        /\ edge' = [edge EXCEPT ![w] = AfterRequire(s, ok)]
        /\ ok => row.reconciliation = "required" /\ row.generation = s.gen /\ row.run = s.run
  BY DEF CheckRequire, Become
<1> DEFINE t == AfterRequire(s, ok)
<1>2. /\ Sensible(t) /\ t.pc \in {"observe", "readback", "done"}
      /\ t.gen = s.gen /\ t.kind = s.kind
      /\ Backed(t, row, intents, outcomes, readbacks, writes)
  BY <1>0, <1>1, RequiredIs
<1> HIDE DEF t
<1> QED BY <1>0, <1>1, <1>2, QuietKeeps DEF Owning, Past, t

\* The readback was not confirmed.
LEMMA FailedIs ==
  ASSUME NEW s, Sensible(s), s.pc \in {"readback", "readbackCheck"},
         NEW r, NEW ins, NEW outs, NEW rbs, NEW n, s.gen \in Generations,
         \E e \in ins : e.generation = s.gen,
         n[s.gen] = IF s.kind \in {"dedupe", "ambiguous"} THEN 0 ELSE 1,
         s.recorded => \E e \in outs : e.generation = s.gen /\ e.run = s.run
                                       /\ e.code = OutcomeCode[s.kind],
         s.need /\ s.persisted =>
           r.reconciliation = "required" /\ r.generation = s.gen /\ r.run = s.run
  PROVE  LET t == ReadbackFailed(s)
         IN /\ Sensible(t) /\ t.pc \in {"require", "done"}
            /\ t.gen = s.gen /\ t.kind = s.kind
            /\ Backed(t, r, ins, outs, rbs, n)
<1> DEFINE t == ReadbackFailed(s)
<1>0. s \in Executions /\ s.kind \in Handled /\ s.run \in Runs
  BY DEF Sensible, Owning, Past
<1>1. CASE s.need
  <2> DEFINE d == Done(s, Report(s))
  <2>1. d.gen = s.gen /\ d.kind = s.kind
    BY IdleIs DEF Done, Executions
  <2>2. Sensible(d) /\ d.pc = "done" /\ Backed(d, r, ins, outs, rbs, n)
    BY <1>0, <1>1, UnresolvedIs
  <2>3. t = d
    BY <1>1 DEF ReadbackFailed
  <2> QED BY <2>1, <2>2, <2>3
<1>2. CASE ~s.need
  <2>1. t = [s EXCEPT !.need = TRUE, !.pc = "require", !.place = "final"]
    BY <1>2 DEF ReadbackFailed
  <2> HIDE DEF t
  <2>2. /\ t \in Executions /\ t.run = s.run /\ t.gen = s.gen /\ t.kind = s.kind
        /\ t.pc = "require" /\ t.need /\ t.place = "final" /\ t.recorded = s.recorded
    BY <1>0, <2>1 DEF Executions, Owning, Past
  <2>3. Sensible(t)
    BY <1>0, <2>2 DEF Sensible, Owning, Past
  <2>4. Backed(t, r, ins, outs, rbs, n)
    BY <2>2 DEF Backed, Waiting
  <2> QED BY <2>2, <2>3, <2>4 DEF t
<1> QED BY <1>1, <1>2


\* An execution ends with a settled result.
LEMMA SettledIs ==
  ASSUME NEW s, Sensible(s), s.pc = "readbackCheck", ~s.need,
         NEW r, NEW ins, NEW outs, NEW rbs, NEW n, Backed(s, r, ins, outs, rbs, n),
         s.gen <= r.closed
  PROVE  LET d == Done(s, Report(s))
         IN /\ Sensible(d) /\ d.pc = "done" /\ Backed(d, r, ins, outs, rbs, n)
            /\ d.gen = s.gen /\ d.kind = s.kind
<1> DEFINE d == Done(s, Report(s))
<1>0. /\ s \in Executions /\ s.kind \in Handled /\ s.run \in Runs /\ s.gen \in Generations
      /\ ~NeedsReconciliation(s)
      /\ s.need \in BOOLEAN /\ s.persisted \in BOOLEAN /\ s.recorded \in BOOLEAN
  BY DEF Sensible, Owning, Past, Executions
<1>1. /\ s.recorded /\ s.kind \notin UnclearKinds
      /\ s.kind \in {"success", "dedupe", "conflict"} => s.obs = "applied"
  BY <1>0, NeedsIs
<1>2. Report(s) \in SettledResults /\ Report(s) # "RECONCILIATION_REQUIRED"
  BY <1>0, <1>1, ReportIs DEF SettledResults
<1>3. Report(s) \in AppliedResults <=> s.obs = "applied"
  <2>1. CASE s.kind \in {"success", "dedupe", "conflict"}
    BY <1>0, <1>1, <2>1, ReportIs
  <2>2. CASE s.kind \in {"precondition", "retryable", "rejected"}
    BY <1>0, <1>1, <2>2, ReportIs
  <2> QED BY <1>0, <1>1, <2>1, <2>2 DEF Handled, UnclearKinds
<1>4. /\ Sensible(d) /\ d.pc = "done" /\ d.run = s.run /\ d.gen = s.gen /\ d.kind = s.kind
      /\ d.result = Report(s)
  BY <1>0, <1>2, DoneIs DEF Results
<1> HIDE DEF d
<1>5. /\ \E e \in outs : e.generation = d.gen /\ e.run = d.run /\ e.code = OutcomeCode[d.kind]
      /\ n[d.gen] = IF d.kind = "dedupe" THEN 0 ELSE 1
  BY <1>0, <1>1, <1>4 DEF Backed, Past, UnclearKinds
<1>6. PICK e \in rbs : /\ e.generation = s.gen /\ e.run = s.run /\ e.close
                       /\ e.code = ReadbackCode(s.obs)
  BY DEF Backed
<1>7. e.code = IF d.result \in AppliedResults THEN "verified_applied" ELSE "verified_not_applied"
  <2>1. s.obs \in {"applied", "not_applied"}
    BY DEF Backed
  <2> QED BY <1>3, <1>4, <1>6, <2>1 DEF ReadbackCode
<1>8. Backed(d, r, ins, outs, rbs, n)
  <2>1. \E f \in rbs : /\ f.generation = d.gen /\ f.run = d.run /\ f.close
                       /\ f.code = IF d.result \in AppliedResults THEN "verified_applied"
                                   ELSE "verified_not_applied"
    BY <1>4, <1>6, <1>7
  <2> QED BY <1>0, <1>2, <1>4, <1>5, <2>1 DEF Backed, Owning, Past, Waiting
<1> QED BY <1>4, <1>8 DEF d

\* The fresh read after the readback.
LEMMA CheckReadbackKeeps ==
  ASSUME EdgeInv, NEW w \in Workers, CheckReadback(w)
  PROVE  EdgeInv'
<1> DEFINE s == edge[w]
<1>0. /\ Quiet /\ s.pc = "readbackCheck" /\ Sensible(s) /\ s \in Executions /\ s.run \in Runs
      /\ Backed(s, row, intents, outcomes, readbacks, writes)
  BY LocalIsQuiet, ExecutionIs DEF CheckReadback
<1>1. s.gen \in Generations /\ s.kind \in Handled
  BY <1>0 DEF Sensible, Owning, Past
<1>2. CASE edge' = [edge EXCEPT ![w] = ReadbackFailed(s)]
  <2> DEFINE t == ReadbackFailed(s)
  <2>1. /\ Sensible(t) /\ t.pc \in {"require", "done"}
        /\ t.gen = s.gen /\ t.kind = s.kind
        /\ Backed(t, row, intents, outcomes, readbacks, writes)
    <3>1. /\ \E e \in intents : e.generation = s.gen
          /\ writes[s.gen] = IF s.kind \in {"dedupe", "ambiguous"} THEN 0 ELSE 1
          /\ s.recorded => \E e \in outcomes : e.generation = s.gen /\ e.run = s.run
                                               /\ e.code = OutcomeCode[s.kind]
          /\ s.need /\ s.persisted =>
               row.reconciliation = "required" /\ row.generation = s.gen /\ row.run = s.run
      BY <1>0 DEF Backed, Owning, Past
    <3> QED BY <1>0, <1>1, <3>1, FailedIs
  <2> HIDE DEF t
  <2> QED BY <1>0, <1>2, <2>1, QuietKeeps DEF Owning, Past, t
<1>3. CASE ReadbackIsDurable(s) /\ edge' = [edge EXCEPT ![w] = Done(s, Report(s))]
  <2> DEFINE d == Done(s, Report(s))
  <2>1. Sensible(d) /\ d.pc = "done" /\ Backed(d, row, intents, outcomes, readbacks, writes)
    <3>1. CASE s.need
      <4>1. s.persisted =>
              row.reconciliation = "required" /\ row.generation = s.gen /\ row.run = s.run
        BY <1>0, <3>1 DEF Backed
      <4> QED BY <1>0, <1>1, <3>1, <4>1, UnresolvedIs
    <3>2. CASE ~s.need
      <4>1. row.closed = s.gen /\ s.gen \in Nat
        BY <1>0, <1>3, <3>2 DEF ReadbackIsDurable, Executions
      <4>2. s.gen <= row.closed
        BY <4>1
      <4> QED BY <1>0, <3>2, <4>2, SettledIs
    <3> QED BY <3>1, <3>2
  <2> HIDE DEF d
  <2> QED BY <1>0, <1>3, <2>1, QuietKeeps DEF Owning, Past, d
<1> QED BY <1>2, <1>3 DEF CheckReadback, Become


-----------------------------------------------------------------------------
(* The hook calls of an execution. *)

\* Transactions only append events, never move the closure back and leave a row
\* that requires reconciliation alone.
LEMMA TablesGrow ==
  ASSUME StateInv, StateNext
  PROVE  /\ intents \subseteq intents' /\ outcomes \subseteq outcomes' /\ readbacks \subseteq readbacks'
         /\ row.closed <= row'.closed
         /\ row.reconciliation = "required" => row' = row
<1>0. row \in Row /\ row.closed \in Nat /\ row.generation \in Nat
  BY RowNumbers
<1>1. ASSUME NEW e \in IntentEvidence, Intent(e)
      PROVE  row.closed <= row'.closed /\ row.reconciliation # "required"
  <2>1. CASE OpenFirst(e)
    <3>1. row.closed = 0 /\ row'.closed = 0 /\ row.reconciliation # "required"
      BY <1>0, <2>1 DEF OpenFirst, StateInv, RowShape
    <3> QED BY <3>1
  <2>2. CASE OpenRetry(e)
    <3>1. row'.closed = row.closed /\ row.reconciliation # "required"
      BY <1>0, <2>2 DEF OpenRetry, Row
    <3> QED BY <1>0, <3>1
  <2> QED BY <1>1, <2>1, <2>2 DEF Intent
<1>2. ASSUME NEW e \in ReadbackEvidence, Readback(e)
      PROVE  row.closed <= row'.closed /\ (row.reconciliation = "required" => row' = row)
  <2>1. CASE CloseIntent(e)
    <3>1. row'.closed = row.generation /\ row.closed < row.generation /\ row.reconciliation = "clear"
      BY <1>0, <2>1 DEF CloseIntent, MatchesOpenState, Row
    <3> QED BY <1>0, <3>1
  <2>2. CASE ObserveOnly(e)
    BY <1>0, <2>2 DEF ObserveOnly
  <2> QED BY <1>2, <2>1, <2>2 DEF Readback
<1>3. ASSUME NEW e \in ReasonEvidence, RequireReconciliation(e)
      PROVE  row.closed <= row'.closed /\ row.reconciliation # "required"
  <2>1. row'.closed = row.closed /\ row.reconciliation = "clear"
    BY <1>0, <1>3 DEF RequireReconciliation, MatchesOpenState, Row
  <2> QED BY <1>0, <2>1
<1>4. ASSUME NEW e \in OutcomeEvidence, Outcome(e)
      PROVE  row.closed <= row'.closed /\ row' = row
  BY <1>0, <1>4 DEF Outcome
<1>5. /\ intents \subseteq intents' /\ outcomes \subseteq outcomes' /\ readbacks \subseteq readbacks'
  BY DEF StateNext, Intent, Outcome, RequireReconciliation, Readback
<1> QED BY <1>1, <1>2, <1>3, <1>4, <1>5 DEF StateNext

\* A committed transaction of an execution keeps the invariant.
LEMMA CommitKeeps ==
  ASSUME EdgeInv, NEW w \in Workers, NEW s, edge' = [edge EXCEPT ![w] = s], StateNext,
         UNCHANGED listVars,
         row.intent = "open" /\ ~(edge[w].pc \in Owning /\ row.generation = edge[w].gen) =>
           row' = row,
         Sensible(s), Backed(s, row', intents', outcomes', readbacks', writes),
         s.pc \in Owning => \/ edge[w].pc \in Owning /\ s.gen = edge[w].gen
                            \/ NoEvent(intents, s.gen),
         \A g \in pending : row'.generation = g /\ row'.intent = "open" /\ Travelling(g, s)
  PROVE  EdgeInv'
<1>0. StateInv /\ StateInv'
  BY NextPreservesInv DEF EdgeInv
<1>1. writes' = writes /\ items' = items /\ pending' = pending /\ method' = method
  BY DEF listVars
<1>2. /\ intents \subseteq intents' /\ outcomes \subseteq outcomes' /\ readbacks \subseteq readbacks'
      /\ row.closed <= row'.closed
      /\ row.reconciliation = "required" => row' = row
  BY <1>0, TablesGrow
<1>3. Leaves(edge[w])
  BY <1>1, <1>2 DEF Leaves
<1>4. WriteAheadIntent'
  BY <1>1, <1>2 DEF WriteAheadIntent, EdgeInv
<1>5. writes' \in [Generations -> Nat] /\ ListOK'
  BY <1>1 DEF EdgeInv, EdgeTypeOK, ListOK
<1>6. \A g \in pending' : /\ g \in pending /\ g \in Generations
                          /\ row'.generation = g /\ row'.intent = "open"
                          /\ writes'[g] = 1 /\ Travelling(g, s)
  BY <1>1 DEF EdgeInv, PendingIsUnclear
<1>7. Backed(s, row', intents', outcomes', readbacks', writes')
  BY <1>1
<1> QED BY <1>0, <1>3, <1>4, <1>5, <1>6, <1>7, StepKeeps

\* The three ways a hook call ends.
LEMMA CallEnds ==
  ASSUME NEW w, NEW ACTION Transaction, NEW yes, NEW no, HookCall(w, Transaction, yes, no)
  PROVE  /\ \/ Transaction /\ edge' = [edge EXCEPT ![w] = yes]
            \/ Transaction /\ edge' = [edge EXCEPT ![w] = no]
            \/ Quiet /\ edge' = [edge EXCEPT ![w] = no]
         /\ UNCHANGED listVars
BY DEF HookCall, Become, Quiet, stateVars, listVars

\* What a hook call attaches to its generation is acceptable evidence.
LEMMA EventIs ==
  ASSUME NEW s, s.gen \in Generations, s.run \in Runs
  PROVE  /\ \A code \in OutcomeCodes : EventOf(s, code) \in OutcomeEvidence
         /\ \A code \in ReasonCodes : EventOf(s, code) \in ReasonEvidence
         /\ \A code : /\ EventOf(s, code).generation = s.gen /\ EventOf(s, code).run = s.run
                      /\ EventOf(s, code).code = code
BY BindingAssumption DEF EventOf, OutcomeEvidence, ReasonEvidence

\* The codes of the outcomes.
LEMMA CodeIs == \A kind \in Handled : OutcomeCode[kind] \in OutcomeCodes
BY CodeAssumption DEF OutcomeCode, Handled

\* The intent is recorded.
LEMMA RecordIntentKeeps ==
  ASSUME EdgeInv, NEW w \in Workers, RecordIntent(w)
  PROVE  EdgeInv'
<1> DEFINE s == edge[w]
           e == IntentOf(s)
           t == [s EXCEPT !.pc = "intentCheck"]
           d == Done(s, "BLOCKED_EVIDENCE")
<1>0. /\ s.pc = "intent" /\ s \in Executions /\ Sensible(s) /\ s.run \in Runs
  BY ExecutionIs DEF RecordIntent
<1>1. /\ \/ e \in IntentEvidence /\ Intent(e) /\ edge' = [edge EXCEPT ![w] = t]
         \/ e \in IntentEvidence /\ Intent(e) /\ edge' = [edge EXCEPT ![w] = d]
         \/ Quiet /\ edge' = [edge EXCEPT ![w] = d]
      /\ UNCHANGED listVars
  <2>1. HookCall(w, e \in IntentEvidence /\ Intent(e), t, d)
    BY DEF RecordIntent
  <2> HIDE DEF e, t, d, s
  <2> QED BY <2>1, CallEnds
<1>2. e.generation = s.gen
  BY DEF IntentOf
<1>3. /\ t \in Executions /\ t.pc = "intentCheck" /\ t.run = s.run /\ t.gen = s.gen
      /\ t.kind = s.kind /\ t.need = s.need /\ t.recorded = s.recorded
  BY <1>0 DEF Executions, Owning
<1>4. d.pc = "done" /\ d.result = "BLOCKED_EVIDENCE" /\ Sensible(d)
  BY <1>0, DoneIs DEF Results, Blocks
<1> HIDE DEF t, d, e
<1>5. ASSUME e \in IntentEvidence, Intent(e)
      PROVE  /\ row.intent # "open" /\ s.gen \in Generations
             /\ row'.intent = "open" /\ row'.generation = s.gen
             /\ row'.reconciliation = "clear" /\ e \in intents' /\ NoEvent(intents, s.gen)
             /\ writes[s.gen] = 0 /\ pending = {} /\ StateNext
  <2>1. row.intent # "open" /\ NoEvent(intents, s.gen) /\ e \in intents'
    BY <1>2, <1>5 DEF Intent, OpenFirst, OpenRetry
  <2>2. row'.intent = "open" /\ row'.generation = s.gen /\ row'.reconciliation = "clear"
    <3>1. CASE OpenFirst(e)
      BY <1>2, <3>1 DEF OpenFirst
    <3>2. CASE OpenRetry(e)
      <4>1. row \in Row
        BY RowNumbers DEF EdgeInv
      <4> QED BY <1>2, <3>2, <4>1 DEF OpenRetry, Row
    <3> QED BY <1>5, <3>1, <3>2 DEF Intent
  <2>3. s.gen \in Generations
    BY <1>2, <1>5 DEF IntentEvidence
  <2>4. writes[s.gen] = 0
    <3>1. writes[s.gen] \in Nat /\ writes[s.gen] <= 1 /\ writes[s.gen] # 1
      BY <2>1, <2>3 DEF EdgeInv, EdgeTypeOK, WriteAheadIntent, NoEvent
    <3> QED BY <3>1
  <2>5. pending = {}
    BY <2>1 DEF EdgeInv, PendingIsUnclear
  <2> QED BY <1>5, <2>1, <2>2, <2>3, <2>4, <2>5 DEF StateNext
<1>6. CASE e \in IntentEvidence /\ Intent(e) /\ edge' = [edge EXCEPT ![w] = t]
  <2>1. ~t.need /\ ~t.recorded /\ t.kind \in PlanKinds
    BY <1>0, <1>3 DEF Sensible
  <2>2. Sensible(t)
    BY <1>0, <1>3, <1>5, <1>6, <2>1 DEF Sensible, Owning, Past
  <2>3. \E f \in intents' : f.generation = t.gen
    BY <1>2, <1>3, <1>5, <1>6
  <2>4. Backed(t, row', intents', outcomes', readbacks', writes)
    BY <1>3, <1>5, <1>6, <2>1, <2>3 DEF Backed, Waiting, Past
  <2> QED BY <1>1, <1>3, <1>5, <1>6, <2>2, <2>4, CommitKeeps
<1>7. CASE e \in IntentEvidence /\ Intent(e) /\ edge' = [edge EXCEPT ![w] = d]
  <2>1. Backed(d, row', intents', outcomes', readbacks', writes)
    BY <1>4, ModestResult DEF SettledResults
  <2>2. d.pc \notin Owning
    BY <1>4 DEF Owning, Past
  <2> QED BY <1>1, <1>4, <1>5, <1>7, <2>1, <2>2, CommitKeeps
<1>8. CASE Quiet /\ edge' = [edge EXCEPT ![w] = d]
  BY <1>0, <1>8, GivesUp DEF Blocks, Become, d
<1> QED BY <1>1, <1>6, <1>7, <1>8


\* The state after the outcome was, or was not, recorded.
LEMMA OutcomedIs ==
  ASSUME NEW s, Sensible(s), s.pc = "outcome", NEW ok \in BOOLEAN,
         NEW r, NEW ins, NEW outs, NEW rbs, NEW n, Backed(s, r, ins, outs, rbs, n),
         ok => \E e \in outs : e.generation = s.gen /\ e.run = s.run
                               /\ e.code = OutcomeCode[s.kind]
  PROVE  LET t == AfterOutcome(s, ok)
         IN /\ Sensible(t) /\ t.pc \in {"require", "observe"}
            /\ t.gen = s.gen /\ t.kind = s.kind
            /\ Backed(t, r, ins, outs, rbs, n)
<1> DEFINE t == AfterOutcome(s, ok)
           o == [s EXCEPT !.recorded = ok]
<1>0. s \in Executions /\ s.kind \in Handled /\ s.run \in Runs /\ s.gen \in Generations /\ ~s.need
  BY DEF Sensible, Owning, Past
<1>1. /\ o \in Executions /\ o.run = s.run /\ o.gen = s.gen /\ o.kind = s.kind
      /\ o.need = s.need /\ o.recorded = ok /\ o.item = s.item
  BY <1>0 DEF Executions
<1>2. t = IF MarksFirst(o) THEN [o EXCEPT !.pc = "require", !.place = "before", !.need = TRUE]
          ELSE [o EXCEPT !.pc = "observe"]
  BY DEF AfterOutcome
<1> HIDE DEF o, t
<1>3. /\ t \in Executions /\ t.run = s.run /\ t.gen = s.gen /\ t.kind = s.kind
      /\ t.recorded = ok /\ t.item = o.item
      /\ \/ MarksFirst(o) /\ t.pc = "require" /\ t.place = "before" /\ t.need
         \/ ~MarksFirst(o) /\ t.pc = "observe" /\ ~t.need
  <2>1. CASE MarksFirst(o)
    <3>1. t = [o EXCEPT !.pc = "require", !.place = "before", !.need = TRUE]
      BY <1>2, <2>1
    <3> QED BY <1>1, <2>1, <3>1 DEF Executions, Owning, Past
  <2>2. CASE ~MarksFirst(o)
    <3>1. t = [o EXCEPT !.pc = "observe"]
      BY <1>2, <2>2
    <3> QED BY <1>0, <1>1, <2>2, <3>1 DEF Executions, Owning, Past
  <2> QED BY <2>1, <2>2
<1>4. MarksFirst(t) = MarksFirst(o)
  BY <1>1, <1>3 DEF MarksFirst
<1>5. s.kind \in UnclearKinds => MarksFirst(o)
  BY <1>1 DEF MarksFirst
<1>6. Sensible(t)
  BY <1>0, <1>3, <1>4, <1>5 DEF Sensible, Owning, Past
<1>7. /\ \E e \in ins : e.generation = t.gen
      /\ r.intent = "open" /\ r.generation = t.gen /\ r.reconciliation = "clear"
      /\ n[t.gen] = IF t.kind \in {"dedupe", "ambiguous"} THEN 0 ELSE 1
      /\ t.recorded => \E e \in outs : e.generation = t.gen /\ e.run = t.run
                                       /\ e.code = OutcomeCode[t.kind]
  BY <1>0, <1>3 DEF Backed, Waiting, Owning, Past
<1>8. Backed(t, r, ins, outs, rbs, n)
  BY <1>3, <1>7 DEF Backed
<1> QED BY <1>3, <1>6, <1>8 DEF t

\* The outcome is recorded.
LEMMA RecordOutcomeKeeps ==
  ASSUME EdgeInv, NEW w \in Workers, RecordOutcome(w)
  PROVE  EdgeInv'
<1> DEFINE s == edge[w]
           e == EventOf(s, OutcomeCode[s.kind])
           t(ok) == AfterOutcome(s, ok)
<1>0. /\ s.pc = "outcome" /\ Sensible(s) /\ s.run \in Runs
      /\ Backed(s, row, intents, outcomes, readbacks, writes)
  BY ExecutionIs DEF RecordOutcome
<1>1. /\ \/ Outcome(e) /\ edge' = [edge EXCEPT ![w] = t(TRUE)]
         \/ Outcome(e) /\ edge' = [edge EXCEPT ![w] = t(FALSE)]
         \/ Quiet /\ edge' = [edge EXCEPT ![w] = t(FALSE)]
      /\ UNCHANGED listVars
  <2>1. HookCall(w, Outcome(e), AfterOutcome(s, TRUE), AfterOutcome(s, FALSE))
    BY DEF RecordOutcome
  <2> HIDE DEF e, s
  <2> QED BY <2>1, CallEnds
<1>2. s.gen \in Generations /\ s.kind \in Handled
  BY <1>0 DEF Sensible, Owning, Past
<1>3. e \in OutcomeEvidence /\ e.generation = s.gen /\ e.run = s.run /\ e.code = OutcomeCode[s.kind]
  BY <1>0, <1>2, EventIs, CodeIs
<1> HIDE DEF e
<1>4. ASSUME NEW ok \in BOOLEAN, Outcome(e), edge' = [edge EXCEPT ![w] = t(ok)] PROVE EdgeInv'
  <2> DEFINE a == AfterOutcome(s, ok)
  <2>1. row' = row /\ intents' = intents /\ readbacks' = readbacks /\ outcomes' = outcomes \cup {e}
    BY <1>4 DEF Outcome
  <2>2. Backed(s, row', intents', outcomes', readbacks', writes)
    BY <1>0, <2>1 DEF Backed, Sensible
  <2>3. \E f \in outcomes' : f.generation = s.gen /\ f.run = s.run /\ f.code = OutcomeCode[s.kind]
    BY <1>3, <2>1
  <2>4. /\ Sensible(a) /\ a.pc \in {"require", "observe"}
        /\ a.gen = s.gen /\ a.kind = s.kind
        /\ Backed(a, row', intents', outcomes', readbacks', writes)
    BY <1>0, <2>2, <2>3, OutcomedIs
  <2>5. edge' = [edge EXCEPT ![w] = a]
    BY <1>4
  <2> HIDE DEF a
  <2>6. \A g \in pending : row'.generation = g /\ row'.intent = "open" /\ Travelling(g, a)
    BY <1>0, <2>1, <2>4 DEF EdgeInv, PendingIsUnclear, Travelling, Owning, Past
  <2>7. StateNext
    BY <1>3, <1>4 DEF StateNext
  <2>8. s.pc \in Owning
    BY <1>0 DEF Owning, Past
  <2> QED BY <1>1, <2>1, <2>4, <2>5, <2>6, <2>7, <2>8, CommitKeeps
<1>5. CASE Quiet /\ edge' = [edge EXCEPT ![w] = t(FALSE)]
  <2> DEFINE a == AfterOutcome(s, FALSE)
  <2>1. /\ Sensible(a) /\ a.pc \in {"require", "observe"}
        /\ a.gen = s.gen /\ a.kind = s.kind
        /\ Backed(a, row, intents, outcomes, readbacks, writes)
    BY <1>0, OutcomedIs
  <2>2. edge' = [edge EXCEPT ![w] = a]
    BY <1>5
  <2> HIDE DEF a
  <2> QED BY <1>0, <1>5, <2>1, <2>2, QuietKeeps DEF Owning, Past
<1> QED BY <1>1, <1>4, <1>5

\* The marker is requested.
LEMMA RequireKeeps ==
  ASSUME EdgeInv, NEW w \in Workers, Require(w)
  PROVE  EdgeInv'
<1> DEFINE s == edge[w]
           t == [s EXCEPT !.pc = "requireCheck"]
           f == AfterRequire(s, FALSE)
<1>0. /\ s.pc = "require" /\ s \in Executions /\ Sensible(s) /\ s.run \in Runs
      /\ Backed(s, row, intents, outcomes, readbacks, writes)
  BY ExecutionIs DEF Require
<1>1. PICK code \in ReasonCodes :
        /\ \/ RequireReconciliation(EventOf(s, code)) /\ edge' = [edge EXCEPT ![w] = t]
           \/ RequireReconciliation(EventOf(s, code)) /\ edge' = [edge EXCEPT ![w] = f]
           \/ Quiet /\ edge' = [edge EXCEPT ![w] = f]
        /\ UNCHANGED listVars
  <2>1. PICK code \in ReasonCodes : HookCall(w, RequireReconciliation(EventOf(s, code)), t, f)
    BY DEF Require
  <2> HIDE DEF t, f, s
  <2>2. /\ \/ RequireReconciliation(EventOf(s, code)) /\ edge' = [edge EXCEPT ![w] = t]
           \/ RequireReconciliation(EventOf(s, code)) /\ edge' = [edge EXCEPT ![w] = f]
           \/ Quiet /\ edge' = [edge EXCEPT ![w] = f]
        /\ UNCHANGED listVars
    BY <2>1, CallEnds
  <2> QED BY <2>2
<1> DEFINE e == EventOf(s, code)
<1>2. s.gen \in Generations /\ s.need /\ s.kind \in Handled
  BY <1>0 DEF Sensible, Owning, Past
<1>3. e \in ReasonEvidence /\ e.generation = s.gen
  BY <1>0, <1>2, EventIs
<1> HIDE DEF e
<1>4. /\ t \in Executions /\ t.pc = "requireCheck" /\ t.gen = s.gen /\ t.kind = s.kind
      /\ t.run = s.run /\ t.need = s.need /\ t.place = s.place /\ t.recorded = s.recorded
      /\ t.item = s.item
  BY <1>0 DEF Executions, Owning, Past
<1> HIDE DEF t
<1>5. ASSUME RequireReconciliation(e)
      PROVE  /\ row.generation = s.gen /\ row'.intent = "open" /\ row'.generation = row.generation
             /\ intents' = intents /\ readbacks' = readbacks /\ outcomes' = outcomes
             /\ StateNext
             /\ Backed(s, row', intents', outcomes', readbacks', writes)
  <2>1. /\ row.generation = s.gen /\ row'.intent = "open" /\ row'.generation = row.generation
        /\ intents' = intents /\ readbacks' = readbacks /\ outcomes' = outcomes
    <3>1. row \in Row
      BY RowNumbers DEF EdgeInv
    <3> QED BY <1>3, <1>5, <3>1 DEF RequireReconciliation, MatchesOpenState, Row
  <2>2. Backed(s, row', intents', outcomes', readbacks', writes)
    BY <1>0, <1>2, <2>1 DEF Backed
  <2>3. StateNext
    BY <1>3, <1>5 DEF StateNext
  <2> QED BY <2>1, <2>2, <2>3
<1>6. CASE RequireReconciliation(e) /\ edge' = [edge EXCEPT ![w] = t]
  <2>1. Sensible(t)
    <3>1. MarksFirst(t) = MarksFirst(s)
      BY <1>4 DEF MarksFirst
    <3> QED BY <1>0, <1>2, <1>4, <3>1 DEF Sensible, Owning, Past
  <2>2. Backed(t, row', intents', outcomes', readbacks', writes)
    <3>1. Backed(s, row', intents', outcomes', readbacks', writes)
      BY <1>5, <1>6
    <3> QED BY <1>0, <1>4, <3>1, <1>2 DEF Backed, Waiting, Owning, Past
  <2>3. \A g \in pending : row'.generation = g /\ row'.intent = "open" /\ Travelling(g, t)
    BY <1>0, <1>4, <1>5, <1>6 DEF EdgeInv, PendingIsUnclear, Travelling, Owning, Past
  <2>4. s.pc \in Owning
    BY <1>0 DEF Owning, Past
  <2> QED BY <1>1, <1>4, <1>5, <1>6, <2>1, <2>2, <2>3, <2>4, CommitKeeps
<1>7. CASE RequireReconciliation(e) /\ edge' = [edge EXCEPT ![w] = f]
  <2>1. /\ Sensible(f) /\ f.pc \in {"observe", "readback", "done"}
        /\ f.gen = s.gen /\ f.kind = s.kind
        /\ Backed(f, row', intents', outcomes', readbacks', writes)
    <3>1. Backed(s, row', intents', outcomes', readbacks', writes)
      BY <1>5, <1>7
    <3> QED BY <1>0, <3>1, RequiredIs
  <2> HIDE DEF f
  <2>3. \A g \in pending : row'.generation = g /\ row'.intent = "open" /\ Travelling(g, f)
    BY <1>0, <1>5, <1>7, <2>1 DEF EdgeInv, PendingIsUnclear, Travelling, Owning, Past
  <2>4. s.pc \in Owning
    BY <1>0 DEF Owning, Past
  <2> QED BY <1>1, <1>5, <1>7, <2>1, <2>3, <2>4, CommitKeeps
<1>8. CASE Quiet /\ edge' = [edge EXCEPT ![w] = f]
  <2>1. /\ Sensible(f) /\ f.pc \in {"observe", "readback", "done"}
        /\ f.gen = s.gen /\ f.kind = s.kind
        /\ Backed(f, row, intents, outcomes, readbacks, writes)
    BY <1>0, RequiredIs
  <2> HIDE DEF f
  <2> QED BY <1>0, <1>8, <2>1, QuietKeeps DEF Owning, Past
<1> QED BY <1>1, <1>6, <1>7, <1>8 DEF e


\* The readback is recorded.
LEMMA RecordReadbackKeeps ==
  ASSUME EdgeInv, NEW w \in Workers, RecordReadback(w)
  PROVE  EdgeInv'
<1> DEFINE s == edge[w]
           e == ReadbackOf(s)
           t == [s EXCEPT !.pc = "readbackCheck"]
           f == ReadbackFailed(s)
<1>0. /\ s.pc = "readback" /\ s \in Executions /\ Sensible(s) /\ s.run \in Runs
      /\ Backed(s, row, intents, outcomes, readbacks, writes)
  BY ExecutionIs DEF RecordReadback
<1>1. /\ \/ e \in ReadbackEvidence /\ Readback(e) /\ edge' = [edge EXCEPT ![w] = t]
         \/ e \in ReadbackEvidence /\ Readback(e) /\ edge' = [edge EXCEPT ![w] = f]
         \/ Quiet /\ edge' = [edge EXCEPT ![w] = f]
      /\ UNCHANGED listVars
  <2>1. HookCall(w, e \in ReadbackEvidence /\ Readback(e), t, f)
    BY DEF RecordReadback
  <2> HIDE DEF e, t, f, s
  <2> QED BY <2>1, CallEnds
<1>2. s.gen \in Generations /\ s.kind \in Handled /\ (s.kind \in UnclearKinds => s.need)
      /\ s.pc \in Owning /\ s.pc \in Past /\ s.need \in BOOLEAN
  BY <1>0 DEF Sensible, Owning, Past, Executions
<1>3. /\ e.generation = s.gen /\ e.run = s.run /\ e.code = ReadbackCode(s.obs)
      /\ e.close = ~s.need
  BY DEF ReadbackOf
<1>4. /\ t \in Executions /\ t.pc = "readbackCheck" /\ t.gen = s.gen /\ t.kind = s.kind
      /\ t.run = s.run /\ t.need = s.need /\ t.recorded = s.recorded
      /\ t.item = s.item /\ t.obs = s.obs /\ t.persisted = s.persisted
  BY <1>0 DEF Executions, Owning, Past
<1>5. /\ \E i \in intents : i.generation = s.gen
      /\ writes[s.gen] = IF s.kind \in {"dedupe", "ambiguous"} THEN 0 ELSE 1
      /\ s.recorded => \E i \in outcomes : i.generation = s.gen /\ i.run = s.run
                                           /\ i.code = OutcomeCode[s.kind]
      /\ s.need /\ s.persisted =>
           row.reconciliation = "required" /\ row.generation = s.gen /\ row.run = s.run
  BY <1>0, <1>2 DEF Backed
<1> HIDE DEF e, t
<1>6. ASSUME e \in ReadbackEvidence, Readback(e)
      PROVE  /\ StateNext /\ row.generation = s.gen
             /\ intents' = intents /\ outcomes' = outcomes /\ e \in readbacks'
             /\ s.need => row' = row
             /\ ~s.need => s.obs \in {"applied", "not_applied"}
             /\ pending # {} => row' = row
  <2>1. intents' = intents /\ outcomes' = outcomes /\ e \in readbacks'
    BY <1>6 DEF Readback
  <2>2. row.generation = s.gen /\ (s.need => row' = row) /\ (row' # row => ~s.need)
    BY <1>3, <1>6 DEF Readback, CloseIntent, ObserveOnly, MatchesOpenState
  <2>3. ~s.need => s.obs \in {"applied", "not_applied"}
    <3>1. ~s.need => e.code # "not_verified"
      BY <1>3, <1>6 DEF ReadbackEvidence
    <3> QED BY <1>3, <3>1 DEF ReadbackCode
  <2>4. ASSUME NEW g \in pending PROVE s.need
    <3>1. g = s.gen /\ Travelling(g, s)
      BY <2>2 DEF EdgeInv, PendingIsUnclear
    <3> QED BY <1>2, <3>1 DEF Travelling, UnclearKinds
  <2> QED BY <1>6, <2>1, <2>2, <2>3, <2>4 DEF StateNext
<1>7. CASE e \in ReadbackEvidence /\ Readback(e) /\ edge' = [edge EXCEPT ![w] = t]
  <2>1. Sensible(t)
    <3>1. NeedsReconciliation(t) = NeedsReconciliation(s)
      BY <1>4 DEF NeedsReconciliation, MarksFirst
    <3>2. ~t.need => ~NeedsReconciliation(t)
      BY <1>0, <1>4, <3>1 DEF Sensible
    <3> QED BY <1>0, <1>2, <1>4, <3>2 DEF Sensible, Owning, Past
  <2>2. ~t.need => \E r \in readbacks' : /\ r.generation = t.gen /\ r.run = t.run /\ r.close
                                         /\ r.code = ReadbackCode(t.obs)
    BY <1>3, <1>4, <1>6, <1>7
  <2>3. Backed(t, row', intents', outcomes', readbacks', writes)
    BY <1>4, <1>5, <1>6, <1>7, <2>2 DEF Backed, Waiting
  <2>4. \A g \in pending : row'.generation = g /\ row'.intent = "open" /\ Travelling(g, t)
    BY <1>2, <1>4, <1>6, <1>7 DEF EdgeInv, PendingIsUnclear, Travelling
  <2> QED BY <1>1, <1>2, <1>4, <1>6, <1>7, <2>1, <2>3, <2>4, CommitKeeps
<1>8. CASE e \in ReadbackEvidence /\ Readback(e) /\ edge' = [edge EXCEPT ![w] = f]
  <2>1. /\ Sensible(f) /\ f.pc \in {"require", "done"} /\ f.gen = s.gen /\ f.kind = s.kind
        /\ Backed(f, row', intents', outcomes', readbacks', writes)
    <3>1. /\ \E i \in intents' : i.generation = s.gen
          /\ s.recorded => \E i \in outcomes' : i.generation = s.gen /\ i.run = s.run
                                                /\ i.code = OutcomeCode[s.kind]
          /\ s.need /\ s.persisted =>
               row'.reconciliation = "required" /\ row'.generation = s.gen /\ row'.run = s.run
      BY <1>5, <1>6, <1>8
    <3> QED BY <1>0, <1>2, <1>5, <3>1, FailedIs
  <2> HIDE DEF f
  <2>2. \A g \in pending : row'.generation = g /\ row'.intent = "open" /\ Travelling(g, f)
    BY <1>2, <1>6, <1>8, <2>1 DEF EdgeInv, PendingIsUnclear, Travelling
  <2> QED BY <1>1, <1>2, <1>6, <1>8, <2>1, <2>2, CommitKeeps
<1>9. CASE Quiet /\ edge' = [edge EXCEPT ![w] = f]
  <2>1. /\ Sensible(f) /\ f.pc \in {"require", "done"} /\ f.gen = s.gen /\ f.kind = s.kind
        /\ Backed(f, row, intents, outcomes, readbacks, writes)
    BY <1>0, <1>2, <1>5, FailedIs
  <2> HIDE DEF f
  <2> QED BY <1>0, <1>2, <1>9, <2>1, QuietKeeps DEF Owning, Past
<1> QED BY <1>1, <1>7, <1>8, <1>9

-----------------------------------------------------------------------------
(* The requests and the environment. *)


\* What a request leaves in the list.
LEMMA AfterWriteIs ==
  ASSUME ListOK, NEW list, list = AfterWrite
  PROVE  list \in Seq(ListItem) /\ (method = "PATCH" => Len(list) = 1)
<1>1. CASE method = "POST"
  <2>1. [live |-> TRUE, applied |-> TRUE, etag |-> 0, own |-> TRUE] \in ListItem
    BY DEF ListItem
  <2>2. AfterWrite = Append(items, [live |-> TRUE, applied |-> TRUE, etag |-> 0, own |-> TRUE])
    BY <1>1 DEF AfterWrite
  <2> QED BY <1>1, <2>1, <2>2 DEF ListOK
<1>2. CASE method = "PATCH"
  <2> DEFINE i == [live |-> TRUE, applied |-> TRUE, etag |-> items[1].etag + 1, own |-> TRUE]
  <2>0. items \in Seq(ListItem) /\ Len(items) = 1
    BY <1>2 DEF ListOK
  <2>1. items[1] \in ListItem /\ 1 \in 1 .. Len(items)
    BY <2>0
  <2>2. items[1].etag \in Nat
    BY <2>1 DEF ListItem
  <2>3. i \in ListItem
    BY <2>2 DEF ListItem
  <2>4. AfterWrite = [items EXCEPT ![1] = i]
    BY <1>2 DEF AfterWrite, TargetItem
  <2> HIDE DEF i
  <2> QED BY <2>0, <2>1, <2>3, <2>4
<1> QED BY <1>1, <1>2 DEF ListOK

\* A request of an execution.
LEMMA WriteKeeps ==
  ASSUME EdgeInv, NEW w \in Workers, Write(w)
  PROVE  EdgeInv'
<1> DEFINE s == edge[w]
           g == s.gen
           sent == {"success", "server_error", "unknown", "retryable", "rejected",
                    "precondition", "conflict"}
<1>0. /\ s.pc = "write" /\ s \in Executions /\ Sensible(s) /\ s.run \in Runs
      /\ Backed(s, row, intents, outcomes, readbacks, writes)
  BY ExecutionIs DEF Write
<1>1. /\ g \in Generations /\ ~s.need /\ ~s.recorded /\ s.pc \in Owning
      /\ row.intent = "open" /\ row.generation = g /\ row.reconciliation = "clear"
      /\ writes[g] = 0 /\ \E e \in intents : e.generation = g
  BY <1>0 DEF Sensible, Backed, Waiting, Owning
<1>2. /\ UNCHANGED <<row, intents, outcomes, requirements, readbacks, method>>
      /\ writes' = [writes EXCEPT ![g] = writes[g] + 1]
  BY DEF Write, stateVars
<1>3. writes \in [Generations -> Nat] /\ ListOK /\ StateInv
  BY DEF EdgeInv, EdgeTypeOK
<1>4. writes' \in [Generations -> Nat] /\ writes'[g] = 1
      /\ \A h \in Generations : h # g => writes'[h] = writes[h]
  BY <1>1, <1>2, <1>3
<1>5. PICK kind \in sent, named \in Nat :
        /\ edge' = [edge EXCEPT ![w] = [s EXCEPT !.pc = "outcome", !.kind = kind,
                                                 !.item = ReadTarget(named)]]
        /\ \/ items' = AfterWrite /\ pending' = pending
           \/ items' = items /\ pending' = pending
           \/ /\ kind \in {"unknown", "server_error"}
              /\ items' = items /\ pending' = pending \cup {g}
  <2>1. CASE WriteTakesEffect(w)
    <3>1. items' \in Seq(ListItem)
      BY <1>3, <2>1, AfterWriteIs DEF WriteTakesEffect
    <3>2. Len(items') \in Nat
      BY <3>1
    <3> QED BY <2>1, <3>2 DEF WriteTakesEffect, Responds, Become
  <2>2. CASE WriteHasNoEffect(w)
    BY <2>2 DEF WriteHasNoEffect, Responds, Become
  <2>3. CASE WriteStaysInFlight(w)
    BY <2>3 DEF WriteStaysInFlight, Responds, Become
  <2> QED BY <2>1, <2>2, <2>3 DEF Write
<1> DEFINE t == [s EXCEPT !.pc = "outcome", !.kind = kind, !.item = ReadTarget(named)]
<1>6. ReadTarget(named) \in Nat /\ kind \in Handled /\ kind \notin {"dedupe", "ambiguous"}
  BY DEF ReadTarget, TargetItem, Handled
<1>7. /\ t \in Executions /\ t.pc = "outcome" /\ t.run = s.run /\ t.gen = g /\ t.kind = kind
      /\ t.need = s.need /\ t.recorded = s.recorded
  BY <1>0, <1>6 DEF Executions, Owning, Past
<1>8. edge' = [edge EXCEPT ![w] = t]
  BY <1>5
<1> HIDE DEF t
<1>9. Sensible(t)
  BY <1>0, <1>1, <1>6, <1>7 DEF Sensible, Owning, Past
<1>10. Backed(t, row', intents', outcomes', readbacks', writes')
  BY <1>1, <1>2, <1>4, <1>6, <1>7 DEF Backed, Waiting
<1>11. StateInv'
  BY <1>2, <1>3, NextPreservesInv DEF stateVars
<1>12. ListOK'
  <2>1. items' \in Seq(ListItem) /\ (method = "PATCH" => Len(items') = 1)
    BY <1>3, <1>5, AfterWriteIs DEF ListOK
  <2> QED BY <1>2, <1>3, <2>1 DEF ListOK
<1>13. WriteAheadIntent'
  <2>1. ASSUME NEW h \in Generations
        PROVE  writes'[h] <= 1 /\ (writes'[h] = 1 => \E e \in intents' : e.generation = h)
    <3>1. CASE h = g
      BY <1>1, <1>2, <1>4, <3>1
    <3>2. CASE h # g
      BY <1>2, <1>4, <3>2 DEF EdgeInv, WriteAheadIntent
    <3> QED BY <3>1, <3>2
  <2> QED BY <2>1 DEF WriteAheadIntent
<1>14. Leaves(s)
  <2>1. row.closed \in Nat /\ row.generation \in Nat /\ row.generation = row.closed + 1
    BY <1>1, <1>3, RowNumbers DEF StateInv, RowShape
  <2>2. ~(g <= row.closed)
    BY <1>1, <2>1
  <2>3. \A h \in Generations :
          ~(s.pc \in Owning /\ h = s.gen) \/ h <= row.closed => writes'[h] = writes[h]
    BY <1>1, <1>4, <2>2
  <2>4. row.closed <= row'.closed
    BY <1>2, <2>1
  <2> QED BY <1>2, <2>3, <2>4 DEF Leaves
<1>15. pending = {}
  BY <1>1 DEF EdgeInv, PendingIsUnclear
<1>16. \A h \in pending' : /\ h \in pending \/ (s.pc \in Owning /\ h = s.gen)
                           /\ h \in Generations /\ row'.generation = h /\ row'.intent = "open"
                           /\ writes'[h] = 1 /\ Travelling(h, t)
  <2>1. \A h \in pending' : h = g /\ kind \in {"unknown", "server_error"}
    BY <1>5, <1>15
  <2> QED BY <1>1, <1>2, <1>4, <1>7, <2>1 DEF Travelling
<1> QED BY <1>1, <1>4, <1>7, <1>8, <1>9, <1>10, <1>11, <1>12, <1>13, <1>14, <1>16, StepKeeps

\* A step outside the executions keeps the invariant.
LEMMA OutsideKeeps ==
  ASSUME EdgeInv, UNCHANGED <<row, intents, outcomes, requirements, readbacks, method, edge, writes>>,
         pending' \subseteq pending, ListOK'
  PROVE  EdgeInv'
<1>1. StateInv'
  BY NextPreservesInv DEF EdgeInv, stateVars
<1>2. EdgeTypeOK' /\ WriteAheadIntent' /\ OneOwner'
  BY DEF EdgeInv, EdgeTypeOK, WriteAheadIntent, OneOwner
<1>3. ExecutionsAreSound'
  BY DEF EdgeInv, ExecutionsAreSound
<1>4. PendingIsUnclear'
  BY DEF EdgeInv, PendingIsUnclear
<1> QED BY <1>1, <1>2, <1>3, <1>4 DEF EdgeInv

\* Changes by other editors.
LEMMA ForeignChangeIs ==
  ASSUME ListOK, ForeignChange
  PROVE  ListOK'
<1>0. items \in Seq(ListItem) /\ method' = method
  BY DEF ListOK, ForeignChange
<1>1. ASSUME NEW i \in LiveItems, NEW a \in BOOLEAN,
             items' = [items EXCEPT ![i].applied = a, ![i].etag = @ + 1]
      PROVE  ListOK'
  <2> DEFINE j == [[items[i] EXCEPT !.applied = a] EXCEPT !.etag = items[i].etag + 1]
  <2>1. i \in 1 .. Len(items) /\ items[i] \in ListItem
    BY <1>0 DEF LiveItems
  <2>2. items[i].etag + 1 \in Nat
    BY <2>1 DEF ListItem
  <2>3. j \in ListItem
    BY <2>1, <2>2 DEF ListItem
  <2>4. items' = [items EXCEPT ![i] = j]
    BY <1>0, <1>1, <2>1 DEF ListItem
  <2> HIDE DEF j
  <2>5. items' \in Seq(ListItem) /\ Len(items') = Len(items)
    BY <1>0, <2>1, <2>3, <2>4
  <2> QED BY <1>0, <2>5 DEF ListOK
<1>2. ASSUME NEW i \in LiveItems, items' = [items EXCEPT ![i].live = FALSE] PROVE ListOK'
  <2> DEFINE j == [items[i] EXCEPT !.live = FALSE]
  <2>1. i \in 1 .. Len(items) /\ items[i] \in ListItem
    BY <1>0 DEF LiveItems
  <2>3. j \in ListItem
    BY <2>1 DEF ListItem
  <2>4. items' = [items EXCEPT ![i] = j]
    BY <1>2
  <2> HIDE DEF j
  <2>5. items' \in Seq(ListItem) /\ Len(items') = Len(items)
    BY <1>0, <2>1, <2>3, <2>4
  <2> QED BY <1>0, <2>5 DEF ListOK
<1>3. ASSUME method = "POST", NEW a \in BOOLEAN,
             items' = Append(items, [live |-> TRUE, applied |-> a, etag |-> 0, own |-> FALSE])
      PROVE  ListOK'
  <2>1. [live |-> TRUE, applied |-> a, etag |-> 0, own |-> FALSE] \in ListItem
    BY DEF ListItem
  <2>2. items' \in Seq(ListItem)
    BY <1>0, <1>3, <2>1
  <2> QED BY <1>0, <1>3, <2>2 DEF ListOK
<1> QED BY <1>1, <1>2, <1>3 DEF ForeignChange


\* The initial state.
LEMMA InitEstablishesEdgeInv == EdgeInit => EdgeInv
<1> SUFFICES ASSUME EdgeInit PROVE EdgeInv
  OBVIOUS
<1>1. StateInv
  BY InitEstablishesInv DEF EdgeInit
<1>2. \A w \in Workers : edge[w] = Idle
  BY DEF EdgeInit
<1>3. ListOK
  <2>0. method \in {"POST", "PATCH"}
    BY MethodAssumption DEF EdgeInit
  <2>1. \A a \in BOOLEAN : Existing(a) \in ListItem
    BY DEF Existing, ListItem, ExpectedEtag
  <2>2. /\ items = << >> \/ \E a \in BOOLEAN : items = << Existing(a) >>
        /\ method = "PATCH" => items = << Existing(FALSE) >>
    BY <2>0 DEF EdgeInit
  <2>3. CASE items = << >>
    <3>1. method # "PATCH"
      BY <2>2, <2>3
    <3> QED BY <2>0, <2>3, <3>1 DEF ListOK
  <2>4. ASSUME NEW a \in BOOLEAN, items = << Existing(a) >> PROVE ListOK
    <3>1. PICK i \in ListItem : i = Existing(a)
      BY <2>1
    <3>2. items = << i >>
      BY <2>4, <3>1
    <3> QED BY <2>0, <3>2 DEF ListOK
  <2> QED BY <2>2, <2>3, <2>4
<1>4. EdgeTypeOK
  BY <1>3, IdleIs DEF EdgeInit, EdgeTypeOK
<1>5. WriteAheadIntent
  BY DEF EdgeInit, WriteAheadIntent
<1>6. ExecutionsAreSound
  BY <1>2, IdleIs DEF ExecutionsAreSound
<1>7. OneOwner
  BY <1>2, IdleIs DEF OneOwner, Owning, Past
<1>8. PendingIsUnclear
  BY DEF EdgeInit, PendingIsUnclear
<1> QED BY <1>1, <1>4, <1>5, <1>6, <1>7, <1>8 DEF EdgeInv

\* Every step keeps the invariant.
LEMMA NextKeepsEdgeInv == EdgeInv /\ [EdgeNext]_edgeVars => EdgeInv'
<1> SUFFICES ASSUME EdgeInv, [EdgeNext]_edgeVars PROVE EdgeInv'
  OBVIOUS
<1>1. ASSUME NEW w \in Workers, NEW r \in Runs, Execute(w, r) PROVE EdgeInv'
  BY <1>1, ExecuteKeeps
<1>2. ASSUME NEW w \in Workers, Step(w) PROVE EdgeInv'
  BY <1>2, AdmitKeeps, DedupeReadKeeps, FreshnessReadKeeps, RecordIntentKeeps, CheckIntentKeeps,
     WriteKeeps, RecordOutcomeKeeps, RequireKeeps, CheckRequireKeeps, ObserveKeeps,
     ObserveItemKeeps, RecordReadbackKeeps, CheckReadbackKeeps DEF Step
<1>3. ASSUME NEW w \in Workers, Return(w) \/ Crash(w) PROVE EdgeInv'
  BY <1>3, ForgetKeeps
<1>4. CASE ForeignChange
  <2>1. ListOK'
    BY <1>4, ForeignChangeIs DEF EdgeInv, EdgeTypeOK
  <2>2. /\ UNCHANGED <<row, intents, outcomes, requirements, readbacks, method, edge, writes>>
        /\ pending' = pending
    BY <1>4 DEF ForeignChange, stateVars
  <2> QED BY <2>1, <2>2, OutsideKeeps
<1>5. ASSUME NEW g \in pending, LateRequest(g) PROVE EdgeInv'
  <2>1. ListOK
    BY DEF EdgeInv, EdgeTypeOK
  <2>2. items' = items \/ items' = AfterWrite
    BY <1>5 DEF LateRequest
  <2>3. /\ UNCHANGED <<row, intents, outcomes, requirements, readbacks, method, edge, writes>>
        /\ pending' \subseteq pending
    BY <1>5 DEF LateRequest, stateVars
  <2>4. items' \in Seq(ListItem) /\ (method = "PATCH" => Len(items') = 1)
    BY <2>1, <2>2, AfterWriteIs DEF ListOK
  <2>5. ListOK'
    BY <2>1, <2>3, <2>4 DEF ListOK
  <2> QED BY <2>3, <2>5, OutsideKeeps
<1>6. CASE UNCHANGED edgeVars
  <2>1. /\ UNCHANGED <<row, intents, outcomes, requirements, readbacks, method, edge, writes>>
        /\ pending' = pending /\ items' = items
    BY <1>6 DEF edgeVars
  <2>2. ListOK'
    BY <2>1 DEF EdgeInv, EdgeTypeOK, ListOK
  <2> QED BY <2>1, <2>2, OutsideKeeps
<1> QED BY <1>1, <1>2, <1>3, <1>4, <1>5, <1>6 DEF EdgeNext

-----------------------------------------------------------------------------
(* The theorems. *)

\* Every reachable state of the edge satisfies the inductive invariant,
\* whatever crashes and however many processes execute.
THEOREM EdgeInvariance == EdgeSpec => []EdgeInv
BY InitEstablishesEdgeInv, NextKeepsEdgeInv, PTL DEF EdgeSpec

\* A generation sends at most one request, and only after its intent is
\* durable (execute, _record_intent).
THEOREM WriteAhead == EdgeSpec => []WriteAheadIntent
<1>1. EdgeInv => WriteAheadIntent
  BY DEF EdgeInv
<1> QED BY <1>1, EdgeInvariance, PTL

\* A request that may still reach the list keeps its generation open: no
\* handler, no retry and no restart closes or supersedes it.
THEOREM InFlightOpen == EdgeSpec => []InFlightStaysOpen
<1>1. EdgeInv => InFlightStaysOpen
  BY DEF EdgeInv, PendingIsUnclear, InFlightStaysOpen
<1> QED BY <1>1, EdgeInvariance, PTL

\* A result the edge returns is true of the durable state: the outcome and the
\* closing readback it reports exist, and no reconciliation is required; or the
\* marker it reports is there.
THEOREM TruthfulResults == EdgeSpec => []ResultsAreTruthful
<1>1. EdgeInv => ResultsAreTruthful
  <2> SUFFICES ASSUME EdgeInv, NEW w \in Workers, edge[w].pc = "done"
               PROVE  LET s == edge[w] IN
                 /\ s.result \in SettledResults =>
                      /\ \E e \in outcomes : /\ e.generation = s.gen
                                             /\ e.run = s.run
                                             /\ e.code = OutcomeCode[s.kind]
                      /\ \E e \in readbacks :
                           /\ e.generation = s.gen
                           /\ e.run = s.run
                           /\ e.close
                           /\ e.code = IF s.result \in AppliedResults THEN "verified_applied"
                                       ELSE "verified_not_applied"
                      /\ NoEvent(requirements, s.gen)
                      /\ writes[s.gen] = IF s.kind = "dedupe" THEN 0 ELSE 1
                 /\ s.result = "RECONCILIATION_REQUIRED" =>
                      /\ row.reconciliation = "required"
                      /\ row.generation = s.gen
                      /\ row.run = s.run
    BY DEF ResultsAreTruthful
  <2> DEFINE s == edge[w]
  <2>1. Backed(s, row, intents, outcomes, readbacks, writes)
    BY ExecutionIs
  <2>2. ASSUME s.result \in SettledResults PROVE NoEvent(requirements, s.gen)
    <3>1. s.gen <= row.closed /\ s.gen \in Nat
      BY <2>1, <2>2 DEF Backed, Generations
    <3>2. row.closed \in Nat /\ row.generation \in Nat
      BY RowNumbers DEF EdgeInv
    <3>3. row.intent = "open" => row.generation = row.closed + 1
      BY DEF EdgeInv, StateInv, RowShape
    <3>4. ASSUME NEW e \in requirements PROVE e.generation # s.gen
      <4>1. e.generation = row.generation /\ row.intent = "open"
        BY DEF EdgeInv, StateInv, UncertaintyIsLast
      <4> QED BY <3>1, <3>2, <3>3, <4>1
    <3> QED BY <3>4 DEF NoEvent
  <2> QED BY <2>1, <2>2 DEF Backed
<1> QED BY <1>1, EdgeInvariance, PTL

\* The edge only uses the hook in ways the durable state allows: whatever holds
\* of MutationState for every caller holds under the edge.
THEOREM EdgeUsesState == EdgeSpec => StateSpec
<1>1. EdgeInit => StateInit
  BY DEF EdgeInit
<1>2. EdgeInv /\ [EdgeNext]_edgeVars => [StateNext]_stateVars
  <2> SUFFICES ASSUME EdgeInv, EdgeNext PROVE [StateNext]_stateVars
    BY DEF edgeVars, stateVars
  <2>1. ASSUME NEW w \in Workers, NEW r \in Runs, Execute(w, r) PROVE UNCHANGED stateVars
    BY <2>1 DEF Execute, stateVars
  <2>2. ASSUME NEW w \in Workers, LocalStep PROVE UNCHANGED stateVars
    BY <2>2 DEF LocalStep, stateVars
  <2>3. ASSUME NEW w \in Workers, RecordIntent(w) PROVE [StateNext]_stateVars
    BY <2>3 DEF RecordIntent, HookCall, StateNext
  <2>4. ASSUME NEW w \in Workers, RecordOutcome(w) PROVE [StateNext]_stateVars
    <3>1. edge[w].gen \in Generations /\ edge[w].kind \in Handled /\ edge[w].run \in Runs
      BY <2>4, ExecutionIs DEF RecordOutcome, Sensible, Owning, Past
    <3>2. EventOf(edge[w], OutcomeCode[edge[w].kind]) \in OutcomeEvidence
      BY <3>1, EventIs, CodeIs
    <3> QED BY <2>4, <3>2 DEF RecordOutcome, HookCall, StateNext
  <2>5. ASSUME NEW w \in Workers, Require(w) PROVE [StateNext]_stateVars
    <3>1. edge[w].gen \in Generations /\ edge[w].run \in Runs
      BY <2>5, ExecutionIs DEF Require, Sensible, Owning, Past
    <3>2. \A code \in ReasonCodes : EventOf(edge[w], code) \in ReasonEvidence
      BY <3>1, EventIs
    <3> QED BY <2>5, <3>2 DEF Require, HookCall, StateNext
  <2>6. ASSUME NEW w \in Workers, RecordReadback(w) PROVE [StateNext]_stateVars
    BY <2>6 DEF RecordReadback, HookCall, StateNext
  <2>7. ASSUME NEW w \in Workers, Write(w) PROVE UNCHANGED stateVars
    BY <2>7 DEF Write, stateVars
  <2>8. ASSUME ForeignChange \/ \E g \in pending : LateRequest(g) PROVE UNCHANGED stateVars
    BY <2>8 DEF ForeignChange, LateRequest, stateVars
  <2>9. ASSUME NEW w \in Workers, Step(w) PROVE [StateNext]_stateVars
    BY <2>2, <2>3, <2>4, <2>5, <2>6, <2>7, <2>9
    DEF Step, Admit, DedupeRead, FreshnessRead, CheckIntent, CheckRequire, Observe, ObserveItem,
        CheckReadback
  <2>10. ASSUME NEW w \in Workers, Return(w) \/ Crash(w) PROVE UNCHANGED stateVars
    BY <2>2, <2>10 DEF Return, Crash
  <2> QED BY <2>1, <2>8, <2>9, <2>10 DEF EdgeNext
<1> QED BY <1>1, <1>2, EdgeInvariance, PTL DEF EdgeSpec, StateSpec


-----------------------------------------------------------------------------
(* The edge implements GovernedWrite. *)

\* The phase of a row and the requests of its generation.
PhaseOf(r, n) ==
  CASE r.intent = "absent" -> "idle"
    [] r.intent = "closed" -> "settled"
    [] r.intent = "retryable" -> "released"
    [] r.reconciliation = "required" -> "suspended"
    [] OTHER -> IF n[r.generation] = 0 THEN "authorized" ELSE "sent"

\* The phases, one by one.  A row that requires reconciliation is open.
LEMMA PhaseIs ==
  ASSUME NEW r \in Row, r.reconciliation = "required" => r.intent = "open", NEW n
  PROVE  /\ r.intent = "absent" => PhaseOf(r, n) = "idle"
         /\ r.intent = "closed" => PhaseOf(r, n) = "settled"
         /\ r.intent = "retryable" => PhaseOf(r, n) = "released"
         /\ r.intent = "open" /\ r.reconciliation = "required" => PhaseOf(r, n) = "suspended"
         /\ r.intent = "open" /\ r.reconciliation = "clear" =>
              PhaseOf(r, n) = IF n[r.generation] = 0 THEN "authorized" ELSE "sent"
<1>1. r.intent \in {"absent", "open", "retryable", "closed"} /\ r.reconciliation \in {"clear", "required"}
  BY DEF Row
<1>2. CASE r.intent = "absent"
  BY <1>2 DEF PhaseOf
<1>3. CASE r.intent = "closed"
  BY <1>3 DEF PhaseOf
<1>4. CASE r.intent = "retryable"
  BY <1>4 DEF PhaseOf
<1>5. CASE r.intent = "open" /\ r.reconciliation = "required"
  BY <1>5 DEF PhaseOf
<1>6. CASE r.intent = "open" /\ r.reconciliation = "clear"
  BY <1>6 DEF PhaseOf
<1> QED BY <1>1, <1>2, <1>3, <1>4, <1>5, <1>6

\* A transaction is a step of the governed pipeline: only an execution whose
\* request was answered releases its generation.
LEMMA TransactionIsGoverned ==
  ASSUME StateInv, StateInv', StateNext, UNCHANGED writes,
         writes \in [Generations -> Nat],
         \A e \in IntentEvidence : Intent(e) => writes[e.generation] = 0,
         row'.intent = "retryable" => writes[row.generation] # 0
  PROVE  [Governed!GovernedNext]_(Governed!governedVars)
<1>0. /\ row \in Row /\ row' \in Row /\ row.generation \in Nat
      /\ row.reconciliation = "required" => row.intent = "open"
      /\ row'.reconciliation = "required" => row'.intent = "open"
  BY MaxGenerationAssumption DEF StateInv, TypeOK, Row, RowShape
<1>1. Phase = PhaseOf(row, writes) /\ Phase' = PhaseOf(row', writes')
  BY DEF Phase, PhaseOf
<1>2. ASSUME NEW e \in IntentEvidence, Intent(e) PROVE Governed!Authorize
  <2>1. /\ row'.intent = "open" /\ row'.reconciliation = "clear" /\ row'.generation = e.generation
        /\ row.intent \in {"absent", "retryable"} /\ e.generation = row.generation + 1
    <3>1. CASE OpenFirst(e)
      <4>1. row.generation = 0
        BY <3>1 DEF OpenFirst, StateInv, RowShape
      <4> QED BY <1>2, <3>1, <4>1 DEF OpenFirst, Intent
    <3>2. CASE OpenRetry(e)
      BY <1>0, <1>2, <3>2 DEF OpenRetry, Intent, Row
    <3> QED BY <1>2, <3>1, <3>2 DEF Intent
  <2>2. writes'[row'.generation] = 0
    BY <1>2, <2>1
  <2>3. Phase \in {"idle", "released"} /\ Phase' = "authorized"
    BY <1>0, <1>1, <2>1, <2>2, PhaseIs
  <2>4. row.generation < MaxGeneration
    BY <1>0, <2>1, MaxGenerationAssumption DEF IntentEvidence, Generations
  <2> QED BY <2>1, <2>3, <2>4 DEF Governed!Authorize
<1>3. ASSUME NEW e \in OutcomeEvidence, Outcome(e) PROVE UNCHANGED (Governed!governedVars)
  BY <1>1, <1>3 DEF Outcome, Governed!governedVars
<1>4. ASSUME NEW e \in ReasonEvidence, RequireReconciliation(e) PROVE Governed!Suspend
  <2>1. /\ row.intent = "open" /\ row.reconciliation = "clear"
        /\ row'.intent = "open" /\ row'.reconciliation = "required"
        /\ row'.generation = row.generation
    BY <1>0, <1>4 DEF RequireReconciliation, MatchesOpenState, Row
  <2>2. Phase \in {"authorized", "sent"} /\ Phase' = "suspended"
    BY <1>0, <1>1, <2>1, PhaseIs
  <2> QED BY <2>1, <2>2 DEF Governed!Suspend
<1>5. ASSUME NEW e \in ReadbackEvidence, Readback(e)
      PROVE  [Governed!GovernedNext]_(Governed!governedVars)
  <2>1. CASE ObserveOnly(e)
    BY <1>1, <2>1 DEF ObserveOnly, Governed!governedVars
  <2>2. CASE CloseIntent(e)
    <3>1. /\ row.intent = "open" /\ row.reconciliation = "clear"
          /\ row'.intent \in {"retryable", "closed"} /\ row'.generation = row.generation
      BY <1>0, <2>2 DEF CloseIntent, MatchesOpenState, Row
    <3>2. Phase \in {"authorized", "sent"}
          /\ (writes[row.generation] # 0 => Phase = "sent")
      BY <1>0, <1>1, <3>1, PhaseIs
    <3>3. CASE row'.intent = "retryable"
      <4>1. Phase' = "released" /\ Phase = "sent"
        BY <1>0, <1>1, <3>2, <3>3, PhaseIs
      <4> QED BY <3>1, <4>1 DEF Governed!Release, Governed!GovernedNext
    <3>4. CASE row'.intent = "closed"
      <4>1. Phase' = "settled"
        BY <1>0, <1>1, <3>4, PhaseIs
      <4> QED BY <3>1, <3>2, <4>1 DEF Governed!Settle, Governed!GovernedNext
    <3> QED BY <3>1, <3>3, <3>4
  <2> QED BY <1>5, <2>1, <2>2 DEF Readback
<1> QED BY <1>2, <1>3, <1>4, <1>5 DEF StateNext, Governed!GovernedNext

\* A request is a step of the governed pipeline.
LEMMA WriteIsGoverned ==
  ASSUME EdgeInv, NEW w \in Workers, Write(w)
  PROVE  Governed!Send
<1> DEFINE g == edge[w].gen
<1>1. /\ row.intent = "open" /\ row.generation = g /\ row.reconciliation = "clear"
      /\ writes[g] = 0 /\ g \in Generations
  BY ExecutionIs DEF Write, Sensible, Backed, Waiting, Owning
<1>2. row' = row /\ writes' = [writes EXCEPT ![g] = writes[g] + 1]
  BY DEF Write, stateVars
<1>3. writes'[g] = 1
  BY <1>1, <1>2 DEF EdgeInv, EdgeTypeOK
<1>4. Phase = PhaseOf(row, writes) /\ Phase' = PhaseOf(row', writes')
  BY DEF Phase, PhaseOf
<1>5. row \in Row
  BY RowNumbers DEF EdgeInv
<1> HIDE DEF g
<1>6. PhaseOf(row, writes) = "authorized" /\ PhaseOf(row, writes') = "sent"
  <2>1. row.reconciliation = "required" => row.intent = "open"
    BY <1>1
  <2>2. writes[row.generation] = 0 /\ writes'[row.generation] # 0
    BY <1>1, <1>3
  <2> QED BY <1>1, <1>5, <2>1, <2>2, PhaseIs
<1> QED BY <1>1, <1>2, <1>4, <1>6 DEF Governed!Send

\* Every step of the edge maps to a step of GovernedWrite or changes nothing
\* that GovernedWrite sees.
LEMMA StepIsGoverned ==
  ASSUME EdgeInv, [EdgeNext]_edgeVars
  PROVE  [Governed!GovernedNext]_(Governed!governedVars)
<1>1. ASSUME UNCHANGED <<row, writes>> PROVE UNCHANGED (Governed!governedVars)
  <2>1. Phase' = Phase
    BY <1>1 DEF Phase
  <2> QED BY <1>1, <2>1 DEF Governed!governedVars
<1>2. StateInv /\ StateInv' /\ writes \in [Generations -> Nat]
  BY NextKeepsEdgeInv DEF EdgeInv, EdgeTypeOK
<1>3. \A e \in IntentEvidence : Intent(e) => writes[e.generation] = 0
  <2>1. ASSUME NEW e \in IntentEvidence, Intent(e) PROVE writes[e.generation] = 0
    <3>1. e.generation \in Generations /\ NoEvent(intents, e.generation)
      BY <2>1 DEF IntentEvidence, Intent
    <3>2. writes[e.generation] \in Nat /\ writes[e.generation] <= 1 /\ writes[e.generation] # 1
      BY <1>2, <3>1 DEF EdgeInv, WriteAheadIntent, NoEvent
    <3> QED BY <3>2
  <2> QED BY <2>1
<1>4. ASSUME StateNext \/ UNCHANGED stateVars, UNCHANGED listVars,
             row'.intent = "retryable" /\ row' # row => writes[row.generation] # 0
      PROVE  [Governed!GovernedNext]_(Governed!governedVars)
  <2>1. writes' = writes
    BY <1>4 DEF listVars
  <2>2. CASE row' = row
    BY <1>1, <2>1, <2>2
  <2>3. CASE row' # row
    BY <1>2, <1>3, <1>4, <2>1, <2>3, TransactionIsGoverned DEF stateVars
  <2> QED BY <2>2, <2>3
<1>5. ASSUME NEW w \in Workers, RecordIntent(w) PROVE [Governed!GovernedNext]_(Governed!governedVars)
  <2>1. \A e : Intent(e) => row'.intent = "open"
    <3>1. row \in Row
      BY RowNumbers DEF EdgeInv
    <3>2. \A e : OpenFirst(e) => row'.intent = "open"
      BY DEF OpenFirst
    <3>3. \A e : OpenRetry(e) => row'.intent = "open"
      BY <3>1 DEF OpenRetry, Row
    <3> QED BY <3>2, <3>3 DEF Intent
  <2> QED BY <1>4, <1>5, <2>1 DEF RecordIntent, HookCall, StateNext, stateVars
<1>6. ASSUME NEW w \in Workers, RecordOutcome(w) PROVE [Governed!GovernedNext]_(Governed!governedVars)
  BY <1>1, <1>6 DEF RecordOutcome, HookCall, Outcome, stateVars, listVars
<1>7. ASSUME NEW w \in Workers, Require(w) PROVE [Governed!GovernedNext]_(Governed!governedVars)
  <2>1. edge[w].gen \in Generations /\ edge[w].run \in Runs
    BY <1>7, ExecutionIs DEF Require, Sensible, Owning, Past
  <2>2. \A code \in ReasonCodes : EventOf(edge[w], code) \in ReasonEvidence
    BY <2>1, EventIs
  <2>3. \A code : RequireReconciliation(EventOf(edge[w], code)) => row'.intent = "open"
    <3>1. row \in Row
      BY RowNumbers DEF EdgeInv
    <3> QED BY <3>1 DEF RequireReconciliation, MatchesOpenState, Row
  <2> QED BY <1>4, <1>7, <2>2, <2>3 DEF Require, HookCall, StateNext, stateVars
<1>8. ASSUME NEW w \in Workers, RecordReadback(w)
      PROVE  [Governed!GovernedNext]_(Governed!governedVars)
  <2> DEFINE s == edge[w]
             e == ReadbackOf(s)
  <2>1. s.pc = "readback" /\ Backed(s, row, intents, outcomes, readbacks, writes)
    BY <1>8, ExecutionIs DEF RecordReadback
  <2>2. ASSUME Readback(e), row'.intent = "retryable", row' # row PROVE writes[row.generation] # 0
    <3>1. e.completion = "retryable" /\ row.generation = e.generation
      <4>1. row \in Row
        BY RowNumbers DEF EdgeInv
      <4> HIDE DEF e
      <4> QED BY <2>2, <4>1 DEF Readback, CloseIntent, ObserveOnly, MatchesOpenState, Row
    <3>2. s.kind = "retryable" /\ row.generation = s.gen
      BY <3>1 DEF ReadbackOf, Completion
    <3> QED BY <2>1, <3>2 DEF Backed, Past
  <2>3. /\ (e \in ReadbackEvidence /\ Readback(e)) \/ UNCHANGED stateVars
        /\ UNCHANGED listVars
    BY <1>8 DEF RecordReadback, HookCall
  <2> HIDE DEF e
  <2>4. StateNext \/ UNCHANGED stateVars
    BY <2>3 DEF StateNext
  <2>5. row'.intent = "retryable" /\ row' # row => writes[row.generation] # 0
    BY <2>2, <2>3 DEF stateVars
  <2> QED BY <1>4, <2>3, <2>4, <2>5
<1>9. ASSUME NEW w \in Workers, NEW r \in Runs, Execute(w, r) PROVE UNCHANGED <<row, writes>>
  BY <1>9 DEF Execute, stateVars, listVars
<1>10. ASSUME LocalStep PROVE UNCHANGED <<row, writes>>
  BY <1>10 DEF LocalStep, stateVars, listVars
<1>11. ASSUME ForeignChange \/ \E g \in pending : LateRequest(g) PROVE UNCHANGED <<row, writes>>
  BY <1>11 DEF ForeignChange, LateRequest, stateVars
<1>12. ASSUME NEW w \in Workers, Step(w) PROVE [Governed!GovernedNext]_(Governed!governedVars)
  <2>1. CASE LocalStep
    BY <1>1, <1>10, <2>1
  <2>2. CASE Write(w)
    BY <2>2, WriteIsGoverned DEF Governed!GovernedNext
  <2> QED BY <1>5, <1>6, <1>7, <1>8, <1>12, <2>1, <2>2
      DEF Step, Admit, DedupeRead, FreshnessRead, CheckIntent, CheckRequire, Observe,
          ObserveItem, CheckReadback
<1>13. ASSUME NEW w \in Workers, Return(w) \/ Crash(w) PROVE LocalStep
  BY <1>13 DEF Return, Crash
<1>14. CASE UNCHANGED edgeVars
  BY <1>1, <1>14 DEF edgeVars
<1> QED BY <1>1, <1>9, <1>10, <1>11, <1>12, <1>13, <1>14 DEF EdgeNext

\* Executions of the edge, crashes, retries and late requests included,
\* implement the promise of GovernedWrite: authorized before it is sent, sent
\* at most once, and final once settled or suspended.
THEOREM EdgeIsGoverned == EdgeSpec => ImplementsGovernedWrite
<1>1. EdgeInit => Governed!GovernedInit
  BY DEF EdgeInit, StateInit, AbsentRow, Governed!GovernedInit, Phase, Generations
<1>2. EdgeInv /\ [EdgeNext]_edgeVars => [Governed!GovernedNext]_(Governed!governedVars)
  BY StepIsGoverned
<1> QED BY <1>1, <1>2, EdgeInvariance, PTL
    DEF EdgeSpec, ImplementsGovernedWrite, Governed!GovernedSpec


-----------------------------------------------------------------------------
(* A create never duplicates. *)

\* The live items of the edge in a list.
Ours(list) == {i \in DOMAIN list : list[i].live /\ list[i].own}

\* The execution is about to release its generation for another authorization.
Releasing(s) ==
  s.pc = "readback" /\ ~s.need /\ s.kind = "retryable" /\ s.obs = "not_applied"

\* A retryable response names no item: it is checked against the collection,
\* and the generation is released only if the collection was empty.
Checked(s, list) ==
  /\ s.pc \in Past /\ s.kind = "retryable" => s.item = 0
  /\ Releasing(s) => Ours(list) = {}

\* Nothing of the edge is in the list of a create before the request of the
\* current generation is sent, nor while that request is travelling.
Created(r, n, list, late) ==
  /\ \A i, j \in Ours(list) : i = j
  /\ r.intent \in {"absent", "retryable"} => Ours(list) = {}
  /\ r.intent = "open" /\ n[r.generation] = 0 => Ours(list) = {}
  /\ late # {} => Ours(list) = {}

ItemInv ==
  method = "POST" =>
    /\ Created(row, writes, items, pending)
    /\ \A w \in Workers : Checked(edge[w], items)

\* A step of an execution that leaves the list alone.
LEMMA ItemsStay ==
  ASSUME EdgeInv, ItemInv, NEW w \in Workers, NEW s, edge' = [edge EXCEPT ![w] = s],
         UNCHANGED <<method, items>>,
         method = "POST" => Checked(s, items) /\ Created(row', writes', items, pending')
  PROVE  ItemInv'
<1>1. \A v \in Workers : edge'[v] = IF v = w THEN s ELSE edge[v]
  BY DEF EdgeInv, EdgeTypeOK
<1> QED BY <1>1 DEF ItemInv

\* A step of an execution that changes nothing but its local state.
LEMMA ItemsStayQuiet ==
  ASSUME EdgeInv, ItemInv, NEW w \in Workers, NEW s, edge' = [edge EXCEPT ![w] = s], Quiet,
         method = "POST" => Checked(s, items)
  PROVE  ItemInv'
<1>1. UNCHANGED <<method, items, row, writes, pending>>
  BY DEF Quiet
<1>2. method = "POST" => Created(row', writes', items, pending')
  BY <1>1 DEF ItemInv
<1> QED BY <1>1, <1>2, ItemsStay

\* An execution that has no response to a request, or has ended, is checked.
LEMMA ElsewhereIsChecked ==
  ASSUME NEW s, s.pc \notin Past, NEW list
  PROVE  Checked(s, list)
BY DEF Checked, Releasing, Past

\* Local steps outside the handlers, returns and crashes.
LEMMA ItemsOfEarlySteps ==
  ASSUME EdgeInv, ItemInv, NEW w \in Workers,
         Admit(w) \/ DedupeRead(w) \/ FreshnessRead(w) \/ CheckIntent(w) \/ Return(w) \/ Crash(w)
  PROVE  ItemInv'
<1> DEFINE s == edge[w]
<1>0. Quiet /\ s \in Executions /\ Sensible(s)
  BY LocalIsQuiet, ExecutionIs
  DEF Admit, DedupeRead, FreshnessRead, CheckIntent, Return, Crash
<1>1. ASSUME NEW status, Become(w, Done(s, status)) PROVE ItemInv'
  <2>1. Done(s, status).pc = "done"
    BY IdleIs DEF Done, Executions
  <2> QED BY <1>0, <1>1, <2>1, ElsewhereIsChecked, ItemsStayQuiet DEF Become, Past
<1>2. CASE Return(w) \/ Crash(w)
  <2>1. Idle.pc = "idle"
    BY IdleIs
  <2>2. edge' = [edge EXCEPT ![w] = Idle]
    BY <1>2 DEF Return, Crash, Become
  <2> QED BY <1>0, <2>1, <2>2, ElsewhereIsChecked, ItemsStayQuiet DEF Past
<1>3. ASSUME NEW t, t.pc \notin Past, Become(w, t) PROVE ItemInv'
  BY <1>0, <1>3, ElsewhereIsChecked, ItemsStayQuiet DEF Become
<1>4. CASE Admit(w)
  <2> DEFINE next == IF method = "POST" THEN "dedupe" ELSE "freshness"
             t == [s EXCEPT !.seen = row.generation, !.prior = row.run, !.pc = next]
  <2>1. t.pc = next /\ next \notin Past
    BY <1>0 DEF Executions, Past
  <2>2. (\E status : Become(w, Done(s, status))) \/ Become(w, t)
    BY <1>4 DEF Admit
  <2> HIDE DEF t, next
  <2> QED BY <1>1, <1>3, <2>1, <2>2
<1>5. CASE DedupeRead(w)
  <2> DEFINE plain == [s EXCEPT !.pc = "intent", !.gen = s.seen + 1, !.kind = "write"]
             known(i) == [s EXCEPT !.pc = "intent", !.gen = s.seen + 1, !.kind = "dedupe",
                                   !.item = i, !.etag = items[i].etag]
             torn(obs) == [s EXCEPT !.pc = "intent", !.gen = s.seen + 1, !.kind = "ambiguous",
                                    !.obs = obs]
  <2>1. /\ plain.pc = "intent"
        /\ \A i : known(i).pc = "intent"
        /\ \A obs : torn(obs).pc = "intent"
    BY <1>0 DEF Executions
  <2>2. \/ \E status : Become(w, Done(s, status))
        \/ Become(w, plain) \/ (\E i : Become(w, known(i))) \/ (\E obs : Become(w, torn(obs)))
    BY <1>5 DEF DedupeRead
  <2> HIDE DEF plain, known, torn
  <2> QED BY <1>1, <1>3, <2>1, <2>2 DEF Past
<1>6. CASE FreshnessRead(w)
  <2> DEFINE plain == [s EXCEPT !.pc = "intent", !.gen = s.seen + 1, !.kind = "write"]
  <2>1. plain.pc = "intent"
    BY <1>0 DEF Executions
  <2>2. (\E status : Become(w, Done(s, status))) \/ Become(w, plain)
    BY <1>6 DEF FreshnessRead
  <2> HIDE DEF plain
  <2> QED BY <1>1, <1>3, <2>1, <2>2 DEF Past
<1>7. CASE CheckIntent(w)
  <2> DEFINE next == IF s.kind = "write" THEN "write" ELSE "outcome"
             t == [s EXCEPT !.pc = next]
  <2>1. t.pc = next /\ next \in {"write", "outcome"} /\ t.kind = s.kind
    BY <1>0 DEF Executions
  <2>2. (\E status : Become(w, Done(s, status))) \/ Become(w, t)
    BY <1>7 DEF CheckIntent
  <2>3. s.kind # "retryable"
    BY <1>0, <1>7 DEF CheckIntent, Sensible, PlanKinds
  <2> HIDE DEF t, next
  <2>4. Checked(t, items)
    BY <2>1, <2>3 DEF Checked, Releasing
  <2>5. CASE Become(w, t)
    BY <1>0, <2>4, <2>5, ItemsStayQuiet DEF Become
  <2> QED BY <1>1, <2>2, <2>5
<1> QED BY <1>2, <1>4, <1>5, <1>6, <1>7


\* The states of the handlers: the kind and the item of a response stay.
LEMMA HandlerIs ==
  ASSUME NEW s \in Executions, NEW ok \in BOOLEAN
  PROVE  /\ LET t == AfterOutcome(s, ok)
            IN t.pc \in {"require", "observe"} /\ t.kind = s.kind /\ t.item = s.item
         /\ s.place \in {"before", "after", "final"} /\ s.need =>
              LET t == AfterRequire(s, ok)
              IN t.pc = "done" \/ (t.need /\ t.kind = s.kind /\ t.item = s.item)
         /\ LET t == ReadbackFailed(s)
            IN t.pc = "done" \/ (t.pc = "require" /\ t.kind = s.kind /\ t.item = s.item)
<1>1. LET t == AfterOutcome(s, ok)
      IN t.pc \in {"require", "observe"} /\ t.kind = s.kind /\ t.item = s.item
  <2> DEFINE o == [s EXCEPT !.recorded = ok]
  <2>1. o \in Executions /\ o.kind = s.kind /\ o.item = s.item
    BY DEF Executions
  <2>2. AfterOutcome(s, ok) =
          IF MarksFirst(o) THEN [o EXCEPT !.pc = "require", !.place = "before", !.need = TRUE]
          ELSE [o EXCEPT !.pc = "observe"]
    BY DEF AfterOutcome
  <2> HIDE DEF o
  <2> QED BY <2>1, <2>2 DEF Executions
<1>2. ASSUME s.place \in {"before", "after", "final"}, s.need
      PROVE  LET t == AfterRequire(s, ok)
             IN t.pc = "done" \/ (t.need /\ t.kind = s.kind /\ t.item = s.item)
  <2> DEFINE p == [s EXCEPT !.persisted = ok]
  <2>1. p \in Executions /\ p.kind = s.kind /\ p.item = s.item /\ p.need
    BY <1>2 DEF Executions
  <2>2. /\ s.place = "final" => AfterRequire(s, ok) = Done(p, Report(p))
        /\ s.place # "final" => \E pc \in {"readback", "observe"} :
                                  AfterRequire(s, ok) = [p EXCEPT !.pc = pc]
    BY <1>2 DEF AfterRequire
  <2> HIDE DEF p
  <2>3. Done(p, Report(p)).pc = "done"
    BY IdleIs DEF Done, Executions
  <2>4. \A pc : LET t == [p EXCEPT !.pc = pc] IN t.need /\ t.kind = s.kind /\ t.item = s.item
    BY <2>1 DEF Executions
  <2> QED BY <1>2, <2>2, <2>3, <2>4
<1>3. LET t == ReadbackFailed(s)
      IN t.pc = "done" \/ (t.pc = "require" /\ t.kind = s.kind /\ t.item = s.item)
  <2>1. Done(s, Report(s)).pc = "done"
    BY IdleIs DEF Done, Executions
  <2> QED BY <2>1 DEF ReadbackFailed, Executions
<1> QED BY <1>1, <1>2, <1>3

\* A handler that is not about to release its generation.
LEMMA StillChecked ==
  ASSUME NEW s, NEW list, Checked(s, list), s.pc \in Past, NEW t,
         t.pc = "done" \/ (t.kind = s.kind /\ t.item = s.item /\ ~Releasing(t))
  PROVE  Checked(t, list)
BY DEF Checked, Releasing, Past

\* The observation of a retryable response sees the whole collection.
LEMMA ObservedIsChecked ==
  ASSUME ListOK, NEW s, Sensible(s), s.pc \in {"observe", "observeItem"}, Checked(s, items),
         NEW obs \in Reads,
         s.kind = "retryable" /\ s.item = 0 => obs \in CollectionObservations
  PROVE  Checked(AfterObserve(s, obs), items)
<1> DEFINE t == AfterObserve(s, obs)
<1>1. t.kind = s.kind /\ t.item = s.item /\ t.obs = obs
  BY ObservedIs
<1> HIDE DEF t
<1>2. s.pc \in Past
  BY DEF Past
<1>3. ASSUME Releasing(t) PROVE Ours(items) = {}
  <2>1. s.kind = "retryable" /\ s.item = 0 /\ obs = "not_applied"
    BY <1>1, <1>2, <1>3 DEF Releasing, Checked
  <2>2. CollectionState = "not_applied"
    BY <2>1 DEF CollectionObservations
  <2>3. LiveItems = {}
    BY <2>2 DEF CollectionState
  <2> QED BY <2>3 DEF LiveItems, Ours
<1> QED BY <1>1, <1>2, <1>3 DEF Checked, t

\* The local steps of the handlers.
LEMMA ItemsOfHandlers ==
  ASSUME EdgeInv, ItemInv, NEW w \in Workers,
         CheckRequire(w) \/ Observe(w) \/ ObserveItem(w) \/ CheckReadback(w)
  PROVE  ItemInv'
<1> DEFINE s == edge[w]
<1>0. Quiet /\ s \in Executions /\ Sensible(s) /\ s.pc \in Past /\ ListOK
      /\ (method = "POST" => Checked(s, items))
  BY LocalIsQuiet, ExecutionIs
  DEF CheckRequire, Observe, ObserveItem, CheckReadback, Past, ItemInv, EdgeInv, EdgeTypeOK
<1>1. ASSUME NEW t, Become(w, t), method = "POST" => Checked(t, items) PROVE ItemInv'
  BY <1>0, <1>1, ItemsStayQuiet DEF Become
<1>2. CASE CheckRequire(w)
  <2>1. PICK ok \in BOOLEAN : Become(w, AfterRequire(s, ok))
    BY <1>2 DEF CheckRequire
  <2> DEFINE t == AfterRequire(s, ok)
  <2>2. s.place \in {"before", "after", "final"} /\ s.need
    BY <1>0, <1>2 DEF CheckRequire, Sensible
  <2>3. t.pc = "done" \/ (t.need /\ t.kind = s.kind /\ t.item = s.item)
    BY <1>0, <2>2, HandlerIs
  <2>4. Become(w, t)
    BY <2>1
  <2> HIDE DEF t
  <2>5. method = "POST" => Checked(t, items)
    BY <1>0, <2>3, StillChecked DEF Releasing
  <2> QED BY <1>1, <2>4, <2>5
<1>3. CASE Observe(w)
  <2>0. s.pc = "observe"
    BY <1>3 DEF Observe
  <2>1. ASSUME NEW obs \in Reads, Become(w, AfterObserve(s, obs)),
               s.kind = "retryable" /\ s.item = 0 => obs \in CollectionObservations
        PROVE  ItemInv'
    BY <1>0, <1>1, <2>0, <2>1, ObservedIsChecked
  <2>2. ASSUME NEW i, s.kind = "conflict",
               Become(w, [s EXCEPT !.pc = "observeItem", !.item = i, !.etag = items[i].etag])
        PROVE  ItemInv'
    <3> DEFINE t == [s EXCEPT !.pc = "observeItem", !.item = i, !.etag = items[i].etag]
    <3>1. t.kind = "conflict"
      BY <1>0, <2>2 DEF Executions
    <3>2. Become(w, t)
      BY <2>2
    <3> HIDE DEF t
    <3>3. Checked(t, items)
      BY <3>1 DEF Checked, Releasing
    <3> QED BY <1>1, <3>2, <3>3
  <2>3. SameItemObservations(s) \subseteq Reads /\ "invalid" \in Reads
    BY ListIs DEF SameItemObservations, Reads
  <2>4. CASE s.kind = "dedupe" /\ \E obs \in SameItemObservations(s) : Become(w, AfterObserve(s, obs))
    BY <2>1, <2>3, <2>4
  <2>5. CASE s.kind = "conflict" /\ Become(w, AfterObserve(s, "invalid"))
    BY <2>1, <2>3, <2>5
  <2>6. CASE \E obs \in IF s.item = 0 THEN CollectionObservations ELSE ItemObservations(s.item) :
               Become(w, AfterObserve(s, obs))
    BY <2>1, <2>6, ListIs
  <2> QED BY <1>3, <2>2, <2>4, <2>5, <2>6 DEF Observe
<1>4. CASE ObserveItem(w)
  <2>1. SameItemObservations(s) \subseteq Reads
    BY ListIs DEF SameItemObservations, Reads
  <2>2. PICK obs \in SameItemObservations(s) : Become(w, AfterObserve(s, obs))
    BY <1>4 DEF ObserveItem
  <2>3. s.pc = "observeItem" /\ s.kind = "conflict"
    BY <1>0, <1>4 DEF ObserveItem, Sensible
  <2> QED BY <1>0, <1>1, <2>1, <2>2, <2>3, ObservedIsChecked
<1>5. CASE CheckReadback(w)
  <2>1. Done(s, Report(s)).pc = "done"
    BY IdleIs DEF Done, Executions
  <2>2. CASE Become(w, Done(s, Report(s)))
    BY <1>1, <2>1, <2>2, ElsewhereIsChecked DEF Past
  <2>3. CASE Become(w, ReadbackFailed(s))
    <3> DEFINE t == ReadbackFailed(s)
    <3>1. t.pc = "done" \/ (t.pc = "require" /\ t.kind = s.kind /\ t.item = s.item)
      BY <1>0, HandlerIs
    <3>2. Become(w, t)
      BY <2>3
    <3> HIDE DEF t
    <3>3. method = "POST" => Checked(t, items)
      BY <1>0, <3>1, StillChecked DEF Releasing
    <3> QED BY <1>1, <3>2, <3>3
  <2> QED BY <1>5, <2>2, <2>3 DEF CheckReadback
<1> QED BY <1>2, <1>3, <1>4, <1>5


\* The hook calls.
LEMMA ItemsOfHookCalls ==
  ASSUME EdgeInv, ItemInv, NEW w \in Workers,
         RecordIntent(w) \/ RecordOutcome(w) \/ Require(w) \/ RecordReadback(w)
  PROVE  ItemInv'
<1> DEFINE s == edge[w]
<1>0. /\ s \in Executions /\ Sensible(s) /\ row \in Row
      /\ method = "POST" => Checked(s, items) /\ Created(row, writes, items, pending)
  BY ExecutionIs, RowNumbers DEF ItemInv, EdgeInv
<1>1. ASSUME NEW t, edge' = [edge EXCEPT ![w] = t], UNCHANGED listVars,
             method = "POST" => Checked(t, items) /\ Created(row', writes, items, pending)
      PROVE  ItemInv'
  <2>1. UNCHANGED <<method, items, writes, pending>>
    BY <1>1 DEF listVars
  <2> QED BY <1>1, <2>1, ItemsStay
<1>2. CASE RecordIntent(w)
  <2> DEFINE e == IntentOf(s)
             t == [s EXCEPT !.pc = "intentCheck"]
             d == Done(s, "BLOCKED_EVIDENCE")
  <2>1. t.pc = "intentCheck" /\ d.pc = "done"
    BY <1>0, IdleIs DEF Done, Executions
  <2>2. /\ Intent(e) \/ Quiet
        /\ edge' = [edge EXCEPT ![w] = t] \/ edge' = [edge EXCEPT ![w] = d]
        /\ UNCHANGED listVars
    <3>1. HookCall(w, e \in IntentEvidence /\ Intent(e), t, d)
      BY <1>2 DEF RecordIntent
    <3> HIDE DEF e, t, d, s
    <3> QED BY <3>1, CallEnds
  <2> HIDE DEF t, d, e
  <2>3. Checked(t, items) /\ Checked(d, items)
    BY <2>1, ElsewhereIsChecked DEF Past
  <2>4. method = "POST" => Created(row', writes, items, pending)
    <3>1. CASE Intent(e)
      <4>1. row.intent \in {"absent", "retryable"}
        BY <3>1 DEF Intent, OpenFirst, OpenRetry
      <4> QED BY <1>0, <4>1 DEF Created
    <3>2. CASE Quiet
      BY <1>0, <3>2 DEF Quiet
    <3> QED BY <2>2, <3>1, <3>2
  <2> QED BY <1>1, <2>2, <2>3, <2>4
<1>3. CASE RecordOutcome(w)
  <2>0. s.pc \in Past
    BY <1>3 DEF RecordOutcome, Past
  <2>1. /\ row' = row /\ UNCHANGED listVars
        /\ \E ok \in BOOLEAN : edge' = [edge EXCEPT ![w] = AfterOutcome(s, ok)]
    BY <1>3 DEF RecordOutcome, HookCall, Become, Outcome, stateVars
  <2>2. PICK ok \in BOOLEAN : edge' = [edge EXCEPT ![w] = AfterOutcome(s, ok)]
    BY <2>1
  <2> DEFINE t == AfterOutcome(s, ok)
  <2>3. t.pc \in {"require", "observe"} /\ t.kind = s.kind /\ t.item = s.item
    BY <1>0, HandlerIs
  <2>4. edge' = [edge EXCEPT ![w] = t]
    BY <2>2
  <2> HIDE DEF t
  <2>5. method = "POST" => Checked(t, items)
    BY <1>0, <2>0, <2>3, StillChecked DEF Releasing
  <2> QED BY <1>0, <1>1, <2>1, <2>4, <2>5
<1>4. CASE Require(w)
  <2>0. s.pc \in Past /\ s.place \in {"before", "after", "final"} /\ s.need
    BY <1>0, <1>4 DEF Require, Sensible, Past
  <2> DEFINE t == [s EXCEPT !.pc = "requireCheck"]
             f == AfterRequire(s, FALSE)
  <2>1. /\ (\E code : RequireReconciliation(EventOf(s, code))) \/ row' = row
        /\ edge' = [edge EXCEPT ![w] = t] \/ edge' = [edge EXCEPT ![w] = f]
        /\ UNCHANGED listVars
    BY <1>4 DEF Require, HookCall, Become, stateVars
  <2>2. t.pc = "requireCheck" /\ t.kind = s.kind /\ t.item = s.item
    BY <1>0 DEF Executions
  <2>3. f.pc = "done" \/ (f.need /\ f.kind = s.kind /\ f.item = s.item)
    BY <1>0, <2>0, HandlerIs
  <2> HIDE DEF t, f
  <2>4. method = "POST" => Checked(t, items) /\ Checked(f, items)
    BY <1>0, <2>0, <2>2, <2>3, StillChecked DEF Releasing
  <2>5. row'.intent = row.intent /\ row'.generation = row.generation
    BY <1>0, <2>1 DEF RequireReconciliation, Row
  <2>6. method = "POST" => Created(row', writes, items, pending)
    BY <1>0, <2>5 DEF Created
  <2> QED BY <1>1, <2>1, <2>4, <2>6
<1>5. CASE RecordReadback(w)
  <2>0. s.pc = "readback" /\ s.pc \in Past
    BY <1>5 DEF RecordReadback, Past
  <2> DEFINE t == [s EXCEPT !.pc = "readbackCheck"]
             f == ReadbackFailed(s)
             e == ReadbackOf(s)
  <2>1. /\ Readback(e) \/ row' = row
        /\ edge' = [edge EXCEPT ![w] = t] \/ edge' = [edge EXCEPT ![w] = f]
        /\ UNCHANGED listVars
    BY <1>5 DEF RecordReadback, HookCall, Become, stateVars
  <2>2. t.pc = "readbackCheck" /\ t.kind = s.kind /\ t.item = s.item
    BY <1>0 DEF Executions
  <2>3. f.pc = "done" \/ (f.pc = "require" /\ f.kind = s.kind /\ f.item = s.item)
    BY <1>0, HandlerIs
  <2>4. /\ e.close = ~s.need
        /\ e.completion = "retryable" => s.kind = "retryable" /\ s.obs = "not_applied"
    BY DEF ReadbackOf, Completion
  <2> HIDE DEF t, f, e
  <2>5. method = "POST" => Checked(t, items) /\ Checked(f, items)
    BY <1>0, <2>0, <2>2, <2>3, StillChecked DEF Releasing
  <2>6. \/ row' = row
        \/ row'.intent = "closed"
        \/ row'.intent = "retryable" /\ e.close /\ e.completion = "retryable"
    BY <1>0, <2>1 DEF Readback, CloseIntent, ObserveOnly, Row
  <2>7. method = "POST" => Created(row', writes, items, pending)
    <3>1. CASE row' = row
      BY <1>0, <3>1
    <3>2. CASE row'.intent = "closed"
      BY <1>0, <3>2 DEF Created
    <3>3. CASE row'.intent = "retryable" /\ e.close /\ e.completion = "retryable"
      <4>1. Releasing(s)
        BY <2>0, <2>4, <3>3 DEF Releasing
      <4> QED BY <1>0, <4>1 DEF Created, Checked
    <3> QED BY <2>6, <3>1, <3>2, <3>3
  <2> QED BY <1>1, <2>1, <2>5, <2>7
<1> QED BY <1>2, <1>3, <1>4, <1>5

\* A create appends one item of the edge.
LEMMA CreateIs ==
  ASSUME ListOK, method = "POST"
  PROVE  Ours(AfterWrite) = Ours(items) \cup {Len(items) + 1}
<1> DEFINE i == [live |-> TRUE, applied |-> TRUE, etag |-> 0, own |-> TRUE]
           list == Append(items, i)
<1>1. i.live /\ i.own /\ i \in ListItem
  BY DEF ListItem
<1>2. AfterWrite = list
  BY DEF AfterWrite
<1> HIDE DEF i
<1>3. items \in Seq(ListItem) /\ Len(items) \in Nat
  BY DEF ListOK
<1>4. /\ DOMAIN list = 1 .. (Len(items) + 1) /\ DOMAIN items = 1 .. Len(items)
      /\ \A j \in 1 .. Len(items) : list[j] = items[j]
      /\ list[Len(items) + 1] = i
  BY <1>1, <1>3
<1> HIDE DEF list
<1>5. DOMAIN list = DOMAIN items \cup {Len(items) + 1}
  BY <1>3, <1>4
<1> QED BY <1>1, <1>2, <1>4, <1>5 DEF Ours

\* A request of an execution creates at most one item, where there was none.
LEMMA ItemsOfWrite ==
  ASSUME EdgeInv, ItemInv, NEW w \in Workers, Write(w)
  PROVE  ItemInv'
<1> DEFINE s == edge[w]
<1>0. /\ s.pc = "write" /\ s \in Executions /\ s.gen \in Generations
      /\ row.intent = "open" /\ row.generation = s.gen /\ writes[s.gen] = 0
      /\ writes \in [Generations -> Nat] /\ ListOK
  BY ExecutionIs DEF Write, Sensible, Backed, Waiting, Owning, EdgeInv, EdgeTypeOK
<1>1. row' = row /\ method' = method /\ writes'[s.gen] # 0
  BY <1>0 DEF Write, stateVars
<1> SUFFICES ASSUME method = "POST"
             PROVE  /\ Created(row', writes', items', pending')
                    /\ \A v \in Workers : Checked(edge'[v], items')
  BY <1>1 DEF ItemInv
<1>2. Ours(items) = {} /\ \A v \in Workers : Checked(edge[v], items)
  BY <1>0 DEF ItemInv, Created
<1>3. pending = {}
  BY <1>0 DEF EdgeInv, PendingIsUnclear
<1>4. PICK kind, named :
        /\ edge' = [edge EXCEPT ![w] = [s EXCEPT !.pc = "outcome", !.kind = kind,
                                                 !.item = ReadTarget(named)]]
        /\ kind = "retryable" => named = 0
        /\ \/ items' = AfterWrite /\ pending' = pending
           \/ items' = items
  <2>1. CASE WriteTakesEffect(w)
    BY <2>1 DEF WriteTakesEffect, Responds, Become
  <2>2. CASE WriteHasNoEffect(w)
    BY <2>2 DEF WriteHasNoEffect, Responds, Become
  <2>3. CASE WriteStaysInFlight(w)
    BY <2>3 DEF WriteStaysInFlight, Responds, Become
  <2> QED BY <2>1, <2>2, <2>3 DEF Write
<1> DEFINE t == [s EXCEPT !.pc = "outcome", !.kind = kind, !.item = ReadTarget(named)]
<1>5. t.pc = "outcome" /\ t.kind = kind /\ t.item = ReadTarget(named)
  BY <1>0 DEF Executions
<1>6. \A v \in Workers : edge'[v] = IF v = w THEN t ELSE edge[v]
  BY <1>4 DEF EdgeInv, EdgeTypeOK
<1> HIDE DEF t
<1>7. Checked(t, items')
  BY <1>4, <1>5 DEF Checked, Releasing, ReadTarget
<1>8. ASSUME NEW v \in Workers, v # w PROVE Checked(edge[v], items')
  <2>1. ~Releasing(edge[v])
    <3>1. SUFFICES ASSUME Releasing(edge[v]) PROVE FALSE
      OBVIOUS
    <3>2. edge[v].pc = "readback"
      BY <3>1 DEF Releasing
    <3>3. row.generation = edge[v].gen
      BY <3>2, ExecutionIs DEF Backed, Waiting
    <3> QED BY <1>0, <1>8, <3>2, <3>3 DEF EdgeInv, OneOwner, Owning, Past
  <2> QED BY <1>2, <2>1 DEF Checked
<1>9. Created(row', writes', items', pending')
  <2>1. CASE items' = AfterWrite /\ pending' = pending
    <3>1. Ours(items') = {Len(items) + 1}
      BY <1>0, <1>2, <2>1, CreateIs
    <3> QED BY <1>0, <1>1, <1>3, <2>1, <3>1 DEF Created
  <2>2. CASE items' = items
    BY <1>2, <2>2 DEF Created
  <2> QED BY <1>4, <2>1, <2>2
<1> QED BY <1>6, <1>7, <1>8, <1>9

\* A request that arrives late is the only one of its generation.
LEMMA ItemsOfLateRequest ==
  ASSUME EdgeInv, ItemInv, NEW g \in pending, LateRequest(g)
  PROVE  ItemInv'
<1>0. /\ row.intent = "open" /\ row.generation = g /\ writes[g] = 1 /\ ListOK
      /\ \A h \in pending : h = g
      /\ \A w \in Workers : Travelling(g, edge[w])
  BY DEF EdgeInv, PendingIsUnclear, EdgeTypeOK
<1>1. /\ UNCHANGED <<row, method, edge, writes>> /\ pending' = {}
      /\ items' = items \/ items' = AfterWrite
  BY <1>0 DEF LateRequest, stateVars
<1> SUFFICES ASSUME method = "POST"
             PROVE  /\ Created(row, writes, items', pending')
                    /\ \A v \in Workers : Checked(edge[v], items')
  BY <1>1 DEF ItemInv
<1>2. Ours(items) = {} /\ \A v \in Workers : Checked(edge[v], items)
  BY DEF ItemInv, Created
<1>3. \A i, j \in Ours(items') : i = j
  <2>1. CASE items' = AfterWrite
    BY <1>0, <1>2, <2>1, CreateIs
  <2>2. CASE items' = items
    BY <1>2, <2>2
  <2> QED BY <1>1, <2>1, <2>2
<1>4. ASSUME NEW v \in Workers PROVE Checked(edge[v], items')
  <2>1. ~Releasing(edge[v])
    <3>1. SUFFICES ASSUME Releasing(edge[v]) PROVE FALSE
      OBVIOUS
    <3>2. edge[v].pc = "readback" /\ edge[v].kind = "retryable"
      BY <3>1 DEF Releasing
    <3>3. row.generation = edge[v].gen
      BY <3>2, ExecutionIs DEF Backed, Waiting
    <3> QED BY <1>0, <3>2, <3>3 DEF Travelling, Owning, Past
  <2> QED BY <1>2, <2>1 DEF Checked
<1> QED BY <1>0, <1>1, <1>3, <1>4 DEF Created


\* Other editors add nothing of the edge.
LEMMA ItemsOfForeignChange ==
  ASSUME EdgeInv, ItemInv, ForeignChange
  PROVE  ItemInv'
<1>0. items \in Seq(ListItem) /\ DOMAIN items = 1 .. Len(items) /\ Len(items) \in Nat
  BY DEF EdgeInv, EdgeTypeOK, ListOK
<1>1. UNCHANGED <<row, method, edge, writes, pending>>
  BY DEF ForeignChange, stateVars
<1>2. Ours(items') \subseteq Ours(items)
  <2>1. ASSUME NEW i \in LiveItems, NEW a \in BOOLEAN,
               items' = [items EXCEPT ![i].applied = a, ![i].etag = @ + 1]
        PROVE  Ours(items') \subseteq Ours(items)
    <3>1. i \in DOMAIN items /\ items[i] \in ListItem
      BY <1>0 DEF LiveItems
    <3>2. DOMAIN items' = DOMAIN items /\ \A j \in DOMAIN items : j # i => items'[j] = items[j]
      BY <2>1
    <3>3. items'[i] = [[items[i] EXCEPT !.applied = a] EXCEPT !.etag = items[i].etag + 1]
      BY <2>1, <3>1 DEF ListItem
    <3>4. items'[i].live = items[i].live /\ items'[i].own = items[i].own
      BY <3>1, <3>3 DEF ListItem
    <3> QED BY <3>2, <3>4 DEF Ours
  <2>2. ASSUME NEW i \in LiveItems, items' = [items EXCEPT ![i].live = FALSE]
        PROVE  Ours(items') \subseteq Ours(items)
    <3>1. i \in DOMAIN items /\ items[i] \in ListItem
      BY <1>0 DEF LiveItems
    <3>2. /\ DOMAIN items' = DOMAIN items /\ \A j \in DOMAIN items : j # i => items'[j] = items[j]
          /\ items'[i] = [items[i] EXCEPT !.live = FALSE]
      BY <2>2, <3>1
    <3>3. items'[i].live = FALSE
      BY <3>1, <3>2 DEF ListItem
    <3> QED BY <3>2, <3>3 DEF Ours
  <2>3. ASSUME NEW a \in BOOLEAN,
               items' = Append(items, [live |-> TRUE, applied |-> a, etag |-> 0, own |-> FALSE])
        PROVE  Ours(items') \subseteq Ours(items)
    <3> DEFINE i == [live |-> TRUE, applied |-> a, etag |-> 0, own |-> FALSE]
    <3>1. ~i.own /\ i \in ListItem
      BY DEF ListItem
    <3>2. items' = Append(items, i)
      BY <2>3
    <3> HIDE DEF i
    <3>3. /\ DOMAIN items' = 1 .. (Len(items) + 1)
          /\ \A j \in 1 .. Len(items) : items'[j] = items[j]
          /\ items'[Len(items) + 1] = i
      BY <1>0, <3>1, <3>2
    <3>4. \A j \in DOMAIN items' : j \in DOMAIN items \/ j = Len(items) + 1
      BY <1>0, <3>3
    <3> QED BY <1>0, <3>1, <3>3, <3>4 DEF Ours
  <2> QED BY <2>1, <2>2, <2>3 DEF ForeignChange
<1>3. ASSUME method = "POST"
      PROVE  /\ Created(row, writes, items', pending)
             /\ \A w \in Workers : Checked(edge[w], items')
  BY <1>2, <1>3 DEF ItemInv, Created, Checked
<1> QED BY <1>1, <1>3 DEF ItemInv

\* Every step keeps the list of a create.
LEMMA NextKeepsItemInv == EdgeInv /\ ItemInv /\ [EdgeNext]_edgeVars => ItemInv'
<1> SUFFICES ASSUME EdgeInv, ItemInv, [EdgeNext]_edgeVars PROVE ItemInv'
  OBVIOUS
<1>1. ASSUME NEW w \in Workers, NEW r \in Runs, Execute(w, r) PROVE ItemInv'
  <2> DEFINE b == [Idle EXCEPT !.run = r]
             s == [Idle EXCEPT !.pc = "admit", !.run = r]
             d == Done(b, "BLOCKED_PLAN")
  <2>1. s.pc = "admit" /\ d.pc = "done"
    BY IdleIs DEF Done, Executions
  <2>2. Quiet /\ (edge' = [edge EXCEPT ![w] = s] \/ edge' = [edge EXCEPT ![w] = d])
    BY <1>1 DEF Execute, Become, Quiet, stateVars, listVars
  <2> HIDE DEF s, d
  <2>3. Checked(s, items) /\ Checked(d, items)
    BY <2>1, ElsewhereIsChecked DEF Past
  <2> QED BY <2>2, <2>3, ItemsStayQuiet
<1>2. ASSUME NEW w \in Workers, Step(w) \/ Return(w) \/ Crash(w) PROVE ItemInv'
  BY <1>2, ItemsOfEarlySteps, ItemsOfHandlers, ItemsOfHookCalls, ItemsOfWrite DEF Step
<1>3. CASE ForeignChange
  BY <1>3, ItemsOfForeignChange
<1>4. ASSUME NEW g \in pending, LateRequest(g) PROVE ItemInv'
  BY <1>4, ItemsOfLateRequest
<1>5. CASE UNCHANGED edgeVars
  BY <1>5 DEF edgeVars, ItemInv
<1> QED BY <1>1, <1>2, <1>3, <1>4, <1>5 DEF EdgeNext

\* A create never duplicates: at most one live item was made by the edge, in
\* spite of retries, lost responses and requests that land late.
THEOREM SingleItem == EdgeSpec => []OneOwnItem
<1>1. EdgeInit => ItemInv
  <2> SUFFICES ASSUME EdgeInit, method = "POST"
               PROVE  /\ Created(row, writes, items, pending)
                      /\ \A w \in Workers : Checked(edge[w], items)
    BY DEF ItemInv
  <2>1. /\ items = << >> \/ items = << Existing(TRUE) >>
        /\ pending = {} /\ \A w \in Workers : edge[w] = Idle
    BY DEF EdgeInit
  <2>2. Ours(items) = {}
    <3>1. PICK i : i = Existing(TRUE)
      OBVIOUS
    <3>2. ~i.own
      BY <3>1 DEF Existing
    <3>3. items = << >> \/ items = << i >>
      BY <2>1, <3>1
    <3>4. CASE items = << >>
      BY <3>4 DEF Ours
    <3>5. CASE items = << i >>
      <4>1. \A k \in DOMAIN items : items[k] = i
        BY <3>5
      <4> QED BY <3>2, <4>1 DEF Ours
    <3> QED BY <3>3, <3>4, <3>5
  <2>3. \A w \in Workers : Checked(edge[w], items)
    BY <2>1, IdleIs, ElsewhereIsChecked DEF Past
  <2> QED BY <2>2, <2>3 DEF Created
<1>2. EdgeInv /\ ItemInv => OneOwnItem
  <2> SUFFICES ASSUME EdgeInv, ItemInv PROVE OneOwnItem
    OBVIOUS
  <2> DEFINE mine == {i \in LiveItems : items[i].own}
  <2>1. mine = Ours(items)
    BY DEF LiveItems, Ours
  <2>2. \A i, j \in mine : i = j
    <3>1. CASE method = "POST"
      BY <2>1, <3>1 DEF ItemInv, Created
    <3>2. CASE method = "PATCH"
      <4>1. Len(items) = 1
        BY <3>2 DEF EdgeInv, EdgeTypeOK, ListOK
      <4>2. \A i \in mine : i \in 1 .. Len(items)
        BY ListIs
      <4> QED BY <4>1, <4>2
    <3> QED BY <3>1, <3>2 DEF EdgeInv, EdgeTypeOK, ListOK
  <2> HIDE DEF mine
  <2>3. CASE mine = {}
    <3>1. Cardinality(mine) = 0
      BY <2>3, FS_EmptySet
    <3> QED BY <3>1 DEF OneOwnItem, mine
  <2>4. ASSUME NEW i \in mine PROVE OneOwnItem
    <3>1. mine = {i}
      BY <2>2
    <3>2. Cardinality(mine) = 1
      BY <3>1, FS_Singleton
    <3> QED BY <3>2 DEF OneOwnItem, mine
  <2> QED BY <2>3, <2>4
<1> QED BY <1>1, <1>2, NextKeepsItemInv, EdgeInvariance, PTL DEF EdgeSpec

-----------------------------------------------------------------------------
(* Other editors of the list. *)

\* A request changes no item of the list but the one its If-Match names.
LEMMA RequestIsConditional ==
  ASSUME ListOK, Applicable, NEW list, list = AfterWrite,
         NEW i \in DOMAIN items, list[i] # items[i]
  PROVE  method = "PATCH" /\ items[i].live /\ items[i].etag = ExpectedEtag
<1>1. items \in Seq(ListItem) /\ i \in 1 .. Len(items) /\ Len(items) \in Nat
  BY DEF ListOK
<1>2. CASE method = "POST"
  <2> DEFINE new == [live |-> TRUE, applied |-> TRUE, etag |-> 0, own |-> TRUE]
  <2>1. list = Append(items, new)
    BY <1>2 DEF AfterWrite
  <2> HIDE DEF new
  <2> QED BY <1>1, <2>1
<1>3. CASE method = "PATCH"
  <2>1. i = TargetItem
    BY <1>1, <1>3 DEF ListOK, TargetItem
  <2> QED BY <1>3, <2>1 DEF Applicable
<1> QED BY <1>2, <1>3 DEF ListOK

\* Whatever happens to the item between the freshness read and the arrival of the
\* request, in time or late: no change of another editor is overwritten.
THEOREM UpdatesAreNotLost == EdgeSpec => NoLostUpdate
<1> DEFINE Counted == foreign \in Nat
           Safe == foreign' = foreign =>
                     \A i \in DOMAIN items :
                       items'[i] # items[i] =>
                         method = "PATCH" /\ items[i].live /\ items[i].etag = ExpectedEtag
<1>1. EdgeInit => Counted
  BY DEF EdgeInit
<1>2. Counted /\ [EdgeNext]_edgeVars => Counted'
  <2> SUFFICES ASSUME Counted, [EdgeNext]_edgeVars PROVE Counted'
    OBVIOUS
  <2>1. foreign' = foreign \/ foreign' = foreign + 1
    BY DEF EdgeNext, Execute, Step, Admit, DedupeRead, FreshnessRead, RecordIntent, CheckIntent,
           Write, RecordOutcome, Require, CheckRequire, Observe, ObserveItem, RecordReadback,
           CheckReadback, HookCall, LocalStep, Return, Crash, ForeignChange, LateRequest, edgeVars
  <2> QED BY <2>1
<1>3. EdgeInv /\ Counted /\ [EdgeNext]_edgeVars => [Safe]_edgeVars
  <2> SUFFICES ASSUME EdgeInv, Counted, EdgeNext, foreign' = foreign,
                      NEW i \in DOMAIN items, items'[i] # items[i]
               PROVE  method = "PATCH" /\ items[i].live /\ items[i].etag = ExpectedEtag
    OBVIOUS
  <2>1. ListOK
    BY DEF EdgeInv, EdgeTypeOK
  <2>2. ~ForeignChange
    BY DEF ForeignChange
  <2>3. items' # items
    OBVIOUS
  <2>4. \/ \E w \in Workers : Write(w)
        \/ \E g \in pending : LateRequest(g)
    BY <2>2, <2>3
       DEF EdgeNext, Execute, Step, Admit, DedupeRead, FreshnessRead, RecordIntent, CheckIntent,
           RecordOutcome, Require, CheckRequire, Observe, ObserveItem, RecordReadback,
           CheckReadback, HookCall, LocalStep, Return, Crash, listVars
  <2>5. Applicable /\ items' = AfterWrite
    <3>1. ASSUME NEW w \in Workers, Write(w) PROVE Applicable /\ items' = AfterWrite
      BY <2>3, <3>1 DEF Write, WriteTakesEffect, WriteHasNoEffect, WriteStaysInFlight
    <3>2. ASSUME NEW g \in pending, LateRequest(g) PROVE Applicable /\ items' = AfterWrite
      BY <2>3, <3>2 DEF LateRequest
    <3> QED BY <2>4, <3>1, <3>2
  <2> QED BY <2>1, <2>5, RequestIsConditional
<1> QED BY <1>1, <1>2, <1>3, EdgeInvariance, PTL DEF EdgeSpec, NoLostUpdate

\* A read of the item that must find the ETag of the collection: what it calls
\* applied is the item that was seen.
LEMMA SameItemIs ==
  ASSUME NEW s, "applied" \in SameItemObservations(s)
  PROVE  /\ s.item \in LiveItems /\ items[s.item].applied
         /\ items[s.item].etag = s.etag
BY DEF SameItemObservations, ItemObservations, ItemState

\* A step of an execution that makes no observation of an existing item.
LEMMA OtherStepsObserveNothing ==
  ASSUME EdgeInv, NEW w \in Workers, Step(w), ~Observe(w), ~ObserveItem(w),
         edge[w].obs = "none"
  PROVE  edge'[w].obs # "applied"
<1> DEFINE s == edge[w]
<1>0. s \in Executions /\ edge \in [Workers -> Executions]
  BY DEF EdgeInv, EdgeTypeOK
<1>1. \A t, r : Done(t, r).obs = "none"
  BY DEF Done, Idle
<1>11. \A t : Become(w, t) /\ t.obs # "applied" => edge'[w].obs # "applied"
  BY <1>0 DEF Become
<1>12. \A r : Become(w, Done(s, r)) => edge'[w].obs # "applied"
  BY <1>1, <1>11
<1>2. CASE Admit(w)
  <2>1. \A seen, prior, pc : [s EXCEPT !.seen = seen, !.prior = prior, !.pc = pc].obs = "none"
    BY <1>0 DEF Executions
  <2> QED BY <1>2, <1>11, <1>12, <2>1 DEF Admit
<1>3. CASE DedupeRead(w)
  <2>1. \A g, i, e :
          /\ [s EXCEPT !.pc = "intent", !.gen = g, !.kind = "write"].obs = "none"
          /\ [s EXCEPT !.pc = "intent", !.gen = g, !.kind = "dedupe", !.item = i,
                       !.etag = e].obs = "none"
    BY <1>0 DEF Executions
  <2>2. \A g, obs : [s EXCEPT !.pc = "intent", !.gen = g, !.kind = "ambiguous",
                             !.obs = obs].obs = obs
    BY <1>0 DEF Executions
  <2>3. \/ \E r : Become(w, Done(s, r))
        \/ \E g : Become(w, [s EXCEPT !.pc = "intent", !.gen = g, !.kind = "write"])
        \/ \E g, i, e : Become(w, [s EXCEPT !.pc = "intent", !.gen = g, !.kind = "dedupe",
                                             !.item = i, !.etag = e])
        \/ \E g, obs : /\ obs \in {"paged", "duplicate", "divergent"}
                        /\ Become(w, [s EXCEPT !.pc = "intent", !.gen = g,
                                               !.kind = "ambiguous", !.obs = obs])
    BY <1>3 DEF DedupeRead
  <2>4. ASSUME NEW g, NEW obs \in {"paged", "duplicate", "divergent"},
               Become(w, [s EXCEPT !.pc = "intent", !.gen = g, !.kind = "ambiguous", !.obs = obs])
        PROVE  edge'[w].obs # "applied"
    BY <1>11, <2>2, <2>4
  <2> QED BY <1>11, <1>12, <2>1, <2>3, <2>4
<1>4. CASE FreshnessRead(w)
  <2>1. \A g : [s EXCEPT !.pc = "intent", !.gen = g, !.kind = "write"].obs = "none"
    BY <1>0 DEF Executions
  <2> QED BY <1>4, <1>11, <1>12, <2>1 DEF FreshnessRead
<1>5. CASE RecordIntent(w)
  BY <1>0, <1>1, <1>5 DEF RecordIntent, HookCall, Become, Executions
<1>6. CASE CheckIntent(w)
  BY <1>0, <1>1, <1>6 DEF CheckIntent, Become, Executions
<1>7. CASE Write(w)
  <2>1. \E kind, item : edge' = [edge EXCEPT ![w] = [s EXCEPT !.pc = "outcome", !.kind = kind,
                                                                !.item = item]]
    BY <1>7 DEF Write, WriteTakesEffect, WriteHasNoEffect, WriteStaysInFlight, Responds, Become
  <2> QED BY <1>0, <2>1 DEF Executions
<1>8. CASE RecordOutcome(w)
  <2>1. \E ok \in BOOLEAN : edge' = [edge EXCEPT ![w] = AfterOutcome(s, ok)]
    BY <1>8 DEF RecordOutcome, HookCall, Become
  <2>2. \A ok : AfterOutcome(s, ok).obs = "none"
    BY <1>0 DEF AfterOutcome, Executions
  <2> QED BY <1>0, <2>1, <2>2
<1>9. CASE Require(w) \/ CheckRequire(w)
  <2>1. \/ edge' = [edge EXCEPT ![w] = [s EXCEPT !.pc = "requireCheck"]]
        \/ \E ok \in BOOLEAN : edge' = [edge EXCEPT ![w] = AfterRequire(s, ok)]
    BY <1>9 DEF Require, CheckRequire, HookCall, Become
  <2>2. s.place \in {"before", "after", "final"}
    BY <1>9, ExecutionIs DEF Sensible, Require, CheckRequire
  <2>3. \A ok : AfterRequire(s, ok).obs = "none"
    BY <1>0, <1>1, <2>2 DEF AfterRequire, Executions
  <2> QED BY <1>0, <2>1, <2>3 DEF Executions
<1>10. CASE RecordReadback(w) \/ CheckReadback(w)
  <2>1. \/ edge' = [edge EXCEPT ![w] = [s EXCEPT !.pc = "readbackCheck"]]
        \/ edge' = [edge EXCEPT ![w] = ReadbackFailed(s)]
        \/ edge' = [edge EXCEPT ![w] = Done(s, Report(s))]
    BY <1>10 DEF RecordReadback, CheckReadback, HookCall, Become
  <2>2. ReadbackFailed(s).obs = "none"
    BY <1>0, <1>1 DEF ReadbackFailed, Executions
  <2> QED BY <1>0, <1>1, <2>1, <2>2 DEF Executions
<1> QED BY <1>2, <1>3, <1>4, <1>5, <1>6, <1>7, <1>8, <1>9, <1>10 DEF Step

\* The observation of an execution that deduplicates or met a conflict.
LEMMA ExistingItemIs ==
  ASSUME EdgeInv, NEW w \in Workers, Observe(w) \/ ObserveItem(w),
         edge[w].kind \in {"dedupe", "conflict"}, edge[w].obs = "none",
         edge'[w].obs = "applied"
  PROVE  "applied" \in SameItemObservations(edge[w])
<1> DEFINE s == edge[w]
<1>0. /\ s \in Executions /\ edge \in [Workers -> Executions]
      /\ Sensible(s) /\ s.pc \in {"observe", "observeItem"}
  BY ExecutionIs DEF EdgeInv, EdgeTypeOK, Observe, ObserveItem
<1>1. SameItemObservations(s) \subseteq Reads
  BY DEF SameItemObservations, ItemObservations, ItemState, Reads
<1>2. ASSUME NEW obs \in SameItemObservations(s), Become(w, AfterObserve(s, obs))
      PROVE  "applied" \in SameItemObservations(s)
  <2>1. edge'[w] = AfterObserve(s, obs)
    BY <1>0, <1>2 DEF Become
  <2>2. AfterObserve(s, obs).obs = obs
    BY <1>0, <1>1, ObservedIs
  <2> QED BY <2>1, <2>2
<1>3. ~Become(w, AfterObserve(s, "invalid"))
  <2>1. AfterObserve(s, "invalid").obs = "invalid"
    BY <1>0, ObservedIs DEF Reads
  <2> QED BY <1>0, <2>1 DEF Become
<1>4. \A i, e : ~Become(w, [s EXCEPT !.pc = "observeItem", !.item = i, !.etag = e])
  BY <1>0 DEF Become, Executions
<1> QED BY <1>2, <1>3, <1>4 DEF Observe, ObserveItem

\* A mutation that an existing item settles is settled by the version that was
\* found in the collection, whoever edits the list between the two reads.
THEOREM ExistingItemIsTheOneFound == EdgeSpec => SettlesWhatItFound
<1> DEFINE Safe ==
      \A w \in Workers : LET s == edge[w] IN
        s.kind \in {"dedupe", "conflict"} /\ s.obs = "none" /\ edge'[w].obs = "applied" =>
          /\ s.item \in LiveItems /\ items[s.item].applied
          /\ items[s.item].etag = s.etag
<1>1. EdgeInv /\ [EdgeNext]_edgeVars => [Safe]_edgeVars
  <2> SUFFICES ASSUME EdgeInv, EdgeNext, NEW w \in Workers,
                      edge[w].kind \in {"dedupe", "conflict"}, edge[w].obs = "none",
                      edge'[w].obs = "applied"
               PROVE  /\ edge[w].item \in LiveItems /\ items[edge[w].item].applied
                      /\ items[edge[w].item].etag = edge[w].etag
    OBVIOUS
  <2>1. Idle.obs = "none" /\ edge \in [Workers -> Executions]
    BY DEF Idle, EdgeInv, EdgeTypeOK
  <2>2. edge' # edge
    OBVIOUS
  <2>3. ASSUME NEW v \in Workers, NEW t, Become(v, t), t.obs = "none" PROVE FALSE
    BY <2>1, <2>3 DEF Become
  <2>4. ASSUME NEW v \in Workers, NEW r \in Runs, Execute(v, r) PROVE FALSE
    <3>1. [Idle EXCEPT !.pc = "admit", !.run = r].obs = "none"
      BY DEF Idle
    <3>2. \A t, res : Done(t, res).obs = "none"
      BY DEF Done, Idle
    <3> QED BY <2>3, <2>4, <3>1, <3>2 DEF Execute
  <2>5. ASSUME NEW v \in Workers, Return(v) \/ Crash(v) PROVE FALSE
    BY <2>1, <2>3, <2>5 DEF Return, Crash
  <2>6. PICK v \in Workers : Step(v)
    BY <2>2, <2>4, <2>5 DEF EdgeNext, ForeignChange, LateRequest
  <2>7. \E t : Become(v, t)
    BY <2>6 DEF Step, Admit, DedupeRead, FreshnessRead, RecordIntent, CheckIntent, Write,
         WriteTakesEffect, WriteHasNoEffect, WriteStaysInFlight, Responds, RecordOutcome,
         Require, CheckRequire, Observe, ObserveItem, RecordReadback, CheckReadback, HookCall
  <2>8. v = w
    BY <2>1, <2>7 DEF Become
  <2>9. Observe(w) \/ ObserveItem(w)
    BY <2>6, <2>8, OtherStepsObserveNothing
  <2> QED BY <2>9, ExistingItemIs, SameItemIs
<1> QED BY <1>1, EdgeInvariance, PTL DEF EdgeSpec, SettlesWhatItFound
=============================================================================
