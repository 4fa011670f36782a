-------------------- MODULE PerformanceAcceptanceProofs --------------------
(***************************************************************************)
(* Proofs about PerformanceAcceptance for every plan of phases, every      *)
(* number of tickets and lease ids, and every bound on disturbances and    *)
(* launches.                                                               *)
(***************************************************************************)
EXTENDS PerformanceAcceptance, LeaseBrokerProofs, FiniteSetTheorems, WellFoundedInduction

-----------------------------------------------------------------------------
(* The invariant of the client. *)

\* What a checkpoint says of its requests: it can be restored, an attempt that
\* waits for its safety observation has not been reserved, and without a fatal
\* sample every completed request is a recorded dispatch.
Crossed(c) == IF c.crossed THEN 1 ELSE 0

Balanced(s) ==
  /\ Consistent(s)
  /\ s.cur # NoState /\ s.cur.pending => s.cur.reserved = s.cur.completed
  /\ s.status # "FAILED" =>
       IF s.cur = NoState THEN s.net = s.spent
       ELSE ~s.cur.fatal => s.net = s.spent + s.cur.completed + Crossed(s.cur)

Good(s) == s \in Checkpoint /\ Balanced(s)

\* The recorded dispatches of checkpoint s and the n requests that left.
Tallied(s, n) ==
  /\ n <= s.net /\ s.net <= n + 1
  /\ s.net = n + 1 =>
       s.status = "FAILED" \/ (s.cur # NoState /\ (s.cur.crossed \/ s.cur.fatal))

\* What the checkpoint s looks like when the process, having sent n requests,
\* is at step at of its open phase.
InPhase == {"loop", "refresh", "observe", "dispatch", "wire", "answer", "phaseRefresh",
            "phaseObserve", "phaseFail", "reconcile"}

AtPhase(at, s, n) ==
  /\ s # NoState /\ s.status = "RUNNING" /\ s.cur # NoState
  /\ at \notin {"refresh", "observe", "phaseFail", "reconcile"} => ~s.cur.pending
  /\ at \notin {"loop", "phaseFail", "reconcile"} => ~s.cur.fatal
  /\ at \in {"loop", "refresh", "observe", "phaseRefresh", "phaseObserve", "phaseFail"} =>
       s.cur.reserved = s.cur.completed
  /\ at \in {"refresh", "observe"} => s.cur.completed < PhaseLimits[s.done + 1]
  /\ at \in {"phaseRefresh", "phaseObserve"} => s.cur.completed = PhaseLimits[s.done + 1]
  /\ at \in {"dispatch", "wire", "answer"} => s.cur.reserved = s.cur.completed + 1
  /\ at = "dispatch" => ~s.cur.crossed
  /\ at \in {"wire", "answer"} => s.cur.crossed
  /\ at = "wire" => s.net = n + 1
  /\ at = "answer" => s.net = n
  /\ at = "reconcile" => Interrupted(s)

At(at, s, n) ==
  /\ at \in InPhase => AtPhase(at, s, n)
  /\ at \in {"preflight", "phase"} /\ s # NoState => ~Interrupted(s) /\ s.status # "FAILED"
  /\ at = "phase" /\ s # NoState => s.status = "RUNNING"
  /\ at = "repeat" => s # NoState /\ s.status = "PASSED"
  /\ at = "evidence" => s # NoState /\ s.status # "RUNNING"

\* The steps at which the final evidence store is still empty, and the others.
Busy == RunnerSteps \cup {"acquire", "except", "evidence"}
ClientSteps ==
  Busy \cup {"off", "attest", "pending", "clearTerminal", "release", "releaseRecovery",
             "clearRecovery", "json", "markdown", "manifest", "clearPending", "clearLast"}

Empty(f) == {f.terminal, f.pending, f.json, f.md, f.manifest} = {NoFile}

\* What the final evidence store f holds at step at, with checkpoint s.
Filed(at, f, s) ==
  /\ \A d \in {f.terminal, f.pending, f.manifest} : d # NoFile => s # NoState /\ d.status = s.status
  /\ IF f.manifest # NoFile
     THEN f.json = f.manifest /\ f.md = f.manifest /\ f.pending \in {NoFile, f.manifest}
     ELSE {f.json, f.md} # {NoFile} => f.pending # NoFile
  /\ at \in Busy => Empty(f) /\ ~f.recovery
  /\ f.recovery => Empty(f)
  /\ at \in {"releaseRecovery", "clearRecovery"} => f.recovery
  /\ at \in {"attest", "pending"} =>
       f.terminal # NoFile /\ {f.pending, f.json, f.md, f.manifest} = {NoFile}
  /\ at = "clearTerminal" => {f.json, f.md, f.manifest} = {NoFile}
  /\ at \in {"clearTerminal", "release", "json", "markdown", "manifest"} =>
       f.pending # NoFile /\ f.manifest = NoFile
  /\ at \in {"markdown", "manifest"} => f.json = f.pending
  /\ at = "manifest" => f.md = f.pending
  /\ at \in {"clearPending", "clearLast"} => f.manifest # NoFile

Files ==
  [terminal : Document \cup {NoFile}, pending : Document \cup {NoFile}, recovery : BOOLEAN,
   json : Document \cup {NoFile}, md : Document \cup {NoFile}, manifest : Document \cup {NoFile}]

ClientTypeOK ==
  /\ slots \in [Slots -> Checkpoint \cup {NoState, Uncommitted}]
  /\ commit \in [slot : Slots, digest : Checkpoint] \cup {NoState}
  /\ file \in Files
  /\ pc \in ClientSteps
  /\ sent \in Nat

CheckpointOK ==
  /\ Intact
  /\ ck = NoState => sent = 0
  /\ ck # NoState => Good(ck) /\ Tallied(ck, sent)

\* The inductive invariant of the client, whatever the broker does.
ClientInv == ClientTypeOK /\ CheckpointOK /\ At(pc, ck, sent) /\ Filed(pc, file, ck)

-----------------------------------------------------------------------------
(* The requests of the first phases: Planned satisfies its recursion.  The *)
(* provers get induction from the least element of a set of numbers.       *)

\* A set of natural numbers has a least element.
LEMMA Least ==
  ASSUME NEW T \in SUBSET Nat, T # {}
  PROVE  \E n \in T : \A m \in T : n <= m
<1>1. PICK n \in T : \A m \in T : ~(<<m, n>> \in OpToRel(<, Nat))
  BY WFMin, NatLessThanWellFounded, Zenon
<1>2. \A m \in T : ~(m < n)
  BY <1>1, Zenon DEF OpToRel
<1> QED BY <1>2

\* f holds the sums of the first phases, up to n.
Sums(f, n) ==
  /\ f = [k \in 0 .. n |-> f[k]]
  /\ f[0] = 0
  /\ \A k \in 1 .. n : f[k] = f[k - 1] + PhaseLimits[k]

\* There are sums of any number of phases.
LEMMA SumsExist == \A n \in Nat : \E f : Sums(f, n)
<1> DEFINE T == {n \in Nat : ~ \E f : Sums(f, n)}
<1> SUFFICES ASSUME T # {} PROVE FALSE
  OBVIOUS
<1>1. PICK n \in T : \A m \in T : n <= m
  BY Least
<1>2. CASE n = 0
  <2>1. Sums([k \in 0 .. 0 |-> 0], 0)
    BY DEF Sums
  <2> QED BY <1>2, <2>1
<1>3. CASE n # 0
  <2>1. n - 1 \in Nat /\ n - 1 \notin T
    BY <1>1, <1>3
  <2>2. PICK f : Sums(f, n - 1)
    BY <2>1
  <2> DEFINE g == [k \in 0 .. n |-> IF k = n THEN f[n - 1] + PhaseLimits[n] ELSE f[k]]
  <2>3. \A k \in 1 .. n : g[k] = g[k - 1] + PhaseLimits[k]
    <3> SUFFICES ASSUME NEW k \in 1 .. n PROVE g[k] = g[k - 1] + PhaseLimits[k]
      OBVIOUS
    <3>1. CASE k = n
      BY <1>3, <3>1
    <3>2. CASE k # n
      <4>1. k \in 1 .. n - 1 /\ k \in 0 .. n /\ k - 1 \in 0 .. n /\ k - 1 # n
        BY <1>3, <3>2
      <4>2. f[k] = f[k - 1] + PhaseLimits[k]
        BY <2>2, <4>1 DEF Sums
      <4> QED BY <3>2, <4>1, <4>2
    <3> QED BY <3>1, <3>2
  <2>4. g[0] = 0 /\ g = [k \in 0 .. n |-> g[k]]
    BY <1>3, <2>2 DEF Sums
  <2>5. Sums(g, n)
    BY <2>3, <2>4 DEF Sums
  <2> QED BY <2>5
<1> QED BY <1>2, <1>3

\* Longer lists of sums extend the shorter ones.
LEMMA SumsAgree ==
  ASSUME NEW n \in Nat, NEW m \in Nat, n <= m, NEW f, NEW h, Sums(f, n), Sums(h, m)
  PROVE  \A k \in 0 .. n : f[k] = h[k]
<1> DEFINE T == {k \in 0 .. n : f[k] # h[k]}
<1> SUFFICES ASSUME T # {} PROVE FALSE
  OBVIOUS
<1>0. T \in SUBSET Nat
  OBVIOUS
<1>1. PICK k \in T : \A j \in T : k <= j
  BY <1>0, Least
<1>2. k # 0
  BY DEF Sums
<1>3. k - 1 \in 0 .. n /\ k \in 1 .. n /\ k \in 1 .. m /\ k - 1 \notin T
  BY <1>1, <1>2
<1>4. f[k - 1] = h[k - 1]
  BY <1>3
<1> QED BY <1>3, <1>4 DEF Sums

\* Planned adds up the phases.
LEMMA PlannedSums ==
  /\ Planned[0] = 0
  /\ \A n \in Nat \ {0} : Planned[n] = Planned[n - 1] + PhaseLimits[n]
<1> DEFINE F(n) == CHOOSE f : Sums(f, n)
           g == [n \in Nat |-> F(n)[n]]
<1>1. \A n \in Nat : Sums(F(n), n)
  BY SumsExist
<1>2. ASSUME NEW n \in Nat \ {0} PROVE F(n)[n] = F(n - 1)[n - 1] + PhaseLimits[n]
  <2>1. n - 1 \in Nat /\ n - 1 <= n /\ n - 1 \in 0 .. n - 1 /\ n \in 1 .. n
    OBVIOUS
  <2>2. Sums(F(n), n) /\ Sums(F(n - 1), n - 1)
    BY <1>1, <2>1
  <2> HIDE DEF F
  <2>3. F(n - 1)[n - 1] = F(n)[n - 1]
    BY <2>1, <2>2, SumsAgree
  <2> QED BY <2>1, <2>2, <2>3 DEF Sums
<1>3. F(0)[0] = 0
  BY <1>1 DEF Sums
<1> HIDE DEF F
<1>4. g = [n \in Nat |-> IF n = 0 THEN 0 ELSE g[n - 1] + PhaseLimits[n]]
  <2>1. ASSUME NEW n \in Nat PROVE g[n] = IF n = 0 THEN 0 ELSE g[n - 1] + PhaseLimits[n]
    <3>1. CASE n = 0
      BY <1>3, <3>1
    <3>2. CASE n # 0
      BY <1>2, <3>2
    <3> QED BY <3>1, <3>2
  <2> QED BY <2>1
<1> HIDE DEF g
<1>5. Planned = [n \in Nat |-> IF n = 0 THEN 0 ELSE Planned[n - 1] + PhaseLimits[n]]
  BY <1>4, Zenon DEF Planned
<1>6. \A n \in Nat : Planned[n] = IF n = 0 THEN 0 ELSE Planned[n - 1] + PhaseLimits[n]
  BY <1>5, Zenon
<1> QED BY <1>6

\* The requests of the first phases, and of the next one, fit the limit.
LEMMA PlannedGrows ==
  /\ Len(PhaseLimits) \in Nat
  /\ \A n \in 0 .. Len(PhaseLimits) : Planned[n] \in Nat /\ Planned[n] <= RequestLimit
  /\ RequestLimit \in Nat
  /\ \A n \in 0 .. Len(PhaseLimits) - 1 :
       /\ PhaseLimits[n + 1] \in Nat \ {0}
       /\ Planned[n + 1] = Planned[n] + PhaseLimits[n + 1]
       /\ Planned[n] + PhaseLimits[n + 1] <= RequestLimit
<1> DEFINE L == Len(PhaseLimits)
<1>0. L \in Nat /\ \A n \in 1 .. L : PhaseLimits[n] \in Nat \ {0}
  BY PlanAssumption
<1> HIDE DEF L
<1>1. \A n \in 0 .. L : Planned[n] \in Nat
  <2> DEFINE T == {n \in 0 .. L : Planned[n] \notin Nat}
  <2> SUFFICES ASSUME T # {} PROVE FALSE
    OBVIOUS
  <2>0. T \in SUBSET Nat
    BY <1>0
  <2>1. PICK n \in T : \A m \in T : n <= m
    BY <2>0, Least
  <2>2. n # 0
    BY PlannedSums
  <2>3. n - 1 \in 0 .. L /\ n - 1 \notin T /\ n \in 1 .. L
    BY <1>0, <2>0, <2>1, <2>2
  <2> QED BY <1>0, <2>3, PlannedSums
<1>2. \A n \in 0 .. L : Planned[n] <= Planned[L]
  <2> DEFINE T == {n \in 0 .. L : ~(Planned[L - n] <= Planned[L])}
  <2>0. T = {}
    <3> SUFFICES ASSUME T # {} PROVE FALSE
      OBVIOUS
    <3>0. T \in SUBSET Nat
      BY <1>0
    <3>1. PICK n \in T : \A m \in T : n <= m
      BY <3>0, Least
    <3>2. n # 0
      BY <1>0, <1>1
    <3>3. n - 1 \in 0 .. L /\ n - 1 \notin T /\ n \in 1 .. L
      BY <1>0, <3>0, <3>1, <3>2
    <3>4. Planned[L - (n - 1)] <= Planned[L]
      BY <3>3
    <3>5. L - (n - 1) \in 1 .. L /\ L - n \in 0 .. L /\ (L - (n - 1)) - 1 = L - n
      BY <1>0, <3>3
    <3>6. Planned[L - (n - 1)] = Planned[L - n] + PhaseLimits[L - (n - 1)]
      BY <3>5, PlannedSums
    <3>7. L \in 0 .. L /\ L - (n - 1) \in 0 .. L
      BY <1>0, <3>5
    <3> QED BY <1>0, <1>1, <3>4, <3>5, <3>6, <3>7
  <2> SUFFICES ASSUME NEW n \in 0 .. L PROVE Planned[n] <= Planned[L]
    OBVIOUS
  <2>1. L - n \in 0 .. L /\ L - (L - n) = n
    BY <1>0
  <2>2. Planned[L - (L - n)] <= Planned[L]
    BY <2>0, <2>1
  <2> QED BY <2>1, <2>2
<1>3. RequestLimit = Planned[L] /\ L \in 0 .. L
  BY <1>0 DEF RequestLimit, L
<1>4. ASSUME NEW n \in 0 .. L - 1
      PROVE  /\ PhaseLimits[n + 1] \in Nat \ {0}
             /\ Planned[n + 1] = Planned[n] + PhaseLimits[n + 1]
             /\ Planned[n] + PhaseLimits[n + 1] <= RequestLimit
  <2>1. n + 1 \in 1 .. L /\ n + 1 \in 0 .. L /\ n + 1 \in Nat \ {0} /\ (n + 1) - 1 = n
    BY <1>0
  <2> QED BY <1>0, <1>2, <1>3, <2>1, PlannedSums
<1> QED BY <1>0, <1>1, <1>2, <1>3, <1>4 DEF L

-----------------------------------------------------------------------------
(* Checkpoints. *)

\* A checkpoint with an open phase, and what its open phase c keeps.
Tracked(c, limit, spent, net) ==
  /\ c.reserved <= limit /\ c.completed <= c.reserved /\ c.reserved <= c.completed + 1
  /\ c.crossed => c.reserved = c.completed + 1
  /\ c.pending => c.reserved = c.completed
  /\ net <= spent + c.completed + Crossed(c)
  /\ ~c.fatal => net = spent + c.completed + Crossed(c)

Open(s) ==
  /\ s \in Checkpoint /\ s.cur \in PhaseState
  /\ s.status = "RUNNING" /\ s.failed = NoState
  /\ s.done \in 0 .. Len(PhaseLimits) - 1
  /\ s.spent = Planned[s.done]
  /\ Tracked(s.cur, PhaseLimits[s.done + 1], s.spent, s.net)

\* Crossed is a number.
LEMMA CrossedIs ==
  ASSUME NEW c
  PROVE  /\ Crossed(c) \in {0, 1}
         /\ c.crossed => Crossed(c) = 1
         /\ ~c.crossed => Crossed(c) = 0
BY DEF Crossed

\* The fields of a checkpoint.
LEMMA CheckpointFields ==
  ASSUME NEW s \in Checkpoint
  PROVE  /\ s # NoState
         /\ s.status \in {"RUNNING", "FAILED", "PASSED"}
         /\ s.done \in Nat /\ s.done <= Len(PhaseLimits) /\ Len(PhaseLimits) \in Nat
         /\ s.spent \in Nat /\ s.spent <= RequestLimit /\ RequestLimit \in Nat
         /\ s.net \in Nat /\ s.net <= RequestLimit
         /\ s.cur # NoState => s.cur \in PhaseState
         /\ s.failed # NoState => s.failed \in PhaseState
BY PlannedGrows, AbsentAssumption DEF Checkpoint

\* The fields of a phase.
LEMMA PhaseFields ==
  ASSUME NEW c \in PhaseState
  PROVE  /\ c # NoState
         /\ c.reserved \in Nat /\ c.reserved <= RequestLimit
         /\ c.completed \in Nat /\ c.completed <= RequestLimit
         /\ c.pending \in BOOLEAN /\ c.crossed \in BOOLEAN /\ c.fatal \in BOOLEAN
BY PlannedGrows, AbsentAssumption DEF PhaseState

\* The plan around the phase that follows n passed ones.
LEMMA NextLimit ==
  ASSUME NEW n \in Nat, n < Len(PhaseLimits)
  PROVE  /\ PhaseLimits[n + 1] \in Nat \ {0}
         /\ Planned[n] \in Nat /\ RequestLimit \in Nat
         /\ Planned[n + 1] = Planned[n] + PhaseLimits[n + 1]
         /\ Planned[n] + PhaseLimits[n + 1] <= RequestLimit
         /\ n \in 0 .. Len(PhaseLimits) - 1
<1>1. Len(PhaseLimits) \in Nat
  BY PlannedGrows
<1>2. n \in 0 .. Len(PhaseLimits) - 1 /\ n \in 0 .. Len(PhaseLimits)
  BY <1>1
<1> QED BY <1>2, PlannedGrows

\* A good checkpoint whose phase is open.
LEMMA GoodIsOpen ==
  ASSUME NEW s, Good(s), s.cur # NoState
  PROVE  Open(s)
<1>1. s \in Checkpoint /\ Consistent(s)
  BY DEF Good, Balanced
<1>2. s.cur \in PhaseState /\ s.status \in {"RUNNING", "FAILED", "PASSED"} /\ s.done \in Nat
      /\ s.net \in Nat
  BY <1>1, CheckpointFields
<1>3. s.cur.reserved \in Nat /\ s.cur.completed \in Nat
  BY <1>2, PhaseFields
<1>4. s.status = "RUNNING" /\ s.failed = NoState /\ s.done < Len(PhaseLimits)
      /\ s.spent = Planned[s.done]
  BY <1>1, <1>2 DEF Consistent
<1>5. s.done \in 0 .. Len(PhaseLimits) - 1
  BY <1>2, <1>4, NextLimit
<1>6. /\ s.cur.reserved <= PhaseLimits[s.done + 1] /\ s.cur.completed <= s.cur.reserved
      /\ s.cur.reserved <= s.cur.completed + 1
      /\ s.cur.crossed => s.cur.reserved = s.cur.completed + 1
      /\ s.net <= s.spent + s.cur.completed + Crossed(s.cur)
  BY <1>1, <1>3 DEF Consistent, Crossed
<1>7. /\ s.cur.pending => s.cur.reserved = s.cur.completed
      /\ ~s.cur.fatal => s.net = s.spent + s.cur.completed + Crossed(s.cur)
  BY <1>4 DEF Good, Balanced
<1> QED BY <1>1, <1>2, <1>4, <1>5, <1>6, <1>7 DEF Open, Tracked

\* An open checkpoint is a good one.
LEMMA OpenIsGood ==
  ASSUME NEW s, Open(s)
  PROVE  Good(s) /\ s.cur # NoState /\ s # NoState
<1>1. /\ s \in Checkpoint /\ s.cur \in PhaseState /\ s.status = "RUNNING" /\ s.failed = NoState
      /\ s.done \in Nat /\ s.done < Len(PhaseLimits) /\ s.spent = Planned[s.done]
      /\ Tracked(s.cur, PhaseLimits[s.done + 1], s.spent, s.net)
  BY CheckpointFields DEF Open
<1>2. /\ s.cur # NoState /\ s # NoState /\ s.cur.reserved \in Nat /\ s.cur.completed \in Nat
  BY <1>1, PhaseFields, CheckpointFields
<1>3. /\ PhaseLimits[s.done + 1] \in Nat /\ Planned[s.done] \in Nat /\ RequestLimit \in Nat
      /\ Planned[s.done] + PhaseLimits[s.done + 1] <= RequestLimit
  BY <1>1, NextLimit
<1>4. /\ s.cur.reserved <= PhaseLimits[s.done + 1] /\ s.cur.completed <= s.cur.reserved
      /\ s.cur.reserved - s.cur.completed <= 1
      /\ s.cur.crossed => s.cur.reserved = s.cur.completed + 1
      /\ s.net <= s.spent + s.cur.completed + (IF s.cur.crossed THEN 1 ELSE 0)
  BY <1>1, <1>2 DEF Tracked, Crossed
<1>5. s.spent + s.cur.reserved <= RequestLimit
  BY <1>1, <1>2, <1>3, <1>4
<1>6. Consistent(s)
  <2> DEFINE open == IF s.cur # NoState THEN s.cur
                     ELSE IF s.failed # NoState THEN s.failed ELSE NewPhase
  <2>1. open = s.cur
    BY <1>2
  <2>2. /\ s.spent = Planned[s.done] /\ s.spent + open.reserved <= RequestLimit
        /\ s.net <= s.spent + open.completed + (IF open.crossed THEN 1 ELSE 0)
    BY <1>1, <1>4, <1>5, <2>1
  <2> HIDE DEF open
  <2>3. /\ s.status # "PASSED" /\ s.status # "FAILED" /\ s.failed = NoState
        /\ s.done < Len(PhaseLimits)
    BY <1>1
  <2> QED BY <1>4, <2>2, <2>3 DEF Consistent, open
<1>7. Balanced(s)
  BY <1>1, <1>2, <1>6 DEF Balanced, Tracked
<1> QED BY <1>1, <1>2, <1>7 DEF Good

\* The open phase is replaced by c, the recorded dispatches by net.
LEMMA Rephased ==
  ASSUME NEW s, Open(s), NEW c \in PhaseState, NEW net \in Nat,
         Tracked(c, PhaseLimits[s.done + 1], s.spent, net), NEW t \in Checkpoint,
         t.cur = c, t.net = net, t.status = s.status, t.failed = s.failed, t.done = s.done,
         t.spent = s.spent
  PROVE  Open(t)
BY DEF Open

\* The same checkpoint with another state of its open phase.
LEMMA NewCur ==
  ASSUME NEW s, Open(s), NEW c \in PhaseState,
         Tracked(c, PhaseLimits[s.done + 1], s.spent, s.net)
  PROVE  LET t == [s EXCEPT !.cur = c]
         IN  /\ Open(t)
             /\ t.cur = c /\ t.net = s.net /\ t.done = s.done /\ t.status = "RUNNING"
<1> DEFINE t == [s EXCEPT !.cur = c]
<1>1. s \in Checkpoint /\ s.status = "RUNNING"
  BY DEF Open
<1>2. /\ t \in Checkpoint /\ t.cur = c /\ t.net = s.net /\ t.done = s.done /\ t.status = s.status
      /\ t.failed = s.failed /\ t.spent = s.spent
  BY <1>1 DEF Checkpoint
<1>3. s.net \in Nat
  BY <1>1, CheckpointFields
<1> HIDE DEF t
<1>4. Open(t)
  BY <1>2, <1>3, Rephased
<1> QED BY <1>1, <1>2, <1>4 DEF t

\* The checkpoint, when there is one.
LEMMA CurrentState ==
  ASSUME ClientInv, ck # NoState
  PROVE  Good(ck) /\ Tallied(ck, sent) /\ ck \in Checkpoint /\ sent \in Nat
BY DEF ClientInv, CheckpointOK, ClientTypeOK, Good

\* In the open phase.
LEMMA CurrentPhase ==
  ASSUME ClientInv, pc \in InPhase
  PROVE  /\ ck # NoState /\ Open(ck) /\ AtPhase(pc, ck, sent) /\ Tallied(ck, sent)
         /\ ck.cur \in PhaseState /\ sent \in Nat
<1>1. AtPhase(pc, ck, sent)
  BY DEF ClientInv, At
<1>2. ck # NoState /\ ck.cur # NoState
  BY <1>1 DEF AtPhase
<1>3. Open(ck)
  BY <1>2, CurrentState, GoodIsOpen
<1> QED BY <1>1, <1>2, <1>3, CurrentState DEF Open

-----------------------------------------------------------------------------
(* Steps of the client that leave the final evidence store alone. *)

\* The checkpoint becomes s, or its open phase c, or stays; whatever the safety
\* observation is bound to.
Commits(s, next) ==
  /\ slots' = [slots EXCEPT ![OtherSlot] = s]
  /\ commit' = [slot |-> OtherSlot, digest |-> s]
  /\ pc' = next

CommitsPhase(c, next) == Commits([ck EXCEPT !.cur = c], next)

SameCheckpoint == UNCHANGED <<slots, commit>>

\* What the model's own steps on the checkpoint do to it.
LEMMA Recordings ==
  /\ \A s, binding, next : Persist(s, binding, next) => Commits(s, next)
  /\ \A s, next : Write(s, next) => Commits(s, next)
  /\ \A c, next : WritePhase(c, next) \/ Observed(c, next) => CommitsPhase(c, next)
  /\ SameState \/ Restore \/ Rebind => SameCheckpoint
BY DEF Persist, Write, WritePhase, Observed, Commits, CommitsPhase, SameState, Restore, Rebind,
       SameCheckpoint

\* An observation that forbids the attempt marks the open phase as fatal.
LEMMA UnsafeRecorded ==
  ASSUME ClientInv, pc \in InPhase, ObservedUnsafe
  PROVE  CommitsPhase([ck.cur EXCEPT !.fatal = TRUE], "phaseFail")
<1>1. ck \in Checkpoint
  BY CurrentPhase, CurrentState
<1>2. [ck EXCEPT !.cur.fatal = TRUE] = [ck EXCEPT !.cur = [ck.cur EXCEPT !.fatal = TRUE]]
  BY <1>1 DEF Checkpoint
<1> QED BY <1>2 DEF ObservedUnsafe, Persist, CommitsPhase, Commits

\* A checkpoint is written while the store is empty.
LEMMA WriteKeeps ==
  ASSUME ClientInv, NEW s, NEW next \in Busy, pc \in Busy, Commits(s, next), SameFiles,
         Good(s), sent' \in Nat, Tallied(s, sent'), At(next, s, sent')
  PROVE  ClientInv'
<1>1. s \in Checkpoint /\ s # NoState
  BY CheckpointFields DEF Good
<1>2. OtherSlot \in Slots
  BY DEF OtherSlot, Slots
<1> DEFINE k == [slot |-> OtherSlot, digest |-> s]
<1>3. /\ k \in [slot : Slots, digest : Checkpoint] /\ k.digest = s /\ k.slot = OtherSlot
      /\ k # NoState
  BY <1>1, <1>2, AbsentAssumption
<1>4. commit' = k /\ slots' = [slots EXCEPT ![OtherSlot] = s] /\ pc' = next /\ file' = file
  BY DEF Commits, SameFiles
<1> HIDE DEF k
<1>5. ck' = s /\ Intact'
  BY <1>2, <1>3, <1>4 DEF ck, Intact, ClientInv, ClientTypeOK
<1>6. ClientTypeOK'
  BY <1>1, <1>2, <1>3, <1>4 DEF ClientInv, ClientTypeOK, ClientSteps
<1>7. CheckpointOK'
  BY <1>1, <1>5 DEF CheckpointOK
<1>8. Filed(next, file, s)
  <2>1. Empty(file) /\ ~file.recovery
    BY DEF ClientInv, Filed
  <2>2. next \notin ClientSteps \ Busy
    OBVIOUS
  <2> QED BY <2>1, <2>2 DEF Filed, Empty, Busy, ClientSteps, RunnerSteps
<1> QED BY <1>4, <1>5, <1>6, <1>7, <1>8 DEF ClientInv

\* A step without a write, at which the store is empty before and after.
LEMMA MoveKeeps ==
  ASSUME ClientInv, NEW next \in Busy, pc \in Busy, pc' = next, SameCheckpoint, SameFiles,
         sent' = sent, At(next, ck, sent)
  PROVE  ClientInv'
<1>1. ck' = ck /\ file' = file /\ Intact' = Intact
  BY DEF SameCheckpoint, SameFiles, ck, Intact
<1>2. ClientTypeOK' /\ CheckpointOK'
  BY <1>1 DEF ClientInv, ClientTypeOK, CheckpointOK, ClientSteps, SameCheckpoint
<1>3. Filed(next, file, ck)
  <2>1. Empty(file) /\ ~file.recovery
    BY DEF ClientInv, Filed
  <2> QED BY <2>1 DEF Filed, Empty, Busy, RunnerSteps
<1> QED BY <1>1, <1>2, <1>3 DEF ClientInv

-----------------------------------------------------------------------------
(* The runner. *)

\* A granted lease starts the runner.
LEMMA AcquiredKeeps ==
  ASSUME ClientInv, Acquired
  PROVE  ClientInv'
<1>1. At("run", ck, sent)
  BY DEF At, InPhase
<1> QED BY <1>1, Recordings, MoveKeeps DEF Acquired, Busy, RunnerSteps

\* The checkpoint decides where a run goes on.
LEMMA EnterKeeps ==
  ASSUME ClientInv, Enter
  PROVE  ClientInv'
<1>1. pc = "run" /\ SameCheckpoint /\ SameFiles /\ sent' = sent
  BY Recordings DEF Enter
<1>2. CASE pc' = "preflight" /\ (ck # NoState => ck.status # "FAILED" /\ ~Interrupted(ck))
  <2>1. At("preflight", ck, sent)
    BY <1>2 DEF At, InPhase
  <2> QED BY <1>1, <1>2, <2>1, MoveKeeps DEF Busy, RunnerSteps
<1>3. CASE pc' = "except"
  <2>1. At("except", ck, sent)
    BY DEF At, InPhase
  <2> QED BY <1>1, <1>3, <2>1, MoveKeeps DEF Busy, RunnerSteps
<1>4. CASE ck # NoState /\ ck.status = "FAILED" /\ pc' = "evidence"
  <2>1. At("evidence", ck, sent)
    BY <1>4 DEF At, InPhase
  <2> QED BY <1>1, <1>4, <2>1, MoveKeeps DEF Busy, RunnerSteps
<1>5. CASE ck # NoState /\ Interrupted(ck) /\ pc' = "reconcile"
  <2>1. ck.cur # NoState
    BY <1>5 DEF Interrupted
  <2>2. ck.status = "RUNNING"
    BY <1>5, <2>1, CurrentState, GoodIsOpen DEF Open
  <2>3. At("reconcile", ck, sent)
    BY <1>5, <2>1, <2>2 DEF At, AtPhase, InPhase
  <2> QED BY <1>1, <1>5, <2>3, MoveKeeps DEF Busy, RunnerSteps
<1> QED BY <1>2, <1>3, <1>4, <1>5 DEF Enter

\* After the preflight the plan goes on, or a passed run is repeated, or the
\* checkpoint is refused.
LEMMA AdmittedKeeps ==
  ASSUME ClientInv, Admitted
  PROVE  ClientInv'
<1>1. pc = "preflight" /\ SameCheckpoint /\ SameFiles /\ sent' = sent
  BY Recordings DEF Admitted
<1>2. ck # NoState => ~Interrupted(ck) /\ ck.status # "FAILED"
  BY <1>1 DEF ClientInv, At
<1>3. CASE pc' = "repeat" /\ ck # NoState /\ ck.status = "PASSED"
  <2>1. At("repeat", ck, sent)
    BY <1>3 DEF At, InPhase
  <2> QED BY <1>1, <1>3, <2>1, MoveKeeps DEF Busy, RunnerSteps
<1>4. CASE pc' = "phase" /\ ~(ck # NoState /\ ck.status = "PASSED")
  <2>1. ck # NoState => ck.status = "RUNNING"
    BY <1>2, <1>4, CurrentState, CheckpointFields
  <2>2. At("phase", ck, sent)
    BY <1>2, <2>1 DEF At, InPhase
  <2> QED BY <1>1, <1>4, <2>2, MoveKeeps DEF Busy, RunnerSteps
<1>5. CASE pc' = "except"
  <2>1. At("except", ck, sent)
    BY DEF At, InPhase
  <2> QED BY <1>1, <1>5, <2>1, MoveKeeps DEF Busy, RunnerSteps
<1> QED BY <1>3, <1>4, <1>5 DEF Admitted

\* A passed checkpoint is written again as it is.
LEMMA RepeatedKeeps ==
  ASSUME ClientInv, Repeated
  PROVE  ClientInv'
<1>1. pc = "repeat" /\ Commits(ck, "evidence") /\ SameFiles /\ sent' = sent
  BY Recordings DEF Repeated
<1>2. ck # NoState /\ ck.status = "PASSED"
  BY <1>1 DEF ClientInv, At
<1>3. Good(ck) /\ Tallied(ck, sent) /\ sent \in Nat
  BY <1>2, CurrentState
<1>4. At("evidence", ck, sent)
  BY <1>2 DEF At, InPhase
<1> QED BY <1>1, <1>3, <1>4, WriteKeeps DEF Busy, RunnerSteps

\* A run that has not begun, and a phase that has not.
LEMMA FirstState ==
  /\ Good(NewState) /\ Tallied(NewState, 0) /\ NewState.status = "RUNNING"
  /\ NewState.cur = NoState /\ NewState.net = 0
  /\ NewPhase \in PhaseState
  /\ NewPhase.reserved = 0 /\ NewPhase.completed = 0
  /\ ~NewPhase.pending /\ ~NewPhase.crossed /\ ~NewPhase.fatal
<1>1. Len(PhaseLimits) \in Nat /\ RequestLimit \in Nat /\ Planned[0] = 0
  BY PlannedGrows, PlannedSums
<1>2. /\ NewPhase \in PhaseState /\ NewPhase.reserved = 0 /\ NewPhase.completed = 0
      /\ ~NewPhase.pending /\ ~NewPhase.crossed /\ ~NewPhase.fatal
  BY <1>1 DEF NewPhase, PhaseState
<1>3. /\ NewState \in Checkpoint /\ NewState.status = "RUNNING" /\ NewState.cur = NoState
      /\ NewState.failed = NoState /\ NewState.net = 0 /\ NewState.spent = 0
      /\ NewState.done = 0
  BY <1>1 DEF NewState, Checkpoint
<1>4. Consistent(NewState)
  BY <1>1, <1>2, <1>3 DEF Consistent
<1> QED BY <1>2, <1>3, <1>4 DEF Good, Balanced, Tallied

\* Passing the plan: nothing is open, and every dispatch was recorded.
LEMMA Passing ==
  ASSUME NEW s, Good(s), s.status = "RUNNING", s.done = Len(PhaseLimits), NEW n \in Nat,
         Tallied(s, n)
  PROVE  LET t == [s EXCEPT !.status = "PASSED"]
         IN  Good(t) /\ Tallied(t, n) /\ t.status = "PASSED"
<1> DEFINE t == [s EXCEPT !.status = "PASSED"]
<1>1. s \in Checkpoint /\ Consistent(s)
  BY DEF Good, Balanced
<1>2. s.cur = NoState /\ s.failed = NoState /\ s.net = s.spent
  <2>1. s.done \in Nat
    BY <1>1, CheckpointFields
  <2> QED BY <1>1, <2>1 DEF Consistent, Good, Balanced
<1>3. /\ t \in Checkpoint /\ t.status = "PASSED" /\ t.cur = s.cur /\ t.failed = s.failed
      /\ t.net = s.net /\ t.spent = s.spent /\ t.done = s.done
  BY <1>1 DEF Checkpoint
<1> HIDE DEF t
<1>4. Consistent(t)
  BY <1>1, <1>2, <1>3 DEF Consistent
<1>5. Good(t) /\ Tallied(t, n)
  BY <1>2, <1>3, <1>4 DEF Good, Balanced, Tallied
<1> QED BY <1>3, <1>5 DEF t

\* The next phase is opened, or one that was not interrupted goes on.
LEMMA NextPhaseKeeps ==
  ASSUME ClientInv, NextPhase
  PROVE  ClientInv'
<1> DEFINE s == IF ck = NoState THEN NewState ELSE ck
<1>1. pc = "phase" /\ SameFiles /\ sent' = sent
  BY DEF NextPhase
<1>2. Good(s) /\ Tallied(s, sent) /\ s.status = "RUNNING" /\ sent \in Nat
      /\ ~Interrupted(s) /\ s \in Checkpoint
  <2>1. CASE ck = NoState
    BY <2>1, FirstState DEF ClientInv, CheckpointOK, Interrupted, Good, ClientTypeOK
  <2>2. CASE ck # NoState
    BY <1>1, <2>2, CurrentState DEF ClientInv, At
  <2> QED BY <2>1, <2>2
<1>3. \/ /\ s.done = Len(PhaseLimits)
         /\ Commits([s EXCEPT !.status = "PASSED"], "evidence")
      \/ /\ s.done < Len(PhaseLimits) /\ s.cur = NoState
         /\ Commits([s EXCEPT !.cur = NewPhase], "loop")
      \/ /\ s.done < Len(PhaseLimits) /\ s.cur # NoState
         /\ (pc' = "loop" /\ SameCheckpoint) \/ Commits(s, "loop")
  BY Recordings DEF NextPhase
<1>4. s.cur # NoState => s = ck
  BY FirstState
<1> HIDE DEF s
<1>5. CASE s.done = Len(PhaseLimits) /\ Commits([s EXCEPT !.status = "PASSED"], "evidence")
  <2> DEFINE t == [s EXCEPT !.status = "PASSED"]
  <2>1. Good(t) /\ Tallied(t, sent) /\ t.status = "PASSED"
    BY <1>2, <1>5, Passing
  <2> HIDE DEF t
  <2>2. At("evidence", t, sent)
    BY <2>1, CheckpointFields DEF At, InPhase, Good
  <2>3. Commits(t, "evidence")
    BY <1>5 DEF t
  <2> QED BY <1>1, <1>2, <2>1, <2>2, <2>3, WriteKeeps DEF Busy, RunnerSteps
<1>6. CASE s.done < Len(PhaseLimits) /\ s.cur = NoState /\ Commits([s EXCEPT !.cur = NewPhase], "loop")
  <2> DEFINE t == [s EXCEPT !.cur = NewPhase]
  <2>1. /\ t \in Checkpoint /\ t.cur = NewPhase /\ t.net = s.net /\ t.done = s.done
        /\ t.status = "RUNNING" /\ t.failed = s.failed /\ t.spent = s.spent
    BY <1>2, FirstState DEF Checkpoint
  <2> HIDE DEF t
  <2>2. s.failed = NoState /\ s.spent = Planned[s.done] /\ s.net = s.spent /\ s.spent \in Nat
        /\ s.done \in Nat
    BY <1>2, <1>6, CheckpointFields DEF Good, Balanced, Consistent
  <2>3. PhaseLimits[s.done + 1] \in Nat /\ s.done \in 0 .. Len(PhaseLimits) - 1
    BY <1>6, <2>2, NextLimit
  <2>4. Tracked(NewPhase, PhaseLimits[s.done + 1], s.spent, s.net)
    BY <2>2, <2>3, FirstState, CrossedIs DEF Tracked
  <2>5. Open(t)
    BY <2>1, <2>2, <2>3, <2>4, FirstState DEF Open
  <2>6. Good(t) /\ t.cur # NoState /\ t # NoState
    BY <2>5, OpenIsGood
  <2>7. s.net = sent /\ Tallied(t, sent)
    BY <1>2, <1>6, <2>1, <2>2 DEF Tallied
  <2>8. At("loop", t, sent)
    BY <2>1, <2>6, FirstState DEF At, AtPhase, InPhase
  <2>9. Commits(t, "loop")
    BY <1>6 DEF t
  <2> QED BY <1>1, <1>2, <2>6, <2>7, <2>8, <2>9, WriteKeeps DEF Busy, RunnerSteps
<1>7. CASE s.cur # NoState /\ ((pc' = "loop" /\ SameCheckpoint) \/ Commits(s, "loop"))
  <2>1. s = ck /\ Open(ck)
    BY <1>2, <1>4, <1>7, GoodIsOpen
  <2>2. ck.cur \in PhaseState /\ ck # NoState /\ ck.cur # NoState
    BY <2>1, OpenIsGood DEF Open
  <2>3. ~ck.cur.pending /\ ck.cur.reserved = ck.cur.completed
    <3>1. ck.cur.reserved \in Nat /\ ck.cur.completed \in Nat
      BY <2>2, PhaseFields
    <3> QED BY <1>2, <2>1, <2>2, <3>1 DEF Interrupted, Open, Tracked
  <2>4. At("loop", ck, sent)
    BY <1>2, <2>1, <2>2, <2>3 DEF At, AtPhase, InPhase
  <2>5. CASE pc' = "loop" /\ SameCheckpoint
    BY <1>1, <2>4, <2>5, MoveKeeps DEF Busy, RunnerSteps
  <2>6. CASE Commits(ck, "loop")
    BY <1>1, <1>2, <2>1, <2>4, <2>6, WriteKeeps DEF Busy, RunnerSteps
  <2> QED BY <1>7, <2>1, <2>5, <2>6
<1> QED BY <1>3, <1>5, <1>6, <1>7

-----------------------------------------------------------------------------
(* The open phase. *)

\* What the phase c must be where a write of it leads.
PhaseAt(next, c, limit) ==
  /\ next = "loop" => ~c.pending /\ c.reserved = c.completed
  /\ next = "phaseFail" => c.reserved = c.completed
  /\ next = "refresh" => ~c.fatal /\ c.reserved = c.completed /\ c.completed < limit
  /\ next = "dispatch" =>
       ~c.pending /\ ~c.fatal /\ ~c.crossed /\ c.reserved = c.completed + 1

\* The open phase is written.
LEMMA PhaseWrite ==
  ASSUME ClientInv, pc \in InPhase, NEW c \in PhaseState,
         NEW next \in {"loop", "phaseFail", "refresh", "dispatch"}, CommitsPhase(c, next),
         SameFiles, sent' = sent,
         Tracked(c, PhaseLimits[ck.done + 1], ck.spent, ck.net),
         ck.net = sent + 1 => c.crossed \/ c.fatal,
         PhaseAt(next, c, PhaseLimits[ck.done + 1])
  PROVE  ClientInv'
<1> DEFINE s == ck
           t == [s EXCEPT !.cur = c]
<1>1. Open(s) /\ Tallied(s, sent) /\ sent \in Nat
  BY CurrentPhase
<1>2. Commits(t, next)
  BY DEF CommitsPhase
<1> HIDE DEF s
<1>3. Open(t) /\ t.cur = c /\ t.net = s.net /\ t.done = s.done /\ t.status = "RUNNING"
  BY <1>1, NewCur DEF s
<1> HIDE DEF t
<1>4. Good(t) /\ t # NoState /\ t.cur # NoState
  BY <1>3, OpenIsGood
<1>5. Tallied(t, sent)
  BY <1>1, <1>3, <1>4 DEF Tallied, s
<1>6. At(next, t, sent)
  BY <1>3, <1>4 DEF At, AtPhase, InPhase, PhaseAt, s
<1>7. pc \in Busy /\ next \in Busy
  BY DEF InPhase, Busy, RunnerSteps
<1> QED BY <1>1, <1>2, <1>4, <1>5, <1>6, <1>7, WriteKeeps

\* The facts about the open phase that the steps need.
LEMMA PhaseFacts ==
  ASSUME ClientInv, pc \in InPhase
  PROVE  /\ ck.cur \in PhaseState /\ ck.cur # NoState /\ ck # NoState
         /\ Tracked(ck.cur, PhaseLimits[ck.done + 1], ck.spent, ck.net)
         /\ ck.cur.reserved \in Nat /\ ck.cur.completed \in Nat
         /\ PhaseLimits[ck.done + 1] \in Nat /\ ck.spent \in Nat /\ ck.net \in Nat
         /\ ck.spent + PhaseLimits[ck.done + 1] <= RequestLimit
         /\ RequestLimit \in Nat /\ PhaseLimits[ck.done + 1] <= RequestLimit
         /\ ck.net = sent + 1 => ck.cur.crossed \/ ck.cur.fatal
         /\ sent <= ck.net /\ ck.net <= sent + 1 /\ sent \in Nat
         /\ AtPhase(pc, ck, sent)
<1>1. Open(ck) /\ AtPhase(pc, ck, sent) /\ Tallied(ck, sent) /\ sent \in Nat /\ ck # NoState
  BY CurrentPhase
<1>2. ck \in Checkpoint /\ ck.cur \in PhaseState /\ ck.status = "RUNNING"
      /\ ck.spent = Planned[ck.done]
      /\ Tracked(ck.cur, PhaseLimits[ck.done + 1], ck.spent, ck.net)
      /\ ck.done \in Nat /\ ck.done < Len(PhaseLimits)
  BY <1>1, PlannedGrows DEF Open
<1>3. ck.net \in Nat
  BY <1>2, CheckpointFields
<1>4. ck.cur.reserved \in Nat /\ ck.cur.completed \in Nat /\ ck.cur # NoState
  BY <1>2, PhaseFields
<1>5. /\ PhaseLimits[ck.done + 1] \in Nat /\ Planned[ck.done] \in Nat /\ RequestLimit \in Nat
      /\ Planned[ck.done] + PhaseLimits[ck.done + 1] <= RequestLimit
  BY <1>2, NextLimit
<1> QED BY <1>1, <1>2, <1>3, <1>4, <1>5 DEF Tallied

\* Marking the open phase as fatal keeps its counts.
LEMMA FatalPhase ==
  ASSUME NEW c \in PhaseState, NEW limit, NEW spent, NEW net, Tracked(c, limit, spent, net)
  PROVE  LET d == [c EXCEPT !.fatal = TRUE]
         IN  /\ d \in PhaseState /\ Tracked(d, limit, spent, net) /\ d.fatal
             /\ d.reserved = c.reserved /\ d.completed = c.completed
             /\ d.pending = c.pending /\ d.crossed = c.crossed
<1> DEFINE d == [c EXCEPT !.fatal = TRUE]
<1>1. /\ d \in PhaseState /\ d.fatal = TRUE
      /\ d.reserved = c.reserved /\ d.completed = c.completed
      /\ d.pending = c.pending /\ d.crossed = c.crossed
  BY DEF PhaseState
<1> HIDE DEF d
<1>2. Tracked(d, limit, spent, net)
  BY <1>1 DEF Tracked, Crossed
<1> QED BY <1>1, <1>2 DEF d

\* A fatal sample ends the phase.
LEMMA FatalWrite ==
  ASSUME ClientInv, pc \in InPhase, ck.cur.reserved = ck.cur.completed, SameFiles, sent' = sent,
         CommitsPhase([ck.cur EXCEPT !.fatal = TRUE], "phaseFail")
  PROVE  ClientInv'
<1> DEFINE c == ck.cur
           d == [c EXCEPT !.fatal = TRUE]
<1>1. c \in PhaseState /\ Tracked(c, PhaseLimits[ck.done + 1], ck.spent, ck.net)
  BY PhaseFacts
<1>2. /\ d \in PhaseState /\ Tracked(d, PhaseLimits[ck.done + 1], ck.spent, ck.net) /\ d.fatal
      /\ d.reserved = c.reserved /\ d.completed = c.completed
  BY <1>1, FatalPhase
<1>3. CommitsPhase(d, "phaseFail")
  OBVIOUS
<1> HIDE DEF d
<1>4. PhaseAt("phaseFail", d, PhaseLimits[ck.done + 1])
  BY <1>2 DEF PhaseAt
<1> QED BY <1>2, <1>3, <1>4, PhaseWrite

\* The paced loop: a sample is prepared, or the phase ends.
LEMMA LoopKeeps ==
  ASSUME ClientInv, Loop
  PROVE  ClientInv'
<1>1. pc = "loop" /\ pc \in InPhase /\ pc \in Busy /\ SameFiles /\ sent' = sent
  BY DEF Loop, InPhase, Busy, RunnerSteps
<1> DEFINE c == ck.cur
           limit == PhaseLimits[ck.done + 1]
<1>2. /\ c \in PhaseState /\ Tracked(c, limit, ck.spent, ck.net) /\ c.reserved \in Nat
      /\ c.completed \in Nat /\ limit \in Nat /\ ck.spent \in Nat /\ ck.net \in Nat
      /\ ck.net = sent + 1 => c.crossed \/ c.fatal
      /\ AtPhase("loop", ck, sent)
  BY <1>1, PhaseFacts
<1>3. ck # NoState /\ ck.status = "RUNNING" /\ c # NoState /\ ~c.pending /\ c.reserved = c.completed
  BY <1>2 DEF AtPhase
<1>4. CASE pc' = "phaseFail" /\ SameCheckpoint
  <2>1. At("phaseFail", ck, sent)
    BY <1>3 DEF At, AtPhase, InPhase
  <2> QED BY <1>1, <1>4, <2>1, MoveKeeps DEF Busy, RunnerSteps
<1>5. CASE ~c.fatal /\ c.completed = limit /\ pc' = "phaseRefresh" /\ SameCheckpoint
  <2>1. At("phaseRefresh", ck, sent)
    BY <1>3, <1>5 DEF At, AtPhase, InPhase
  <2> QED BY <1>1, <1>5, <2>1, MoveKeeps DEF Busy, RunnerSteps
<1>6. CASE ~c.fatal /\ c.completed < limit /\ CommitsPhase([c EXCEPT !.pending = TRUE], "refresh")
  <2> DEFINE d == [c EXCEPT !.pending = TRUE]
  <2>1. /\ d \in PhaseState /\ d.reserved = c.reserved /\ d.completed = c.completed
        /\ d.crossed = c.crossed /\ d.fatal = c.fatal
    BY <1>2 DEF PhaseState
  <2>2. CommitsPhase(d, "refresh")
    BY <1>6
  <2> HIDE DEF d
  <2>3. Tracked(d, limit, ck.spent, ck.net)
    BY <1>2, <1>3, <2>1 DEF Tracked, Crossed
  <2>4. PhaseAt("refresh", d, limit)
    BY <1>3, <1>6, <2>1 DEF PhaseAt
  <2>5. ck.net = sent + 1 => d.crossed \/ d.fatal
    BY <1>2, <2>1
  <2> QED BY <1>1, <2>1, <2>2, <2>3, <2>4, <2>5, PhaseWrite
<1>7. CASE CommitsPhase([c EXCEPT !.fatal = TRUE], "phaseFail")
  BY <1>1, <1>3, <1>7, FatalWrite
<1> QED BY <1>4, <1>5, <1>6, <1>7, Recordings DEF Loop

\* A confirmed lease leads to the second confirmation, or the phase fails.
LEMMA RefreshedKeeps ==
  ASSUME ClientInv, Refreshed \/ PhaseRefreshed
  PROVE  ClientInv'
<1>1. /\ pc \in {"refresh", "phaseRefresh"} /\ SameFiles /\ sent' = sent
      /\ \/ /\ pc' = IF pc = "refresh" THEN "observe" ELSE "phaseObserve"
            /\ SameCheckpoint
         \/ CommitsPhase([ck.cur EXCEPT !.fatal = TRUE], "phaseFail")
  BY Recordings DEF Refreshed, PhaseRefreshed
<1>2. AtPhase(pc, ck, sent) /\ pc \in InPhase
  BY <1>1, PhaseFacts DEF InPhase
<1>3. CASE pc' = (IF pc = "refresh" THEN "observe" ELSE "phaseObserve") /\ SameCheckpoint
  <2>1. At(pc', ck, sent)
    BY <1>1, <1>2, <1>3 DEF At, AtPhase, InPhase
  <2> QED BY <1>1, <1>3, <2>1, MoveKeeps DEF Busy, RunnerSteps
<1>4. CASE CommitsPhase([ck.cur EXCEPT !.fatal = TRUE], "phaseFail")
  <2>1. ck.cur.reserved = ck.cur.completed
    BY <1>1, <1>2 DEF AtPhase
  <2> QED BY <1>1, <1>2, <1>4, <2>1, FatalWrite
<1> QED BY <1>1, <1>3, <1>4

\* An attempt is reserved before anything leaves.
LEMMA ReserveKeeps ==
  ASSUME ClientInv, Reserve
  PROVE  ClientInv'
<1>1. pc = "observe" /\ pc \in InPhase /\ SameFiles /\ sent' = sent
  BY DEF Reserve, InPhase
<1> DEFINE c == ck.cur
           limit == PhaseLimits[ck.done + 1]
<1>2. /\ c \in PhaseState /\ Tracked(c, limit, ck.spent, ck.net) /\ c.reserved \in Nat
      /\ c.completed \in Nat /\ limit \in Nat /\ ck.spent \in Nat /\ ck.net \in Nat
      /\ ck.net = sent + 1 => c.crossed \/ c.fatal
      /\ AtPhase("observe", ck, sent) /\ limit <= RequestLimit /\ RequestLimit \in Nat
  BY <1>1, PhaseFacts
<1>3. c.reserved = c.completed /\ c.completed < limit /\ ~c.fatal
  BY <1>2 DEF AtPhase
<1>4. CASE CommitsPhase([c EXCEPT !.reserved = @ + 1, !.pending = FALSE], "dispatch")
  <2> DEFINE d == [c EXCEPT !.reserved = @ + 1, !.pending = FALSE]
  <2>0. c.reserved + 1 \in 0 .. RequestLimit
    BY <1>2, <1>3
  <2>1. /\ d \in PhaseState /\ d.reserved = c.reserved + 1 /\ d.completed = c.completed
        /\ d.crossed = c.crossed /\ d.fatal = c.fatal /\ d.pending = FALSE
    BY <1>2, <2>0 DEF PhaseState
  <2>2. CommitsPhase(d, "dispatch")
    BY <1>4
  <2> HIDE DEF d
  <2>3. ~c.crossed
    BY <1>2, <1>3 DEF Tracked
  <2>4. Tracked(d, limit, ck.spent, ck.net)
    BY <1>2, <1>3, <2>1, <2>3 DEF Tracked, Crossed
  <2>5. PhaseAt("dispatch", d, limit)
    BY <1>3, <2>1, <2>3 DEF PhaseAt
  <2>6. ck.net = sent + 1 => d.crossed \/ d.fatal
    BY <1>2, <2>1
  <2> QED BY <1>1, <2>1, <2>2, <2>4, <2>5, <2>6, PhaseWrite
<1>5. CASE CommitsPhase([c EXCEPT !.fatal = TRUE], "phaseFail")
  BY <1>1, <1>3, <1>5, FatalWrite
<1> QED BY <1>1, <1>4, <1>5, Recordings, UnsafeRecorded DEF Reserve

\* The dispatch is recorded before it happens, or does not happen.
LEMMA DispatchingKeeps ==
  ASSUME ClientInv, Dispatching
  PROVE  ClientInv'
<1>1. pc = "dispatch" /\ pc \in InPhase /\ SameFiles /\ sent' = sent
  BY DEF Dispatching, InPhase
<1> DEFINE c == ck.cur
           limit == PhaseLimits[ck.done + 1]
<1>2. /\ c \in PhaseState /\ Tracked(c, limit, ck.spent, ck.net) /\ c.reserved \in Nat
      /\ c.completed \in Nat /\ limit \in Nat /\ ck.spent \in Nat /\ ck.net \in Nat
      /\ ck.net = sent + 1 => c.crossed \/ c.fatal
      /\ sent <= ck.net /\ ck.net <= sent + 1 /\ sent \in Nat
      /\ AtPhase("dispatch", ck, sent) /\ limit <= RequestLimit /\ RequestLimit \in Nat
      /\ ck.spent + limit <= RequestLimit
  BY <1>1, PhaseFacts
<1>3. c.reserved = c.completed + 1 /\ ~c.fatal /\ ~c.crossed /\ ~c.pending /\ ck.status = "RUNNING"
  BY <1>2 DEF AtPhase
<1>4. CASE CommitsPhase([c EXCEPT !.completed = @ + 1, !.fatal = TRUE], "loop")
  <2> DEFINE d == [c EXCEPT !.completed = @ + 1, !.fatal = TRUE]
  <2>0. c.completed + 1 \in 0 .. RequestLimit
    BY <1>2, <1>3 DEF Tracked
  <2>1. /\ d \in PhaseState /\ d.reserved = c.reserved /\ d.completed = c.completed + 1
        /\ d.crossed = c.crossed /\ d.fatal = TRUE /\ d.pending = c.pending
    BY <1>2, <2>0 DEF PhaseState
  <2>2. CommitsPhase(d, "loop")
    BY <1>4
  <2> HIDE DEF d
  <2>3. Tracked(d, limit, ck.spent, ck.net)
    BY <1>2, <1>3, <2>1 DEF Tracked, Crossed
  <2>4. PhaseAt("loop", d, limit)
    BY <1>3, <2>1 DEF PhaseAt
  <2> QED BY <1>1, <2>1, <2>2, <2>3, <2>4, PhaseWrite
<1>5. CASE Commits([ck EXCEPT !.cur.crossed = TRUE, !.net = @ + 1], "wire")
  <2> DEFINE d == [c EXCEPT !.crossed = TRUE]
             t == [ck EXCEPT !.cur.crossed = TRUE, !.net = @ + 1]
  <2>1. /\ d \in PhaseState /\ d.reserved = c.reserved /\ d.completed = c.completed
        /\ d.crossed = TRUE /\ d.fatal = c.fatal /\ d.pending = c.pending
    BY <1>2 DEF PhaseState
  <2>2. ck.net = ck.spent + c.completed
    BY <1>2, <1>3 DEF Tracked, Crossed
  <2>3. ck.net + 1 \in 0 .. RequestLimit
    BY <1>2, <1>3, <2>2 DEF Tracked
  <2>4. ck \in Checkpoint /\ Open(ck)
    BY <1>1, CurrentPhase DEF Open
  <2>5. /\ t \in Checkpoint /\ t.cur = d /\ t.net = ck.net + 1 /\ t.status = ck.status
        /\ t.failed = ck.failed /\ t.done = ck.done /\ t.spent = ck.spent
    BY <1>2, <2>1, <2>3, <2>4 DEF Checkpoint
  <2> HIDE DEF d, t
  <2>6. Tracked(d, limit, ck.spent, ck.net + 1)
    BY <1>2, <1>3, <2>1, <2>2 DEF Tracked, Crossed
  <2>7. Open(t)
    BY <1>2, <2>1, <2>4, <2>5, <2>6, Rephased
  <2>8. Good(t) /\ t # NoState /\ t.cur # NoState
    BY <2>7, OpenIsGood
  <2>9. ck.net = sent
    <3>1. ck.net # sent + 1
      BY <1>2, <1>3
    <3>2. ck.net \in Nat /\ sent \in Nat /\ sent <= ck.net /\ ck.net <= sent + 1
      BY <1>2
    <3> QED BY <3>1, <3>2
  <2>10. Tallied(t, sent)
    BY <1>2, <2>1, <2>5, <2>8, <2>9 DEF Tallied
  <2>11. At("wire", t, sent)
    BY <1>3, <2>1, <2>5, <2>8, <2>9 DEF At, AtPhase, InPhase
  <2>12. Commits(t, "wire")
    BY <1>5 DEF t
  <2> QED BY <1>1, <1>2, <2>8, <2>10, <2>11, <2>12, WriteKeeps DEF Busy, RunnerSteps
<1> QED BY <1>4, <1>5, Recordings DEF Dispatching

\* The request leaves after it was recorded.
LEMMA SendKeeps ==
  ASSUME ClientInv, Send
  PROVE  ClientInv'
<1>1. pc = "wire" /\ pc' = "answer" /\ sent' = sent + 1 /\ SameCheckpoint /\ SameFiles
  BY Recordings DEF Send
<1>2. Good(ck) /\ Tallied(ck, sent) /\ AtPhase("wire", ck, sent) /\ sent \in Nat /\ ck # NoState
      /\ ck.net \in Nat
  BY <1>1, CurrentPhase, CurrentState, PhaseFacts DEF InPhase
<1>3. ck.net = sent + 1
  BY <1>2 DEF AtPhase
<1>4. AtPhase("answer", ck, sent + 1)
  BY <1>2, <1>3 DEF AtPhase
<1>5. Tallied(ck, sent + 1)
  BY <1>2, <1>3 DEF Tallied
<1>6. ck' = ck /\ file' = file /\ Intact' = Intact
  BY <1>1 DEF SameCheckpoint, SameFiles, ck, Intact
<1>7. At("answer", ck, sent + 1)
  BY <1>4 DEF At, InPhase
<1>8. Filed("answer", file, ck)
  <2>1. Empty(file) /\ ~file.recovery
    BY <1>1 DEF ClientInv, Filed, Busy, RunnerSteps
  <2> QED BY <2>1 DEF Filed, Empty
<1>9. CheckpointOK'
  BY <1>1, <1>2, <1>5, <1>6 DEF ClientInv, CheckpointOK
<1>10. ClientTypeOK'
  BY <1>1, <1>2 DEF ClientInv, ClientTypeOK, SameCheckpoint, SameFiles, ClientSteps, Busy, RunnerSteps
<1> QED BY <1>1, <1>6, <1>7, <1>8, <1>9, <1>10 DEF ClientInv

\* The attempt is completed with its answer.
LEMMA CompleteKeeps ==
  ASSUME ClientInv, Complete
  PROVE  ClientInv'
<1>1. pc = "answer" /\ pc \in InPhase /\ SameFiles /\ sent' = sent
  BY DEF Complete, InPhase
<1> DEFINE c == ck.cur
           limit == PhaseLimits[ck.done + 1]
<1>2. /\ c \in PhaseState /\ Tracked(c, limit, ck.spent, ck.net) /\ c.reserved \in Nat
      /\ c.completed \in Nat /\ limit \in Nat /\ ck.spent \in Nat /\ ck.net \in Nat
      /\ sent \in Nat
      /\ AtPhase("answer", ck, sent) /\ limit <= RequestLimit /\ RequestLimit \in Nat
  BY <1>1, PhaseFacts
<1>3. /\ c.reserved = c.completed + 1 /\ ~c.fatal /\ c.crossed /\ ~c.pending
      /\ ck.net = sent
  BY <1>2 DEF AtPhase
<1>4. PICK fatal \in BOOLEAN :
        WritePhase([c EXCEPT !.completed = @ + 1, !.crossed = FALSE, !.fatal = fatal], "loop")
  BY DEF Complete
<1> DEFINE d == [c EXCEPT !.completed = @ + 1, !.crossed = FALSE, !.fatal = fatal]
<1>5. c.completed + 1 \in 0 .. RequestLimit
  BY <1>2, <1>3 DEF Tracked
<1>6. /\ d \in PhaseState /\ d.reserved = c.reserved /\ d.completed = c.completed + 1
      /\ d.crossed = FALSE /\ d.pending = c.pending
  BY <1>2, <1>5 DEF PhaseState
<1>7. CommitsPhase(d, "loop")
  BY <1>4, Recordings
<1> HIDE DEF d
<1>8. ck.net = ck.spent + c.completed + 1
  BY <1>2, <1>3 DEF Tracked, Crossed
<1>9. Tracked(d, limit, ck.spent, ck.net)
  BY <1>2, <1>3, <1>6, <1>8 DEF Tracked, Crossed
<1>10. PhaseAt("loop", d, limit)
  BY <1>3, <1>6 DEF PhaseAt
<1>11. ck.net # sent + 1
  BY <1>2, <1>3
<1> QED BY <1>1, <1>6, <1>7, <1>9, <1>10, <1>11, PhaseWrite

\* A phase passes when its last request was good.
LEMMA PhasePassedKeeps ==
  ASSUME ClientInv, PhasePassed
  PROVE  ClientInv'
<1>1. pc = "phaseObserve" /\ pc \in InPhase /\ SameFiles /\ sent' = sent
  BY DEF PhasePassed, InPhase
<1> DEFINE c == ck.cur
           limit == PhaseLimits[ck.done + 1]
<1>2. /\ c \in PhaseState /\ Tracked(c, limit, ck.spent, ck.net) /\ c.reserved \in Nat
      /\ c.completed \in Nat /\ limit \in Nat /\ ck.spent \in Nat /\ ck.net \in Nat
      /\ sent \in Nat /\ sent <= ck.net /\ ck.net <= sent + 1
      /\ ck.net = sent + 1 => c.crossed \/ c.fatal
      /\ AtPhase("phaseObserve", ck, sent) /\ ck.spent + limit <= RequestLimit
      /\ RequestLimit \in Nat
  BY <1>1, PhaseFacts
<1>3. c.reserved = c.completed /\ c.completed = limit /\ ~c.fatal /\ ck.status = "RUNNING"
  BY <1>2 DEF AtPhase
<1>4. ~c.crossed
  BY <1>2, <1>3 DEF Tracked
<1>5. ck.net = ck.spent + c.completed
  BY <1>2, <1>3, <1>4 DEF Tracked, Crossed
<1>6. CASE Commits([ck EXCEPT !.cur = NoState, !.done = @ + 1, !.spent = @ + ck.cur.completed], "phase")
  <2> DEFINE t == [ck EXCEPT !.cur = NoState, !.done = @ + 1, !.spent = @ + ck.cur.completed]
  <2>1. Open(ck)
    BY <1>1, CurrentPhase
  <2>2. /\ ck \in Checkpoint /\ ck.done \in Nat /\ ck.done < Len(PhaseLimits)
        /\ ck.spent = Planned[ck.done] /\ ck.failed = NoState /\ Len(PhaseLimits) \in Nat
    BY <2>1, PlannedGrows DEF Open
  <2>3. Planned[ck.done + 1] = Planned[ck.done] + limit
    BY <2>2, NextLimit
  <2>4. ck.spent + c.completed \in 0 .. RequestLimit /\ ck.done + 1 \in 0 .. Len(PhaseLimits)
    BY <1>2, <1>3, <2>2
  <2>5. /\ t \in Checkpoint /\ t.cur = NoState /\ t.done = ck.done + 1
        /\ t.spent = ck.spent + c.completed /\ t.net = ck.net /\ t.status = "RUNNING"
        /\ t.failed = NoState
    BY <1>3, <2>2, <2>4 DEF Checkpoint
  <2>6. Commits(t, "phase")
    BY <1>6
  <2> HIDE DEF t
  <2>7. t.spent = Planned[t.done]
    BY <1>3, <2>2, <2>3, <2>5
  <2>8. t.spent \in Nat /\ t.spent <= RequestLimit /\ t.net = t.spent
    BY <1>5, <2>4, <2>5
  <2>9. Consistent(t)
    BY <1>2, <2>5, <2>7, <2>8, FirstState DEF Consistent
  <2>10. Good(t)
    BY <2>5, <2>8, <2>9 DEF Good, Balanced
  <2>11. ck.net # sent + 1
    BY <1>2, <1>3, <1>4
  <2>12. Tallied(t, sent)
    BY <1>2, <2>5, <2>11 DEF Tallied
  <2>13. At("phase", t, sent)
    BY <2>5 DEF At, InPhase, Interrupted
  <2> QED BY <1>1, <1>2, <2>6, <2>10, <2>12, <2>13, WriteKeeps DEF Busy, RunnerSteps
<1>7. CASE CommitsPhase([c EXCEPT !.fatal = TRUE], "phaseFail")
  BY <1>1, <1>3, <1>7, FatalWrite
<1> QED BY <1>1, <1>6, <1>7, Recordings, UnsafeRecorded DEF PhasePassed

\* Failing a run: the open phase becomes the failed one.
LEMMA Failing ==
  ASSUME NEW s, Good(s), s.status = "RUNNING", s.done < Len(PhaseLimits), NEW n \in Nat,
         Tallied(s, n), NEW c \in PhaseState, c.reserved = c.completed, ~c.crossed,
         c.completed <= PhaseLimits[s.done + 1], s.net <= s.spent + c.completed,
         NEW t \in Checkpoint, t.status = "FAILED", t.cur = NoState, t.failed = c,
         t.done = s.done, t.spent = s.spent, t.net = s.net
  PROVE  Good(t) /\ Tallied(t, n)
<1>1. s \in Checkpoint /\ s.done \in Nat /\ s.net \in Nat /\ s.spent = Planned[s.done]
  BY CheckpointFields DEF Good, Balanced, Consistent
<1>2. /\ PhaseLimits[s.done + 1] \in Nat /\ Planned[s.done] \in Nat /\ RequestLimit \in Nat
      /\ Planned[s.done] + PhaseLimits[s.done + 1] <= RequestLimit
  BY <1>1, NextLimit
<1>3. c # NoState /\ c.reserved \in Nat /\ c.completed \in Nat
  BY PhaseFields
<1>4. s.spent + c.reserved <= RequestLimit
  BY <1>1, <1>2, <1>3
<1>5. s.net <= s.spent + c.completed + (IF c.crossed THEN 1 ELSE 0)
  BY <1>1, <1>2, <1>3
<1>6. Consistent(t)
  BY <1>1, <1>3, <1>4, <1>5 DEF Consistent
<1> QED BY <1>6 DEF Good, Balanced, Tallied

\* The failed phase is recorded.
LEMMA PhaseFailedKeeps ==
  ASSUME ClientInv, PhaseFailed
  PROVE  ClientInv'
<1>1. pc = "phaseFail" /\ pc \in InPhase /\ SameFiles /\ sent' = sent
      /\ Commits([ck EXCEPT !.status = "FAILED", !.failed = ck.cur, !.cur = NoState], "evidence")
  BY Recordings DEF PhaseFailed, InPhase
<1> DEFINE c == ck.cur
           t == [ck EXCEPT !.status = "FAILED", !.failed = ck.cur, !.cur = NoState]
<1>2. /\ c \in PhaseState /\ Tracked(c, PhaseLimits[ck.done + 1], ck.spent, ck.net)
      /\ c.reserved \in Nat /\ c.completed \in Nat /\ ck.spent \in Nat /\ ck.net \in Nat
      /\ AtPhase("phaseFail", ck, sent) /\ sent \in Nat
  BY <1>1, PhaseFacts
<1>3. Open(ck) /\ Good(ck) /\ Tallied(ck, sent) /\ ck \in Checkpoint
  BY <1>1, CurrentPhase, CurrentState
<1>4. c.reserved = c.completed /\ ck.status = "RUNNING"
  BY <1>2 DEF AtPhase
<1>5. ~c.crossed /\ c.completed <= PhaseLimits[ck.done + 1]
  BY <1>2, <1>4 DEF Tracked
<1>6. ck.net <= ck.spent + c.completed
  BY <1>2, <1>5 DEF Tracked, Crossed
<1>7. /\ t \in Checkpoint /\ t.status = "FAILED" /\ t.cur = NoState /\ t.failed = c
      /\ t.done = ck.done /\ t.spent = ck.spent /\ t.net = ck.net
  BY <1>2, <1>3 DEF Checkpoint
<1>8. Commits(t, "evidence")
  BY <1>1
<1> HIDE DEF t
<1>9. ck.done < Len(PhaseLimits)
  BY <1>3, PlannedGrows DEF Open
<1>10. Good(t) /\ Tallied(t, sent)
  BY <1>2, <1>3, <1>4, <1>5, <1>6, <1>7, <1>9, Failing
<1>11. At("evidence", t, sent)
  BY <1>7, CheckpointFields DEF At, InPhase
<1> QED BY <1>1, <1>2, <1>8, <1>10, <1>11, WriteKeeps DEF Busy, RunnerSteps

\* A reserved attempt counts as done, and is not sent again.
LEMMA ReconcileAttemptKeeps ==
  ASSUME ClientInv, ReconcileAttempt
  PROVE  ClientInv'
<1>1. pc = "reconcile" /\ pc \in InPhase /\ SameFiles /\ sent' = sent
  BY DEF ReconcileAttempt, InPhase
<1> DEFINE c == ck.cur
           limit == PhaseLimits[ck.done + 1]
<1>2. /\ c \in PhaseState /\ Tracked(c, limit, ck.spent, ck.net) /\ c.reserved \in Nat
      /\ c.completed \in Nat /\ limit \in Nat /\ ck.spent \in Nat /\ ck.net \in Nat
      /\ AtPhase("reconcile", ck, sent) /\ limit <= RequestLimit /\ RequestLimit \in Nat
  BY <1>1, PhaseFacts
<1>3. c.pending \/ c.reserved = c.completed + 1
  BY <1>2 DEF AtPhase, Interrupted
<1>4. CASE c.pending
  <2> DEFINE d == [c EXCEPT !.pending = FALSE, !.fatal = TRUE]
  <2>1. /\ d \in PhaseState /\ d.reserved = c.reserved /\ d.completed = c.completed
        /\ d.crossed = c.crossed /\ d.fatal = TRUE /\ d.pending = FALSE
    BY <1>2 DEF PhaseState
  <2>2. CommitsPhase(d, "phaseFail")
    BY <1>4, Recordings DEF ReconcileAttempt
  <2> HIDE DEF d
  <2>3. Tracked(d, limit, ck.spent, ck.net) /\ PhaseAt("phaseFail", d, limit)
    BY <1>2, <1>4, <2>1 DEF Tracked, Crossed, PhaseAt
  <2> QED BY <1>1, <2>1, <2>2, <2>3, PhaseWrite
<1>5. CASE ~c.pending
  <2> DEFINE d == [c EXCEPT !.completed = @ + 1, !.crossed = FALSE, !.fatal = TRUE]
  <2>0. c.completed + 1 \in 0 .. RequestLimit /\ c.reserved = c.completed + 1
    BY <1>2, <1>3, <1>5 DEF Tracked
  <2>1. /\ d \in PhaseState /\ d.reserved = c.reserved /\ d.completed = c.completed + 1
        /\ d.crossed = FALSE /\ d.fatal = TRUE /\ d.pending = c.pending
    BY <1>2, <2>0 DEF PhaseState
  <2>2. CommitsPhase(d, "phaseFail")
    BY <1>5, Recordings DEF ReconcileAttempt
  <2> HIDE DEF d
  <2>3. ck.net <= ck.spent + c.completed + 1
    BY <1>2, CrossedIs DEF Tracked
  <2>4. Tracked(d, limit, ck.spent, ck.net) /\ PhaseAt("phaseFail", d, limit)
    BY <1>2, <1>5, <2>0, <2>1, <2>3 DEF Tracked, Crossed, PhaseAt
  <2> QED BY <1>1, <2>1, <2>2, <2>4, PhaseWrite
<1> QED BY <1>4, <1>5

\* Recovery after an exception settles the checkpoint.
LEMMA RecoverTerminalKeeps ==
  ASSUME ClientInv, RecoverTerminal
  PROVE  ClientInv'
<1>1. pc = "except" /\ SameFiles /\ sent' = sent
  BY DEF RecoverTerminal
<1>2. CASE pc' = "off" /\ SameCheckpoint
  <2>1. ck' = ck /\ file' = file /\ Intact' = Intact
    BY <1>1, <1>2 DEF SameCheckpoint, SameFiles, ck, Intact
  <2>2. Empty(file) /\ ~file.recovery
    BY <1>1 DEF ClientInv, Filed, Busy, RunnerSteps
  <2>3. Filed("off", file, ck)
    BY <2>2 DEF Filed, Empty, Busy, RunnerSteps
  <2>4. ClientTypeOK' /\ CheckpointOK'
    BY <1>1, <1>2, <2>1 DEF ClientInv, ClientTypeOK, CheckpointOK, ClientSteps, SameCheckpoint
  <2>5. At("off", ck, sent)
    BY DEF At, InPhase
  <2> QED BY <1>1, <1>2, <2>1, <2>3, <2>4, <2>5 DEF ClientInv
<1>3. ASSUME Resumable, ~(pc' = "off" /\ SameCheckpoint)
      PROVE  ClientInv'
  <2>1. ck # NoState /\ Good(ck) /\ Tallied(ck, sent) /\ ck \in Checkpoint /\ sent \in Nat
        /\ ck.status \in {"RUNNING", "FAILED", "PASSED"}
    BY <1>3, CurrentState, CheckpointFields DEF Resumable
  <2>2. CASE ck.status # "RUNNING" /\ pc' = "evidence" /\ SameCheckpoint
    <3>1. At("evidence", ck, sent)
      BY <2>1, <2>2 DEF At, InPhase
    <3> QED BY <1>1, <2>2, <3>1, MoveKeeps DEF Busy, RunnerSteps
  <2>3. CASE ck.status = "RUNNING" /\ Interrupted(ck) /\ pc' = "reconcile" /\ SameCheckpoint
    <3>1. At("reconcile", ck, sent)
      BY <2>1, <2>3 DEF At, AtPhase, InPhase, Interrupted
    <3> QED BY <1>1, <2>3, <3>1, MoveKeeps DEF Busy, RunnerSteps
  <2>4. CASE ck.status = "RUNNING" /\ ck.done = Len(PhaseLimits)
             /\ Commits([ck EXCEPT !.status = "PASSED"], "evidence")
    <3> DEFINE t == [ck EXCEPT !.status = "PASSED"]
    <3>1. Good(t) /\ Tallied(t, sent) /\ t.status = "PASSED"
      BY <2>1, <2>4, Passing
    <3>2. Commits(t, "evidence")
      BY <2>4
    <3> HIDE DEF t
    <3>3. At("evidence", t, sent)
      BY <3>1, CheckpointFields DEF At, InPhase, Good
    <3> QED BY <1>1, <2>1, <3>1, <3>2, <3>3, WriteKeeps DEF Busy, RunnerSteps
  <2>5. CASE /\ ck.status = "RUNNING" /\ ~Interrupted(ck) /\ ck.done # Len(PhaseLimits)
             /\ Commits([ck EXCEPT !.status = "FAILED", !.cur = NoState,
                         !.failed = IF ck.cur = NoState THEN NewPhase ELSE ck.cur], "evidence")
    <3> DEFINE c == IF ck.cur = NoState THEN NewPhase ELSE ck.cur
               t == [ck EXCEPT !.status = "FAILED", !.cur = NoState, !.failed = c]
    <3>0. Commits(t, "evidence")
      BY <2>5
    <3>1. ck.done < Len(PhaseLimits) /\ ck.done \in Nat
      BY <2>1, <2>5, CheckpointFields
    <3>2. PhaseLimits[ck.done + 1] \in Nat
      BY <3>1, NextLimit
    <3>3. /\ c \in PhaseState /\ c.reserved = c.completed /\ ~c.crossed
          /\ c.completed <= PhaseLimits[ck.done + 1] /\ ck.net <= ck.spent + c.completed
      <4>1. CASE ck.cur = NoState
        <5>1. ck.net = ck.spent /\ ck.net \in Nat
          BY <2>1, <2>5, <4>1, CheckpointFields DEF Good, Balanced
        <5>2. c = NewPhase
          BY <4>1
        <5> QED BY <3>2, <5>1, <5>2, FirstState
      <4>2. CASE ck.cur # NoState
        <5>1. Open(ck) /\ c = ck.cur
          BY <2>1, <4>2, GoodIsOpen
        <5> HIDE DEF c
        <5>2. c \in PhaseState /\ Tracked(c, PhaseLimits[ck.done + 1], ck.spent, ck.net)
          BY <5>1 DEF Open
        <5>3. c.reserved \in Nat /\ c.completed \in Nat
          BY <5>2, PhaseFields
        <5>4. c.reserved = c.completed
          BY <2>5, <4>2, <5>1, <5>2, <5>3 DEF Interrupted, Tracked
        <5>5. ~c.crossed /\ c.completed <= PhaseLimits[ck.done + 1]
          BY <5>2, <5>3, <5>4 DEF Tracked
        <5>6. ck.spent \in Nat /\ ck.net \in Nat
          BY <2>1, CheckpointFields
        <5>7. ck.net <= ck.spent + c.completed
          BY <5>2, <5>3, <5>5, <5>6 DEF Tracked, Crossed
        <5> QED BY <5>2, <5>4, <5>5, <5>7
      <4> QED BY <4>1, <4>2
    <3> HIDE DEF c
    <3>4. /\ t \in Checkpoint /\ t.status = "FAILED" /\ t.cur = NoState /\ t.failed = c
          /\ t.done = ck.done /\ t.spent = ck.spent /\ t.net = ck.net
      BY <2>1, <3>3 DEF Checkpoint
    <3> HIDE DEF t
    <3>5. Good(t) /\ Tallied(t, sent)
      BY <2>1, <2>5, <3>1, <3>3, <3>4, Failing
    <3>6. At("evidence", t, sent)
      BY <3>4, CheckpointFields DEF At, InPhase
    <3> QED BY <1>1, <2>1, <3>0, <3>5, <3>6, WriteKeeps DEF Busy, RunnerSteps
  <2> QED BY <1>3, <2>2, <2>3, <2>4, <2>5, Recordings DEF RecoverTerminal
<1> QED BY <1>2, <1>3, Recordings DEF RecoverTerminal

\* An exception at any step leaves the checkpoint as it is.
LEMMA RunnerExceptionKeeps ==
  ASSUME ClientInv, RunnerException
  PROVE  ClientInv'
<1>1. At("except", ck, sent)
  BY DEF At, InPhase
<1> QED BY <1>1, Recordings, MoveKeeps DEF RunnerException, Busy


-----------------------------------------------------------------------------
(* Steps that leave the checkpoint alone. *)

\* The steps at which nothing is known of the checkpoint.
Away == {"off", "acquire", "run", "except", "attest", "pending", "clearTerminal", "release",
         "releaseRecovery", "clearRecovery", "json", "markdown", "manifest", "clearPending",
         "clearLast"}

\* A step that only touches the files of the final evidence store.
LEMMA FilesKeep ==
  ASSUME ClientInv, SameState, sent' = sent, NEW next \in Away, pc' = next, file' \in Files,
         Filed(next, file', ck)
  PROVE  ClientInv'
<1>1. ck' = ck /\ Intact' = Intact
  BY DEF SameState, ck, Intact
<1>2. next \in ClientSteps
  BY DEF ClientSteps, Busy, RunnerSteps, Away
<1>3. ClientTypeOK'
  BY <1>2 DEF ClientInv, ClientTypeOK, SameState
<1>4. CheckpointOK'
  BY <1>1 DEF ClientInv, CheckpointOK
<1>5. At(next, ck, sent)
  BY DEF At, InPhase, Away
<1> QED BY <1>1, <1>3, <1>4, <1>5 DEF ClientInv

\* The process ends and leaves the files as they are.
LEMMA OffKeeps ==
  ASSUME ClientInv, SameState, SameFiles, sent' = sent, pc' = "off"
  PROVE  ClientInv'
<1>1. file' = file /\ file \in Files /\ "off" \in Away
  BY DEF SameFiles, ClientInv, ClientTypeOK, Away
<1>2. Filed("off", file, ck)
  BY DEF ClientInv, Filed, Busy, RunnerSteps
<1> QED BY <1>1, <1>2, FilesKeep

\* The fields of the store.
LEMMA FileFields ==
  ASSUME NEW f \in Files
  PROVE  /\ \A field \in {"terminal", "pending", "json", "md", "manifest"} :
              f[field] \in Document \cup {NoFile}
         /\ f.recovery \in BOOLEAN
         /\ \A field \in {"terminal", "pending", "json", "md", "manifest"} :
              \A d \in Document \cup {NoFile} : [f EXCEPT ![field] = d] \in Files
         /\ \A b \in BOOLEAN : [f EXCEPT !.recovery = b] \in Files
BY DEF Files

\* The process dies.
LEMMA DieKeeps ==
  ASSUME ClientInv, Die
  PROVE  ClientInv'
BY OffKeeps DEF Die

\* The broker and the requests to it do not touch what the client has recorded.
LEMMA AskKeeps ==
  ASSUME ClientInv, Ask \/ Broker \/ UNCHANGED acceptanceVars
  PROVE  ClientInv'
<1>1. SameState /\ SameFiles /\ sent' = sent /\ pc' = pc
  BY DEF Ask, Broker, clientVars, acceptanceVars, SameState, SameFiles
<1>2. ck' = ck /\ Intact' = Intact /\ file' = file
  BY <1>1 DEF SameState, SameFiles, ck, Intact
<1>3. ClientTypeOK' /\ CheckpointOK'
  BY <1>1, <1>2 DEF ClientInv, ClientTypeOK, CheckpointOK, SameState
<1> QED BY <1>1, <1>2, <1>3 DEF ClientInv

\* A torn write spoils the slot that is not committed.
LEMMA TornWriteKeeps ==
  ASSUME ClientInv, TornWrite
  PROVE  ClientInv'
<1>1. /\ slots' = [slots EXCEPT ![OtherSlot] = Uncommitted] /\ commit' = commit
      /\ pc' \in {"except", "off"} /\ file' = file /\ sent' = sent /\ pc \in RunnerSteps
  BY DEF TornWrite, SameFiles
<1>2. slots \in [Slots -> Checkpoint \cup {NoState, Uncommitted}]
      /\ commit \in [slot : Slots, digest : Checkpoint] \cup {NoState}
  BY DEF ClientInv, ClientTypeOK
<1>3. OtherSlot \in Slots
  BY DEF OtherSlot, Slots
<1>4. commit # NoState => commit.slot # OtherSlot /\ commit.slot \in Slots
  BY <1>2 DEF OtherSlot, Slots
<1>5. Intact'
  BY <1>1, <1>2, <1>3, <1>4 DEF ClientInv, CheckpointOK, Intact
<1>6. ck' = ck
  BY <1>1 DEF ck
<1>7. ClientTypeOK'
  <2>1. slots' \in [Slots -> Checkpoint \cup {NoState, Uncommitted}]
    BY <1>1, <1>2
  <2> QED BY <1>1, <2>1 DEF ClientInv, ClientTypeOK, ClientSteps, Busy
<1>8. CheckpointOK'
  BY <1>1, <1>5, <1>6 DEF ClientInv, CheckpointOK
<1>9. At(pc', ck, sent)
  BY <1>1 DEF At, InPhase
<1>10. Filed(pc', file, ck)
  <2>1. Empty(file) /\ ~file.recovery
    BY <1>1 DEF ClientInv, Filed, Busy
  <2> QED BY <1>1, <2>1 DEF Filed, Empty, Busy, RunnerSteps
<1> QED BY <1>1, <1>6, <1>7, <1>8, <1>9, <1>10 DEF ClientInv

\* A refused request ends the run, or the phase.
LEMMA RefusedKeeps ==
  ASSUME ClientInv, Refused
  PROVE  ClientInv'
<1>1. Fails /\ SameFiles /\ sent' = sent
  BY DEF Refused, Fails
<1>2. CASE pc' = "off" /\ SameState
  BY <1>1, <1>2, OffKeeps
<1>3. CASE pc \in {"preflight", "repeat"} /\ pc' = "except" /\ SameState
  <2>1. At("except", ck, sent)
    BY DEF At, InPhase
  <2> QED BY <1>1, <1>3, <2>1, Recordings, MoveKeeps DEF Busy, RunnerSteps
<1>4. CASE pc \in {"refresh", "observe", "phaseRefresh", "phaseObserve"}
           /\ WritePhase([ck.cur EXCEPT !.fatal = TRUE], "phaseFail")
  <2>1. pc \in InPhase
    BY <1>4 DEF InPhase
  <2>2. AtPhase(pc, ck, sent)
    BY <2>1, CurrentPhase
  <2>3. ck.cur.reserved = ck.cur.completed
    BY <1>4, <2>2 DEF AtPhase
  <2> QED BY <1>1, <1>4, <2>1, <2>3, Recordings, FatalWrite
<1> QED BY <1>1, <1>2, <1>3, <1>4 DEF Fails


-----------------------------------------------------------------------------
(* Completion and the start of a launch. *)

\* Evidence of a settled run is drafted, or dropped.
LEMMA EvidenceKeeps ==
  ASSUME ClientInv, Evidence
  PROVE  ClientInv'
<1>1. pc = "evidence" /\ SameState /\ sent' = sent /\ file \in Files /\ Empty(file)
      /\ ~file.recovery
  BY DEF Evidence, Store, ClientInv, ClientTypeOK, Filed, Busy
<1>2. ck # NoState /\ ck.status \in {"FAILED", "PASSED"}
  <2>1. ck # NoState /\ ck.status # "RUNNING"
    BY <1>1 DEF ClientInv, At
  <2> QED BY <2>1, CurrentState, CheckpointFields
<1>3. CASE Store("terminal", [status |-> ck.status, chain |-> 0], "attest")
  <2> DEFINE d == [status |-> ck.status, chain |-> 0]
             g == [file EXCEPT !.terminal = d]
  <2>1. d \in Document /\ d.status = ck.status
    BY <1>2 DEF Document
  <2>2. d # NoFile
    BY <2>1, AbsentAssumption
  <2>3. file' = g /\ pc' = "attest"
    BY <1>3 DEF Store
  <2> HIDE DEF d
  <2>4. /\ g \in Files /\ g.terminal = d /\ g.pending = NoFile /\ g.json = NoFile
        /\ g.md = NoFile /\ g.manifest = NoFile /\ g.recovery = file.recovery
    BY <1>1, <2>1 DEF Files, Empty
  <2> HIDE DEF g
  <2>6. Filed("attest", g, ck)
    BY <1>1, <1>2, <2>1, <2>2, <2>4 DEF Filed, Empty, Busy, RunnerSteps
  <2> QED BY <1>1, <2>3, <2>4, <2>6, FilesKeep DEF Away
<1>4. CASE Store("recovery", TRUE, "releaseRecovery")
  <2> DEFINE g == [file EXCEPT !.recovery = TRUE]
  <2>1. file' = g /\ pc' = "releaseRecovery"
    BY <1>4 DEF Store
  <2>2. /\ g \in Files /\ g.terminal = NoFile /\ g.pending = NoFile /\ g.json = NoFile
        /\ g.md = NoFile /\ g.manifest = NoFile /\ g.recovery
    BY <1>1 DEF Files, Empty
  <2> HIDE DEF g
  <2>3. Filed("releaseRecovery", g, ck)
    BY <2>2 DEF Filed, Empty, Busy, RunnerSteps
  <2> QED BY <1>1, <2>1, <2>2, <2>3, FilesKeep DEF Away
<1> QED BY <1>3, <1>4 DEF Evidence


\* The attested window and the released lease leave the store as it is.
LEMMA AttestedKeeps ==
  ASSUME ClientInv, Attested \/ Released
  PROVE  ClientInv'
<1>1. file \in Files /\ Filed(pc, file, ck)
  BY DEF ClientInv, ClientTypeOK
<1>2. CASE Attested
  <2>1. pc = "attest" /\ pc' = "pending" /\ SameState /\ file' = file /\ sent' = sent
    BY <1>2 DEF Attested, SameFiles
  <2>2. Filed("pending", file, ck)
    BY <1>1, <2>1 DEF Filed, Busy, RunnerSteps
  <2> QED BY <1>1, <2>1, <2>2, FilesKeep DEF Away
<1>3. CASE Released
  <2>1. /\ SameState /\ file' = file /\ sent' = sent
        /\ \/ pc = "release" /\ pc' = "json"
           \/ pc = "releaseRecovery" /\ pc' = "clearRecovery"
    BY <1>3 DEF Released, SameFiles
  <2>2. Filed(pc', file, ck)
    BY <1>1, <2>1 DEF Filed, Busy, RunnerSteps
  <2>3. pc' \in Away
    BY <2>1 DEF Away
  <2> QED BY <1>1, <2>1, <2>2, <2>3, FilesKeep
<1> QED BY <1>2, <1>3

\* The draft becomes the pending document.
LEMMA WritePendingKeeps ==
  ASSUME ClientInv, WritePending
  PROVE  ClientInv'
<1> DEFINE g == [file EXCEPT !.pending = file.terminal]
<1>1. /\ pc = "pending" /\ pc' = "clearTerminal" /\ SameState /\ sent' = sent /\ file' = g
      /\ file \in Files /\ Filed("pending", file, ck)
  BY DEF WritePending, Store, ClientInv, ClientTypeOK
<1>2. /\ g \in Files /\ g.terminal = file.terminal /\ g.pending = file.terminal
      /\ g.json = file.json /\ g.md = file.md /\ g.manifest = file.manifest
      /\ g.recovery = file.recovery
  BY <1>1 DEF Files
<1> HIDE DEF g
<1>3. /\ file.terminal # NoFile /\ {file.pending, file.json, file.md, file.manifest} = {NoFile}
      /\ file.terminal # NoFile => ck # NoState /\ file.terminal.status = ck.status
      /\ file.recovery => Empty(file)
  BY <1>1 DEF Filed
<1>4. Filed("clearTerminal", g, ck)
  BY <1>2, <1>3 DEF Filed, Empty, Busy, RunnerSteps
<1> QED BY <1>1, <1>2, <1>4, FilesKeep DEF Away

\* The draft is cleared, before the release and at the end.
LEMMA ClearTerminalKeeps ==
  ASSUME ClientInv, ClearTerminal \/ ClearLast
  PROVE  ClientInv'
<1> DEFINE g == [file EXCEPT !.terminal = NoFile]
<1>1. /\ \/ pc = "clearTerminal" /\ pc' = "release"
         \/ pc = "clearLast" /\ pc' = "off"
      /\ SameState /\ sent' = sent /\ file' = g /\ file \in Files /\ Filed(pc, file, ck)
  BY DEF ClearTerminal, ClearLast, Store, ClientInv, ClientTypeOK
<1>2. /\ g \in Files /\ g.terminal = NoFile /\ g.pending = file.pending
      /\ g.json = file.json /\ g.md = file.md /\ g.manifest = file.manifest
      /\ g.recovery = file.recovery
  BY <1>1 DEF Files
<1> HIDE DEF g
<1>3. Filed(pc', g, ck)
  BY <1>1, <1>2 DEF Filed, Empty, Busy, RunnerSteps
<1>4. pc' \in Away
  BY <1>1 DEF Away
<1> QED BY <1>1, <1>2, <1>3, <1>4, FilesKeep

\* A run without evidence is over when its lease is released.
LEMMA ClearRecoveryKeeps ==
  ASSUME ClientInv, ClearRecovery
  PROVE  ClientInv'
<1> DEFINE g == [file EXCEPT !.recovery = FALSE]
<1>1. /\ pc' = "off" /\ SameState /\ sent' = sent /\ file' = g
      /\ file \in Files /\ Filed(pc, file, ck)
  BY DEF ClearRecovery, Store, ClientInv, ClientTypeOK
<1>2. /\ g \in Files /\ g.terminal = file.terminal /\ g.pending = file.pending
      /\ g.json = file.json /\ g.md = file.md /\ g.manifest = file.manifest /\ ~g.recovery
  BY <1>1 DEF Files
<1> HIDE DEF g
<1>3. Filed("off", g, ck)
  BY <1>1, <1>2 DEF Filed, Busy, RunnerSteps
<1> QED BY <1>1, <1>2, <1>3, FilesKeep DEF Away

\* The artifacts of the final evidence are copies of the pending document, the
\* manifest the last of them.
LEMMA WriteFinalKeeps ==
  ASSUME ClientInv, WriteJson \/ WriteMarkdown \/ WriteManifest
  PROVE  ClientInv'
<1>1. SameState /\ sent' = sent /\ file \in Files /\ Filed(pc, file, ck)
  BY DEF WriteJson, WriteMarkdown, WriteManifest, Store, ClientInv, ClientTypeOK
<1>2. CASE WriteJson
  <2> DEFINE g == [file EXCEPT !.json = file.pending]
  <2>1. pc = "json" /\ pc' = "markdown" /\ file' = g
    BY <1>2 DEF WriteJson, Store
  <2>2. /\ g \in Files /\ g.terminal = file.terminal /\ g.pending = file.pending
        /\ g.json = file.pending /\ g.md = file.md /\ g.manifest = file.manifest
        /\ g.recovery = file.recovery
    BY <1>1 DEF Files
  <2> HIDE DEF g
  <2>3. Filed("markdown", g, ck)
    BY <1>1, <2>1, <2>2 DEF Filed, Empty, Busy, RunnerSteps
  <2> QED BY <1>1, <2>1, <2>2, <2>3, FilesKeep DEF Away
<1>3. CASE WriteMarkdown
  <2> DEFINE g == [file EXCEPT !.md = file.pending]
  <2>1. pc = "markdown" /\ pc' = "manifest" /\ file' = g
    BY <1>3 DEF WriteMarkdown, Store
  <2>2. /\ g \in Files /\ g.terminal = file.terminal /\ g.pending = file.pending
        /\ g.json = file.json /\ g.md = file.pending /\ g.manifest = file.manifest
        /\ g.recovery = file.recovery
    BY <1>1 DEF Files
  <2> HIDE DEF g
  <2>3. Filed("manifest", g, ck)
    BY <1>1, <2>1, <2>2 DEF Filed, Empty, Busy, RunnerSteps
  <2> QED BY <1>1, <2>1, <2>2, <2>3, FilesKeep DEF Away
<1>4. CASE WriteManifest
  <2> DEFINE g == [file EXCEPT !.manifest = file.pending]
  <2>1. pc = "manifest" /\ pc' = "clearPending" /\ file' = g
    BY <1>4 DEF WriteManifest, Store
  <2>2. /\ g \in Files /\ g.terminal = file.terminal /\ g.pending = file.pending
        /\ g.json = file.json /\ g.md = file.md /\ g.manifest = file.pending
        /\ g.recovery = file.recovery
    BY <1>1 DEF Files
  <2> HIDE DEF g
  <2>3. Filed("clearPending", g, ck)
    BY <1>1, <2>1, <2>2 DEF Filed, Empty, Busy, RunnerSteps
  <2> QED BY <1>1, <2>1, <2>2, <2>3, FilesKeep DEF Away
<1> QED BY <1>2, <1>3, <1>4

\* A committed set needs no pending document.
LEMMA ClearPendingKeeps ==
  ASSUME ClientInv, ClearPending
  PROVE  ClientInv'
<1> DEFINE g == [file EXCEPT !.pending = NoFile]
<1>1. /\ pc = "clearPending" /\ pc' = "clearLast" /\ SameState /\ sent' = sent /\ file' = g
      /\ file \in Files /\ Filed("clearPending", file, ck)
  BY DEF ClearPending, Store, ClientInv, ClientTypeOK
<1>2. /\ g \in Files /\ g.terminal = file.terminal /\ g.pending = NoFile
      /\ g.json = file.json /\ g.md = file.md /\ g.manifest = file.manifest
      /\ g.recovery = file.recovery
  BY <1>1 DEF Files
<1> HIDE DEF g
<1>3. Filed("clearLast", g, ck)
  BY <1>1, <1>2 DEF Filed, Empty, Busy, RunnerSteps
<1> QED BY <1>1, <1>2, <1>3, FilesKeep DEF Away


\* A launch takes over what the files of an earlier one say.
LEMMA LaunchKeeps ==
  ASSUME ClientInv, Launch
  PROVE  ClientInv'
<1>1. /\ pc = "off" /\ SameState /\ sent' = sent /\ file \in Files /\ Filed("off", file, ck)
  BY DEF Launch, ClientInv, ClientTypeOK
<1>2. CASE pc' = "off" /\ SameFiles
  BY <1>1, <1>2, OffKeeps
<1>3. CASE /\ pc' = "off" /\ file.manifest # NoFile
           /\ file' = [file EXCEPT !.pending = NoFile]
  <2> DEFINE g == [file EXCEPT !.pending = NoFile]
  <2>1. /\ g \in Files /\ g.terminal = file.terminal /\ g.pending = NoFile
        /\ g.json = file.json /\ g.md = file.md /\ g.manifest = file.manifest
        /\ g.recovery = file.recovery
    BY <1>1 DEF Files
  <2>2. file' = g
    BY <1>3
  <2> HIDE DEF g
  <2>3. Filed("off", g, ck)
    BY <1>1, <1>3, <2>1 DEF Filed, Empty, Busy, RunnerSteps
  <2> QED BY <1>1, <1>3, <2>1, <2>2, <2>3, FilesKeep DEF Away
<1>4. CASE file.recovery /\ pc' = "releaseRecovery" /\ SameFiles
  <2>1. Filed("releaseRecovery", file, ck) /\ file' = file
    BY <1>1, <1>4 DEF Filed, SameFiles, Busy, RunnerSteps
  <2> QED BY <1>1, <1>4, <2>1, FilesKeep DEF Away
<1>5. ASSUME NEW d \in Document, NEW e, e = Recovered(d)
      PROVE  e \in Document /\ e.status = d.status /\ e # NoFile
  BY <1>5, AbsentAssumption DEF Document, Recovered
<1>6. CASE /\ file.manifest = NoFile /\ ~file.recovery /\ file.pending # NoFile
           /\ file' = [file EXCEPT !.pending = Recovered(@)] /\ pc' = "release"
  <2> DEFINE e == Recovered(file.pending)
             g == [file EXCEPT !.pending = e]
  <2>1. file.pending \in Document
    BY <1>1, <1>6 DEF Files
  <2>2. e \in Document /\ e.status = file.pending.status /\ e # NoFile
    BY <1>5, <2>1
  <2>3. file' = g
    BY <1>6
  <2> HIDE DEF e
  <2>4. /\ g \in Files /\ g.terminal = file.terminal /\ g.pending = e
        /\ g.json = file.json /\ g.md = file.md /\ g.manifest = file.manifest
        /\ g.recovery = file.recovery
    BY <1>1, <2>2 DEF Files
  <2> HIDE DEF g
  <2>5. Filed("release", g, ck)
    BY <1>1, <1>6, <2>2, <2>4 DEF Filed, Busy, RunnerSteps
  <2> QED BY <1>1, <1>6, <2>3, <2>4, <2>5, FilesKeep DEF Away
<1>7. CASE /\ file.manifest = NoFile /\ {file.json, file.md} = {NoFile}
           /\ ~file.recovery /\ file.pending = NoFile /\ file.terminal # NoFile
           /\ file' = [file EXCEPT !.terminal = Recovered(@)] /\ pc' = "attest"
  <2> DEFINE e == Recovered(file.terminal)
             g == [file EXCEPT !.terminal = e]
  <2>1. file.terminal \in Document
    BY <1>1, <1>7 DEF Files
  <2>2. e \in Document /\ e.status = file.terminal.status /\ e # NoFile
    BY <1>5, <2>1
  <2>3. file' = g
    BY <1>7
  <2> HIDE DEF e
  <2>4. /\ g \in Files /\ g.terminal = e /\ g.pending = file.pending
        /\ g.json = file.json /\ g.md = file.md /\ g.manifest = file.manifest
        /\ g.recovery = file.recovery
    BY <1>1, <2>2 DEF Files
  <2> HIDE DEF g
  <2>5. Filed("attest", g, ck)
    BY <1>1, <1>7, <2>2, <2>4 DEF Filed, Busy, RunnerSteps
  <2> QED BY <1>1, <1>7, <2>3, <2>4, <2>5, FilesKeep DEF Away
<1>8. CASE /\ Empty(file) /\ ~file.recovery /\ pc' = "acquire" /\ SameFiles
  <2>1. Filed("acquire", file, ck) /\ file' = file
    BY <1>1, <1>8 DEF Filed, Empty, SameFiles
  <2> QED BY <1>1, <1>8, <2>1, FilesKeep DEF Away
<1>9. file.manifest = NoFile /\ file.pending = NoFile => {file.json, file.md} = {NoFile}
  BY <1>1 DEF Filed
<1>10. file.manifest = NoFile /\ file.pending = NoFile /\ file.terminal = NoFile => Empty(file)
  BY <1>9 DEF Empty
<1>11. CASE file.manifest # NoFile
  BY <1>2, <1>3, <1>11 DEF Launch
<1>12. CASE file.manifest = NoFile
  BY <1>2, <1>4, <1>6, <1>7, <1>8, <1>9, <1>10, <1>12 DEF Launch
<1> QED BY <1>11, <1>12


-----------------------------------------------------------------------------
(* The client, whatever the broker does. *)

\* The client starts with nothing recorded.
LEMMA ClientInit == AcceptanceInit => ClientInv
<1> SUFFICES ASSUME AcceptanceInit PROVE ClientInv
  OBVIOUS
<1>1. /\ slots = [s \in Slots |-> NoState] /\ commit = NoState /\ pc = "off" /\ sent = 0
      /\ file = [terminal |-> NoFile, pending |-> NoFile, recovery |-> FALSE,
                 json |-> NoFile, md |-> NoFile, manifest |-> NoFile]
  BY DEF AcceptanceInit
<1>2. ck = NoState /\ Intact
  BY <1>1 DEF ck, Intact
<1>3. file \in Files /\ Empty(file) /\ ~file.recovery
  BY <1>1 DEF Files, Empty
<1>4. ClientTypeOK
  BY <1>1, <1>3 DEF ClientTypeOK, ClientSteps
<1>5. CheckpointOK
  BY <1>1, <1>2 DEF CheckpointOK
<1>6. At("off", ck, sent)
  BY DEF At, InPhase
<1>7. Filed("off", file, ck)
  BY <1>3 DEF Filed, Empty, Busy, RunnerSteps
<1> QED BY <1>1, <1>4, <1>5, <1>6, <1>7 DEF ClientInv

\* Every step keeps the invariant of the client.
LEMMA ClientNext == ClientInv /\ [AcceptanceNext]_acceptanceVars => ClientInv'
<1> SUFFICES ASSUME ClientInv, [AcceptanceNext]_acceptanceVars PROVE ClientInv'
  OBVIOUS
<1>1. CASE Launch
  BY <1>1, LaunchKeeps
<1>2. CASE Ask \/ Broker \/ UNCHANGED acceptanceVars
  BY <1>2, AskKeeps
<1>3. CASE Refused
  BY <1>3, RefusedKeeps
<1>4. CASE Runner
  <2>1. CASE Acquired \/ Enter \/ Admitted \/ Repeated \/ NextPhase \/ Loop
    BY <2>1, AcquiredKeeps, EnterKeeps, AdmittedKeeps, RepeatedKeeps, NextPhaseKeeps, LoopKeeps
  <2>2. CASE Refreshed \/ PhaseRefreshed \/ Reserve \/ Dispatching \/ Send \/ Complete
    BY <2>2, RefreshedKeeps, ReserveKeeps, DispatchingKeeps, SendKeeps, CompleteKeeps
  <2>3. CASE PhasePassed \/ PhaseFailed \/ ReconcileAttempt \/ RecoverTerminal
    BY <2>3, PhasePassedKeeps, PhaseFailedKeeps, ReconcileAttemptKeeps, RecoverTerminalKeeps
  <2> QED BY <1>4, <2>1, <2>2, <2>3 DEF Runner
<1>5. CASE Completion
  <2>1. CASE Evidence \/ Attested \/ Released \/ WritePending
    BY <2>1, EvidenceKeeps, AttestedKeeps, WritePendingKeeps
  <2>2. CASE ClearTerminal \/ ClearLast \/ ClearRecovery \/ ClearPending
    BY <2>2, ClearTerminalKeeps, ClearRecoveryKeeps, ClearPendingKeeps
  <2>3. CASE WriteJson \/ WriteMarkdown \/ WriteManifest
    BY <2>3, WriteFinalKeeps
  <2> QED BY <1>5, <2>1, <2>2, <2>3 DEF Completion
<1>6. CASE RunnerException \/ TornWrite \/ Die
  BY <1>6, RunnerExceptionKeeps, TornWriteKeeps, DieKeeps
<1> QED BY <1>1, <1>2, <1>3, <1>4, <1>5, <1>6 DEF AcceptanceNext

\* The invariant of the client holds in every state of a run.
THEOREM ClientInvariance == AcceptanceSpec => []ClientInv
BY ClientInit, ClientNext, PTL DEF AcceptanceSpec

\* Every request that leaves was recorded first and leaves once, across any
\* number of launches: at most one recorded dispatch has not left.
THEOREM CountedDispatches == AcceptanceSpec => []DispatchesAreCounted
<1>1. ASSUME ClientInv PROVE DispatchesAreCounted
  <2>1. CASE ck = NoState
    BY <1>1, <2>1 DEF ClientInv, CheckpointOK, DispatchesAreCounted
  <2>2. CASE ck # NoState
    BY <1>1, <2>2 DEF ClientInv, CheckpointOK, DispatchesAreCounted, Tallied
  <2> QED BY <2>1, <2>2
<1> QED BY <1>1, ClientInvariance, PTL

\* Committed evidence is one consistent set with the status of the checkpoint,
\* PASSED only if every planned request left.
THEOREM TrueEvidence == AcceptanceSpec => []EvidenceIsTrue
<1>1. ASSUME ClientInv PROVE EvidenceIsTrue
  <2>1. Filed(pc, file, ck)
    BY <1>1 DEF ClientInv
  <2>2. ASSUME file.manifest # NoFile, file.manifest.status = "PASSED"
        PROVE  sent = RequestLimit
    <3>1. ck # NoState /\ ck.status = "PASSED"
      BY <2>1, <2>2 DEF Filed
    <3>2. Good(ck) /\ Tallied(ck, sent) /\ ck \in Checkpoint /\ sent \in Nat /\ ck.net \in Nat
      BY <1>1, <3>1, CurrentState, CheckpointFields
    <3>3. ck.cur = NoState /\ ck.done = Len(PhaseLimits) /\ ck.spent = Planned[ck.done]
          /\ ck.net = ck.spent
      BY <3>1, <3>2 DEF Good, Balanced, Consistent
    <3>4. sent = ck.net
      BY <3>1, <3>2, <3>3 DEF Tallied
    <3> QED BY <3>3, <3>4 DEF RequestLimit
  <2> QED BY <2>1, <2>2 DEF Filed, EvidenceIsTrue
<1> QED BY <1>1, ClientInvariance, PTL


-----------------------------------------------------------------------------
(* What the safety observation of a checkpoint is bound to. *)

\* The steps of a launch before it restores a checkpoint, and those at which the
\* observation of a first launch follows its attestation.
Unstarted == {"acquire", "run", "preflight"}
Observing == {"phase", "loop", "refresh", "dispatch", "wire", "answer", "phaseRefresh"}

\* The run fails with this checkpoint.
Spoilt(s) == s.status = "FAILED" \/ (s.cur # NoState /\ s.cur.fatal)

\* In launch n, at step at, with checkpoint s and the bindings b: a phase passes
\* only with an observation, and a first launch, which restores nothing, leaves one
\* behind only in a checkpoint that is spoilt.
Bound(at, s, b, n) ==
  /\ n = 0 => at = "off" /\ s = NoState
  /\ n <= 1 /\ at \in Unstarted => s = NoState
  /\ n <= 1 /\ at \in Observing => b.memory # "stale"
  /\ n <= 1 /\ b.committed = "stale" => s # NoState /\ Spoilt(s)
  /\ s = NoState => b.committed = "none"
  /\ b.memory = "none" <=> b.committed = "none"
  /\ s # NoState /\ s.done > 0 => b.committed # "none"

BindingInv ==
  /\ launches \in Nat
  /\ safety \in [memory : Bindings, committed : Bindings]
  /\ Bound(pc, ck, safety, launches)

\* A checkpoint s is written with the binding b.
LEMMA PersistBinds ==
  ASSUME ClientInv, BindingInv, pc # "off", NEW s \in Checkpoint, NEW b \in Bindings,
         NEW next, next \notin Unstarted, Persist(s, b, next), launches' = launches,
         s.done > 0 => b # "none",
         launches <= 1 /\ next \in Observing => b # "stale",
         launches <= 1 /\ b = "stale" => Spoilt(s)
  PROVE  BindingInv'
<1>1. s # NoState
  BY CheckpointFields
<1> DEFINE k == [slot |-> OtherSlot, digest |-> s]
<1>2. k \in [slot : Slots, digest : Checkpoint] /\ k.digest = s
  BY DEF OtherSlot, Slots
<1>3. k # NoState
  BY <1>2, AbsentAssumption
<1>4. commit' = k /\ pc' = next /\ safety' = [memory |-> b, committed |-> b]
  BY DEF Persist
<1> HIDE DEF k
<1>5. ck' = s
  BY <1>2, <1>3, <1>4 DEF ck
<1>6. launches # 0
  BY DEF BindingInv, Bound
<1>7. Bound(next, s, [memory |-> b, committed |-> b], launches)
  BY <1>1, <1>6 DEF Bound, BindingInv
<1> QED BY <1>4, <1>5, <1>7 DEF BindingInv

\* A step that leaves the checkpoint alone, within a launch.
LEMMA MoveBinds ==
  ASSUME ClientInv, BindingInv, pc # "off", commit' = commit, launches' = launches,
         launches <= 1 /\ pc' \in Unstarted => ck = NoState,
         \/ safety' = safety
         \/ safety' = [safety EXCEPT !.memory = safety.committed]
         \/ safety' = [safety EXCEPT !.memory = Replaced],
         launches <= 1 /\ pc' \in Observing => safety'.memory # "stale"
  PROVE  BindingInv'
<1>1. ck' = ck /\ launches # 0
  BY DEF ck, BindingInv, Bound
<1>2. /\ safety' \in [memory : Bindings, committed : Bindings]
      /\ safety'.committed = safety.committed
      /\ safety'.memory = "none" <=> safety'.committed = "none"
  BY DEF BindingInv, Bound, Bindings, Replaced
<1>3. Bound(pc', ck, safety', launches)
  BY <1>1, <1>2 DEF Bound, BindingInv
<1> QED BY <1>1, <1>2, <1>3 DEF BindingInv

\* What a runner's write in the open phase keeps of the checkpoint.
LEMMA OpenDone ==
  ASSUME ClientInv, BindingInv, pc \in InPhase
  PROVE  /\ ck # NoState /\ ck \in Checkpoint /\ ck.cur \in PhaseState /\ pc # "off"
         /\ safety.memory \in Bindings /\ safety.committed \in Bindings
         /\ ck.done > 0 => safety.memory # "none" /\ safety.committed # "none"
<1>1. ck # NoState /\ ck \in Checkpoint /\ ck.cur \in PhaseState
  BY CurrentPhase, CurrentState
<1> QED BY <1>1 DEF BindingInv, Bound, InPhase

\* The open phase c is written; a binding that is stale spoils it.
LEMMA PhaseBinds ==
  ASSUME ClientInv, BindingInv, pc \in InPhase, NEW c \in PhaseState, NEW b \in {"bound", safety.memory},
         NEW next \in InPhase, Persist([ck EXCEPT !.cur = c], b, next), launches' = launches,
         b = "bound" \/ pc \in Observing \/ (c.fatal /\ next \notin Observing)
  PROVE  BindingInv'
<1> DEFINE t == [ck EXCEPT !.cur = c]
<1>1. /\ ck \in Checkpoint /\ pc # "off" /\ b \in Bindings
      /\ ck.done > 0 => b # "none"
  BY OpenDone DEF Bindings
<1>2. t \in Checkpoint /\ t.done = ck.done /\ t.cur = c
  BY <1>1 DEF Checkpoint
<1>3. Persist(t, b, next)
  OBVIOUS
<1> HIDE DEF t
<1>4. c # NoState /\ next \notin Unstarted
  BY PhaseFields DEF InPhase, Unstarted
<1>5. launches <= 1 /\ pc \in Observing => safety.memory # "stale"
  BY DEF BindingInv, Bound
<1>6. launches <= 1 /\ b = "stale" => Spoilt(t)
  BY <1>2, <1>4, <1>5 DEF Spoilt
<1>7. launches <= 1 /\ next \in Observing => b # "stale"
  BY <1>5
<1> QED BY <1>1, <1>2, <1>3, <1>4, <1>6, <1>7, PersistBinds

\* The open phase is written as a failing one.
LEMMA FatalBinds ==
  ASSUME ClientInv, BindingInv, pc \in InPhase, launches' = launches,
         WritePhase([ck.cur EXCEPT !.fatal = TRUE], "phaseFail") \/ ObservedUnsafe
  PROVE  BindingInv'
<1> DEFINE c == [ck.cur EXCEPT !.fatal = TRUE]
<1>1. ck \in Checkpoint /\ ck.cur \in PhaseState
  BY OpenDone
<1>2. c \in PhaseState /\ c.fatal
  BY <1>1 DEF PhaseState
<1>3. [ck EXCEPT !.cur.fatal = TRUE] = [ck EXCEPT !.cur = c]
  BY <1>1 DEF Checkpoint
<1>4. PICK b \in {"bound", safety.memory} : Persist([ck EXCEPT !.cur = c], b, "phaseFail")
  BY <1>3 DEF ObservedUnsafe, WritePhase, Write
<1> HIDE DEF c
<1>5. "phaseFail" \in InPhase /\ "phaseFail" \notin Observing
  BY DEF InPhase, Observing
<1> QED BY <1>2, <1>4, <1>5, PhaseBinds

\* The steps that start a launch and restore its checkpoint.
LEMMA StartBinds ==
  ASSUME ClientInv, BindingInv, Launch \/ Acquired \/ Enter \/ Admitted
  PROVE  BindingInv'
<1>1. CASE Launch
  <2>1. /\ pc = "off" /\ launches' = launches + 1 /\ safety' = safety /\ commit' = commit
        /\ pc' \in {"off", "releaseRecovery", "release", "attest", "acquire"}
    BY <1>1 DEF Launch, SameState
  <2>2. ck' = ck
    BY <2>1 DEF ck
  <2>3. launches \in Nat /\ Bound("off", ck, safety, launches)
    BY <2>1 DEF BindingInv
  <2>4. launches' <= 1 => launches = 0
    BY <2>1, <2>3
  <2>5. Bound(pc', ck, safety, launches')
    BY <2>1, <2>3, <2>4 DEF Bound, Unstarted, Observing
  <2> QED BY <2>1, <2>2, <2>3, <2>5 DEF BindingInv
<1>2. CASE Acquired
  <2>1. /\ pc = "acquire" /\ pc' = "run" /\ safety' = safety /\ commit' = commit
        /\ launches' = launches
    BY <1>2 DEF Acquired, Answered, SameState
  <2>2. launches <= 1 => ck = NoState
    BY <2>1 DEF BindingInv, Bound, Unstarted
  <2> QED BY <2>1, <2>2, MoveBinds DEF Observing
<1>3. CASE Enter
  <2>1. /\ pc = "run" /\ pc' \in {"preflight", "except", "evidence", "reconcile"}
        /\ safety' = [safety EXCEPT !.memory = safety.committed] /\ commit' = commit
        /\ launches' = launches
    BY <1>3 DEF Enter, Restore, Local
  <2>2. launches <= 1 => ck = NoState
    BY <2>1 DEF BindingInv, Bound, Unstarted
  <2> QED BY <2>1, <2>2, MoveBinds DEF Observing
<1>4. CASE Admitted
  <2>1. /\ pc = "preflight" /\ commit' = commit /\ launches' = launches
        /\ \/ pc' = "except" /\ safety' = safety
           \/ pc' \in {"repeat", "phase"} /\ safety' = [safety EXCEPT !.memory = Replaced]
    BY <1>4 DEF Admitted, Answered, Rebind, SameState
  <2>2. launches <= 1 => safety.memory = "none"
    BY <2>1 DEF BindingInv, Bound, Unstarted
  <2>3. safety \in [memory : Bindings, committed : Bindings]
    BY DEF BindingInv
  <2>4. launches <= 1 /\ pc' \in Observing => safety'.memory # "stale"
    BY <2>1, <2>2, <2>3 DEF Replaced, Observing
  <2> QED BY <2>1, <2>4, MoveBinds DEF Unstarted
<1> QED BY <1>1, <1>2, <1>3, <1>4

\* The steps between two phases.
LEMMA PlanBinds ==
  ASSUME ClientInv, BindingInv, Repeated \/ NextPhase \/ PhasePassed \/ PhaseFailed
  PROVE  BindingInv'
<1>0. /\ safety.memory \in Bindings
      /\ ck # NoState /\ ck.done > 0 => safety.memory # "none"
  BY DEF BindingInv, Bound
<1>1. CASE Repeated
  <2>1. pc = "repeat" /\ Persist(ck, "bound", "evidence") /\ launches' = launches
    BY <1>1 DEF Repeated, Answered
  <2>2. ck \in Checkpoint
    BY <2>1, CurrentState DEF ClientInv, At
  <2> QED BY <2>1, <2>2, PersistBinds DEF Bindings, Unstarted
<1>2. CASE NextPhase
  <2> DEFINE s == IF ck = NoState THEN NewState ELSE ck
             p == [s EXCEPT !.status = "PASSED"]
             o == [s EXCEPT !.cur = NewPhase]
  <2>1. /\ pc = "phase" /\ launches' = launches
        /\ \/ Write(p, "evidence") \/ Write(o, "loop") \/ Write(s, "loop")
           \/ pc' = "loop" /\ safety' = safety /\ commit' = commit
    BY <1>2 DEF NextPhase, Local, SameState
  <2>2. s \in Checkpoint
    BY CurrentState, FirstState DEF Good
  <2>3. s.done > 0 => safety.memory # "none"
    <3>1. CASE ck = NoState
      BY <3>1 DEF NewState
    <3>2. CASE ck # NoState
      BY <1>0, <3>2
    <3> QED BY <3>1, <3>2
  <2>4. p \in Checkpoint /\ p.done = s.done /\ o \in Checkpoint /\ o.done = s.done
    BY <2>2, FirstState DEF Checkpoint
  <2> HIDE DEF s, p, o
  <2>5. launches <= 1 => safety.memory # "stale"
    BY <2>1 DEF BindingInv, Bound, Observing
  <2>6. CASE pc' = "loop" /\ safety' = safety /\ commit' = commit
    BY <2>1, <2>5, <2>6, MoveBinds DEF Unstarted
  <2>7. ASSUME NEW t \in {s, p, o}, NEW next \in {"evidence", "loop"}, Write(t, next)
        PROVE  BindingInv'
    <3>1. t \in Checkpoint /\ t.done = s.done /\ Persist(t, safety.memory, next)
      BY <2>2, <2>4, <2>7 DEF Write
    <3> QED BY <1>0, <2>1, <2>3, <2>5, <3>1, PersistBinds DEF Unstarted
  <2> QED BY <2>1, <2>6, <2>7
<1>3. CASE PhasePassed
  <2> DEFINE t == [ck EXCEPT !.cur = NoState, !.done = @ + 1, !.spent = @ + ck.cur.completed]
  <2>1. /\ pc = "phaseObserve" /\ pc \in InPhase /\ launches' = launches
        /\ Persist(t, "bound", "phase") \/ ObservedUnsafe
    BY <1>3 DEF PhasePassed, Answered, InPhase
  <2>2. /\ ck \in Checkpoint /\ ck.done \in Nat /\ ck.done < Len(PhaseLimits) /\ Len(PhaseLimits) \in Nat
    BY <2>1, CurrentPhase, PlannedGrows DEF Open
  <2>3. ck.done + 1 \in 0 .. Len(PhaseLimits) /\ ck.spent + ck.cur.completed \in 0 .. RequestLimit
    BY <2>1, <2>2, PhaseFacts DEF AtPhase, Tracked
  <2>4. t \in Checkpoint
    BY <2>2, <2>3 DEF Checkpoint
  <2> HIDE DEF t
  <2>5. CASE Persist(t, "bound", "phase")
    BY <2>1, <2>4, <2>5, PersistBinds DEF Bindings, Unstarted
  <2>6. CASE ObservedUnsafe
    BY <2>1, <2>6, FatalBinds
  <2> QED BY <2>1, <2>5, <2>6
<1>4. CASE PhaseFailed
  <2> DEFINE t == [ck EXCEPT !.status = "FAILED", !.failed = ck.cur, !.cur = NoState]
  <2>1. pc = "phaseFail" /\ pc \in InPhase /\ launches' = launches /\ Persist(t, safety.memory, "evidence")
    BY <1>4 DEF PhaseFailed, Write, Local, InPhase
  <2>2. ck \in Checkpoint /\ ck.cur \in PhaseState
    BY <2>1, OpenDone
  <2>3. t \in Checkpoint /\ t.done = ck.done /\ t.status = "FAILED"
    BY <2>2 DEF Checkpoint
  <2> HIDE DEF t
  <2>4. Spoilt(t) /\ (t.done > 0 => safety.memory # "none")
    BY <2>1, <2>3, OpenDone DEF Spoilt
  <2> QED BY <1>0, <2>1, <2>3, <2>4, PersistBinds DEF Observing, Unstarted
<1> QED BY <1>1, <1>2, <1>3, <1>4

\* The steps of an open phase.
LEMMA OpenBinds ==
  ASSUME ClientInv, BindingInv,
         \/ Loop \/ Refreshed \/ PhaseRefreshed \/ Reserve \/ Dispatching \/ Send \/ Complete
         \/ ReconcileAttempt
  PROVE  BindingInv'
<1>1. CASE Loop
  <2>1. pc = "loop" /\ pc \in InPhase /\ pc \in Observing /\ launches' = launches
    BY <1>1 DEF Loop, Local, InPhase, Observing
  <2>2. CASE SameState /\ pc' \in {"phaseFail", "phaseRefresh"}
    <3>1. launches <= 1 => safety.memory # "stale"
      BY <2>1 DEF BindingInv, Bound
    <3> QED BY <2>1, <2>2, <3>1, MoveBinds DEF SameState, Unstarted
  <2>3. CASE WritePhase([ck.cur EXCEPT !.pending = TRUE], "refresh")
    <3>1. [ck.cur EXCEPT !.pending = TRUE] \in PhaseState
      BY <2>1, OpenDone DEF PhaseState
    <3> QED BY <2>1, <2>3, <3>1, PhaseBinds DEF WritePhase, Write, InPhase
  <2>4. CASE WritePhase([ck.cur EXCEPT !.fatal = TRUE], "phaseFail")
    BY <2>1, <2>4, FatalBinds
  <2> QED BY <1>1, <2>2, <2>3, <2>4 DEF Loop
<1>2. CASE Refreshed \/ PhaseRefreshed
  <2>1. pc \in {"refresh", "phaseRefresh"} /\ pc \in InPhase /\ launches' = launches
    BY <1>2 DEF Refreshed, PhaseRefreshed, Answered, InPhase
  <2>2. CASE Rebind /\ pc' \in {"observe", "phaseObserve"}
    BY <2>1, <2>2, MoveBinds DEF Rebind, Unstarted, Observing
  <2>3. CASE WritePhase([ck.cur EXCEPT !.fatal = TRUE], "phaseFail")
    BY <2>1, <2>3, FatalBinds
  <2> QED BY <1>2, <2>2, <2>3 DEF Refreshed, PhaseRefreshed
<1>3. CASE Reserve
  <2>1. pc = "observe" /\ pc \in InPhase /\ launches' = launches
    BY <1>3 DEF Reserve, Answered, InPhase
  <2>2. CASE Observed([ck.cur EXCEPT !.reserved = @ + 1, !.pending = FALSE], "dispatch")
    <3>1. ck.cur \in PhaseState /\ ck.cur.reserved + 1 \in 0 .. RequestLimit
      BY <2>1, PhaseFacts DEF AtPhase
    <3>2. [ck.cur EXCEPT !.reserved = @ + 1, !.pending = FALSE] \in PhaseState
      BY <3>1 DEF PhaseState
    <3> QED BY <2>1, <2>2, <3>2, PhaseBinds DEF Observed, InPhase
  <2>3. CASE ObservedUnsafe
    BY <2>1, <2>3, FatalBinds
  <2> QED BY <1>3, <2>2, <2>3 DEF Reserve
<1>4. CASE Dispatching
  <2>1. pc = "dispatch" /\ pc \in InPhase /\ pc \in Observing /\ launches' = launches
    BY <1>4 DEF Dispatching, Local, InPhase, Observing
  <2>2. /\ ck.cur \in PhaseState /\ ck.cur.completed + 1 \in 0 .. RequestLimit
        /\ ck.net + 1 \in 0 .. RequestLimit
    <3>1. AtPhase("dispatch", ck, sent)
      BY <2>1, PhaseFacts
    <3>2. ck.cur.reserved = ck.cur.completed + 1 /\ ~ck.cur.crossed
      BY <3>1 DEF AtPhase
    <3> QED BY <2>1, <3>2, PhaseFacts DEF Tracked, Crossed
  <2>3. CASE WritePhase([ck.cur EXCEPT !.completed = @ + 1, !.fatal = TRUE], "loop")
    <3>1. [ck.cur EXCEPT !.completed = @ + 1, !.fatal = TRUE] \in PhaseState
      BY <2>2 DEF PhaseState
    <3> QED BY <2>1, <2>3, <3>1, PhaseBinds DEF WritePhase, Write, InPhase
  <2>4. CASE Write([ck EXCEPT !.cur.crossed = TRUE, !.net = @ + 1], "wire")
    <3> DEFINE t == [ck EXCEPT !.cur.crossed = TRUE, !.net = @ + 1]
    <3>1. [ck.cur EXCEPT !.crossed = TRUE] \in PhaseState
      BY <2>2 DEF PhaseState
    <3>2. ck \in Checkpoint
      BY <2>1, OpenDone
    <3>3. t \in Checkpoint /\ t.done = ck.done
      BY <2>2, <3>1, <3>2 DEF Checkpoint
    <3>4. Persist(t, safety.memory, "wire")
      BY <2>4 DEF Write
    <3> HIDE DEF t
    <3>5. launches <= 1 => safety.memory # "stale"
      BY <2>1 DEF BindingInv, Bound
    <3>6. safety.memory \in Bindings /\ (t.done > 0 => safety.memory # "none") /\ pc # "off"
      BY <2>1, <3>3, OpenDone
    <3> QED BY <2>1, <3>3, <3>4, <3>5, <3>6, PersistBinds DEF Unstarted
  <2> QED BY <1>4, <2>3, <2>4 DEF Dispatching
<1>5. CASE Send
  <2>1. pc = "wire" /\ pc' = "answer" /\ launches' = launches /\ safety' = safety /\ commit' = commit
    BY <1>5 DEF Send, Local, SameState
  <2>2. launches <= 1 => safety.memory # "stale"
    BY <2>1 DEF BindingInv, Bound, Observing
  <2> QED BY <2>1, <2>2, MoveBinds DEF Unstarted
<1>6. CASE Complete
  <2>1. pc = "answer" /\ pc \in InPhase /\ pc \in Observing /\ launches' = launches
    BY <1>6 DEF Complete, Local, InPhase, Observing
  <2>2. PICK fatal \in BOOLEAN :
          WritePhase([ck.cur EXCEPT !.completed = @ + 1, !.crossed = FALSE, !.fatal = fatal], "loop")
    BY <1>6 DEF Complete
  <2>3. ck.cur \in PhaseState /\ ck.cur.completed + 1 \in 0 .. RequestLimit
    BY <2>1, PhaseFacts DEF AtPhase, Tracked
  <2>4. [ck.cur EXCEPT !.completed = @ + 1, !.crossed = FALSE, !.fatal = fatal] \in PhaseState
    BY <2>3 DEF PhaseState
  <2> QED BY <2>1, <2>2, <2>4, PhaseBinds DEF WritePhase, Write, InPhase
<1>7. CASE ReconcileAttempt
  <2>1. pc = "reconcile" /\ pc \in InPhase /\ launches' = launches
    BY <1>7 DEF ReconcileAttempt, Local, InPhase
  <2>2. PICK c : /\ WritePhase(c, "phaseFail")
                 /\ \/ c = [ck.cur EXCEPT !.pending = FALSE, !.fatal = TRUE]
                    \/ /\ ~ck.cur.pending
                       /\ c = [ck.cur EXCEPT !.completed = @ + 1, !.crossed = FALSE, !.fatal = TRUE]
    BY <1>7 DEF ReconcileAttempt
  <2>3. ck.cur \in PhaseState /\ (~ck.cur.pending => ck.cur.completed + 1 \in 0 .. RequestLimit)
    BY <2>1, PhaseFacts DEF AtPhase, Tracked, Interrupted
  <2>4. c \in PhaseState /\ c.fatal
    BY <2>2, <2>3 DEF PhaseState
  <2> QED BY <2>1, <2>2, <2>4, PhaseBinds DEF WritePhase, Write, InPhase, Observing
<1> QED BY <1>1, <1>2, <1>3, <1>4, <1>5, <1>6, <1>7

\* A recovered checkpoint keeps its binding.
LEMMA RecoverBinds ==
  ASSUME ClientInv, BindingInv, RecoverTerminal
  PROVE  BindingInv'
<1>1. pc = "except" /\ launches' = launches
  BY DEF RecoverTerminal, Local
<1>2. CASE (SameState \/ Restore) /\ pc' \in {"off", "evidence", "reconcile"}
  BY <1>1, <1>2, MoveBinds DEF SameState, Restore, Unstarted, Observing
<1>3. ASSUME Resumable, ck.status = "RUNNING",
             NEW t \in {[ck EXCEPT !.status = "PASSED"],
                        [ck EXCEPT !.status = "FAILED", !.cur = NoState,
                           !.failed = IF ck.cur = NoState THEN NewPhase ELSE ck.cur]},
             Persist(t, safety.committed, "evidence")
      PROVE  BindingInv'
  <2>1. ck # NoState /\ safety.committed # "stale"
    BY <1>3 DEF Resumable, Restorable
  <2>2. ck \in Checkpoint
    BY <2>1, CurrentState
  <2>3. t \in Checkpoint /\ t.done = ck.done
    BY <1>3, <2>2, FirstState DEF Checkpoint
  <2>4. safety.committed \in Bindings /\ (t.done > 0 => safety.committed # "none")
    BY <2>1, <2>3 DEF BindingInv, Bound
  <2> QED BY <1>1, <1>3, <2>1, <2>3, <2>4, PersistBinds DEF Unstarted, Observing
<1> QED BY <1>2, <1>3 DEF RecoverTerminal

\* The other steps change neither the checkpoint nor its binding.
LEMMA RestBinds ==
  ASSUME ClientInv, BindingInv,
         \/ Ask \/ Broker \/ UNCHANGED acceptanceVars \/ Completion
         \/ RunnerException \/ TornWrite \/ Die
  PROVE  BindingInv'
<1>1. CASE Ask \/ Broker \/ UNCHANGED acceptanceVars
  <2>1. commit' = commit /\ safety' = safety /\ pc' = pc /\ launches' = launches
    BY <1>1 DEF Ask, Broker, acceptanceVars, clientVars, SameState
  <2>2. ck' = ck
    BY <2>1 DEF ck
  <2> QED BY <2>1, <2>2 DEF BindingInv
<1>2. CASE Completion
  <2>1. /\ commit' = commit /\ safety' = safety /\ launches' = launches /\ pc # "off"
        /\ pc' \notin Unstarted \cup Observing
    BY <1>2
    DEF Completion, Evidence, Attested, WritePending, ClearTerminal, Released, ClearRecovery,
        WriteJson, WriteMarkdown, WriteManifest, ClearPending, ClearLast, Store, Answered,
        SameState, Local, Unstarted, Observing
  <2> QED BY <2>1, MoveBinds
<1>3. CASE RunnerException \/ TornWrite \/ Die
  <2>1. /\ commit' = commit /\ safety' = safety /\ launches' = launches /\ pc # "off"
        /\ pc' \in {"except", "off"}
    BY <1>3 DEF RunnerException, TornWrite, Die, RunnerSteps, SameState
  <2> QED BY <2>1, MoveBinds DEF Unstarted, Observing
<1> QED BY <1>1, <1>2, <1>3

\* A refused request ends the launch, or spoils the phase.
LEMMA RefusedBinds ==
  ASSUME ClientInv, BindingInv, Refused
  PROVE  BindingInv'
<1>1. Fails /\ launches' = launches
  BY DEF Refused, Answered, TimedOut
<1>2. CASE pc # "off" /\ pc' \in {"off", "except"} /\ SameState
  BY <1>1, <1>2, MoveBinds DEF SameState, Unstarted, Observing
<1>3. CASE pc \in InPhase /\ WritePhase([ck.cur EXCEPT !.fatal = TRUE], "phaseFail")
  BY <1>1, <1>3, FatalBinds
<1> QED BY <1>1, <1>2, <1>3 DEF Fails, InPhase

\* The binding is as stated in every state of a run.
LEMMA BindingNext == ClientInv /\ BindingInv /\ [AcceptanceNext]_acceptanceVars => BindingInv'
BY StartBinds, PlanBinds, OpenBinds, RecoverBinds, RestBinds, RefusedBinds DEF AcceptanceNext, Runner

\* The invariant of the binding holds in every state of a run.
LEMMA BindingInvariance == AcceptanceSpec => [](ClientInv /\ BindingInv)
<1>1. AcceptanceInit => BindingInv
  <2> SUFFICES ASSUME AcceptanceInit PROVE BindingInv
    OBVIOUS
  <2>1. /\ launches = 0 /\ pc = "off" /\ ck = NoState
        /\ safety = [memory |-> "none", committed |-> "none"]
    BY DEF AcceptanceInit, ck
  <2> QED BY <2>1 DEF BindingInv, Bound, Bindings, Unstarted, Observing
<1> QED BY <1>1, ClientInit, ClientNext, BindingNext, PTL DEF AcceptanceSpec

\* Wherever the process dies, the checkpoint it leaves is committed whole and its
\* counters agree; load_state and _restore_result can refuse it for one reason only,
\* a safety observation bound to an attestation that has been replaced, and after a
\* first launch only when the run was failing anyway.
THEOREM ConsistentCheckpoint == AcceptanceSpec => []CheckpointConsistent
<1>1. ASSUME ClientInv, BindingInv PROVE CheckpointConsistent
  <2> SUFFICES ASSUME ck # NoState
               PROVE  /\ Intact /\ Consistent(ck)
                      /\ ~Resumable => /\ safety.committed = "stale"
                                       /\ launches > 1 \/ Spoilt(ck)
    BY DEF CheckpointConsistent, Spoilt
  <2>1. Intact /\ Consistent(ck) /\ ck \in Checkpoint
    BY <1>1, CurrentState DEF ClientInv, CheckpointOK, Good, Balanced
  <2>2. ck.status = "PASSED" => safety.committed # "none"
    <3>1. ck.status = "PASSED" => ck.done = Len(PhaseLimits)
      BY <2>1 DEF Consistent
    <3>2. Len(PhaseLimits) > 0
      BY PlanAssumption
    <3> QED BY <1>1, <3>1, <3>2 DEF BindingInv, Bound
  <2>3. ~Resumable => safety.committed = "stale"
    BY <2>1, <2>2 DEF Resumable, Restorable
  <2>4. safety.committed = "stale" => launches > 1 \/ Spoilt(ck)
    BY <1>1 DEF BindingInv, Bound
  <2> QED BY <2>1, <2>3, <2>4
<1> QED BY <1>1, BindingInvariance, PTL


-----------------------------------------------------------------------------
(* The lease: what the one instance that serves the run, and the requests  *)
(* it gave up, can still do to the blob.                                   *)

\* The other instances of the broker are idle.
Solo == \A j \in Instances \ {Instance} : call[j] = Idle

\* A request that would record a release.
Closing(q) == q.kind = "metadata" /\ q.state.lifecycle = "RELEASED"

\* The release is final: nothing that is still under way can overwrite RELEASED,
\* and RELEASED was recorded when it was told.
Final(c, b, e, l) ==
  /\ c.pc \in {"release", "finish"} \/ (\E q \in l : Closing(q)) =>
       b # NoBlob /\ b.lifecycle \notin Unheld
  /\ c.pc = "dispatch" => b.lifecycle # "RELEASED" /\ ~ \E q \in l : Closing(q)
  /\ b # NoBlob /\ b.lifecycle = "RELEASED" =>
       /\ \A q \in l : q.kind = "metadata" /\ q.etag = e => Closing(q)
       /\ c.pc \in Loaded /\ c.etag = e => c.pc = "finish"
  /\ c.pc = "idle" /\ c.out \in Releases => b # NoBlob /\ b.lifecycle = "RELEASED"

\* The steps and the files that exist only after the release.
Closed(at, f, b) ==
  at \in {"clearRecovery", "json", "markdown", "manifest", "clearPending", "clearLast"}
    \/ {f.json, f.md, f.manifest} # {NoFile} =>
      b # NoBlob /\ b.lifecycle = "RELEASED"

ReleaseInv == Solo /\ Final(call[Instance], blob, etag, late) /\ Closed(pc, file, blob)

\* No release was ever asked for.
Releasing == {"RELEASE_INTENT", "RELEASED"}

Unreleased(c, b, l, f) ==
  /\ ~f
  /\ b # NoBlob => b.lifecycle \notin Releasing
  /\ \A q \in l : q.kind # "release" /\ q.state.lifecycle \notin Releasing
  /\ c.pc # "idle" =>
       c.pc \notin {"intent", "release", "finish"} /\ ActionOf[c.ticket] # "release"
  /\ c.pc \in Loaded => c.st.lifecycle \notin Releasing

\* The broker records the lease as held by this run, and nothing that is still
\* in the network can record anything else.
Sealed(b, e, l, held, m) ==
  /\ b # NoBlob /\ b.run = Run /\ b.lifecycle = "HELD"
  /\ \A q \in l : q.kind = "metadata" => q.etag < e
  /\ ~m => held = b.id

\* A confirmation of the lease is under way, with a ticket the blob has not
\* seen: it is answered HELD only by a write of its own.
Confirming(c, b, l) ==
  /\ c.pc \in {"idle", "load", "probe", "update", "lose"}
  /\ c.pc # "idle" => c.run = Run /\ ActionOf[c.ticket] = "assert"
  /\ c.pc = "load" => /\ b # NoBlob => b.ticket # c.ticket
                      /\ \A q \in l : q.state.ticket # c.ticket
  /\ c.pc = "probe" => Relationship(c.st, c) = "NEXT"

\* The steps between the acquired lease and the first failure.
Active == {"run", "preflight", "repeat", "phase", "loop", "refresh", "observe", "dispatch",
           "wire", "answer", "phaseRefresh", "phaseObserve"}

\* What the client may count on while it works under the lease.
Leased(at, w, c, b, e, l, held, m) ==
  /\ ~w => c.pc = "idle"
  /\ w => Confirming(c, b, l) /\ (c.pc = "idle" /\ c.out = "HELD" => Sealed(b, e, l, held, m))
  /\ at \in {"dispatch", "wire", "answer"} => ~w /\ Sealed(b, e, l, held, m)

\* An acquire of a lease that was released is refused.
Rejected(c, b) ==
  /\ b # NoBlob /\ b.lifecycle = "RELEASED"
  /\ c.pc \in {"idle", "create", "load"}
  /\ c.pc = "idle" => c.out \notin Grants
  /\ c.pc # "idle" => ActionOf[c.ticket] = "acquire"

\* No release has been prepared, and no evidence is committed.
Unprepared(f) == f.pending = NoFile /\ f.manifest = NoFile /\ ~f.recovery

LeaseInv ==
  /\ Unprepared(file) =>
       \/ Unreleased(call[Instance], blob, late, freed)
       \/ blob # NoBlob /\ blob.lifecycle = "RELEASED"
  /\ pc = "acquire" /\ waiting =>
       Unreleased(call[Instance], blob, late, freed) \/ Rejected(call[Instance], blob)
  /\ pc \in Active =>
       /\ Unreleased(call[Instance], blob, late, freed)
       /\ Leased(pc, waiting, call[Instance], blob, etag, late, lease, meddled)
  /\ pc = "acquire" \/ (pc \in Active /\ ~waiting) => ticket["assert"] = NoTicket

-----------------------------------------------------------------------------
(* The steps of a call, as the blob sees them. *)

\* An answer that tells nothing of the lease.
Plain(s) == s.pc = "idle" /\ s.out \notin Grants \cup Releases

\* A step of call c to s that reads the blob b with ETag e and lease held.
Reads(c, s, b, e, held) ==
  \/ Plain(s)
  \/ /\ c.pc = "load" /\ b # NoBlob
     /\ \/ /\ ActionOf[c.ticket] = "release" /\ b.lifecycle = "RELEASED"
           /\ s.pc = "idle" /\ s.out = "ALREADY_RELEASED"
        \/ /\ b.lifecycle = "ACQUIRE_INTENT" /\ ActionOf[c.ticket] = "acquire"
           /\ s.pc = "start" /\ s.etag = e /\ s.st.lifecycle = "ACQUIRE_INTENT"
        \/ /\ b.lifecycle \in {"ACQUIRE_IN_FLIGHT", "HELD", "RELEASE_INTENT"}
           /\ Relationship(b, c) \in {"SAME", "NEXT"}
           /\ s.pc = "probe" /\ s.etag = e /\ s.st = b
  \/ /\ c.pc = "probe" /\ c.etag = e
     /\ \/ /\ ActionOf[c.ticket] = "acquire"
           /\ s.pc = "idle" /\ s.out = "ALREADY_ACQUIRED"
        \/ /\ ActionOf[c.ticket] = "acquire" /\ c.st.lifecycle = "ACQUIRE_IN_FLIGHT"
           /\ s.pc \in {"hold", "dispatch"} /\ s.st.lifecycle = "ACQUIRE_IN_FLIGHT" /\ s.etag = e
        \/ /\ ActionOf[c.ticket] = "assert" /\ Asserted(c) = c.st
           /\ s.pc = "idle" /\ s.out = "HELD"
        \/ /\ ActionOf[c.ticket] = "assert"
           /\ s.pc = "update" /\ s.st = Asserted(c) /\ s.etag = e
        \/ /\ ActionOf[c.ticket] \in {"assert", "release"}
           /\ s.pc = "lose" /\ s.st = c.st /\ s.etag = e /\ held = NoLease
        \/ /\ ActionOf[c.ticket] = "release"
           /\ s.pc = "intent" /\ s.st.lifecycle = c.st.lifecycle /\ s.etag = e
        \/ /\ ActionOf[c.ticket] = "release" /\ c.st.lifecycle = "RELEASE_INTENT"
           /\ s.pc = "release" /\ s.st = c.st /\ s.etag = e
  \/ c.pc = "dispatch" /\ s.pc = "hold" /\ s.st = c.st /\ s.etag = e

\* The request q that call c sends.
Sends(c, q) ==
  /\ q.state \in BlobState
  /\ c.pc = "create" => q.state.run = c.run
  /\ c.pc # "create" => q.state.run = c.st.run /\ q.state.id = c.st.id
  /\ \/ c.pc = "create" /\ q.kind = "create" /\ q.state.lifecycle = "ACQUIRE_INTENT"
     \/ c.pc = "dispatch" /\ q.kind = "acquire" /\ q.state = c.st /\ q.header = c.st.id
     \/ c.pc = "release" /\ q.kind = "release" /\ q.state = c.st
     \/ /\ q.kind = "metadata" /\ q.etag = c.etag
        /\ \/ c.pc = "start" /\ q.state.lifecycle = "ACQUIRE_IN_FLIGHT"
           \/ c.pc = "hold" /\ q.state.lifecycle = "HELD" /\ q.header = c.st.id
           \/ c.pc = "update" /\ q.state = c.st /\ q.header = c.st.id
           \/ c.pc = "lose" /\ q.state.lifecycle = "LOST"
           \/ c.pc = "intent" /\ q.state.lifecycle = "RELEASE_INTENT"
           \/ c.pc = "finish" /\ q.state.lifecycle = "RELEASED"

\* What becomes of call c when the service, now at ETag e, has executed q.
Sent(c, s, q, e) ==
  \/ /\ s.etag = e
     /\ \/ c.pc = "create" /\ s.pc = "start" /\ s.st = q.state
        \/ c.pc = "start" /\ s.pc = "dispatch" /\ s.st = q.state
        \/ c.pc = "dispatch" /\ s.pc = "hold" /\ s.st = c.st
        \/ c.pc = "intent" /\ s.pc = "release" /\ s.st = q.state
        \/ c.pc = "release" /\ s.pc = "finish" /\ s.st = c.st
  \/ c.pc = "hold" /\ s.pc = "idle" /\ s.out \in {"ACQUIRED", "ALREADY_ACQUIRED"}
  \/ c.pc = "update" /\ s.pc = "idle" /\ s.out = "HELD"
  \/ c.pc = "lose" /\ Plain(s)
  \/ c.pc = "finish" /\ s.pc = "idle" /\ s.out = "RELEASED"

\* A step of call c to s, and what it does to the service.
Executed(q) == Accepts(q) /\ Effect(q) /\ late' = late
Lapsed(q) ==
  UNCHANGED <<blob, etag, lease, freed, meddled>> /\ late' \in {late, late \cup {q}}

Advances(c, s) ==
  /\ s.run = c.run /\ c.pc # "idle"
  /\ s.pc # "idle" => s.ticket = c.ticket
  /\ \/ Reads(c, s, blob, etag, lease) /\ UNCHANGED <<blob, etag, lease, freed, meddled, late>>
     \/ c.pc = "create" /\ s.pc = "load" /\ UNCHANGED <<blob, etag, lease, freed, meddled, late>>
     \/ \E q : Sends(c, q) /\ (\/ Executed(q) /\ Sent(c, s, q, etag')
                               \/ Lapsed(q) /\ Plain(s))

\* The value of a call after an answer.
LEMMA AnswerIs ==
  ASSUME NEW i, NEW out, Answer(i, out)
  PROVE  \E s : /\ call' = [call EXCEPT ![i] = s]
                /\ s.pc = "idle" /\ s.out = out /\ s.run = call[i].run
<1> DEFINE s == [Idle EXCEPT !.run = call[i].run, !.out = out]
<1>1. s.pc = "idle" /\ s.out = out /\ s.run = call[i].run
  BY DEF Idle
<1>2. call' = [call EXCEPT ![i] = s]
  BY DEF Answer
<1> QED BY <1>1, <1>2

\* After an answer that tells nothing of the lease.
LEMMA PlainIs ==
  ASSUME NEW i, NEW out, out \notin Grants \cup Releases, Answer(i, out)
  PROVE  \E s : call' = [call EXCEPT ![i] = s] /\ Plain(s) /\ s.run = call[i].run
BY AnswerIs DEF Plain

\* A metadata write is executed, or refused or given up.
LEMMA MetadataStep ==
  ASSUME BrokerInv, NEW i \in Instances, call[i].pc # "idle", NEW st \in BlobState,
         NEW header \in LeaseIds \cup {NoLease}, NEW ACTION Written,
         SetMetadata(i, st, header, Written)
  PROVE  LET q == Request("metadata", st, call[i].etag, header)
         IN /\ q.kind = "metadata" /\ q.etag = call[i].etag /\ q.state = st /\ q.header = header
            /\ \/ Executed(q) /\ Written
               \/ /\ Lapsed(q)
                  /\ \E s : call' = [call EXCEPT ![i] = s] /\ Plain(s) /\ s.run = call[i].run
<1> DEFINE q == Request("metadata", st, call[i].etag, header)
<1>1. call[i].etag \in Nat
  BY AtWork DEF Calls
<1>2. q.kind = "metadata" /\ q.etag = call[i].etag /\ q.state = st /\ q.header = header
  BY <1>1, RequestFields
<1> HIDE DEF q
<1>3. "INDETERMINATE_AFTER_CRASH" \notin Grants \cup Releases
  BY DEF Grants, Releases
<1>4. CASE Accepts(q) /\ Effect(q) /\ Written /\ UNCHANGED <<late, faults>>
  BY <1>2, <1>4 DEF Executed, q
<1>5. CASE /\ Answer(i, "INDETERMINATE_AFTER_CRASH")
           /\ UNCHANGED <<blob, etag, lease, freed, meddled, late, faults>>
  <2>1. Lapsed(q)
    BY <1>5 DEF Lapsed
  <2> QED BY <1>2, <1>3, <1>5, <2>1, PlainIs DEF q
<1>6. CASE /\ late' = late \cup {q}
           /\ Answer(i, "INDETERMINATE_AFTER_CRASH")
           /\ UNCHANGED <<blob, etag, lease, freed, meddled>>
  <2>1. Lapsed(q)
    BY <1>6 DEF Lapsed
  <2> QED BY <1>2, <1>3, <1>6, <2>1, PlainIs DEF q
<1> QED BY <1>4, <1>5, <1>6 DEF SetMetadata, Exchange, q

\* The steps that send metadata.
LEMMA WriteStep ==
  ASSUME BrokerInv, NEW i \in Instances,
         Start(i) \/ Hold(i) \/ Update(i) \/ Lose(i) \/ ReleaseIntent(i) \/ Finish(i)
  PROVE  \E s : call' = [call EXCEPT ![i] = s] /\ Advances(call[i], s)
<1> DEFINE c == call[i]
<1>1. c.pc \in {"start", "hold", "update", "lose", "intent", "finish"}
  BY DEF Start, Hold, Update, Lose, ReleaseIntent, Finish
<1>2. /\ c \in Calls /\ c.st \in BlobState /\ c.st.id \in LeaseIds /\ etag \in Nat
      /\ \A l \in Lifecycles : Transition(c.st, l) \in BlobState
                               /\ Transition(c.st, l).id = c.st.id
                               /\ Transition(c.st, l).run = c.st.run
                               /\ Transition(c.st, l).lifecycle = l
  <2>1. c.pc \in Loaded
    BY <1>1 DEF Loaded, Steps
  <2>2. c.st \in BlobState /\ c \in Calls /\ etag \in Nat
    BY <1>1, <2>1, AtWork DEF Working
  <2> QED BY <2>2, ChangedState DEF BlobState
<1>3. ASSUME NEW q, Lapsed(q), Sends(c, q),
             \E s : call' = [call EXCEPT ![i] = s] /\ Plain(s) /\ s.run = call[i].run
      PROVE  \E s : call' = [call EXCEPT ![i] = s] /\ Advances(call[i], s)
  BY <1>1, <1>3 DEF Advances, Plain
<1>4. ASSUME NEW q, Executed(q), Sends(c, q), NEW s, call' = [call EXCEPT ![i] = s],
             s.run = c.run, s.pc # "idle" => s.ticket = c.ticket, Sent(c, s, q, etag')
      PROVE  \E r : call' = [call EXCEPT ![i] = r] /\ Advances(call[i], r)
  BY <1>1, <1>4 DEF Advances
<1>5. ASSUME NEW q, q.kind = "metadata", Executed(q)
      PROVE  etag' \in Nat
  BY <1>2, <1>5 DEF Executed, Effect
<1>6. CASE Start(i)
  <2> DEFINE st == Transition(c.st, "ACQUIRE_IN_FLIGHT")
             h == NoLease
             q == Request("metadata", st, c.etag, h)
             Written == Goto(i, "dispatch", st, etag', c.resumed)
  <2>0. c.pc = "start" /\ SetMetadata(i, st, h, Written)
    BY <1>6 DEF Start
  <2>1. st \in BlobState /\ st.lifecycle = "ACQUIRE_IN_FLIGHT" /\ h \in LeaseIds \cup {NoLease}
        /\ st.id = c.st.id /\ st.run = c.st.run
    BY <1>2 DEF Lifecycles
  <2> HIDE DEF st, h
  <2>2. /\ q.kind = "metadata" /\ q.etag = c.etag /\ q.state = st
        /\ \/ Executed(q) /\ Written
           \/ /\ Lapsed(q)
              /\ \E s : call' = [call EXCEPT ![i] = s] /\ Plain(s) /\ s.run = call[i].run
    <3> HIDE DEF Written
    <3> QED BY <1>1, <2>0, <2>1, MetadataStep
  <2> HIDE DEF q
  <2>3. Sends(c, q)
    BY <2>0, <2>1, <2>2 DEF Sends
  <2>4. ASSUME Executed(q), Written
        PROVE  \E s : call' = [call EXCEPT ![i] = s] /\ Advances(call[i], s)
    <3>1. etag' \in Nat /\ Moves(i, "dispatch", st, etag')
      BY <1>5, <2>2, <2>4 DEF Moves
    <3>2. PICK s \in Calls : Went(i, s, "dispatch", st, etag')
      BY <2>1, <3>1, MovedCall DEF Steps
    <3>3. Sent(c, s, q, etag')
      BY <2>0, <2>2, <3>2 DEF Sent, Went
    <3> QED BY <1>4, <2>3, <2>4, <3>2, <3>3 DEF Went
  <2> QED BY <1>3, <2>2, <2>3, <2>4
<1>7. CASE ReleaseIntent(i)
  <2> DEFINE st == Transition(c.st, "RELEASE_INTENT")
             q == Request("metadata", st, c.etag, st.id)
             Written == Goto(i, "release", st, etag', FALSE)
  <2>0. c.pc = "intent" /\ SetMetadata(i, st, st.id, Written)
    BY <1>7 DEF ReleaseIntent
  <2>1. st \in BlobState /\ st.lifecycle = "RELEASE_INTENT" /\ st.id \in LeaseIds
        /\ st.id = c.st.id /\ st.run = c.st.run
    BY <1>2 DEF Lifecycles
  <2> HIDE DEF st
  <2>2. /\ q.kind = "metadata" /\ q.etag = c.etag /\ q.state = st
        /\ \/ Executed(q) /\ Written
           \/ /\ Lapsed(q)
              /\ \E s : call' = [call EXCEPT ![i] = s] /\ Plain(s) /\ s.run = call[i].run
    <3> HIDE DEF Written
    <3> QED BY <1>1, <2>0, <2>1, MetadataStep
  <2> HIDE DEF q
  <2>3. Sends(c, q)
    BY <2>0, <2>1, <2>2 DEF Sends
  <2>4. ASSUME Executed(q), Written
        PROVE  \E s : call' = [call EXCEPT ![i] = s] /\ Advances(call[i], s)
    <3>1. etag' \in Nat /\ Moves(i, "release", st, etag')
      BY <1>5, <2>2, <2>4 DEF Moves
    <3>2. PICK s \in Calls : Went(i, s, "release", st, etag')
      BY <2>1, <3>1, MovedCall DEF Steps
    <3>3. Sent(c, s, q, etag')
      BY <2>0, <2>2, <3>2 DEF Sent, Went
    <3> QED BY <1>4, <2>3, <2>4, <3>2, <3>3 DEF Went
  <2> QED BY <1>3, <2>2, <2>3, <2>4
<1>8. ASSUME NEW st \in BlobState, NEW header \in LeaseIds \cup {NoLease}, NEW out,
             SetMetadata(i, st, header, Answer(i, out)),
             ASSUME NEW q, q.kind = "metadata", q.etag = c.etag, q.state = st, q.header = header
             PROVE  Sends(c, q),
             ASSUME NEW q, NEW s, s.pc = "idle", s.out = out
             PROVE  Sent(c, s, q, etag')
      PROVE  \E s : call' = [call EXCEPT ![i] = s] /\ Advances(call[i], s)
  <2> DEFINE q == Request("metadata", st, c.etag, header)
             Written == Answer(i, out)
  <2>2. /\ q.kind = "metadata" /\ q.etag = c.etag /\ q.state = st /\ q.header = header
        /\ \/ Executed(q) /\ Written
           \/ /\ Lapsed(q)
              /\ \E s : call' = [call EXCEPT ![i] = s] /\ Plain(s) /\ s.run = call[i].run
    <3> HIDE DEF Written
    <3> QED BY <1>1, <1>8, MetadataStep DEF Written
  <2> HIDE DEF q
  <2>3. Sends(c, q)
    BY <1>8, <2>2
  <2>4. ASSUME Executed(q), Written
        PROVE  \E s : call' = [call EXCEPT ![i] = s] /\ Advances(call[i], s)
    <3>1. PICK s : call' = [call EXCEPT ![i] = s] /\ s.pc = "idle" /\ s.out = out
                   /\ s.run = call[i].run
      BY <2>4, AnswerIs
    <3>2. Sent(c, s, q, etag')
      BY <1>8, <3>1
    <3> QED BY <1>4, <2>3, <2>4, <3>1, <3>2
  <2> QED BY <1>3, <2>2, <2>3, <2>4
<1>9. CASE Hold(i)
  <2> DEFINE st == Transition(c.st, "HELD")
             out == IF c.resumed THEN "ALREADY_ACQUIRED" ELSE "ACQUIRED"
  <2>1. st \in BlobState /\ st.lifecycle = "HELD" /\ c.st.id \in LeaseIds \cup {NoLease}
        /\ st.id = c.st.id /\ st.run = c.st.run
    BY <1>2 DEF Lifecycles
  <2>2. c.pc = "hold" /\ SetMetadata(i, st, c.st.id, Answer(i, out))
    BY <1>9 DEF Hold
  <2>3. out \in {"ACQUIRED", "ALREADY_ACQUIRED"}
    OBVIOUS
  <2> HIDE DEF st, out
  <2> QED BY <1>8, <2>1, <2>2, <2>3 DEF Sends, Sent
<1>10. CASE Update(i)
  BY <1>2, <1>8, <1>10 DEF Update, Sends, Sent
<1>11. CASE Lose(i)
  <2>1. /\ Transition(c.st, "LOST") \in BlobState /\ Transition(c.st, "LOST").lifecycle = "LOST"
        /\ Transition(c.st, "LOST").id = c.st.id /\ Transition(c.st, "LOST").run = c.st.run
    BY <1>2 DEF Lifecycles
  <2>2. "LOST" \notin Grants \cup Releases
    BY DEF Grants, Releases
  <2> QED BY <1>8, <1>11, <2>1, <2>2 DEF Lose, Sends, Sent, Plain
<1>12. CASE Finish(i)
  <2>1. /\ Transition(c.st, "RELEASED") \in BlobState
        /\ Transition(c.st, "RELEASED").lifecycle = "RELEASED"
        /\ Transition(c.st, "RELEASED").id = c.st.id /\ Transition(c.st, "RELEASED").run = c.st.run
    BY <1>2 DEF Lifecycles
  <2> QED BY <1>8, <1>12, <2>1 DEF Finish, Sends, Sent
<1> QED BY <1>6, <1>7, <1>9, <1>10, <1>11, <1>12


\* The requests without an ETag.
LEMMA RequestStep ==
  ASSUME BrokerInv, NEW i \in Instances, Create(i) \/ Dispatch(i) \/ Release(i)
  PROVE  \E s : call' = [call EXCEPT ![i] = s] /\ Advances(call[i], s)
<1> DEFINE c == call[i]
<1>1. c.pc \in {"create", "dispatch", "release"} /\ c \in Calls /\ etag \in Nat
      /\ Fresh(c, blob) /\ c.run \in Runs /\ c.ticket \in Tickets
  BY AtWork DEF Create, Dispatch, Release
<1>2. c.pc # "create" => c.st \in BlobState /\ c.st.id \in LeaseIds
  BY <1>1, AtWork DEF Working, Loaded, Steps, BlobState
<1>3. {"BUSY", "INDETERMINATE_AFTER_CRASH"} \cap (Grants \cup Releases) = {}
  BY DEF Grants, Releases
<1>4. ASSUME NEW q, Lapsed(q), Sends(c, q), NEW out \in {"BUSY", "INDETERMINATE_AFTER_CRASH"},
             Answer(i, out)
      PROVE  \E s : call' = [call EXCEPT ![i] = s] /\ Advances(call[i], s)
  <2>1. PICK s : call' = [call EXCEPT ![i] = s] /\ Plain(s) /\ s.run = call[i].run
    BY <1>3, <1>4, PlainIs
  <2> QED BY <1>1, <1>4, <2>1 DEF Advances, Plain
<1>5. ASSUME NEW q, Executed(q), Sends(c, q), NEW to \in Steps, NEW st \in BlobState,
             Moves(i, to, st, etag'),
             ASSUME NEW s, s.pc = to, s.st = st, s.etag = etag'
             PROVE  Sent(c, s, q, etag')
      PROVE  \E s : call' = [call EXCEPT ![i] = s] /\ Advances(call[i], s)
  <2>1. etag' \in Nat
    BY <1>1, <1>5 DEF Executed, Effect
  <2>2. PICK s \in Calls : Went(i, s, to, st, etag')
    BY <1>5, <2>1, MovedCall
  <2>3. Sent(c, s, q, etag')
    BY <1>5, <2>2 DEF Went
  <2> QED BY <1>1, <1>5, <2>2, <2>3 DEF Advances, Went
<1>6. CASE Create(i)
  <2> DEFINE st == [run |-> c.run, ticket |-> c.ticket, id |-> c.id,
                    lifecycle |-> "ACQUIRE_INTENT"]
             q  == Request("create", st, 0, NoLease)
  <2>1. c.pc = "create"
    BY <1>6 DEF Create
  <2>2. st \in BlobState /\ st.lifecycle = "ACQUIRE_INTENT" /\ st.run = c.run
    BY <1>1, <2>1 DEF Fresh, BlobState, Lifecycles
  <2>3. q.kind = "create" /\ q.state = st
    BY DEF Request
  <2>4. Sends(c, q)
    BY <2>1, <2>2, <2>3 DEF Sends
  <2>5. \/ Executed(q) /\ Goto(i, "start", st, etag', FALSE)
        \/ UNCHANGED <<blob, etag, lease, freed, meddled, late>> /\ Goto(i, "load", NoBlob, 0, FALSE)
        \/ Lapsed(q) /\ Answer(i, "INDETERMINATE_AFTER_CRASH")
    BY <1>6 DEF Create, Exchange, Executed, Lapsed
  <2> HIDE DEF q, st
  <2>6. CASE Executed(q) /\ Goto(i, "start", st, etag', FALSE)
    <3>1. Moves(i, "start", st, etag')
      BY <2>6 DEF Moves
    <3>2. ASSUME NEW s, s.pc = "start", s.st = st, s.etag = etag'
          PROVE  Sent(c, s, q, etag')
      BY <2>1, <2>3, <3>2 DEF Sent
    <3> QED BY <1>5, <2>2, <2>4, <2>6, <3>1, <3>2 DEF Steps
  <2>7. CASE UNCHANGED <<blob, etag, lease, freed, meddled, late>> /\ Goto(i, "load", NoBlob, 0, FALSE)
    <3>1. Moves(i, "load", NoBlob, 0)
      BY <2>7 DEF Moves
    <3>2. PICK s \in Calls : Went(i, s, "load", NoBlob, 0)
      BY <3>1, MovedCall DEF Steps
    <3> QED BY <2>1, <2>7, <3>2 DEF Advances, Went
  <2> QED BY <1>4, <2>4, <2>5, <2>6, <2>7
<1>7. CASE Dispatch(i)
  <2> DEFINE q == Request("acquire", c.st, 0, c.st.id)
             Taken == Goto(i, "hold", c.st, etag', c.resumed)
  <2>1. c.pc = "dispatch" /\ c.st \in BlobState
    BY <1>2, <1>7 DEF Dispatch
  <2>3. q.kind = "acquire" /\ q.state = c.st /\ q.header = c.st.id
    BY DEF Request
  <2>4. Sends(c, q)
    BY <2>1, <2>3 DEF Sends
  <2>5. \/ Executed(q) /\ Taken
        \/ Lapsed(q) /\ Answer(i, "BUSY")
        \/ Lapsed(q) /\ Answer(i, "INDETERMINATE_AFTER_CRASH")
        \/ Read /\ Taken
    BY <1>7 DEF Dispatch, Exchange, Executed, Lapsed
  <2> HIDE DEF q
  <2>6. CASE Executed(q) /\ Taken
    <3>1. Moves(i, "hold", c.st, etag')
      BY <2>6 DEF Moves
    <3>2. ASSUME NEW s, s.pc = "hold", s.st = c.st, s.etag = etag'
          PROVE  Sent(c, s, q, etag')
      BY <2>1, <2>3, <3>2 DEF Sent
    <3> QED BY <1>5, <2>1, <2>4, <2>6, <3>1, <3>2 DEF Steps
  <2>7. CASE Read /\ Taken
    <3>1. Moves(i, "hold", c.st, etag) /\ UNCHANGED <<blob, etag, lease, freed, meddled, late>>
      BY <2>7 DEF Moves, Read
    <3>2. PICK s \in Calls : Went(i, s, "hold", c.st, etag)
      BY <1>1, <2>1, <3>1, MovedCall DEF Steps
    <3>3. Reads(c, s, blob, etag, lease)
      BY <2>1, <3>2 DEF Reads, Went
    <3> QED BY <2>1, <3>1, <3>2, <3>3 DEF Advances, Went
  <2> QED BY <1>4, <2>4, <2>5, <2>6, <2>7
<1>8. CASE Release(i)
  <2> DEFINE q == Request("release", c.st, 0, c.st.id)
             Taken == Goto(i, "finish", c.st, etag', FALSE)
  <2>1. c.pc = "release" /\ c.st \in BlobState
    BY <1>2, <1>8 DEF Release
  <2>3. q.kind = "release" /\ q.state = c.st
    BY DEF Request
  <2>4. Sends(c, q)
    BY <2>1, <2>3 DEF Sends
  <2>5. \/ Executed(q) /\ Taken
        \/ Lapsed(q) /\ Answer(i, "INDETERMINATE_AFTER_CRASH")
    BY <1>8 DEF Release, Exchange, Executed, Lapsed
  <2> HIDE DEF q
  <2>6. CASE Executed(q) /\ Taken
    <3>1. Moves(i, "finish", c.st, etag')
      BY <2>6 DEF Moves
    <3>2. ASSUME NEW s, s.pc = "finish", s.st = c.st, s.etag = etag'
          PROVE  Sent(c, s, q, etag')
      BY <2>1, <2>3, <3>2 DEF Sent
    <3> QED BY <1>5, <2>1, <2>4, <2>6, <3>1, <3>2 DEF Steps
  <2> QED BY <1>4, <2>4, <2>5, <2>6
<1> QED BY <1>6, <1>7, <1>8

\* The steps that read the blob.
LEMMA ReadStep ==
  ASSUME BrokerInv, NEW i \in Instances,
         AcquireLoad(i) \/ AcquireProbe(i) \/ AssertLoad(i) \/ AssertProbe(i)
           \/ ReleaseLoad(i) \/ ReleaseProbe(i)
  PROVE  \E s : call' = [call EXCEPT ![i] = s] /\ Advances(call[i], s)
<1> DEFINE c == call[i]
<1>1. /\ c.pc \in {"load", "probe"} /\ c \in Calls /\ etag \in Nat /\ c.etag \in Nat
      /\ c.ticket \in Tickets /\ Fresh(c, blob) /\ Working(c, blob, etag, freed)
      /\ blob # NoBlob => blob \in BlobState
  <2>1. c.pc \in {"load", "probe"}
    BY DEF AcquireLoad, AcquireProbe, AssertLoad, AssertProbe, ReleaseLoad, ReleaseProbe
  <2> QED BY <2>1, AtWork DEF Calls
<1>2. UNCHANGED <<blob, etag, lease, freed, meddled, late>>
  BY DEF AcquireLoad, AcquireProbe, AssertLoad, AssertProbe, ReleaseLoad, ReleaseProbe, Read
<1>3. ASSUME NEW s, call' = [call EXCEPT ![i] = s], Reads(c, s, blob, etag, lease), s.run = c.run,
             s.pc # "idle" => s.ticket = c.ticket
      PROVE  \E r : call' = [call EXCEPT ![i] = r] /\ Advances(call[i], r)
  BY <1>1, <1>2, <1>3 DEF Advances
<1>4. ASSUME NEW out, Answer(i, out),
             ASSUME NEW s, s.pc = "idle", s.out = out PROVE Reads(c, s, blob, etag, lease)
      PROVE  \E r : call' = [call EXCEPT ![i] = r] /\ Advances(call[i], r)
  BY <1>3, <1>4, AnswerIs
<1>5. ASSUME NEW out, Answer(i, out), out \notin Grants \cup Releases
      PROVE  \E r : call' = [call EXCEPT ![i] = r] /\ Advances(call[i], r)
  BY <1>4, <1>5 DEF Reads, Plain
<1>6. ASSUME NEW to \in Steps, NEW st \in BlobState, NEW e \in Nat, Moves(i, to, st, e),
             ASSUME NEW s, s.pc = to, s.st = st, s.etag = e PROVE Reads(c, s, blob, etag, lease)
      PROVE  \E r : call' = [call EXCEPT ![i] = r] /\ Advances(call[i], r)
  <2>1. PICK s \in Calls : Went(i, s, to, st, e)
    BY <1>6, MovedCall
  <2>2. Reads(c, s, blob, etag, lease)
    BY <1>6, <2>1 DEF Went
  <2> QED BY <1>3, <2>1, <2>2 DEF Went
<1>7. /\ "REPLAY_REJECTED" \notin Grants \cup Releases /\ "BUSY" \notin Grants \cup Releases
      /\ "NOT_ACQUIRED" \notin Grants \cup Releases /\ "LOST" \notin Grants \cup Releases
      /\ "INDETERMINATE_AFTER_CRASH" \notin Grants \cup Releases
  BY DEF Grants, Releases
<1>8. c.pc = "probe" => /\ c.st \in BlobState /\ blob # NoBlob
                        /\ c.etag = etag => blob.lifecycle = c.st.lifecycle
  BY <1>1 DEF Working, Loaded, Steps
<1>9. CASE AcquireLoad(i)
  <2> DEFINE mine == IF Relationship(blob, c) = "NEXT" THEN ForCommand(blob, c) ELSE blob
  <2>1. c.pc = "load" /\ ActionOf[c.ticket] = "acquire" /\ blob # NoBlob /\ blob \in BlobState
    BY <1>1, <1>9 DEF AcquireLoad, Fresh
  <2>2. mine \in BlobState /\ mine.lifecycle = blob.lifecycle
    BY <1>1, <2>1, ChangedState
  <2>3. CASE blob.lifecycle = "ACQUIRE_INTENT" /\ Goto(i, "start", mine, etag, TRUE)
    <3>1. Moves(i, "start", mine, etag)
      BY <2>3 DEF Moves
    <3> HIDE DEF mine
    <3> QED BY <1>1, <1>6, <2>1, <2>2, <2>3, <3>1 DEF Reads, Steps
  <2>4. CASE /\ blob.lifecycle \in {"ACQUIRE_IN_FLIGHT", "HELD"} /\ Goto(i, "probe", blob, etag, TRUE)
             /\ Relationship(blob, c) \in {"SAME", "NEXT"}
    <3>1. Moves(i, "probe", blob, etag)
      BY <2>4 DEF Moves
    <3> QED BY <1>1, <1>6, <2>1, <2>4, <3>1 DEF Reads, Steps
  <2> QED BY <1>5, <1>7, <1>9, <2>3, <2>4 DEF AcquireLoad
<1>10. CASE AssertLoad(i)
  <2>1. c.pc = "load"
    BY <1>10 DEF AssertLoad
  <2>2. CASE /\ blob # NoBlob /\ blob.lifecycle \in {"ACQUIRE_IN_FLIGHT", "HELD", "RELEASE_INTENT"}
             /\ Goto(i, "probe", blob, etag, FALSE)
             /\ Relationship(blob, c) \in {"SAME", "NEXT"}
    <3>1. Moves(i, "probe", blob, etag)
      BY <2>2 DEF Moves
    <3> QED BY <1>1, <1>6, <2>1, <2>2, <3>1 DEF Reads, Steps
  <2> QED BY <1>5, <1>7, <1>10, <2>2 DEF AssertLoad
<1>11. CASE ReleaseLoad(i)
  <2>1. c.pc = "load" /\ ActionOf[c.ticket] = "release"
    BY <1>11 DEF ReleaseLoad
  <2>2. CASE /\ blob # NoBlob /\ blob.lifecycle \in {"ACQUIRE_IN_FLIGHT", "HELD", "RELEASE_INTENT"}
             /\ Goto(i, "probe", blob, etag, FALSE)
             /\ Relationship(blob, c) \in {"SAME", "NEXT"}
    <3>1. Moves(i, "probe", blob, etag)
      BY <2>2 DEF Moves
    <3> QED BY <1>1, <1>6, <2>1, <2>2, <3>1 DEF Reads, Steps
  <2>3. CASE blob # NoBlob /\ blob.lifecycle = "RELEASED" /\ Answer(i, "ALREADY_RELEASED")
    BY <1>4, <2>1, <2>3 DEF Reads
  <2> QED BY <1>5, <1>7, <1>11, <2>2, <2>3 DEF ReleaseLoad
<1>12. ASSUME c.pc = "probe", Classify(c) \in {"HELD", "NOT_PRESENT"}
       PROVE  c.etag = etag /\ (Classify(c) = "NOT_PRESENT" => lease = NoLease)
  BY <1>12 DEF Classify
<1>13. CASE AcquireProbe(i)
  <2> DEFINE mine == IF Relationship(c.st, c) = "NEXT" THEN ForCommand(c.st, c) ELSE c.st
  <2>1. c.pc = "probe" /\ ActionOf[c.ticket] = "acquire"
    BY <1>13 DEF AcquireProbe
  <2>2. mine \in BlobState /\ mine.lifecycle = c.st.lifecycle
    BY <1>1, <1>8, <2>1, ChangedState
  <2>3. CASE Classify(c) = "HELD" /\ Answer(i, "ALREADY_ACQUIRED")
    BY <1>4, <1>12, <2>1, <2>3 DEF Reads
  <2>4. ASSUME NEW to \in {"hold", "dispatch"}, Classify(c) \in {"HELD", "NOT_PRESENT"},
               c.st.lifecycle = "ACQUIRE_IN_FLIGHT", Goto(i, to, mine, c.etag, TRUE)
        PROVE  \E r : call' = [call EXCEPT ![i] = r] /\ Advances(call[i], r)
    <3>1. Moves(i, to, mine, c.etag)
      BY <2>4 DEF Moves
    <3> HIDE DEF mine
    <3>2. ASSUME NEW s, s.pc = to, s.st = mine, s.etag = c.etag PROVE Reads(c, s, blob, etag, lease)
      BY <1>12, <2>1, <2>2, <2>4, <3>2 DEF Reads
    <3> QED BY <1>1, <1>6, <2>2, <3>1, <3>2 DEF Steps
  <2>5. CASE /\ c.st.lifecycle = "ACQUIRE_IN_FLIGHT" /\ Classify(c) = "HELD"
             /\ Goto(i, "hold", mine, c.etag, TRUE)
    BY <2>4, <2>5
  <2>6. CASE /\ c.st.lifecycle = "ACQUIRE_IN_FLIGHT" /\ Classify(c) = "NOT_PRESENT"
             /\ Goto(i, "dispatch", mine, c.etag, TRUE)
    BY <2>4, <2>6
  <2> QED BY <1>5, <1>7, <1>13, <2>3, <2>5, <2>6 DEF AcquireProbe
<1>14. CASE AssertProbe(i)
  <2>1. c.pc = "probe" /\ ActionOf[c.ticket] = "assert" /\ c.st \in BlobState
    BY <1>8, <1>14 DEF AssertProbe
  <2>2. CASE Classify(c) = "HELD" /\ Asserted(c) = c.st /\ Answer(i, "HELD")
    BY <1>4, <1>12, <2>1, <2>2 DEF Reads
  <2>3. CASE Classify(c) = "HELD" /\ Goto(i, "update", Asserted(c), c.etag, FALSE)
    <3>1. Moves(i, "update", Asserted(c), c.etag)
      BY <2>3 DEF Moves
    <3>2. Asserted(c) \in BlobState
      BY <1>1, <2>1, ChangedState DEF Asserted, Lifecycles
    <3>3. ASSUME NEW s, s.pc = "update", s.st = Asserted(c), s.etag = c.etag
          PROVE  Reads(c, s, blob, etag, lease)
      BY <1>12, <2>1, <2>3, <3>3 DEF Reads
    <3> QED BY <1>1, <1>6, <3>1, <3>2, <3>3 DEF Steps
  <2>4. CASE Classify(c) = "NOT_PRESENT" /\ Goto(i, "lose", c.st, c.etag, FALSE)
    <3>1. Moves(i, "lose", c.st, c.etag)
      BY <2>4 DEF Moves
    <3>2. ASSUME NEW s, s.pc = "lose", s.st = c.st, s.etag = c.etag
          PROVE  Reads(c, s, blob, etag, lease)
      BY <1>12, <2>1, <2>4, <3>2 DEF Reads
    <3> QED BY <1>1, <1>6, <2>1, <3>1, <3>2 DEF Steps
  <2> QED BY <1>5, <1>7, <1>14, <2>2, <2>3, <2>4 DEF AssertProbe
<1>15. CASE ReleaseProbe(i)
  <2>1. c.pc = "probe" /\ ActionOf[c.ticket] = "release" /\ c.st \in BlobState
    BY <1>8, <1>15 DEF ReleaseProbe
  <2>2. CASE Classify(c) = "NOT_PRESENT" /\ Goto(i, "lose", c.st, c.etag, FALSE)
    <3>1. Moves(i, "lose", c.st, c.etag)
      BY <2>2 DEF Moves
    <3>2. ASSUME NEW s, s.pc = "lose", s.st = c.st, s.etag = c.etag
          PROVE  Reads(c, s, blob, etag, lease)
      BY <1>12, <2>1, <2>2, <3>2 DEF Reads
    <3> QED BY <1>1, <1>6, <2>1, <3>1, <3>2 DEF Steps
  <2>3. CASE Classify(c) = "HELD" /\ Goto(i, "intent", ForCommand(c.st, c), c.etag, FALSE)
    <3>1. Moves(i, "intent", ForCommand(c.st, c), c.etag)
      BY <2>3 DEF Moves
    <3>2. ForCommand(c.st, c) \in BlobState /\ ForCommand(c.st, c).lifecycle = c.st.lifecycle
      BY <1>1, <2>1, ChangedState
    <3>3. ASSUME NEW s, s.pc = "intent", s.st = ForCommand(c.st, c), s.etag = c.etag
          PROVE  Reads(c, s, blob, etag, lease)
      BY <1>12, <2>1, <2>3, <3>2, <3>3 DEF Reads
    <3> QED BY <1>1, <1>6, <3>1, <3>2, <3>3 DEF Steps
  <2>4. CASE /\ Classify(c) = "HELD" /\ c.st.lifecycle = "RELEASE_INTENT"
             /\ Goto(i, "release", c.st, c.etag, FALSE)
    <3>1. Moves(i, "release", c.st, c.etag)
      BY <2>4 DEF Moves
    <3>2. ASSUME NEW s, s.pc = "release", s.st = c.st, s.etag = c.etag
          PROVE  Reads(c, s, blob, etag, lease)
      BY <1>12, <2>1, <2>4, <3>2 DEF Reads
    <3> QED BY <1>1, <1>6, <2>1, <3>1, <3>2 DEF Steps
  <2> QED BY <1>5, <1>7, <1>15, <2>2, <2>3, <2>4 DEF ReleaseProbe
<1> QED BY <1>9, <1>10, <1>11, <1>13, <1>14, <1>15

\* Every step of a call.
LEMMA CallStep ==
  ASSUME BrokerInv, NEW i \in Instances, Serve(i)
  PROVE  \E s : call' = [call EXCEPT ![i] = s] /\ Advances(call[i], s)
BY WriteStep, RequestStep, ReadStep DEF Serve


-----------------------------------------------------------------------------
(* A release is final. *)

\* What a request of the call at work does to the blob when it is executed.
LEMMA ExecutedWrites ==
  ASSUME BrokerInv, NEW i \in Instances, NEW q, Sends(call[i], q), Executed(q)
  PROVE  /\ etag \in Nat /\ late' = late /\ q.state # NoBlob
         /\ \/ q.kind \in {"acquire", "release"} /\ blob' = blob /\ etag' = etag
            \/ /\ q.kind = "create" /\ call[i].pc = "create" /\ blob = NoBlob
               /\ blob' = q.state /\ etag' = etag + 1
            \/ /\ q.kind = "metadata" /\ call[i].pc \in Loaded /\ call[i].etag = etag
               /\ blob' = q.state /\ etag' = etag + 1 /\ q.header = lease
         /\ q.kind # "release" => freed' = freed
BY BlobAssumption DEF Sends, Executed, Accepts, Effect, Loaded, Steps, BrokerInv, BrokerTypeOK

\* The ETags of what is under way.
LEMMA OlderTags ==
  ASSUME BrokerInv, NEW i \in Instances
  PROVE  /\ etag \in Nat
         /\ call[i].pc \in Loaded => /\ call[i].etag \in Nat /\ call[i].etag <= etag
                                     /\ blob # NoBlob /\ call[i].st \in BlobState
         /\ \A q \in late : q.kind = "metadata" => q.etag \in Nat /\ q.etag <= etag /\ blob # NoBlob
         /\ \A q \in late : q.state # NoBlob
BY BlobAssumption
   DEF BrokerInv, BrokerTypeOK, CallsAreSound, CallOK, Working, RequestsAreSound, RequestOK, Requests

\* A step of the call keeps releases final.
LEMMA FinalAdvances ==
  ASSUME BrokerInv, NEW i \in Instances, Final(call[i], blob, etag, late),
         NEW s, Advances(call[i], s)
  PROVE  /\ Final(s, blob', etag', late')
         /\ blob # NoBlob /\ blob.lifecycle = "RELEASED" =>
              blob' # NoBlob /\ blob'.lifecycle = "RELEASED"
<1> DEFINE c == call[i]
<1>0. Working(c, blob, etag, freed) /\ c.pc # "idle"
  BY AtWork DEF Advances
<1>1. CASE Reads(c, s, blob, etag, lease) /\ UNCHANGED <<blob, etag, lease, freed, meddled, late>>
  <2>1. c.pc = "probe" /\ c.etag = etag => blob # NoBlob /\ blob.lifecycle = c.st.lifecycle
                                           /\ c.st.lifecycle # "RELEASED"
    BY <1>0 DEF Working, Loaded, Steps, Terminal
  <2>2. s.pc = "dispatch" => /\ c.pc = "probe" /\ c.etag = etag
                             /\ c.st.lifecycle = "ACQUIRE_IN_FLIGHT"
    BY <1>1 DEF Reads, Plain
  <2>3. s.pc \in {"release", "finish"} => /\ c.pc = "probe" /\ c.etag = etag
                                          /\ c.st.lifecycle = "RELEASE_INTENT"
    BY <1>1 DEF Reads, Plain
  <2>4. s.pc \in Loaded /\ s.etag = etag /\ blob.lifecycle = "RELEASED" => FALSE
    BY <1>1, <2>1 DEF Reads, Plain, Loaded, Final
  <2>5. s.pc = "idle" /\ s.out \in Releases => blob # NoBlob /\ blob.lifecycle = "RELEASED"
    BY <1>1 DEF Reads, Plain, Releases
  <2> QED BY <1>1, <2>1, <2>2, <2>3, <2>4, <2>5 DEF Final, Unheld
<1>2. CASE /\ c.pc = "create" /\ s.pc = "load"
           /\ UNCHANGED <<blob, etag, lease, freed, meddled, late>>
  BY <1>2 DEF Final, Loaded
<1>3. ASSUME NEW q, Sends(c, q), Lapsed(q), Plain(s)
      PROVE  Final(s, blob', etag', late') /\ blob' = blob
  <2>1. blob' = blob /\ etag' = etag /\ \A r \in late' : r \in late \/ r = q
    BY <1>3 DEF Lapsed
  <2>2. Closing(q) => blob # NoBlob /\ blob.lifecycle \notin Unheld
    BY <1>0, <1>3 DEF Sends, Closing, Final, Working, Loaded, Steps
  <2>3. /\ blob # NoBlob /\ blob.lifecycle = "RELEASED" /\ q.kind = "metadata" /\ q.etag = etag
        => Closing(q)
    BY <1>3 DEF Sends, Final, Closing, Loaded, Steps
  <2>4. s.pc = "idle" /\ s.out \notin Releases
    BY <1>3 DEF Plain
  <2> QED BY <2>1, <2>2, <2>3, <2>4 DEF Final, Loaded
<1>4. ASSUME NEW q, Sends(c, q), Executed(q), Sent(c, s, q, etag')
      PROVE  /\ Final(s, blob', etag', late')
             /\ blob # NoBlob /\ blob.lifecycle = "RELEASED" =>
                  blob' # NoBlob /\ blob'.lifecycle = "RELEASED"
  <2>0. /\ etag \in Nat /\ late' = late /\ q.state # NoBlob
        /\ \A r \in late : r.kind = "metadata" => r.etag \in Nat /\ r.etag <= etag
    BY <1>4, ExecutedWrites, OlderTags
  <2>1. CASE q.kind \in {"acquire", "release"} /\ blob' = blob /\ etag' = etag
    <3>1. \/ c.pc = "dispatch" /\ s.pc = "hold" /\ s.etag = etag
          \/ c.pc = "release" /\ s.pc = "finish"
      BY <1>4, <2>1 DEF Sends, Sent
    <3> QED BY <2>0, <2>1, <3>1 DEF Final, Loaded, Steps
  <2>2. CASE /\ q.kind = "create" /\ c.pc = "create" /\ blob = NoBlob
             /\ blob' = q.state /\ etag' = etag + 1
    <3>1. s.pc = "start" /\ q.state.lifecycle = "ACQUIRE_INTENT"
      BY <1>4, <2>2 DEF Sends, Sent
    <3>2. ~ \E r \in late : Closing(r)
      BY <2>2 DEF Final
    <3> QED BY <2>0, <2>2, <3>1, <3>2 DEF Final
  <2>3. CASE /\ q.kind = "metadata" /\ c.pc \in Loaded /\ c.etag = etag
             /\ blob' = q.state /\ etag' = etag + 1
    <3>1. \A r \in late : r.kind = "metadata" => r.etag # etag + 1
      BY <2>0
    <3>2. blob # NoBlob
      BY <1>0, <2>3 DEF Working
    <3>3. CASE c.pc = "start"
      <4>1. s.pc = "dispatch" /\ q.state.lifecycle = "ACQUIRE_IN_FLIGHT"
            /\ blob.lifecycle = "ACQUIRE_INTENT"
        BY <1>0, <1>4, <2>3, <3>3 DEF Sends, Sent, Working
      <4>2. ~ \E r \in late : Closing(r)
        BY <4>1 DEF Final, Unheld
      <4> QED BY <2>0, <2>3, <3>1, <4>1, <4>2 DEF Final
    <3>4. CASE c.pc # "start"
      <4>1. /\ q.state.lifecycle \notin Unheld
            /\ q.state.lifecycle = "RELEASED" <=> c.pc = "finish"
        BY <1>0, <1>4, <2>3, <3>4 DEF Sends, Working, Unheld
      <4>2. /\ s.pc # "dispatch" /\ (s.pc \in Loaded => c.pc = "intent")
            /\ s.pc = "idle" /\ s.out \in Releases => c.pc = "finish"
        BY <1>4, <2>3, <3>4 DEF Sent, Plain, Releases, Loaded, Sends
      <4>3. blob.lifecycle = "RELEASED" => c.pc = "finish"
        BY <2>3, <3>2 DEF Final
      <4> QED BY <2>0, <2>3, <3>1, <3>2, <4>1, <4>2, <4>3 DEF Final
    <3> QED BY <3>3, <3>4
  <2> QED BY <1>4, <2>1, <2>2, <2>3, ExecutedWrites
<1> QED BY <1>1, <1>2, <1>3, <1>4 DEF Advances


\* So does a request the service executes late.
LEMMA FinalLate ==
  ASSUME BrokerInv, NEW i \in Instances, Final(call[i], blob, etag, late),
         NEW q \in late, ExecuteLate(q)
  PROVE  /\ Final(call[i], blob', etag', late')
         /\ blob # NoBlob /\ blob.lifecycle = "RELEASED" =>
              blob' # NoBlob /\ blob'.lifecycle = "RELEASED"
<1> DEFINE c == call[i]
<1>1. RequestOK(q, blob, etag, freed) /\ Working(c, blob, etag, freed)
  BY DEF BrokerInv, RequestsAreSound, CallsAreSound, CallOK
<1>2. /\ etag \in Nat /\ q.state # NoBlob /\ \A r \in late' : r \in late
      /\ \A r \in late : r.kind = "metadata" => r.etag \in Nat /\ r.etag <= etag /\ blob # NoBlob
      /\ c.pc \in Loaded => c.etag \in Nat /\ c.etag <= etag /\ blob # NoBlob
  BY OlderTags DEF ExecuteLate
<1>3. CASE q.kind \in {"acquire", "release"}
  <2>1. blob' = blob /\ etag' = etag
    BY <1>3 DEF ExecuteLate, Effect
  <2> QED BY <1>2, <2>1 DEF Final
<1>4. CASE q.kind = "create"
  <2>1. blob = NoBlob /\ blob' = q.state /\ etag' = etag + 1
    BY <1>4 DEF ExecuteLate, Effect, Accepts
  <2>2. /\ c.pc \notin Loaded /\ ~ \E r \in late : Closing(r)
        /\ ~(c.pc = "idle" /\ c.out \in Releases)
    BY <1>2, <2>1 DEF Final, Closing
  <2>3. \A r \in late : r.kind = "metadata" => FALSE
    BY <1>2, <2>1
  <2> QED BY <1>2, <2>1, <2>2, <2>3 DEF Final, Loaded, Steps
<1>5. CASE q.kind = "metadata"
  <2>1. q.etag = etag /\ blob' = q.state /\ etag' = etag + 1 /\ blob # NoBlob
    BY <1>2, <1>5 DEF ExecuteLate, Effect, Accepts
  <2>2. blob.lifecycle \notin Unheld => q.state.lifecycle \notin Unheld
    BY <1>1, <1>5, <2>1 DEF RequestOK, Unheld
  <2>3. \A r \in late : r.kind = "metadata" => r.etag # etag + 1
    BY <1>2
  <2>4. c.pc \in Loaded => c.etag # etag + 1
    BY <1>2
  <2>5. blob.lifecycle = "RELEASED" => q.state.lifecycle = "RELEASED"
    BY <1>5, <2>1 DEF Final, Closing
  <2>6. c.pc = "dispatch" => q.state.lifecycle # "RELEASED"
    BY <1>5 DEF Final, Closing
  <2> QED BY <1>2, <2>1, <2>2, <2>3, <2>4, <2>5, <2>6 DEF Final
<1>6. q.kind \in {"create", "metadata", "acquire", "release"}
  BY <1>1 DEF RequestOK, Requests
<1> QED BY <1>3, <1>4, <1>5, <1>6

\* The broker keeps the release final, and the other instances stay idle.
LEMMA BrokerFinal ==
  ASSUME BrokerInv, Solo, Final(call[Instance], blob, etag, late), Serve(Instance) \/ Disturb
  PROVE  /\ Solo' /\ Final(call'[Instance], blob', etag', late')
         /\ blob # NoBlob /\ blob.lifecycle = "RELEASED" =>
              blob' # NoBlob /\ blob'.lifecycle = "RELEASED"
<1>0. Instance \in Instances /\ call \in [Instances -> Calls]
  BY PlanAssumption DEF BrokerInv, BrokerTypeOK
<1>1. ASSUME NEW s, call' = [call EXCEPT ![Instance] = s]
      PROVE  Solo' /\ call'[Instance] = s
  BY <1>0, <1>1 DEF Solo
<1>2. CASE Serve(Instance)
  <2>1. PICK s : call' = [call EXCEPT ![Instance] = s] /\ Advances(call[Instance], s)
    BY <1>0, <1>2, CallStep
  <2> QED BY <1>0, <1>1, <2>1, FinalAdvances
<1>3. ASSUME NEW i \in Instances, Unavailable(i) \/ Crash(i)
      PROVE  /\ Solo' /\ Final(call'[Instance], blob', etag', late')
             /\ blob' = blob
  <2>1. i = Instance
    BY <1>3 DEF Solo, Unavailable, Crash, Idle
  <2>2. PICK out \in {"RETRYABLE_FAILURE", "INDETERMINATE_AFTER_CRASH", "none"} :
          Answer(Instance, out)
    BY <1>3, <2>1 DEF Unavailable, Crash
  <2>3. out \notin Grants \cup Releases
    BY DEF Grants, Releases
  <2>4. PICK s : call' = [call EXCEPT ![Instance] = s] /\ Plain(s)
    BY <2>2, <2>3, PlainIs
  <2>5. UNCHANGED <<blob, etag, late>>
    BY <1>3 DEF Unavailable, Crash
  <2>6. Solo' /\ call'[Instance] = s
    BY <1>1, <2>4
  <2>7. Final(s, blob, etag, late)
    BY <2>4 DEF Final, Plain, Loaded
  <2> QED BY <2>5, <2>6, <2>7
<1>4. ASSUME NEW q \in late, ExecuteLate(q)
      PROVE  /\ Solo' /\ Final(call'[Instance], blob', etag', late')
             /\ blob # NoBlob /\ blob.lifecycle = "RELEASED" =>
                  blob' # NoBlob /\ blob'.lifecycle = "RELEASED"
  <2>1. call' = call
    BY <1>4 DEF ExecuteLate
  <2> QED BY <1>0, <1>4, <2>1, FinalLate DEF Solo
<1>5. CASE Outside
  BY <1>5 DEF Outside, Solo
<1> QED BY <1>2, <1>3, <1>4, <1>5 DEF Disturb


\* The call of a command that has just arrived.
LEMMA BeginIs ==
  ASSUME NEW i, NEW run, NEW t, NEW id, Begin(i, run, t, id)
  PROVE  \E s : /\ call' = [call EXCEPT ![i] = s]
                /\ s.pc = IF ActionOf[t] = "acquire" THEN "create" ELSE "load"
                /\ s.pc \in {"create", "load"} /\ s.run = run /\ s.ticket = t
<1> DEFINE s == [pc |-> IF ActionOf[t] = "acquire" THEN "create" ELSE "load",
                 run |-> run, ticket |-> t, id |-> id, st |-> NoBlob, etag |-> 0,
                 resumed |-> FALSE, out |-> "none"]
<1>1. /\ s.pc = IF ActionOf[t] = "acquire" THEN "create" ELSE "load"
      /\ s.pc \in {"create", "load"} /\ s.run = run /\ s.ticket = t
  OBVIOUS
<1>2. call' = [call EXCEPT ![i] = s]
  BY DEF Begin
<1> HIDE DEF s
<1> QED BY <1>1, <1>2

\* A command arrives at the instance.
LEMMA AskBegins ==
  ASSUME BrokerInv, Ask, ticket["acquire"] \in Tickets \cup {NoTicket},
         ticket["assert"] \in Tickets \cup {NoTicket}, ticket["release"] \in Tickets \cup {NoTicket},
         \A op \in {"acquire", "assert", "release"} :
           ticket[op] # NoTicket => ActionOf[ticket[op]] = op
  PROVE  \E t \in Tickets, id \in LeaseIds \cup {NoLease} :
           /\ ActionOf[t] = OpOf[pc] /\ (OpOf[pc] = "acquire" => id \in LeaseIds)
           /\ Begin(Instance, Run, t, id) /\ ticket' = [ticket EXCEPT ![OpOf[pc]] = t]
           /\ ticket[OpOf[pc]] = NoTicket => t \in FreshTickets(OpOf[pc])
           /\ ticket[OpOf[pc]] # NoTicket => t = ticket[OpOf[pc]]
<1> DEFINE op == OpOf[pc]
           t  == IF ticket[op] # NoTicket THEN ticket[op] ELSE CHOOSE t \in FreshTickets(op) : TRUE
           id == IF op = "acquire" THEN CHOOSE id \in FreshIds : TRUE ELSE NoLease
<1>1. op \in {"acquire", "assert", "release"}
  BY DEF Ask, OpOf
<1>2. /\ ticket[op] = NoTicket => FreshTickets(op) # {}
      /\ Begin(Instance, Run, t, id) /\ ticket' = [ticket EXCEPT ![op] = t]
      /\ op = "acquire" => FreshIds # {}
  BY DEF Ask
<1>3. /\ ticket[op] = NoTicket => t \in FreshTickets(op)
      /\ ticket[op] # NoTicket => t = ticket[op]
  BY <1>2
<1>4. id \in LeaseIds \cup {NoLease} /\ (op = "acquire" => id \in LeaseIds)
  BY <1>2 DEF FreshIds
<1> HIDE DEF t, id, op
<1>5. t \in Tickets /\ ActionOf[t] = op
  BY <1>1, <1>3 DEF FreshTickets
<1> QED BY <1>2, <1>3, <1>4, <1>5 DEF op


-----------------------------------------------------------------------------
(* The client and the release. *)

Ops == {"acquire", "assert", "release"}

\* The client keeps tickets that fit their operation.
AskingOK ==
  /\ waiting \in BOOLEAN
  /\ ticket \in [Ops -> Tickets \cup {NoTicket}]
  /\ \A op \in Ops : ticket[op] # NoTicket => ActionOf[ticket[op]] = op

Service == <<blob, etag, lease, late, call, freed, meddled>>

\* What an answer leaves alone, and what an accepted one says.
LEMMA AnsweredIs ==
  ASSUME Answered(TRUE) \/ Answered(FALSE)
  PROVE  /\ pc \in DOMAIN OpOf /\ OpOf[pc] \in Ops /\ waiting /\ call[Instance].pc = "idle"
         /\ UNCHANGED Service /\ UNCHANGED faults /\ waiting' = FALSE
         /\ ticket' = [ticket EXCEPT ![OpOf[pc]] =
                         IF Kept(call[Instance].out) THEN @ ELSE NoTicket]
         /\ Answered(TRUE) => call[Instance].out \in SuccessOf[OpOf[pc]]
<1>1. /\ pc \in DOMAIN OpOf /\ waiting /\ call[Instance].pc = "idle"
      /\ UNCHANGED brokerVars /\ waiting' = FALSE
      /\ ticket' = [ticket EXCEPT ![OpOf[pc]] =
                      IF Kept(call[Instance].out) THEN @ ELSE NoTicket]
  BY DEF Answered
<1>2. OpOf[pc] \in Ops
  BY <1>1 DEF OpOf, Ops
<1>3. Answered(TRUE) => call[Instance].out \in SuccessOf[OpOf[pc]]
  BY Zenon DEF Answered
<1> QED BY <1>1, <1>2, <1>3 DEF brokerVars, Service

\* A step of the client on its own.
Alone == Launch \/ Refused \/ Runner \/ Completion \/ RunnerException \/ TornWrite \/ Die

\* What it does with the broker.
LEMMA AloneIs ==
  ASSUME Alone
  PROVE  \/ Answered(TRUE) \/ Answered(FALSE) \/ TimedOut
         \/ Local \/ Launch \/ RunnerException \/ TornWrite \/ Die
<1>1. CASE Runner
  BY <1>1
  DEF Runner, Acquired, Enter, Admitted, Repeated, NextPhase, Loop, Refreshed, Reserve,
      Dispatching, Send, Complete, PhaseRefreshed, PhasePassed, PhaseFailed, ReconcileAttempt,
      RecoverTerminal
<1>2. CASE Completion
  BY <1>2
  DEF Completion, Evidence, Attested, WritePending, ClearTerminal, Released, ClearRecovery,
      WriteJson, WriteMarkdown, WriteManifest, ClearPending, ClearLast, Store
<1> QED BY <1>1, <1>2 DEF Alone, Refused

\* It leaves the broker alone.
LEMMA AloneLeaves ==
  ASSUME Alone
  PROVE  UNCHANGED Service
<1>1. CASE Answered(TRUE) \/ Answered(FALSE)
  BY <1>1, AnsweredIs
<1>2. CASE Local \/ Launch
  BY <1>2 DEF Local, Launch, brokerVars, Service
<1>3. CASE TimedOut \/ RunnerException \/ TornWrite \/ Die
  BY <1>3 DEF TimedOut, RunnerException, TornWrite, Die, Service
<1> QED BY <1>1, <1>2, <1>3, AloneIs

\* It keeps the tickets sound.
LEMMA AloneAsking ==
  ASSUME Alone, AskingOK
  PROVE  AskingOK'
<1>1. CASE Answered(TRUE) \/ Answered(FALSE)
  BY <1>1, AnsweredIs DEF AskingOK
<1>2. CASE Launch
  BY <1>2 DEF Launch, AskingOK, NoTickets, Ops
<1>3. CASE Local \/ TimedOut \/ RunnerException \/ TornWrite \/ Die
  BY <1>3 DEF Local, TimedOut, RunnerException, TornWrite, Die, AskingOK
<1> QED BY <1>1, <1>2, <1>3, AloneIs

\* The steps after the release.
AfterRelease == {"clearRecovery", "json", "markdown", "manifest", "clearPending", "clearLast"}

\* A step of the client goes past the release only when the broker told so.
LEMMA AloneCloses ==
  ASSUME ClientInv, Alone
  PROVE  \/ pc' \notin AfterRelease /\ file'.json = file.json /\ file'.md = file.md
              /\ file'.manifest = file.manifest
         \/ pc \in AfterRelease
         \/ call[Instance].pc = "idle" /\ call[Instance].out \in Releases
<1>0. file \in Files
  BY DEF ClientInv, ClientTypeOK
<1>1. CASE Released
  <2>1. Answered(TRUE)
    BY <1>1 DEF Released
  <2>2. OpOf[pc] = "release"
    BY <1>1 DEF Released, OpOf
  <2> QED BY <2>1, <2>2, AnsweredIs DEF SuccessOf, Releases
<1>2. CASE Runner \/ Attested
  <2>1. file' = file /\ pc' \notin AfterRelease
    BY <1>2
    DEF Runner, Acquired, Enter, Admitted, Repeated, NextPhase, Loop, Refreshed, Reserve,
        Dispatching, Send, Complete, PhaseRefreshed, PhasePassed, PhaseFailed, ReconcileAttempt,
        RecoverTerminal, Attested, SameFiles, Persist, Write, WritePhase, Observed, ObservedUnsafe, AfterRelease
  <2> QED BY <2>1
<1>3. CASE Refused \/ RunnerException \/ TornWrite \/ Die
  <2>1. file' = file /\ pc' \notin AfterRelease
    BY <1>3
    DEF Refused, Fails, RunnerException, TornWrite, Die, SameFiles, Persist, Write, WritePhase, AfterRelease
  <2> QED BY <2>1
<1>4. CASE Launch
  BY <1>0, <1>4 DEF Launch, SameFiles, Files, AfterRelease
<1>5. CASE Evidence \/ WritePending \/ ClearTerminal
  BY <1>0, <1>5 DEF Evidence, WritePending, ClearTerminal, Store, Files, AfterRelease
<1>6. CASE ClearRecovery \/ WriteJson \/ WriteMarkdown \/ WriteManifest \/ ClearPending
           \/ ClearLast
  BY <1>6
  DEF ClearRecovery, WriteJson, WriteMarkdown, WriteManifest, ClearPending, ClearLast, AfterRelease
<1> QED BY <1>1, <1>2, <1>3, <1>4, <1>5, <1>6 DEF Alone, Completion

\* The invariant of the broker and the client together.
RunInv == ClientInv /\ BrokerInv /\ AskingOK /\ ReleaseInv

\* A run starts with an idle broker.
LEMMA RunInit == AcceptanceInit => RunInv
<1> SUFFICES ASSUME AcceptanceInit PROVE RunInv
  OBVIOUS
<1>1. ClientInv /\ BrokerInv
  BY ClientInit, BrokerInvInit DEF AcceptanceInit
<1>2. AskingOK
  BY DEF AcceptanceInit, AskingOK, NoTickets, Ops
<1>3. call[Instance].pc = "idle" /\ call[Instance].out = "none" /\ Solo
  BY PlanAssumption DEF AcceptanceInit, BrokerInit, Idle, Solo
<1>4. Final(call[Instance], blob, etag, late)
  BY <1>3 DEF AcceptanceInit, BrokerInit, Final, Loaded, Releases
<1>5. Closed(pc, file, blob)
  BY DEF AcceptanceInit, Closed
<1> QED BY <1>1, <1>2, <1>3, <1>4, <1>5 DEF RunInv, ReleaseInv

\* Every step keeps it.
LEMMA RunNext == RunInv /\ [AcceptanceNext]_acceptanceVars => RunInv'
<1> SUFFICES ASSUME RunInv, [AcceptanceNext]_acceptanceVars PROVE RunInv'
  OBVIOUS
<1>0. ClientInv' /\ Instance \in Instances
  BY ClientNext, PlanAssumption DEF RunInv
<1>1. CASE Broker
  <2>1. BrokerInv'
    BY <1>0, <1>1, ServeKeeps, DisturbKeeps DEF RunInv, Broker
  <2>2. pc' = pc /\ file' = file /\ AskingOK'
    BY <1>1 DEF Broker, clientVars, RunInv, AskingOK
  <2>3. /\ Solo' /\ Final(call'[Instance], blob', etag', late')
        /\ blob # NoBlob /\ blob.lifecycle = "RELEASED" =>
             blob' # NoBlob /\ blob'.lifecycle = "RELEASED"
    BY <1>1, BrokerFinal DEF RunInv, ReleaseInv, Broker
  <2>4. Closed(pc', file', blob')
    BY <2>2, <2>3 DEF RunInv, ReleaseInv, Closed
  <2> QED BY <1>0, <2>1, <2>2, <2>3, <2>4 DEF RunInv, ReleaseInv
<1>2. CASE Ask
  <2>1. PICK t \in Tickets, id \in LeaseIds \cup {NoLease} :
          /\ ActionOf[t] = OpOf[pc] /\ (OpOf[pc] = "acquire" => id \in LeaseIds)
          /\ Begin(Instance, Run, t, id) /\ ticket' = [ticket EXCEPT ![OpOf[pc]] = t]
    <3>1. /\ ticket["acquire"] \in Tickets \cup {NoTicket} /\ ticket["assert"] \in Tickets \cup {NoTicket}
          /\ ticket["release"] \in Tickets \cup {NoTicket}
          /\ \A op \in Ops : ticket[op] # NoTicket => ActionOf[ticket[op]] = op
      BY DEF RunInv, AskingOK, Ops
    <3> QED BY <1>2, <3>1, AskBegins DEF RunInv, Ops
  <2>2. BrokerInv'
    BY <1>0, <2>1, BeginKeeps, PlanAssumption DEF RunInv
  <2>3. pc' = pc /\ file' = file /\ waiting' = TRUE /\ OpOf[pc] \in Ops
    BY <1>2 DEF Ask, SameFiles, OpOf, Ops
  <2>4. AskingOK'
    BY <2>1, <2>3 DEF RunInv, AskingOK
  <2>5. PICK s : call' = [call EXCEPT ![Instance] = s] /\ s.pc \in {"create", "load"}
    BY <2>1, BeginIs
  <2>6. Solo' /\ call'[Instance] = s /\ UNCHANGED <<blob, etag, late>>
    BY <1>0, <2>1, <2>5 DEF Solo, RunInv, ReleaseInv, BrokerInv, BrokerTypeOK, Begin
  <2>7. Final(s, blob, etag, late)
    BY <2>5 DEF RunInv, ReleaseInv, Final, Loaded
  <2>8. Closed(pc', file', blob')
    BY <2>3, <2>6 DEF RunInv, ReleaseInv
  <2> QED BY <1>0, <2>2, <2>4, <2>6, <2>7, <2>8 DEF RunInv, ReleaseInv
<1>3. CASE Alone
  <2>1. UNCHANGED Service /\ AskingOK'
    BY <1>3, AloneLeaves, AloneAsking DEF RunInv
  <2>2. BrokerInv' /\ Solo' /\ Final(call'[Instance], blob', etag', late')
    BY <2>1 DEF Service, RunInv, ReleaseInv, BrokerInv, BrokerTypeOK, CallsAreSound,
                RequestsAreSound, LeaseIsSound, RecordIsSound, Solo
  <2>3. Closed(pc', file', blob')
    <3>1. blob' = blob
      BY <2>1 DEF Service
    <3> QED BY <1>3, <3>1, AloneCloses DEF RunInv, ReleaseInv, Closed, Final, AfterRelease
  <2> QED BY <1>0, <2>1, <2>2, <2>3 DEF RunInv, ReleaseInv
<1>4. CASE UNCHANGED acceptanceVars
  <2>1. UNCHANGED Service /\ pc' = pc /\ file' = file /\ AskingOK'
    BY <1>4 DEF acceptanceVars, brokerVars, clientVars, Service, RunInv, AskingOK
  <2>2. BrokerInv' /\ Solo' /\ Final(call'[Instance], blob', etag', late')
    BY <2>1 DEF Service, RunInv, ReleaseInv, BrokerInv, BrokerTypeOK, CallsAreSound,
                RequestsAreSound, LeaseIsSound, RecordIsSound, Solo
  <2>3. Closed(pc', file', blob')
    BY <2>1 DEF RunInv, ReleaseInv, Service
  <2> QED BY <1>0, <2>1, <2>2, <2>3 DEF RunInv, ReleaseInv
<1> QED BY <1>1, <1>2, <1>3, <1>4 DEF AcceptanceNext, Alone

\* No artifact of the final evidence exists before the broker has recorded the
\* release of the lease, and nothing that is still in the network when the client
\* learns of it can take the record back.
THEOREM EvidenceComesAfterRelease == AcceptanceSpec => []EvidenceAfterRelease
<1>1. AcceptanceSpec => []RunInv
  BY RunInit, RunNext, PTL DEF AcceptanceSpec
<1>2. RunInv => EvidenceAfterRelease
  BY DEF RunInv, ReleaseInv, Closed, BrokerInv, RecordIsSound, EvidenceAfterRelease
<1> QED BY <1>1, <1>2, PTL


-----------------------------------------------------------------------------
(* Requests leave under the lease. *)

\* The state an assertion records.
LEMMA AssertedIs ==
  ASSUME NEW c, c.st \in BlobState, c.ticket \in Tickets
  PROVE  /\ Asserted(c).lifecycle \in {c.st.lifecycle, "HELD"}
         /\ Relationship(c.st, c) = "NEXT" => Asserted(c) # c.st
<1> DEFINE mine == IF Relationship(c.st, c) = "NEXT" THEN ForCommand(c.st, c) ELSE c.st
<1>1. mine \in BlobState /\ mine.lifecycle = c.st.lifecycle
      /\ (Relationship(c.st, c) = "NEXT" => mine.ticket = c.ticket)
  BY DEF ForCommand, BlobState
<1>2. Relationship(c.st, c) = "NEXT" => c.st.ticket # c.ticket
  BY DEF Relationship
<1>3. Asserted(c) = IF c.st.lifecycle = "ACQUIRE_IN_FLIGHT" THEN Transition(mine, "HELD") ELSE mine
  BY DEF Asserted
<1> HIDE DEF mine
<1>4. Transition(mine, "HELD").lifecycle = "HELD" /\ Transition(mine, "HELD").ticket = mine.ticket
  BY <1>1 DEF Transition, BlobState
<1> QED BY <1>1, <1>2, <1>3, <1>4

\* Only a release command makes the broker release.
LEMMA UnreleasedAdvances ==
  ASSUME BrokerInv, NEW i \in Instances, Unreleased(call[i], blob, late, freed),
         NEW s, Advances(call[i], s)
  PROVE  Unreleased(s, blob', late', freed')
<1> DEFINE c == call[i]
<1>0. /\ c.pc # "idle" /\ c.pc \notin {"intent", "release", "finish"}
      /\ ActionOf[c.ticket] # "release" /\ c.ticket \in Tickets
      /\ c.pc \in Loaded => c.st \in BlobState /\ c.st.lifecycle \notin Releasing
  BY AtWork, OlderTags DEF Advances, Unreleased
<1>1. CASE Reads(c, s, blob, etag, lease) /\ UNCHANGED <<blob, etag, lease, freed, meddled, late>>
  <2>1. s.pc \notin {"intent", "release", "finish"}
    BY <1>0, <1>1 DEF Reads, Plain
  <2>2. s.pc \in Loaded => s.st.lifecycle \notin Releasing
    <3>1. c.pc = "probe" => Asserted(c).lifecycle \in {c.st.lifecycle, "HELD"}
      BY <1>0, AssertedIs DEF Loaded, Steps
    <3> QED BY <1>0, <1>1, <3>1 DEF Reads, Plain, Loaded, Steps, Releasing, Unreleased
  <2> QED BY <1>0, <1>1, <2>1, <2>2 DEF Unreleased, Advances
<1>2. CASE /\ c.pc = "create" /\ s.pc = "load"
           /\ UNCHANGED <<blob, etag, lease, freed, meddled, late>>
  BY <1>0, <1>2 DEF Unreleased, Loaded, Advances
<1>3. ASSUME NEW q, Sends(c, q)
      PROVE  q.kind # "release" /\ q.state.lifecycle \notin Releasing
  BY <1>0, <1>3 DEF Sends, Releasing, Loaded, Steps
<1>4. ASSUME NEW q, Sends(c, q), Lapsed(q), Plain(s)
      PROVE  Unreleased(s, blob', late', freed')
  <2>1. UNCHANGED <<blob, freed>> /\ \A r \in late' : r \in late \/ r = q
    BY <1>4 DEF Lapsed
  <2> QED BY <1>3, <1>4, <2>1 DEF Unreleased, Plain, Loaded
<1>5. ASSUME NEW q, Sends(c, q), Executed(q), Sent(c, s, q, etag')
      PROVE  Unreleased(s, blob', late', freed')
  <2>1. /\ late' = late /\ freed' = freed /\ blob' \in {blob, q.state}
    BY <1>3, <1>5, ExecutedWrites
  <2>2. s.pc \notin {"intent", "release", "finish"}
    BY <1>0, <1>5 DEF Sent, Plain
  <2>3. s.pc \in Loaded => s.st.lifecycle \notin Releasing
    BY <1>0, <1>3, <1>5 DEF Sent, Plain, Loaded, Steps
  <2> QED BY <1>0, <1>3, <1>5, <2>1, <2>2, <2>3 DEF Unreleased, Advances
<1> QED BY <1>1, <1>2, <1>4, <1>5 DEF Advances

\* A confirmation is answered HELD only by a write of its own, which leaves
\* every earlier metadata request behind.
LEMMA ConfirmingAdvances ==
  ASSUME BrokerInv, NEW i \in Instances, Unreleased(call[i], blob, late, freed),
         Confirming(call[i], blob, late), NEW s, Advances(call[i], s)
  PROVE  /\ Confirming(s, blob', late')
         /\ s.pc = "idle" /\ s.out = "HELD" => Sealed(blob', etag', late', lease', meddled')
<1> DEFINE c == call[i]
<1>0. /\ c.pc \in {"load", "probe", "update", "lose"} /\ c.run = Run
      /\ ActionOf[c.ticket] = "assert" /\ c.ticket \in Tickets
      /\ c.pc # "load" => c.pc \in Loaded /\ c.st \in BlobState
      /\ Working(c, blob, etag, freed)
  BY AtWork, OlderTags DEF Advances, Confirming, Loaded, Steps
<1>1. CASE Reads(c, s, blob, etag, lease) /\ UNCHANGED <<blob, etag, lease, freed, meddled, late>>
  <2>1. CASE Plain(s)
    BY <1>1, <2>1 DEF Plain, Confirming, Grants
  <2>2. CASE /\ c.pc = "load" /\ blob # NoBlob /\ s.pc = "probe" /\ s.st = blob
             /\ Relationship(blob, c) \in {"SAME", "NEXT"}
    <3>1. Relationship(blob, c) = "NEXT"
      BY <1>0, <2>2 DEF Confirming, Relationship
    <3>2. s.run = c.run /\ s.ticket = c.ticket
      BY <2>2 DEF Advances
    <3>3. Relationship(s.st, s) = "NEXT"
      BY <2>2, <3>1, <3>2 DEF Relationship
    <3> QED BY <1>0, <2>2, <3>2, <3>3 DEF Confirming
  <2>3. CASE c.pc = "probe" /\ s.pc \in {"update", "lose"}
    BY <1>0, <2>3 DEF Confirming, Advances
  <2>4. ~(c.pc = "probe" /\ Asserted(c) = c.st)
    BY <1>0, AssertedIs DEF Confirming
  <2> QED BY <1>0, <1>1, <2>1, <2>2, <2>3, <2>4 DEF Reads
<1>2. ASSUME NEW q, Sends(c, q), Lapsed(q), Plain(s)
      PROVE  Confirming(s, blob', late') /\ s.out # "HELD"
  BY <1>2 DEF Confirming, Plain, Grants
<1>3. ASSUME NEW q, Sends(c, q), Executed(q), Sent(c, s, q, etag')
      PROVE  /\ Confirming(s, blob', late')
             /\ s.out = "HELD" => Sealed(blob', etag', late', lease', meddled')
  <2>1. s.pc = "idle" /\ (s.out = "HELD" => c.pc = "update")
    BY <1>0, <1>3 DEF Sent, Plain, Grants
  <2>2. ASSUME c.pc = "update" PROVE Sealed(blob', etag', late', lease', meddled')
    <3>1. /\ q.kind = "metadata" /\ q.state = c.st /\ q.header = c.st.id
      BY <1>3, <2>2 DEF Sends
    <3>2. blob' = c.st /\ etag' = etag + 1 /\ late' = late /\ lease = c.st.id /\ blob' # NoBlob
          /\ etag \in Nat
      BY <1>3, <3>1, ExecutedWrites
    <3>3. lease' = lease
      BY <1>3, <3>1 DEF Executed, Effect
    <3>4. c.st.run = Run /\ c.st.lifecycle = "HELD"
      BY <1>0, <2>2 DEF Working, Unreleased, Releasing
    <3>5. \A r \in late : r.kind = "metadata" => r.etag < etag + 1
      BY OlderTags
    <3> QED BY <3>2, <3>3, <3>4, <3>5 DEF Sealed
  <2> QED BY <2>1, <2>2 DEF Confirming
<1> QED BY <1>0, <1>1, <1>2, <1>3 DEF Advances

\* A late request cannot touch a confirmed lease.
LEMMA SealedLate ==
  ASSUME BrokerInv, NEW i \in Instances, NEW q \in late, ExecuteLate(q),
         Unreleased(call[i], blob, late, freed), Sealed(blob, etag, late, lease, meddled)
  PROVE  Sealed(blob', etag', late', lease', meddled')
<1>1. /\ q.kind \in {"create", "metadata", "acquire", "release"} /\ blob \in BlobState
      /\ \A r \in late' : r \in late
  BY DEF BrokerInv, BrokerTypeOK, RequestsAreSound, RequestOK, Requests, ExecuteLate, Sealed
<1>2. q.kind = "acquire"
  <2>1. q.kind # "release"
    BY DEF Unreleased
  <2>2. q.kind # "create"
    BY DEF ExecuteLate, Accepts, Sealed
  <2>3. q.kind # "metadata"
    <3>1. q.kind = "metadata" => q.etag = etag
      BY DEF ExecuteLate, Accepts
    <3>2. q.kind = "metadata" => q.etag < etag /\ q.etag \in Nat /\ etag \in Nat
      BY OlderTags DEF Sealed
    <3> QED BY <3>1, <3>2
  <2> QED BY <1>1, <2>1, <2>2, <2>3
<1>3. blob' = blob /\ etag' = etag /\ lease = NoLease
  BY <1>2 DEF ExecuteLate, Effect, Accepts
<1>4. meddled' = meddled
  BY DEF ExecuteLate, Effect
<1>5. blob.id # NoLease
  BY <1>1, LeaseAssumption DEF BlobState
<1> QED BY <1>1, <1>3, <1>4, <1>5 DEF Sealed

\* Late requests, and a request of a run that never asked for a release.
LEMMA UnreleasedLate ==
  ASSUME BrokerInv, NEW i \in Instances, NEW q \in late, ExecuteLate(q),
         Unreleased(call[i], blob, late, freed)
  PROVE  Unreleased(call[i], blob', late', freed')
<1>1. q.kind # "release" /\ q.state.lifecycle \notin Releasing /\ freed \in BOOLEAN
  BY DEF Unreleased, BrokerInv, BrokerTypeOK
<1>2. blob' \in {blob, q.state} /\ \A r \in late' : r \in late
  BY DEF ExecuteLate, Effect
<1>3. freed' = freed
  BY <1>1, Zenon DEF ExecuteLate, Effect
<1> QED BY <1>1, <1>2, <1>3 DEF Unreleased


\* A step of the call, and what the client counts on.
LEMMA LeasedAdvances ==
  ASSUME BrokerInv, NEW i \in Instances, NEW s, Advances(call[i], s), NEW at, NEW w \in BOOLEAN,
         Unreleased(call[i], blob, late, freed),
         Leased(at, w, call[i], blob, etag, late, lease, meddled)
  PROVE  Leased(at, w, s, blob', etag', late', lease', meddled')
<1>1. w /\ Confirming(call[i], blob, late) /\ at \notin {"dispatch", "wire", "answer"}
  BY DEF Leased, Advances
<1> QED BY <1>1, ConfirmingAdvances DEF Leased

\* An acquire of a released lease is refused.
LEMMA RejectedAdvances ==
  ASSUME BrokerInv, NEW i \in Instances, NEW s, Advances(call[i], s), Rejected(call[i], blob)
  PROVE  Rejected(s, blob')
<1> DEFINE c == call[i]
<1>0. c.pc \in {"create", "load"} /\ ActionOf[c.ticket] = "acquire"
      /\ (s.pc # "idle" => s.ticket = c.ticket)
  BY DEF Advances, Rejected
<1>1. ASSUME Plain(s), blob' = blob PROVE Rejected(s, blob')
  BY <1>1 DEF Plain, Rejected
<1>2. CASE Reads(c, s, blob, etag, lease) /\ blob' = blob
  BY <1>0, <1>1, <1>2 DEF Reads, Rejected
<1>3. CASE c.pc = "create" /\ s.pc = "load" /\ blob' = blob
  BY <1>0, <1>3 DEF Rejected
<1>4. ASSUME NEW q, Sends(c, q), Executed(q) PROVE FALSE
  BY <1>0, <1>4 DEF Sends, Executed, Accepts, Rejected
<1> QED BY <1>1, <1>2, <1>3, <1>4 DEF Advances, Lapsed

\* What the broker leaves to the client that works under the lease.
LEMMA BrokerLeases ==
  ASSUME BrokerInv, Solo, Final(call[Instance], blob, etag, late), Serve(Instance) \/ Disturb,
         NEW at, NEW w \in BOOLEAN
  PROVE  /\ Unreleased(call[Instance], blob, late, freed) =>
              Unreleased(call'[Instance], blob', late', freed')
         /\ Rejected(call[Instance], blob) => Rejected(call'[Instance], blob')
         /\ Unreleased(call[Instance], blob, late, freed)
            /\ Leased(at, w, call[Instance], blob, etag, late, lease, meddled) =>
              Leased(at, w, call'[Instance], blob', etag', late', lease', meddled')
<1> DEFINE c == call[Instance]
<1>0. /\ Instance \in Instances /\ call \in [Instances -> Calls]
      /\ freed \in BOOLEAN
  BY PlanAssumption DEF BrokerInv, BrokerTypeOK
<1>1. CASE Serve(Instance)
  <2>1. PICK s : call' = [call EXCEPT ![Instance] = s] /\ Advances(call[Instance], s)
    BY <1>0, <1>1, CallStep
  <2>2. call'[Instance] = s
    BY <1>0, <2>1
  <2> QED BY <1>0, <2>1, <2>2, UnreleasedAdvances, RejectedAdvances, LeasedAdvances
<1>2. ASSUME NEW i \in Instances, Unavailable(i) \/ Crash(i)
      PROVE  /\ Unreleased(c, blob, late, freed) => Unreleased(c', blob', late', freed')
             /\ Rejected(c, blob) => Rejected(c', blob')
             /\ Leased(at, w, c, blob, etag, late, lease, meddled) =>
                  Leased(at, w, c', blob', etag', late', lease', meddled')
  <2>1. i = Instance
    BY <1>2 DEF Solo, Unavailable, Crash, Idle
  <2>2. PICK out \in {"RETRYABLE_FAILURE", "INDETERMINATE_AFTER_CRASH", "none"} :
          Answer(Instance, out)
    BY <1>2, <2>1 DEF Unavailable, Crash
  <2>3. out \notin Grants \cup Releases
    BY DEF Grants, Releases
  <2>4. PICK s : call' = [call EXCEPT ![Instance] = s] /\ Plain(s)
    BY <2>2, <2>3, PlainIs
  <2>5. UNCHANGED <<blob, etag, late, lease, freed, meddled>> /\ c.pc # "idle"
    BY <1>2, <2>1 DEF Unavailable, Crash
  <2>6. c' = s /\ s.pc = "idle" /\ s.out \notin Grants
    BY <1>0, <2>4 DEF Plain
  <2>7. Unreleased(c, blob, late, freed) => Unreleased(s, blob, late, freed)
    BY <2>6 DEF Unreleased, Loaded
  <2>8. Rejected(c, blob) => Rejected(s, blob)
    BY <2>6 DEF Rejected
  <2>9. Leased(at, w, c, blob, etag, late, lease, meddled) =>
          Leased(at, w, s, blob, etag, late, lease, meddled)
    BY <2>5, <2>6 DEF Leased, Confirming, Grants
  <2> QED BY <2>5, <2>6, <2>7, <2>8, <2>9
<1>3. ASSUME NEW q \in late, ExecuteLate(q)
      PROVE  /\ Unreleased(c, blob, late, freed) => Unreleased(c', blob', late', freed')
             /\ Rejected(c, blob) => Rejected(c', blob')
             /\ Unreleased(c, blob, late, freed)
                /\ Leased(at, w, c, blob, etag, late, lease, meddled) =>
                  Leased(at, w, c', blob', etag', late', lease', meddled')
  <2>1. c' = c
    BY <1>3 DEF ExecuteLate
  <2>2. Unreleased(c, blob, late, freed) => Unreleased(c', blob', late', freed')
    BY <1>0, <1>3, <2>1, UnreleasedLate
  <2>3. Rejected(c, blob) => Rejected(c', blob')
    BY <1>0, <1>3, <2>1, FinalLate DEF Rejected
  <2>4. Unreleased(c, blob, late, freed) /\ Sealed(blob, etag, late, lease, meddled) =>
          Sealed(blob', etag', late', lease', meddled')
    BY <1>0, <1>3, SealedLate
  <2>5. Confirming(c, blob, late) => Confirming(c', blob', late')
    <3>1. blob' \in {blob, q.state} /\ \A r \in late' : r \in late
      BY <1>3 DEF ExecuteLate, Effect
    <3> QED BY <1>3, <2>1, <3>1 DEF Confirming
  <2> QED BY <2>1, <2>2, <2>3, <2>4, <2>5 DEF Leased
<1>4. CASE Outside
  <2>1. c' = c /\ UNCHANGED <<blob, etag, late, freed>> /\ meddled' = TRUE
    BY <1>4 DEF Outside
  <2>2. Sealed(blob, etag, late, lease, meddled) => Sealed(blob', etag', late', lease', meddled')
    BY <2>1 DEF Sealed
  <2> QED BY <2>1, <2>2 DEF Leased
<1> QED BY <1>1, <1>2, <1>3, <1>4 DEF Disturb


\* What prepares a release is cleared only after the release.
LEMMA AloneEmpties ==
  ASSUME ClientInv, Alone, Unprepared(file')
  PROVE  Unprepared(file) \/ pc \in AfterRelease
<1>0. file \in Files /\ Filed(pc, file, ck)
  BY DEF ClientInv, ClientTypeOK
<1>1. CASE file' = file
  BY <1>1
<1>2. CASE Launch
  <2>1. \A d \in Document : Recovered(d) # NoFile
    BY AbsentAssumption DEF Recovered, Document
  <2>2. CASE file.manifest # NoFile
    BY <1>0, <1>1, <1>2, <2>2 DEF Launch, SameFiles, Files, Unprepared
  <2>3. CASE file.pending # NoFile /\ file' = [file EXCEPT !.pending = Recovered(@)]
    <3>1. file'.pending = Recovered(file.pending) /\ file.pending \in Document
      BY <1>0, <2>3 DEF Files
    <3> QED BY <2>1, <3>1 DEF Unprepared
  <2>4. CASE file' = [file EXCEPT !.terminal = Recovered(@)]
    BY <1>0, <2>4 DEF Unprepared, Files
  <2> QED BY <1>1, <1>2, <2>2, <2>3, <2>4 DEF Launch, SameFiles
<1>3. CASE Evidence
  BY <1>0, <1>3 DEF Evidence, Filed, Busy, Empty, Unprepared
<1>4. CASE WritePending
  <2>1. file'.pending = file.terminal /\ file.terminal # NoFile
    BY <1>0, <1>4 DEF WritePending, Store, Files, Filed
  <2> QED BY <2>1 DEF Unprepared
<1>5. CASE ClearTerminal
  <2>1. file'.pending = file.pending /\ file.pending # NoFile
    BY <1>0, <1>5 DEF ClearTerminal, Store, Files, Filed
  <2> QED BY <2>1 DEF Unprepared
<1>6. CASE ClearRecovery \/ WriteJson \/ WriteMarkdown \/ WriteManifest \/ ClearPending
           \/ ClearLast
  BY <1>6
  DEF ClearRecovery, WriteJson, WriteMarkdown, WriteManifest, ClearPending, ClearLast, AfterRelease
<1>7. CASE Runner \/ Attested \/ Released
  <2>1. file' = file
    BY <1>7
    DEF Runner, Acquired, Enter, Admitted, Repeated, NextPhase, Loop, Refreshed, Reserve,
        Dispatching, Send, Complete, PhaseRefreshed, PhasePassed, PhaseFailed, ReconcileAttempt,
        RecoverTerminal, Attested, Released, SameFiles
  <2> QED BY <1>1, <2>1
<1>8. CASE Refused \/ RunnerException \/ TornWrite \/ Die
  <2>1. file' = file
    BY <1>8 DEF Refused, Fails, RunnerException, TornWrite, Die, SameFiles
  <2> QED BY <1>1, <2>1
<1> QED BY <1>2, <1>3, <1>4, <1>5, <1>6, <1>7, <1>8 DEF Alone, Completion

\* How the client gets to the steps of the lease.
LEMMA AloneActive ==
  ASSUME Alone
  PROVE  /\ pc' = "acquire" => waiting' = FALSE /\ ticket' = NoTickets
         /\ pc' \in Active =>
              \/ Answered(TRUE) /\ pc = "acquire" /\ pc' = "run"
              \/ Answered(TRUE) /\ pc \in Active /\ OpOf[pc] = "assert"
              \/ /\ Local /\ pc \in Active
                 /\ pc' \in {"dispatch", "wire", "answer"} => pc \in {"dispatch", "wire"}
<1>1. CASE Launch
  BY <1>1 DEF Launch, Active
<1>2. CASE Refused \/ RunnerException \/ TornWrite \/ Die
  <2>1. pc' # "acquire" /\ pc' \notin Active
    BY <1>2
    DEF Refused, Fails, RunnerException, TornWrite, Die, Persist, Write, WritePhase, Active
  <2> QED BY <2>1
<1>3. CASE Completion
  <2>1. pc' # "acquire" /\ pc' \notin Active
    BY <1>3
    DEF Completion, Evidence, Attested, WritePending, ClearTerminal, Released, ClearRecovery,
        WriteJson, WriteMarkdown, WriteManifest, ClearPending, ClearLast, Store, Active
  <2> QED BY <2>1
<1>4. CASE Acquired
  BY <1>4 DEF Acquired
<1>5. CASE Admitted \/ Repeated \/ Refreshed \/ Reserve \/ PhaseRefreshed \/ PhasePassed
  <2>1. /\ Answered(TRUE) /\ pc \in {"preflight", "repeat", "refresh", "observe", "phaseRefresh",
                                     "phaseObserve"}
    BY <1>5 DEF Admitted, Repeated, Refreshed, Reserve, PhaseRefreshed, PhasePassed
  <2>2. pc' # "acquire"
    BY <1>5
    DEF Admitted, Repeated, Refreshed, Reserve, PhaseRefreshed, PhasePassed, Persist, Write, WritePhase, Observed, ObservedUnsafe
  <2>3. pc \in Active /\ OpOf[pc] = "assert"
    BY <2>1 DEF Active, OpOf
  <2> QED BY <2>1, <2>2, <2>3
<1>6. CASE Enter \/ NextPhase \/ Loop \/ Dispatching \/ Send \/ Complete
  <2>1. /\ Local /\ pc \in {"run", "phase", "loop", "dispatch", "wire", "answer"}
    BY <1>6 DEF Enter, NextPhase, Loop, Dispatching, Send, Complete
  <2>2. /\ pc' # "acquire"
        /\ pc' \in {"dispatch", "wire", "answer"} => pc \in {"dispatch", "wire"}
    BY <1>6 DEF Enter, NextPhase, Loop, Dispatching, Send, Complete, Persist, Write, WritePhase
  <2> QED BY <2>1, <2>2 DEF Active
<1>7. CASE PhaseFailed \/ ReconcileAttempt \/ RecoverTerminal
  <2>1. pc' # "acquire" /\ pc' \notin Active
    BY <1>7 DEF PhaseFailed, ReconcileAttempt, RecoverTerminal, Persist, Write, WritePhase, Active
  <2> QED BY <2>1
<1> QED BY <1>1, <1>2, <1>3, <1>4, <1>5, <1>6, <1>7 DEF Alone, Runner

\* The client keeps the invariant.
LEMMA AloneLease ==
  ASSUME RunInv, LeaseInv, Alone
  PROVE  LeaseInv'
<1> DEFINE c == call[Instance]
           U == Unreleased(c, blob, late, freed)
<1>0. /\ UNCHANGED <<blob, etag, lease, late, freed, meddled>> /\ c' = c
      /\ ticket \in [Ops -> Tickets \cup {NoTicket}] /\ "assert" \in Ops
      /\ U' = U
  BY AloneLeaves DEF Service, RunInv, AskingOK, Ops
<1>1. ASSUME Unprepared(file')
      PROVE  U \/ (blob # NoBlob /\ blob.lifecycle = "RELEASED")
  BY <1>1, AloneEmpties DEF LeaseInv, RunInv, ReleaseInv, Closed, AfterRelease
<1>2. pc' = "acquire" => ~waiting' /\ ticket'["assert"] = NoTicket
  BY AloneActive DEF NoTickets
<1>3. ASSUME Answered(TRUE), pc = "acquire", pc' = "run"
      PROVE  /\ U /\ Leased(pc', waiting', c, blob, etag, late, lease, meddled)
             /\ ticket'["assert"] = NoTicket
  <2>1. /\ waiting /\ c.pc = "idle" /\ waiting' = FALSE /\ OpOf[pc] = "acquire"
        /\ c.out \in SuccessOf[OpOf[pc]]
        /\ ticket' = [ticket EXCEPT ![OpOf[pc]] = IF Kept(call[Instance].out) THEN @ ELSE NoTicket]
    BY <1>3, AnsweredIs DEF OpOf
  <2>2. c.out \in Grants
    BY <2>1 DEF SuccessOf, Grants
  <2>3. U
    BY <1>3, <2>1, <2>2 DEF LeaseInv, Rejected
  <2>4. Leased("run", FALSE, c, blob, etag, late, lease, meddled)
    BY <2>1 DEF Leased
  <2>5. ticket'["assert"] = NoTicket
    BY <1>0, <1>3, <2>1 DEF LeaseInv
  <2> QED BY <1>3, <2>1, <2>3, <2>4, <2>5
<1>4. ASSUME Answered(TRUE), pc \in Active, OpOf[pc] = "assert"
      PROVE  /\ U /\ Leased(pc', waiting', c, blob, etag, late, lease, meddled)
             /\ ticket'["assert"] = NoTicket
  <2>1. /\ waiting /\ c.pc = "idle" /\ waiting' = FALSE /\ c.out \in SuccessOf[OpOf[pc]]
        /\ ticket' = [ticket EXCEPT ![OpOf[pc]] = IF Kept(call[Instance].out) THEN @ ELSE NoTicket]
    BY <1>4, AnsweredIs
  <2>2. c.out = "HELD"
    BY <1>4, <2>1 DEF SuccessOf
  <2>3. Sealed(blob, etag, late, lease, meddled) /\ U
    BY <1>4, <2>1, <2>2 DEF LeaseInv, Leased
  <2>4. Leased(pc', FALSE, c, blob, etag, late, lease, meddled)
    BY <2>1, <2>3 DEF Leased
  <2>5. ticket'["assert"] = NoTicket
    <3>1. ~Kept(call[Instance].out)
      BY <2>2 DEF Kept
    <3> QED BY <1>0, <1>4, <2>1, <3>1
  <2> QED BY <2>1, <2>3, <2>4, <2>5
<1>5. ASSUME Local, pc \in Active,
             pc' \in {"dispatch", "wire", "answer"} => pc \in {"dispatch", "wire"}
      PROVE  /\ U /\ Leased(pc', waiting', c, blob, etag, late, lease, meddled)
             /\ ~waiting' => ticket'["assert"] = NoTicket
  <2>1. waiting' = waiting /\ ticket' = ticket
    BY <1>5 DEF Local
  <2>2. U /\ Leased(pc, waiting, c, blob, etag, late, lease, meddled)
    BY <1>5 DEF LeaseInv
  <2>3. Leased(pc', waiting, c, blob, etag, late, lease, meddled)
    BY <1>5, <2>2 DEF Leased
  <2> QED BY <1>5, <2>1, <2>2, <2>3 DEF LeaseInv
<1>6. pc' \in Active =>
        /\ U /\ Leased(pc', waiting', c, blob, etag, late, lease, meddled)
        /\ ~waiting' => ticket'["assert"] = NoTicket
  <2> HIDE DEF U, c
  <2> QED BY <1>3, <1>4, <1>5, AloneActive
<1> QED BY <1>0, <1>1, <1>2, <1>6 DEF LeaseInv

\* A fresh ticket has a nonce that neither the blob nor a late request carries.
LEMMA FreshNonce ==
  ASSUME BrokerInv, NEW op, NEW t \in FreshTickets(op)
  PROVE  /\ blob # NoBlob => NonceOf[blob.ticket] # NonceOf[t] /\ blob.ticket # t
         /\ \A q \in late : q.state.ticket # t
<1>1. blob # NoBlob => blob.ticket \in Tickets
  BY DEF BrokerInv, BrokerTypeOK, BlobState
<1>2. \A q \in late : q.state.ticket \in Tickets
  BY DEF BrokerInv, RequestsAreSound, RequestOK, Requests, BlobState
<1> QED BY <1>1, <1>2 DEF FreshTickets

\* A request of the client keeps it.
LEMMA AskLease ==
  ASSUME RunInv, LeaseInv, Ask
  PROVE  LeaseInv'
<1> DEFINE c == call[Instance]
<1>1. PICK t \in Tickets, id \in LeaseIds \cup {NoLease} :
        /\ ActionOf[t] = OpOf[pc]
        /\ Begin(Instance, Run, t, id) /\ ticket' = [ticket EXCEPT ![OpOf[pc]] = t]
        /\ ticket[OpOf[pc]] = NoTicket => t \in FreshTickets(OpOf[pc])
  <2>1. /\ ticket["acquire"] \in Tickets \cup {NoTicket} /\ ticket["assert"] \in Tickets \cup {NoTicket}
        /\ ticket["release"] \in Tickets \cup {NoTicket}
        /\ \A op \in Ops : ticket[op] # NoTicket => ActionOf[ticket[op]] = op
    BY DEF RunInv, AskingOK, Ops
  <2> QED BY <2>1, AskBegins DEF RunInv, Ops
<1>2. /\ pc' = pc /\ file' = file /\ waiting' = TRUE /\ ~waiting
      /\ UNCHANGED <<blob, etag, lease, late, freed, meddled>>
  BY <1>1 DEF Ask, SameFiles, Begin
<1>3. PICK s : /\ call' = [call EXCEPT ![Instance] = s] /\ s.pc \in {"create", "load"}
               /\ s.pc = IF ActionOf[t] = "acquire" THEN "create" ELSE "load"
               /\ s.run = Run /\ s.ticket = t
  BY <1>1, BeginIs
<1>4. c' = s
  BY <1>3, PlanAssumption DEF RunInv, BrokerInv, BrokerTypeOK
<1>5. ASSUME OpOf[pc] # "release", Unreleased(c, blob, late, freed)
      PROVE  Unreleased(s, blob, late, freed)
  BY <1>1, <1>3, <1>5 DEF Unreleased, Loaded
<1>6. Unprepared(file) => OpOf[pc] # "release"
  <2>1. Filed(pc, file, ck) /\ pc \in DOMAIN OpOf
    BY DEF RunInv, ClientInv, Ask
  <2> QED BY <2>1 DEF Filed, OpOf, Unprepared
<1>7. pc \in Active \cup {"acquire"} => Unprepared(file)
  BY DEF RunInv, ClientInv, Filed, Active, Busy, RunnerSteps, Empty, Unprepared
<1>8. ASSUME pc = "acquire", blob # NoBlob, blob.lifecycle = "RELEASED"
      PROVE  Rejected(s, blob)
  BY <1>1, <1>3, <1>8 DEF Rejected, OpOf
<1>9. ASSUME pc \in Active PROVE Leased(pc, TRUE, s, blob, etag, late, lease, meddled)
  <2>1. OpOf[pc] = "assert" /\ pc \notin {"dispatch", "wire", "answer"}
    BY <1>9 DEF Ask, OpOf, Active
  <2>2. t \in FreshTickets("assert")
    BY <1>1, <1>2, <1>9, <2>1 DEF LeaseInv
  <2>3. s.pc = "load"
    BY <1>1, <1>3, <2>1
  <2>4. /\ blob # NoBlob => blob.ticket # t
        /\ \A q \in late : q.state.ticket # t
    BY <2>2, FreshNonce DEF RunInv
  <2>5. Confirming(s, blob, late)
    BY <1>1, <1>3, <2>1, <2>3, <2>4 DEF Confirming
  <2> QED BY <2>1, <2>3, <2>5 DEF Leased
<1>10. pc = "acquire" => ticket'["assert"] = NoTicket
  BY <1>1 DEF RunInv, AskingOK, LeaseInv, OpOf, Ops
<1> QED BY <1>2, <1>4, <1>5, <1>6, <1>7, <1>8, <1>9, <1>10 DEF LeaseInv

\* A run starts without a lease.
LEMMA LeaseInit == AcceptanceInit => LeaseInv
<1> SUFFICES ASSUME AcceptanceInit PROVE LeaseInv
  OBVIOUS
<1>1. call[Instance].pc = "idle"
  BY PlanAssumption DEF AcceptanceInit, BrokerInit, Idle
<1>2. Unreleased(call[Instance], blob, late, freed)
  BY <1>1 DEF AcceptanceInit, BrokerInit, Unreleased, Loaded
<1> QED BY <1>2 DEF AcceptanceInit, LeaseInv, Active

\* Every step keeps what the client counts on.
LEMMA LeaseNext == RunInv /\ LeaseInv /\ [AcceptanceNext]_acceptanceVars => LeaseInv'
<1> SUFFICES ASSUME RunInv, LeaseInv, [AcceptanceNext]_acceptanceVars PROVE LeaseInv'
  OBVIOUS
<1>1. CASE Broker
  <2>1. pc' = pc /\ file' = file /\ waiting' = waiting /\ ticket' = ticket /\ waiting \in BOOLEAN
    BY <1>1 DEF Broker, clientVars, RunInv, AskingOK
  <2>2. /\ Unreleased(call[Instance], blob, late, freed) =>
             Unreleased(call'[Instance], blob', late', freed')
        /\ Rejected(call[Instance], blob) => Rejected(call'[Instance], blob')
        /\ Unreleased(call[Instance], blob, late, freed)
           /\ Leased(pc, waiting, call[Instance], blob, etag, late, lease, meddled) =>
             Leased(pc, waiting, call'[Instance], blob', etag', late', lease', meddled')
        /\ blob # NoBlob /\ blob.lifecycle = "RELEASED" =>
             blob' # NoBlob /\ blob'.lifecycle = "RELEASED"
    BY <1>1, <2>1, BrokerLeases, BrokerFinal DEF RunInv, ReleaseInv, Broker
  <2> QED BY <2>1, <2>2 DEF LeaseInv
<1>2. CASE UNCHANGED acceptanceVars
  BY <1>2 DEF acceptanceVars, brokerVars, clientVars, LeaseInv
<1> QED BY <1>1, <1>2, AskLease, AloneLease DEF AcceptanceNext, Alone

\* Requests leave only while the broker records the lease as held by this run,
\* and none leaves once a release has begun: the second of the two confirmations
\* before a request rewrote the blob, so no request that is still in the network
\* can record anything else.
THEOREM DispatchUnderLease == AcceptanceSpec => []DispatchedUnderLease
<1>1. AcceptanceSpec => [](RunInv /\ LeaseInv)
  BY RunInit, RunNext, LeaseInit, LeaseNext, PTL DEF AcceptanceSpec
<1>2. LeaseInv => DispatchedUnderLease
  BY DEF LeaseInv, Active, Leased, Sealed, Unreleased, DispatchedUnderLease
<1> QED BY <1>1, <1>2, PTL


-----------------------------------------------------------------------------
(* How many launches a run needs.  Every disturbance costs the operator at *)
(* most two of them: a launch that a fault did not end, and that met no    *)
(* late request, goes through.  First, what the broker keeps in order as   *)
(* long as nobody meddles with the lease.                                  *)

Ending == {"RELEASE_INTENT", "RELEASED", "LOST"}

Says(b, lifecycles) == b # NoBlob /\ b.lifecycle \in lifecycles

\* The lease was recorded as held, now or earlier.
Reached(b) == b # NoBlob /\ b.lifecycle \notin Unheld

\* A request that ends the lease, and one that follows a recorded intent.
Ends(q) == q.kind = "release" \/ (q.kind = "metadata" /\ q.state.lifecycle \in Ending)
Finishes(q) == q.kind = "release" \/ (q.kind = "metadata" /\ q.state.lifecycle \in Terminal)

\* What a request says of the blob b with ETag e: it never leads back.
Fits(q, b, e) ==
  /\ q.kind \in {"create", "metadata", "acquire", "release"}
  /\ q.state \in BlobState /\ q.state.run = Run
  /\ q.kind = "create" => q.state.lifecycle = "ACQUIRE_INTENT"
  /\ q.kind # "create" => b # NoBlob /\ q.state.id = b.id
  /\ q.kind = "acquire" => q.header = q.state.id
  /\ Ends(q) => Reached(b)
  /\ Finishes(q) => Says(b, Ending)
  /\ q.kind = "metadata" =>
       /\ q.etag \in Nat /\ q.etag <= e
       /\ q.state.lifecycle # "ACQUIRE_INTENT"
       /\ q.state.lifecycle = "HELD" => q.header = q.state.id
       /\ q.etag = e => /\ Reached(b) => q.state.lifecycle \notin Unheld
                        /\ Says(b, Ending) => q.state.lifecycle \in Ending
                        /\ Says(b, Terminal) => q.state.lifecycle \in Terminal

\* The same of a call.
Ordered(c, b, e, l) ==
  /\ c.pc # "idle" => c.run = Run /\ (ActionOf[c.ticket] # "acquire" => Reached(b))
  /\ c.pc \in {"create", "start", "dispatch", "hold"} => ActionOf[c.ticket] = "acquire"
  /\ c.pc = "update" => ActionOf[c.ticket] = "assert"
  /\ c.pc = "lose" => ActionOf[c.ticket] # "acquire"
  /\ c.pc \in {"intent", "release", "finish"} => ActionOf[c.ticket] = "release"
  /\ c.pc \in {"lose", "release", "finish"} => Says(b, Ending)
  /\ c.pc \in {"dispatch", "hold"} => /\ Says(b, {"ACQUIRE_IN_FLIGHT", "HELD"})
                                      /\ \A q \in l : ~Ends(q)
  /\ c.pc = "update" /\ c.etag = e => b.lifecycle = c.st.lifecycle
  /\ c.pc = "intent" /\ c.etag = e => b.lifecycle \notin Terminal

\* A lease recorded as held is there.
Agreed(b, held) == held # Foreign /\ (Says(b, {"HELD"}) => held = b.id)

Orderly(c, b, e, l, held) ==
  /\ b # NoBlob => b.run = Run
  /\ Ordered(c, b, e, l)
  /\ \A q \in l : Fits(q, b, e)
  /\ Agreed(b, held)

\* From the blob b with ETag e to b2 with e2: the lifecycle does not go back.
Onward(b, e, b2, e2) ==
  /\ b # NoBlob => b2 # NoBlob /\ b2.id = b.id
  /\ b2 # NoBlob => b2.run = Run
  /\ Reached(b) => Reached(b2)
  /\ Says(b, Ending) => Says(b2, Ending)
  /\ Says(b, Terminal) => Says(b2, Terminal)
  /\ (b2 = b /\ e2 = e) \/ e2 = e + 1

\* A request that fits leads onward, and keeps record and lease in agreement.
LEMMA FittingRequest ==
  ASSUME NEW q, Fits(q, blob, etag), Accepts(q), Effect(q), Agreed(blob, lease),
         blob # NoBlob => blob.run = Run, blob \in BlobState \cup {NoBlob}, etag \in Nat
  PROVE  /\ Onward(blob, etag, blob', etag') /\ Agreed(blob', lease')
         /\ Says(blob, {"ACQUIRE_IN_FLIGHT", "HELD"}) /\ ~Ends(q) =>
              Says(blob', {"ACQUIRE_IN_FLIGHT", "HELD"})
<1>0. q.state # NoBlob
  BY BlobAssumption DEF Fits
<1>1. CASE q.kind = "create"
  <2>1. blob = NoBlob /\ blob' = q.state /\ etag' = etag + 1 /\ lease' = lease
    BY <1>1 DEF Accepts, Effect
  <2> QED BY <1>0, <1>1, <2>1 DEF Fits, Onward, Agreed, Reached, Says
<1>2. CASE q.kind = "metadata"
  <2>1. /\ blob' = q.state /\ etag' = etag + 1 /\ lease' = lease
        /\ q.etag = etag /\ q.header = lease
    BY <1>2 DEF Accepts, Effect
  <2>2. Onward(blob, etag, blob', etag')
    BY <1>0, <1>2, <2>1 DEF Fits, Onward, Reached, Says
  <2>3. Agreed(blob', lease')
    BY <1>0, <1>2, <2>1 DEF Fits, Agreed, Says
  <2>4. ~Ends(q) => Says(blob', {"ACQUIRE_IN_FLIGHT", "HELD"})
    BY <1>0, <1>2, <2>1 DEF Fits, Ends, Says, BlobState, Lifecycles, Ending
  <2> QED BY <2>2, <2>3, <2>4
<1>3. CASE q.kind = "acquire"
  <2>1. blob' = blob /\ etag' = etag /\ lease' = q.header
    BY <1>3 DEF Effect
  <2>2. q.header = blob.id /\ q.header # Foreign
    BY <1>3, LeaseAssumption DEF Fits, BlobState
  <2> QED BY <2>1, <2>2 DEF Onward, Agreed
<1>4. CASE q.kind = "release"
  <2>1. blob' = blob /\ etag' = etag /\ lease' = NoLease
    BY <1>4 DEF Effect
  <2>2. Says(blob, Ending) /\ ~Says(blob, {"HELD"}) /\ NoLease # Foreign
    BY <1>4, LeaseAssumption DEF Fits, Finishes, Says, Ending
  <2> QED BY <2>1, <2>2 DEF Onward, Agreed
<1> QED BY <1>1, <1>2, <1>3, <1>4 DEF Fits

\* The other requests still fit when the blob moves on.
LEMMA FitsOnward ==
  ASSUME NEW q, NEW b, NEW e \in Nat, NEW b2, NEW e2, Fits(q, b, e), Onward(b, e, b2, e2)
  PROVE  Fits(q, b2, e2)
<1>1. CASE b2 = b /\ e2 = e
  BY <1>1
<1>2. CASE e2 = e + 1
  <2>1. q.kind = "metadata" => q.etag <= e2 /\ q.etag # e2
    BY <1>2 DEF Fits
  <2> QED BY <2>1 DEF Fits, Onward
<1> QED BY <1>1, <1>2 DEF Onward

\* A request that the call sends fits.
LEMMA SendsFits ==
  ASSUME BrokerInv, NEW i \in Instances, call[i].pc # "idle", Ordered(call[i], blob, etag, late),
         blob # NoBlob => blob.run = Run, NEW q, Sends(call[i], q)
  PROVE  Fits(q, blob, etag)
<1> DEFINE c == call[i]
<1>0. Working(c, blob, etag, freed) /\ c.run = Run
  BY AtWork DEF Ordered
<1>1. CASE c.pc = "create"
  BY <1>0, <1>1 DEF Sends, Fits, Ends, Finishes
<1>2. CASE c.pc # "create"
  <2>1. /\ c.pc \in {"dispatch", "release", "start", "hold", "update", "lose", "intent", "finish"}
        /\ c.pc \in Loaded
    BY <1>2 DEF Sends, Loaded, Steps
  <2>2. /\ blob # NoBlob /\ c.st \in BlobState /\ c.st.id = blob.id /\ c.st.run = blob.run
        /\ c.etag \in Nat /\ c.etag <= etag
        /\ c.pc = "start" /\ c.etag = etag => blob.lifecycle = "ACQUIRE_INTENT"
        /\ c.pc = "update" => c.st.lifecycle \in {"HELD", "RELEASE_INTENT"}
    BY <1>0, <2>1 DEF Working
  <2>3. q.state \in BlobState /\ q.state.run = Run /\ q.state.id = blob.id
    BY <1>2, <2>2 DEF Sends
  <2>4. c.pc \notin {"start", "dispatch", "hold"} => Reached(blob)
    BY <2>1 DEF Ordered
  <2>5. CASE c.pc = "dispatch"
    BY <2>2, <2>3, <2>5 DEF Sends, Fits, Ends, Finishes
  <2>6. CASE c.pc = "release"
    BY <2>2, <2>3, <2>4, <2>6 DEF Sends, Fits, Ends, Finishes, Ordered
  <2>7. CASE c.pc = "start"
    BY <2>2, <2>3, <2>7 DEF Sends, Fits, Ends, Finishes, Reached, Says, Ending, Terminal, Unheld
  <2>8. CASE c.pc = "hold"
    BY <2>2, <2>3, <2>8
    DEF Sends, Fits, Ends, Finishes, Ordered, Says, Ending, Terminal, Unheld
  <2>9. CASE c.pc = "update"
    BY <2>2, <2>3, <2>4, <2>9
    DEF Sends, Fits, Ends, Finishes, Ordered, Says, Ending, Terminal, Unheld
  <2>10. CASE c.pc = "lose"
    BY <2>2, <2>3, <2>4, <2>10
    DEF Sends, Fits, Ends, Finishes, Ordered, Says, Ending, Terminal, Unheld
  <2>11. CASE c.pc = "intent"
    BY <2>2, <2>3, <2>4, <2>11
    DEF Sends, Fits, Ends, Finishes, Ordered, Says, Ending, Terminal, Unheld
  <2>12. CASE c.pc = "finish"
    BY <2>2, <2>3, <2>4, <2>12
    DEF Sends, Fits, Ends, Finishes, Ordered, Says, Ending, Terminal, Unheld
  <2> QED BY <2>1, <2>5, <2>6, <2>7, <2>8, <2>9, <2>10, <2>11, <2>12
<1> QED BY <1>1, <1>2

\* A step of the call keeps the order.
LEMMA OrderedAdvances ==
  ASSUME BrokerInv, NEW i \in Instances, Orderly(call[i], blob, etag, late, lease),
         NEW s, Advances(call[i], s)
  PROVE  /\ Orderly(s, blob', etag', late', lease')
         /\ Onward(blob, etag, blob', etag')
<1> DEFINE c == call[i]
<1>0. /\ c.pc # "idle" /\ c.run = Run /\ s.run = Run /\ (s.pc # "idle" => s.ticket = c.ticket)
      /\ Working(c, blob, etag, freed) /\ c.ticket \in Tickets /\ etag \in Nat
      /\ blob \in BlobState \cup {NoBlob} /\ (blob # NoBlob => blob.run = Run)
      /\ Ordered(c, blob, etag, late) /\ (\A q \in late : Fits(q, blob, etag))
      /\ Agreed(blob, lease)
  BY AtWork DEF Advances, Orderly, Ordered, BrokerInv, BrokerTypeOK
<1>1. ASSUME Plain(s), NEW b, NEW e, NEW l PROVE Ordered(s, b, e, l)
  BY <1>1 DEF Plain, Ordered
<1>2. Onward(blob, etag, blob, etag)
  BY <1>0 DEF Onward
<1>3. CASE Reads(c, s, blob, etag, lease) /\ UNCHANGED <<blob, etag, lease, freed, meddled, late>>
  <2>1. Ordered(s, blob, etag, late)
    <3>1. CASE s.pc = "idle"
      BY <3>1 DEF Ordered
    <3>2. CASE s.pc = "start" /\ ActionOf[c.ticket] = "acquire"
      BY <1>0, <3>2 DEF Ordered
    <3>3. CASE c.pc = "load" /\ s.pc = "probe"
      BY <1>0, <3>3 DEF Ordered
    <3>4. CASE c.pc = "dispatch" /\ s.pc = "hold"
      BY <1>0, <3>4 DEF Ordered
    <3>5. CASE c.pc = "probe" /\ c.etag = etag /\ s.pc # "idle"
      <4>1. /\ blob # NoBlob /\ c.st \in BlobState /\ blob.lifecycle = c.st.lifecycle
            /\ c.st.lifecycle \notin Terminal
        BY <1>0, <3>5 DEF Working, Loaded, Steps
      <4>2. ActionOf[c.ticket] # "acquire" => Reached(blob) /\ c.st.lifecycle \notin Unheld
        BY <1>0, <4>1 DEF Ordered, Reached
      <4>3. CASE s.pc \in {"hold", "dispatch"}
        <5>1. ActionOf[c.ticket] = "acquire" /\ blob.lifecycle = "ACQUIRE_IN_FLIGHT"
          BY <1>3, <3>5, <4>1, <4>3 DEF Reads, Plain
        <5>2. ~Reached(blob)
          BY <5>1 DEF Reached, Unheld
        <5>3. \A q \in late : ~Ends(q)
          BY <1>0, <5>2 DEF Fits
        <5> QED BY <1>0, <4>1, <4>3, <5>1, <5>3 DEF Ordered, Says
      <4>4. CASE s.pc = "update"
        <5>1. ActionOf[c.ticket] = "assert" /\ s.st = Asserted(c)
          BY <1>3, <3>5, <4>4 DEF Reads, Plain
        <5>2. Asserted(c).lifecycle = c.st.lifecycle
          BY <1>0, <4>1, <4>2, <5>1 DEF Asserted, ForCommand, BlobState, Unheld
        <5> QED BY <1>0, <4>1, <4>2, <4>4, <5>1, <5>2 DEF Ordered
      <4>5. CASE s.pc = "lose"
        <5>1. ActionOf[c.ticket] # "acquire" /\ lease = NoLease
          BY <1>3, <3>5, <4>5 DEF Reads, Plain
        <5>2. blob.id # NoLease
          BY <1>0, <4>1, LeaseAssumption DEF BlobState
        <5>3. Says(blob, Ending)
          BY <1>0, <4>1, <4>2, <5>1, <5>2
          DEF Agreed, Says, Ending, Unheld, BlobState, Lifecycles
        <5> QED BY <1>0, <4>2, <4>5, <5>1, <5>3 DEF Ordered
      <4>6. CASE s.pc = "intent"
        <5>1. ActionOf[c.ticket] = "release"
          BY <1>3, <3>5, <4>6 DEF Reads, Plain
        <5> QED BY <1>0, <4>1, <4>2, <4>6, <5>1 DEF Ordered
      <4>7. CASE s.pc = "release"
        <5>1. ActionOf[c.ticket] = "release" /\ c.st.lifecycle = "RELEASE_INTENT"
          BY <1>3, <3>5, <4>7 DEF Reads, Plain
        <5> QED BY <1>0, <4>1, <4>2, <4>7, <5>1 DEF Ordered, Says, Ending
      <4>8. s.pc \in {"hold", "dispatch", "update", "lose", "intent", "release"}
        BY <1>3, <3>5 DEF Reads, Plain
      <4> QED BY <4>3, <4>4, <4>5, <4>6, <4>7, <4>8
    <3> QED BY <1>3, <3>1, <3>2, <3>3, <3>4, <3>5 DEF Reads, Plain
  <2> QED BY <1>0, <1>2, <1>3, <2>1 DEF Orderly
<1>4. CASE /\ c.pc = "create" /\ s.pc = "load"
           /\ UNCHANGED <<blob, etag, lease, freed, meddled, late>>
  <2>1. Ordered(s, blob, etag, late)
    BY <1>0, <1>4 DEF Ordered
  <2> QED BY <1>0, <1>2, <1>4, <2>1 DEF Orderly
<1>5. ASSUME NEW q, Sends(c, q), Lapsed(q), Plain(s)
      PROVE  Orderly(s, blob', etag', late', lease') /\ Onward(blob, etag, blob', etag')
  <2>1. UNCHANGED <<blob, etag, lease>> /\ \A r \in late' : r \in late \/ r = q
    BY <1>5 DEF Lapsed
  <2>2. Fits(q, blob, etag)
    BY <1>0, <1>5, SendsFits
  <2>3. Ordered(s, blob', etag', late')
    BY <1>1, <1>5
  <2> QED BY <1>0, <1>2, <2>1, <2>2, <2>3 DEF Orderly
<1>6. ASSUME NEW q, Sends(c, q), Executed(q), Sent(c, s, q, etag')
      PROVE  Orderly(s, blob', etag', late', lease') /\ Onward(blob, etag, blob', etag')
  <2>1. Fits(q, blob, etag) /\ Accepts(q) /\ Effect(q) /\ late' = late
    BY <1>0, <1>6, SendsFits DEF Executed
  <2>2. Onward(blob, etag, blob', etag') /\ Agreed(blob', lease')
    BY <1>0, <2>1, FittingRequest
  <2>3. \A r \in late : Fits(r, blob', etag')
    BY <1>0, <2>2, FitsOnward
  <2>4. Ordered(s, blob', etag', late)
    <3>1. CASE s.pc = "idle"
      BY <3>1 DEF Ordered
    <3>2. CASE c.pc = "create" /\ s.pc = "start"
      BY <1>0, <3>2 DEF Ordered
    <3>3. CASE c.pc = "start" /\ s.pc = "dispatch"
      <4>1. q.kind = "metadata" /\ q.state.lifecycle = "ACQUIRE_IN_FLIGHT"
        BY <1>6, <3>3 DEF Sends
      <4>2. blob' = q.state /\ q.state # NoBlob /\ c.etag = etag
        BY <1>6, <4>1, ExecutedWrites
      <4>3. ~Reached(blob)
        BY <1>0, <3>3, <4>2 DEF Working, Loaded, Steps, Reached, Unheld
      <4>4. \A r \in late : ~Ends(r)
        BY <1>0, <4>3 DEF Fits
      <4> QED BY <1>0, <3>3, <4>1, <4>2, <4>4 DEF Ordered, Says
    <3>4. CASE c.pc = "dispatch" /\ s.pc = "hold"
      <4>1. blob' = blob
        BY <1>6, <3>4 DEF Sends, Executed, Effect
      <4> QED BY <1>0, <3>4, <4>1 DEF Ordered
    <3>5. CASE c.pc = "intent" /\ s.pc = "release"
      <4>1. q.kind = "metadata" /\ q.state.lifecycle = "RELEASE_INTENT"
        BY <1>6, <3>5 DEF Sends
      <4>2. blob' = q.state /\ q.state # NoBlob
        BY <1>6, <4>1, ExecutedWrites
      <4> QED BY <1>0, <2>2, <3>5, <4>1, <4>2 DEF Ordered, Says, Ending, Reached, Onward
    <3>6. CASE c.pc = "release" /\ s.pc = "finish"
      BY <1>0, <2>2, <3>6 DEF Ordered, Onward
    <3> QED BY <1>6, <3>1, <3>2, <3>3, <3>4, <3>5, <3>6 DEF Sent, Plain
  <2>5. blob' # NoBlob => blob'.run = Run
    BY <2>2 DEF Onward
  <2> QED BY <2>1, <2>2, <2>3, <2>4, <2>5 DEF Orderly
<1> QED BY <1>3, <1>4, <1>5, <1>6 DEF Advances

\* So does a request the service executes late.
LEMMA OrderedLate ==
  ASSUME BrokerInv, NEW i \in Instances, Orderly(call[i], blob, etag, late, lease),
         NEW q \in late, ExecuteLate(q)
  PROVE  /\ Orderly(call[i], blob', etag', late', lease')
         /\ Onward(blob, etag, blob', etag')
<1> DEFINE c == call[i]
<1>0. /\ Working(c, blob, etag, freed) /\ etag \in Nat /\ blob \in BlobState \cup {NoBlob}
      /\ (blob # NoBlob => blob.run = Run) /\ Ordered(c, blob, etag, late)
      /\ (\A r \in late : Fits(r, blob, etag)) /\ Agreed(blob, lease)
      /\ Accepts(q) /\ Effect(q) /\ late' \subseteq late
  BY DEF Orderly, BrokerInv, BrokerTypeOK, CallsAreSound, CallOK, ExecuteLate
<1>1. /\ Onward(blob, etag, blob', etag') /\ Agreed(blob', lease')
      /\ Says(blob, {"ACQUIRE_IN_FLIGHT", "HELD"}) /\ ~Ends(q) =>
           Says(blob', {"ACQUIRE_IN_FLIGHT", "HELD"})
  BY <1>0, FittingRequest
<1>2. \A r \in late' : Fits(r, blob', etag')
  BY <1>0, <1>1, FitsOnward
<1>3. c.pc \in {"update", "intent"} /\ c.etag = etag' => blob' = blob /\ etag' = etag
  BY <1>0, <1>1 DEF Working, Loaded, Steps, Onward
<1>4. Ordered(c, blob', etag', late')
  <2>1. c.pc \in {"dispatch", "hold"} => /\ Says(blob', {"ACQUIRE_IN_FLIGHT", "HELD"})
                                         /\ \A r \in late' : ~Ends(r)
    BY <1>0, <1>1 DEF Ordered
  <2>2. Reached(blob) => Reached(blob')
    BY <1>1 DEF Onward
  <2>3. Says(blob, Ending) => Says(blob', Ending)
    BY <1>1 DEF Onward
  <2> QED BY <1>0, <1>3, <2>1, <2>2, <2>3 DEF Ordered
<1> QED BY <1>1, <1>2, <1>4 DEF Orderly, Onward

\* The broker keeps the order unless somebody meddles.
LEMMA BrokerOrder ==
  ASSUME BrokerInv, Solo, Serve(Instance) \/ Disturb, ~meddled',
         ~meddled => Orderly(call[Instance], blob, etag, late, lease)
  PROVE  /\ ~meddled
         /\ Orderly(call'[Instance], blob', etag', late', lease')
         /\ Onward(blob, etag, blob', etag')
<1> DEFINE c == call[Instance]
<1>0. /\ Instance \in Instances /\ call \in [Instances -> Calls]
  BY PlanAssumption DEF BrokerInv, BrokerTypeOK
<1>1. CASE Serve(Instance)
  <2>1. PICK s : call' = [call EXCEPT ![Instance] = s] /\ Advances(call[Instance], s)
    BY <1>0, <1>1, CallStep
  <2>2. call'[Instance] = s
    BY <1>0, <2>1
  <2>3. ~meddled
    <3>1. meddled' = meddled
      BY <2>1 DEF Advances, Executed, Effect, Lapsed
    <3> QED BY <3>1
  <2> QED BY <1>0, <2>1, <2>2, <2>3, OrderedAdvances
<1>2. ASSUME NEW i \in Instances, Unavailable(i) \/ Crash(i)
      PROVE  /\ ~meddled
             /\ Orderly(call'[Instance], blob', etag', late', lease')
             /\ Onward(blob, etag, blob', etag')
  <2>1. i = Instance
    BY <1>2 DEF Solo, Unavailable, Crash, Idle
  <2>2. PICK out : Answer(Instance, out)
    BY <1>2, <2>1 DEF Unavailable, Crash
  <2>3. PICK s : call' = [call EXCEPT ![Instance] = s] /\ s.pc = "idle"
    BY <2>2, AnswerIs
  <2>4. UNCHANGED <<blob, etag, late, lease, meddled>>
    BY <1>2 DEF Unavailable, Crash
  <2>5. c' = s /\ Ordered(s, blob, etag, late)
    BY <1>0, <2>3 DEF Ordered
  <2>6. ~meddled
    BY <2>4
  <2>7. Onward(blob, etag, blob, etag)
    BY <2>6 DEF Onward, Orderly
  <2> QED BY <2>4, <2>5, <2>6, <2>7 DEF Orderly
<1>3. ASSUME NEW q \in late, ExecuteLate(q)
      PROVE  /\ ~meddled
             /\ Orderly(call'[Instance], blob', etag', late', lease')
             /\ Onward(blob, etag, blob', etag')
  <2>1. call' = call
    BY <1>3 DEF ExecuteLate
  <2>2. meddled' = meddled
    BY <1>3 DEF ExecuteLate, Effect
  <2>3. ~meddled
    BY <2>2
  <2> QED BY <1>0, <1>3, <2>1, <2>3, OrderedLate
<1>4. ~Outside
  BY DEF Outside
<1> QED BY <1>1, <1>2, <1>3, <1>4 DEF Disturb

\* Past the acquire, and once there is something to settle, the lease has been
\* recorded as held.
Recorded(at, f, b) ==
  at \notin {"off", "acquire"} \/ f.recovery \/ {f.terminal, f.pending} # {NoFile} => Reached(b)

OrderInv ==
  ~meddled => /\ Recorded(pc, file, blob)
              /\ Orderly(call[Instance], blob, etag, late, lease)

\* The client works on only when the lease was granted.
LEMMA AloneRecorded ==
  ASSUME RunInv, Alone, Recorded(pc, file, blob)
  PROVE  Recorded(pc', file', blob)
<1>0. file \in Files /\ Filed(pc, file, ck)
  BY DEF RunInv, ClientInv, ClientTypeOK
<1>1. CASE pc \notin {"off", "acquire"}
  BY <1>1 DEF Recorded
<1>2. CASE pc = "acquire"
  <2>1. CASE Answered(TRUE)
    <3>1. call[Instance].pc = "idle" /\ call[Instance].out \in Grants
      BY <1>2, <2>1, AnsweredIs DEF OpOf, SuccessOf, Grants
    <3>2. CallOK(call[Instance], blob, etag, freed)
      BY PlanAssumption DEF RunInv, BrokerInv, CallsAreSound
    <3> QED BY <3>1, <3>2 DEF CallOK, Told, Recorded, Reached
  <2>2. CASE Refused \/ Die
    <3>1. pc' = "off" /\ file' = file
      BY <1>2, <2>2 DEF Refused, Fails, Die, SameFiles
    <3> QED BY <1>2, <3>1 DEF Recorded
  <2>3. Answered(TRUE) \/ Refused \/ Die
    BY <1>2
    DEF Alone, Launch, Runner, Completion, Acquired, Enter, Admitted, Repeated, NextPhase, Loop,
        Refreshed, Reserve, Dispatching, Send, Complete, PhaseRefreshed, PhasePassed, PhaseFailed,
        ReconcileAttempt, RecoverTerminal, Evidence, Attested, WritePending, ClearTerminal,
        Released, ClearRecovery, WriteJson, WriteMarkdown, WriteManifest, ClearPending, ClearLast,
        RunnerException, TornWrite, RunnerSteps
  <2> QED BY <2>1, <2>2, <2>3
<1>3. CASE pc = "off"
  <2>1. Launch
    BY <1>3
    DEF Alone, Refused, Answered, TimedOut, OpOf, Runner, Completion, Acquired, Enter, Admitted,
        Repeated, NextPhase, Loop, Refreshed, Reserve, Dispatching, Send, Complete,
        PhaseRefreshed, PhasePassed, PhaseFailed, ReconcileAttempt, RecoverTerminal, Evidence,
        Attested, WritePending, ClearTerminal, Released, ClearRecovery, WriteJson, WriteMarkdown,
        WriteManifest, ClearPending, ClearLast, RunnerException, TornWrite, RunnerSteps, Die
  <2>2. CASE Reached(blob)
    BY <2>2 DEF Recorded
  <2>3. CASE ~Reached(blob)
    <3>1. ~file.recovery /\ file.terminal = NoFile /\ file.pending = NoFile
      BY <1>3, <2>3 DEF Recorded
    <3>2. pc' \in {"off", "acquire"}
      BY <2>1, <3>1 DEF Launch
    <3>3. /\ ~file'.recovery /\ file'.terminal = NoFile /\ file'.pending = NoFile
      BY <1>0, <2>1, <3>1 DEF Launch, SameFiles, Files
    <3> QED BY <3>2, <3>3 DEF Recorded
  <2> QED BY <2>2, <2>3
<1> QED BY <1>1, <1>2, <1>3

\* A run starts in order.
LEMMA OrderInit == AcceptanceInit => OrderInv
<1> SUFFICES ASSUME AcceptanceInit PROVE OrderInv
  OBVIOUS
<1>1. call[Instance].pc = "idle" /\ blob = NoBlob /\ late = {} /\ lease = NoLease
  BY PlanAssumption DEF AcceptanceInit, BrokerInit, Idle
<1>2. Orderly(call[Instance], blob, etag, late, lease)
  BY <1>1, LeaseAssumption DEF Orderly, Ordered, Agreed, Says
<1>3. Recorded(pc, file, blob)
  BY DEF AcceptanceInit, Recorded
<1> QED BY <1>2, <1>3 DEF OrderInv

\* A request of the client keeps the order.
LEMMA AskOrder ==
  ASSUME RunInv, OrderInv, Ask
  PROVE  OrderInv'
<1>1. PICK t \in Tickets, id \in LeaseIds \cup {NoLease} :
        ActionOf[t] = OpOf[pc] /\ Begin(Instance, Run, t, id)
  <2>1. /\ ticket["acquire"] \in Tickets \cup {NoTicket} /\ ticket["assert"] \in Tickets \cup {NoTicket}
        /\ ticket["release"] \in Tickets \cup {NoTicket}
        /\ \A op \in Ops : ticket[op] # NoTicket => ActionOf[ticket[op]] = op
    BY DEF RunInv, AskingOK, Ops
  <2> QED BY <2>1, AskBegins DEF RunInv, Ops
<1>2. pc' = pc /\ file' = file /\ UNCHANGED <<blob, etag, lease, late, meddled>>
  BY <1>1 DEF Ask, SameFiles, Begin
<1>3. PICK s : /\ call' = [call EXCEPT ![Instance] = s] /\ s.pc \in {"create", "load"}
               /\ s.pc = IF ActionOf[t] = "acquire" THEN "create" ELSE "load"
               /\ s.run = Run /\ s.ticket = t
  BY <1>1, BeginIs
<1>4. call'[Instance] = s
  BY <1>3, PlanAssumption DEF RunInv, BrokerInv, BrokerTypeOK
<1>5. OpOf[pc] # "acquire" => pc \notin {"off", "acquire"}
  BY DEF Ask, OpOf
<1>6. ASSUME ~meddled PROVE Ordered(s, blob, etag, late)
  BY <1>1, <1>3, <1>5, <1>6 DEF Ordered, OrderInv, Recorded
<1> QED BY <1>2, <1>4, <1>6 DEF OrderInv, Orderly

\* Every step keeps the order.
LEMMA OrderNext == RunInv /\ OrderInv /\ [AcceptanceNext]_acceptanceVars => OrderInv'
<1> SUFFICES ASSUME RunInv, OrderInv, [AcceptanceNext]_acceptanceVars PROVE OrderInv'
  OBVIOUS
<1>1. CASE Broker
  <2>1. pc' = pc /\ file' = file /\ (Serve(Instance) \/ Disturb)
    BY <1>1 DEF Broker, clientVars
  <2>2. ASSUME ~meddled'
        PROVE  /\ ~meddled /\ Orderly(call'[Instance], blob', etag', late', lease')
               /\ Onward(blob, etag, blob', etag')
    BY <2>1, <2>2, BrokerOrder DEF RunInv, ReleaseInv, OrderInv
  <2> QED BY <2>1, <2>2 DEF OrderInv, Recorded, Onward
<1>2. CASE Alone
  <2>1. UNCHANGED <<blob, etag, lease, late, call, meddled>>
    BY <1>2, AloneLeaves DEF Service
  <2> QED BY <1>2, <2>1, AloneRecorded DEF OrderInv
<1>3. CASE UNCHANGED acceptanceVars
  BY <1>3 DEF acceptanceVars, brokerVars, clientVars, OrderInv
<1> QED BY <1>1, <1>2, <1>3, AskOrder DEF AcceptanceNext, Alone

-----------------------------------------------------------------------------
(* An undisturbed call succeeds. *)

\* A call c for operation op that nothing has disturbed: its ticket is new to the
\* blob b, and ETag e and lease held are what it counts on.
OnTrack(op, c, b, e, held) ==
  /\ c.pc # "idle" => ActionOf[c.ticket] = op
  /\ c.pc \in {"create", "load"} =>
       /\ b # NoBlob => NonceOf[b.ticket] # NonceOf[c.ticket]
       /\ op = "acquire" => ~Says(b, Ending)
  /\ op = "assert" => Says(b, {"HELD"}) /\ c.pc # "lose"
  /\ c.pc \in {"start", "probe", "hold", "update", "intent", "finish", "lose"} => c.etag = e
  /\ c.pc \in {"start", "dispatch", "finish", "lose"} => held = NoLease
  /\ c.pc \in {"hold", "intent", "release", "update"} => held = c.st.id
  /\ c.pc = "idle" => op # "release" /\ c.out \in SuccessOf[op]

\* The call after it moved on.
LEMMA CallMoves ==
  ASSUME BrokerInv, NEW to \in Steps, NEW st \in BlobState \cup {NoBlob}, NEW e \in Nat,
         Moves(Instance, to, st, e)
  PROVE  /\ call'[Instance].pc = to /\ call'[Instance].st = st /\ call'[Instance].etag = e
         /\ call'[Instance].ticket = call[Instance].ticket
<1>1. PICK s \in Calls : Went(Instance, s, to, st, e)
  BY MovedCall, PlanAssumption
<1>2. call'[Instance] = s
  BY <1>1, PlanAssumption DEF Went, BrokerInv, BrokerTypeOK
<1> QED BY <1>1, <1>2 DEF Went

\* The call after its answer.
LEMMA CallAnswers ==
  ASSUME BrokerInv, NEW out, Answer(Instance, out)
  PROVE  call'[Instance].pc = "idle" /\ call'[Instance].out = out
<1>1. PICK s : call' = [call EXCEPT ![Instance] = s] /\ s.pc = "idle" /\ s.out = out
  BY AnswerIs
<1>2. call'[Instance] = s
  BY <1>1, PlanAssumption DEF BrokerInv, BrokerTypeOK
<1> QED BY <1>1, <1>2

\* Without a fault, a metadata write with the current ETag and lease is accepted.
LEMMA AcceptedWrite ==
  ASSUME BrokerInv, NEW i \in Instances, call[i].pc # "idle", NEW st \in BlobState,
         NEW header \in LeaseIds \cup {NoLease}, NEW ACTION Written,
         SetMetadata(i, st, header, Written), faults \in Nat, faults' = faults,
         call[i].etag = etag, header = lease
  PROVE  /\ Written /\ blob' = st /\ blob' # NoBlob /\ lease' = lease /\ late' = late
         /\ etag' = etag + 1 /\ etag' \in Nat
<1> DEFINE q == Request("metadata", st, call[i].etag, header)
<1>1. etag \in Nat /\ call[i].etag \in Nat /\ st # NoBlob
  BY AtWork, BlobAssumption DEF Calls
<1>2. q.kind = "metadata" /\ q.etag = call[i].etag /\ q.state = st /\ q.header = header
  BY <1>1, RequestFields
<1>3. \/ Accepts(q) /\ Effect(q) /\ Written /\ UNCHANGED <<late, faults>>
      \/ ~Accepts(q)
      \/ faults' = faults + 1
  BY DEF SetMetadata, Exchange
<1> HIDE DEF q
<1>4. Accepts(q) /\ faults' # faults + 1
  BY <1>2 DEF Accepts
<1> QED BY <1>1, <1>2, <1>3, <1>4 DEF Effect

\* What a call at work knows: the lease is absent or its own.
LEMMA TrackFacts ==
  ASSUME BrokerInv, Orderly(call[Instance], blob, etag, late, lease), call[Instance].pc # "idle"
  PROVE  /\ call[Instance].run = Run /\ call[Instance].ticket \in Tickets /\ etag \in Nat
         /\ blob # NoBlob => blob \in BlobState /\ blob.run = Run
         /\ Working(call[Instance], blob, etag, freed) /\ Fresh(call[Instance], blob)
         /\ \/ lease = NoLease
            \/ blob # NoBlob /\ lease = blob.id /\ lease # NoLease /\ blob.lifecycle # "ACQUIRE_INTENT"
         /\ Says(blob, {"HELD"}) => lease = blob.id /\ lease # NoLease
         /\ Ordered(call[Instance], blob, etag, late)
<1>1. Instance \in Instances
  BY PlanAssumption
<1>2. \/ lease = NoLease
      \/ blob # NoBlob /\ lease = blob.id /\ lease # NoLease /\ blob.lifecycle # "ACQUIRE_INTENT"
  BY LeaseAssumption DEF Orderly, Agreed, BrokerInv, BrokerTypeOK, LeaseIsSound
<1>3. Says(blob, {"HELD"}) => lease = blob.id /\ lease # NoLease
  BY LeaseAssumption DEF Orderly, Agreed, Says, BrokerInv, BrokerTypeOK, BlobState
<1> QED BY <1>1, <1>2, <1>3, AtWork DEF Orderly, Ordered

\* A new ticket of the run continues the recorded state.
LEMMA NewTicket ==
  ASSUME NEW b, NEW c, b.run = c.run, NonceOf[b.ticket] # NonceOf[c.ticket]
  PROVE  Relationship(b, c) = "NEXT"
BY DEF Relationship

\* The outcome of a probe that nothing has disturbed.
LEMMA Probed ==
  ASSUME BrokerInv, Orderly(call[Instance], blob, etag, late, lease),
         call[Instance].pc = "probe", call[Instance].etag = etag
  PROVE  LET c == call[Instance] IN
         /\ Classify(c) \in {"HELD", "NOT_PRESENT"}
         /\ Classify(c) = "HELD" => lease = c.st.id
         /\ Classify(c) = "NOT_PRESENT" => lease = NoLease /\ ~Says(blob, {"HELD"})
         /\ blob # NoBlob /\ c.st \in BlobState /\ blob.lifecycle = c.st.lifecycle
<1> DEFINE c == call[Instance]
<1>1. /\ blob # NoBlob /\ c.st \in BlobState /\ c.st.id = blob.id
      /\ blob.lifecycle = c.st.lifecycle
  BY TrackFacts DEF Working, Loaded, Steps
<1>2. Classify(c) \in {"HELD", "NOT_PRESENT"}
  BY <1>1, TrackFacts DEF Classify
<1>3. Classify(c) = "HELD" => lease = c.st.id
  BY DEF Classify
<1>4. Classify(c) = "NOT_PRESENT" => lease = NoLease
  BY DEF Classify
<1> QED BY <1>1, <1>2, <1>3, <1>4, TrackFacts

\* The first two requests of an acquire.
LEMMA TrackCreate ==
  ASSUME BrokerInv, Orderly(call[Instance], blob, etag, late, lease), faults \in Nat,
         faults' = faults, OnTrack("acquire", call[Instance], blob, etag, lease),
         Create(Instance) \/ Start(Instance)
  PROVE  late' = late /\ OnTrack("acquire", call'[Instance], blob', etag', lease')
<1> DEFINE c == call[Instance]
<1>0. Instance \in Instances /\ c.pc \in {"create", "start"}
  BY PlanAssumption DEF Create, Start
<1>1. CASE Create(Instance)
  <2> DEFINE st == [run |-> c.run, ticket |-> c.ticket, id |-> c.id,
                    lifecycle |-> "ACQUIRE_INTENT"]
             q  == Request("create", st, 0, NoLease)
  <2>1. c.pc = "create" /\ ActionOf[c.ticket] = "acquire"
    BY <1>1 DEF Create, OnTrack
  <2>2. st \in BlobState
    BY <2>1, TrackFacts, AtWork, <1>0 DEF Fresh, BlobState, Lifecycles
  <2>3. q.kind = "create" /\ q.state = st
    BY DEF Request
  <2>4. \/ Accepts(q) /\ Effect(q) /\ Goto(Instance, "start", st, etag', FALSE) /\ late' = late
        \/ /\ UNCHANGED <<blob, etag, lease, late>>
           /\ Goto(Instance, "load", NoBlob, 0, FALSE)
        \/ faults' = faults + 1
    BY <1>1 DEF Create, Exchange
  <2> HIDE DEF q, st
  <2>5. CASE Accepts(q) /\ Effect(q) /\ Goto(Instance, "start", st, etag', FALSE) /\ late' = late
    <3>1. blob = NoBlob /\ lease' = lease /\ etag' = etag + 1
      BY <2>3, <2>5 DEF Accepts, Effect
    <3>2. lease = NoLease /\ etag' \in Nat
      BY <1>0, <3>1, TrackFacts
    <3>3. Moves(Instance, "start", st, etag')
      BY <2>5 DEF Moves
    <3>4. call'[Instance].pc = "start" /\ call'[Instance].etag = etag'
          /\ call'[Instance].ticket = c.ticket
      BY <2>2, <3>2, <3>3, CallMoves DEF Steps
    <3> QED BY <2>1, <2>5, <3>1, <3>2, <3>4 DEF OnTrack
  <2>6. CASE /\ UNCHANGED <<blob, etag, lease, late>>
             /\ Goto(Instance, "load", NoBlob, 0, FALSE)
    <3>1. Moves(Instance, "load", NoBlob, 0)
      BY <2>6 DEF Moves
    <3>2. call'[Instance].pc = "load" /\ call'[Instance].ticket = c.ticket
      BY <3>1, CallMoves DEF Steps
    <3> QED BY <2>1, <2>6, <3>2 DEF OnTrack
  <2>7. faults' # faults + 1
    OBVIOUS
  <2> QED BY <2>4, <2>5, <2>6, <2>7
<1>2. CASE Start(Instance)
  <2> DEFINE st == Transition(c.st, "ACQUIRE_IN_FLIGHT")
             Written == Goto(Instance, "dispatch", st, etag', c.resumed)
  <2>1. /\ c.pc = "start" /\ ActionOf[c.ticket] = "acquire" /\ c.etag = etag /\ lease = NoLease
        /\ SetMetadata(Instance, st, NoLease, Written)
    BY <1>2 DEF Start, OnTrack
  <2>2. st \in BlobState
    BY <1>0, <2>1, TrackFacts, ChangedState DEF Working, Loaded, Steps, Lifecycles
  <2> HIDE DEF st
  <2>3. /\ Written /\ late' = late /\ lease' = lease /\ etag' \in Nat
    <3> HIDE DEF Written
    <3> QED BY <1>0, <2>1, <2>2, AcceptedWrite
  <2>4. Moves(Instance, "dispatch", st, etag')
    BY <2>3 DEF Moves
  <2>5. call'[Instance].pc = "dispatch" /\ call'[Instance].ticket = c.ticket
    BY <2>2, <2>3, <2>4, CallMoves DEF Steps
  <2> QED BY <2>1, <2>3, <2>5 DEF OnTrack
<1> QED BY <1>1, <1>2

\* What an acquire makes of the blob it finds.
LEMMA TrackReadAcquire ==
  ASSUME BrokerInv, Orderly(call[Instance], blob, etag, late, lease),
         OnTrack("acquire", call[Instance], blob, etag, lease),
         AcquireLoad(Instance) \/ AcquireProbe(Instance)
  PROVE  late' = late /\ OnTrack("acquire", call'[Instance], blob', etag', lease')
<1> DEFINE c == call[Instance]
<1>0. /\ Instance \in Instances /\ c.pc \in {"load", "probe"} /\ ActionOf[c.ticket] = "acquire"
      /\ UNCHANGED <<blob, etag, lease, late>> /\ etag \in Nat
  BY PlanAssumption, TrackFacts DEF AcquireLoad, AcquireProbe, Read
<1>1. CASE AcquireLoad(Instance)
  <2> DEFINE mine == IF Relationship(blob, c) = "NEXT" THEN ForCommand(blob, c) ELSE blob
  <2>1. /\ c.pc = "load" /\ blob # NoBlob /\ blob \in BlobState /\ blob.run = c.run
        /\ c.ticket \in Tickets
    BY <1>0, <1>1, TrackFacts DEF AcquireLoad, Fresh
  <2>2. Relationship(blob, c) = "NEXT" /\ ~Says(blob, Ending)
    BY <2>1, NewTicket DEF OnTrack
  <2>3. mine \in BlobState
    BY <2>1, ChangedState
  <2>4. \/ blob.lifecycle = "ACQUIRE_INTENT" /\ Goto(Instance, "start", mine, etag, TRUE)
        \/ Goto(Instance, "probe", blob, etag, TRUE)
    BY <1>1, <2>1, <2>2 DEF AcquireLoad, Says, Ending
  <2> HIDE DEF mine
  <2>5. CASE blob.lifecycle = "ACQUIRE_INTENT" /\ Goto(Instance, "start", mine, etag, TRUE)
    <3>1. Moves(Instance, "start", mine, etag)
      BY <2>5 DEF Moves
    <3>2. /\ call'[Instance].pc = "start" /\ call'[Instance].ticket = c.ticket
          /\ call'[Instance].etag = etag
      BY <1>0, <2>3, <3>1, CallMoves DEF Steps
    <3>3. lease = NoLease
      BY <1>0, <2>5, TrackFacts
    <3> QED BY <1>0, <3>2, <3>3 DEF OnTrack
  <2>6. CASE Goto(Instance, "probe", blob, etag, TRUE)
    <3>1. Moves(Instance, "probe", blob, etag)
      BY <2>6 DEF Moves
    <3>2. /\ call'[Instance].pc = "probe" /\ call'[Instance].ticket = c.ticket
          /\ call'[Instance].etag = etag
      BY <1>0, <2>1, <3>1, CallMoves DEF Steps
    <3> QED BY <1>0, <3>2 DEF OnTrack
  <2> QED BY <2>4, <2>5, <2>6
<1>2. CASE AcquireProbe(Instance)
  <2> DEFINE mine == IF Relationship(c.st, c) = "NEXT" THEN ForCommand(c.st, c) ELSE c.st
  <2>1. c.pc = "probe" /\ c.etag = etag /\ c.ticket \in Tickets
    BY <1>0, <1>2, TrackFacts DEF AcquireProbe, OnTrack
  <2>2. /\ Classify(c) \in {"HELD", "NOT_PRESENT"}
        /\ Classify(c) = "HELD" => lease = c.st.id
        /\ Classify(c) = "NOT_PRESENT" => lease = NoLease /\ ~Says(blob, {"HELD"})
        /\ blob # NoBlob /\ c.st \in BlobState /\ blob.lifecycle = c.st.lifecycle
    BY <2>1, Probed
  <2>3. mine \in BlobState /\ mine.id = c.st.id
    BY <2>1, <2>2, ChangedState
  <2>4. \/ Answer(Instance, "ALREADY_ACQUIRED")
        \/ Classify(c) = "HELD" /\ Goto(Instance, "hold", mine, c.etag, TRUE)
        \/ Classify(c) = "NOT_PRESENT" /\ Goto(Instance, "dispatch", mine, c.etag, TRUE)
    BY <1>2, <2>2 DEF AcquireProbe, Says
  <2> HIDE DEF mine
  <2>5. CASE Answer(Instance, "ALREADY_ACQUIRED")
    <3>1. call'[Instance].pc = "idle" /\ call'[Instance].out = "ALREADY_ACQUIRED"
      BY <2>5, CallAnswers
    <3> QED BY <1>0, <3>1 DEF OnTrack, SuccessOf
  <2>6. CASE Classify(c) = "HELD" /\ Goto(Instance, "hold", mine, c.etag, TRUE)
    <3>1. Moves(Instance, "hold", mine, etag)
      BY <2>1, <2>6 DEF Moves
    <3>2. /\ call'[Instance].pc = "hold" /\ call'[Instance].ticket = c.ticket
          /\ call'[Instance].etag = etag /\ call'[Instance].st.id = lease
      BY <1>0, <2>2, <2>3, <2>6, <3>1, CallMoves DEF Steps
    <3> QED BY <1>0, <3>2 DEF OnTrack
  <2>7. CASE Classify(c) = "NOT_PRESENT" /\ Goto(Instance, "dispatch", mine, c.etag, TRUE)
    <3>1. Moves(Instance, "dispatch", mine, etag)
      BY <2>1, <2>7 DEF Moves
    <3>2. /\ call'[Instance].pc = "dispatch" /\ call'[Instance].ticket = c.ticket
      BY <1>0, <2>3, <3>1, CallMoves DEF Steps
    <3> QED BY <1>0, <2>2, <2>7, <3>2 DEF OnTrack
  <2> QED BY <2>4, <2>5, <2>6, <2>7
<1> QED BY <1>1, <1>2

\* The acquire itself, and its record.
LEMMA TrackDispatch ==
  ASSUME BrokerInv, Orderly(call[Instance], blob, etag, late, lease), faults \in Nat,
         faults' = faults, OnTrack("acquire", call[Instance], blob, etag, lease),
         Dispatch(Instance) \/ Hold(Instance)
  PROVE  late' = late /\ OnTrack("acquire", call'[Instance], blob', etag', lease')
<1> DEFINE c == call[Instance]
<1>0. /\ Instance \in Instances /\ c.pc \in {"dispatch", "hold"} /\ ActionOf[c.ticket] = "acquire"
      /\ etag \in Nat /\ c.st \in BlobState /\ c.st.id \in LeaseIds
  <2>1. Instance \in Instances /\ c.pc \in {"dispatch", "hold"}
    BY PlanAssumption DEF Dispatch, Hold
  <2>2. c.st \in BlobState /\ etag \in Nat
    BY <2>1, TrackFacts DEF Working, Loaded, Steps
  <2> QED BY <2>1, <2>2 DEF OnTrack, BlobState
<1>1. CASE Dispatch(Instance)
  <2> DEFINE q == Request("acquire", c.st, 0, c.st.id)
             Taken == Goto(Instance, "hold", c.st, etag', c.resumed)
  <2>1. c.pc = "dispatch" /\ lease = NoLease /\ lease # c.st.id
    BY <1>0, <1>1, LeaseAssumption DEF Dispatch, OnTrack
  <2>2. q.kind = "acquire" /\ q.header = c.st.id
    BY DEF Request
  <2>3. \/ Effect(q) /\ Taken /\ late' = late
        \/ ~Accepts(q)
        \/ faults' = faults + 1
    BY <1>1, <2>1 DEF Dispatch, Exchange
  <2> HIDE DEF q
  <2>4. Accepts(q)
    BY <2>1, <2>2 DEF Accepts
  <2>5. Effect(q) /\ Taken /\ late' = late
    BY <2>3, <2>4
  <2>6. lease' = c.st.id /\ etag' = etag
    BY <2>2, <2>5 DEF Effect
  <2>7. Moves(Instance, "hold", c.st, etag')
    BY <2>5 DEF Moves
  <2>8. /\ call'[Instance].pc = "hold" /\ call'[Instance].ticket = c.ticket
        /\ call'[Instance].etag = etag' /\ call'[Instance].st = c.st
    BY <1>0, <2>6, <2>7, CallMoves DEF Steps
  <2> QED BY <1>0, <2>5, <2>6, <2>8 DEF OnTrack
<1>2. CASE Hold(Instance)
  <2> DEFINE st == Transition(c.st, "HELD")
             out == IF c.resumed THEN "ALREADY_ACQUIRED" ELSE "ACQUIRED"
             Written == Answer(Instance, out)
  <2>1. /\ c.pc = "hold" /\ c.etag = etag /\ lease = c.st.id
        /\ SetMetadata(Instance, st, c.st.id, Written)
    BY <1>2 DEF Hold, OnTrack
  <2>2. st \in BlobState
    BY <1>0, ChangedState DEF Lifecycles
  <2>3. out \in SuccessOf["acquire"]
    BY DEF SuccessOf
  <2> HIDE DEF st, out
  <2>4. Written /\ late' = late
    <3> HIDE DEF Written
    <3> QED BY <1>0, <2>1, <2>2, AcceptedWrite
  <2>5. call'[Instance].pc = "idle" /\ call'[Instance].out = out
    BY <2>4, CallAnswers
  <2> QED BY <2>3, <2>4, <2>5 DEF OnTrack
<1> QED BY <1>1, <1>2

\* An assertion of a held lease.
LEMMA TrackAssert ==
  ASSUME BrokerInv, Orderly(call[Instance], blob, etag, late, lease), faults \in Nat,
         faults' = faults, OnTrack("assert", call[Instance], blob, etag, lease),
         AssertLoad(Instance) \/ AssertProbe(Instance) \/ Update(Instance)
  PROVE  late' = late /\ OnTrack("assert", call'[Instance], blob', etag', lease')
<1> DEFINE c == call[Instance]
<1>0. /\ Instance \in Instances /\ c.pc \in {"load", "probe", "update"}
      /\ ActionOf[c.ticket] = "assert" /\ Says(blob, {"HELD"}) /\ c.ticket \in Tickets
      /\ etag \in Nat /\ blob # NoBlob /\ blob.lifecycle = "HELD" /\ blob \in BlobState
      /\ blob.run = c.run
  <2>1. Instance \in Instances /\ c.pc \in {"load", "probe", "update"}
    BY PlanAssumption DEF AssertLoad, AssertProbe, Update
  <2>2. ActionOf[c.ticket] = "assert" /\ Says(blob, {"HELD"})
    BY <2>1 DEF OnTrack
  <2> QED BY <2>1, <2>2, TrackFacts DEF Says
<1>1. CASE AssertLoad(Instance)
  <2>1. c.pc = "load" /\ UNCHANGED <<blob, etag, lease, late>>
    BY <1>1 DEF AssertLoad, Read
  <2>2. Relationship(blob, c) = "NEXT"
    BY <1>0, <2>1, NewTicket DEF OnTrack
  <2>3. Goto(Instance, "probe", blob, etag, FALSE)
    BY <1>0, <1>1, <2>2 DEF AssertLoad, Terminal
  <2>4. Moves(Instance, "probe", blob, etag)
    BY <2>3 DEF Moves
  <2>5. /\ call'[Instance].pc = "probe" /\ call'[Instance].ticket = c.ticket
        /\ call'[Instance].etag = etag
    BY <1>0, <2>4, CallMoves DEF Steps
  <2> QED BY <1>0, <2>1, <2>5 DEF OnTrack
<1>2. CASE AssertProbe(Instance)
  <2>1. c.pc = "probe" /\ c.etag = etag /\ UNCHANGED <<blob, etag, lease, late>>
    BY <1>2 DEF AssertProbe, Read, OnTrack
  <2>2. /\ Classify(c) = "HELD" /\ lease = c.st.id
        /\ c.st \in BlobState /\ blob.lifecycle = c.st.lifecycle
    BY <1>0, <2>1, Probed
  <2>3. \/ Answer(Instance, "HELD")
        \/ Goto(Instance, "update", Asserted(c), c.etag, FALSE)
    BY <1>2, <2>2 DEF AssertProbe
  <2>4. CASE Answer(Instance, "HELD")
    <3>1. call'[Instance].pc = "idle" /\ call'[Instance].out = "HELD"
      BY <2>4, CallAnswers
    <3> QED BY <1>0, <2>1, <3>1 DEF OnTrack, SuccessOf
  <2>5. CASE Goto(Instance, "update", Asserted(c), c.etag, FALSE)
    <3>1. Moves(Instance, "update", Asserted(c), etag)
      BY <2>1, <2>5 DEF Moves
    <3>2. Asserted(c) \in BlobState /\ Asserted(c).id = c.st.id
      BY <1>0, <2>2, ChangedState DEF Asserted
    <3>3. /\ call'[Instance].pc = "update" /\ call'[Instance].ticket = c.ticket
          /\ call'[Instance].etag = etag /\ call'[Instance].st.id = lease
      BY <1>0, <2>2, <3>1, <3>2, CallMoves DEF Steps
    <3> QED BY <1>0, <2>1, <3>3 DEF OnTrack
  <2> QED BY <2>3, <2>4, <2>5
<1>3. CASE Update(Instance)
  <2> DEFINE Written == Answer(Instance, "HELD")
  <2>1. /\ c.pc = "update" /\ c.etag = etag /\ lease = c.st.id
        /\ SetMetadata(Instance, c.st, c.st.id, Written)
    BY <1>3 DEF Update, OnTrack
  <2>2. c.st \in BlobState /\ c.st.id \in LeaseIds /\ c.st.lifecycle = "HELD"
    <3>1. c.st \in BlobState
      BY <2>1, TrackFacts DEF Working, Loaded, Steps
    <3> QED BY <1>0, <2>1, <3>1, TrackFacts DEF Ordered, BlobState
  <2>3. Written /\ blob' = c.st /\ blob' # NoBlob /\ late' = late
    <3> HIDE DEF Written
    <3> QED BY <1>0, <2>1, <2>2, AcceptedWrite
  <2>4. call'[Instance].pc = "idle" /\ call'[Instance].out = "HELD"
    BY <2>3, CallAnswers
  <2> QED BY <2>2, <2>3, <2>4 DEF OnTrack, SuccessOf, Says
<1> QED BY <1>1, <1>2, <1>3

\* What a release makes of the blob it finds.
LEMMA TrackReadRelease ==
  ASSUME BrokerInv, Orderly(call[Instance], blob, etag, late, lease),
         OnTrack("release", call[Instance], blob, etag, lease),
         ReleaseLoad(Instance) \/ ReleaseProbe(Instance)
  PROVE  /\ late' = late
         /\ Says(blob', Terminal) \/ OnTrack("release", call'[Instance], blob', etag', lease')
<1> DEFINE c == call[Instance]
<1>0. /\ Instance \in Instances /\ c.pc \in {"load", "probe"} /\ ActionOf[c.ticket] = "release"
      /\ UNCHANGED <<blob, etag, lease, late>> /\ etag \in Nat /\ c.ticket \in Tickets
      /\ Reached(blob) /\ blob # NoBlob /\ blob \in BlobState /\ blob.run = c.run
  <2>1. /\ Instance \in Instances /\ c.pc \in {"load", "probe"} /\ ActionOf[c.ticket] = "release"
        /\ UNCHANGED <<blob, etag, lease, late>>
    BY PlanAssumption DEF ReleaseLoad, ReleaseProbe, Read
  <2>2. Reached(blob)
    BY <2>1, TrackFacts DEF Ordered
  <2> QED BY <2>1, <2>2, TrackFacts DEF Reached
<1>1. CASE ReleaseLoad(Instance)
  <2>1. c.pc = "load" /\ Relationship(blob, c) = "NEXT"
    BY <1>0, <1>1, NewTicket DEF ReleaseLoad, OnTrack
  <2>2. Says(blob, Terminal) \/ Goto(Instance, "probe", blob, etag, FALSE)
    BY <1>0, <1>1, <2>1 DEF ReleaseLoad, Says, Terminal, Reached, Unheld
  <2>3. CASE Goto(Instance, "probe", blob, etag, FALSE)
    <3>1. Moves(Instance, "probe", blob, etag)
      BY <2>3 DEF Moves
    <3>2. /\ call'[Instance].pc = "probe" /\ call'[Instance].ticket = c.ticket
          /\ call'[Instance].etag = etag
      BY <1>0, <3>1, CallMoves DEF Steps
    <3> QED BY <1>0, <3>2 DEF OnTrack
  <2> QED BY <1>0, <2>2, <2>3
<1>2. CASE ReleaseProbe(Instance)
  <2>1. c.pc = "probe" /\ c.etag = etag
    BY <1>2 DEF ReleaseProbe, OnTrack
  <2>2. /\ Classify(c) \in {"HELD", "NOT_PRESENT"}
        /\ Classify(c) = "HELD" => lease = c.st.id
        /\ Classify(c) = "NOT_PRESENT" => lease = NoLease
        /\ c.st \in BlobState
    BY <2>1, Probed
  <2>3. \/ Classify(c) = "NOT_PRESENT" /\ Goto(Instance, "lose", c.st, c.etag, FALSE)
        \/ Classify(c) = "HELD" /\ Goto(Instance, "intent", ForCommand(c.st, c), c.etag, FALSE)
        \/ Classify(c) = "HELD" /\ Goto(Instance, "release", c.st, c.etag, FALSE)
    BY <1>2, <2>2 DEF ReleaseProbe
  <2>4. CASE Classify(c) = "NOT_PRESENT" /\ Goto(Instance, "lose", c.st, c.etag, FALSE)
    <3>1. Moves(Instance, "lose", c.st, etag)
      BY <2>1, <2>4 DEF Moves
    <3>2. /\ call'[Instance].pc = "lose" /\ call'[Instance].ticket = c.ticket
          /\ call'[Instance].etag = etag
      BY <1>0, <2>2, <3>1, CallMoves DEF Steps
    <3> QED BY <1>0, <2>2, <2>4, <3>2 DEF OnTrack
  <2>5. CASE Classify(c) = "HELD" /\ Goto(Instance, "intent", ForCommand(c.st, c), c.etag, FALSE)
    <3>1. Moves(Instance, "intent", ForCommand(c.st, c), etag)
      BY <2>1, <2>5 DEF Moves
    <3>2. ForCommand(c.st, c) \in BlobState /\ ForCommand(c.st, c).id = c.st.id
      BY <1>0, <2>2, ChangedState
    <3>3. /\ call'[Instance].pc = "intent" /\ call'[Instance].ticket = c.ticket
          /\ call'[Instance].etag = etag /\ call'[Instance].st.id = lease
      BY <1>0, <2>2, <2>5, <3>1, <3>2, CallMoves DEF Steps
    <3> QED BY <1>0, <3>3 DEF OnTrack
  <2>6. CASE Classify(c) = "HELD" /\ Goto(Instance, "release", c.st, c.etag, FALSE)
    <3>1. Moves(Instance, "release", c.st, etag)
      BY <2>1, <2>6 DEF Moves
    <3>2. /\ call'[Instance].pc = "release" /\ call'[Instance].ticket = c.ticket
          /\ call'[Instance].st.id = lease
      BY <1>0, <2>2, <2>6, <3>1, CallMoves DEF Steps
    <3> QED BY <1>0, <3>2 DEF OnTrack
  <2> QED BY <2>3, <2>4, <2>5, <2>6
<1> QED BY <1>1, <1>2

\* The release itself, and its records.
LEMMA TrackRelease ==
  ASSUME BrokerInv, Orderly(call[Instance], blob, etag, late, lease), faults \in Nat,
         faults' = faults, OnTrack("release", call[Instance], blob, etag, lease),
         ReleaseIntent(Instance) \/ Release(Instance) \/ Finish(Instance) \/ Lose(Instance)
  PROVE  /\ late' = late
         /\ Says(blob', Terminal) \/ OnTrack("release", call'[Instance], blob', etag', lease')
<1> DEFINE c == call[Instance]
<1>0. /\ Instance \in Instances /\ c.pc \in {"intent", "release", "finish", "lose"}
      /\ ActionOf[c.ticket] = "release" /\ etag \in Nat /\ c.st \in BlobState
      /\ c.st.id \in LeaseIds
  <2>1. Instance \in Instances /\ c.pc \in {"intent", "release", "finish", "lose"}
    BY PlanAssumption DEF ReleaseIntent, Release, Finish, Lose
  <2>2. c.st \in BlobState /\ etag \in Nat
    BY <2>1, TrackFacts DEF Working, Loaded, Steps
  <2> QED BY <2>1, <2>2 DEF OnTrack, BlobState
<1>1. \A l \in Lifecycles : /\ Transition(c.st, l) \in BlobState
                            /\ Transition(c.st, l).id = c.st.id
                            /\ Transition(c.st, l).lifecycle = l
  BY <1>0, ChangedState
<1>2. CASE ReleaseIntent(Instance)
  <2> DEFINE st == Transition(c.st, "RELEASE_INTENT")
             Written == Goto(Instance, "release", st, etag', FALSE)
  <2>1. /\ c.pc = "intent" /\ c.etag = etag /\ lease = c.st.id
        /\ SetMetadata(Instance, st, st.id, Written)
    BY <1>2 DEF ReleaseIntent, OnTrack
  <2>2. st \in BlobState /\ st.id = c.st.id
    BY <1>1 DEF Lifecycles
  <2> HIDE DEF st
  <2>3. Written /\ late' = late /\ lease' = lease /\ etag' \in Nat
    <3> HIDE DEF Written
    <3> QED BY <1>0, <2>1, <2>2, AcceptedWrite
  <2>4. Moves(Instance, "release", st, etag')
    BY <2>3 DEF Moves
  <2>5. /\ call'[Instance].pc = "release" /\ call'[Instance].ticket = c.ticket
        /\ call'[Instance].st = st
    BY <2>2, <2>3, <2>4, CallMoves DEF Steps
  <2> QED BY <1>0, <2>1, <2>2, <2>3, <2>5 DEF OnTrack
<1>3. CASE Release(Instance)
  <2> DEFINE q == Request("release", c.st, 0, c.st.id)
             Taken == Goto(Instance, "finish", c.st, etag', FALSE)
  <2>1. c.pc = "release" /\ lease = c.st.id
    BY <1>3 DEF Release, OnTrack
  <2>2. q.kind = "release" /\ q.header = c.st.id
    BY DEF Request
  <2>3. \/ Effect(q) /\ Taken /\ late' = late
        \/ ~Accepts(q)
        \/ faults' = faults + 1
    BY <1>3 DEF Release, Exchange
  <2> HIDE DEF q
  <2>4. Accepts(q) /\ faults' # faults + 1
    BY <2>1, <2>2 DEF Accepts
  <2>5. Effect(q) /\ Taken /\ late' = late
    BY <2>3, <2>4
  <2>6. lease' = NoLease /\ etag' = etag
    BY <2>2, <2>5 DEF Effect
  <2>7. Moves(Instance, "finish", c.st, etag')
    BY <2>5 DEF Moves
  <2>8. /\ call'[Instance].pc = "finish" /\ call'[Instance].ticket = c.ticket
        /\ call'[Instance].etag = etag'
    BY <1>0, <2>6, <2>7, CallMoves DEF Steps
  <2> QED BY <1>0, <2>5, <2>6, <2>8 DEF OnTrack
<1>4. ASSUME NEW l \in Terminal, NEW out, c.pc \in {"finish", "lose"},
             SetMetadata(Instance, Transition(c.st, l), NoLease, Answer(Instance, out))
      PROVE  late' = late /\ Says(blob', Terminal)
  <2> DEFINE st == Transition(c.st, l)
             Written == Answer(Instance, out)
  <2>1. c.etag = etag /\ lease = NoLease
    BY <1>4 DEF OnTrack
  <2>2. st \in BlobState /\ st.lifecycle = l
    BY <1>1, <1>4 DEF Lifecycles, Terminal
  <2> HIDE DEF st, Written
  <2>3. late' = late /\ blob' = st /\ blob' # NoBlob
    BY <1>0, <1>4, <2>1, <2>2, AcceptedWrite DEF st, Written
  <2> QED BY <2>2, <2>3 DEF Says
<1>5. CASE Finish(Instance)
  BY <1>4, <1>5 DEF Finish, Terminal
<1>6. CASE Lose(Instance)
  BY <1>4, <1>6 DEF Lose, Terminal
<1> QED BY <1>2, <1>3, <1>5, <1>6

\* Every step of an undisturbed call: it stays on its track, or settles the run.
LEMMA TrackServes ==
  ASSUME BrokerInv, Orderly(call[Instance], blob, etag, late, lease), faults \in Nat,
         faults' = faults, Serve(Instance), NEW op \in Ops,
         OnTrack(op, call[Instance], blob, etag, lease)
  PROVE  /\ late' = late
         /\ Says(blob', Terminal) \/ OnTrack(op, call'[Instance], blob', etag', lease')
<1> DEFINE c == call[Instance]
<1>0. c.pc # "idle"
  BY DEF Serve, Create, AcquireLoad, Start, Dispatch, Hold, AcquireProbe, AssertLoad, AssertProbe,
         Update, Lose, ReleaseLoad, ReleaseProbe, ReleaseIntent, Release, Finish
<1>1. ActionOf[c.ticket] = op /\ Ordered(c, blob, etag, late)
  BY <1>0 DEF OnTrack, Orderly
<1>2. /\ Create(Instance) \/ Start(Instance) \/ AcquireLoad(Instance) \/ AcquireProbe(Instance)
           \/ Dispatch(Instance) \/ Hold(Instance) => op = "acquire"
      /\ AssertLoad(Instance) \/ AssertProbe(Instance) \/ Update(Instance) => op = "assert"
      /\ ReleaseLoad(Instance) \/ ReleaseProbe(Instance) \/ ReleaseIntent(Instance)
           \/ Release(Instance) \/ Finish(Instance) => op = "release"
      /\ Lose(Instance) => op # "acquire" /\ op # "assert"
  BY <1>1 DEF Ordered, OnTrack, Create, AcquireLoad, Start, Dispatch, Hold, AcquireProbe,
              AssertLoad, AssertProbe, Update, Lose, ReleaseLoad, ReleaseProbe, ReleaseIntent,
              Release, Finish
<1>3. CASE op = "acquire"
  BY <1>2, <1>3, TrackCreate, TrackReadAcquire, TrackDispatch DEF Serve
<1>4. CASE op = "assert"
  BY <1>2, <1>4, TrackAssert DEF Serve
<1>5. CASE op = "release"
  BY <1>2, <1>5, TrackReadRelease, TrackRelease DEF Serve
<1> QED BY <1>3, <1>4, <1>5 DEF Ops

-----------------------------------------------------------------------------
(* The launches are paid for by the faults. *)

\* A launch that nothing has disturbed: the client at step at has no ticket but
\* the one it waits with, and its call is on track.
Undisturbed(at, w, tickets, c, b, e, held) ==
  /\ at \notin {"off", "except"}
  /\ \A op \in Ops : (w /\ op = OpOf[at]) \/ tickets[op] = NoTicket
  /\ w => at \in DOMAIN OpOf /\ OnTrack(OpOf[at], c, b, e, held)

\* Each fault pays for two launches; a request that is still in the network counts
\* as one.  At most one launch is not paid for, and that one is undisturbed.
Paid == launches + Cardinality(late) <= 2 * faults

\* A checkpoint that no launch can restore: every launch ends as it began.
Wedged ==
  /\ ck # NoState /\ ~Restorable(ck, safety.committed)
  /\ pc \in Unstarted \cup {"off", "except"}
  /\ Empty(file) /\ ~file.recovery

LaunchInv ==
  /\ faults \in Nat /\ launches \in Nat /\ IsFiniteSet(late)
  /\ \/ meddled \/ Settled \/ Wedged \/ Paid
     \/ /\ launches + Cardinality(late) = 2 * faults + 1
        /\ Undisturbed(pc, waiting, ticket, call[Instance], blob, etag, lease)

\* A run is settled when the broker says so.
LEMMA SettledIs ==
  ASSUME RunInv
  PROVE  Settled <=> Says(blob, Terminal)
BY DEF RunInv, ReleaseInv, Closed, Settled, Says, Terminal

\* The first launch is not paid for.
LEMMA LaunchInit == AcceptanceInit => LaunchInv
<1> SUFFICES ASSUME AcceptanceInit PROVE LaunchInv
  OBVIOUS
<1>1. faults = 0 /\ launches = 0 /\ late = {}
  BY DEF AcceptanceInit, BrokerInit
<1>2. IsFiniteSet(late) /\ Cardinality(late) = 0
  BY <1>1, FS_EmptySet
<1> QED BY <1>1, <1>2 DEF LaunchInv, Paid

\* What a step of a call costs.
LEMMA ServeCosts ==
  ASSUME NEW i, Serve(i)
  PROVE  \/ faults' = faults /\ late' = late
         \/ faults' = faults + 1 /\ \E q : late' = late \cup {q}
<1>1. CASE Read
  BY <1>1 DEF Read
<1>2. CASE Start(i) \/ Hold(i) \/ Update(i) \/ Lose(i) \/ ReleaseIntent(i) \/ Finish(i)
  BY <1>2 DEF Start, Hold, Update, Lose, ReleaseIntent, Finish, SetMetadata, Exchange
<1>3. CASE Create(i) \/ Dispatch(i) \/ Release(i)
  BY <1>1, <1>3 DEF Create, Dispatch, Release, Exchange
<1> QED
  BY <1>1, <1>2, <1>3
  DEF Serve, AcquireLoad, AcquireProbe, AssertLoad, AssertProbe, ReleaseLoad, ReleaseProbe

\* A fault pays for what it does.
LEMMA FaultPays ==
  ASSUME LaunchInv, ~meddled, ~Settled, ~Wedged, faults' = faults + 1, launches' = launches,
         late' = late \/ \E q : late' = late \cup {q}
  PROVE  LaunchInv'
<1>0. /\ faults \in Nat /\ launches \in Nat /\ IsFiniteSet(late) /\ Cardinality(late) \in Nat
      /\ launches + Cardinality(late) <= 2 * faults + 1
  BY FS_CardinalityType DEF LaunchInv, Paid
<1>1. /\ IsFiniteSet(late') /\ Cardinality(late') \in Nat
      /\ Cardinality(late') <= Cardinality(late) + 1
  <2>1. CASE late' = late
    BY <1>0, <2>1
  <2>2. CASE \E q : late' = late \cup {q}
    <3>1. PICK q : late' = late \cup {q}
      BY <2>2
    <3>2. /\ IsFiniteSet(late')
          /\ Cardinality(late') \in {Cardinality(late), Cardinality(late) + 1}
      BY <1>0, <3>1, FS_AddElement
    <3> QED BY <1>0, <3>2
  <2> QED BY <2>1, <2>2
<1>2. Paid'
  BY <1>0, <1>1 DEF Paid
<1> QED BY <1>0, <1>1, <1>2 DEF LaunchInv

\* So does a request that was executed late.
LEMMA LatePays ==
  ASSUME LaunchInv, ~meddled, ~Settled, ~Wedged, faults' = faults, launches' = launches,
         NEW q \in late, late' = late \ {q}
  PROVE  LaunchInv'
<1>0. /\ faults \in Nat /\ launches \in Nat /\ IsFiniteSet(late) /\ Cardinality(late) \in Nat
      /\ launches + Cardinality(late) <= 2 * faults + 1
  BY FS_CardinalityType DEF LaunchInv, Paid
<1>1. IsFiniteSet(late') /\ Cardinality(late') = Cardinality(late) - 1
  BY <1>0, FS_RemoveElement
<1>2. Paid'
  BY <1>0, <1>1 DEF Paid
<1> QED BY <1>0, <1>1, <1>2 DEF LaunchInv

\* A step without a fault keeps the account, if it keeps an undisturbed launch so.
LEMMA FreeStep ==
  ASSUME LaunchInv, ~meddled, ~Settled, ~Wedged, UNCHANGED <<faults, launches, late>>,
         Undisturbed(pc, waiting, ticket, call[Instance], blob, etag, lease) =>
           Settled' \/ Undisturbed(pc, waiting, ticket, call[Instance], blob, etag, lease)'
  PROVE  LaunchInv'
BY DEF LaunchInv, Paid

\* The broker keeps the account.
LEMMA BrokerLaunches ==
  ASSUME RunInv, OrderInv, LaunchInv, Broker, ~meddled', ~Settled, ~Settled', ~Wedged
  PROVE  LaunchInv'
<1>0. /\ (Serve(Instance) \/ Disturb) /\ UNCHANGED <<pc, waiting, ticket, launches>>
      /\ BrokerInv /\ Solo /\ faults \in Nat /\ ~meddled
      /\ Orderly(call[Instance], blob, etag, late, lease)
  <2>1. Serve(Instance) \/ Disturb
    BY DEF Broker
  <2>2. ~meddled
    BY <2>1, BrokerOrder DEF RunInv, ReleaseInv, OrderInv
  <2> QED BY <2>1, <2>2 DEF Broker, clientVars, RunInv, ReleaseInv, LaunchInv, OrderInv
<1>1. CASE Serve(Instance)
  <2>1. CASE faults' = faults /\ late' = late
    <3>1. ASSUME Undisturbed(pc, waiting, ticket, call[Instance], blob, etag, lease)
          PROVE  Settled' \/ Undisturbed(pc', waiting', ticket', call'[Instance], blob', etag', lease')
      <4>1. CASE ~waiting
        BY <1>0, <3>1, <4>1 DEF Undisturbed
      <4>2. CASE waiting
        <5>1. pc \in DOMAIN OpOf /\ OnTrack(OpOf[pc], call[Instance], blob, etag, lease)
          BY <3>1, <4>2 DEF Undisturbed
        <5>2. OpOf[pc] \in Ops
          BY <5>1 DEF OpOf, Ops
        <5>3. Says(blob', Terminal)
              \/ OnTrack(OpOf[pc], call'[Instance], blob', etag', lease')
          BY <1>0, <1>1, <2>1, <5>1, <5>2, TrackServes
        <5>4. Says(blob', Terminal) => Settled'
          BY DEF Says, Settled
        <5> QED BY <1>0, <3>1, <5>3, <5>4 DEF Undisturbed
      <4> QED BY <4>1, <4>2
    <3> QED BY <1>0, <2>1, <3>1, FreeStep
  <2>2. CASE faults' = faults + 1 /\ \E q : late' = late \cup {q}
    BY <1>0, <2>2, FaultPays
  <2> QED BY <1>1, <2>1, <2>2, ServeCosts
<1>2. ASSUME NEW i \in Instances, Unavailable(i) \/ Crash(i)
      PROVE  LaunchInv'
  <2>1. faults' = faults + 1 /\ late' = late
    BY <1>2 DEF Unavailable, Crash, Fault
  <2> QED BY <1>0, <2>1, FaultPays
<1>3. ASSUME NEW q \in late, ExecuteLate(q)
      PROVE  LaunchInv'
  <2>1. faults' = faults /\ late' = late \ {q}
    BY <1>3 DEF ExecuteLate
  <2> QED BY <1>0, <2>1, LatePays
<1>4. ~Outside
  BY DEF Outside
<1> QED BY <1>0, <1>1, <1>2, <1>3, <1>4 DEF Disturb

\* A launch asks with a new ticket, in a state of the blob that fits.
LEMMA AskLaunches ==
  ASSUME RunInv, LeaseInv, OrderInv, LaunchInv, Ask, ~meddled', ~Settled, ~Wedged
  PROVE  LaunchInv'
<1> DEFINE op == OpOf[pc]
<1>1. PICK t \in Tickets, id \in LeaseIds \cup {NoLease} :
        /\ ActionOf[t] = OpOf[pc]
        /\ Begin(Instance, Run, t, id) /\ ticket' = [ticket EXCEPT ![OpOf[pc]] = t]
        /\ ticket[OpOf[pc]] = NoTicket => t \in FreshTickets(OpOf[pc])
  <2>1. /\ ticket["acquire"] \in Tickets \cup {NoTicket} /\ ticket["assert"] \in Tickets \cup {NoTicket}
        /\ ticket["release"] \in Tickets \cup {NoTicket}
        /\ \A o \in Ops : ticket[o] # NoTicket => ActionOf[ticket[o]] = o
    BY DEF RunInv, AskingOK, Ops
  <2> QED BY <2>1, AskBegins DEF RunInv, Ops
<1>2. /\ pc' = pc /\ waiting' = TRUE /\ ~waiting /\ pc \in DOMAIN OpOf /\ op \in Ops
      /\ UNCHANGED <<blob, etag, lease, late, meddled, faults, launches>>
  BY <1>1 DEF Ask, Begin, OpOf, Ops
<1>3. PICK s : /\ call' = [call EXCEPT ![Instance] = s] /\ s.pc \in {"create", "load"}
               /\ s.ticket = t
  BY <1>1, BeginIs
<1>4. call'[Instance] = s /\ ~meddled
  BY <1>2, <1>3, PlanAssumption DEF RunInv, BrokerInv, BrokerTypeOK
<1>5. op # "release" => ~Says(blob, Ending)
  <2>1. op # "release" => Unprepared(file)
    BY <1>2 DEF RunInv, ClientInv, Filed, Unprepared, OpOf, Busy, RunnerSteps, Empty
  <2>2. /\ Unprepared(file) => ~Says(blob, Releasing) \/ Says(blob, {"RELEASED"})
        /\ ~Says(blob, Terminal)
    BY SettledIs DEF LeaseInv, Unreleased, Says
  <2> QED BY <2>1, <2>2 DEF Says, Releasing, Ending, Terminal
<1>6. op = "assert" => Says(blob, {"HELD"})
  <2>1. op = "assert" => pc \notin {"off", "acquire"}
    BY <1>2 DEF OpOf
  <2>2. op = "assert" => Reached(blob)
    BY <1>4, <2>1 DEF OrderInv, Recorded
  <2>3. blob # NoBlob => blob.lifecycle \in Lifecycles
    BY DEF RunInv, BrokerInv, BrokerTypeOK, BlobState
  <2> QED BY <1>5, <2>2, <2>3 DEF Says, Reached, Unheld, Ending, Lifecycles
<1>7. ASSUME Undisturbed(pc, waiting, ticket, call[Instance], blob, etag, lease)
      PROVE  Undisturbed(pc', waiting', ticket', call'[Instance], blob', etag', lease')
  <2>1. \A o \in Ops : ticket[o] = NoTicket
    BY <1>2, <1>7 DEF Undisturbed
  <2>2. blob # NoBlob => NonceOf[blob.ticket] # NonceOf[t]
    BY <1>1, <1>2, <2>1, FreshNonce DEF RunInv
  <2>3. OnTrack(op, s, blob, etag, lease)
    BY <1>1, <1>3, <1>5, <1>6, <2>2 DEF OnTrack
  <2>4. \A o \in Ops : o = op \/ ticket'[o] = NoTicket
    BY <1>1, <2>1 DEF RunInv, AskingOK
  <2> QED BY <1>2, <1>4, <1>7, <2>3, <2>4 DEF Undisturbed
<1> QED BY <1>2, <1>4, <1>7, FreeStep

\* Where a step of the client without a fault goes.
LEMMA AloneGoesOn ==
  ASSUME ClientInv, ~Wedged, Runner \/ Completion, pc # "except"
  PROVE  /\ Answered(TRUE) \/ (Local /\ pc \notin DOMAIN OpOf)
         /\ pc' \notin {"off", "except"} \/ pc \in AfterRelease
<1>0. pc \in {"run", "preflight"} => Intact /\ (ck = NoState \/ Resumable)
  BY DEF ClientInv, CheckpointOK, Filed, Busy, RunnerSteps, Wedged, Unstarted, Resumable
<1>1. CASE Acquired \/ Admitted \/ Repeated \/ Refreshed \/ Reserve \/ PhaseRefreshed \/ PhasePassed
           \/ Attested \/ Released
  <2>1. Answered(TRUE)
    BY <1>1
    DEF Acquired, Admitted, Repeated, Refreshed, Reserve, PhaseRefreshed, PhasePassed, Attested,
        Released
  <2>2. CASE Admitted
    BY <1>0, <2>1, <2>2 DEF Admitted
  <2>3. CASE ~Admitted
    BY <1>1, <2>1, <2>3
    DEF Acquired, Repeated, Refreshed, Reserve, PhaseRefreshed, PhasePassed, Attested, Released,
        Persist, Write, WritePhase, Observed, ObservedUnsafe
  <2> QED BY <2>2, <2>3
<1>2. CASE Enter
  BY <1>0, <1>2 DEF Enter, OpOf
<1>3. CASE NextPhase \/ Loop \/ Dispatching \/ Send \/ Complete \/ PhaseFailed \/ ReconcileAttempt
  <2>1. Local /\ pc \notin DOMAIN OpOf
    BY <1>3
    DEF NextPhase, Loop, Dispatching, Send, Complete, PhaseFailed, ReconcileAttempt, OpOf
  <2>2. pc' \notin {"off", "except"}
    BY <1>3
    DEF NextPhase, Loop, Dispatching, Send, Complete, PhaseFailed, ReconcileAttempt, Persist,
        Write, WritePhase
  <2> QED BY <2>1, <2>2
<1>4. CASE Evidence \/ WritePending \/ ClearTerminal
  BY <1>4 DEF Evidence, WritePending, ClearTerminal, Store, OpOf
<1>5. CASE ClearRecovery \/ WriteJson \/ WriteMarkdown \/ WriteManifest \/ ClearPending
           \/ ClearLast
  BY <1>5
  DEF ClearRecovery, WriteJson, WriteMarkdown, WriteManifest, ClearPending, ClearLast, Store,
      AfterRelease, OpOf
<1>6. ~RecoverTerminal
  BY DEF RecoverTerminal
<1> QED BY <1>1, <1>2, <1>3, <1>4, <1>5, <1>6 DEF Runner, Completion

\* The client keeps the account.
LEMMA AloneLaunches ==
  ASSUME RunInv, LaunchInv, Alone, ~meddled, ~Settled, ~Wedged
  PROVE  LaunchInv'
<1>0. /\ UNCHANGED <<blob, etag, lease, late, call, meddled>>
      /\ ticket \in [Ops -> Tickets \cup {NoTicket}] /\ ~Says(blob, Terminal)
  BY AloneLeaves, SettledIs DEF Service, RunInv, AskingOK
<1>1. CASE Launch
  <2>1. /\ pc = "off" /\ launches' = launches + 1 /\ faults' = faults /\ ticket' = NoTickets
        /\ waiting' = FALSE
    BY <1>1 DEF Launch, brokerVars
  <2>2. /\ faults \in Nat /\ launches \in Nat /\ IsFiniteSet(late) /\ Cardinality(late) \in Nat
        /\ launches + Cardinality(late) <= 2 * faults
    BY <2>1, FS_CardinalityType DEF LaunchInv, Undisturbed, Paid
  <2>3. pc' \notin {"off", "except"}
    <3>1. file.manifest = NoFile /\ ({file.json, file.md} # {NoFile} => file.pending # NoFile)
      BY DEF Settled, RunInv, ClientInv, Filed
    <3> QED BY <1>1, <3>1 DEF Launch
  <2>4. Undisturbed(pc', waiting', ticket', call'[Instance], blob', etag', lease')
    BY <2>1, <2>3 DEF Undisturbed, NoTickets, Ops
  <2>5. \/ launches' + Cardinality(late) <= 2 * faults
        \/ launches' + Cardinality(late) = 2 * faults + 1
    BY <2>1, <2>2
  <2>6. faults' \in Nat /\ launches' \in Nat /\ late' = late
    BY <1>0, <2>1, <2>2
  <2> QED BY <2>1, <2>2, <2>4, <2>5, <2>6 DEF LaunchInv, Paid
<1>2. CASE TimedOut \/ RunnerException \/ TornWrite \/ Die
  <2>1. faults' = faults + 1 /\ launches' = launches
    BY <1>2 DEF TimedOut, RunnerException, TornWrite, Die, Fault
  <2> QED BY <1>0, <2>1, FaultPays
<1>3. CASE Answered(FALSE)
  <2>1. /\ waiting /\ call[Instance].pc = "idle" /\ UNCHANGED <<faults, launches>>
        /\ call[Instance].out \notin SuccessOf[OpOf[pc]]
    BY <1>3 DEF Answered, brokerVars
  <2>2. ~Undisturbed(pc, waiting, ticket, call[Instance], blob, etag, lease)
    BY <2>1 DEF Undisturbed, OnTrack
  <2> QED BY <1>0, <2>1, <2>2, FreeStep
<1>4. CASE Runner \/ Completion
  <2>1. (Answered(TRUE) \/ Local) => UNCHANGED <<faults, launches>>
    BY DEF Answered, Local, brokerVars
  <2>2. ASSUME Undisturbed(pc, waiting, ticket, call[Instance], blob, etag, lease)
        PROVE  Undisturbed(pc', waiting', ticket', call'[Instance], blob', etag', lease')
    <3>1. pc' \notin {"off", "except"}
      <4>1. pc \notin AfterRelease
        BY <1>0 DEF RunInv, ReleaseInv, Closed, AfterRelease, Says, Terminal
      <4> QED BY <1>4, <2>2, <4>1, AloneGoesOn DEF RunInv, Undisturbed
    <3>2. CASE Answered(TRUE)
      <4>1. /\ waiting /\ waiting' = FALSE /\ OpOf[pc] \in Ops
            /\ ticket' = [ticket EXCEPT ![OpOf[pc]] =
                            IF Kept(call[Instance].out) THEN @ ELSE NoTicket]
            /\ call[Instance].out \in SuccessOf[OpOf[pc]]
        BY <3>2, AnsweredIs
      <4>2. ~Kept(call[Instance].out)
        BY <4>1 DEF Kept, SuccessOf, Ops
      <4>3. \A op \in Ops : ticket'[op] = NoTicket
        BY <1>0, <2>2, <4>1, <4>2 DEF Undisturbed
      <4> QED BY <3>1, <4>1, <4>3 DEF Undisturbed
    <3>3. CASE Local /\ pc \notin DOMAIN OpOf
      <4>1. ~waiting /\ UNCHANGED <<waiting, ticket>>
        BY <2>2, <3>3 DEF Undisturbed, Local
      <4> QED BY <2>2, <3>1, <4>1 DEF Undisturbed
    <3> QED BY <1>4, <2>2, <3>2, <3>3, AloneGoesOn DEF RunInv, Undisturbed
  <2>3. CASE pc = "except"
    <3>1. ~Undisturbed(pc, waiting, ticket, call[Instance], blob, etag, lease)
      BY <2>3 DEF Undisturbed
    <3>2. UNCHANGED <<faults, launches>>
      <4>1. Answered(TRUE) \/ Local
        BY <1>4
        DEF Runner, Completion, Acquired, Enter, Admitted, Repeated, NextPhase, Loop, Refreshed,
            Reserve, Dispatching, Send, Complete, PhaseRefreshed, PhasePassed, PhaseFailed,
            ReconcileAttempt, RecoverTerminal, Evidence, Attested, WritePending, ClearTerminal,
            Released, ClearRecovery, WriteJson, WriteMarkdown, WriteManifest, ClearPending,
            ClearLast, Store
      <4> QED BY <2>1, <4>1
    <3> QED BY <1>0, <3>1, <3>2, FreeStep
  <2>4. CASE pc # "except"
    <3>1. UNCHANGED <<faults, launches>>
      BY <1>4, <2>1, <2>4, AloneGoesOn DEF RunInv
    <3> QED BY <1>0, <2>2, <3>1, FreeStep
  <2> QED BY <2>3, <2>4
<1> QED BY <1>1, <1>2, <1>3, <1>4 DEF Alone, Refused

\* The counters stay numbers, and the network finite.
LEMMA CountersKeep ==
  ASSUME faults \in Nat, launches \in Nat, IsFiniteSet(late), [AcceptanceNext]_acceptanceVars
  PROVE  faults' \in Nat /\ launches' \in Nat /\ IsFiniteSet(late')
<1>1. CASE Broker
  <2>1. launches' = launches
    BY <1>1 DEF Broker, clientVars
  <2>2. CASE Serve(Instance)
    BY <2>1, <2>2, ServeCosts, FS_AddElement
  <2>3. ASSUME NEW i, Unavailable(i) \/ Crash(i) PROVE faults' = faults + 1 /\ late' = late
    BY <2>3 DEF Unavailable, Crash, Fault
  <2>4. ASSUME NEW q, ExecuteLate(q) PROVE faults' = faults /\ late' = late \ {q}
    BY <2>4 DEF ExecuteLate
  <2>5. Outside => faults' = faults + 1 /\ late' = late
    BY DEF Outside, Fault
  <2>6. IsFiniteSet(late') /\ faults' \in Nat
    BY <1>1, <2>2, <2>3, <2>4, <2>5, FS_RemoveElement DEF Broker, Disturb
  <2> QED BY <2>1, <2>6
<1>2. CASE Ask
  BY <1>2 DEF Ask, Begin
<1>3. CASE Alone
  <2>1. late' = late
    BY <1>3, AloneLeaves DEF Service
  <2>2. faults' \in {faults, faults + 1} /\ launches' \in {launches, launches + 1}
    BY <1>3, AloneIs
    DEF Answered, TimedOut, Local, Launch, RunnerException, TornWrite, Die, Fault, brokerVars
  <2> QED BY <2>1, <2>2
<1>4. CASE UNCHANGED acceptanceVars
  BY <1>4 DEF acceptanceVars, brokerVars, clientVars
<1> QED BY <1>1, <1>2, <1>3, <1>4 DEF AcceptanceNext, Alone

\* Unless somebody meddles, a settled run stays settled.
LEMMA SettledStays ==
  ASSUME RunInv, OrderInv, [AcceptanceNext]_acceptanceVars, ~meddled', Settled
  PROVE  Settled'
<1>0. Says(blob, Terminal)
  BY SettledIs
<1>1. Says(blob', Terminal)
  <2>1. CASE Broker
    <3>1. Onward(blob, etag, blob', etag')
      BY <2>1, BrokerOrder DEF Broker, RunInv, ReleaseInv, OrderInv
    <3> QED BY <1>0, <3>1 DEF Onward
  <2>2. CASE Ask
    <3>1. blob' = blob
      BY <2>2 DEF Ask, Begin
    <3> QED BY <1>0, <3>1
  <2>3. CASE Alone
    <3>1. blob' = blob
      BY <2>3, AloneLeaves DEF Service
    <3> QED BY <1>0, <3>1
  <2>4. CASE UNCHANGED acceptanceVars
    BY <1>0, <2>4 DEF acceptanceVars, brokerVars
  <2> QED BY <2>1, <2>2, <2>3, <2>4 DEF AcceptanceNext, Alone
<1> QED BY <1>1 DEF Says, Settled

\* A run whose checkpoint cannot be restored stays where it is.
LEMMA WedgedStays ==
  ASSUME ClientInv, Wedged, [AcceptanceNext]_acceptanceVars
  PROVE  Wedged'
<1>0. ~Resumable /\ ck # NoState /\ Intact
  BY DEF Wedged, Resumable, ClientInv, CheckpointOK
<1>1. ASSUME commit' = commit, safety'.committed = safety.committed, file' = file,
             pc' \in Unstarted \cup {"off", "except"}
      PROVE  Wedged'
  <2>1. ck' = ck
    BY <1>1 DEF ck
  <2> QED BY <1>1, <2>1 DEF Wedged
<1>2. CASE Ask \/ Broker \/ UNCHANGED acceptanceVars
  BY <1>1, <1>2 DEF Ask, Broker, acceptanceVars, clientVars, SameState, SameFiles, Wedged
<1>3. CASE Launch
  BY <1>1, <1>3 DEF Launch, SameState, SameFiles, Wedged, Empty, Unstarted
<1>4. CASE Refused
  BY <1>1, <1>4 DEF Refused, Fails, SameState, SameFiles, Wedged, Unstarted
<1>5. CASE Runner
  <2>1. CASE Acquired \/ Admitted
    BY <1>0, <1>1, <2>1 DEF Acquired, Admitted, SameState, SameFiles, Unstarted
  <2>2. CASE Enter
    <3>1. safety'.committed = safety.committed
      BY <2>2 DEF Enter, Restore
    <3>2. commit' = commit /\ file' = file /\ pc' \in {"preflight", "except"}
      BY <1>0, <2>2 DEF Enter, Restore, SameFiles
    <3> QED BY <1>1, <3>1, <3>2 DEF Unstarted
  <2>3. CASE RecoverTerminal
    BY <1>0, <1>1, <2>3 DEF RecoverTerminal, SameState, SameFiles
  <2> QED
    BY <1>5, <2>1, <2>2, <2>3
    DEF Runner, Repeated, NextPhase, Loop, Refreshed, Reserve, Dispatching, Send, Complete,
        PhaseRefreshed, PhasePassed, PhaseFailed, ReconcileAttempt, Wedged, Unstarted
<1>6. ~Completion
  BY DEF Completion, Evidence, Attested, WritePending, ClearTerminal, Released, ClearRecovery,
         WriteJson, WriteMarkdown, WriteManifest, ClearPending, ClearLast, Wedged, Unstarted
<1>7. CASE RunnerException \/ TornWrite \/ Die
  BY <1>1, <1>7 DEF RunnerException, TornWrite, Die, SameState, SameFiles
<1> QED BY <1>2, <1>3, <1>4, <1>5, <1>6, <1>7 DEF AcceptanceNext

\* Every step keeps the account.
LEMMA LaunchNext ==
  RunInv /\ LeaseInv /\ OrderInv /\ LaunchInv /\ [AcceptanceNext]_acceptanceVars => LaunchInv'
<1> SUFFICES ASSUME RunInv, LeaseInv, OrderInv, LaunchInv, [AcceptanceNext]_acceptanceVars
             PROVE  LaunchInv'
  OBVIOUS
<1>1. faults' \in Nat /\ launches' \in Nat /\ IsFiniteSet(late')
  BY CountersKeep DEF LaunchInv
<1>2. CASE meddled' \/ Settled'
  BY <1>1, <1>2 DEF LaunchInv
<1>3. CASE Wedged
  BY <1>1, <1>3, WedgedStays DEF LaunchInv, RunInv
<1>4. CASE ~meddled' /\ ~Settled' /\ ~Wedged
  <2>1. ~Settled
    BY <1>4, SettledStays
  <2>2. CASE Broker
    BY <1>4, <2>1, <2>2, BrokerLaunches
  <2>3. CASE Ask
    BY <1>4, <2>1, <2>3, AskLaunches
  <2>4. CASE Alone
    <3>1. meddled' = meddled
      BY <2>4, AloneLeaves DEF Service
    <3> QED BY <1>4, <2>1, <2>4, <3>1, AloneLaunches
  <2>5. CASE UNCHANGED acceptanceVars
    <3>1. /\ UNCHANGED <<pc, waiting, ticket, call, blob, etag, lease, faults, launches, late>>
          /\ UNCHANGED meddled
      BY <2>5 DEF acceptanceVars, brokerVars, clientVars
    <3> QED BY <1>4, <2>1, <3>1, FreeStep
  <2> QED BY <2>2, <2>3, <2>4, <2>5 DEF AcceptanceNext, Alone
<1> QED BY <1>2, <1>3, <1>4

\* Unless somebody else takes the lease, twice as many launches as there were
\* disturbances, and one more, settle the run or find a checkpoint that cannot be
\* restored.  A launch ends otherwise only through a fault, through a request an
\* earlier fault left in the network, or through what either did to the call it
\* waits for: the client repeats no other failure of its own.
THEOREM LaunchesAreEnough == AcceptanceSpec => []LaunchesSuffice
<1>1. AcceptanceSpec => [](RunInv /\ LeaseInv /\ OrderInv /\ LaunchInv)
  BY RunInit, RunNext, LeaseInit, LeaseNext, OrderInit, OrderNext, LaunchInit, LaunchNext, PTL
  DEF AcceptanceSpec
<1>2. LaunchInv => LaunchesSuffice
  <2> SUFFICES ASSUME LaunchInv, pc = "off", launches > 2 * faults, ~meddled
               PROVE  Settled \/ (ck # NoState /\ ~Resumable)
    BY DEF LaunchesSuffice
  <2>1. faults \in Nat /\ launches \in Nat /\ Cardinality(late) \in Nat
    BY FS_CardinalityType DEF LaunchInv
  <2>2. ~Paid
    BY <2>1 DEF Paid
  <2> QED BY <2>2 DEF LaunchInv, Undisturbed, Wedged, Resumable
<1> QED BY <1>1, <1>2, PTL
=============================================================================
