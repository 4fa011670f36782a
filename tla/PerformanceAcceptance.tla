----------------------- MODULE PerformanceAcceptance -----------------------
(***************************************************************************)
(* A live performance acceptance run over the lease broker                 *)
(* (nac_bff/azure_performance_runtime.py LeaseBoundPerformanceAcceptance   *)
(* and PerformanceFinalEvidenceStore, azure_performance_acceptance.py      *)
(* PerformanceAcceptanceRunner and PerformanceArtifactStore,               *)
(* azure_performance_lease_broker_client.py).                              *)
(*                                                                         *)
(* An operator launches the program again and again; the execution fence   *)
(* admits one process at a time.  The process acquires the brokered lease, *)
(* sends a fixed number of measured requests phase by phase, and releases  *)
(* the lease before it commits final evidence.  It can die between any two *)
(* durable writes; everything it needs afterwards is in the checkpoint and *)
(* in the files of the final evidence store.                               *)
(***************************************************************************)
EXTENDS LeaseBroker, Sequences

CONSTANTS
  PhaseLimits,   \* the number of requests of each phase
  Instance,      \* the broker instance that serves the run
  Run,           \* the run fingerprint of the broker
  NoState, NoFile, NoTicket,
  Uncommitted,   \* a state that reached its slot and was not committed
  MaxLaunches    \* bound: launches of the program

ASSUME PlanAssumption ==
  /\ PhaseLimits \in Seq(Nat \ {0}) /\ PhaseLimits # << >>
  /\ Instance \in Instances /\ Run \in Runs

VARIABLES
  slots,     \* the two state slots of the artifact store
  commit,    \* the authoritative pointer: a slot and the digest of its state
  safety,    \* how runtime_safety stands to measurement_preflight, in the state
             \* of the process and in the committed one
  file,      \* the files of the final evidence store
  pc,        \* the step of the running process, or "off"
  waiting,   \* the process waits for the broker
  ticket,    \* the tickets the broker client keeps for a retry
  launches,
  sent       \* history: requests that went out on the wire

clientVars == <<slots, commit, safety, file, pc, waiting, ticket, launches, sent>>
acceptanceVars == <<brokerVars, clientVars>>

-----------------------------------------------------------------------------
(* The checkpoint. *)

\* The first n phases have this many requests; all of them have RequestLimit.
Planned[n \in Nat] == IF n = 0 THEN 0 ELSE Planned[n - 1] + PhaseLimits[n]
RequestLimit == Planned[Len(PhaseLimits)]

PhaseState ==
  [pending : BOOLEAN, crossed : BOOLEAN, fatal : BOOLEAN,
   reserved : 0..RequestLimit, completed : 0..RequestLimit]

\* done phases passed with spent requests; cur is the open phase, failed the
\* result of a phase that failed; net counts the recorded network dispatches.
Checkpoint ==
  [status : {"RUNNING", "FAILED", "PASSED"}, done : 0..Len(PhaseLimits),
   spent : 0..RequestLimit, net : 0..RequestLimit,
   cur : PhaseState \cup {NoState}, failed : PhaseState \cup {NoState}]

NewState ==
  [status |-> "RUNNING", done |-> 0, spent |-> 0, net |-> 0,
   cur |-> NoState, failed |-> NoState]

NewPhase ==
  [pending |-> FALSE, crossed |-> FALSE, fatal |-> FALSE, reserved |-> 0, completed |-> 0]

Slots == {"a", "b"}

\* A document of the final evidence store: what it reports, and how often a
\* later launch has taken it over.
Document == [status : {"FAILED", "PASSED"}, chain : Nat]

\* The absent values are not values.
ASSUME AbsentAssumption ==
  /\ NoState \notin PhaseState \cup Checkpoint \cup [slot : Slots, digest : Checkpoint]
  /\ NoFile \notin Document
  /\ NoTicket \notin Tickets

\* load_state: the committed slot must carry the committed digest.
Intact == commit # NoState => slots[commit.slot] = commit.digest
ck == IF commit = NoState THEN NoState ELSE commit.digest

\* There is no safety observation yet, or it was made under the measurement
\* attestation of the state, or under an earlier one.  An attestation carries the
\* time of its observation, so that each has a digest of its own.
Bindings == {"none", "bound", "stale"}

\* _validate_state_semantics, with the checks of the open and the failed phase.
Consistent(s) ==
  /\ s.status = "PASSED" => s.done = Len(PhaseLimits) /\ s.cur = NoState
  /\ s.status = "FAILED" => s.cur = NoState
  /\ s.status = "FAILED" <=> s.failed # NoState
  /\ s.failed # NoState => /\ s.done < Len(PhaseLimits)
                           /\ s.failed.reserved = s.failed.completed
                           /\ s.failed.completed <= PhaseLimits[s.done + 1]
  /\ s.cur # NoState =>
       /\ s.done < Len(PhaseLimits)
       /\ s.cur.reserved <= PhaseLimits[s.done + 1]
       /\ s.cur.completed <= s.cur.reserved
       /\ s.cur.reserved - s.cur.completed <= 1
       /\ s.cur.crossed => s.cur.reserved = s.cur.completed + 1
  /\ LET open == IF s.cur # NoState THEN s.cur
                 ELSE IF s.failed # NoState THEN s.failed ELSE NewPhase
     IN /\ s.spent = Planned[s.done]
        /\ s.spent + open.reserved <= RequestLimit
        /\ s.net <= s.spent + open.completed + (IF open.crossed THEN 1 ELSE 0)

\* The rest of it: _validate_runtime_safety_summary compares the digest in the
\* observation with the attestation, and a passed run has an observation.
Restorable(s, binding) ==
  /\ Consistent(s)
  /\ binding # "stale"
  /\ s.status = "PASSED" => binding # "none"

Resumable == Intact /\ ck # NoState /\ Restorable(ck, safety.committed)

Interrupted(s) ==
  s.cur # NoState /\ (s.cur.pending \/ s.cur.reserved = s.cur.completed + 1)

-----------------------------------------------------------------------------
(* Durable writes. *)

Local == UNCHANGED <<brokerVars, waiting, ticket, launches>>
SameFiles == UNCHANGED file
SameState == UNCHANGED <<slots, commit, safety>>

\* Mutant: the committed slot is overwritten in place.
OnlySlot == "a"

OtherSlot == IF commit # NoState /\ commit.slot = "a" THEN "b" ELSE "a"

\* write_state: the other slot first, then the commit pointer.
Persist(s, binding, next) ==
  /\ slots' = [slots EXCEPT ![OtherSlot] = s]
  /\ commit' = [slot |-> OtherSlot, digest |-> s]
  /\ safety' = [memory |-> binding, committed |-> binding]
  /\ pc' = next

Write(s, next) == Persist(s, safety.memory, next)

WritePhase(cur, next) == Write([ck EXCEPT !.cur = cur], next)

\* The state of the process is the committed one; its measurement_preflight is
\* replaced, which an observation made before does not follow.
Restore == safety' = [safety EXCEPT !.memory = safety.committed] /\ UNCHANGED <<slots, commit>>
Replaced == IF safety.memory = "none" THEN "none" ELSE "stale"
Rebind == safety' = [safety EXCEPT !.memory = Replaced] /\ UNCHANGED <<slots, commit>>

Store(field, value, next) ==
  /\ file' = [file EXCEPT ![field] = value]
  /\ pc' = next
  /\ SameState /\ UNCHANGED sent /\ Local

-----------------------------------------------------------------------------
(* _run_fenced: where a launch starts. *)

Recovered(doc) == [doc EXCEPT !.chain = @ + 1]

\* The tickets of the broker client live as long as its process.
NoTickets == [op \in {"acquire", "assert", "release"} |-> NoTicket]

Launch ==
  /\ pc = "off"
  /\ launches < MaxLaunches
  /\ launches' = launches + 1
  /\ ticket' = NoTickets
  /\ \/ /\ file.manifest # NoFile
        /\ IF file.manifest = file.json /\ file.json = file.md
              /\ file.pending \in {NoFile, file.manifest}
           THEN file' = [file EXCEPT !.pending = NoFile] ELSE SameFiles
        /\ pc' = "off"
     \/ /\ file.manifest = NoFile
        /\ \/ /\ {file.json, file.md} # {NoFile}
              /\ file.pending = NoFile /\ file.terminal = NoFile
              /\ pc' = "off" /\ SameFiles
           \/ /\ {file.json, file.md} = {NoFile} \/ {file.pending, file.terminal} # {NoFile}
              /\ \/ file.recovery /\ pc' = "releaseRecovery" /\ SameFiles
                 \/ /\ ~file.recovery /\ file.pending # NoFile
                    /\ file' = [file EXCEPT !.pending = Recovered(@)]
                    /\ pc' = "release"
                 \/ /\ ~file.recovery /\ file.pending = NoFile /\ file.terminal # NoFile
                    /\ file' = [file EXCEPT !.terminal = Recovered(@)]
                    /\ pc' = "attest"
                 \/ /\ ~file.recovery /\ file.pending = NoFile /\ file.terminal = NoFile
                    /\ pc' = "acquire" /\ SameFiles
  /\ waiting' = FALSE
  /\ SameState /\ UNCHANGED <<sent, brokerVars>>

-----------------------------------------------------------------------------
(* The broker client. *)

OpOf ==
  [acquire |-> "acquire", preflight |-> "assert", repeat |-> "assert",
   refresh |-> "assert", observe |-> "assert", phaseRefresh |-> "assert",
   phaseObserve |-> "assert", attest |-> "assert", release |-> "release",
   releaseRecovery |-> "release"]

SuccessOf ==
  [acquire |-> {"ACQUIRED", "ALREADY_ACQUIRED"}, assert |-> {"HELD"},
   release |-> {"RELEASED", "ALREADY_RELEASED"}]

\* A ticket the broker has not seen: its nonce is new.
FreshTickets(op) ==
  LET seen == {call[Instance].ticket} \cup {q.state.ticket : q \in late}
              \cup (IF blob = NoBlob THEN {} ELSE {blob.ticket})
  IN {t \in Tickets : /\ ActionOf[t] = op
                      /\ \A u \in seen \cap Tickets : NonceOf[u] # NonceOf[t]}

\* _execute sends the request; the ticket provider makes a ticket with a nonce
\* of its own unless one is kept for this operation.
Ask ==
  LET op == OpOf[pc]
      t  == IF ticket[op] # NoTicket THEN ticket[op] ELSE CHOOSE t \in FreshTickets(op) : TRUE
  IN /\ pc \in DOMAIN OpOf /\ ~waiting
     /\ ticket[op] = NoTicket => FreshTickets(op) # {}
     /\ IF op = "acquire"
        THEN FreshIds # {} /\ Begin(Instance, Run, t, CHOOSE id \in FreshIds : TRUE)
        ELSE Begin(Instance, Run, t, NoLease)
     /\ ticket' = [ticket EXCEPT ![op] = t]
     /\ waiting' = TRUE
     /\ SameState /\ SameFiles /\ UNCHANGED <<pc, launches, sent, calls>>

\* The retry directive of the broker decides whether the ticket is kept.
Kept(outcome) == outcome \in {"none", "BUSY", "RETRYABLE_FAILURE", "INDETERMINATE_AFTER_CRASH"}

Answered(accepted) ==
  LET op == OpOf[pc]
      outcome == call[Instance].out
  IN /\ pc \in DOMAIN OpOf /\ waiting
     /\ call[Instance].pc = "idle"
     /\ accepted <=> outcome \in SuccessOf[op]
     /\ ticket' = [ticket EXCEPT ![op] = IF Kept(outcome) THEN @ ELSE NoTicket]
     /\ waiting' = FALSE
     /\ UNCHANGED <<brokerVars, launches>>

\* The client gives up while the broker is still at work.
TimedOut ==
  /\ pc \in DOMAIN OpOf /\ waiting
  /\ call[Instance].pc # "idle"
  /\ Fault
  /\ waiting' = FALSE
  /\ UNCHANGED <<blob, etag, lease, late, call, calls, freed, meddled, ticket, launches>>

\* What a refused or unanswered request means for each step.
Fails ==
  LET cur == [ck.cur EXCEPT !.fatal = TRUE]
  IN /\ SameFiles /\ UNCHANGED sent
     /\ \/ /\ pc \in {"acquire", "attest", "release", "releaseRecovery"}
           /\ pc' = "off" /\ SameState
        \/ pc \in {"preflight", "repeat"} /\ pc' = "except" /\ SameState
        \/ pc \in {"refresh", "observe"} /\ WritePhase(cur, "phaseFail")
        \/ pc \in {"phaseRefresh", "phaseObserve"} /\ WritePhase(cur, "phaseFail")

Refused == (Answered(FALSE) \/ TimedOut) /\ Fails

-----------------------------------------------------------------------------
(* PerformanceAcceptanceRunner.run *)

Acquired == Answered(TRUE) /\ pc = "acquire" /\ pc' = "run"
            /\ SameState /\ SameFiles /\ UNCHANGED sent

\* An interrupted or failed run is settled from its checkpoint alone; any other
\* is checked once the lease is confirmed.
Enter ==
  /\ pc = "run"
  /\ pc' = IF ck = NoState THEN "preflight"
           ELSE IF ~Intact THEN "except"
           ELSE IF ck.status # "FAILED" /\ ~Interrupted(ck) THEN "preflight"
           ELSE IF ~Resumable THEN "except"
           ELSE IF ck.status = "FAILED" THEN "evidence" ELSE "reconcile"
  /\ Restore /\ SameFiles /\ UNCHANGED sent /\ Local

\* The new attestation becomes the measurement_preflight of the restored state.
Admitted ==
  /\ Answered(TRUE) /\ pc = "preflight"
  /\ \/ ck # NoState /\ ~Resumable /\ pc' = "except" /\ SameState
     \/ /\ ck = NoState \/ Resumable
        /\ pc' = IF ck # NoState /\ ck.status = "PASSED" THEN "repeat" ELSE "phase"
        /\ Rebind
  /\ SameFiles /\ UNCHANGED sent

Repeated ==
  /\ Answered(TRUE) /\ pc = "repeat"
  /\ Persist(ck, "bound", "evidence")
  /\ SameFiles /\ UNCHANGED sent

\* The next phase of the plan, or the end of it.  A wait at the start of a phase
\* that is resumed is checkpointed.
NextPhase ==
  LET s == IF ck = NoState THEN NewState ELSE ck
  IN /\ pc = "phase"
     /\ \/ /\ s.done = Len(PhaseLimits)
           /\ Write([s EXCEPT !.status = "PASSED"], "evidence")
        \/ /\ s.done < Len(PhaseLimits) /\ s.cur = NoState
           /\ Write([s EXCEPT !.cur = NewPhase], "loop")
        \/ /\ s.done < Len(PhaseLimits) /\ s.cur # NoState
           /\ (pc' = "loop" /\ SameState) \/ Write(s, "loop")
     /\ SameFiles /\ UNCHANGED sent /\ Local

\* _run_paced: the loop ends with the phase's requests, its time or a fatal
\* sample; what the phase measured may or may not be good enough.
Loop ==
  /\ pc = "loop"
  /\ \/ /\ ck.cur.fatal
        /\ pc' = "phaseFail" /\ SameState
     \/ /\ ~ck.cur.fatal /\ ck.cur.completed < PhaseLimits[ck.done + 1]
        /\ \/ pc' = "phaseFail" /\ SameState
           \/ /\ ck.spent + ck.cur.reserved < RequestLimit
              /\ WritePhase([ck.cur EXCEPT !.pending = TRUE], "refresh")
           \/ /\ ck.spent + ck.cur.reserved >= RequestLimit
              /\ WritePhase([ck.cur EXCEPT !.fatal = TRUE], "phaseFail")
     \/ /\ ~ck.cur.fatal /\ ck.cur.completed = PhaseLimits[ck.done + 1]
        /\ pc' \in {"phaseRefresh", "phaseFail"} /\ SameState
  /\ SameFiles /\ UNCHANGED sent /\ Local

\* _refresh_measurement: the lease was confirmed, and there is a new attestation
\* or it is refused for another reason.
Refreshed ==
  /\ Answered(TRUE) /\ pc = "refresh"
  /\ \/ pc' = "observe" /\ Rebind
     \/ WritePhase([ck.cur EXCEPT !.fatal = TRUE], "phaseFail")
  /\ SameFiles /\ UNCHANGED sent

\* _observe_runtime_safety binds the observation to the attestation, unless it
\* is refused; a budget that is exhausted is found afterwards.
Observed(cur, next) == Persist([ck EXCEPT !.cur = cur], "bound", next)
ObservedUnsafe ==
  \E binding \in {"bound", safety.memory} :
    Persist([ck EXCEPT !.cur.fatal = TRUE], binding, "phaseFail")

\* Mutant: the attempt is reserved whatever the safety observation says.
ReserveRegardless ==
  /\ \E accepted \in BOOLEAN : Answered(accepted)
  /\ pc = "observe"
  /\ Observed([ck.cur EXCEPT !.reserved = @ + 1, !.pending = FALSE], "dispatch")
  /\ SameFiles /\ UNCHANGED sent

\* The lease was confirmed twice: the attempt is reserved, unless the observation
\* forbids it.
Reserve ==
  /\ Answered(TRUE) /\ pc = "observe"
  /\ \/ Observed([ck.cur EXCEPT !.reserved = @ + 1, !.pending = FALSE], "dispatch")
     \/ ObservedUnsafe
  /\ SameFiles /\ UNCHANGED sent

\* Mutant: the dispatch is counted with its answer, not before it.
DispatchingUncounted ==
  /\ pc = "dispatch"
  /\ WritePhase([ck.cur EXCEPT !.crossed = TRUE], "wire")
  /\ SameFiles /\ UNCHANGED sent /\ Local

\* A target that does not match, or no token: no request leaves.  Otherwise
\* _record_transport_boundary counts the dispatch before it happens.
Dispatching ==
  /\ pc = "dispatch"
  /\ \/ WritePhase([ck.cur EXCEPT !.completed = @ + 1, !.fatal = TRUE], "loop")
     \/ Write([ck EXCEPT !.cur.crossed = TRUE, !.net = @ + 1], "wire")
  /\ SameFiles /\ UNCHANGED sent /\ Local

Send ==
  /\ pc = "wire"
  /\ sent' = sent + 1
  /\ pc' = "answer"
  /\ SameState /\ SameFiles /\ Local

Complete ==
  /\ pc = "answer"
  /\ \E fatal \in BOOLEAN :
       WritePhase([ck.cur EXCEPT !.completed = @ + 1, !.crossed = FALSE, !.fatal = fatal], "loop")
  /\ SameFiles /\ UNCHANGED sent /\ Local

PhaseRefreshed ==
  /\ Answered(TRUE) /\ pc = "phaseRefresh"
  /\ \/ pc' = "phaseObserve" /\ Rebind
     \/ WritePhase([ck.cur EXCEPT !.fatal = TRUE], "phaseFail")
  /\ SameFiles /\ UNCHANGED sent

PhasePassed ==
  /\ Answered(TRUE) /\ pc = "phaseObserve"
  /\ \/ Persist([ck EXCEPT !.cur = NoState, !.done = @ + 1,
                           !.spent = @ + ck.cur.completed], "bound", "phase")
     \/ ObservedUnsafe
  /\ SameFiles /\ UNCHANGED sent

PhaseFailed ==
  /\ pc = "phaseFail"
  /\ Write([ck EXCEPT !.status = "FAILED", !.failed = ck.cur, !.cur = NoState], "evidence")
  /\ SameFiles /\ UNCHANGED sent /\ Local

\* _reconcile_reserved_attempt: an attempt that was reserved counts as done, and
\* is never sent again.
ReconcileAttempt ==
  LET cur == ck.cur
  IN /\ pc = "reconcile"
     /\ WritePhase(IF cur.pending THEN [cur EXCEPT !.pending = FALSE, !.fatal = TRUE]
                   ELSE [cur EXCEPT !.completed = @ + 1, !.crossed = FALSE, !.fatal = TRUE],
                   "phaseFail")
     /\ SameFiles /\ UNCHANGED sent /\ Local

\* Any exception of the runner ends in recover_terminal_evidence.
\* (One that recovery itself raises is retried here; the code leaves the retry to
\* the next launch.)
RunnerSteps == {"run", "preflight", "repeat", "phase", "loop", "refresh", "observe",
                "dispatch", "wire", "answer", "phaseRefresh", "phaseObserve",
                "phaseFail", "reconcile"}

RunnerException ==
  /\ pc \in RunnerSteps /\ ~waiting
  /\ Fault
  /\ pc' = "except"
  /\ SameState /\ SameFiles
  /\ UNCHANGED <<blob, etag, lease, late, call, calls, freed, meddled, waiting, ticket, launches, sent>>

\* write_state fails, or the process dies, between the slot and the commit.
TornWrite ==
  /\ pc \in RunnerSteps /\ ~waiting
  /\ Fault
  /\ slots' = [slots EXCEPT ![OtherSlot] = Uncommitted]
  /\ pc' \in {"except", "off"}
  /\ SameFiles
  /\ UNCHANGED <<commit, safety, blob, etag, lease, late, call, calls, freed, meddled, waiting, ticket, launches, sent>>

RecoverTerminal ==
  /\ pc = "except"
  /\ \/ ~Resumable /\ pc' = "off" /\ SameState
     \/ /\ Resumable
        /\ \/ ck.status # "RUNNING" /\ pc' = "evidence" /\ Restore
           \/ ck.status = "RUNNING" /\ Interrupted(ck) /\ pc' = "reconcile" /\ Restore
           \/ /\ ck.status = "RUNNING" /\ ~Interrupted(ck)
              /\ Persist(IF ck.done = Len(PhaseLimits)
                         THEN [ck EXCEPT !.status = "PASSED"]
                         ELSE [ck EXCEPT !.status = "FAILED", !.cur = NoState,
                                 !.failed = IF ck.cur = NoState THEN NewPhase ELSE ck.cur],
                         safety.committed, "evidence")
  /\ SameFiles /\ UNCHANGED sent /\ Local

-----------------------------------------------------------------------------
(* Completion. *)

\* Evidence that does not validate is dropped: the lease is released and the
\* run ends without final evidence.
Evidence ==
  /\ pc = "evidence"
  /\ \/ Store("terminal", [status |-> ck.status, chain |-> 0], "attest")
     \/ Store("recovery", TRUE, "releaseRecovery")

\* The settled monitor window is attested under the lease.
Attested ==
  /\ Answered(TRUE) /\ pc = "attest" /\ pc' = "pending"
  /\ SameState /\ SameFiles /\ UNCHANGED sent

WritePending == pc = "pending" /\ Store("pending", file.terminal, "clearTerminal")
ClearTerminal == pc = "clearTerminal" /\ Store("terminal", NoFile, "release")

\* Mutant: the outcome of the release is not looked at.
ReleasedRegardless ==
  /\ \E accepted \in BOOLEAN : Answered(accepted)
  /\ \/ pc = "release" /\ pc' = "json"
     \/ pc = "releaseRecovery" /\ pc' = "clearRecovery"
  /\ SameState /\ SameFiles /\ UNCHANGED sent

Released ==
  /\ Answered(TRUE)
  /\ \/ pc = "release" /\ pc' = "json"
     \/ pc = "releaseRecovery" /\ pc' = "clearRecovery"
  /\ SameState /\ SameFiles /\ UNCHANGED sent

ClearRecovery == pc = "clearRecovery" /\ Store("recovery", FALSE, "off")

\* Mutant: the manifest is written before the markdown artifact.
JsonThenManifest == pc = "json" /\ Store("json", file.pending, "manifest")

\* write_final_evidence: the manifest is the commit, after both artifacts.
WriteJson == pc = "json" /\ Store("json", file.pending, "markdown")
WriteMarkdown == pc = "markdown" /\ Store("md", file.pending, "manifest")
WriteManifest == pc = "manifest" /\ Store("manifest", file.pending, "clearPending")
ClearPending == pc = "clearPending" /\ Store("pending", NoFile, "clearLast")
ClearLast == pc = "clearLast" /\ Store("terminal", NoFile, "off")

\* The process dies, or a step raises.
Die ==
  /\ pc # "off"
  /\ Fault
  /\ pc' = "off" /\ waiting' = FALSE
  /\ SameState /\ SameFiles
  /\ UNCHANGED <<blob, etag, lease, late, call, calls, freed, meddled, ticket, launches, sent>>

-----------------------------------------------------------------------------
AcceptanceInit ==
  /\ BrokerInit
  /\ slots = [s \in Slots |-> NoState] /\ commit = NoState
  /\ safety = [memory |-> "none", committed |-> "none"]
  /\ file = [terminal |-> NoFile, pending |-> NoFile, recovery |-> FALSE,
             json |-> NoFile, md |-> NoFile, manifest |-> NoFile]
  /\ pc = "off" /\ waiting = FALSE /\ ticket = NoTickets
  /\ launches = 0 /\ sent = 0

Broker == (Serve(Instance) \/ Disturb) /\ UNCHANGED clientVars

Runner ==
  \/ Acquired \/ Enter \/ Admitted \/ Repeated \/ NextPhase \/ Loop \/ Refreshed
  \/ Reserve \/ Dispatching \/ Send \/ Complete \/ PhaseRefreshed \/ PhasePassed
  \/ PhaseFailed \/ ReconcileAttempt \/ RecoverTerminal

Completion ==
  \/ Evidence \/ Attested \/ WritePending \/ ClearTerminal \/ Released \/ ClearRecovery
  \/ WriteJson \/ WriteMarkdown \/ WriteManifest \/ ClearPending \/ ClearLast

AcceptanceNext ==
  \/ Launch \/ Ask \/ Refused \/ Runner \/ Completion
  \/ RunnerException \/ TornWrite \/ Die
  \/ Broker

AcceptanceSpec == AcceptanceInit /\ [][AcceptanceNext]_acceptanceVars

-----------------------------------------------------------------------------
(* Properties *)

\* "resumable_state": "required" of the contract: wherever the process died, the
\* next launch can load the checkpoint and restore the state from it.
CheckpointRestorable == ck # NoState => Resumable

\* Wherever the process died, the checkpoint is whole and its counters agree.  The
\* one check of a resume that it can fail is the binding of the observation, and
\* never in the first launch, unless an observation was refused there.
CheckpointConsistent ==
  ck # NoState =>
    /\ Intact /\ Consistent(ck)
    /\ ~Resumable =>
         /\ safety.committed = "stale"
         /\ launches > 1 \/ ck.status = "FAILED" \/ (ck.cur # NoState /\ ck.cur.fatal)

\* An attempt is counted before it leaves and is never sent twice, across any
\* number of launches: at most one recorded dispatch may not have left.
DispatchesAreCounted ==
  LET net == IF ck = NoState THEN 0 ELSE ck.net
  IN /\ sent <= net /\ net <= sent + 1
     /\ net = sent + 1 =>
          \/ ck.status = "FAILED"
          \/ ck.cur # NoState /\ (ck.cur.crossed \/ ck.cur.fatal)

\* Requests leave only while the broker records the lease as held by this run,
\* and none leaves once a release has begun.
DispatchedUnderLease ==
  pc \in {"dispatch", "wire", "answer"} =>
    /\ blob # NoBlob /\ blob.run = Run
    /\ blob.lifecycle = "HELD" /\ ~freed
    /\ ~meddled => lease = blob.id

\* No artifact of the final evidence exists before the broker has durably
\* released the lease.
EvidenceAfterRelease ==
  {file.json, file.md, file.manifest} # {NoFile} =>
    freed /\ blob # NoBlob /\ blob.lifecycle = "RELEASED"

\* Committed evidence is one consistent set that tells what happened: PASSED
\* only if every planned request left; a pending file that is still there is the
\* committed one.  Artifacts without a manifest can always be completed.
EvidenceIsTrue ==
  IF file.manifest # NoFile
  THEN /\ file.json = file.manifest /\ file.md = file.manifest
       /\ file.pending \in {NoFile, file.manifest}
       /\ file.manifest.status = ck.status
       /\ file.manifest.status = "PASSED" => sent = RequestLimit
  ELSE {file.json, file.md} # {NoFile} => file.pending # NoFile

\* The run is over: evidence is committed, or the broker has recorded that the
\* lease is released or lost.
Settled ==
  \/ file.manifest # NoFile
  \/ blob # NoBlob /\ blob.lifecycle \in Terminal

\* Unless somebody else takes the lease, every disturbance costs the operator at
\* most two launches: the one it ends, and one that its request, executed late, can
\* still upset.  One launch more than that settles the run, or finds a checkpoint
\* that no launch can restore; nothing else can wedge the run.
LaunchesSuffice ==
  pc = "off" /\ launches > 2 * faults /\ ~meddled =>
    Settled \/ (ck # NoState /\ ~Resumable)

=============================================================================
