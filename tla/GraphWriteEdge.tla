--------------------------- MODULE GraphWriteEdge ---------------------------
(***************************************************************************)
(* BusinessCaseTypeGraphWriteEdge.execute of nac_m365_graph/               *)
(* business_case_type_write_edge.py: concurrent executions of one mutation *)
(* (one execution key) by worker processes that can crash at any point,    *)
(* over the durable MutationState and a Microsoft Graph list.              *)
(*                                                                         *)
(* A worker executes a plan on behalf of an authorization run.  Every hook *)
(* call, every fresh state read that verifies one, and every Graph request *)
(* is one step, because another process can act, or this one can die,      *)
(* between any two of them.  The nine ways a response is handled           *)
(* (_handle_success, _handle_412, ... and the two dedupe branches) share   *)
(* their shape (outcome, marker, observation, marker, readback, marker)    *)
(* and differ in the tables OutcomeCode, MarksFirst, NeedsReconciliation   *)
(* and Report.                                                             *)
(***************************************************************************)
EXTENDS MutationState, Sequences, FiniteSets

CONSTANTS
  Workers,         \* operating system processes that run the edge
  Methods,         \* values of plan.write_method: "POST" creates, "PATCH" updates
  PlanOf,          \* PlanOf[r] = plan_sha256 of authorization run r
  Mutation,        \* the bindings all runs of this key share
  MaxCalls,        \* bound on execute calls
  MaxForeign       \* bound on changes by other editors of the list

ASSUME MethodAssumption == Methods \subseteq {"POST", "PATCH"}
ASSUME BindingAssumption ==
  Mutation \in Mutations /\ PlanOf \in [Runs -> Plans]

VARIABLES
  method,          \* the write_method of the mutation, the same in all its plans
  edge,            \* edge[w] = local state of the execution in worker w
  items,           \* the list items that carry the mutation's identity
  pending,         \* generations whose request may still reach the list
  writes,          \* writes[g] = write requests sent for generation g
  calls,           \* execute calls so far
  foreign          \* foreign changes so far

listVars == <<method, items, pending, writes>>
edgeVars == <<row, intents, outcomes, requirements, readbacks,
              method, edge, items, pending, writes, calls, foreign>>

-----------------------------------------------------------------------------
(* The Graph list (external): what the plan's requests can see and change. *)

\* Updates address the item of the plan and are sent with If-Match.
TargetItem == 1
ExpectedEtag == 0
MaxDedupeRows == 2

LiveItems == {i \in DOMAIN items : items[i].live}

\* _dedupe_observation of a well-formed single page.
CollectionState ==
  IF LiveItems = {} THEN "not_applied"
  ELSE IF Cardinality(LiveItems) > MaxDedupeRows THEN "invalid"
  ELSE IF Cardinality(LiveItems) > 1 THEN "duplicate"
  ELSE IF \A i \in LiveItems : items[i].applied THEN "applied"
  ELSE "divergent"

\* _item_observation of a well-formed response; a deleted item answers 404.
ItemState(i) ==
  IF i \notin LiveItems THEN "invalid"
  ELSE IF items[i].applied THEN "applied" ELSE "not_applied"

\* A response can also be malformed, missing or split into pages.
CollectionObservations == {CollectionState, "invalid", "paged"}
ItemObservations(i) == {ItemState(i), "invalid"}

\* Mutant of Applicable: the update is sent without If-Match.
ApplicableToAnyVersion == method = "PATCH" => items[TargetItem].live

\* Graph refuses an update whose If-Match is stale.
Applicable ==
  method = "PATCH" =>
    items[TargetItem].live /\ items[TargetItem].etag = ExpectedEtag

AfterWrite ==
  IF method = "POST"
    THEN Append(items, [live |-> TRUE, applied |-> TRUE, etag |-> 0, own |-> TRUE])
    ELSE [items EXCEPT ![TargetItem] =
            [live |-> TRUE, applied |-> TRUE, etag |-> @.etag + 1, own |-> TRUE]]

-----------------------------------------------------------------------------
(* The local state of an execution. *)

Idle ==
  [pc |-> "idle", run |-> None, seen |-> 0, prior |-> None, gen |-> 0,
   kind |-> "none", obs |-> "none", item |-> 0, etag |-> 0,
   recorded |-> FALSE, need |-> FALSE, place |-> "none",
   persisted |-> TRUE, result |-> "none"]

\* Only the report of an execution outlives it.
Done(s, status) ==
  [Idle EXCEPT !.pc = "done", !.run = s.run, !.gen = s.gen, !.kind = s.kind,
               !.result = status]

Become(w, s) == edge' = [edge EXCEPT ![w] = s]

\* A step that changes nothing but the local state.
LocalStep == UNCHANGED <<stateVars, listVars, calls, foreign>>

-----------------------------------------------------------------------------
(* The tables that tell the response handlers apart. *)

\* Uncertain transport result, provider 5xx, ambiguous dedupe collection.
UnclearKinds == {"unknown", "server_error", "ambiguous"}

OutcomeCode ==
  [dedupe |-> "deduplicated", ambiguous |-> "write_state_uncertain",
   unknown |-> "write_state_uncertain", server_error |-> "write_state_uncertain",
   precondition |-> "precondition_failed", conflict |-> "create_conflict",
   retryable |-> "retryable_rejected", rejected |-> "failed",
   success |-> "confirmed"]

\* The hook knows every outcome code of the edge.
ASSUME CodeAssumption == \A kind \in DOMAIN OutcomeCode : OutcomeCode[kind] \in OutcomeCodes

\* The marker is persisted before the provider is observed.
MarksFirst(s) ==
  \/ s.kind \in UnclearKinds
  \/ s.kind = "dedupe" /\ ~s.recorded
  \/ s.kind = "success" /\ (~s.recorded \/ s.item = 0)

NeedsReconciliation(s) ==
  CASE s.kind \in UnclearKinds -> TRUE
    [] s.kind \in {"precondition", "rejected"} -> ~s.recorded \/ s.obs = "invalid"
    [] s.kind \in {"conflict", "dedupe"} -> ~s.recorded \/ s.obs # "applied"
    [] s.kind = "retryable" -> ~s.recorded \/ s.obs \notin {"applied", "not_applied"}
    [] s.kind = "success" -> MarksFirst(s) \/ s.obs # "applied"

\* The marker is persisted after the observation.  The dedupe branch does so
\* even when it has already persisted one.
MarksAfter(s) ==
  /\ NeedsReconciliation(s)
  /\ s.kind \notin UnclearKinds
  /\ ~(s.kind = "success" /\ MarksFirst(s))

ReadbackCode(obs) ==
  CASE obs = "applied" -> "verified_applied"
    [] obs = "not_applied" -> "verified_not_applied"
    [] OTHER -> "not_verified"

Completion(s) ==
  IF s.kind = "retryable" /\ s.recorded /\ s.obs = "not_applied"
    THEN "retryable" ELSE "terminal"

Report(s) ==
  CASE s.need /\ s.persisted -> "RECONCILIATION_REQUIRED"
    [] s.need /\ ~s.persisted -> "RECONCILIATION_PERSISTENCE_FAILED"
    [] ~s.need /\ s.kind = "success" -> "APPLIED"
    [] ~s.need /\ s.kind \in {"dedupe", "conflict"} -> "DEDUPLICATED"
    [] ~s.need /\ s.kind = "precondition" ->
         IF s.obs = "applied" THEN "PRECONDITION_FAILED_ALREADY_APPLIED"
         ELSE "PRECONDITION_FAILED"
    [] ~s.need /\ s.kind = "retryable" ->
         IF s.obs = "applied" THEN "RETRYABLE_RESPONSE_STATE_ALREADY_APPLIED"
         ELSE "RETRYABLE_NOT_APPLIED"
    [] ~s.need /\ s.kind = "rejected" ->
         IF s.obs = "applied" THEN "WRITE_REJECTED_STATE_ALREADY_APPLIED"
         ELSE "WRITE_REJECTED"

SettledResults ==
  {"APPLIED", "DEDUPLICATED", "PRECONDITION_FAILED",
   "PRECONDITION_FAILED_ALREADY_APPLIED", "RETRYABLE_NOT_APPLIED",
   "RETRYABLE_RESPONSE_STATE_ALREADY_APPLIED", "WRITE_REJECTED",
   "WRITE_REJECTED_STATE_ALREADY_APPLIED"}

-----------------------------------------------------------------------------
(* Calls of the hook.  A call commits and is acknowledged, commits but the *)
(* acknowledgement is lost (an error after COMMIT), or changes nothing     *)
(* (refused, busy or failed).  The caller cannot tell the last two apart.  *)

HookCall(w, Transaction, acknowledged, failed) ==
  /\ \/ Transaction /\ Become(w, acknowledged)
     \/ Transaction /\ Become(w, failed)
     \/ UNCHANGED stateVars /\ Become(w, failed)
  /\ UNCHANGED <<listVars, calls, foreign>>

IntentOf(s) ==
  [generation |-> s.gen, expected |-> s.seen, prior |-> s.prior,
   run |-> s.run, plan |-> PlanOf[s.run], mutation |-> Mutation]

EventOf(s, code) ==
  [generation |-> s.gen, run |-> s.run, plan |-> PlanOf[s.run],
   mutation |-> Mutation, code |-> code]

\* Mutant of ReadbackOf: every verified observation closes the intent.
ReadbackClosesIfVerified(s) ==
  [generation |-> s.gen, run |-> s.run, plan |-> PlanOf[s.run],
   mutation |-> Mutation, code |-> ReadbackCode(s.obs),
   close |-> s.obs \in {"applied", "not_applied"}, completion |-> Completion(s)]

ReadbackOf(s) ==
  [generation |-> s.gen, run |-> s.run, plan |-> PlanOf[s.run],
   mutation |-> Mutation, code |-> ReadbackCode(s.obs),
   close |-> ~s.need, completion |-> Completion(s)]

-----------------------------------------------------------------------------
(* execute, up to the intent. *)

Execute(w, r) ==
  /\ edge[w].pc = "idle"
  /\ calls < MaxCalls
  /\ calls' = calls + 1
  /\ \/ Become(w, [Idle EXCEPT !.pc = "admit", !.run = r])
     \/ Become(w, Done([Idle EXCEPT !.run = r], "BLOCKED_PLAN"))
  /\ UNCHANGED <<stateVars, listVars, foreign>>

\* The status that ends an execution whose first state read finds the row.
Refusal(s) ==
  IF row.intent = "closed" THEN "BLOCKED_COMPLETED_MUTATION"
  ELSE IF row.intent = "retryable" /\ row.run = s.run
    THEN "BLOCKED_RETRY_AUTHORIZATION"
  ELSE IF row.reconciliation = "required" \/ row.intent = "open"
    THEN "BLOCKED_RECONCILIATION"
  ELSE "none"

Admit(w) == LET s == edge[w] IN
  /\ s.pc = "admit"
  /\ \/ Become(w, Done(s, "BLOCKED_RECONCILIATION_STATE"))
     \/ /\ Refusal(s) # "none"
        /\ Become(w, Done(s, Refusal(s)))
     \/ /\ Refusal(s) = "none"
        /\ Become(w, [s EXCEPT !.seen = row.generation, !.prior = row.run,
                      !.pc = IF method = "POST" THEN "dedupe" ELSE "freshness"])
  /\ LocalStep

\* Before a create: look for items with the mutation's identity.
DedupeRead(w) == LET s == edge[w] IN
  /\ s.pc = "dedupe"
  /\ \/ Become(w, Done(s, "BLOCKED_PREFLIGHT_TRANSPORT"))
     \/ \E obs \in CollectionObservations :
          \/ /\ obs = "invalid"
             /\ Become(w, Done(s, "BLOCKED_DEDUPE_READ"))
          \/ /\ obs = "not_applied"
             /\ Become(w, [s EXCEPT !.pc = "intent", !.gen = s.seen + 1,
                                    !.kind = "write"])
          \/ /\ obs = "applied"
             /\ \E i \in LiveItems :
                  Become(w, [s EXCEPT !.pc = "intent", !.gen = s.seen + 1,
                               !.kind = "dedupe", !.item = i,
                               !.etag = items[i].etag])
          \/ /\ obs \in {"paged", "duplicate", "divergent"}
             /\ Become(w, [s EXCEPT !.pc = "intent", !.gen = s.seen + 1,
                                    !.kind = "ambiguous", !.obs = obs])
  /\ LocalStep

\* Before an update: the item must still carry the ETag of the plan.
FreshnessRead(w) == LET s == edge[w] IN
  /\ s.pc = "freshness"
  /\ \/ Become(w, Done(s, "BLOCKED_PREFLIGHT_TRANSPORT"))
     \/ Become(w, Done(s, "BLOCKED_FRESHNESS_READ"))
     \/ /\ TargetItem \in LiveItems
        /\ items[TargetItem].etag # ExpectedEtag
        /\ Become(w, Done(s, "BLOCKED_ETAG_DRIFT"))
     \/ /\ TargetItem \in LiveItems
        /\ items[TargetItem].etag = ExpectedEtag
        /\ Become(w, [s EXCEPT !.pc = "intent", !.gen = s.seen + 1,
                               !.kind = "write"])
  /\ LocalStep

\* Mutant of RecordIntent: a write follows even an intent that was refused.
RecordIntentUnchecked(w) == LET s == edge[w] IN
  /\ s.pc = "intent"
  /\ HookCall(w, IntentOf(s) \in IntentEvidence /\ Intent(IntentOf(s)),
              [s EXCEPT !.pc = "intentCheck"],
              [s EXCEPT !.pc = IF s.kind = "write" THEN "write" ELSE "outcome"])

RecordIntent(w) == LET s == edge[w] IN
  /\ s.pc = "intent"
  /\ HookCall(w, IntentOf(s) \in IntentEvidence /\ Intent(IntentOf(s)),
              [s EXCEPT !.pc = "intentCheck"], Done(s, "BLOCKED_EVIDENCE"))

IntentIsOpen(s) ==
  /\ row.reconciliation = "clear"
  /\ row.intent = "open"
  /\ row.generation = s.gen
  /\ row.closed = s.seen
  /\ row.run = s.run

CheckIntent(w) == LET s == edge[w] IN
  /\ s.pc = "intentCheck"
  /\ \/ Become(w, Done(s, "BLOCKED_EVIDENCE"))
     \/ /\ IntentIsOpen(s)
        /\ Become(w, [s EXCEPT !.pc = IF s.kind = "write" THEN "write" ELSE "outcome"])
  /\ LocalStep

-----------------------------------------------------------------------------
(* The write request. *)

\* The item the response handlers read back; 0 is the collection.
ReadTarget(named) == IF method = "PATCH" THEN TargetItem ELSE named

Responds(w, kind, named) ==
  Become(w, [edge[w] EXCEPT !.pc = "outcome", !.kind = kind,
                            !.item = ReadTarget(named)])

\* The list takes the request.  Only a success or a 5xx response can name the
\* new item; a retryable or rejected status can hide an applied request.
WriteTakesEffect(w) ==
  /\ Applicable
  /\ items' = AfterWrite
  /\ \/ \E kind \in {"success", "server_error"}, named \in {0, Len(items')} :
          Responds(w, kind, named)
     \/ \E kind \in {"unknown", "retryable", "rejected"} : Responds(w, kind, 0)
  /\ UNCHANGED pending

WriteHasNoEffect(w) ==
  /\ \E kind \in {"unknown", "server_error", "retryable", "rejected",
                  "precondition"}
                 \cup (IF method = "POST" THEN {"conflict"} ELSE {}) :
       Responds(w, kind, 0)
  /\ UNCHANGED <<items, pending>>

\* The caller gives up, or gets a 5xx, while the request is still travelling.
WriteStaysInFlight(w) ==
  /\ \E kind \in {"unknown", "server_error"} : Responds(w, kind, 0)
  /\ pending' = pending \cup {edge[w].gen}
  /\ UNCHANGED items

Write(w) ==
  /\ edge[w].pc = "write"
  /\ writes' = [writes EXCEPT ![edge[w].gen] = writes[edge[w].gen] + 1]
  /\ WriteTakesEffect(w) \/ WriteHasNoEffect(w) \/ WriteStaysInFlight(w)
  /\ UNCHANGED <<stateVars, method, calls, foreign>>

-----------------------------------------------------------------------------
(* After the response: outcome, marker, observation, marker, readback. *)

AfterOutcome(s, ok) ==
  LET t == [s EXCEPT !.recorded = ok] IN
    IF MarksFirst(t)
      THEN [t EXCEPT !.pc = "require", !.place = "before", !.need = TRUE]
      ELSE [t EXCEPT !.pc = "observe"]

RecordOutcome(w) == LET s == edge[w] IN
  /\ s.pc = "outcome"
  /\ HookCall(w, Outcome(EventOf(s, OutcomeCode[s.kind])),
              AfterOutcome(s, TRUE), AfterOutcome(s, FALSE))

AfterRequire(s, ok) ==
  LET t == [s EXCEPT !.persisted = ok] IN
    CASE s.place = "before" ->
           [t EXCEPT !.pc = IF s.kind = "ambiguous" THEN "readback" ELSE "observe"]
      [] s.place = "after" -> [t EXCEPT !.pc = "readback"]
      [] s.place = "final" -> Done(t, Report(t))

\* _persist_reconciliation: the call and the fresh read that confirms it.
Require(w) == LET s == edge[w] IN
  /\ s.pc = "require"
  /\ \E code \in ReasonCodes :
       HookCall(w, RequireReconciliation(EventOf(s, code)),
                [s EXCEPT !.pc = "requireCheck"], AfterRequire(s, FALSE))

CheckRequire(w) == LET s == edge[w] IN
  /\ s.pc = "requireCheck"
  /\ \/ Become(w, AfterRequire(s, FALSE))
     \/ /\ row.reconciliation = "required"
        /\ row.intent = "open"
        /\ row.generation = s.gen
        /\ row.run = s.run
        /\ Become(w, AfterRequire(s, TRUE))
  /\ LocalStep

AfterObserve(s, obs) ==
  LET t == [s EXCEPT !.obs = obs]
      n == [t EXCEPT !.need = NeedsReconciliation(t)] IN
    IF MarksAfter(t) THEN [n EXCEPT !.pc = "require", !.place = "after"]
                     ELSE [n EXCEPT !.pc = "readback"]

\* Mutant of SameItemObservations: the item may have changed since it was seen.
AnyVersionObservations(s) ==
  IF s.item \in LiveItems THEN ItemObservations(s.item) ELSE {"invalid"}

\* An item read that must find the ETag seen in the collection.
SameItemObservations(s) ==
  IF s.item \in LiveItems /\ items[s.item].etag = s.etag
    THEN ItemObservations(s.item) ELSE {"invalid"}

Observe(w) == LET s == edge[w] IN
  /\ s.pc = "observe"
  /\ \/ /\ s.kind = "dedupe"
        /\ \E obs \in SameItemObservations(s) : Become(w, AfterObserve(s, obs))
     \/ /\ s.kind = "conflict"
        /\ \E obs \in CollectionObservations :
             \/ /\ obs # "applied"
                /\ Become(w, AfterObserve(s, "invalid"))
             \/ /\ obs = "applied"
                /\ \E i \in LiveItems :
                     Become(w, [s EXCEPT !.pc = "observeItem", !.item = i,
                                         !.etag = items[i].etag])
     \/ /\ s.kind \notin {"dedupe", "conflict"}
        /\ \E obs \in IF s.item = 0 THEN CollectionObservations
                                    ELSE ItemObservations(s.item) :
             Become(w, AfterObserve(s, obs))
  /\ LocalStep

\* The second read of _handle_409.
ObserveItem(w) == LET s == edge[w] IN
  /\ s.pc = "observeItem"
  /\ \E obs \in SameItemObservations(s) : Become(w, AfterObserve(s, obs))
  /\ LocalStep

\* Mutant of ReadbackFailed: the result does not depend on the readback.
ReadbackFailureIgnored(s) == Done(s, Report(s))

\* A closing readback that is not confirmed turns into a requirement.
ReadbackFailed(s) ==
  IF s.need THEN Done(s, Report(s))
  ELSE [s EXCEPT !.need = TRUE, !.pc = "require", !.place = "final"]

RecordReadback(w) == LET s == edge[w] IN
  /\ s.pc = "readback"
  /\ HookCall(w, ReadbackOf(s) \in ReadbackEvidence /\ Readback(ReadbackOf(s)),
              [s EXCEPT !.pc = "readbackCheck"], ReadbackFailed(s))

ReadbackIsDurable(s) ==
  /\ row.generation = s.gen
  /\ row.run = s.run
  /\ ~s.need =>
       /\ row.reconciliation = "clear"
       /\ row.intent = (IF Completion(s) = "retryable" THEN "retryable" ELSE "closed")
       /\ row.closed = s.gen
  /\ s.need => row.intent = "open" /\ row.closed < s.gen

CheckReadback(w) == LET s == edge[w] IN
  /\ s.pc = "readbackCheck"
  /\ \/ Become(w, ReadbackFailed(s))
     \/ ReadbackIsDurable(s) /\ Become(w, Done(s, Report(s)))
  /\ LocalStep

-----------------------------------------------------------------------------
(* The environment: returns, crashes, other editors, late requests. *)

\* The caller takes the result, or the process dies: both forget the locals.
Return(w) ==
  /\ edge[w].pc = "done"
  /\ Become(w, Idle)
  /\ LocalStep

Crash(w) ==
  /\ edge[w].pc \notin {"idle", "done"}
  /\ Become(w, Idle)
  /\ LocalStep

ForeignChange ==
  /\ foreign < MaxForeign
  /\ foreign' = foreign + 1
  /\ \/ \E i \in LiveItems, a \in BOOLEAN :
          items' = [items EXCEPT ![i].applied = a, ![i].etag = @ + 1]
     \/ \E i \in LiveItems : items' = [items EXCEPT ![i].live = FALSE]
     \/ /\ method = "POST"
        /\ \E a \in BOOLEAN :
             items' = Append(items, [live |-> TRUE, applied |-> a, etag |-> 0,
                                     own |-> FALSE])
  /\ UNCHANGED <<stateVars, method, edge, pending, writes, calls>>

LateRequest(g) ==
  /\ g \in pending
  /\ pending' = pending \ {g}
  /\ items' \in {items} \cup (IF Applicable THEN {AfterWrite} ELSE {})
  /\ UNCHANGED <<stateVars, method, edge, writes, calls, foreign>>

-----------------------------------------------------------------------------
\* Before the first call: the item that an update is for, and for a create nothing
\* or an item that somebody else has made of the same content.
Existing(applied) ==
  [live |-> TRUE, applied |-> applied, etag |-> ExpectedEtag, own |-> FALSE]

EdgeInit ==
  /\ StateInit
  /\ method \in Methods
  /\ edge = [w \in Workers |-> Idle]
  /\ items \in IF method = "POST" THEN {<< >>, << Existing(TRUE) >>}
                                  ELSE {<< Existing(FALSE) >>}
  /\ pending = {}
  /\ writes = [g \in Generations |-> 0]
  /\ calls = 0
  /\ foreign = 0

\* The steps of an execution between its call and its result.
Step(w) ==
  \/ Admit(w) \/ DedupeRead(w) \/ FreshnessRead(w)
  \/ RecordIntent(w) \/ CheckIntent(w) \/ Write(w)
  \/ RecordOutcome(w) \/ Require(w) \/ CheckRequire(w)
  \/ Observe(w) \/ ObserveItem(w)
  \/ RecordReadback(w) \/ CheckReadback(w)

EdgeNext ==
  \/ \E w \in Workers, r \in Runs : Execute(w, r)
  \/ \E w \in Workers : Step(w) \/ Return(w) \/ Crash(w)
  \/ ForeignChange
  \/ \E g \in pending : LateRequest(g)

EdgeSpec == EdgeInit /\ [][EdgeNext]_edgeVars

-----------------------------------------------------------------------------
(* Properties. *)

\* Write-ahead intent (execute, _record_intent): whatever crashes and however
\* executions interleave, a generation sends at most one write request, and
\* only after its intent is durable.
WriteAheadIntent ==
  \A g \in Generations :
    /\ writes[g] <= 1
    /\ writes[g] = 1 => \E e \in intents : e.generation = g

\* A request that may still reach the list keeps its generation open: no
\* response handler, no retry and no restart closes or supersedes it.
InFlightStaysOpen ==
  \A g \in pending : row.generation = g /\ row.intent = "open"

\* A create never duplicates: at most one live item was made by the edge, in
\* spite of retries, lost responses and requests that land late.
OneOwnItem == Cardinality({i \in LiveItems : items[i].own}) <= 1

AppliedResults ==
  {"APPLIED", "DEDUPLICATED", "PRECONDITION_FAILED_ALREADY_APPLIED",
   "RETRYABLE_RESPONSE_STATE_ALREADY_APPLIED",
   "WRITE_REJECTED_STATE_ALREADY_APPLIED"}

\* A returned result is true of the durable state.  A settled status has its
\* outcome event and the closing readback it reports, and no reconciliation;
\* RECONCILIATION_REQUIRED has its marker.  A status other than DEDUPLICATED
\* from the dedupe read stands for exactly one request (write_attempts).
ResultsAreTruthful ==
  \A w \in Workers : LET s == edge[w] IN s.pc = "done" =>
    /\ s.result \in SettledResults =>
         /\ \E e \in outcomes : /\ e.generation = s.gen
                                /\ e.run = s.run
                                /\ e.code = OutcomeCode[s.kind]
         /\ \E e \in readbacks :
              /\ e.generation = s.gen
              /\ e.run = s.run
              /\ e.close
              /\ e.code = IF s.result \in AppliedResults THEN "verified_applied"
                          ELSE "verified_not_applied"
         /\ NoEvent(requirements, s.gen)
         /\ writes[s.gen] = IF s.kind = "dedupe" THEN 0 ELSE 1
    /\ s.result = "RECONCILIATION_REQUIRED" =>
         /\ row.reconciliation = "required"
         /\ row.generation = s.gen
         /\ row.run = s.run

\* No lost update: whatever happens between the freshness read and the moment a
\* request reaches the list, in time or late, the edge never changes an item that
\* another editor has changed since the plan was made, and a create changes none.
NoLostUpdate ==
  [][foreign' = foreign =>
       \A i \in DOMAIN items :
         items'[i] # items[i] =>
           method = "PATCH" /\ items[i].live /\ items[i].etag = ExpectedEtag]_edgeVars

\* An existing item settles a mutation (dedupe read, or 409 to a create) only in
\* the version that was found in the collection: if another editor changes,
\* replaces or deletes it before the item itself is read, the observation that the
\* mutation is applied is not made.
SettlesWhatItFound ==
  [][\A w \in Workers : LET s == edge[w] IN
       s.kind \in {"dedupe", "conflict"} /\ s.obs = "none" /\ edge'[w].obs = "applied" =>
         /\ s.item \in LiveItems /\ items[s.item].applied
         /\ items[s.item].etag = s.etag]_edgeVars

\* The writes of the key obey GovernedWrite: the row and the number of
\* requests sent determine the phase of the abstract pipeline.
Phase ==
  CASE row.intent = "absent" -> "idle"
    [] row.intent = "closed" -> "settled"
    [] row.intent = "retryable" -> "released"
    [] row.reconciliation = "required" -> "suspended"
    [] OTHER -> IF writes[row.generation] = 0 THEN "authorized" ELSE "sent"

Governed == INSTANCE GovernedWrite
              WITH phase <- Phase, generation <- row.generation, sent <- writes

\* Executions of the edge, crashes included, implement the abstract promise.
ImplementsGovernedWrite == Governed!GovernedSpec

\* "If atomic closure physically persists but its downstream state confirmation
\* is unavailable, the current execution returns persistence failure. [...] the
\* mutation can never be released for a second write."
PersistenceFailureBlocksWrites ==
  \A w \in Workers :
    edge[w].pc = "done" /\ edge[w].result = "RECONCILIATION_PERSISTENCE_FAILED" =>
      \A g \in Generations : g > edge[w].gen => writes[g] = 0
=============================================================================
