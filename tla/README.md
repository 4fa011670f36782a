# Verification of NaC

NaC ("Notariat as Code") governs changes to notarial business data that live in
Microsoft 365. Its core is a pipeline that must write to a SharePoint list
through Microsoft Graph *at most once per authorization*, although processes
crash, answers get lost and requests arrive late, and that must leave an
immutable trail of what it did. Beside it stands the performance acceptance of
the deployed service, which sends a counted number of requests under one
exclusive lease and must survive the death of any of its parts. This directory holds TLA+ models of that core,
the TLC configurations that check them and proofs that TLAPS checks.
Paths below are relative to the repository root.

## 1. Inventory

| Component | State | Operations | Hard behaviour |
|---|---|---|---|
| Durable mutation state, `src/nac_m365_graph/business_case_type_write_state.py` | one row and four append-only event tables per execution key (SQLite) | `intent`, `outcome`, `reconciliation_required`, `readback`, `persistence_state` | several processes on one database, lost acknowledgement of a commit |
| Graph write edge, `business_case_type_write_edge.py` | none of its own; locals of `execute` | `execute` and its response handlers | crash at any point, stale state read, uncertain result of a write, late request, other editors |
| Write plan and transport, `business_case_type_write_plan.py`, `business_case_type_write_transport.py` | immutable plan | build, `revalidate`, `write_request`, `request` | timeouts |
| Immutable evidence chain, `src/nac_runtime/immutable_evidence.py`, `sqlite_evidence_staging_outbox.py` | hash-linked events per correlation | `append`, `records`, `verify_chain` | long legal sequences, stuck chains |
| Evidence publication, `immutable_evidence.py` | `_publications`, `_required` of the reconciliation store | `finalize`, `claim_publication`, `advance_publication`, `complete_publication`, `require`, `authorize_publication_retry`, `close` | concurrent publishers, revoked claims, crash between a stage and its effect |
| S4d hook and boundary, `business_case_type_live_write_evidence.py`, `..._live_write_boundary.py` | local row and immutable outbox together, the publication result in the hook | the four hook operations over both stores, `execute` of the boundary | two stores, no common transaction |
| WORM journal, `src/nac_runtime/azure_blob_worm.py` | versions of one blob, container policy | `commit` (put, readback, 412 discovery), `readback` | lost 201, late put, foreign versions, policy drift |
| Performance lease broker, `src/nac_bff/azure_performance_lease_broker*.py` | metadata and lease of one blob; tickets of the client | `acquire`, `assert_held`, `release` | several instances, lost answers, requests executed late |
| Performance acceptance, `azure_performance_runtime.py`, `azure_performance_acceptance.py` | two checkpoint slots and a commit pointer, files of the final evidence | launch, phases, attempts, recovery, release, evidence | death between any two durable writes, repeated launches |
| Migration, quarantine, cache, `src/notary_kg/business_case_type_*.py` | ledgers and files | `run_offline_migration`, quarantine, correction | repeated runs |
| Activation runner and interruption reconciliation, `src/nac_bff/azure_activation_*.py`, `azure_interruption_*.py` | journal of deployment steps | run, interrupt, reconcile | crash recovery |
| Identity and sessions, `src/nac_identity/` | OIDC state, server sessions | login, callback, validate | single use, expiry |
| The rest: BFF, workbench, business_os, knowledge graph, costs, CLI, web, validators in `scripts/` | request-local or files | evaluation, projection, reports | sequential |

How they interact: a *plan* binds a mutation to a target and an authorization
run. `execute` reads the durable row, looks at the list, records an **intent**
(a compare-and-set on the row), sends one request, records the **outcome**,
observes the list again and closes the intent with a **readback**, or marks it
**reconciliation required**, which is sticky. In the live composition (S4d) the
same four events are also appended to an immutable evidence chain, which
`finalize` publishes: to a broker, to a signature anchor and to a WORM journal,
with a persisted write-ahead stage before each effect. When publication fails,
two people authorize a retry or reconcile.

The acceptance run is separate: an operator launches it until it is settled. It
asks the broker for the lease, has the lease confirmed before every attempt,
counts each dispatch in its checkpoint before it happens, stores its terminal
evidence, has the lease released and only then commits the final evidence.

What makes the parts correct:

* *mutation state*: a generation is superseded only after verified
  non-application; uncertainty is sticky; evidence belongs to the run that
  opened the generation; closed is final;
* *write edge*: one request per generation, after a durable intent; nothing that
  may still land is ever closed or superseded; no duplicate item; no edit of
  others is overwritten; results tell the truth about the durable state;
* *evidence chain*: complete chains are final; uncertain writes need dual
  control; no chain gets stuck except by a failed closure;
* *publication*: write-ahead, fencing of revoked publishers, monotone progress,
  durable completion, repeats only on dual-control authority, completion;
* *S4d composition*: closure follows publication, a request follows both
  intents, no mutation is ever sent twice, a verified report is true;
* *journal*: one version and one receipt, receipts read back, a repeated commit
  recognises its own version;
* *broker*: the lease is always on record, a grant is durable, RELEASED means
  released, a terminal state is recorded of a free lease only;
* *acceptance run*: the checkpoint is consistent and can be resumed, attempts are counted
  and never repeated, requests leave under the lease, evidence follows the
  release and is true, a bounded number of launches settles the run.

`PROJECT.json` lists every component, and under `hazards` what is hard to test
in this code, each at its line.

## 2. Modules

| Module | Models |
|---|---|
| `MutationState` | `SqliteMutationEvidenceHook` under arbitrary callers |
| `MutationStateProofs` | proofs: its inductive invariant and seven properties |
| `GovernedWrite` | the abstract promise: idle, authorized, sent, then settled, released or suspended |
| `GraphWriteEdge` (extends `MutationState`) | `BusinessCaseTypeGraphWriteEdge.execute` by crashing processes over a Graph list; refines `GovernedWrite` |
| `GraphWriteEdgeProofs` | proofs: its invariants, six properties, the refinement of `GovernedWrite` and of `MutationState` |
| `EvidenceChain` | `_validate_transition`, `append`, `verify_chain` |
| `EvidenceChainProofs` | proofs: the shape of a chain and three properties |
| `EvidencePublication` (extends `EvidenceChain`) | `finalize` and `InMemoryReconciliationStore` |
| `EvidencePublicationProofs` | proofs: two inductive invariants and six properties |
| `LiveWriteEvidence` (extends `GraphWriteEdge`, instantiates `EvidenceChain`) | the edge over `S4dMutationEvidenceHook`, and the boundary |
| `LiveWriteEvidenceProofs` (extends `GraphWriteEdgeProofs`) | proofs: its inductive invariant, four properties and that it uses `MutationState` as allowed |
| `WormJournal` (extends `EvidenceChain`) | `AzureBlobWormJournal` by concurrent committers |
| `WormJournalProofs` | proofs: its inductive invariant, three properties and that its chain is that of `EvidenceChain` |
| `LeaseBroker` | the broker's state machine over one blob and its lease |
| `LeaseBrokerProofs` | proofs: its inductive invariant and four properties |
| `PerformanceAcceptance` (extends `LeaseBroker`) | the acceptance run as a client of the broker |
| `PerformanceAcceptanceProofs` (extends `LeaseBrokerProofs`) | proofs: the invariants of the client, of its observation, of the release, of the lease and of the launches, and six properties |
| `MC*` | constants and symmetry of the TLC instances |

### MutationState

`row` is the `mutation_state` row of one execution key; `intents`, `outcomes`,
`requirements` and `readbacks` are the event tables. Every statement of the hook
selects by `execution_key`, so keys do not interact and one is enough. A hook
call is one `BEGIN IMMEDIATE` transaction, hence one action: `Intent`
(`OpenFirst`, `OpenRetry`), `Outcome`, `RequireReconciliation`, `Readback`
(`CloseIntent`, `ObserveOnly`). A refused, busy or failing call rolls back: a
stuttering step. The primary key of the event tables (`NoEvent`) is part of
every guard. `plan` is kept apart from the other bindings (`mutation`), because
a retry may change the plan and nothing else (`_same_retry_bindings`). Callers
are arbitrary, so the properties do not rest on the edge behaving well.

### GraphWriteEdge

`edge[w]` holds the locals of the execution in process `w` and a program
counter. Each hook call, each confirming state read and each Graph request is a
step. A hook call can commit and be acknowledged, commit and lose the
acknowledgement, or change nothing (`HookCall`). A request can take effect, have
none, or stay in flight (`pending`) after the caller got a timeout or a 5xx;
`LateRequest` lets it land whenever Graph pleases. The response handlers share
one shape (outcome, marker, observation, marker, readback, marker) and differ in
the tables `OutcomeCode`, `MarksFirst`, `NeedsReconciliation`, `MarksAfter`,
`Completion` and `Report`; `_reconcile_observation_without_write` is the kind
`ambiguous`. `Crash` forgets the locals at any point. `ForeignChange` is another
editor who edits, deletes or creates an item with the same identity. `method` says whether the plan creates
(POST) or updates (PATCH); it is chosen at the start from `Methods`. The list of a
create is empty at the start or holds an item that somebody else made of the same
content, which the dedupe read then finds.

The list is external. Assumed of Graph: a list read is consistent with the
items; `If-Match` is honoured; a response other than a 5xx is final, that is,
such a request does not land later (it may have been applied: 408 and 429
responses can hide an applied request). `write_request` cannot refuse after the
intent because the fresh ETag was compared before, so that branch is not a step.

### EvidenceChain

An event is its phase, result code, reason and the two principals of a closure.
Hashes, sequence numbers and the sixteen bindings are the position in the chain;
an event with other ones is refused. `Transition` keeps the two separate tests
of `_validate_transition`: the rules per phase (`Allowed`) and the declared
orders (`DeclaredPrefix`).

### EvidencePublication

`pub` and `req` are the entries of `_publications` and `_required` for one
correlation, `proc[p]` the locals of the `finalize` call in publisher `p`. Lists
of event hashes are prefixes of an append-only chain, so their length stands for
them. `Can...` are the checks that make a store operation raise, and each
operation is one step because it holds the store's lock. `Advance` is the
`advance` closure at each of its call sites (`AdvanceTo`). A store call can be
performed, refused, or fail on the way there or back (`StoreCall`). The broker,
the anchor and the journal are external: they count what reaches them; a
provider may return another reference than before, which breaks its idempotency
contract and counts as a fault. Claim identifiers are random in the code; in the
model a call takes one that nobody uses.

### LiveWriteEvidence

The hook of S4d stands in front of the local hook. Where `GraphWriteEdge` has
one step for a hook call, this module has one per store that the call touches
(`LocalIntent`, `AppendIntent`; `AppendReadback`, `Finalize`, `LocalReadback`;
and so on), and its own failure branches (`IntentFailed`, `ReadbackRaised`,
`RecordObservedOnly`). All other steps of the edge are those of
`GraphWriteEdge`. `chains[r]` is the canonical chain of the correlation of run
`r`, checked by the transition rules of `EvidenceChain`; `published` is what the
publisher has completed; `receipt[w]` is the hook's `publication_result`.
`CanonicalCode` is the translation of result codes, which is where a verified
non-application turns into a failed readback. The publisher appears by its
interface only: it publishes a complete chain, may fail, and may lose its answer
after the publication is durable; `EvidencePublication` shows that interface.
`Escape` is the boundary's catch-all for an exception that leaves the edge.

### WormJournal

The blob is addressed by a hash of the head of a complete chain, and complete
chains are final (`CompleteChainsAreFinal`, checked in the same run), so one
blob is enough. Its body also holds the anchor, the attestation and the policy:
`BodyOf[c]` is the body of committer `c`. `Put`, `Check`, `List` and each
version read by `Scan` are requests of their own; a put can be applied without
an answer, or travel and arrive later (`LatePut`). `Valid` stands for
`_validate_blob`: the bytes and the lock that the version got when it was made
(`Fitting`), and the container as it is now. `_validate_blob` sends requests
itself, for the provider context and the policy; when one fails, the discovery
takes it for a mismatch and goes on to the next candidate, which `Scan` notes in
`missed`. A failed list or read ends the call. What the blob service does with a
conditional put (`PutIfAbsent`) is external. `ForeignVersion` and `Drift` are others at work in
the storage account. The chain grows in the same run by every event that the
rules tell apart.

### LeaseBroker

`blob` is the metadata record `_BlobState`, `etag` its version, `lease` the
Azure lease on the blob, `call[i]` the command that instance `i` serves. Each
HTTP request is one step (`Exchange`): executed and answered, refused, or timed
out, and then it stays in `late` and may be executed whenever the service
pleases. The instances hold in-process locks only, so they meet in the blob
alone. The `...Load` and `...Probe` actions are the decision tables of the three
operations over the recorded lifecycle, the relation of the ticket to the
recorded one (`Relationship`) and the lease that is seen (`Classify`).
`Unavailable` is a missing token or a failed read, `Crash` the end of a process,
`Outside` somebody else who breaks or takes the lease. Assumed of Azure: a
metadata write with an old ETag or with another lease id than the current one is
refused; an acquire with the id that already holds the lease may be answered
either way.

### PerformanceAcceptance

`slots` and `commit` are the two checkpoint slots and the pointer that makes one
of them authoritative, `file` the files of the final evidence store, `pc` the
step of the one process that the execution fence admits. A durable write is one
step; `TornWrite` dies between the slot and the pointer, `Die` anywhere,
`RunnerException` is any exception of the runner and leads into
`recover_terminal_evidence` (`RecoverTerminal`). Requests to the broker are
`Ask`, answered by the broker's own actions, and `Answered`, `Refused` or
`TimedOut`. Which budget, latency or receipt check fails is a choice. `safety` says
how `runtime_safety` stands to `measurement_preflight`, in the state of the
process and in the committed checkpoint: there is none yet, it was made under
this attestation (`bound`), or under an earlier one (`stale`). A resume
(`Admitted`) and each refresh (`Refreshed`, `PhaseRefreshed`) replace the
attestation (`Rebind`), an observation binds itself to it (`Observed`), and
whatever is written in between is written with the stale binding. `Restorable` is
the check of a launch: consistent counters (`Consistent`) and a binding that is
not stale. `sent`
counts what really left, so that the checkpoint's own count can be compared with
it.

## 3. Runs

| Run | Question | Bounds | Distinct states |
|---|---|---|---|
| `MutationState` | can any order of valid evidence corrupt the row? | 3 generations, 2 runs, 2 plans, 2 mutations | 2.7 k |
| `GraphWriteEdge` | one write, no duplicate, no lost update, truthful results, refinement, for creates and for updates with `If-Match` | 2 processes, 3 calls, 2 generations, 1 foreign change | 2.6 M |
| `EvidencePublication` | write-ahead, fencing, durability, repeats, also when `close` and `authorize` compete | 2 publishers, 3 claims, 2 references, 3 faults, 3 retries | 0.6 M |
| `PublicationCompletes` | does a complete chain get published? | 2 publishers, 2 faults, 4 retries | 0.28 M |
| `LiveWriteEvidence` | do the two stores agree, is anything sent twice? | 2 processes, 2 runs, 3 calls | 1.2 M |
| `WormJournal` | chains final, dual control, not stuck; one receipt that reads back | 3 committers, 2 bodies, 2 faults; the declared orders bound the chain | 1.2 M |
| `LeaseBroker` | is the record true of the lease? | 2 instances, 2 runs, 5 tickets, 4 lease ids, 4 calls, 2 faults | 2.2 M |
| `PerformanceAcceptance` | does a run survive its deaths? | phases of 1 and 2 requests, 5 launches, 2 faults, 10 tickets | 0.8 M |
| `AuthorizationReuse`, `PersistenceFailure`, `LeaseTerminal`, `UnrestorableCheckpoint` | the findings of section 5 | | violations |

Why the bounds are enough to be interesting: two processes are needed for every
race on the row; three calls let a generation be released, superseded, and
raced by a process that read the row before; two generations give a retry a
predecessor; one foreign change moves an ETag, deletes or duplicates, also the
item that a create finds in the list from the start (that such an item appears
and changes later takes two, which only the proofs cover). In
publication three claims give a revoked holder, a current one and a fresh one;
three faults pay for a lost claim answer, a crash after an effect and a
contract-breaking reference in one behaviour. In `LiveWriteEvidence` the third
call meets what two earlier ones left behind; other editors are left to
`GraphWriteEdge`, since the hook never looks at the list. The three committers
are two that agree and one that does not; two faults pay for a put that is lost
and arrives late while another version or a drift interferes. The broker's
tickets are a spare acquire ticket and a release ticket that repeats a nonce;
four calls are an acquire, its retry, and a release with its retry, in any mix,
and each of them has a lease id of its own.
In `PerformanceAcceptance` one phase ends after its only request and the next
goes on, so that a death falls on the first, a middle and the last attempt; the
tickets and lease ids are as many as can be in use at once (blob, call and late
requests), so none ever runs out; five launches are two per fault and one more.
`MaxGeneration` stands for the limit of `_is_generation` and is reached in
`MutationState`. `MaxCalls`,
`MaxForeign`, `MaxFaults`, `MaxRetries` and `MaxLaunches` are bounds of the
models only. `WorkerSymmetry`, `Interchangeable` and `CommitterSymmetry` permute
processes, publishers, claims, references, broker instances, lease ids and the
committers with the same body, which no definition tells apart; the run that checks liveness uses no
symmetry. Deadlock is not checked because all these systems may stop: a closed
or suspended key, a complete chain, a completed publication and a settled run
are ends.

Every property of a passing run has a mutant: an operator marked "Mutant" in its comment,
next to the definition it replaces, a plausible bug that TLC then catches.

### Fairness

The specifications of the write edge state no fairness: the steps of an execution
have no loop and never wait for another process, so that liveness is not where it
could go wrong. `FairPublicationSpec` assumes that
a publisher's call proceeds, that `finalize` is called again, and that operators
authorize a retry when publication is blocked; that is what the retry protocol
is for. Disturbances are finite. Nobody is assumed to append to the outbox.
`PublicationCompletes` excepts one state, `Unclaimable`: a requirement recorded
before any claim while the outbox could not be read has no event and no
principal binding, so that `authorize_publication_retry` and `close` both
refuse it, deliberately.

`LaunchesSuffice` needs no fairness: it counts. An operator who has launched the
run more than twice per disturbance that happened finds it settled, or finds a
checkpoint that no launch restores (finding 4; then the run stays as it is),
unless somebody outside meddled with the lease. A disturbance costs two launches when a
call of the first one gives up a request that the network executes during the
next.

## 4. Proofs

The proofs hold for every value of the constants: any number of runs, plans,
generations, processes, publishers, claims, references, committers, bodies,
broker instances, tickets, phases, requests, launches, faults and retries. The
assumptions they rest on are named next to the constants, and TLC evaluates
them in the runs:

* `MutationState`: `MaxGenerationAssumption` (there is a generation),
  `NoneAssumption` (an absent value is not a run, plan or mutation);
* `GraphWriteEdge`: `MethodAssumption`, `BindingAssumption` (each run has a
  plan, the mutation is one), `CodeAssumption` (the outcome codes of the edge
  are codes the hook accepts);
* `EvidenceChain`: `OfferedAssumption` (callers append events);
* `EvidencePublication`: `ClaimsAssumption`, `BoundsAssumption`;
* `WormJournal`: `BodyAssumption`, `FaultsAssumption`;
* `LeaseBroker`: `TicketAssumption`, `LeaseAssumption`, `BlobAssumption` (no
  blob is not a state of the blob);
* `PerformanceAcceptance`: `PlanAssumption` (there is a phase, and each has
  at least one request; the run and its instance are among the broker's),
  `AbsentAssumption` (no checkpoint and no file are not values of them).

**MutationStateProofs.** `StateInv` is `TypeOK`, `RowShape` (open is one ahead
of closed, anything else is closed up to its generation, only open rows require
reconciliation), `IntentsCoverGenerations` (exactly one intent for each
generation up to the row's, and the last one carries the row's bindings) and the
five safety properties. The two extra parts are what makes it inductive: a
retry is safe because the row's generation has its closing readback
(`ClosureHasProof`), and evidence matches an intent because the row mirrors the
last one. One lemma per transaction, then `StateInvariance`, and from it
`TypeCorrect`, `RetrySafety`, `ReconciliationIsSticky`, `EvidenceBinding`,
`ClosureProof`, `RetrySeparation` and the action property `FinalSettlement`.

**GraphWriteEdgeProofs.** `EdgeInv` adds to `StateInv` what an execution may
rely on. `Sensible` is what its locals say of each other at each step; `Backed`
what the durable state says of them: as long as the closing readback has not
been sent the row is still open at the generation of the execution, the number
of requests is the one its step implies, and what it recorded is there.
`OneOwner` says that no two executions own a generation, and `PendingIsUnclear`
that a request still travelling belongs to the open generation, which its
execution will mark and never close. The proof is the same for every step: one
execution moves, and what a step leaves alone (`Leaves`) is enough to keep the
others backed (an open row of another generation, a row that requires
reconciliation, the requests of other generations). From it follow `WriteAhead`,
`InFlightOpen` and `TruthfulResults`. `UpdatesAreNotLost` and
`ExistingItemIsTheOneFound` speak of single steps over all actions: only a write
or a late request of the edge touches an item, under `If-Match`, and only an item
read in the version that was found is an observation. `EdgeUsesState` shows that every step of
the edge is a step of `MutationState` or leaves it alone, so that the theorems
of `MutationStateProofs` hold of the edge; `EdgeIsGoverned` is the refinement of
`GovernedWrite`, action by action over the phase of the row, where a release is
possible only after the request was answered. `SingleItem` needs a second
invariant, `ItemInv`: the list of a create holds nothing of the edge before the
request of the current generation is sent, nor while it travels (`Created`), and
a generation is released only when the whole collection was seen without it
(`Checked`).

**EvidenceChainProofs.** `ChainShape` spells out the chains that the transition
rules admit: a prefix of one of the declared orders, in which a readback right
after the outcome means that the outcome was not uncertain, and a closure says
"reconciled" only of a successful readback. From it `CompleteChainsFinal`, `DualControl` and
`NotStuck`; the last one assumes `TwoPrincipals`, since a closure by two people
needs two people.

**EvidencePublicationProofs.** `PublicationInv` says that chains fit their
bound, that the store is well formed, that a publisher whose claim is the stored
one works on the stored progress (`InStep`) while any other publisher that runs
is covered by it (`Covered`), that no two publishers share a claim, and that
every effect is covered by a stored stage. `Covered` is the point: a publisher
whose claim was revoked can still reach the broker or the journal, and the
effect is still announced because stages never regress. From it follow
`PublicationTypeCorrect`, `WriteAhead`, `SingleHolder` and the action property
`MonotoneProgress`. A second invariant, `DurableInv`, speaks of what is held:
the claimed events are a chain that was complete (`ClaimedChain`), the
references a publisher works with were really received (`ReceiptsHeld`), nothing
blocks a completed publication (`Unblocked`), and there is a budget
(`BudgetOK`): what was delivered, plus the publishers about to deliver, plus the
claim that could be granted now, is at most one more than the authorized
retries. From it `DurableCompletion` and `AuthorizedRepeats`.

**WormJournalProofs.** `JournalInv`: version ids are unique, an untouched blob
has one sound version at most, receipts name a locked version with their body,
and a committer that scans has, of every version, either still to read it, or
found it, or seen another body, or got no answer about it (`DiscoveryIsSound`). Versions are never changed,
so what was found stays true however late another put arrives. From it
`SingleReceipt`, `DurableReceipts` and `RejectionHasCause`. `JournalChain` shows
that the chain of this module behaves as `EvidenceChain` says, so the theorems
on chains hold of it.

**LeaseBrokerProofs.** A call may work with a state that is stale, and a request
whose caller gave up may be executed at any later time. `CallOK` and `RequestOK`
say of every call and every request what remains true however the blob moves on,
and `Later` is how it may move on: the lease keeps its id and its run, a marker
is not taken back, an ETag names one state. A lemma per request kind shows that
executing it, now or late, is such a move; then nothing has to be said about
which instance sent it. From `BrokerInvariance` follow `RecordedLease`,
`DurableGrant`, `ReleasedMeansReleased` and the action property
`TerminalIsRecordedFree`.

**PerformanceAcceptanceProofs.** Six invariants. `ClientInv` needs nothing of
the broker: the committed checkpoint is whole and its counters balance
(`Balanced`), they tally with what was sent (`Tallied`), each step knows what
the checkpoint says (`At`) and what is in the files (`Filed`). The sum of the
first phases, `Planned`, is a recursive function; its recursion is proved from
the least element of a set of numbers. From it
`CountedDispatches` and `TrueEvidence`. `BindingInv` follows the observation: a
first launch, which restores nothing, holds a stale one only between a refresh and
its observation and commits it only in a failing run (`Spoilt`), and every phase
that passed has an observation; hence `ConsistentCheckpoint`. `RunInv` adds the broker: with the one
instance of the run a recorded release cannot be overwritten, because every
metadata request that is still in the network carries an older ETag or records
the release itself (`Final`); hence `EvidenceComesAfterRelease`. `LeaseInv` is
about the time between the grant and the first failure: a confirmation uses a
ticket the blob has not seen, so an answer HELD means that it rewrote the
metadata, and everything that was still in the network is then behind
(`Confirming`, `Sealed`); hence `DispatchUnderLease`. The last two give
`LaunchesAreEnough`. `OrderInv` says what the broker keeps in order while nobody
meddles: no request in the network leads the lifecycle back (`Fits`), a recorded
lease is there (`Agreed`), and a client past its acquire has had it recorded
(`Recorded`). On it rests `OnTrack`: a call with a new nonce whose ETag and lease
are the current ones takes its next step with success, so that an acquire grants,
an assert confirms and a release settles the run; there is one lemma for each
step of the broker. `LaunchInv` is the account: either the run is settled, or the
launches and the requests still in the network together are at most twice the
faults, or they are exactly one more and then the launch in progress is
`Undisturbed` and cannot end without settling the run, or the checkpoint is not
restorable and no launch gets past it (`Wedged`). A fault adds two to what is
paid and at most one request to the network; a late request that is executed
leaves the network and may upset one launch.

**LiveWriteEvidenceProofs.** The argument: the local hook records a closing
readback only after the canonical chain was published, a chain of three events
is published only when its readback is verified (`PublishedIsApplied`), and a
verified non-application is a failed canonical readback. So no readback releases
the generation (`NoRelease`), there is only a first one (`FirstIsLast`), and the
execution that recorded its intent is the only one that ever holds it
(`OneHolder`). `LiveInv` adds to `StateInv` and these what the locals of an
execution say of each other (`Locals`), what the row, the chain, the publication
and the receipt of the hook say of them at each step (`Tied`), and that a
request has both of its intents (`RequestsOK`). A published chain takes no
further event (`VerifiedIsFinal`), so a late append cannot spoil it. The proof
has one lemma per step of the hook, each of them under every answer that the
store can give or lose. From it `PublishedClosure`, `CanonicalWriteAhead`,
`NoReplay` and `TrueVerification`; `LiveUsesState` carries the theorems of
`MutationStateProofs` over to the composition.

Only model-checked: the liveness property `PublicationCompletes`, since fairness
and ENABLED are out of the prover's reach.
Every invariant and every action property of a passing run is proved.

## 5. Findings

1. `AuthorizationReuse`: the S4b design says a released generation may be
   restarted only with a *new* authorization-run identity. `_intent` compares
   with the immediately preceding identity only, so run A can come back after
   run B (A, B, A).
2. `PersistenceFailure`: the S4b design says that a closure which persists
   without confirmation blocks every later write. That holds for terminal
   closures; a *retryable* closure is released, and another authorization run
   writes.
3. `LeaseTerminal`: the operations guide says that a loss is recorded as
   terminal and that the lease is never reacquired automatically.
   `_dispatch_acquire` sends its request without `If-Match`, so a broker
   instance that stalls between its marker and its acquire takes the lease again
   after another instance has recorded RELEASED or LOST, and writes HELD over
   it. It needs two instances at the same time; the deployment allows four.
4. `UnrestorableCheckpoint`: the contract demands a resumable state, and the
   operations guide says that a checkpoint is resumed or terminalized as FAILED. A
   resume replaces `measurement_preflight` by a new attestation and writes it with
   the next checkpoint, before the safety observation is renewed; so does a refused
   observation after a refresh. `_validate_runtime_safety_summary` demands that the
   observation names the attestation of the state. If the process dies in between
   (or before the terminal evidence of such a failed run is stored), every later
   launch and its recovery raise PERFORMANCE_STATE_INVALID, and the lease stays
   HELD. The tests of a resume use one constant attestation, whose digest never
   changes. `CheckpointConsistent` shows that nothing else is wrong with a
   checkpoint, and `LaunchesSuffice` that nothing else wedges a run.

Further observations, which have no run of their own:

* While the journal's discovery validates a candidate, `_validate_blob` asks for
  the provider context and the container policy; a failure of one of these
  requests is a `_Rejected` like any mismatch, and `_discover_conflict_version`
  goes on to the next candidate (`azure_blob_worm.py` 404-412). The journal then
  rejects its own version, and the call can be repeated; `RejectedForCause` says
  that nothing else turns it away. If somebody added a second matching version, the
  other one passes as the only match, although the S6b design has ambiguous
  versions block.
* When the outcome of the dedupe branch is not acknowledged, `execute` persists
  the reconciliation marker twice (`write_edge.py` 197 and 224). The local hook
  refuses the second, and the result says that the marker could not be persisted
  although it was. The S4d hook answers "already required" and avoids this.
* Under S4d a verified non-application makes the chain impossible to publish, so
  the row is never released: a mutation is sent at most once ever, and the first
  two findings do not arise there. The statuses for a retryable or rejected
  write in the boundary's list of verified ones cannot occur with a receipt.
* A release whose final metadata write is lost ends as LOST. The broker never
  infers RELEASED from an absent lease, so the evidence of such a run is not
  committed.
* If somebody breaks the lease while HELD is recorded, every later acquire
  answers INDETERMINATE_AFTER_CRASH: the run stays unsettled until an assert or
  a release is asked for, which an acquiring client never does.
* The key of the WORM blob depends on the head of the chain, its body also on
  the anchor and the attestation: a commit with another anchor, or by a
  deployment that was attested again, is turned away. A version that was created
  while the policy had drifted stays invalid and blocks its key for good. Both
  fail closed.

## 6. Plan

Done: mutation state, write edge with its abstract specification, evidence
chain, publication, the S4d composition, the WORM journal, the lease broker and
the acceptance run; the proofs above. Next, in this order:

1. Single-use OIDC state and sessions.
2. The activation runner and interruption reconciliation.
3. The migration runner and its quarantine.

## 7. Not modelled

`PROJECT.json` records the reason per component. Most of the repository is not a
system of interacting parts: about 350 implementation files, of which the ones
modelled here carry the durable state that several processes share.

* *Data validation and canonicalisation* (the plan builder, policy and receipt
  validators, `azure_performance_infrastructure_safety.py`, the validators in
  `scripts/`, most of `azure_activation_composition.py`): long functions that
  accept or reject one document. A model of the verdict is a Boolean choice,
  which is how the modelled components see them; a model of the checks would
  repeat them line by line.
* *Sequential orchestration and presentation* (`nac_cli/cli.py`,
  `nac_web/server.py`, the BFF's request handling, reports): no state that
  outlives a call and nothing that interleaves.
* *Pure catalogues and calculations* (knowledge graph, costs, legal catalogues,
  the business OS evaluation): data in, data out; their tests compare values.
* *Candidates that have state*: OIDC state and sessions, activation and
  interruption reconciliation, migration quarantine. They are in the plan.
* *Direct blob lease adapter*: replaced by the broker in the composition.
* Inside the modelled components: cryptography, formatting, hashing, clocks and
  latency statistics; a check on them is a choice to pass or fail.
