------------------------ MODULE EvidencePublication ------------------------
(***************************************************************************)
(* Publication of one evidence chain: ImmutableEvidencePublisher.finalize  *)
(* and InMemoryReconciliationStore of nac_runtime/immutable_evidence.py,   *)
(* run by concurrent publishers that can crash, over a broker, a signature *)
(* anchor and a WORM journal (external).                                   *)
(*                                                                         *)
(* The chain grows while finalize is called (EvidenceChain).  Chains are   *)
(* append-only, so a list of event hashes is a prefix of the chain and is  *)
(* represented by its length; head 0 is ZERO_HASH.  The tenant and         *)
(* principal-key bindings are the same for all callers; a caller with      *)
(* another binding is refused.  A requirement of finalize always has the   *)
(* reason "evidence-publication-incomplete".                               *)
(*                                                                         *)
(* One counter, faults, pays for every disturbance: a crash, a failing     *)
(* port, a lost answer, a provider that breaks its contract and an         *)
(* operator who authorizes a retry that is not needed.                     *)
(***************************************************************************)
EXTENDS EvidenceChain, FiniteSets

CONSTANTS
  Publishers,      \* threads or processes that call finalize
  Claims,          \* claim_id values; a call takes one that is not in use
  Refs,            \* receipt references of the anchor and the journal
  None,            \* no claim, no reference
  MaxFaults,       \* bound on disturbances
  MaxRetries       \* bound on authorized retries

ASSUME ClaimsAssumption ==
  /\ IsFiniteSet(Claims) /\ IsFiniteSet(Publishers)
  /\ Cardinality(Claims) > Cardinality(Publishers)
  /\ None \notin Claims \cup Refs
ASSUME BoundsAssumption == MaxFaults \in Nat /\ MaxRetries \in Nat

VARIABLES
  pub,             \* _publications[correlation]
  req,             \* _required[correlation]
  proc,            \* proc[p] = local state of the finalize call in p
  delivered,       \* delivered[i] = how often event i reached the broker
  anchors,         \* references the anchor has issued
  worms,           \* what the journal has committed
  commits,         \* number of commits the journal has seen
  faults           \* disturbances so far

storeVars == <<pub, req>>
externalVars == <<delivered, anchors, worms, commits>>
publicationVars == <<chain, pub, req, proc, delivered, anchors, worms, commits, faults>>

-----------------------------------------------------------------------------
(* Progress. *)

\* _PUBLICATION_STAGE_ORDER
Snapshot == 0
BrokerInFlight == 1
BrokerComplete == 2
AnchorInFlight == 3
AnchorReadbackInFlight == 4
AnchorReadbackComplete == 5
WormCommitInFlight == 6
WormReadbackInFlight == 7
WormReadbackComplete == 8
Stages == Snapshot .. WormReadbackComplete

MaxEvents == 7

NoProgress == [stage |-> Snapshot, acks |-> 0, anchor |-> None, worm |-> None]

\* _publication_progress: the references fit the stage.
WellFormed(g) ==
  /\ g.stage >= BrokerComplete => g.acks > 0
  /\ (g.stage >= AnchorReadbackInFlight) <=> (g.anchor # None)
  /\ (g.stage >= WormReadbackInFlight) <=> (g.worm # None)

\* _validate_publication_progress_advance
Extends(old, new) ==
  /\ old.stage <= new.stage
  /\ new.stage <= old.stage + 1
  /\ old.acks <= new.acks
  /\ old.anchor # None => new.anchor = old.anchor
  /\ old.worm # None => new.worm = old.worm

\* _validate_publication_progress_event_binding
BoundToEvents(g, events) ==
  /\ g.acks <= events
  /\ g.stage >= BrokerComplete => g.acks = events

NoPublication ==
  [status |-> "none", events |-> 0, claim |-> None, progress |-> NoProgress,
   retries |-> 0]

NoRequirement ==
  [present |-> FALSE, head |-> 0, progress |-> NoProgress,
   authorized |-> FALSE, retries |-> 0]

-----------------------------------------------------------------------------
(* The reconciliation store; each operation holds its lock.  The Can...    *)
(* predicates are the checks that make an operation raise.                 *)

CanClaimFirst(n) ==
  /\ pub.status = "none"
  /\ req.present => req.authorized /\ req.head <= n

CanClaimAgain(n) ==
  /\ ~req.present
  /\ pub.status = "publishing"
  /\ pub.events = n
  /\ pub.claim = None

\* Mutant of CanClaim: a claim that is still held can be taken over.
CanClaimHeld(n) ==
  \/ CanClaimFirst(n)
  \/ ~req.present /\ pub.status = "publishing" /\ pub.events = n

CanClaim(n) == CanClaimFirst(n) \/ CanClaimAgain(n)

ClaimPublication(c, n) ==
  /\ pub' = IF pub.status = "none"
              THEN [status |-> "publishing", events |-> n, claim |-> c,
                    progress |-> NoProgress, retries |-> req.retries]
              ELSE [pub EXCEPT !.claim = c]
  /\ req' = NoRequirement

ActiveClaim(c) == pub.status = "publishing" /\ pub.claim = c

\* Mutant of CanAdvance: whoever once held the claim may store progress.
CanAdvanceUnfenced(c, g) ==
  /\ pub.status = "publishing"
  /\ WellFormed(g)
  /\ BoundToEvents(g, pub.events)

CanAdvance(c, g) ==
  /\ ActiveClaim(c)
  /\ WellFormed(g)
  /\ Extends(pub.progress, g)
  /\ BoundToEvents(g, pub.events)

AdvancePublication(g) ==
  /\ pub' = [pub EXCEPT !.progress = g]
  /\ UNCHANGED req

\* The result names the references of the call, which must be the stored ones.
CanComplete(c, g) ==
  /\ ActiveClaim(c)
  /\ pub.progress.stage = WormReadbackComplete
  /\ BoundToEvents(pub.progress, pub.events)
  /\ g.anchor = pub.progress.anchor
  /\ g.worm = pub.progress.worm

CompletePublication ==
  /\ pub' = [pub EXCEPT !.status = "completed", !.claim = None]
  /\ UNCHANGED req

\* require: by the holder of claim c, or (c = None) before any claim.  A
\* requirement that is already there must be the same.
RequirementOf(head) ==
  [present |-> TRUE, head |-> head, progress |-> pub.progress,
   authorized |-> FALSE, retries |-> 0]

CanRequire(c, head) ==
  /\ pub.status # "completed"
  /\ pub.status = "publishing" =>
       /\ c # None => pub.claim = c
       /\ head = pub.events
  /\ req.present => req = RequirementOf(head)

RequirePublication(head) ==
  /\ req' = RequirementOf(head)
  /\ UNCHANGED pub

\* authorize_publication_retry, by two separate principals.  Before a claim,
\* a requirement without events has no principal-key binding.
CanAuthorize ==
  \/ pub.status = "publishing"
  \/ pub.status = "none" /\ req.present /\ req.head > 0

\* Mutant of AuthorizeRetry: the requirement of a claimed publication stays.
AuthorizeKeepsRequirement ==
  IF pub.status = "none"
    THEN /\ req' = [req EXCEPT !.authorized = TRUE, !.retries = req.retries + 1]
         /\ UNCHANGED pub
    ELSE /\ UNCHANGED req
         /\ pub' = [pub EXCEPT !.claim = None, !.retries = pub.retries + 1]

AuthorizeRetry ==
  IF pub.status = "none"
    THEN /\ req' = [req EXCEPT !.authorized = TRUE, !.retries = req.retries + 1]
         /\ UNCHANGED pub
    ELSE /\ req' = NoRequirement
         /\ pub' = [pub EXCEPT !.claim = None, !.retries = pub.retries + 1]

\* close: the chain itself reconciles the requirement that follows its head,
\* and the caller's principals are the ones of its closure event.
CanClose(operator, approver) ==
  /\ operator # approver
  /\ req.present
  /\ Complete(chain)
  /\ req.head > 0
  /\ req.head < Len(chain)
  /\ chain[req.head + 1].phase = "reconciliation_required"
  /\ chain[req.head + 1].reason = "evidence-publication-incomplete"
  /\ Last(chain).operator = operator
  /\ Last(chain).approver = approver
  /\ chain[Len(chain) - 1].code \in SuccessReadbackCodes
  /\ Last(chain).code = "reconciled"

-----------------------------------------------------------------------------
(* The publisher. *)

IdleProc == [pc |-> "idle", n |-> 0, claim |-> None, g |-> NoProgress]

Become(p, s) == proc' = [proc EXCEPT ![p] = s]

Fault == faults < MaxFaults /\ faults' = faults + 1

\* A store call is performed or refused; it can also fail on the way there or
\* on the way back, which the caller cannot tell apart.
StoreCall(p, can, Operation, performed, failed) ==
  /\ \/ can /\ Operation /\ Become(p, performed) /\ UNCHANGED faults
     \/ ~can /\ UNCHANGED storeVars /\ Become(p, failed) /\ UNCHANGED faults
     \/ can /\ Operation /\ Become(p, failed) /\ Fault
     \/ UNCHANGED storeVars /\ Become(p, failed) /\ Fault
  /\ UNCHANGED <<chain, externalVars>>

\* Mutant of Load: the verdict of verify_chain is not looked at.
LoadAnyChain(p) ==
  /\ proc[p].pc = "idle"
  /\ Len(chain) > 0
  /\ Become(p, [IdleProc EXCEPT !.pc = "claim", !.n = Len(chain)])
  /\ UNCHANGED <<chain, storeVars, externalVars, faults>>

\* The outbox snapshot.  An outbox that cannot be read counts as no events.
Load(p) ==
  /\ proc[p].pc = "idle"
  /\ \/ /\ Complete(chain)
        /\ Become(p, [IdleProc EXCEPT !.pc = "claim", !.n = Len(chain)])
        /\ UNCHANGED faults
     \/ /\ ~Complete(chain)
        /\ Become(p, [IdleProc EXCEPT !.pc = "refuse", !.n = Len(chain)])
        /\ UNCHANGED faults
     \/ /\ Become(p, [IdleProc EXCEPT !.pc = "refuse"])
        /\ Fault
  /\ UNCHANGED <<chain, storeVars, externalVars>>

Refuse(p) == LET s == proc[p] IN
  /\ s.pc = "refuse"
  /\ StoreCall(p, CanRequire(None, s.n), RequirePublication(s.n), IdleProc, IdleProc)

FreshClaims == Claims \ ({pub.claim} \cup {proc[q].claim : q \in Publishers})

\* A claim that is refused, or answered by a completed publication, ends the
\* call without a requirement.
Claim(p) == LET s == proc[p] IN
  /\ s.pc = "claim"
  /\ \E c \in FreshClaims :
       StoreCall(p, CanClaim(s.n), ClaimPublication(c, s.n),
                 [s EXCEPT !.pc = "broker", !.claim = c, !.g = pub.progress],
                 IdleProc)

\* Which stage is persisted at a program point, and what follows.
AdvanceTo(s) ==
  CASE s.pc = "broker" /\ s.g.acks < s.n -> <<BrokerInFlight, "publish">>
    [] s.pc = "acked" -> <<BrokerInFlight, "broker">>
    [] s.pc = "broker" /\ s.g.acks = s.n -> <<BrokerComplete, "prepareAnchor">>
    [] s.pc = "prepareAnchor" -> <<AnchorInFlight, "anchor">>
    [] s.pc = "anchored" -> <<AnchorReadbackInFlight, "readAnchor">>
    [] s.pc = "anchorRead" -> <<AnchorReadbackComplete, "prepareWorm">>
    [] s.pc = "prepareWorm" -> <<WormCommitInFlight, "commit">>
    [] s.pc = "committed" -> <<WormReadbackInFlight, "readWorm">>
    [] s.pc = "wormRead" -> <<WormReadbackComplete, "complete">>

AdvancePoints ==
  {"broker", "acked", "prepareAnchor", "anchored", "anchorRead", "prepareWorm",
   "committed", "wormRead"}

\* A resumed publication never lowers its stage.
Raise(g, stage) == [g EXCEPT !.stage = IF g.stage < stage THEN stage ELSE g.stage]

\* Mutant of Advance: finalize goes on although the stage was not stored.
AdvanceRegardless(p) == LET s == proc[p] IN
  /\ s.pc \in AdvancePoints
  /\ LET g == Raise(s.g, AdvanceTo(s)[1]) IN
       StoreCall(p, CanAdvance(s.claim, g), AdvancePublication(g),
                 [s EXCEPT !.g = g, !.pc = AdvanceTo(s)[2]],
                 [s EXCEPT !.g = g, !.pc = AdvanceTo(s)[2]])

Advance(p) == LET s == proc[p] IN
  /\ s.pc \in AdvancePoints
  /\ LET g == Raise(s.g, AdvanceTo(s)[1]) IN
       StoreCall(p, CanAdvance(s.claim, g), AdvancePublication(g),
                 [s EXCEPT !.g = g, !.pc = AdvanceTo(s)[2]],
                 [s EXCEPT !.g = g, !.pc = "fail"])

FailProc(p) == Become(p, [proc[p] EXCEPT !.pc = "fail"])

Publish(p) == LET s == proc[p] IN
  /\ s.pc = "publish"
  /\ \/ /\ delivered' = [delivered EXCEPT ![s.g.acks + 1] = @ + 1]
        /\ \/ Become(p, [s EXCEPT !.pc = "acked", !.g.acks = @ + 1]) /\ UNCHANGED faults
           \/ FailProc(p) /\ Fault
     \/ UNCHANGED delivered /\ FailProc(p) /\ Fault
  /\ UNCHANGED <<chain, storeVars, anchors, worms, commits>>

\* The operation key makes a provider repeat its reference; one that does not
\* breaks its contract, and the publisher refuses the new reference.
Anchor(p) == LET s == proc[p] IN
  /\ s.pc = "anchor"
  /\ \/ \E r \in Refs :
          /\ anchors' = anchors \cup {r}
          /\ IF anchors = {} \/ r \in anchors THEN UNCHANGED faults ELSE Fault
          /\ IF s.g.anchor \in {None, r}
               THEN Become(p, [s EXCEPT !.pc = "anchored", !.g.anchor = r])
               ELSE FailProc(p)
     \/ UNCHANGED anchors /\ FailProc(p) /\ Fault
  /\ UNCHANGED <<chain, storeVars, delivered, worms, commits>>

Commit(p) == LET s == proc[p] IN
  /\ s.pc = "commit"
  /\ \/ \E r \in Refs :
          /\ worms' = worms \cup {[events |-> s.n, anchor |-> s.g.anchor, ref |-> r]}
          /\ commits' = commits + 1
          /\ IF worms = {} \/ \E w \in worms : w.ref = r
               THEN UNCHANGED faults ELSE Fault
          /\ IF s.g.worm \in {None, r}
               THEN Become(p, [s EXCEPT !.pc = "committed", !.g.worm = r])
               ELSE FailProc(p)
     \/ UNCHANGED <<worms, commits>> /\ FailProc(p) /\ Fault
  /\ UNCHANGED <<chain, storeVars, delivered, anchors>>

\* A readback that differs from its receipt, or does not answer, fails.
ReadReceipt(p) == LET s == proc[p] IN
  /\ \/ /\ s.pc = "readAnchor"
        /\ Become(p, [s EXCEPT !.pc = "anchorRead"]) /\ UNCHANGED faults
     \/ /\ s.pc = "readWorm"
        /\ Become(p, [s EXCEPT !.pc = "wormRead"]) /\ UNCHANGED faults
     \/ s.pc \in {"readAnchor", "readWorm"} /\ FailProc(p) /\ Fault
  /\ UNCHANGED <<chain, storeVars, externalVars>>

Finish(p) == LET s == proc[p] IN
  /\ s.pc = "complete"
  /\ StoreCall(p, CanComplete(s.claim, s.g), CompletePublication,
               IdleProc, [s EXCEPT !.pc = "fail"])

Fail(p) == LET s == proc[p] IN
  /\ s.pc = "fail"
  /\ StoreCall(p, CanRequire(s.claim, s.n), RequirePublication(s.n), IdleProc, IdleProc)

Crash(p) ==
  /\ proc[p].pc # "idle"
  /\ Become(p, IdleProc)
  /\ Fault
  /\ UNCHANGED <<chain, storeVars, externalVars>>

-----------------------------------------------------------------------------
(* Callers of the outbox and the two people who reconcile. *)

Grow ==
  /\ ChainNext
  /\ UNCHANGED <<storeVars, proc, externalVars, faults>>

Blocked ==
  \/ /\ pub.status = "publishing"
     /\ \/ req.present
        \/ pub.claim # None /\ \A p \in Publishers : proc[p].claim # pub.claim
  \/ pub.status = "none" /\ req.present /\ ~req.authorized

Authorize ==
  /\ CanAuthorize
  /\ pub.retries + req.retries < MaxRetries
  /\ AuthorizeRetry
  /\ IF Blocked THEN UNCHANGED faults ELSE Fault
  /\ UNCHANGED <<chain, proc, externalVars>>

Close ==
  /\ \E operator, approver \in Principals : CanClose(operator, approver)
  /\ req' = NoRequirement
  /\ UNCHANGED <<chain, pub, proc, externalVars, faults>>

-----------------------------------------------------------------------------
PublicationInit ==
  /\ ChainInit
  /\ pub = NoPublication
  /\ req = NoRequirement
  /\ proc = [p \in Publishers |-> IdleProc]
  /\ delivered = [i \in 1 .. MaxEvents |-> 0]
  /\ anchors = {}
  /\ worms = {}
  /\ commits = 0
  /\ faults = 0

Step(p) ==
  \/ Refuse(p) \/ Claim(p) \/ Advance(p) \/ Publish(p) \/ Anchor(p)
  \/ Commit(p) \/ ReadReceipt(p) \/ Finish(p) \/ Fail(p)

PublicationNext ==
  \/ \E p \in Publishers : Load(p) \/ Step(p) \/ Crash(p)
  \/ Authorize
  \/ Close
  \/ Grow

PublicationSpec == PublicationInit /\ [][PublicationNext]_publicationVars

\* Port calls end, finalize is called again until it succeeds, and the two
\* principals act when a publication is blocked.
FairPublicationSpec ==
  /\ PublicationSpec
  /\ \A p \in Publishers : WF_publicationVars(Load(p) \/ Step(p))
  /\ WF_publicationVars(Blocked /\ Authorize)

-----------------------------------------------------------------------------
(* Properties. *)

\* The store, the publishers and the ports hold the values the code gives them.
PublicationTypeOK ==
  /\ pub.status \in {"none", "publishing", "completed"}
  /\ pub.events \in 0 .. MaxEvents
  /\ pub.claim \in Claims \cup {None}
  /\ pub.retries \in Nat
  /\ pub.progress \in [stage : Stages, acks : 0 .. MaxEvents,
                       anchor : Refs \cup {None}, worm : Refs \cup {None}]
  /\ WellFormed(pub.progress)
  /\ req.present \in BOOLEAN /\ req.head \in 0 .. MaxEvents
  /\ \A p \in Publishers :
       /\ proc[p].claim \in Claims \cup {None}
       /\ proc[p].n \in 0 .. MaxEvents
       /\ proc[p].g \in [stage : Stages, acks : 0 .. MaxEvents,
                         anchor : Refs \cup {None}, worm : Refs \cup {None}]

\* A completed publication is what finalize reports: the whole chain, which
\* can no longer grow, is with the broker, and the journal has committed it
\* with the stored anchor and receipt.  Nothing blocks it any more.
CompletedIsDurable ==
  pub.status = "completed" =>
    /\ Complete(chain) /\ pub.events = Len(chain)
    /\ \A i \in 1 .. pub.events : delivered[i] > 0
    /\ pub.progress.anchor \in anchors
    /\ [events |-> pub.events, anchor |-> pub.progress.anchor,
        ref |-> pub.progress.worm] \in worms
    /\ ~req.present

\* "Before every possible external side effect, one write-ahead stage is
\* persisted" (advance in finalize): no effect is ahead of the stored stage,
\* even one caused by a publisher whose claim was revoked meanwhile.
EffectsAreWrittenAhead ==
  /\ \A i \in 1 .. MaxEvents : delivered[i] > 0 =>
       pub.progress.stage >= BrokerInFlight /\ i <= pub.progress.acks + 1
  /\ anchors # {} => pub.progress.stage >= AnchorInFlight
  /\ worms # {} => pub.progress.stage >= WormCommitInFlight

\* An effect is repeated only on dual-control authority: an event reaches the
\* broker, and a chain the journal, at most once per granted claim, and every
\* claim after the first was authorized (authorize_publication_retry).
RepeatsAreAuthorized ==
  /\ \A i \in 1 .. MaxEvents : delivered[i] <= 1 + pub.retries
  /\ commits <= 1 + pub.retries

\* Stored progress only grows, whichever publisher stores it: stages do not
\* regress or skip, acknowledgements are append-only, references are never
\* replaced, the claimed chain is fixed and a completed publication is final.
ProgressOnlyGrows ==
  [][/\ pub.status # "none" => /\ Extends(pub.progress, pub'.progress)
                               /\ pub'.events = pub.events
                               /\ pub'.retries >= pub.retries
     /\ pub.status = "completed" => pub' = pub]_publicationVars

\* At most one publisher can store progress: of the calls that were granted a
\* claim and still run, only the holder of the stored claim passes
\* _active_claim, and its copy of the progress is the stored one or ahead of
\* it by what it is about to store.
HolderIsCurrent ==
  \A p \in Publishers :
    LET s == proc[p] IN
      s.pc # "fail" /\ s.claim # None /\ ActiveClaim(s.claim) =>
        /\ s.n = pub.events
        /\ s.g.stage = pub.progress.stage
        /\ s.g.acks - pub.progress.acks = IF s.pc = "acked" THEN 1 ELSE 0
        /\ \A q \in Publishers : proc[q].claim = s.claim => q = p

\* A requirement raised before the outbox could be read (head ZERO_HASH): it
\* has no principal-key binding and no event, so nobody can authorize a retry.
Unclaimable == pub.status = "none" /\ req.present /\ req.head = 0

\* Disturbances end, and then a complete chain is published, unless finalize
\* was called while the outbox was empty or unreadable before the first claim.
PublicationCompletes ==
  Complete(chain) ~> (pub.status = "completed" \/ Unclaimable)
=============================================================================
