--------------------- MODULE EvidencePublicationProofs ---------------------
(***************************************************************************)
(* Proofs about EvidencePublication for every number of publishers, claims *)
(* and references, and for every bound on disturbances and retries.        *)
(***************************************************************************)
EXTENDS EvidencePublication, EvidenceChainProofs, FiniteSetTheorems

Progress == [stage : Stages, acks : 0 .. MaxEvents,
             anchor : Refs \cup {None}, worm : Refs \cup {None}]

Publication == [status : {"none", "publishing", "completed"},
                events : 0 .. MaxEvents, claim : Claims \cup {None},
                progress : Progress, retries : Nat]

Requirement == [present : BOOLEAN, head : 0 .. MaxEvents, progress : Progress,
                authorized : BOOLEAN, retries : Nat]

ProgramPoints ==
  AdvancePoints \cup {"idle", "refuse", "claim", "publish", "anchor",
                      "readAnchor", "commit", "readWorm", "complete", "fail"}

Process == [pc : ProgramPoints, n : 0 .. MaxEvents,
            claim : Claims \cup {None}, g : Progress]

ChainFits == chain \in Seq(Events) /\ Len(chain) \in 0 .. MaxEvents

StoreOK ==
  /\ pub \in Publication
  /\ req \in Requirement
  /\ WellFormed(pub.progress)
  /\ pub.progress.acks <= pub.events
  /\ pub.status = "none" => pub.progress = NoProgress /\ pub.claim = None

\* A call that is about to cause an effect has stored the stage before it; b
\* is the stored publication.
Covered(s, b) ==
  /\ s.g.acks <= s.n
  /\ s.pc \notin {"idle", "refuse", "claim"} => s.claim # None
  /\ s.pc = "publish" =>
       /\ s.g.acks < s.n
       /\ s.g.acks <= b.progress.acks
       /\ b.progress.stage >= BrokerInFlight
  /\ s.pc = "anchor" => b.progress.stage >= AnchorInFlight
  /\ s.pc = "commit" => b.progress.stage >= WormCommitInFlight

\* A call that still holds the claim works on the stored progress.
InStep(s, b) ==
  s.pc # "fail" /\ s.claim # None /\ b.status = "publishing" /\ b.claim = s.claim =>
    /\ s.n = b.events
    /\ s.g.stage = b.progress.stage
    /\ s.g.acks - b.progress.acks = IF s.pc = "acked" THEN 1 ELSE 0

ProcsOK ==
  /\ proc \in [Publishers -> Process]
  /\ \A p \in Publishers : Covered(proc[p], pub) /\ InStep(proc[p], pub)
  /\ \A p, q \in Publishers :
       proc[p].claim # None /\ proc[p].claim = proc[q].claim => p = q

EffectsOK ==
  /\ delivered \in [1 .. MaxEvents -> Nat]
  /\ EffectsAreWrittenAhead

\* The inductive invariant.
PublicationInv == ChainFits /\ StoreOK /\ ProcsOK /\ EffectsOK

USE DEF Snapshot, BrokerInFlight, BrokerComplete, AnchorInFlight,
        AnchorReadbackInFlight, AnchorReadbackComplete, WormCommitInFlight,
        WormReadbackInFlight, WormReadbackComplete, Stages, MaxEvents

-----------------------------------------------------------------------------
(* Lemmas about the operators. *)

\* The longest declared phase order has MaxEvents events, so that an accepted
\* event never makes a chain longer.
LEMMA ChainsFit ==
  ASSUME ChainFits, ChainNext
  PROVE  ChainFits'
<1>1. PICK e \in Offered : AppendEvent(e)
  BY DEF ChainNext
<1>2. e \in Events
  BY OfferedAssumption
<1>3. chain' = Append(chain, e) /\ chain' \in Seq(Events)
  BY <1>1, <1>2 DEF AppendEvent, ChainFits
<1>4. DeclaredPrefix(Phases(chain'))
  BY <1>1, <1>3 DEF AppendEvent, Transition
<1>5. PICK order \in LegalPhaseOrders : Len(Phases(chain')) <= Len(order)
  BY <1>4 DEF DeclaredPrefix
<1>6. Len(order) \in Nat /\ Len(order) <= MaxEvents
  <2>1. CASE order = NormalPhaseOrder
    BY <2>1 DEF NormalPhaseOrder
  <2>2. CASE order = <<"intent", "outcome", "reconciliation_required", "readback",
                       "reconciliation_closed">>
    BY <2>2
  <2>3. CASE order = <<"intent", "outcome", "readback", "reconciliation_required",
                       "readback", "reconciliation_closed">>
    BY <2>3
  <2>4. CASE order = <<"intent", "outcome", "reconciliation_required", "readback",
                       "reconciliation_closed", "readback", "reconciliation_closed">>
    BY <2>4
  <2> QED BY <2>1, <2>2, <2>3, <2>4, Zenon
          DEF LegalPhaseOrders, ReconciliationPhaseOrders
<1>7. Len(chain') \in Nat /\ Len(Phases(chain')) = Len(chain')
  BY <1>3 DEF Phases
<1> QED BY <1>3, <1>5, <1>6, <1>7 DEF ChainFits

\* What is stored at a program point covers the effect that follows it.
LEMMA AdvanceIsAhead ==
  ASSUME NEW s \in Process, s.pc \in AdvancePoints, s.g.acks <= s.n
  PROVE  LET g == Raise(s.g, AdvanceTo(s)[1])
             next == AdvanceTo(s)[2]
         IN  /\ g \in Progress
             /\ g.acks = s.g.acks
             /\ next \in ProgramPoints \ {"fail", "acked"}
             /\ next = "publish" => g.acks < s.n /\ g.stage >= BrokerInFlight
             /\ next = "anchor" => g.stage >= AnchorInFlight
             /\ next = "commit" => g.stage >= WormCommitInFlight
<1>0. s.g \in Progress /\ s.g.acks \in Nat /\ s.n \in Nat
  BY DEF Process, Progress
<1>1. \A k \in Stages :
        /\ Raise(s.g, k) \in Progress
        /\ Raise(s.g, k).acks = s.g.acks
        /\ Raise(s.g, k).stage >= k
  BY <1>0 DEF Raise, Progress
<1>2. /\ AdvanceTo(s)[1] \in Stages
      /\ AdvanceTo(s)[2] \in ProgramPoints \ {"fail", "acked"}
      /\ AdvanceTo(s)[2] = "publish" => s.g.acks < s.n /\ AdvanceTo(s)[1] = BrokerInFlight
      /\ AdvanceTo(s)[2] = "anchor" => AdvanceTo(s)[1] = AnchorInFlight
      /\ AdvanceTo(s)[2] = "commit" => AdvanceTo(s)[1] = WormCommitInFlight
  <2>1. CASE s.pc = "broker" /\ s.g.acks < s.n
    BY <2>1, <1>0 DEF AdvanceTo, ProgramPoints
  <2>2. CASE s.pc = "broker" /\ s.g.acks = s.n
    BY <2>2, <1>0 DEF AdvanceTo, ProgramPoints, AdvancePoints
  <2>3. CASE s.pc = "acked"
    BY <2>3 DEF AdvanceTo, ProgramPoints, AdvancePoints
  <2>4. CASE s.pc = "prepareAnchor"
    BY <2>4 DEF AdvanceTo, ProgramPoints, AdvancePoints
  <2>5. CASE s.pc = "anchored"
    BY <2>5 DEF AdvanceTo, ProgramPoints, AdvancePoints
  <2>6. CASE s.pc = "anchorRead"
    BY <2>6 DEF AdvanceTo, ProgramPoints, AdvancePoints
  <2>7. CASE s.pc = "prepareWorm"
    BY <2>7 DEF AdvanceTo, ProgramPoints, AdvancePoints
  <2>8. CASE s.pc = "committed"
    BY <2>8 DEF AdvanceTo, ProgramPoints, AdvancePoints
  <2>9. CASE s.pc = "wormRead"
    BY <2>9 DEF AdvanceTo, ProgramPoints, AdvancePoints
  <2> QED BY <2>1, <2>2, <2>3, <2>4, <2>5, <2>6, <2>7, <2>8, <2>9, <1>0
          DEF AdvancePoints
<1> QED BY <1>1, <1>2

-----------------------------------------------------------------------------
(* What a step must establish so that the invariant is preserved. *)

\* The stored progress did not lose anything.
Grown ==
  /\ pub.progress.acks <= pub'.progress.acks
  /\ pub.progress.stage <= pub'.progress.stage

\* A claim belongs to one call: it is kept, dropped or new.
OwnClaim(p, t) ==
  \/ t.claim = None
  \/ t.claim = proc[p].claim
  \/ \A q \in Publishers : proc[q].claim # t.claim

\* One call moves to t while the stored progress grows.
LEMMA OneCallMoves ==
  ASSUME StoreOK, ProcsOK, StoreOK', Grown,
         NEW p \in Publishers, NEW t \in Process, Become(p, t), OwnClaim(p, t),
         Covered(t, pub'), InStep(t, pub'),
         \A q \in Publishers \ {p} : InStep(proc[q], pub')
  PROVE  ProcsOK'
<1>1. proc' \in [Publishers -> Process] /\ proc'[p] = t
  BY DEF ProcsOK, Become
<1>2. \A q \in Publishers \ {p} : proc'[q] = proc[q]
  BY DEF ProcsOK, Become
<1>3. ASSUME NEW q \in Publishers \ {p} PROVE Covered(proc[q], pub')
  <2>1. Covered(proc[q], pub)
    BY DEF ProcsOK
  <2>2. /\ proc[q].g.acks \in Nat
        /\ pub.progress.acks \in Nat /\ pub'.progress.acks \in Nat
        /\ pub.progress.stage \in Nat /\ pub'.progress.stage \in Nat
    BY DEF StoreOK, ProcsOK, Publication, Process, Progress
  <2> QED BY <2>1, <2>2 DEF Covered, Grown
<1>4. \A q \in Publishers : Covered(proc'[q], pub') /\ InStep(proc'[q], pub')
  BY <1>1, <1>2, <1>3
<1>5. \A q, r \in Publishers :
        proc'[q].claim # None /\ proc'[q].claim = proc'[r].claim => q = r
  BY <1>1, <1>2 DEF ProcsOK, OwnClaim
<1> QED BY <1>1, <1>4, <1>5 DEF ProcsOK

\* Without a new effect, growing progress keeps the effects written ahead.
LEMMA NoNewEffect ==
  ASSUME StoreOK, StoreOK', Grown, EffectsOK, UNCHANGED externalVars
  PROVE  EffectsOK'
<1>1. /\ pub.progress.acks \in Nat /\ pub'.progress.acks \in Nat
      /\ pub.progress.stage \in Nat /\ pub'.progress.stage \in Nat
  BY DEF StoreOK, Publication, Progress
<1> QED BY <1>1 DEF EffectsOK, EffectsAreWrittenAhead, Grown, externalVars

\* A step of one call that leaves the publication and the ports alone.
LEMMA LocalMove ==
  ASSUME PublicationInv, UNCHANGED <<chain, pub, externalVars>>, req' \in Requirement,
         NEW p \in Publishers, NEW t \in Process, Become(p, t), OwnClaim(p, t),
         Covered(t, pub), InStep(t, pub)
  PROVE  PublicationInv'
<1>1. pub' = pub /\ chain' = chain
  OBVIOUS
<1>2. ChainFits' /\ StoreOK'
  BY <1>1 DEF PublicationInv, ChainFits, StoreOK
<1>3. Grown
  BY <1>1 DEF PublicationInv, Grown, StoreOK, Publication, Progress
<1>4. \A q \in Publishers \ {p} : InStep(proc[q], pub')
  BY <1>1 DEF PublicationInv, ProcsOK
<1>5. ProcsOK'
  BY <1>1, <1>2, <1>3, <1>4, OneCallMoves DEF PublicationInv
<1>6. EffectsOK'
  BY <1>2, <1>3, NoNewEffect DEF PublicationInv
<1> QED BY <1>2, <1>5, <1>6 DEF PublicationInv

\* A call that ends or dies is idle and holds nothing.
LEMMA IdleIsHarmless ==
  ASSUME NEW p \in Publishers, NEW b
  PROVE  /\ IdleProc \in Process
         /\ OwnClaim(p, IdleProc)
         /\ Covered(IdleProc, b)
         /\ InStep(IdleProc, b)
  BY DEF IdleProc, Process, ProgramPoints, Progress, NoProgress, OwnClaim, Covered, InStep

\* A call that fails keeps its claim and causes no effect any more.
LEMMA FailIsHarmless ==
  ASSUME NEW p \in Publishers, ProcsOK, NEW b, NEW g \in Progress,
         proc[p].claim # None, g.acks <= proc[p].n
  PROVE  LET t == [proc[p] EXCEPT !.g = g, !.pc = "fail"] IN
         /\ t \in Process
         /\ OwnClaim(p, t)
         /\ Covered(t, b)
         /\ InStep(t, b)
<1> DEFINE t == [proc[p] EXCEPT !.g = g, !.pc = "fail"]
<1>1. proc[p] \in Process
  BY DEF ProcsOK
<1>2. t \in Process
  BY <1>1 DEF Process, ProgramPoints
<1>3. t.pc = "fail" /\ t.claim = proc[p].claim /\ t.g = g /\ t.n = proc[p].n
  BY <1>1 DEF Process
<1> QED BY <1>2, <1>3 DEF OwnClaim, Covered, InStep

\* The requirement stays one that the store can hold.
LEMMA RequirementTyped ==
  ASSUME PublicationInv
  PROVE  req \in Requirement /\ NoRequirement \in Requirement
  BY DEF PublicationInv, StoreOK, NoRequirement, Requirement, Progress, NoProgress

-----------------------------------------------------------------------------
(* The actions. *)

\* Reading the outbox keeps the invariant: the call knows a prefix of the
\* chain, or nothing when the outbox cannot be read.
LEMMA LoadPreserves ==
  ASSUME PublicationInv, NEW p \in Publishers, Load(p)
  PROVE  PublicationInv'
<1> DEFINE Loaded(pc, n) == [pc |-> pc, n |-> n, claim |-> None, g |-> NoProgress]
<1>1. PICK n \in {0, Len(chain)}, pc \in {"claim", "refuse"} : Become(p, Loaded(pc, n))
  <2>1. \/ Become(p, Loaded("claim", Len(chain)))
        \/ Become(p, Loaded("refuse", Len(chain)))
        \/ Become(p, Loaded("refuse", 0))
    BY DEF Load, IdleProc, Become
  <2> QED BY <2>1
<1> DEFINE t == Loaded(pc, n)
<1>2. n \in 0 .. MaxEvents
  <2>1. ChainFits
    BY DEF PublicationInv
  <2>2. Len(chain) \in 0 .. MaxEvents /\ 0 \in 0 .. MaxEvents
    BY <2>1 DEF ChainFits
  <2> QED BY <1>1, <2>2
<1>3. /\ t \in Process
      /\ t.claim = None /\ t.pc \in {"claim", "refuse"} /\ t.g.acks = 0 /\ t.n \in Nat
  BY <1>1, <1>2 DEF Process, ProgramPoints, Progress, NoProgress
<1>4. OwnClaim(p, t) /\ Covered(t, pub) /\ InStep(t, pub)
  BY <1>3 DEF OwnClaim, Covered, InStep
<1>5. UNCHANGED <<chain, pub, externalVars>> /\ req' \in Requirement
  BY RequirementTyped DEF Load, storeVars
<1> QED BY <1>1, <1>3, <1>4, <1>5, LocalMove

\* The requirement for an incomplete chain keeps the invariant, however the
\* store answers.
LEMMA RefusePreserves ==
  ASSUME PublicationInv, NEW p \in Publishers, Refuse(p)
  PROVE  PublicationInv'
<1>1. Become(p, IdleProc) /\ UNCHANGED <<chain, pub, externalVars>>
  BY DEF Refuse, StoreCall, RequirePublication, storeVars
<1>2. req' = req \/ req' = RequirementOf(proc[p].n)
  BY DEF Refuse, StoreCall, RequirePublication, storeVars
<1>3. RequirementOf(proc[p].n) \in Requirement
  BY DEF RequirementOf, Requirement, PublicationInv, ProcsOK, Process, StoreOK, Publication
<1> QED BY <1>1, <1>2, <1>3, IdleIsHarmless, RequirementTyped, LocalMove

\* The requirement of a failed publication keeps the invariant, however the
\* store answers.
LEMMA FailPreserves ==
  ASSUME PublicationInv, NEW p \in Publishers, Fail(p)
  PROVE  PublicationInv'
<1>1. Become(p, IdleProc) /\ UNCHANGED <<chain, pub, externalVars>>
  BY DEF Fail, StoreCall, RequirePublication, storeVars
<1>2. req' = req \/ req' = RequirementOf(proc[p].n)
  BY DEF Fail, StoreCall, RequirePublication, storeVars
<1>3. RequirementOf(proc[p].n) \in Requirement
  BY DEF RequirementOf, Requirement, PublicationInv, ProcsOK, Process, StoreOK, Publication
<1> QED BY <1>1, <1>2, <1>3, IdleIsHarmless, RequirementTyped, LocalMove

\* A publisher that dies at any point keeps the invariant.
LEMMA CrashPreserves ==
  ASSUME PublicationInv, NEW p \in Publishers, Crash(p)
  PROVE  PublicationInv'
<1>1. Become(p, IdleProc) /\ UNCHANGED <<chain, pub, externalVars>> /\ req' = req
  BY DEF Crash, storeVars
<1> QED BY <1>1, IdleIsHarmless, RequirementTyped, LocalMove

\* The claimed publication has the claim, the events of the call and the
\* progress that was stored before.
LEMMA ClaimFacts ==
  ASSUME PublicationInv, NEW n \in 0 .. MaxEvents, NEW c \in Claims,
         CanClaim(n), ClaimPublication(c, n)
  PROVE  /\ StoreOK' /\ Grown
         /\ pub'.status = "publishing" /\ pub'.claim = c
         /\ pub'.events = n /\ pub'.progress = pub.progress
<1>0. /\ pub \in Publication /\ req \in Requirement
      /\ pub.progress \in Progress
      /\ pub.progress.acks \in Nat /\ pub.progress.stage \in Nat
  BY DEF PublicationInv, StoreOK, Publication, Progress
<1>1. req' \in Requirement
  BY RequirementTyped DEF ClaimPublication, NoRequirement, Requirement, Progress, NoProgress
<1>2. CASE pub.status = "none"
  <2>1. pub' = [status |-> "publishing", events |-> n, claim |-> c,
                progress |-> NoProgress, retries |-> req.retries]
    BY <1>2 DEF ClaimPublication
  <2>2. pub.progress = NoProgress
    BY <1>2 DEF PublicationInv, StoreOK
  <2>3. pub' \in Publication
    BY <1>0, <2>1, <2>2 DEF Publication, Requirement
  <2> QED BY <1>0, <1>1, <2>1, <2>2, <2>3
          DEF StoreOK, Grown, PublicationInv, NoProgress
<1>3. CASE pub.status # "none"
  <2>1. pub' = [pub EXCEPT !.claim = c] /\ pub.status = "publishing" /\ pub.events = n
    BY <1>3 DEF ClaimPublication, CanClaim, CanClaimFirst, CanClaimAgain
  <2>2. /\ pub' \in Publication /\ pub'.status = "publishing" /\ pub'.claim = c
        /\ pub'.events = n /\ pub'.progress = pub.progress
    BY <1>0, <2>1 DEF Publication
  <2> QED BY <1>0, <1>1, <2>1, <2>2 DEF StoreOK, Grown, PublicationInv
<1> QED BY <1>2, <1>3

\* A claim that is granted, refused, lost on the way or lost on the way back
\* keeps the invariant (claim_publication).
LEMMA ClaimPreserves ==
  ASSUME PublicationInv, NEW p \in Publishers, Claim(p)
  PROVE  PublicationInv'
<1> DEFINE s == proc[p]
<1>1. PICK c \in FreshClaims :
        StoreCall(p, CanClaim(s.n), ClaimPublication(c, s.n),
                  [s EXCEPT !.pc = "broker", !.claim = c, !.g = pub.progress], IdleProc)
  BY DEF Claim
<1> DEFINE t == [s EXCEPT !.pc = "broker", !.claim = c, !.g = pub.progress]
<1>2. /\ c \in Claims /\ c # None
      /\ \A q \in Publishers : proc[q].claim # c
  BY <1>1, ClaimsAssumption DEF FreshClaims
<1>3. s \in Process /\ s.n \in 0 .. MaxEvents
  BY DEF PublicationInv, ProcsOK, Process
<1>4. UNCHANGED <<chain, externalVars>>
  BY <1>1 DEF StoreCall
<1>5. CASE UNCHANGED storeVars /\ Become(p, IdleProc)
  BY <1>4, <1>5, IdleIsHarmless, RequirementTyped, LocalMove DEF storeVars
<1>6. CASE CanClaim(s.n) /\ ClaimPublication(c, s.n) /\ (Become(p, t) \/ Become(p, IdleProc))
  <2>1. /\ StoreOK' /\ Grown
        /\ pub'.status = "publishing" /\ pub'.claim = c
        /\ pub'.events = s.n /\ pub'.progress = pub.progress
    BY <1>2, <1>3, <1>6, ClaimFacts
  <2>2. \A q \in Publishers \ {p} : InStep(proc[q], pub')
    BY <1>2, <2>1 DEF InStep
  <2>3. /\ pub.progress \in Progress
        /\ pub.progress.acks \in Nat /\ pub.progress.acks <= pub'.events
    BY <2>1 DEF StoreOK, PublicationInv, Publication, Progress
  <2>4. /\ t \in Process /\ t.pc = "broker" /\ t.claim = c
        /\ t.g = pub.progress /\ t.n = s.n
    BY <1>2, <1>3, <2>3 DEF Process, ProgramPoints, AdvancePoints
  <2>5. OwnClaim(p, t) /\ Covered(t, pub') /\ InStep(t, pub')
    BY <1>2, <2>1, <2>3, <2>4 DEF OwnClaim, Covered, InStep
  <2>6. ProcsOK'
    <3>1. CASE Become(p, t)
      BY <3>1, <2>1, <2>2, <2>4, <2>5, OneCallMoves DEF PublicationInv
    <3>2. CASE Become(p, IdleProc)
      BY <3>2, <2>1, <2>2, IdleIsHarmless, OneCallMoves DEF PublicationInv
    <3> QED BY <3>1, <3>2, <1>6
  <2>7. ChainFits' /\ EffectsOK'
    BY <1>4, <2>1, NoNewEffect DEF PublicationInv, ChainFits
  <2> QED BY <2>1, <2>6, <2>7 DEF PublicationInv
<1> QED BY <1>1, <1>5, <1>6 DEF StoreCall

\* Storing a stage keeps the invariant, and the effect after it is covered by
\* what was stored (advance in finalize, advance_publication).
LEMMA AdvancePreserves ==
  ASSUME PublicationInv, NEW p \in Publishers, Advance(p)
  PROVE  PublicationInv'
<1> DEFINE s == proc[p]
           g == Raise(s.g, AdvanceTo(s)[1])
           t == [s EXCEPT !.g = g, !.pc = AdvanceTo(s)[2]]
           f == [s EXCEPT !.g = g, !.pc = "fail"]
<1>1. /\ s.pc \in AdvancePoints
      /\ StoreCall(p, CanAdvance(s.claim, g), AdvancePublication(g), t, f)
  BY DEF Advance
<1>2. s \in Process /\ Covered(s, pub) /\ InStep(s, pub)
  BY DEF PublicationInv, ProcsOK
<1>3. s.g.acks <= s.n /\ s.claim # None /\ s.pc # "fail"
  BY <1>1, <1>2 DEF Covered, AdvancePoints
<1>4. /\ g \in Progress /\ g.acks = s.g.acks
      /\ AdvanceTo(s)[2] \in ProgramPoints \ {"fail", "acked"}
      /\ AdvanceTo(s)[2] = "publish" => g.acks < s.n /\ g.stage >= BrokerInFlight
      /\ AdvanceTo(s)[2] = "anchor" => g.stage >= AnchorInFlight
      /\ AdvanceTo(s)[2] = "commit" => g.stage >= WormCommitInFlight
  BY <1>1, <1>2, <1>3, AdvanceIsAhead
<1>5. UNCHANGED <<chain, externalVars>>
  BY <1>1 DEF StoreCall
<1>6. \A b : f \in Process /\ OwnClaim(p, f) /\ Covered(f, b) /\ InStep(f, b)
  BY <1>3, <1>4, FailIsHarmless DEF PublicationInv
<1>7. CASE UNCHANGED storeVars /\ Become(p, f)
  BY <1>5, <1>6, <1>7, RequirementTyped, LocalMove DEF storeVars
<1>8. CASE CanAdvance(s.claim, g) /\ AdvancePublication(g) /\ (Become(p, t) \/ Become(p, f))
  <2> HIDE DEF g
  <2>1. /\ pub.status = "publishing" /\ pub.claim = s.claim
        /\ WellFormed(g) /\ Extends(pub.progress, g) /\ g.acks <= pub.events
    BY <1>8 DEF CanAdvance, ActiveClaim, BoundToEvents
  <2>2. pub' = [pub EXCEPT !.progress = g] /\ req' = req
    BY <1>8 DEF AdvancePublication
  <2>3. /\ pub' \in Publication /\ pub'.progress = g /\ pub'.status = "publishing"
        /\ pub'.claim = s.claim /\ pub'.events = pub.events
    BY <1>4, <2>1, <2>2 DEF PublicationInv, StoreOK, Publication
  <2>4. StoreOK' /\ Grown
    BY <2>1, <2>2, <2>3 DEF PublicationInv, StoreOK, Grown, Extends
  <2>5. \A q \in Publishers \ {p} : InStep(proc[q], pub')
    BY <1>3, <2>3 DEF InStep, PublicationInv, ProcsOK
  <2>6. /\ t \in Process /\ t.g = g /\ t.n = s.n /\ t.claim = s.claim
        /\ t.pc = AdvanceTo(s)[2]
    BY <1>2, <1>4 DEF Process
  <2>7. s.n = pub.events /\ g.acks \in Nat /\ g.stage \in Nat /\ s.n \in Nat
    BY <1>2, <1>3, <1>4, <2>1 DEF InStep, Process, Progress
  <2>8. OwnClaim(p, t) /\ Covered(t, pub') /\ InStep(t, pub')
    BY <1>3, <1>4, <2>1, <2>3, <2>6, <2>7 DEF OwnClaim, Covered, InStep
  <2>9. ProcsOK'
    <3>1. CASE Become(p, t)
      BY <3>1, <2>4, <2>5, <2>6, <2>8, OneCallMoves DEF PublicationInv
    <3>2. CASE Become(p, f)
      BY <3>2, <2>4, <2>5, <1>6, OneCallMoves DEF PublicationInv
    <3> QED BY <3>1, <3>2, <1>8
  <2>10. ChainFits' /\ EffectsOK'
    BY <1>5, <2>4, NoNewEffect DEF PublicationInv, ChainFits
  <2> QED BY <2>4, <2>9, <2>10 DEF PublicationInv
<1> QED BY <1>1, <1>7, <1>8 DEF StoreCall

\* Completing the publication keeps the invariant (complete_publication).
LEMMA FinishPreserves ==
  ASSUME PublicationInv, NEW p \in Publishers, Finish(p)
  PROVE  PublicationInv'
<1> DEFINE s == proc[p]
           f == [s EXCEPT !.g = s.g, !.pc = "fail"]
<1>1. s \in Process /\ Covered(s, pub) /\ s.pc = "complete"
  BY DEF PublicationInv, ProcsOK, Finish
<1>2. s.g \in Progress /\ s.claim # None /\ s.g.acks <= s.n /\ f = [s EXCEPT !.pc = "fail"]
  BY <1>1 DEF Covered, Process
<1>3. StoreCall(p, CanComplete(s.claim, s.g), CompletePublication, IdleProc, f)
  BY <1>2 DEF Finish
<1>4. UNCHANGED <<chain, externalVars>>
  BY <1>3 DEF StoreCall
<1>5. \A b : f \in Process /\ OwnClaim(p, f) /\ Covered(f, b) /\ InStep(f, b)
  BY <1>2, FailIsHarmless DEF PublicationInv
<1>6. CASE UNCHANGED storeVars /\ Become(p, f)
  BY <1>4, <1>5, <1>6, RequirementTyped, LocalMove DEF storeVars
<1>7. CASE CanComplete(s.claim, s.g) /\ CompletePublication
           /\ (Become(p, IdleProc) \/ Become(p, f))
  <2>1. pub' = [pub EXCEPT !.status = "completed", !.claim = None] /\ req' = req
    BY <1>7 DEF CompletePublication
  <2>2. /\ pub' \in Publication /\ pub'.status = "completed"
        /\ pub'.progress = pub.progress /\ pub'.events = pub.events
    BY <2>1 DEF PublicationInv, StoreOK, Publication
  <2>3. StoreOK' /\ Grown
    BY <2>1, <2>2 DEF PublicationInv, StoreOK, Grown, Publication, Progress
  <2>4. \A q \in Publishers \ {p} : InStep(proc[q], pub')
    BY <2>2 DEF InStep
  <2>5. ProcsOK'
    BY <1>5, <1>7, <2>3, <2>4, IdleIsHarmless, OneCallMoves DEF PublicationInv
  <2>6. ChainFits' /\ EffectsOK'
    BY <1>4, <2>3, NoNewEffect DEF PublicationInv, ChainFits
  <2> QED BY <2>3, <2>5, <2>6 DEF PublicationInv
<1> QED BY <1>3, <1>6, <1>7 DEF StoreCall

\* A call that meets a failing port moves to the failure branch.
LEMMA PortFailure ==
  ASSUME PublicationInv, NEW p \in Publishers, FailProc(p),
         proc[p].pc \notin {"idle", "refuse", "claim"},
         UNCHANGED <<chain, storeVars>>, EffectsOK'
  PROVE  PublicationInv'
<1> DEFINE s == proc[p]
           f == [s EXCEPT !.g = s.g, !.pc = "fail"]
<1>1. s \in Process /\ Covered(s, pub)
  BY DEF PublicationInv, ProcsOK
<1>2. s.g \in Progress /\ s.claim # None /\ s.g.acks <= s.n /\ f = [s EXCEPT !.pc = "fail"]
  BY <1>1 DEF Covered, Process
<1>3. Become(p, f)
  BY <1>2 DEF FailProc
<1>4. f \in Process /\ OwnClaim(p, f) /\ Covered(f, pub') /\ InStep(f, pub')
  BY <1>2, FailIsHarmless DEF PublicationInv
<1>5. pub' = pub /\ ChainFits' /\ StoreOK' /\ Grown
  BY DEF PublicationInv, storeVars, ChainFits, StoreOK, Grown, Publication, Progress
<1>6. \A q \in Publishers \ {p} : InStep(proc[q], pub')
  BY <1>5 DEF PublicationInv, ProcsOK
<1>7. ProcsOK'
  BY <1>3, <1>4, <1>5, <1>6, OneCallMoves DEF PublicationInv
<1> QED BY <1>5, <1>7 DEF PublicationInv

\* A call that goes on after a port answered, without touching the store.
LEMMA PortAnswer ==
  ASSUME PublicationInv, NEW p \in Publishers, NEW t \in Process, Become(p, t),
         t.claim = proc[p].claim, Covered(t, pub), InStep(t, pub),
         UNCHANGED <<chain, storeVars>>, EffectsOK'
  PROVE  PublicationInv'
<1>1. pub' = pub /\ ChainFits' /\ StoreOK' /\ Grown
  BY DEF PublicationInv, storeVars, ChainFits, StoreOK, Grown, Publication, Progress
<1>2. \A q \in Publishers \ {p} : InStep(proc[q], pub')
  BY <1>1 DEF PublicationInv, ProcsOK
<1>3. ProcsOK'
  BY <1>1, <1>2, OneCallMoves DEF PublicationInv, OwnClaim
<1> QED BY <1>1, <1>3 DEF PublicationInv

\* Delivering an event to the broker keeps the effects written ahead (the
\* broker loop of finalize).
LEMMA PublishPreserves ==
  ASSUME PublicationInv, NEW p \in Publishers, Publish(p)
  PROVE  PublicationInv'
<1> DEFINE s == proc[p]
           t == [s EXCEPT !.pc = "acked", !.g.acks = @ + 1]
<1>1. s \in Process /\ s.pc = "publish" /\ Covered(s, pub) /\ InStep(s, pub)
  BY DEF PublicationInv, ProcsOK, Publish
<1>2. /\ s.g \in Progress /\ s.g.acks \in Nat /\ s.n \in 0 .. MaxEvents
      /\ s.g.acks < s.n /\ s.g.acks <= pub.progress.acks
      /\ pub.progress.stage >= BrokerInFlight /\ s.claim # None
  BY <1>1 DEF Covered, Process, Progress
<1>3. UNCHANGED <<chain, storeVars, anchors, worms, commits>>
  BY DEF Publish
<1>4. pub.progress.acks \in Nat /\ pub' = pub
  BY <1>3 DEF PublicationInv, StoreOK, Publication, Progress, storeVars
<1>5. EffectsOK'
  <2>1. \/ delivered' = delivered
        \/ delivered' = [delivered EXCEPT ![s.g.acks + 1] = @ + 1]
    BY DEF Publish
  <2>2. delivered' \in [1 .. MaxEvents -> Nat]
    BY <2>1 DEF PublicationInv, EffectsOK
  <2>3. ASSUME NEW i \in 1 .. MaxEvents, delivered'[i] > 0
        PROVE  pub.progress.stage >= BrokerInFlight /\ i <= pub.progress.acks + 1
    <3>1. CASE i = s.g.acks + 1
      BY <3>1, <1>2, <1>4
    <3>2. CASE i # s.g.acks + 1
      <4>1. delivered'[i] = delivered[i]
        BY <3>2, <2>1 DEF PublicationInv, EffectsOK
      <4> QED BY <4>1, <2>3 DEF PublicationInv, EffectsOK, EffectsAreWrittenAhead
    <3> QED BY <3>1, <3>2
  <2> QED BY <2>2, <2>3, <1>3, <1>4 DEF PublicationInv, EffectsOK, EffectsAreWrittenAhead
<1>6. CASE FailProc(p)
  BY <1>1, <1>3, <1>5, <1>6, PortFailure
<1>7. CASE Become(p, t)
  <2>1. /\ t \in Process /\ t.pc = "acked" /\ t.claim = s.claim /\ t.n = s.n
        /\ t.g.acks = s.g.acks + 1 /\ t.g.stage = s.g.stage
    <3>1. s.g.acks + 1 \in 0 .. MaxEvents
      BY <1>2
    <3> DEFINE h == [s.g EXCEPT !.acks = @ + 1]
    <3>2. h \in Progress /\ h.acks = s.g.acks + 1 /\ h.stage = s.g.stage
      BY <1>2, <3>1 DEF Progress
    <3>3. t = [s EXCEPT !.pc = "acked", !.g = h]
      BY <1>1 DEF Process
    <3> HIDE DEF h, t
    <3> QED BY <1>1, <3>2, <3>3 DEF Process, ProgramPoints, AdvancePoints
  <2>2. Covered(t, pub) /\ InStep(t, pub)
    BY <1>1, <1>2, <1>4, <2>1 DEF Covered, InStep
  <2> QED BY <1>3, <1>5, <1>7, <2>1, <2>2, PortAnswer
<1> QED BY <1>6, <1>7 DEF Publish

\* Anchoring the head keeps the invariant, whichever reference comes back.
LEMMA AnchorPreserves ==
  ASSUME PublicationInv, NEW p \in Publishers, Anchor(p)
  PROVE  PublicationInv'
<1> DEFINE s == proc[p]
           t(r) == [s EXCEPT !.pc = "anchored", !.g.anchor = r]
<1>1. s \in Process /\ s.pc = "anchor" /\ Covered(s, pub) /\ InStep(s, pub)
  BY DEF PublicationInv, ProcsOK, Anchor
<1>2. UNCHANGED <<chain, storeVars, delivered, worms, commits>> /\ pub' = pub
  BY DEF Anchor, storeVars
<1>3. EffectsOK'
  BY <1>1, <1>2 DEF PublicationInv, EffectsOK, EffectsAreWrittenAhead, Covered
<1>4. CASE FailProc(p)
  BY <1>1, <1>2, <1>3, <1>4, PortFailure
<1>5. ASSUME NEW r \in Refs, Become(p, t(r)) PROVE PublicationInv'
  <2>1. /\ t(r) \in Process /\ t(r).pc = "anchored" /\ t(r).claim = s.claim
        /\ t(r).n = s.n /\ t(r).g.acks = s.g.acks /\ t(r).g.stage = s.g.stage
    BY <1>1 DEF Process, Progress, ProgramPoints, AdvancePoints
  <2>2. Covered(t(r), pub) /\ InStep(t(r), pub)
    BY <1>1, <2>1 DEF Covered, InStep
  <2> QED BY <1>2, <1>3, <1>5, <2>1, <2>2, PortAnswer
<1> QED BY <1>4, <1>5 DEF Anchor

\* Committing to the WORM journal keeps the invariant, whichever reference
\* comes back.
LEMMA CommitPreserves ==
  ASSUME PublicationInv, NEW p \in Publishers, Commit(p)
  PROVE  PublicationInv'
<1> DEFINE s == proc[p]
           t(r) == [s EXCEPT !.pc = "committed", !.g.worm = r]
<1>1. s \in Process /\ s.pc = "commit" /\ Covered(s, pub) /\ InStep(s, pub)
  BY DEF PublicationInv, ProcsOK, Commit
<1>2. UNCHANGED <<chain, storeVars, delivered, anchors>> /\ pub' = pub
  BY DEF Commit, storeVars
<1>3. EffectsOK'
  BY <1>1, <1>2 DEF PublicationInv, EffectsOK, EffectsAreWrittenAhead, Covered
<1>4. CASE FailProc(p)
  BY <1>1, <1>2, <1>3, <1>4, PortFailure
<1>5. ASSUME NEW r \in Refs, Become(p, t(r)) PROVE PublicationInv'
  <2>1. /\ t(r) \in Process /\ t(r).pc = "committed" /\ t(r).claim = s.claim
        /\ t(r).n = s.n /\ t(r).g.acks = s.g.acks /\ t(r).g.stage = s.g.stage
    BY <1>1 DEF Process, Progress, ProgramPoints, AdvancePoints
  <2>2. Covered(t(r), pub) /\ InStep(t(r), pub)
    BY <1>1, <2>1 DEF Covered, InStep
  <2> QED BY <1>2, <1>3, <1>5, <2>1, <2>2, PortAnswer
<1> QED BY <1>4, <1>5 DEF Commit

\* The readbacks of the anchor and of the journal keep the invariant.
LEMMA ReadReceiptPreserves ==
  ASSUME PublicationInv, NEW p \in Publishers, ReadReceipt(p)
  PROVE  PublicationInv'
<1> DEFINE s == proc[p]
           t(pc) == [s EXCEPT !.pc = pc]
<1>1. /\ s \in Process /\ s.pc \in {"readAnchor", "readWorm"}
      /\ Covered(s, pub) /\ InStep(s, pub)
  BY DEF PublicationInv, ProcsOK, ReadReceipt
<1>2. UNCHANGED <<chain, storeVars, externalVars>> /\ pub' = pub
  BY DEF ReadReceipt, storeVars
<1>3. EffectsOK'
  BY <1>2 DEF PublicationInv, EffectsOK, EffectsAreWrittenAhead, externalVars
<1>4. CASE FailProc(p)
  BY <1>1, <1>2, <1>3, <1>4, PortFailure
<1>5. ASSUME NEW pc \in {"anchorRead", "wormRead"}, Become(p, t(pc)) PROVE PublicationInv'
  <2>1. /\ t(pc) \in Process /\ t(pc).pc = pc /\ t(pc).claim = s.claim
        /\ t(pc).n = s.n /\ t(pc).g = s.g
    BY <1>1, <1>5 DEF Process, ProgramPoints, AdvancePoints
  <2>2. Covered(t(pc), pub) /\ InStep(t(pc), pub)
    BY <1>1, <1>5, <2>1 DEF Covered, InStep
  <2> QED BY <1>2, <1>3, <1>5, <2>1, <2>2, PortAnswer
<1> QED BY <1>4, <1>5 DEF ReadReceipt

\* An event appended to the outbox while publishers run keeps the invariant.
LEMMA GrowPreserves ==
  ASSUME PublicationInv, Grow
  PROVE  PublicationInv'
<1>1. ChainNext /\ UNCHANGED <<pub, req, proc, externalVars>>
  BY DEF Grow, storeVars
<1>2. ChainFits'
  BY <1>1, ChainsFit DEF PublicationInv
<1>3. StoreOK' /\ ProcsOK' /\ EffectsOK'
  BY <1>1 DEF PublicationInv, StoreOK, ProcsOK, EffectsOK, EffectsAreWrittenAhead, externalVars
<1> QED BY <1>2, <1>3 DEF PublicationInv

\* An authorized retry, needed or not, keeps the invariant although it takes
\* the claim from a publisher that may still run.
LEMMA AuthorizePreserves ==
  ASSUME PublicationInv, Authorize
  PROVE  PublicationInv'
<1>1. UNCHANGED <<chain, proc, externalVars>> /\ CanAuthorize /\ AuthorizeRetry
  BY DEF Authorize
<1>2. /\ pub \in Publication /\ req \in Requirement
      /\ pub.progress.acks \in Nat /\ pub.progress.stage \in Nat
  BY DEF PublicationInv, StoreOK, Publication, Progress
<1>3. /\ pub' \in Publication /\ req' \in Requirement
      /\ pub'.progress = pub.progress /\ pub'.events = pub.events
      /\ pub'.status = pub.status /\ pub'.claim \in {pub.claim, None}
  <2>1. CASE pub.status = "none"
    <3>1. /\ pub' = pub
          /\ req' = [req EXCEPT !.authorized = TRUE, !.retries = req.retries + 1]
      BY <2>1, <1>1 DEF AuthorizeRetry
    <3>2. req.retries + 1 \in Nat
      BY <1>2 DEF Requirement
    <3>3. req' \in Requirement
      BY <1>2, <3>1, <3>2 DEF Requirement
    <3> QED BY <1>2, <3>1, <3>3
  <2>2. CASE pub.status # "none"
    <3>1. /\ req' = NoRequirement
          /\ pub' = [pub EXCEPT !.claim = None, !.retries = pub.retries + 1]
      BY <2>2, <1>1 DEF AuthorizeRetry
    <3>2. pub.retries + 1 \in Nat
      BY <1>2 DEF Publication
    <3> QED BY <1>2, <3>1, <3>2, RequirementTyped DEF Publication
  <2> QED BY <2>1, <2>2
<1>4. StoreOK' /\ Grown
  BY <1>2, <1>3 DEF PublicationInv, StoreOK, Grown
<1>5. \A p \in Publishers : Covered(proc[p], pub') /\ InStep(proc[p], pub')
  BY <1>3 DEF PublicationInv, ProcsOK, Covered, InStep
<1>6. ProcsOK'
  BY <1>1, <1>5 DEF PublicationInv, ProcsOK
<1>7. ChainFits' /\ EffectsOK'
  BY <1>1, <1>4, NoNewEffect DEF PublicationInv, ChainFits
<1> QED BY <1>4, <1>6, <1>7 DEF PublicationInv

\* Closing the requirement of a reconciled chain keeps the invariant.
LEMMA ClosePreserves ==
  ASSUME PublicationInv, Close
  PROVE  PublicationInv'
<1>1. UNCHANGED <<chain, pub, proc, externalVars>> /\ req' \in Requirement
  BY RequirementTyped DEF Close
<1> QED BY <1>1 DEF PublicationInv, ChainFits, StoreOK, ProcsOK, EffectsOK,
                    EffectsAreWrittenAhead, externalVars

-----------------------------------------------------------------------------
(* The theorems. *)

\* The empty outbox and the empty store satisfy the invariant.
LEMMA InitEstablishes == PublicationInit => PublicationInv
<1> SUFFICES ASSUME PublicationInit PROVE PublicationInv
  OBVIOUS
<1>1. ChainFits
  BY DEF PublicationInit, ChainInit, ChainFits
<1>2. NoProgress \in Progress
  BY DEF NoProgress, Progress
<1>3. StoreOK
  BY <1>2 DEF PublicationInit, StoreOK, NoPublication, NoRequirement, Publication,
              Requirement, WellFormed, NoProgress
<1>4. ProcsOK
  BY <1>2 DEF PublicationInit, ProcsOK, IdleProc, Process, ProgramPoints, Covered, InStep,
              NoProgress
<1>5. EffectsOK
  BY DEF PublicationInit, EffectsOK, EffectsAreWrittenAhead
<1> QED BY <1>1, <1>3, <1>4, <1>5 DEF PublicationInv

\* finalize, the store and their callers keep the inductive invariant in every
\* interleaving, with every crash and every lost answer.
THEOREM PublicationInvariance == PublicationSpec => []PublicationInv
<1>1. PublicationInv /\ [PublicationNext]_publicationVars => PublicationInv'
  <2> SUFFICES ASSUME PublicationInv, [PublicationNext]_publicationVars
               PROVE  PublicationInv'
    OBVIOUS
  <2>1. ASSUME NEW p \in Publishers, Step(p) PROVE PublicationInv'
    BY <2>1, RefusePreserves, ClaimPreserves, AdvancePreserves, PublishPreserves,
       AnchorPreserves, CommitPreserves, ReadReceiptPreserves, FinishPreserves,
       FailPreserves DEF Step
  <2>2. ASSUME NEW p \in Publishers, Load(p) \/ Crash(p) PROVE PublicationInv'
    BY <2>2, LoadPreserves, CrashPreserves
  <2>3. CASE Authorize \/ Close \/ Grow
    BY <2>3, AuthorizePreserves, ClosePreserves, GrowPreserves
  <2>4. CASE UNCHANGED publicationVars
    BY <2>4 DEF publicationVars, PublicationInv, ChainFits, StoreOK, ProcsOK, EffectsOK,
                EffectsAreWrittenAhead
  <2> QED BY <2>1, <2>2, <2>3, <2>4 DEF PublicationNext
<1> QED BY <1>1, InitEstablishes, PTL DEF PublicationSpec

\* Type correctness of the store and of every publisher.
THEOREM PublicationTypeCorrect == PublicationSpec => []PublicationTypeOK
<1>1. PublicationInv => PublicationTypeOK
  BY DEF PublicationInv, StoreOK, ProcsOK, PublicationTypeOK, Publication, Requirement,
         Process, Progress
<1> QED BY <1>1, PublicationInvariance, PTL

\* Every external effect follows the durable stage that announces it (advance
\* in finalize), for any number of publishers, revoked ones included.
THEOREM WriteAhead == PublicationSpec => []EffectsAreWrittenAhead
<1>1. PublicationInv => EffectsAreWrittenAhead
  BY DEF PublicationInv, EffectsOK
<1> QED BY <1>1, PublicationInvariance, PTL

\* One publisher at a time can store progress, and it works on the stored one
\* (_active_claim, claim_publication).
THEOREM SingleHolder == PublicationSpec => []HolderIsCurrent
<1>1. PublicationInv => HolderIsCurrent
  BY DEF PublicationInv, ProcsOK, HolderIsCurrent, ActiveClaim, InStep
<1> QED BY <1>1, PublicationInvariance, PTL

\* Stored progress never regresses and a completed publication never changes,
\* whichever of the store operations is called by whomever.
THEOREM MonotoneProgress == PublicationSpec => ProgressOnlyGrows
<1> DEFINE Kept == /\ pub.status # "none" => /\ Extends(pub.progress, pub'.progress)
                                            /\ pub'.events = pub.events
                                            /\ pub'.retries >= pub.retries
                   /\ pub.status = "completed" => pub' = pub
<1>1. PublicationInv /\ [PublicationNext]_publicationVars => [Kept]_publicationVars
  <2> SUFFICES ASSUME PublicationInv, [PublicationNext]_publicationVars
               PROVE  Kept
    OBVIOUS
  <2>1. /\ pub \in Publication /\ pub.progress.stage \in Nat /\ pub.progress.acks \in Nat
        /\ pub.retries \in Nat
    BY DEF PublicationInv, StoreOK, Publication, Progress
  <2>2. CASE pub' = pub
    BY <2>1, <2>2 DEF Extends
  <2>3. ASSUME NEW c, NEW n, CanClaim(n), ClaimPublication(c, n) PROVE Kept
    BY <2>1, <2>3 DEF CanClaim, CanClaimFirst, CanClaimAgain, ClaimPublication, Extends,
                      Publication
  <2>4. ASSUME NEW c, NEW g, CanAdvance(c, g), AdvancePublication(g) PROVE Kept
    BY <2>1, <2>4 DEF CanAdvance, ActiveClaim, AdvancePublication, Publication
  <2>5. ASSUME NEW c, NEW g, CanComplete(c, g), CompletePublication PROVE Kept
    BY <2>1, <2>5 DEF CanComplete, ActiveClaim, CompletePublication, Extends, Publication
  <2>6. CASE Authorize
    <3>1. CASE pub.status = "none"
      BY <3>1, <2>2, <2>6 DEF Authorize, AuthorizeRetry
    <3>2. CASE pub.status # "none"
      <4>1. pub.status = "publishing"
        BY <3>2, <2>6 DEF Authorize, CanAuthorize
      <4>2. pub' = [pub EXCEPT !.claim = None, !.retries = pub.retries + 1]
        BY <3>2, <2>6 DEF Authorize, AuthorizeRetry
      <4>3. /\ pub'.progress = pub.progress /\ pub'.events = pub.events
            /\ pub'.retries = pub.retries + 1
        BY <2>1, <4>2 DEF Publication
      <4> QED BY <2>1, <4>1, <4>3 DEF Extends
    <3> QED BY <3>1, <3>2
  <2>7. ASSUME NEW p \in Publishers, Load(p) \/ Step(p) \/ Crash(p) PROVE Kept
    <3>1. CASE Claim(p)
      BY <3>1, <2>2, <2>3 DEF Claim, StoreCall, storeVars
    <3>2. CASE Advance(p)
      BY <3>2, <2>2, <2>4 DEF Advance, StoreCall, storeVars
    <3>3. CASE Finish(p)
      BY <3>3, <2>2, <2>5 DEF Finish, StoreCall, storeVars
    <3>4. CASE Load(p) \/ Crash(p) \/ Publish(p) \/ Anchor(p) \/ Commit(p) \/ ReadReceipt(p)
      BY <3>4, <2>2 DEF Load, Crash, Publish, Anchor, Commit, ReadReceipt, storeVars
    <3>5. CASE Refuse(p) \/ Fail(p)
      BY <3>5, <2>2 DEF Refuse, Fail, StoreCall, RequirePublication, storeVars
    <3> QED BY <2>7, <3>1, <3>2, <3>3, <3>4, <3>5 DEF Step
  <2>8. CASE Close \/ Grow \/ UNCHANGED publicationVars
    BY <2>8, <2>2 DEF Close, Grow, storeVars, publicationVars
  <2> QED BY <2>6, <2>7, <2>8 DEF PublicationNext
<1> QED BY <1>1, PublicationInvariance, PTL DEF PublicationSpec, ProgressOnlyGrows

-----------------------------------------------------------------------------
(* A second invariant, about what the effects amount to. *)

\* Whoever got past the verdict of verify_chain works on the whole, final chain;
\* a caller that was refused names a shorter one.
ClaimedChain ==
  /\ \A p \in Publishers :
       /\ proc[p].pc \notin {"idle", "refuse"} => Complete(chain) /\ proc[p].n = Len(chain)
       /\ proc[p].pc = "refuse" =>
            proc[p].n <= Len(chain) /\ (Complete(chain) => proc[p].n # Len(chain))
  /\ pub.status # "none" => Complete(chain) /\ pub.events = Len(chain)

\* The ports have seen what the progress g of n events claims.
Held(g, n, d, a, w) ==
  /\ \A i \in 1 .. g.acks : d[i] > 0
  /\ g.anchor # None => g.anchor \in a
  /\ g.worm # None => /\ g.anchor # None
                      /\ [events |-> n, anchor |-> g.anchor, ref |-> g.worm] \in w

AnchorKnown == {"anchored", "readAnchor", "anchorRead", "prepareWorm", "commit",
                "committed", "readWorm", "wormRead", "complete"}

ReceiptsHeld ==
  /\ Held(pub.progress, pub.events, delivered, anchors, worms)
  /\ \A p \in Publishers :
       /\ Held(proc[p].g, proc[p].n, delivered, anchors, worms)
       /\ proc[p].pc \in AnchorKnown => proc[p].g.anchor # None

\* A requirement of a claimed publication is raised by the call that held the
\* claim, and ends that call.
Unblocked ==
  /\ pub.status = "completed" => ~req.present
  /\ pub.status = "publishing" /\ req.present =>
       \A p \in Publishers : proc[p].claim # None => proc[p].claim # pub.claim

\* The effects so far, those that calls in progress may still cause and the
\* claim that may still be granted are paid for by the authorized retries.
MayDeliver(s, i) == s.pc \in {"broker", "publish", "acked"} /\ s.g.acks < i

PreCommit == {"broker", "publish", "acked", "prepareAnchor", "anchor", "anchored",
              "readAnchor", "anchorRead", "prepareWorm", "commit"}

Delivering(i) == {p \in Publishers : MayDeliver(proc[p], i)}
Committing == {p \in Publishers : proc[p].pc \in PreCommit}

Grantable ==
  IF pub.status = "none" \/ (pub.status = "publishing" /\ pub.claim = None) THEN 1 ELSE 0

BudgetOK ==
  /\ pub.status = "none" => pub.retries = 0
  /\ commits \in Nat
  /\ \A i \in 1 .. MaxEvents :
       delivered[i] + Cardinality(Delivering(i)) + Grantable <= 1 + pub.retries
  /\ commits + Cardinality(Committing) + Grantable <= 1 + pub.retries

DurableInv == ClaimedChain /\ ReceiptsHeld /\ Unblocked /\ BudgetOK

-----------------------------------------------------------------------------
(* Lemmas for its parts. *)

\* Nothing a port has seen is forgotten.
MoreEffects ==
  /\ \A i \in 1 .. MaxEvents : delivered[i] <= delivered'[i]
  /\ anchors \subseteq anchors'
  /\ worms \subseteq worms'

\* What is held stays held.
LEMMA HeldGrows ==
  ASSUME EffectsOK, EffectsOK', MoreEffects, NEW g \in Progress, NEW n,
         Held(g, n, delivered, anchors, worms)
  PROVE  Held(g, n, delivered', anchors', worms')
<1>1. ASSUME NEW i \in 1 .. g.acks PROVE delivered'[i] > 0
  <2>1. i \in 1 .. MaxEvents /\ delivered[i] > 0 /\ delivered[i] <= delivered'[i]
    BY DEF Progress, Held, MoreEffects
  <2>2. delivered[i] \in Nat /\ delivered'[i] \in Nat
    BY <2>1 DEF EffectsOK
  <2> QED BY <2>1, <2>2
<1> QED BY <1>1 DEF Held, MoreEffects

\* The values of the publishers after one call has moved.
LEMMA AfterMove ==
  ASSUME PublicationInv, NEW p \in Publishers, NEW t, Become(p, t)
  PROVE  \A q \in Publishers : proc'[q] = IF q = p THEN t ELSE proc[q]
BY DEF PublicationInv, ProcsOK, Become

\* One call moves; the part about the chain.
LEMMA ClaimedMoves ==
  ASSUME PublicationInv, ClaimedChain, NEW p \in Publishers, NEW t, Become(p, t),
         chain' = chain,
         t.pc \notin {"idle", "refuse"} => Complete(chain) /\ t.n = Len(chain),
         t.pc = "refuse" => t.n <= Len(chain) /\ (Complete(chain) => t.n # Len(chain)),
         pub'.status # "none" => Complete(chain) /\ pub'.events = Len(chain)
  PROVE  ClaimedChain'
BY AfterMove DEF ClaimedChain

\* One call moves; the part about the receipts.
LEMMA ReceiptsMove ==
  ASSUME PublicationInv, PublicationInv', ReceiptsHeld, MoreEffects,
         NEW p \in Publishers, NEW t, Become(p, t),
         Held(pub'.progress, pub'.events, delivered', anchors', worms'),
         Held(t.g, t.n, delivered', anchors', worms'),
         t.pc \in AnchorKnown => t.g.anchor # None
  PROVE  ReceiptsHeld'
<1>1. EffectsOK /\ EffectsOK'
  BY DEF PublicationInv
<1>2. ASSUME NEW q \in Publishers
      PROVE  /\ Held(proc'[q].g, proc'[q].n, delivered', anchors', worms')
             /\ proc'[q].pc \in AnchorKnown => proc'[q].g.anchor # None
  <2>1. CASE q = p
    BY <2>1, AfterMove
  <2>2. CASE q # p
    <3>1. proc'[q] = proc[q] /\ proc[q].g \in Progress
      BY <2>2, AfterMove DEF PublicationInv, ProcsOK, Process
    <3> QED BY <1>1, <3>1, HeldGrows DEF ReceiptsHeld
  <2> QED BY <2>1, <2>2
<1> QED BY <1>2 DEF ReceiptsHeld

\* Counting calls: a set that does not grow, loses p or gains p.
LEMMA Counting ==
  ASSUME NEW S \in SUBSET Publishers, NEW T \in SUBSET Publishers, NEW p \in Publishers
  PROVE  /\ Cardinality(S) \in Nat /\ Cardinality(T) \in Nat
         /\ T \subseteq S => Cardinality(T) <= Cardinality(S)
         /\ T \subseteq S \ {p} /\ p \in S => Cardinality(T) + 1 <= Cardinality(S)
         /\ T \subseteq S \cup {p} => Cardinality(T) <= Cardinality(S) + 1
<1>1. IsFiniteSet(S) /\ IsFiniteSet(T)
  BY ClaimsAssumption, FS_Subset
<1>2. Cardinality(S) \in Nat /\ Cardinality(T) \in Nat
  BY <1>1, FS_CardinalityType
<1>3. T \subseteq S => Cardinality(T) <= Cardinality(S)
  BY <1>1, FS_Subset
<1>4. ASSUME T \subseteq S \ {p}, p \in S PROVE Cardinality(T) + 1 <= Cardinality(S)
  <2>1. IsFiniteSet(S \ {p}) /\ Cardinality(S \ {p}) = Cardinality(S) - 1
    BY <1>1, <1>4, FS_RemoveElement
  <2>2. Cardinality(T) <= Cardinality(S \ {p})
    BY <1>4, <2>1, FS_Subset
  <2> QED BY <1>2, <2>1, <2>2
<1>5. ASSUME T \subseteq S \cup {p} PROVE Cardinality(T) <= Cardinality(S) + 1
  <2>1. IsFiniteSet(S \cup {p})
        /\ Cardinality(S \cup {p}) = IF p \in S THEN Cardinality(S) ELSE Cardinality(S) + 1
    BY <1>1, FS_AddElement
  <2>2. Cardinality(T) <= Cardinality(S \cup {p})
    BY <1>5, <2>1, FS_Subset
  <2> QED BY <1>2, <2>1, <2>2
<1> QED BY <1>2, <1>3, <1>4, <1>5

\* One call moves without a new effect and without a new chance of one.
LEMMA BudgetKept ==
  ASSUME PublicationInv, PublicationInv', BudgetOK, NEW p \in Publishers, NEW t, Become(p, t),
         UNCHANGED <<delivered, commits>>,
         pub'.retries = pub.retries, pub'.status = "none" => pub.status = "none",
         Grantable' <= Grantable,
         \A i \in 1 .. MaxEvents : MayDeliver(t, i) => MayDeliver(proc[p], i),
         t.pc \in PreCommit => proc[p].pc \in PreCommit
  PROVE  BudgetOK'
<1>0. Grantable \in Nat /\ Grantable' \in Nat /\ pub.retries \in Nat
  BY DEF Grantable, PublicationInv, StoreOK, Publication
<1>1. ASSUME NEW i \in 1 .. MaxEvents
      PROVE  delivered'[i] + Cardinality(Delivering(i)') + Grantable' <= 1 + pub'.retries
  <2>1. Delivering(i)' \subseteq Delivering(i)
    BY AfterMove DEF Delivering
  <2>2. /\ Cardinality(Delivering(i)) \in Nat /\ Cardinality(Delivering(i)') \in Nat
        /\ Cardinality(Delivering(i)') <= Cardinality(Delivering(i))
    <3> DEFINE S == Delivering(i)
               T == Delivering(i)'
    <3>1. S \in SUBSET Publishers /\ T \in SUBSET Publishers
      BY DEF Delivering
    <3> HIDE DEF S, T
    <3>2. T \subseteq S => Cardinality(T) <= Cardinality(S)
      BY <3>1, Counting
    <3>3. Cardinality(S) \in Nat /\ Cardinality(T) \in Nat
      BY <3>1, Counting
    <3> QED BY <2>1, <3>2, <3>3 DEF S, T
  <2>3. delivered[i] \in Nat /\ delivered'[i] = delivered[i]
    BY DEF PublicationInv, EffectsOK
  <2>4. delivered[i] + Cardinality(Delivering(i)) + Grantable <= 1 + pub.retries
    BY DEF BudgetOK
  <2> QED BY <1>0, <2>2, <2>3, <2>4
<1>2. commits' + Cardinality(Committing') + Grantable' <= 1 + pub'.retries
  <2>1. Committing' \subseteq Committing
    BY AfterMove DEF Committing
  <2>2. /\ Cardinality(Committing) \in Nat /\ Cardinality(Committing') \in Nat
        /\ Cardinality(Committing') <= Cardinality(Committing)
    <3> DEFINE S == Committing
               T == Committing'
    <3>1. S \in SUBSET Publishers /\ T \in SUBSET Publishers
      BY DEF Committing
    <3> HIDE DEF S, T
    <3>2. T \subseteq S => Cardinality(T) <= Cardinality(S)
      BY <3>1, Counting
    <3>3. Cardinality(S) \in Nat /\ Cardinality(T) \in Nat
      BY <3>1, Counting
    <3> QED BY <2>1, <3>2, <3>3 DEF S, T
  <2>3. commits \in Nat /\ commits + Cardinality(Committing) + Grantable <= 1 + pub.retries
    BY DEF BudgetOK
  <2> QED BY <1>0, <2>2, <2>3
<1> QED BY <1>1, <1>2 DEF BudgetOK

\* One call moves and leaves the publication and the ports alone.
LEMMA QuietMove ==
  ASSUME PublicationInv, PublicationInv', DurableInv, NEW p \in Publishers, NEW t,
         Become(p, t), UNCHANGED <<chain, pub, externalVars>>,
         t.pc \notin {"idle", "refuse"} => Complete(chain) /\ t.n = Len(chain),
         t.pc = "refuse" => t.n <= Len(chain) /\ (Complete(chain) => t.n # Len(chain)),
         Held(t.g, t.n, delivered, anchors, worms),
         t.pc \in AnchorKnown => t.g.anchor # None,
         Unblocked',
         \A i \in 1 .. MaxEvents : MayDeliver(t, i) => MayDeliver(proc[p], i),
         t.pc \in PreCommit => proc[p].pc \in PreCommit
  PROVE  DurableInv'
<1>0. /\ chain' = chain /\ pub' = pub /\ UNCHANGED <<delivered, anchors, worms, commits>>
      /\ ClaimedChain /\ ReceiptsHeld /\ BudgetOK
  BY DEF externalVars, DurableInv
<1>1. ClaimedChain'
  BY <1>0, ClaimedMoves DEF ClaimedChain
<1>2. MoreEffects
  BY <1>0 DEF MoreEffects, PublicationInv, EffectsOK
<1>3. Held(pub.progress, pub.events, delivered, anchors, worms)
  BY <1>0 DEF ReceiptsHeld
<1>4. ReceiptsHeld'
  BY <1>0, <1>2, <1>3, ReceiptsMove
<1>5. Grantable' <= Grantable
  BY <1>0 DEF Grantable
<1>6. BudgetOK'
  BY <1>0, <1>5, BudgetKept
<1> QED BY <1>1, <1>4, <1>6 DEF DurableInv

\* A call that ends: no effect is pending any more.
LEMMA IdleQuiet ==
  ASSUME PublicationInv, PublicationInv', DurableInv, NEW p \in Publishers,
         Become(p, IdleProc), UNCHANGED <<chain, pub, externalVars>>, Unblocked'
  PROVE  DurableInv'
<1>1. /\ IdleProc.pc = "idle" /\ IdleProc.n = 0 /\ IdleProc.g = NoProgress
      /\ NoProgress.acks = 0 /\ NoProgress.anchor = None /\ NoProgress.worm = None
  BY DEF IdleProc, NoProgress
<1>2. Held(IdleProc.g, IdleProc.n, delivered, anchors, worms)
  BY <1>1 DEF Held
<1>3. IdleProc.pc \notin AnchorKnown /\ IdleProc.pc \notin PreCommit
      /\ \A i \in 1 .. MaxEvents : ~MayDeliver(IdleProc, i)
  BY <1>1 DEF AnchorKnown, PreCommit, MayDeliver
<1> QED BY <1>1, <1>2, <1>3, QuietMove

\* A call that fails: its progress is still true, and nothing is pending.
LEMMA FailedQuiet ==
  ASSUME PublicationInv, PublicationInv', DurableInv, NEW p \in Publishers,
         proc[p].pc \notin {"idle", "refuse"}, NEW t, Become(p, t),
         t.pc = "fail", t.n = proc[p].n, Held(t.g, t.n, delivered, anchors, worms),
         UNCHANGED <<chain, pub, externalVars>>, Unblocked'
  PROVE  DurableInv'
<1>1. Complete(chain) /\ t.n = Len(chain)
  BY DEF DurableInv, ClaimedChain
<1>2. t.pc \notin AnchorKnown /\ t.pc \notin PreCommit
      /\ \A i \in 1 .. MaxEvents : ~MayDeliver(t, i)
  BY DEF AnchorKnown, PreCommit, MayDeliver
<1> QED BY <1>1, <1>2, QuietMove

\* A claim that is kept or dropped does not raise a requirement.
LEMMA StillUnblocked ==
  ASSUME PublicationInv, Unblocked, NEW p \in Publishers, NEW t, Become(p, t),
         t.claim \in {None, proc[p].claim}, UNCHANGED <<pub, req>>
  PROVE  Unblocked'
BY AfterMove DEF Unblocked

\* The length of a chain that can be claimed.
LEMMA CompleteIsLong ==
  ASSUME ChainFits, Complete(chain)
  PROVE  Len(chain) # 0
<1>1. chain \in Seq(Events)
  BY DEF ChainFits
<1>2. CASE Phases(chain) = NormalPhaseOrder
  BY <1>1, <1>2, NormalChain
<1>3. CASE Phases(chain) \in ReconciliationPhaseOrders
  BY <1>1, <1>3, ReconciledChain
<1> QED BY <1>2, <1>3 DEF Complete

-----------------------------------------------------------------------------
(* The actions again, now for the second invariant. *)

\* Load looks at the verdict before it goes on.
LEMMA LoadDurable ==
  ASSUME PublicationInv, PublicationInv', DurableInv, NEW p \in Publishers, Load(p)
  PROVE  DurableInv'
<1> DEFINE Loads(pc, n) == [pc |-> pc, n |-> n, claim |-> None, g |-> NoProgress]
<1>0. UNCHANGED <<chain, pub, req, externalVars>>
  BY DEF Load, storeVars
<1>1. ChainFits /\ Len(chain) \in Nat
  BY DEF PublicationInv, ChainFits
<1>2. ASSUME NEW pc \in {"claim", "refuse"}, NEW n \in {0, Len(chain)}, Become(p, Loads(pc, n)),
             pc = "claim" => Complete(chain) /\ n = Len(chain),
             pc = "refuse" => n = 0 \/ ~Complete(chain)
      PROVE  DurableInv'
  <2> DEFINE t == Loads(pc, n)
  <2>1. /\ t.pc = pc /\ t.n = n /\ t.claim = None /\ t.g.acks = 0
        /\ t.g.anchor = None /\ t.g.worm = None
    BY DEF NoProgress
  <2> HIDE DEF t
  <2>2. Held(t.g, t.n, delivered, anchors, worms)
    BY <2>1 DEF Held
  <2>3. t.pc \notin AnchorKnown /\ t.pc \notin PreCommit
        /\ \A i \in 1 .. MaxEvents : ~MayDeliver(t, i)
    BY <2>1 DEF AnchorKnown, PreCommit, MayDeliver
  <2>4. Become(p, t)
    BY <1>2 DEF t
  <2>5. Unblocked'
    BY <1>0, <2>1, <2>4, StillUnblocked DEF DurableInv
  <2>6. t.pc = "refuse" => t.n <= Len(chain) /\ (Complete(chain) => t.n # Len(chain))
    BY <1>1, <1>2, <2>1, CompleteIsLong
  <2> QED BY <1>0, <1>2, <2>1, <2>2, <2>3, <2>4, <2>5, <2>6, QuietMove
<1>3. \/ Complete(chain) /\ Become(p, Loads("claim", Len(chain)))
      \/ ~Complete(chain) /\ Become(p, Loads("refuse", Len(chain)))
      \/ Become(p, Loads("refuse", 0))
  BY DEF Load, IdleProc, Become
<1> HIDE DEF Loads
<1> QED BY <1>2, <1>3

\* A refused call raises no requirement against a claimed publication.
LEMMA RefuseDurable ==
  ASSUME PublicationInv, PublicationInv', DurableInv, NEW p \in Publishers, Refuse(p)
  PROVE  DurableInv'
<1>1. Become(p, IdleProc) /\ UNCHANGED <<chain, pub, externalVars>>
  BY DEF Refuse, StoreCall, RequirePublication, storeVars
<1>2. CASE req' = req
  BY <1>1, <1>2, IdleQuiet, StillUnblocked DEF DurableInv, IdleProc
<1>3. CASE CanRequire(None, proc[p].n)
  <2>1. proc[p].pc = "refuse"
    BY DEF Refuse
  <2>2. pub.status # "completed" /\ (pub.status = "publishing" => proc[p].n = pub.events)
    BY <1>3 DEF CanRequire
  <2>3. pub.status = "none"
    BY <2>1, <2>2 DEF DurableInv, ClaimedChain, PublicationInv, StoreOK, Publication
  <2>4. Unblocked'
    BY <1>1, <2>3 DEF Unblocked
  <2> QED BY <1>1, <2>4, IdleQuiet
<1> QED BY <1>2, <1>3 DEF Refuse, StoreCall, storeVars

\* A failed call gives up its claim with the requirement it raises.
LEMMA FailDurable ==
  ASSUME PublicationInv, PublicationInv', DurableInv, NEW p \in Publishers, Fail(p)
  PROVE  DurableInv'
<1>1. Become(p, IdleProc) /\ UNCHANGED <<chain, pub, externalVars>>
  BY DEF Fail, StoreCall, RequirePublication, storeVars
<1>2. CASE req' = req
  BY <1>1, <1>2, IdleQuiet, StillUnblocked DEF DurableInv, IdleProc
<1>3. CASE CanRequire(proc[p].claim, proc[p].n)
  <2>1. proc[p].claim # None
    BY DEF Fail, PublicationInv, ProcsOK, Covered
  <2>2. pub.status # "completed" /\ (pub.status = "publishing" => pub.claim = proc[p].claim)
    BY <1>3, <2>1 DEF CanRequire
  <2>3. \A q \in Publishers : q # p /\ proc[q].claim # None => proc[q].claim # proc[p].claim
    BY DEF PublicationInv, ProcsOK
  <2>4. \A q \in Publishers : proc'[q] = IF q = p THEN IdleProc ELSE proc[q]
    BY <1>1, AfterMove
  <2>5. IdleProc.claim = None
    BY DEF IdleProc
  <2>6. Unblocked'
    BY <1>1, <2>2, <2>3, <2>4, <2>5 DEF Unblocked
  <2> QED BY <1>1, <2>6, IdleQuiet
<1> QED BY <1>2, <1>3 DEF Fail, StoreCall, storeVars

\* A publisher that dies leaves what it did behind.
LEMMA CrashDurable ==
  ASSUME PublicationInv, PublicationInv', DurableInv, NEW p \in Publishers, Crash(p)
  PROVE  DurableInv'
<1>1. Become(p, IdleProc) /\ UNCHANGED <<chain, pub, req, externalVars>>
  BY DEF Crash, storeVars
<1> QED BY <1>1, IdleQuiet, StillUnblocked DEF DurableInv, IdleProc

\* How the calls that may still deliver an event change with one call.
LEMMA DeliveringCount ==
  ASSUME PublicationInv, NEW p \in Publishers, NEW t, Become(p, t), NEW i \in 1 .. MaxEvents
  PROVE  /\ Cardinality(Delivering(i)) \in Nat /\ Cardinality(Delivering(i)') \in Nat
         /\ Cardinality(Delivering(i)') <= Cardinality(Delivering(i)) + 1
         /\ (MayDeliver(t, i) => MayDeliver(proc[p], i)) =>
              Cardinality(Delivering(i)') <= Cardinality(Delivering(i))
         /\ MayDeliver(proc[p], i) /\ ~MayDeliver(t, i) =>
              Cardinality(Delivering(i)') + 1 <= Cardinality(Delivering(i))
<1> DEFINE S == Delivering(i)
           T == Delivering(i)'
<1>1. S \in SUBSET Publishers /\ T \in SUBSET Publishers
  BY DEF Delivering
<1>2. T \subseteq S \cup {p}
  BY AfterMove DEF Delivering
<1>3. (MayDeliver(t, i) => MayDeliver(proc[p], i)) => T \subseteq S
  BY AfterMove DEF Delivering
<1>4. MayDeliver(proc[p], i) /\ ~MayDeliver(t, i) => p \in S /\ T \subseteq S \ {p}
  BY AfterMove DEF Delivering
<1> HIDE DEF S, T
<1>5. /\ Cardinality(S) \in Nat /\ Cardinality(T) \in Nat
      /\ T \subseteq S => Cardinality(T) <= Cardinality(S)
      /\ T \subseteq S \ {p} /\ p \in S => Cardinality(T) + 1 <= Cardinality(S)
      /\ T \subseteq S \cup {p} => Cardinality(T) <= Cardinality(S) + 1
  BY <1>1, Counting
<1> QED BY <1>2, <1>3, <1>4, <1>5 DEF S, T

\* And those that may still commit.
LEMMA CommittingCount ==
  ASSUME PublicationInv, NEW p \in Publishers, NEW t, Become(p, t)
  PROVE  /\ Cardinality(Committing) \in Nat /\ Cardinality(Committing') \in Nat
         /\ Cardinality(Committing') <= Cardinality(Committing) + 1
         /\ (t.pc \in PreCommit => proc[p].pc \in PreCommit) =>
              Cardinality(Committing') <= Cardinality(Committing)
         /\ proc[p].pc \in PreCommit /\ t.pc \notin PreCommit =>
              Cardinality(Committing') + 1 <= Cardinality(Committing)
<1> DEFINE S == Committing
           T == Committing'
<1>1. S \in SUBSET Publishers /\ T \in SUBSET Publishers
  BY DEF Committing
<1>2. T \subseteq S \cup {p}
  BY AfterMove DEF Committing
<1>3. (t.pc \in PreCommit => proc[p].pc \in PreCommit) => T \subseteq S
  BY AfterMove DEF Committing
<1>4. proc[p].pc \in PreCommit /\ t.pc \notin PreCommit => p \in S /\ T \subseteq S \ {p}
  BY AfterMove DEF Committing
<1> HIDE DEF S, T
<1>5. /\ Cardinality(S) \in Nat /\ Cardinality(T) \in Nat
      /\ T \subseteq S => Cardinality(T) <= Cardinality(S)
      /\ T \subseteq S \ {p} /\ p \in S => Cardinality(T) + 1 <= Cardinality(S)
      /\ T \subseteq S \cup {p} => Cardinality(T) <= Cardinality(S) + 1
  BY <1>1, Counting
<1> QED BY <1>2, <1>3, <1>4, <1>5 DEF S, T

\* A granted claim uses up the grant that was open.
LEMMA ClaimDurable ==
  ASSUME PublicationInv, PublicationInv', DurableInv, NEW p \in Publishers, Claim(p)
  PROVE  DurableInv'
<1> DEFINE s == proc[p]
<1>1. PICK c \in FreshClaims :
        StoreCall(p, CanClaim(s.n), ClaimPublication(c, s.n),
                  [s EXCEPT !.pc = "broker", !.claim = c, !.g = pub.progress], IdleProc)
  BY DEF Claim
<1> DEFINE u == [s EXCEPT !.pc = "broker", !.claim = c, !.g = pub.progress]
<1>2. c \in Claims /\ c # None
  BY <1>1, ClaimsAssumption DEF FreshClaims
<1>3. s \in Process /\ s.n \in 0 .. MaxEvents /\ s.pc = "claim"
  BY DEF PublicationInv, ProcsOK, Process, Claim
<1>4. Complete(chain) /\ s.n = Len(chain)
  BY <1>3 DEF DurableInv, ClaimedChain
<1>5. chain' = chain /\ UNCHANGED externalVars /\ UNCHANGED <<delivered, anchors, worms, commits>>
  BY <1>1 DEF StoreCall, externalVars
<1>6. /\ u.pc = "broker" /\ u.n = s.n /\ u.g = pub.progress
      /\ IdleProc.pc = "idle" /\ IdleProc.n = 0 /\ IdleProc.claim = None /\ IdleProc.g = NoProgress
      /\ NoProgress.acks = 0 /\ NoProgress.anchor = None /\ NoProgress.worm = None
  BY <1>3 DEF Process, IdleProc, NoProgress
<1> HIDE DEF u
<1>7. CASE UNCHANGED storeVars /\ Become(p, IdleProc)
  BY <1>5, <1>6, <1>7, IdleQuiet, StillUnblocked DEF DurableInv, storeVars
<1>8. ASSUME CanClaim(s.n), ClaimPublication(c, s.n), NEW t, t \in {u, IdleProc}, Become(p, t)
      PROVE  DurableInv'
  <2>1. /\ pub'.status = "publishing" /\ pub'.claim = c
        /\ pub'.events = s.n /\ pub'.progress = pub.progress
    BY <1>2, <1>3, <1>8, ClaimFacts
  <2>2. ClaimedChain'
    BY <1>4, <1>5, <1>6, <1>8, <2>1, ClaimedMoves DEF DurableInv
  <2>3. Held(pub.progress, s.n, delivered, anchors, worms)
    <3>1. CASE pub.status = "none"
      <4>1. pub.progress = NoProgress
        BY <3>1 DEF PublicationInv, StoreOK
      <4> QED BY <1>6, <4>1 DEF Held
    <3>2. CASE pub.status # "none"
      BY <1>4, <3>2 DEF DurableInv, ClaimedChain, ReceiptsHeld
    <3> QED BY <3>1, <3>2
  <2>4. Held(t.g, t.n, delivered, anchors, worms) /\ t.pc \notin AnchorKnown
    BY <1>6, <1>8, <2>3 DEF Held, AnchorKnown
  <2>5. MoreEffects
    BY <1>5 DEF MoreEffects, PublicationInv, EffectsOK
  <2>6. ReceiptsHeld'
    BY <1>5, <1>8, <2>1, <2>3, <2>4, <2>5, ReceiptsMove DEF DurableInv
  <2>7. req' = NoRequirement /\ ~NoRequirement.present
    BY <1>8 DEF ClaimPublication, NoRequirement
  <2>8. Unblocked'
    BY <2>1, <2>7 DEF Unblocked
  <2>9. Grantable = 1 /\ Grantable' = 0
    BY <1>2, <1>8, <2>1 DEF Grantable, CanClaim, CanClaimFirst, CanClaimAgain
  <2>10. pub.retries \in Nat /\ pub'.retries \in Nat /\ pub.retries <= pub'.retries
    <3>1. pub.retries \in Nat /\ pub'.retries \in Nat
      BY DEF PublicationInv, StoreOK, Publication
    <3>2. CASE pub.status = "none"
      BY <3>1, <3>2 DEF DurableInv, BudgetOK
    <3>3. CASE pub.status # "none"
      <4>1. pub' = [pub EXCEPT !.claim = c]
        BY <1>8, <3>3 DEF ClaimPublication
      <4>2. pub'.retries = pub.retries
        BY <4>1 DEF PublicationInv, StoreOK, Publication
      <4> QED BY <3>1, <4>2
    <3> QED BY <3>1, <3>2, <3>3
  <2>11. ASSUME NEW i \in 1 .. MaxEvents
         PROVE  delivered'[i] + Cardinality(Delivering(i)') + Grantable' <= 1 + pub'.retries
    <3>1. delivered[i] + Cardinality(Delivering(i)) + Grantable <= 1 + pub.retries
      BY DEF DurableInv, BudgetOK
    <3>2. /\ Cardinality(Delivering(i)) \in Nat /\ Cardinality(Delivering(i)') \in Nat
          /\ Cardinality(Delivering(i)') <= Cardinality(Delivering(i)) + 1
      BY <1>8, DeliveringCount
    <3>3. delivered'[i] = delivered[i] /\ delivered[i] \in Nat
      BY <1>5 DEF PublicationInv, EffectsOK
    <3> QED BY <2>9, <2>10, <3>1, <3>2, <3>3
  <2>12. commits' + Cardinality(Committing') + Grantable' <= 1 + pub'.retries
    <3>1. commits \in Nat /\ commits + Cardinality(Committing) + Grantable <= 1 + pub.retries
      BY DEF DurableInv, BudgetOK
    <3>2. /\ Cardinality(Committing) \in Nat /\ Cardinality(Committing') \in Nat
          /\ Cardinality(Committing') <= Cardinality(Committing) + 1
      BY <1>8, CommittingCount
    <3> QED BY <1>5, <2>9, <2>10, <3>1, <3>2
  <2>13. BudgetOK'
    BY <1>5, <2>1, <2>11, <2>12 DEF BudgetOK, DurableInv
  <2> QED BY <2>2, <2>6, <2>8, <2>13 DEF DurableInv
<1> QED BY <1>1, <1>7, <1>8 DEF StoreCall, u

\* Storing a stage brings no effect nearer than it was.
LEMMA AdvanceOrder ==
  ASSUME NEW s \in Process, s.pc \in AdvancePoints, s.g.acks <= s.n
  PROVE  LET next == AdvanceTo(s)[2]
         IN  /\ next \in {"broker", "publish", "acked"} => s.pc \in {"broker", "publish", "acked"}
             /\ next \in PreCommit => s.pc \in PreCommit
             /\ next \in AnchorKnown => s.pc \in AnchorKnown
             /\ next \notin {"idle", "refuse"}
<1>0. s.g.acks \in Nat /\ s.n \in Nat
  BY DEF Process, Progress
<1> USE DEF AdvanceTo, PreCommit, AnchorKnown
<1>1. CASE s.pc = "broker" /\ s.g.acks < s.n
  BY <1>0, <1>1
<1>2. CASE s.pc = "broker" /\ s.g.acks = s.n
  BY <1>0, <1>2
<1>3. CASE s.pc = "acked"
  BY <1>3
<1>4. CASE s.pc = "prepareAnchor"
  BY <1>4
<1>5. CASE s.pc = "anchored"
  BY <1>5
<1>6. CASE s.pc = "anchorRead"
  BY <1>6
<1>7. CASE s.pc = "prepareWorm"
  BY <1>7
<1>8. CASE s.pc = "committed"
  BY <1>8
<1>9. CASE s.pc = "wormRead"
  BY <1>9
<1> HIDE DEF AdvanceTo, PreCommit, AnchorKnown
<1> QED BY <1>0, <1>1, <1>2, <1>3, <1>4, <1>5, <1>6, <1>7, <1>8, <1>9 DEF AdvancePoints

\* Advance stores what the ports have already seen.
LEMMA AdvanceDurable ==
  ASSUME PublicationInv, PublicationInv', DurableInv, NEW p \in Publishers, Advance(p)
  PROVE  DurableInv'
<1> DEFINE s == proc[p]
           g == Raise(s.g, AdvanceTo(s)[1])
           go == [s EXCEPT !.g = g, !.pc = AdvanceTo(s)[2]]
           f == [s EXCEPT !.g = g, !.pc = "fail"]
<1>1. /\ s.pc \in AdvancePoints
      /\ StoreCall(p, CanAdvance(s.claim, g), AdvancePublication(g), go, f)
  BY DEF Advance
<1>2. /\ s \in Process /\ InStep(s, pub) /\ s.g.acks <= s.n /\ s.claim # None
      /\ s.g \in Progress
  BY <1>1 DEF PublicationInv, ProcsOK, Covered, AdvancePoints, Process
<1>3. g.acks = s.g.acks /\ g.anchor = s.g.anchor /\ g.worm = s.g.worm /\ g \in Progress
  <2>1. g \in Progress
    BY <1>1, <1>2, AdvanceIsAhead
  <2> QED BY <1>2, <2>1 DEF Raise, Progress
<1>4. /\ AdvanceTo(s)[2] \in {"broker", "publish", "acked"} => s.pc \in {"broker", "publish", "acked"}
      /\ AdvanceTo(s)[2] \in PreCommit => s.pc \in PreCommit
      /\ AdvanceTo(s)[2] \in AnchorKnown => s.pc \in AnchorKnown
      /\ AdvanceTo(s)[2] \notin {"idle", "refuse"}
  BY <1>1, <1>2, AdvanceOrder
<1>5. chain' = chain /\ UNCHANGED externalVars /\ UNCHANGED <<delivered, anchors, worms, commits>>
  BY <1>1 DEF StoreCall, externalVars
<1>6. /\ go.g = g /\ go.n = s.n /\ go.claim = s.claim /\ go.pc = AdvanceTo(s)[2]
      /\ f.g = g /\ f.n = s.n /\ f.claim = s.claim /\ f.pc = "fail"
  BY <1>2 DEF Process
<1> HIDE DEF g, go, f
<1>7. Held(g, s.n, delivered, anchors, worms)
  BY <1>3 DEF DurableInv, ReceiptsHeld, Held
<1>8. s.pc \notin {"idle", "refuse"} /\ Complete(chain) /\ s.n = Len(chain)
  BY <1>1 DEF AdvancePoints, DurableInv, ClaimedChain
<1>9. CASE UNCHANGED storeVars /\ Become(p, f)
  BY <1>5, <1>6, <1>7, <1>8, <1>9, FailedQuiet, StillUnblocked DEF DurableInv, storeVars
<1>10. ASSUME CanAdvance(s.claim, g), AdvancePublication(g), NEW t, t \in {go, f}, Become(p, t)
       PROVE  DurableInv'
  <2>1. pub' = [pub EXCEPT !.progress = g] /\ req' = req
        /\ pub.status = "publishing" /\ pub.claim = s.claim
    BY <1>10 DEF AdvancePublication, CanAdvance, ActiveClaim
  <2>2. /\ pub'.progress = g /\ pub'.status = pub.status /\ pub'.claim = pub.claim
        /\ pub'.events = pub.events /\ pub'.retries = pub.retries
    BY <2>1 DEF PublicationInv, StoreOK, Publication
  <2>3. pub.events = s.n
    BY <1>8, <2>1 DEF DurableInv, ClaimedChain
  <2>4. ClaimedChain'
    BY <1>4, <1>5, <1>6, <1>8, <1>10, <2>2, <2>3, ClaimedMoves DEF DurableInv
  <2>5. MoreEffects
    BY <1>5 DEF MoreEffects, PublicationInv, EffectsOK
  <2>6. t.pc \in AnchorKnown => t.g.anchor # None
    BY <1>3, <1>4, <1>6, <1>10 DEF DurableInv, ReceiptsHeld, AnchorKnown
  <2>7. ReceiptsHeld'
    BY <1>5, <1>6, <1>7, <1>10, <2>2, <2>3, <2>5, <2>6, ReceiptsMove DEF DurableInv
  <2>8. Unblocked'
    BY <1>6, <1>10, <2>1, <2>2, AfterMove DEF DurableInv, Unblocked
  <2>9. Grantable' <= Grantable
    BY <2>2 DEF Grantable
  <2>10. \A i \in 1 .. MaxEvents : MayDeliver(t, i) => MayDeliver(s, i)
    BY <1>3, <1>4, <1>6, <1>10 DEF MayDeliver
  <2>11. t.pc \in PreCommit => s.pc \in PreCommit
    BY <1>4, <1>6, <1>10 DEF PreCommit
  <2>12. BudgetOK'
    BY <1>5, <1>10, <2>2, <2>9, <2>10, <2>11, BudgetKept DEF DurableInv
  <2> QED BY <2>4, <2>7, <2>8, <2>12 DEF DurableInv
<1> QED BY <1>1, <1>9, <1>10 DEF StoreCall

\* A delivery uses up the chance its call had of it.
LEMMA PublishDurable ==
  ASSUME PublicationInv, PublicationInv', DurableInv, NEW p \in Publishers, Publish(p)
  PROVE  DurableInv'
<1> DEFINE s == proc[p]
           go == [s EXCEPT !.pc = "acked", !.g.acks = @ + 1]
           f == [s EXCEPT !.pc = "fail"]
           k == s.g.acks + 1
<1>1. s \in Process /\ s.pc = "publish" /\ s.g \in Progress /\ s.g.acks < s.n /\ s.n \in 0 .. MaxEvents
  BY DEF PublicationInv, ProcsOK, Publish, Covered, Process
<1>2. s.g.acks \in Nat /\ k \in 1 .. MaxEvents
  BY <1>1 DEF Progress
<1>3. /\ chain' = chain /\ pub' = pub /\ req' = req /\ anchors' = anchors /\ worms' = worms
      /\ commits' = commits
  BY DEF Publish, storeVars
<1>4. Complete(chain) /\ s.n = Len(chain)
  BY <1>1 DEF DurableInv, ClaimedChain
<1>5. /\ go.pc = "acked" /\ go.n = s.n /\ go.claim = s.claim /\ go.g.acks = k
      /\ go.g.anchor = s.g.anchor /\ go.g.worm = s.g.worm
      /\ f.pc = "fail" /\ f.n = s.n /\ f.claim = s.claim /\ f.g = s.g
  BY <1>1 DEF Process, Progress
<1>6. Held(s.g, s.n, delivered, anchors, worms)
  BY DEF DurableInv, ReceiptsHeld
<1> HIDE DEF go, f
<1>7. CASE UNCHANGED delivered /\ Become(p, f)
  <2>1. Unblocked'
    BY <1>3, <1>5, <1>7, StillUnblocked DEF DurableInv
  <2> QED BY <1>1, <1>3, <1>5, <1>6, <1>7, <2>1, FailedQuiet DEF externalVars
<1>8. ASSUME delivered' = [delivered EXCEPT ![k] = @ + 1], NEW t, t \in {go, f}, Become(p, t)
      PROVE  DurableInv'
  <2>1. \A i \in 1 .. MaxEvents :
          /\ delivered[i] \in Nat
          /\ delivered'[i] = IF i = k THEN delivered[i] + 1 ELSE delivered[i]
    BY <1>2, <1>8 DEF PublicationInv, EffectsOK
  <2>2. MoreEffects
    BY <1>3, <2>1 DEF MoreEffects
  <2>3. ClaimedChain'
    BY <1>3, <1>4, <1>5, <1>8, ClaimedMoves DEF DurableInv, ClaimedChain
  <2>4. EffectsOK /\ EffectsOK'
    BY DEF PublicationInv
  <2>5. Held(s.g, s.n, delivered', anchors', worms')
    BY <1>1, <1>6, <2>2, <2>4, HeldGrows
  <2>6. Held(pub'.progress, pub'.events, delivered', anchors', worms')
    <3>1. pub.progress \in Progress
      BY DEF PublicationInv, StoreOK, Publication
    <3> QED BY <1>3, <2>2, <2>4, <3>1, HeldGrows DEF DurableInv, ReceiptsHeld
  <2>7. Held(t.g, t.n, delivered', anchors', worms')
    <3>1. CASE t = f
      BY <1>5, <2>5, <3>1
    <3>2. CASE t = go
      <4>1. ASSUME NEW i \in 1 .. k PROVE delivered'[i] > 0
        <5>1. i \in 1 .. MaxEvents
          BY <1>2
        <5>2. CASE i = k
          BY <2>1, <5>1, <5>2
        <5>3. CASE i # k
          <6>1. i \in 1 .. s.g.acks
            BY <1>2, <5>3
          <6> QED BY <2>5, <6>1 DEF Held
        <5> QED BY <5>2, <5>3
      <4> QED BY <1>5, <2>5, <3>2, <4>1 DEF Held
    <3> QED BY <1>8, <3>1, <3>2
  <2>8. t.pc \notin AnchorKnown
    BY <1>5, <1>8 DEF AnchorKnown
  <2>9. ReceiptsHeld'
    BY <1>8, <2>2, <2>6, <2>7, <2>8, ReceiptsMove DEF DurableInv
  <2>10. Unblocked'
    BY <1>3, <1>5, <1>8, StillUnblocked DEF DurableInv
  <2>11. Grantable' = Grantable /\ Grantable \in Nat /\ pub.retries \in Nat
    BY <1>3 DEF Grantable, PublicationInv, StoreOK, Publication
  <2>12. ASSUME NEW i \in 1 .. MaxEvents
         PROVE  delivered'[i] + Cardinality(Delivering(i)') + Grantable' <= 1 + pub'.retries
    <3>1. delivered[i] + Cardinality(Delivering(i)) + Grantable <= 1 + pub.retries
      BY DEF DurableInv, BudgetOK
    <3>2. MayDeliver(t, i) => MayDeliver(s, i)
      BY <1>1, <1>2, <1>5, <1>8 DEF MayDeliver
    <3>3. i = k => MayDeliver(s, i) /\ ~MayDeliver(t, i)
      BY <1>1, <1>2, <1>5, <1>8 DEF MayDeliver
    <3>4. /\ Cardinality(Delivering(i)) \in Nat /\ Cardinality(Delivering(i)') \in Nat
          /\ Cardinality(Delivering(i)') <= Cardinality(Delivering(i))
          /\ i = k => Cardinality(Delivering(i)') + 1 <= Cardinality(Delivering(i))
      BY <1>8, <3>2, <3>3, DeliveringCount
    <3>5. /\ delivered[i] \in Nat
          /\ delivered'[i] = IF i = k THEN delivered[i] + 1 ELSE delivered[i]
      BY <2>1
    <3> QED BY <1>3, <2>11, <3>1, <3>4, <3>5
  <2>13. commits' + Cardinality(Committing') + Grantable' <= 1 + pub'.retries
    <3>1. commits \in Nat /\ commits + Cardinality(Committing) + Grantable <= 1 + pub.retries
      BY DEF DurableInv, BudgetOK
    <3>2. s.pc \in PreCommit
      BY <1>1 DEF PreCommit
    <3>3. /\ Cardinality(Committing) \in Nat /\ Cardinality(Committing') \in Nat
          /\ Cardinality(Committing') <= Cardinality(Committing)
      BY <1>8, <3>2, CommittingCount
    <3> QED BY <1>3, <2>11, <3>1, <3>3
  <2>14. BudgetOK'
    BY <1>3, <2>12, <2>13 DEF BudgetOK, DurableInv
  <2> QED BY <2>3, <2>9, <2>10, <2>14 DEF DurableInv
<1> QED BY <1>7, <1>8 DEF Publish, FailProc, go, f

\* A call that has asked a port goes on, or fails, with what the port has seen.
LEMMA PortMove ==
  ASSUME PublicationInv, PublicationInv', DurableInv, NEW p \in Publishers, NEW t, Become(p, t),
         UNCHANGED <<chain, pub, req, delivered>>,
         anchors \subseteq anchors', worms \subseteq worms',
         proc[p].pc \notin {"idle", "refuse"}, t.pc \notin {"idle", "refuse"},
         t.n = proc[p].n, t.claim = proc[p].claim,
         Held(t.g, t.n, delivered', anchors', worms'),
         t.pc \in AnchorKnown => t.g.anchor # None
  PROVE  ClaimedChain' /\ ReceiptsHeld' /\ Unblocked'
<1>1. ClaimedChain'
  BY ClaimedMoves DEF DurableInv, ClaimedChain
<1>2. MoreEffects
  BY DEF MoreEffects, PublicationInv, EffectsOK
<1>3. EffectsOK /\ EffectsOK' /\ pub.progress \in Progress
  BY DEF PublicationInv, StoreOK, Publication
<1>4. Held(pub'.progress, pub'.events, delivered', anchors', worms')
  BY <1>2, <1>3, HeldGrows DEF DurableInv, ReceiptsHeld
<1>5. ReceiptsHeld'
  BY <1>2, <1>4, ReceiptsMove DEF DurableInv
<1>6. Unblocked'
  BY StillUnblocked DEF DurableInv
<1> QED BY <1>1, <1>5, <1>6

\* Anchor keeps the reference that the publication already has.
LEMMA AnchorDurable ==
  ASSUME PublicationInv, PublicationInv', DurableInv, NEW p \in Publishers, Anchor(p)
  PROVE  DurableInv'
<1> DEFINE s == proc[p]
           go(r) == [s EXCEPT !.pc = "anchored", !.g.anchor = r]
           f == [s EXCEPT !.pc = "fail"]
<1>1. s \in Process /\ s.pc = "anchor" /\ s.g \in Progress
  BY DEF PublicationInv, ProcsOK, Anchor, Process
<1>2. /\ UNCHANGED <<chain, pub, req, delivered, worms, commits>> /\ anchors \subseteq anchors'
  BY DEF Anchor, storeVars
<1>3. /\ Held(s.g, s.n, delivered, anchors, worms)
      /\ Held(s.g, s.n, delivered', anchors', worms')
  <2>1. MoreEffects /\ EffectsOK /\ EffectsOK'
    BY <1>2 DEF MoreEffects, PublicationInv, EffectsOK
  <2> QED BY <1>1, <2>1, HeldGrows DEF DurableInv, ReceiptsHeld
<1>4. s.pc \in PreCommit
  BY <1>1 DEF PreCommit
<1>5. Grantable' <= Grantable
  BY <1>2 DEF Grantable
<1>6. CASE Become(p, f)
  <2>1. f.pc = "fail" /\ f.n = s.n /\ f.claim = s.claim /\ f.g = s.g
    BY <1>1 DEF Process
  <2> HIDE DEF f
  <2>2. f.pc \notin AnchorKnown /\ \A i \in 1 .. MaxEvents : ~MayDeliver(f, i)
    BY <2>1 DEF AnchorKnown, MayDeliver
  <2>3. ClaimedChain' /\ ReceiptsHeld' /\ Unblocked'
    BY <1>1, <1>2, <1>3, <1>6, <2>1, <2>2, PortMove
  <2>4. BudgetOK'
    BY <1>2, <1>4, <1>5, <1>6, <2>2, BudgetKept DEF DurableInv
  <2> QED BY <2>3, <2>4 DEF DurableInv
<1>7. ASSUME NEW r \in Refs, anchors' = anchors \cup {r}, s.g.anchor \in {None, r},
             Become(p, go(r))
      PROVE  DurableInv'
  <2> DEFINE t == go(r)
  <2>1. /\ t.pc = "anchored" /\ t.n = s.n /\ t.claim = s.claim /\ t.g.anchor = r
        /\ t.g.acks = s.g.acks /\ t.g.worm = s.g.worm
    BY <1>1 DEF Process, Progress
  <2> HIDE DEF t
  <2>2. r # None /\ r \in anchors'
    BY <1>7, ClaimsAssumption
  <2>3. Held(t.g, t.n, delivered', anchors', worms')
    BY <1>3, <1>7, <2>1, <2>2 DEF Held
  <2>4. Become(p, t)
    BY <1>7 DEF t
  <2>5. ClaimedChain' /\ ReceiptsHeld' /\ Unblocked'
    BY <1>1, <1>2, <2>1, <2>2, <2>3, <2>4, PortMove
  <2>6. \A i \in 1 .. MaxEvents : ~MayDeliver(t, i)
    BY <2>1 DEF MayDeliver
  <2>7. BudgetOK'
    BY <1>2, <1>4, <1>5, <2>4, <2>6, BudgetKept DEF DurableInv
  <2> QED BY <2>5, <2>7 DEF DurableInv
<1> QED BY <1>6, <1>7 DEF Anchor, FailProc

\* A commit uses up the chance its call had of it, and names the stored anchor.
LEMMA CommitDurable ==
  ASSUME PublicationInv, PublicationInv', DurableInv, NEW p \in Publishers, Commit(p)
  PROVE  DurableInv'
<1> DEFINE s == proc[p]
           go(r) == [s EXCEPT !.pc = "committed", !.g.worm = r]
           f == [s EXCEPT !.pc = "fail"]
           record(r) == [events |-> s.n, anchor |-> s.g.anchor, ref |-> r]
<1>1. s \in Process /\ s.pc = "commit" /\ s.g \in Progress
  BY DEF PublicationInv, ProcsOK, Commit, Process
<1>2. UNCHANGED <<chain, pub, req, delivered, anchors>> /\ worms \subseteq worms'
  BY DEF Commit, storeVars
<1>3. Held(s.g, s.n, delivered', anchors', worms')
  <2>1. MoreEffects /\ EffectsOK /\ EffectsOK'
    BY <1>2 DEF MoreEffects, PublicationInv, EffectsOK
  <2> QED BY <1>1, <2>1, HeldGrows DEF DurableInv, ReceiptsHeld
<1>4. s.pc \in PreCommit /\ s.g.anchor # None
  BY <1>1 DEF PreCommit, AnchorKnown, DurableInv, ReceiptsHeld
<1>5. Grantable' = Grantable /\ Grantable \in Nat /\ pub.retries \in Nat
  BY <1>2 DEF Grantable, PublicationInv, StoreOK, Publication
<1>6. ASSUME NEW t, Become(p, t), t.pc \in {"committed", "fail"}, commits' \in {commits, commits + 1}
      PROVE  BudgetOK'
  <2>1. commits \in Nat /\ commits + Cardinality(Committing) + Grantable <= 1 + pub.retries
    BY DEF DurableInv, BudgetOK
  <2>2. t.pc \notin PreCommit /\ \A i \in 1 .. MaxEvents : ~MayDeliver(t, i)
    BY <1>6 DEF PreCommit, MayDeliver
  <2>3. /\ Cardinality(Committing) \in Nat /\ Cardinality(Committing') \in Nat
        /\ Cardinality(Committing') + 1 <= Cardinality(Committing)
    BY <1>4, <1>6, <2>2, CommittingCount
  <2>4. ASSUME NEW i \in 1 .. MaxEvents
        PROVE  delivered'[i] + Cardinality(Delivering(i)') + Grantable' <= 1 + pub'.retries
    <3>1. delivered[i] + Cardinality(Delivering(i)) + Grantable <= 1 + pub.retries
      BY DEF DurableInv, BudgetOK
    <3>2. /\ Cardinality(Delivering(i)) \in Nat /\ Cardinality(Delivering(i)') \in Nat
          /\ Cardinality(Delivering(i)') <= Cardinality(Delivering(i))
      BY <1>6, <2>2, DeliveringCount
    <3>3. delivered'[i] = delivered[i] /\ delivered[i] \in Nat
      BY <1>2 DEF PublicationInv, EffectsOK
    <3> QED BY <1>2, <1>5, <3>1, <3>2, <3>3
  <2>5. commits' \in Nat /\ commits' + Cardinality(Committing') + Grantable' <= 1 + pub'.retries
    BY <1>2, <1>5, <1>6, <2>1, <2>3
  <2> QED BY <1>2, <2>4, <2>5 DEF BudgetOK, DurableInv
<1>7. CASE Become(p, f)
  <2>1. f.pc = "fail" /\ f.n = s.n /\ f.claim = s.claim /\ f.g = s.g
    BY <1>1 DEF Process
  <2> HIDE DEF f
  <2>2. ClaimedChain' /\ ReceiptsHeld' /\ Unblocked'
    BY <1>1, <1>2, <1>3, <1>7, <2>1, PortMove DEF AnchorKnown
  <2>3. BudgetOK'
    BY <1>6, <1>7, <2>1 DEF Commit
  <2> QED BY <2>2, <2>3 DEF DurableInv
<1>8. ASSUME NEW r \in Refs, worms' = worms \cup {record(r)}, commits' = commits + 1,
             s.g.worm \in {None, r}, Become(p, go(r))
      PROVE  DurableInv'
  <2> DEFINE t == go(r)
  <2>1. /\ t.pc = "committed" /\ t.n = s.n /\ t.claim = s.claim /\ t.g.worm = r
        /\ t.g.acks = s.g.acks /\ t.g.anchor = s.g.anchor
    BY <1>1 DEF Process, Progress
  <2> HIDE DEF t
  <2>2. record(r) \in worms' /\ t.n = s.n
    BY <1>8, <2>1
  <2>3. Held(t.g, t.n, delivered', anchors', worms')
    BY <1>3, <1>4, <2>1, <2>2 DEF Held
  <2>4. Become(p, t)
    BY <1>8 DEF t
  <2>5. ClaimedChain' /\ ReceiptsHeld' /\ Unblocked'
    BY <1>1, <1>2, <1>4, <2>1, <2>3, <2>4, PortMove
  <2>6. BudgetOK'
    BY <1>6, <1>8, <2>1, <2>4
  <2> QED BY <2>5, <2>6 DEF DurableInv
<1> QED BY <1>7, <1>8 DEF Commit, FailProc

\* A readback changes nothing but the program point.
LEMMA ReadReceiptDurable ==
  ASSUME PublicationInv, PublicationInv', DurableInv, NEW p \in Publishers, ReadReceipt(p)
  PROVE  DurableInv'
<1> DEFINE s == proc[p]
<1>1. s \in Process /\ s.pc \in {"readAnchor", "readWorm"} /\ s.g \in Progress
  BY DEF PublicationInv, ProcsOK, ReadReceipt, Process
<1>2. UNCHANGED <<chain, pub, req, delivered, anchors, worms, commits>>
  BY DEF ReadReceipt, storeVars, externalVars
<1>3. Held(s.g, s.n, delivered, anchors, worms) /\ s.g.anchor # None
  BY <1>1 DEF DurableInv, ReceiptsHeld, AnchorKnown
<1>4. ASSUME NEW to \in {"anchorRead", "wormRead", "fail"}, Become(p, [s EXCEPT !.pc = to]),
             to = "anchorRead" => s.pc = "readAnchor"
      PROVE  DurableInv'
  <2> DEFINE t == [s EXCEPT !.pc = to]
  <2>1. t.pc = to /\ t.n = s.n /\ t.claim = s.claim /\ t.g = s.g
    BY <1>1 DEF Process
  <2> HIDE DEF t
  <2>2. Become(p, t)
    BY <1>4 DEF t
  <2>3. ClaimedChain' /\ ReceiptsHeld' /\ Unblocked'
    BY <1>1, <1>2, <1>3, <2>1, <2>2, PortMove
  <2>4. \A i \in 1 .. MaxEvents : ~MayDeliver(t, i)
    BY <2>1 DEF MayDeliver
  <2>5. t.pc \in PreCommit => s.pc \in PreCommit
    BY <1>1, <1>4, <2>1 DEF PreCommit
  <2>6. Grantable' <= Grantable
    BY <1>2 DEF Grantable
  <2>7. BudgetOK'
    BY <1>2, <2>2, <2>4, <2>5, <2>6, BudgetKept DEF DurableInv
  <2> QED BY <2>3, <2>7 DEF DurableInv
<1> QED BY <1>4 DEF ReadReceipt, FailProc

\* A completed publication takes back no claim and needs none.
LEMMA FinishDurable ==
  ASSUME PublicationInv, PublicationInv', DurableInv, NEW p \in Publishers, Finish(p)
  PROVE  DurableInv'
<1> DEFINE s == proc[p]
           f == [s EXCEPT !.pc = "fail"]
<1>1. s \in Process /\ s.pc = "complete" /\ s.g \in Progress /\ s.claim # None
  BY DEF PublicationInv, ProcsOK, Finish, Process, Covered
<1>2. StoreCall(p, CanComplete(s.claim, s.g), CompletePublication, IdleProc, f)
  BY DEF Finish
<1>3. chain' = chain /\ UNCHANGED <<delivered, anchors, worms, commits>>
  BY <1>2 DEF StoreCall, externalVars
<1>4. f.pc = "fail" /\ f.n = s.n /\ f.claim = s.claim /\ f.g = s.g
  BY <1>1 DEF Process
<1>5. Held(s.g, s.n, delivered, anchors, worms)
  BY DEF DurableInv, ReceiptsHeld
<1> HIDE DEF f
<1>6. CASE UNCHANGED storeVars /\ Become(p, f)
  BY <1>1, <1>3, <1>4, <1>5, <1>6, FailedQuiet, StillUnblocked
     DEF DurableInv, storeVars, externalVars
<1>7. ASSUME CanComplete(s.claim, s.g), CompletePublication, NEW t, t \in {IdleProc, f},
             Become(p, t)
      PROVE  DurableInv'
  <2>1. /\ pub.status = "publishing" /\ pub.claim = s.claim /\ req' = req
        /\ pub' = [pub EXCEPT !.status = "completed", !.claim = None]
    BY <1>7 DEF CanComplete, ActiveClaim, CompletePublication
  <2>2. /\ pub'.status = "completed" /\ pub'.claim = None /\ pub'.progress = pub.progress
        /\ pub'.events = pub.events /\ pub'.retries = pub.retries
    BY <2>1 DEF PublicationInv, StoreOK, Publication
  <2>3. \/ t.pc = "idle" /\ t.g.acks = 0 /\ t.g.anchor = None /\ t.g.worm = None
        \/ t.pc = "fail" /\ t.n = s.n /\ t.g = s.g
    BY <1>4, <1>7 DEF IdleProc, NoProgress
  <2>4. Complete(chain) /\ s.n = Len(chain) /\ pub.events = Len(chain)
    BY <1>1, <2>1 DEF DurableInv, ClaimedChain
  <2>5. ClaimedChain'
    BY <1>3, <1>7, <2>2, <2>3, <2>4, ClaimedMoves DEF DurableInv
  <2>6. MoreEffects
    BY <1>3 DEF MoreEffects, PublicationInv, EffectsOK
  <2>7. Held(t.g, t.n, delivered', anchors', worms')
    BY <1>3, <1>5, <2>3 DEF Held
  <2>8. Held(pub'.progress, pub'.events, delivered', anchors', worms')
    BY <1>3, <2>2 DEF DurableInv, ReceiptsHeld
  <2>9. t.pc \notin AnchorKnown /\ t.pc \notin PreCommit
        /\ \A i \in 1 .. MaxEvents : ~MayDeliver(t, i)
    BY <2>3 DEF AnchorKnown, PreCommit, MayDeliver
  <2>10. ReceiptsHeld'
    BY <1>7, <2>6, <2>7, <2>8, <2>9, ReceiptsMove DEF DurableInv
  <2>11. Unblocked'
    BY <1>1, <2>1, <2>2 DEF DurableInv, Unblocked
  <2>12. Grantable' <= Grantable
    BY <2>2 DEF Grantable
  <2>13. BudgetOK'
    BY <1>3, <1>7, <2>2, <2>9, <2>12, BudgetKept DEF DurableInv
  <2> QED BY <2>5, <2>10, <2>11, <2>13 DEF DurableInv
<1> QED BY <1>2, <1>6, <1>7 DEF StoreCall

\* Nobody moves, the ports see nothing: the chances of an effect stay.
LEMMA SameCalls ==
  ASSUME PublicationInv, proc' = proc, UNCHANGED <<delivered, commits>>, BudgetOK,
         pub'.status = pub.status, pub'.retries \in Nat,
         pub'.status = "none" => pub'.retries = 0,
         Grantable' - Grantable <= pub'.retries - pub.retries
  PROVE  BudgetOK'
<1>0. Grantable \in Nat /\ Grantable' \in Nat /\ pub.retries \in Nat
  BY DEF Grantable, PublicationInv, StoreOK, Publication
<1>1. ASSUME NEW i \in 1 .. MaxEvents
      PROVE  delivered'[i] + Cardinality(Delivering(i)') + Grantable' <= 1 + pub'.retries
  <2>1. Delivering(i)' = Delivering(i)
    BY DEF Delivering
  <2>2. Cardinality(Delivering(i)) \in Nat
    <3>1. Delivering(i) \in SUBSET Publishers
      BY DEF Delivering
    <3> QED BY <3>1, ClaimsAssumption, FS_Subset, FS_CardinalityType
  <2>3. delivered[i] \in Nat /\ delivered'[i] = delivered[i]
    BY DEF PublicationInv, EffectsOK
  <2>4. delivered[i] + Cardinality(Delivering(i)) + Grantable <= 1 + pub.retries
    BY DEF BudgetOK
  <2> QED BY <1>0, <2>1, <2>2, <2>3, <2>4
<1>2. commits' \in Nat /\ commits' + Cardinality(Committing') + Grantable' <= 1 + pub'.retries
  <2>1. Committing' = Committing
    BY DEF Committing
  <2>2. Cardinality(Committing) \in Nat
    <3>1. Committing \in SUBSET Publishers
      BY DEF Committing
    <3> QED BY <3>1, ClaimsAssumption, FS_Subset, FS_CardinalityType
  <2>3. commits \in Nat /\ commits + Cardinality(Committing) + Grantable <= 1 + pub.retries
    BY DEF BudgetOK
  <2> QED BY <1>0, <2>1, <2>2, <2>3
<1> QED BY <1>1, <1>2 DEF BudgetOK

\* A retry that is authorized pays for the claim it makes possible.
LEMMA AuthorizeDurable ==
  ASSUME PublicationInv, PublicationInv', DurableInv, Authorize
  PROVE  DurableInv'
<1>1. /\ UNCHANGED <<chain, proc, delivered, anchors, worms, commits>>
      /\ CanAuthorize /\ AuthorizeRetry
  BY DEF Authorize, externalVars
<1>2. /\ pub'.status = pub.status /\ pub'.events = pub.events
      /\ pub'.progress = pub.progress /\ pub'.retries \in Nat
      /\ pub.status = "none" => pub' = pub
      /\ pub.status # "none" => /\ req' = NoRequirement
                                /\ pub.status = "publishing"
                                /\ pub'.retries = pub.retries + 1
  <2>0. pub \in Publication /\ pub.retries \in Nat
    BY DEF PublicationInv, StoreOK, Publication
  <2>1. CASE pub.status = "none"
    BY <1>1, <2>0, <2>1 DEF AuthorizeRetry
  <2>2. CASE pub.status # "none"
    <3>1. /\ req' = NoRequirement /\ pub.status = "publishing"
          /\ pub' = [pub EXCEPT !.claim = None, !.retries = pub.retries + 1]
      BY <1>1, <2>2 DEF AuthorizeRetry, CanAuthorize
    <3>2. /\ pub'.status = pub.status /\ pub'.events = pub.events
          /\ pub'.progress = pub.progress /\ pub'.retries = pub.retries + 1
      BY <2>0, <3>1 DEF Publication
    <3> QED BY <2>0, <2>2, <3>1, <3>2
  <2> QED BY <2>1, <2>2
<1>3. ClaimedChain' /\ ReceiptsHeld'
  BY <1>1, <1>2 DEF DurableInv, ClaimedChain, ReceiptsHeld
<1>4. Unblocked'
  <2>1. NoRequirement.present = FALSE
    BY DEF NoRequirement
  <2> QED BY <1>1, <1>2, <2>1 DEF DurableInv, Unblocked
<1>5. Grantable' - Grantable <= pub'.retries - pub.retries
  <2>1. pub.retries \in Nat
    BY DEF PublicationInv, StoreOK, Publication
  <2>2. CASE pub.status = "none"
    BY <1>2, <2>1, <2>2 DEF Grantable
  <2>3. CASE pub.status # "none"
    BY <1>2, <2>1, <2>3 DEF Grantable
  <2> QED BY <2>2, <2>3
<1>6. BudgetOK'
  BY <1>1, <1>2, <1>5, SameCalls DEF DurableInv, BudgetOK
<1> QED BY <1>3, <1>4, <1>6 DEF DurableInv

\* Closing takes a requirement away.
LEMMA CloseDurable ==
  ASSUME PublicationInv, PublicationInv', DurableInv, Close
  PROVE  DurableInv'
<1>1. /\ UNCHANGED <<chain, pub, proc, delivered, anchors, worms, commits>>
      /\ req'.present = FALSE
  BY DEF Close, externalVars, NoRequirement
<1>2. ClaimedChain' /\ ReceiptsHeld' /\ Unblocked'
  BY <1>1 DEF DurableInv, ClaimedChain, ReceiptsHeld, Unblocked
<1>3. Grantable' - Grantable <= pub'.retries - pub.retries /\ pub.retries \in Nat
  BY <1>1 DEF Grantable, PublicationInv, StoreOK, Publication
<1>4. BudgetOK'
  BY <1>1, <1>3, SameCalls DEF DurableInv, BudgetOK
<1> QED BY <1>2, <1>4 DEF DurableInv

\* A chain that still grows was not complete, so nobody has claimed it.
LEMMA GrowDurable ==
  ASSUME PublicationInv, PublicationInv', DurableInv, Grow
  PROVE  DurableInv'
<1>1. UNCHANGED <<pub, req, proc, delivered, anchors, worms, commits>>
  BY DEF Grow, storeVars, externalVars
<1>2. PICK e \in Offered : AppendEvent(e)
  BY DEF Grow, ChainNext
<1>3. chain \in Seq(Events) /\ e \in Events /\ Transition(chain, e) /\ chain' = Append(chain, e)
  BY <1>2, OfferedAssumption DEF PublicationInv, ChainFits, AppendEvent
<1>4. ~Complete(chain)
  BY <1>3, CompleteIsFinal
<1>5. Len(chain) \in Nat /\ Len(chain') = Len(chain) + 1
  BY <1>3
<1>6. ASSUME NEW p \in Publishers
      PROVE  /\ proc[p].pc \in {"idle", "refuse"}
             /\ proc[p].pc = "refuse" => proc[p].n <= Len(chain') /\ proc[p].n # Len(chain')
  <2>1. proc[p].n \in Nat
    BY DEF PublicationInv, ProcsOK, Process
  <2> QED BY <1>4, <1>5, <2>1 DEF DurableInv, ClaimedChain
<1>7. ClaimedChain'
  BY <1>1, <1>4, <1>6 DEF DurableInv, ClaimedChain
<1>8. ReceiptsHeld' /\ Unblocked'
  BY <1>1 DEF DurableInv, ReceiptsHeld, Unblocked
<1>9. Grantable' - Grantable <= pub'.retries - pub.retries /\ pub.retries \in Nat
  BY <1>1 DEF Grantable, PublicationInv, StoreOK, Publication
<1>10. BudgetOK'
  BY <1>1, <1>9, SameCalls DEF DurableInv, BudgetOK
<1> QED BY <1>7, <1>8, <1>10 DEF DurableInv

\* At first there is one grant to give and no call that could use it.
LEMMA DurableInit == PublicationInit => DurableInv
<1> SUFFICES ASSUME PublicationInit PROVE DurableInv
  OBVIOUS
<1>1. /\ pub.status = "none" /\ pub.events = 0 /\ pub.retries = 0 /\ pub.progress = NoProgress
      /\ NoProgress.acks = 0 /\ NoProgress.anchor = None /\ NoProgress.worm = None
      /\ commits = 0 /\ delivered = [i \in 1 .. MaxEvents |-> 0]
  BY DEF PublicationInit, NoPublication, NoProgress
<1>2. \A p \in Publishers : proc[p].pc = "idle" /\ proc[p].n = 0 /\ proc[p].g = NoProgress
  BY DEF PublicationInit, IdleProc
<1>3. ClaimedChain
  BY <1>1, <1>2 DEF ClaimedChain
<1>4. ReceiptsHeld
  BY <1>1, <1>2 DEF ReceiptsHeld, Held, AnchorKnown
<1>5. Unblocked
  BY <1>1 DEF Unblocked
<1>6. Cardinality(Committing) = 0
  <2>1. Committing = {}
    BY <1>2 DEF Committing, PreCommit
  <2> QED BY <2>1, FS_EmptySet
<1>7. ASSUME NEW i \in 1 .. MaxEvents PROVE Cardinality(Delivering(i)) = 0 /\ delivered[i] = 0
  <2>1. Delivering(i) = {}
    BY <1>2 DEF Delivering, MayDeliver
  <2> QED BY <1>1, <2>1, FS_EmptySet
<1>8. BudgetOK
  BY <1>1, <1>6, <1>7 DEF BudgetOK, Grantable
<1> QED BY <1>3, <1>4, <1>5, <1>8 DEF DurableInv

-----------------------------------------------------------------------------
(* Theorems about what a publication amounts to. *)

\* The second invariant holds of every behaviour.
THEOREM DurableInvariance == PublicationSpec => []DurableInv
<1>1. PublicationInv /\ PublicationInv' /\ DurableInv /\ [PublicationNext]_publicationVars
        => DurableInv'
  <2> SUFFICES ASSUME PublicationInv, PublicationInv', DurableInv,
                      [PublicationNext]_publicationVars
               PROVE  DurableInv'
    OBVIOUS
  <2>1. ASSUME NEW p \in Publishers, Step(p) PROVE DurableInv'
    BY <2>1, RefuseDurable, ClaimDurable, AdvanceDurable, PublishDurable, AnchorDurable,
       CommitDurable, ReadReceiptDurable, FinishDurable, FailDurable DEF Step
  <2>2. ASSUME NEW p \in Publishers, Load(p) \/ Crash(p) PROVE DurableInv'
    BY <2>2, LoadDurable, CrashDurable
  <2>3. CASE Authorize \/ Close \/ Grow
    BY <2>3, AuthorizeDurable, CloseDurable, GrowDurable
  <2>4. CASE UNCHANGED publicationVars
    BY <2>4 DEF publicationVars, DurableInv, ClaimedChain, ReceiptsHeld, Unblocked, BudgetOK,
                Grantable, Delivering, Committing
  <2> QED BY <2>1, <2>2, <2>3, <2>4 DEF PublicationNext
<1> QED BY <1>1, DurableInit, PublicationInvariance, PTL DEF PublicationSpec

\* complete_publication has checked the last stage.
Finished ==
  pub.status = "completed" =>
    pub.progress.stage = WormReadbackComplete /\ pub.progress.acks = pub.events

\* Only complete_publication completes.
LEMMA FinishedNext ==
  ASSUME PublicationInv, Finished, [PublicationNext]_publicationVars
  PROVE  Finished'
<1>0. pub \in Publication
  BY DEF PublicationInv, StoreOK
<1>1. CASE pub' = pub
  BY <1>1 DEF Finished
<1>2. ASSUME NEW c, NEW n, CanClaim(n), ClaimPublication(c, n) PROVE Finished'
  BY <1>0, <1>2 DEF CanClaim, CanClaimFirst, CanClaimAgain, ClaimPublication, Finished, Publication
<1>3. ASSUME NEW c, NEW g, CanAdvance(c, g), AdvancePublication(g) PROVE Finished'
  BY <1>0, <1>3 DEF CanAdvance, ActiveClaim, AdvancePublication, Finished, Publication
<1>4. ASSUME NEW c, NEW g, CanComplete(c, g), CompletePublication PROVE Finished'
  BY <1>0, <1>4 DEF CanComplete, BoundToEvents, CompletePublication, Finished, Publication
<1>5. CASE CanAuthorize /\ AuthorizeRetry
  BY <1>0, <1>5 DEF CanAuthorize, AuthorizeRetry, Finished, Publication
<1>6. ASSUME NEW p \in Publishers, Load(p) \/ Crash(p) \/ Publish(p) \/ Anchor(p) \/ Commit(p)
                                     \/ ReadReceipt(p) \/ Refuse(p) \/ Fail(p)
      PROVE  pub' = pub
  BY <1>6 DEF Load, Crash, Publish, Anchor, Commit, ReadReceipt, Refuse, Fail, StoreCall,
              RequirePublication, storeVars
<1>7. ASSUME NEW p \in Publishers, Claim(p) PROVE Finished'
  BY <1>1, <1>2, <1>7 DEF Claim, StoreCall, storeVars
<1>8. ASSUME NEW p \in Publishers, Advance(p) PROVE Finished'
  BY <1>1, <1>3, <1>8 DEF Advance, StoreCall, storeVars
<1>9. ASSUME NEW p \in Publishers, Finish(p) PROVE Finished'
  BY <1>1, <1>4, <1>9 DEF Finish, StoreCall, storeVars
<1>10. CASE Authorize
  BY <1>5, <1>10 DEF Authorize
<1>11. CASE Close \/ Grow \/ UNCHANGED publicationVars
  BY <1>1, <1>11 DEF Close, Grow, storeVars, publicationVars
<1> QED BY <1>1, <1>6, <1>7, <1>8, <1>9, <1>10, <1>11 DEF PublicationNext, Step

\* What finalize reports as published is durable: the whole final chain is with
\* the broker and in the journal, under the stored anchor and receipt, and no
\* requirement blocks it (complete_publication).
THEOREM DurableCompletion == PublicationSpec => []CompletedIsDurable
<1>1. PublicationInit => Finished
  BY DEF PublicationInit, NoPublication, Finished
<1>2. PublicationInv /\ Finished /\ [PublicationNext]_publicationVars => Finished'
  BY FinishedNext
<1>3. PublicationInv /\ DurableInv /\ Finished => CompletedIsDurable
  <2> SUFFICES ASSUME PublicationInv, DurableInv, Finished, pub.status = "completed"
               PROVE  /\ Complete(chain) /\ pub.events = Len(chain)
                      /\ \A i \in 1 .. pub.events : delivered[i] > 0
                      /\ pub.progress.anchor \in anchors
                      /\ [events |-> pub.events, anchor |-> pub.progress.anchor,
                          ref |-> pub.progress.worm] \in worms
                      /\ ~req.present
    BY DEF CompletedIsDurable
  <2>1. pub.progress.stage = WormReadbackComplete /\ pub.progress.acks = pub.events
    BY DEF Finished
  <2>2. pub.progress.anchor # None /\ pub.progress.worm # None
    BY <2>1 DEF PublicationInv, StoreOK, WellFormed
  <2>3. Held(pub.progress, pub.events, delivered, anchors, worms)
    BY DEF DurableInv, ReceiptsHeld
  <2> QED BY <2>1, <2>2, <2>3 DEF Held, DurableInv, ClaimedChain, Unblocked
<1> QED BY <1>1, <1>2, <1>3, PublicationInvariance, DurableInvariance, PTL DEF PublicationSpec

\* However many publishers crash, race or are revoked, an event reaches the
\* broker and the chain the journal at most once more than retries were
\* authorized by two principals (authorize_publication_retry).
THEOREM AuthorizedRepeats == PublicationSpec => []RepeatsAreAuthorized
<1>1. PublicationInv /\ DurableInv => RepeatsAreAuthorized
  <2> SUFFICES ASSUME PublicationInv, DurableInv PROVE RepeatsAreAuthorized
    OBVIOUS
  <2>0. Grantable \in Nat /\ pub.retries \in Nat
    BY DEF Grantable, PublicationInv, StoreOK, Publication
  <2>1. ASSUME NEW i \in 1 .. MaxEvents PROVE delivered[i] <= 1 + pub.retries
    <3>1. Delivering(i) \in SUBSET Publishers
      BY DEF Delivering
    <3>2. Cardinality(Delivering(i)) \in Nat
      BY <3>1, ClaimsAssumption, FS_Subset, FS_CardinalityType
    <3>3. delivered[i] \in Nat
      BY DEF PublicationInv, EffectsOK
    <3>4. delivered[i] + Cardinality(Delivering(i)) + Grantable <= 1 + pub.retries
      BY DEF DurableInv, BudgetOK
    <3> QED BY <2>0, <3>2, <3>3, <3>4
  <2>2. commits <= 1 + pub.retries
    <3>1. Committing \in SUBSET Publishers
      BY DEF Committing
    <3>2. Cardinality(Committing) \in Nat
      BY <3>1, ClaimsAssumption, FS_Subset, FS_CardinalityType
    <3>3. commits \in Nat /\ commits + Cardinality(Committing) + Grantable <= 1 + pub.retries
      BY DEF DurableInv, BudgetOK
    <3> QED BY <2>0, <3>2, <3>3
  <2> QED BY <2>1, <2>2 DEF RepeatsAreAuthorized
<1> QED BY <1>1, PublicationInvariance, DurableInvariance, PTL
=============================================================================
