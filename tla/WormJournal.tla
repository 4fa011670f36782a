---------------------------- MODULE WormJournal ----------------------------
(***************************************************************************)
(* AzureBlobWormJournal of nac_runtime/azure_blob_worm.py: the commit of   *)
(* one evidence chain as a blob that is created once and never changed.    *)
(*                                                                         *)
(* The blob is addressed by the operation key, which is a hash of the head *)
(* of the chain, and only a complete chain is committed.  Complete chains  *)
(* are final (EvidenceChain), so there is one blob.  Its body also holds   *)
(* the anchor, the attestation and the policy, which can differ from one   *)
(* committer to the next: a committer is one configured journal whose body *)
(* is BodyOf[c].                                                           *)
(*                                                                         *)
(* Every request of _commit is one step: the conditional put, the list of  *)
(* versions and each read of one version, because a request can fail, its  *)
(* answer can be lost, it can arrive late and others act in between.  The  *)
(* counter faults pays for each disturbance.                               *)
(***************************************************************************)
EXTENDS EvidenceChain, FiniteSets

CONSTANTS
  Committers,      \* configured journals, in any number of processes
  Bodies,          \* canonical bytes of the envelope
  BodyOf,          \* BodyOf[c] = the body that committer c presents
  MaxFaults        \* bound on disturbances

ASSUME BodyAssumption == BodyOf \in [Committers -> Bodies]
ASSUME FaultsAssumption == MaxFaults \in Nat

VARIABLES
  versions,        \* the versions of the blob
  sound,           \* container policy and provider context are the attested ones
  committer,       \* committer[c] = local state of the commit call in c
  travelling,      \* bodies of timed out puts that may still arrive
  receipts,        \* [body, id] of every commit that succeeded
  refused,         \* committers whose last call was rejected by a check
  meddled,         \* a foreign version was made, or policy or context drifted
  faults           \* disturbances so far

journalVars == <<chain, versions, sound, committer, travelling, receipts,
                 refused, meddled, faults>>

-----------------------------------------------------------------------------
\* todo, matches and missed: the candidates of a discovery that are still to be
\* read, that match, and whose validation got no answer.
Resting == [pc |-> "idle", id |-> 0, todo |-> {}, matches |-> {}, missed |-> {}]

Become(c, s) == committer' = [committer EXCEPT ![c] = s]

Fault == faults < MaxFaults /\ faults' = faults + 1

\* The call raises because a request failed: no verdict.
Fails(c) == Become(c, Resting) /\ Fault

\* The call raises because a check of the journal rejected what it found.  What
\* it missed is remembered with the verdict.
Rejects(c) ==
  /\ Become(c, [Resting EXCEPT !.missed = committer[c].missed])
  /\ refused' = refused \cup {c}
  /\ UNCHANGED receipts

Returns(c, id) ==
  /\ Become(c, Resting)
  /\ receipts' = receipts \cup {[body |-> BodyOf[c], id |-> id]}
  /\ UNCHANGED refused

\* _validate_blob against the expected body: a version is locked for good with
\* what the container demanded when it was made (locked), and the container is
\* looked at again.
Fitting(v, body) == v.body = body /\ v.locked
Valid(v, body) == Fitting(v, body) /\ sound

Ids == {v.id : v \in versions}

-----------------------------------------------------------------------------
(* commit *)

\* The checks before the put: a complete chain and an attested container.
Commit(c) ==
  /\ committer[c].pc = "idle"
  /\ Complete(chain)
  /\ sound
  /\ Become(c, [Resting EXCEPT !.pc = "put"])
  /\ refused' = refused \ {c}
  /\ UNCHANGED <<chain, versions, sound, travelling, receipts, meddled, faults>>

\* put_blob_if_absent creates the first version only (If-None-Match: *).
NextId == Cardinality(versions) + 1

Stored(body) == [id |-> NextId, body |-> body, locked |-> sound]

\* Mutant of PutIfAbsent: the put is not conditional.
PutAlways(body) == versions' = versions \cup {Stored(body)}

PutIfAbsent(body) ==
  versions' = IF versions = {} THEN {Stored(body)} ELSE versions

\* Mutant of AfterPut: a conflict ends the call.
AfterPutConflictRejects(c) ==
  IF versions' # versions
    THEN Become(c, [Resting EXCEPT !.pc = "check", !.id = NextId]) /\ UNCHANGED refused
    ELSE Become(c, Resting) /\ refused' = refused \cup {c}

\* 201 names the new version, 412 names none.
AfterPut(c) ==
  IF versions' # versions
    THEN Become(c, [Resting EXCEPT !.pc = "check", !.id = NextId]) /\ UNCHANGED refused
    ELSE Become(c, [Resting EXCEPT !.pc = "list"]) /\ UNCHANGED refused

Put(c) ==
  /\ committer[c].pc = "put"
  /\ \/ PutIfAbsent(BodyOf[c]) /\ AfterPut(c) /\ UNCHANGED <<travelling, faults>>
     \/ PutIfAbsent(BodyOf[c]) /\ Fails(c) /\ UNCHANGED <<travelling, refused>>
     \/ /\ travelling' = travelling \cup {BodyOf[c]}
        /\ Fails(c)
        /\ UNCHANGED <<versions, refused>>
  /\ UNCHANGED <<chain, sound, receipts, meddled>>

\* Mutant of Check: the 201 is believed without reading the version back.
CheckBelieves(c) == LET s == committer[c] IN
  /\ s.pc = "check"
  /\ Returns(c, s.id) /\ UNCHANGED faults
  /\ UNCHANGED <<chain, versions, sound, travelling, meddled>>

\* The version of a 201 is read back and validated.
Check(c) == LET s == committer[c] IN
  /\ s.pc = "check"
  /\ \/ \E v \in versions :
          /\ v.id = s.id
          /\ IF Valid(v, BodyOf[c]) THEN Returns(c, s.id) ELSE Rejects(c)
          /\ UNCHANGED faults
     \/ Fails(c) /\ UNCHANGED <<receipts, refused>>
  /\ UNCHANGED <<chain, versions, sound, travelling, meddled>>

\* _discover_conflict_version: list, read every candidate, demand one match.
List(c) ==
  /\ committer[c].pc = "list"
  /\ \/ Become(c, [Resting EXCEPT !.pc = "scan", !.todo = Ids]) /\ UNCHANGED faults
     \/ Fails(c)
  /\ UNCHANGED <<chain, versions, sound, travelling, receipts, refused, meddled>>

\* One candidate is read and validated.  A failed read ends the call; a failed
\* request of the validation, for the context or the policy of the container,
\* counts as a mismatch and the loop goes on.
Scan(c) == LET s == committer[c] IN
  /\ s.pc = "scan"
  /\ \/ \E v \in versions :
          /\ v.id \in s.todo
          /\ \/ /\ Become(c, [s EXCEPT !.todo = @ \ {v.id},
                    !.matches = IF Valid(v, BodyOf[c]) THEN @ \cup {v.id} ELSE @])
                /\ UNCHANGED faults
             \/ /\ Fitting(v, BodyOf[c])
                /\ Become(c, [s EXCEPT !.todo = @ \ {v.id}, !.missed = @ \cup {v.id}])
                /\ Fault
     \/ s.todo # {} /\ Fails(c)
  /\ UNCHANGED <<chain, versions, sound, travelling, receipts, refused, meddled>>

Discover(c) == LET s == committer[c] IN
  /\ s.pc = "scan"
  /\ s.todo = {}
  /\ IF Cardinality(s.matches) = 1
       THEN \E id \in s.matches : Returns(c, id)
       ELSE Rejects(c)
  /\ UNCHANGED <<chain, versions, sound, travelling, meddled, faults>>

\* readback of a receipt by a journal that expects no particular body: one
\* version carries the id, and it is validated.
ReadsBack(receipt) ==
  \E v \in versions :
    /\ v.id = receipt.id
    /\ \A u \in versions : u.id = v.id => u = v
    /\ Valid(v, v.body)

-----------------------------------------------------------------------------
(* The surroundings: callers of the outbox, late puts, other tenants of    *)
(* the storage account, changes of the container.                          *)

Grow ==
  /\ ChainNext
  /\ UNCHANGED <<versions, sound, committer, travelling, receipts, refused,
                 meddled, faults>>

LatePut(body) ==
  /\ body \in travelling
  /\ travelling' = travelling \ {body}
  /\ PutIfAbsent(body)
  /\ UNCHANGED <<chain, sound, committer, receipts, refused, meddled, faults>>

\* A version that no commit made: a copy, or a blob with other properties.
ForeignVersion ==
  /\ Complete(chain)
  /\ Fault
  /\ \E body \in Bodies, locked \in BOOLEAN :
       versions' = versions \cup {[id |-> NextId, body |-> body, locked |-> locked]}
  /\ meddled' = TRUE
  /\ UNCHANGED <<chain, sound, committer, travelling, receipts, refused>>

Drift ==
  /\ Complete(chain)
  /\ Fault
  /\ sound' = ~sound
  /\ meddled' = TRUE
  /\ UNCHANGED <<chain, versions, committer, travelling, receipts, refused>>

-----------------------------------------------------------------------------
JournalInit ==
  /\ ChainInit
  /\ versions = {}
  /\ sound = TRUE
  /\ committer = [c \in Committers |-> Resting]
  /\ travelling = {}
  /\ receipts = {}
  /\ refused = {}
  /\ meddled = FALSE
  /\ faults = 0

JournalNext ==
  \/ \E c \in Committers :
       Commit(c) \/ Put(c) \/ Check(c) \/ List(c) \/ Scan(c) \/ Discover(c)
  \/ \E body \in Bodies : LatePut(body)
  \/ ForeignVersion
  \/ Drift
  \/ Grow

JournalSpec == JournalInit /\ [][JournalNext]_journalVars

-----------------------------------------------------------------------------
(* Properties. *)

\* "Post-create response loss and real same-blob concurrency produce at most
\* one create effect": unless others write to the blob, it has one version and
\* every commit of the chain that ever succeeds returns the same receipt.
OneReceipt ==
  ~meddled => /\ Cardinality(versions) <= 1
              /\ \A r, s \in receipts : r = s

\* Every receipt that a commit returned reads back whenever the container is
\* the attested one, and it reads back the bytes that were committed, even if
\* others added versions or the container drifted in the meantime.
ReceiptsReadBack ==
  sound => \A r \in receipts :
    /\ ReadsBack(r)
    /\ \A v \in versions : v.id = r.id => v.body = r.body

\* A commit is rejected for cause: as long as nobody else touches the blob or
\* the container, a commit that is repeated after a lost answer, or races its
\* own late put, recognises its version.  Only another body is turned away, and
\* a commit whose discovery got no answer when it validated a candidate.
RejectedForCause ==
  ~meddled => \A c \in refused :
    committer[c].missed # {} \/ \E v \in versions : v.body # BodyOf[c]
=============================================================================
