------------------------- MODULE WormJournalProofs -------------------------
(***************************************************************************)
(* Proofs about WormJournal for any number of committers, bodies, faults   *)
(* and versions.                                                           *)
(***************************************************************************)
EXTENDS WormJournal, EvidenceChainProofs, FiniteSetTheorems

VersionType == [id : Nat, body : Bodies, locked : BOOLEAN]

CallType == [pc : {"idle", "put", "check", "list", "scan"}, id : Nat,
             todo : SUBSET Nat, matches : SUBSET Nat, missed : SUBSET Nat]

JournalTypeOK ==
  /\ versions \subseteq VersionType /\ IsFiniteSet(versions)
  /\ sound \in BOOLEAN /\ meddled \in BOOLEAN
  /\ committer \in [Committers -> CallType]
  /\ travelling \subseteq Bodies
  /\ receipts \subseteq [body : Bodies, id : Nat]
  /\ refused \subseteq Committers

\* Versions are numbered in the order of their creation.
IdsAreUnique ==
  /\ \A v \in versions : v.id \in 1 .. Cardinality(versions)
  /\ \A u, v \in versions : u.id = v.id => u = v

\* As long as nobody else is at work, the blob has one sound version at most.
OneSoundVersion ==
  ~meddled => /\ sound
              /\ \A u, v \in versions : u = v
              /\ \A v \in versions : v.locked

\* id names a locked version with this body: what a receipt stands for.
Holds(id, body) == \E v \in versions : v.id = id /\ v.body = body /\ v.locked

ReceiptsHold == \A r \in receipts : Holds(r.id, r.body)

\* What a committer that runs the discovery knows.  A version is still to be
\* read, has been found, was missed, or has another body. 
DiscoveryIsSound ==
  \A c \in Committers :
    /\ c \in refused => committer[c].pc = "idle"
    /\ committer[c].pc = "scan" => \A id \in committer[c].matches : Holds(id, BodyOf[c])
    /\ committer[c].pc \in {"list", "scan"} => versions # {}
    /\ ~meddled /\ committer[c].pc = "scan" =>
         \A v \in versions :
           \/ v.id \in committer[c].todo
           \/ v.id \in committer[c].matches
           \/ v.id \in committer[c].missed
           \/ v.body # BodyOf[c]

JournalInv ==
  /\ JournalTypeOK
  /\ IdsAreUnique
  /\ OneSoundVersion
  /\ ReceiptsHold
  /\ DiscoveryIsSound
  /\ RejectedForCause

-----------------------------------------------------------------------------
\* The empty journal satisfies the invariant.
LEMMA JournalInitInv == JournalInit => JournalInv
<1> SUFFICES ASSUME JournalInit PROVE JournalInv
  OBVIOUS
<1>1. versions = {} /\ IsFiniteSet(versions)
  BY FS_EmptySet DEF JournalInit
<1>2. Resting \in CallType
  BY DEF Resting, CallType
<1>3. JournalTypeOK
  BY <1>1, <1>2 DEF JournalInit, JournalTypeOK
<1>4. DiscoveryIsSound
  BY DEF JournalInit, DiscoveryIsSound, Resting
<1> QED
  BY <1>1, <1>3, <1>4 DEF JournalInit, JournalInv, IdsAreUnique, OneSoundVersion, ReceiptsHold,
                          RejectedForCause

\* Versions are created and never changed or removed, so what holds of a
\* version keeps holding.
LEMMA HoldsIsStable ==
  ASSUME versions \subseteq versions', NEW id, NEW body, Holds(id, body)
  PROVE  Holds(id, body)'
BY DEF Holds

\* Creating a version with the next number.
LEMMA NewVersion ==
  ASSUME JournalTypeOK, IdsAreUnique, NEW v \in VersionType, v.id = NextId,
         versions' = versions \cup {v}
  PROVE  /\ versions' \subseteq VersionType /\ IsFiniteSet(versions')
         /\ IdsAreUnique'
<1>1. IsFiniteSet(versions) /\ Cardinality(versions) \in Nat
  BY FS_CardinalityType DEF JournalTypeOK
<1>2. v \notin versions
  BY <1>1 DEF IdsAreUnique, NextId
<1>3. IsFiniteSet(versions') /\ Cardinality(versions') = Cardinality(versions) + 1
  BY <1>1, <1>2, FS_AddElement
<1>4. IdsAreUnique'
  BY <1>1, <1>3 DEF IdsAreUnique, NextId, JournalTypeOK, VersionType
<1> QED BY <1>3, <1>4 DEF JournalTypeOK

\* put_blob_if_absent: nothing, or the first version.
LEMMA PutEffect ==
  ASSUME JournalTypeOK, IdsAreUnique, NEW body \in Bodies, PutIfAbsent(body)
  PROVE  /\ versions' \subseteq VersionType /\ IsFiniteSet(versions')
         /\ IdsAreUnique'
         /\ versions \subseteq versions'
         /\ versions' # {}
         /\ versions' # versions => versions = {} /\ versions' = {Stored(body)}
<1>1. CASE versions = {}
  <2>1. versions' = versions \cup {Stored(body)} /\ versions' = {Stored(body)}
    BY <1>1 DEF PutIfAbsent
  <2>2. Stored(body) \in VersionType /\ Stored(body).id = NextId
    BY <1>1, FS_CardinalityType DEF Stored, VersionType, NextId, JournalTypeOK
  <2> QED BY <1>1, <2>1, <2>2, NewVersion
<1>2. CASE versions # {}
  BY <1>2 DEF PutIfAbsent, JournalTypeOK, IdsAreUnique
<1> QED BY <1>1, <1>2
\* What every put, in time or late, keeps: the version it may create is locked
\* as the container demands, and the version that is there stays.
LEMMA PutKeeps ==
  ASSUME JournalInv, NEW body \in Bodies, PutIfAbsent(body), UNCHANGED <<sound, meddled>>
  PROVE  /\ versions' \subseteq VersionType /\ IsFiniteSet(versions')
         /\ IdsAreUnique'
         /\ OneSoundVersion'
         /\ versions \subseteq versions'
         /\ versions' # {}
         /\ versions # {} => versions' = versions
<1>1. /\ versions' \subseteq VersionType /\ IsFiniteSet(versions')
      /\ IdsAreUnique'
      /\ versions \subseteq versions'
      /\ versions' # {}
      /\ versions' # versions => versions = {} /\ versions' = {Stored(body)}
  BY PutEffect DEF JournalInv
<1>2. OneSoundVersion'
  <2>1. CASE versions' = versions
    BY <2>1 DEF JournalInv, OneSoundVersion
  <2>2. CASE versions' # versions
    <3>1. versions' = {Stored(body)} /\ Stored(body).locked = sound
      BY <1>1, <2>2 DEF Stored
    <3>2. ~meddled => sound
      BY DEF JournalInv, OneSoundVersion
    <3> QED BY <3>1, <3>2, Zenon DEF OneSoundVersion
  <2> QED BY <2>1, <2>2
<1> QED BY <1>1, <1>2

\* commit passes its checks and is about to put.
LEMMA CommitInv ==
  ASSUME JournalInv, NEW c \in Committers, Commit(c)
  PROVE  JournalInv'
<1>1. /\ committer' = [committer EXCEPT ![c] = [Resting EXCEPT !.pc = "put"]]
      /\ refused' = refused \ {c}
      /\ UNCHANGED <<versions, sound, travelling, receipts, meddled>>
  BY DEF Commit, Become
<1>2. JournalTypeOK'
  BY <1>1 DEF JournalInv, JournalTypeOK, Resting, CallType
<1>3. DiscoveryIsSound'
  BY <1>1 DEF JournalInv, JournalTypeOK, DiscoveryIsSound, Holds, Resting
<1>4. RejectedForCause'
  BY <1>1 DEF JournalInv, JournalTypeOK, RejectedForCause
<1> QED BY <1>1, <1>2, <1>3, <1>4 DEF JournalInv, IdsAreUnique, OneSoundVersion, ReceiptsHold, Holds

\* The put is answered, answered to nobody, or still on its way.
LEMMA PutInv ==
  ASSUME JournalInv, NEW c \in Committers, Put(c)
  PROVE  JournalInv'
<1>0. BodyOf[c] \in Bodies
  BY BodyAssumption
<1>1. UNCHANGED <<sound, receipts, meddled, refused>> /\ c \notin refused
  BY DEF Put, AfterPut, JournalInv, DiscoveryIsSound
<1>2. CASE PutIfAbsent(BodyOf[c])
  <2>1. /\ versions' \subseteq VersionType /\ IsFiniteSet(versions')
        /\ IdsAreUnique' /\ OneSoundVersion'
        /\ versions \subseteq versions' /\ versions' # {}
        /\ versions # {} => versions' = versions
    BY <1>0, <1>1, <1>2, PutKeeps
  <2>2. NextId \in Nat
    BY FS_CardinalityType DEF JournalInv, JournalTypeOK, NextId
  <2>3. PICK s \in CallType : s.pc # "scan" /\ committer' = [committer EXCEPT ![c] = s]
    BY <2>2 DEF Put, AfterPut, Fails, Become, Resting, CallType
  <2>4. JournalTypeOK'
    <3>1. travelling' \subseteq Bodies
      BY <1>0 DEF Put, JournalInv, JournalTypeOK
    <3> QED BY <1>1, <2>1, <2>3, <3>1 DEF JournalInv, JournalTypeOK
  <2>5. ReceiptsHold'
    BY <1>1, <2>1 DEF JournalInv, ReceiptsHold, Holds
  <2>6. DiscoveryIsSound'
    <3> SUFFICES ASSUME NEW d \in Committers
                 PROVE  /\ d \in refused' => committer'[d].pc = "idle"
                        /\ committer'[d].pc = "scan" =>
                             \A id \in committer'[d].matches : Holds(id, BodyOf[d])'
                        /\ committer'[d].pc \in {"list", "scan"} => versions' # {}
                        /\ ~meddled' /\ committer'[d].pc = "scan" =>
                             \A v \in versions' :
                               \/ v.id \in committer'[d].todo
                               \/ v.id \in committer'[d].matches
                               \/ v.id \in committer'[d].missed
                               \/ v.body # BodyOf[d]
      BY DEF DiscoveryIsSound
    <3>1. committer'[d] = committer[d] \/ (d = c /\ committer'[d].pc # "scan")
      BY <2>3 DEF JournalInv, JournalTypeOK
    <3>2. CASE committer'[d] = committer[d]
      BY <1>1, <2>1, <3>2 DEF JournalInv, DiscoveryIsSound, Holds
    <3> QED BY <1>1, <2>1, <3>1, <3>2
  <2>7. RejectedForCause'
    BY <1>1, <2>1, <2>3 DEF JournalInv, JournalTypeOK, RejectedForCause
  <2> QED BY <2>1, <2>4, <2>5, <2>6, <2>7 DEF JournalInv
<1>3. CASE UNCHANGED versions /\ Fails(c) /\ travelling' = travelling \cup {BodyOf[c]}
  <2>1. committer' = [committer EXCEPT ![c] = Resting]
    BY <1>3 DEF Fails, Become
  <2>2. JournalTypeOK'
    BY <1>0, <1>1, <1>3, <2>1 DEF JournalInv, JournalTypeOK, Resting, CallType
  <2>3. DiscoveryIsSound'
    BY <1>1, <1>3, <2>1 DEF JournalInv, JournalTypeOK, DiscoveryIsSound, Holds, Resting
  <2>4. RejectedForCause'
    BY <1>1, <1>3, <2>1 DEF JournalInv, JournalTypeOK, RejectedForCause
  <2> QED
    BY <1>1, <1>3, <2>2, <2>3, <2>4 DEF JournalInv, IdsAreUnique, OneSoundVersion, ReceiptsHold,
                                        Holds
<1> QED BY <1>2, <1>3 DEF Put

\* A call that ends without a verdict keeps the invariant.
LEMMA EndOfCall ==
  ASSUME JournalInv, NEW c \in Committers, committer[c].pc # "idle", Become(c, Resting),
         UNCHANGED <<versions, sound, travelling, receipts, refused, meddled>>
  PROVE  JournalInv'
<1>1. committer' = [committer EXCEPT ![c] = Resting] /\ c \notin refused
  BY DEF Become, JournalInv, DiscoveryIsSound
<1>2. JournalTypeOK'
  BY <1>1 DEF JournalInv, JournalTypeOK, Resting, CallType
<1>3. DiscoveryIsSound'
  BY <1>1 DEF JournalInv, JournalTypeOK, DiscoveryIsSound, Holds, Resting
<1>4. RejectedForCause'
  BY <1>1 DEF JournalInv, JournalTypeOK, RejectedForCause
<1> QED BY <1>2, <1>3, <1>4 DEF JournalInv, IdsAreUnique, OneSoundVersion, ReceiptsHold, Holds

\* A call that returns a receipt for a version that holds its body keeps it.
LEMMA ReturnKeeps ==
  ASSUME JournalInv, NEW c \in Committers, NEW id \in Nat, Returns(c, id),
         committer[c].pc # "idle",
         Holds(id, BodyOf[c]), UNCHANGED <<versions, sound, travelling, meddled>>
  PROVE  JournalInv'
<1>1. /\ committer' = [committer EXCEPT ![c] = Resting]
      /\ receipts' = receipts \cup {[body |-> BodyOf[c], id |-> id]}
      /\ UNCHANGED refused /\ c \notin refused
      /\ BodyOf[c] \in Bodies
  BY BodyAssumption DEF Returns, Become, JournalInv, DiscoveryIsSound
<1>2. JournalTypeOK'
  BY <1>1 DEF JournalInv, JournalTypeOK, Resting, CallType
<1>3. DiscoveryIsSound'
  BY <1>1 DEF JournalInv, JournalTypeOK, DiscoveryIsSound, Holds, Resting
<1>4. ReceiptsHold'
  BY <1>1 DEF JournalInv, ReceiptsHold, Holds
<1>5. RejectedForCause'
  BY <1>1 DEF JournalInv, JournalTypeOK, RejectedForCause
<1> QED BY <1>1, <1>2, <1>3, <1>4, <1>5 DEF JournalInv, IdsAreUnique, OneSoundVersion

\* A call that rejects what it found keeps it if it had a cause.
LEMMA RejectKeeps ==
  ASSUME JournalInv, NEW c \in Committers, Rejects(c),
         ~meddled => committer[c].missed # {} \/ \E v \in versions : v.body # BodyOf[c],
         UNCHANGED <<versions, sound, travelling, meddled>>
  PROVE  JournalInv'
<1> DEFINE s == [Resting EXCEPT !.missed = committer[c].missed]
<1>1. /\ committer' = [committer EXCEPT ![c] = s]
      /\ refused' = refused \cup {c}
      /\ UNCHANGED receipts
  BY DEF Rejects, Become
<1>0. s \in CallType /\ s.pc = "idle" /\ s.missed = committer[c].missed
  BY DEF JournalInv, JournalTypeOK, Resting, CallType
<1> HIDE DEF s
<1>2. JournalTypeOK'
  BY <1>0, <1>1 DEF JournalInv, JournalTypeOK
<1>3. DiscoveryIsSound'
  BY <1>0, <1>1 DEF JournalInv, JournalTypeOK, DiscoveryIsSound, Holds
<1>4. RejectedForCause'
  BY <1>0, <1>1 DEF JournalInv, JournalTypeOK, RejectedForCause
<1> QED BY <1>1, <1>2, <1>3, <1>4 DEF JournalInv, IdsAreUnique, OneSoundVersion, ReceiptsHold, Holds

\* The version of a 201 is read back: a receipt, a rejection or no verdict.
LEMMA CheckInv ==
  ASSUME JournalInv, NEW c \in Committers, Check(c)
  PROVE  JournalInv'
<1>1. UNCHANGED <<versions, sound, travelling, meddled>> /\ committer[c].pc # "idle"
  BY DEF Check
<1>2. CASE Fails(c) /\ UNCHANGED <<receipts, refused>>
  BY <1>1, <1>2, EndOfCall DEF Fails
<1>3. ASSUME NEW v \in versions, v.id = committer[c].id,
             IF Valid(v, BodyOf[c]) THEN Returns(c, committer[c].id) ELSE Rejects(c)
      PROVE  JournalInv'
  <2>1. v.id \in Nat
    BY DEF JournalInv, JournalTypeOK, VersionType
  <2>2. CASE Valid(v, BodyOf[c])
    <3>1. Holds(v.id, BodyOf[c])
      BY <2>2 DEF Valid, Fitting, Holds
    <3> QED BY <1>1, <1>3, <2>1, <2>2, <3>1, ReturnKeeps
  <2>3. CASE ~Valid(v, BodyOf[c])
    <3>1. ~meddled => v.body # BodyOf[c]
      BY <2>3 DEF Valid, Fitting, JournalInv, OneSoundVersion
    <3> QED BY <1>1, <1>3, <2>3, <3>1, RejectKeeps
  <2> QED BY <2>2, <2>3
<1> QED BY <1>2, <1>3 DEF Check

\* The versions are listed; everything is still to be read.
LEMMA ListInv ==
  ASSUME JournalInv, NEW c \in Committers, List(c)
  PROVE  JournalInv'
<1>1. /\ UNCHANGED <<versions, sound, travelling, receipts, refused, meddled>>
      /\ committer[c].pc # "idle" /\ c \notin refused
  BY DEF List, JournalInv, DiscoveryIsSound
<1>2. CASE Fails(c)
  BY <1>1, <1>2, EndOfCall DEF Fails
<1>3. CASE Become(c, [Resting EXCEPT !.pc = "scan", !.todo = Ids])
  <2> DEFINE s == [Resting EXCEPT !.pc = "scan", !.todo = Ids]
  <2>1. /\ committer[c].pc = "list"
        /\ committer' = [committer EXCEPT ![c] = s]
    BY <1>3 DEF List, Become
  <2>2. s.pc = "scan" /\ s.todo = Ids /\ s.matches = {} /\ s.id = 0
    BY DEF Resting
  <2>3. Ids \subseteq Nat
    BY DEF Ids, JournalInv, JournalTypeOK, VersionType
  <2>4. s \in CallType
    BY <2>3 DEF Resting, CallType
  <2> HIDE DEF s
  <2>5. JournalTypeOK'
    BY <1>1, <2>1, <2>4 DEF JournalInv, JournalTypeOK
  <2>6. DiscoveryIsSound'
    BY <1>1, <2>1, <2>2 DEF JournalInv, JournalTypeOK, DiscoveryIsSound, Holds, Ids
  <2>7. RejectedForCause'
    BY <1>1, <2>1 DEF JournalInv, JournalTypeOK, RejectedForCause
  <2> QED BY <1>1, <2>5, <2>6, <2>7 DEF JournalInv, IdsAreUnique, OneSoundVersion, ReceiptsHold, Holds
<1> QED BY <1>2, <1>3 DEF List

\* The discovery moves on: everything it keeps as a match holds the body, and a
\* version that it has passed by has another body or was missed.
LEMMA ScanKeeps ==
  ASSUME JournalInv, NEW c \in Committers, NEW s \in CallType, Become(c, s),
         committer[c].pc = "scan", s.pc = "scan", c \notin refused,
         \A id \in s.matches : Holds(id, BodyOf[c]),
         ~meddled => \A u \in versions :
           u.id \in s.todo \/ u.id \in s.matches \/ u.id \in s.missed \/ u.body # BodyOf[c],
         UNCHANGED <<versions, sound, travelling, receipts, refused, meddled>>
  PROVE  JournalInv'
<1>1. committer' = [committer EXCEPT ![c] = s]
  BY DEF Become
<1>2. JournalTypeOK'
  BY <1>1 DEF JournalInv, JournalTypeOK
<1>3. DiscoveryIsSound'
  <2> SUFFICES ASSUME NEW d \in Committers
               PROVE  /\ d \in refused' => committer'[d].pc = "idle"
                      /\ committer'[d].pc = "scan" =>
                           \A id \in committer'[d].matches : Holds(id, BodyOf[d])'
                      /\ committer'[d].pc \in {"list", "scan"} => versions' # {}
                      /\ ~meddled' /\ committer'[d].pc = "scan" =>
                           \A u \in versions' :
                             \/ u.id \in committer'[d].todo
                             \/ u.id \in committer'[d].matches
                             \/ u.id \in committer'[d].missed
                             \/ u.body # BodyOf[d]
    BY DEF DiscoveryIsSound
  <2>1. CASE d = c
    <3>1. committer'[d] = s
      BY <1>1, <2>1 DEF JournalInv, JournalTypeOK
    <3>2. \A id \in s.matches : Holds(id, BodyOf[d])'
      BY <2>1 DEF Holds
    <3>3. versions # {}
      BY DEF JournalInv, DiscoveryIsSound
    <3> QED BY <2>1, <3>1, <3>2, <3>3
  <2>2. CASE d # c
    <3>1. committer'[d] = committer[d]
      BY <1>1, <2>2 DEF JournalInv, JournalTypeOK
    <3> QED BY <3>1 DEF JournalInv, DiscoveryIsSound, Holds
  <2> QED BY <2>1, <2>2
<1>4. RejectedForCause'
  BY <1>1 DEF JournalInv, JournalTypeOK, RejectedForCause
<1> QED BY <1>2, <1>3, <1>4 DEF JournalInv, IdsAreUnique, OneSoundVersion, ReceiptsHold, Holds

\* One candidate is read: it is kept as a match only if it is valid, and it is
\* missed if its validation gets no answer.
LEMMA ScanInv ==
  ASSUME JournalInv, NEW c \in Committers, Scan(c)
  PROVE  JournalInv'
<1> DEFINE old == committer[c]
<1>1. /\ UNCHANGED <<versions, sound, travelling, receipts, refused, meddled>>
      /\ old.pc = "scan" /\ old \in CallType /\ c \notin refused
  BY DEF Scan, JournalInv, JournalTypeOK, DiscoveryIsSound
<1>2. CASE Fails(c)
  BY <1>1, <1>2, EndOfCall DEF Fails
<1>3. ASSUME NEW v \in versions,
             Become(c, [old EXCEPT !.todo = @ \ {v.id},
               !.matches = IF Valid(v, BodyOf[c]) THEN @ \cup {v.id} ELSE @])
      PROVE  JournalInv'
  <2> DEFINE s == [old EXCEPT !.todo = @ \ {v.id},
                     !.matches = IF Valid(v, BodyOf[c]) THEN @ \cup {v.id} ELSE @]
  <2>1. v.id \in Nat
    BY DEF JournalInv, JournalTypeOK, VersionType
  <2>2. /\ s \in CallType
        /\ s.pc = "scan" /\ s.missed = old.missed
        /\ s.todo = old.todo \ {v.id}
        /\ s.matches = IF Valid(v, BodyOf[c]) THEN old.matches \cup {v.id} ELSE old.matches
    BY <1>1, <2>1 DEF CallType
  <2>3. Become(c, s)
    BY <1>3
  <2> HIDE DEF s
  <2>4. \A id \in s.matches : Holds(id, BodyOf[c])
    BY <1>1, <2>2 DEF JournalInv, DiscoveryIsSound, Holds, Valid, Fitting
  <2>5. ASSUME ~meddled, NEW u \in versions, u.body = BodyOf[c], u.id \notin s.todo
        PROVE  u.id \in s.matches \/ u.id \in s.missed
    <3>1. u.id \in old.todo \/ u.id \in old.matches \/ u.id \in old.missed
      BY <1>1, <2>5 DEF JournalInv, DiscoveryIsSound
    <3>2. CASE u.id = v.id
      <4>1. u = v
        BY <3>2 DEF JournalInv, IdsAreUnique
      <4>2. Valid(v, BodyOf[c])
        BY <2>5, <4>1 DEF Valid, Fitting, JournalInv, OneSoundVersion
      <4> QED BY <2>2, <3>2, <4>2
    <3>3. CASE u.id # v.id
      BY <2>2, <2>5, <3>1, <3>3
    <3> QED BY <3>2, <3>3
  <2> QED BY <1>1, <2>2, <2>3, <2>4, <2>5, ScanKeeps
<1>4. ASSUME NEW v \in versions,
             Become(c, [old EXCEPT !.todo = @ \ {v.id}, !.missed = @ \cup {v.id}])
      PROVE  JournalInv'
  <2> DEFINE s == [old EXCEPT !.todo = @ \ {v.id}, !.missed = @ \cup {v.id}]
  <2>1. v.id \in Nat
    BY DEF JournalInv, JournalTypeOK, VersionType
  <2>2. /\ s \in CallType
        /\ s.pc = "scan" /\ s.matches = old.matches
        /\ s.todo = old.todo \ {v.id} /\ s.missed = old.missed \cup {v.id}
    BY <1>1, <2>1 DEF CallType
  <2>3. Become(c, s)
    BY <1>4
  <2> HIDE DEF s
  <2>4. \A id \in s.matches : Holds(id, BodyOf[c])
    BY <1>1, <2>2 DEF JournalInv, DiscoveryIsSound
  <2>5. ~meddled => \A u \in versions :
          u.id \in s.todo \/ u.id \in s.matches \/ u.id \in s.missed \/ u.body # BodyOf[c]
    BY <1>1, <2>2 DEF JournalInv, DiscoveryIsSound
  <2> QED BY <1>1, <2>2, <2>3, <2>4, <2>5, ScanKeeps
<1> QED BY <1>2, <1>3, <1>4 DEF Scan

\* The discovery ends: exactly one match is a receipt, anything else a rejection.
LEMMA DiscoverInv ==
  ASSUME JournalInv, NEW c \in Committers, Discover(c)
  PROVE  JournalInv'
<1>1. /\ UNCHANGED <<versions, sound, travelling, meddled>>
      /\ committer[c].pc = "scan" /\ committer[c].todo = {}
      /\ IF Cardinality(committer[c].matches) = 1
           THEN \E id \in committer[c].matches : Returns(c, id)
           ELSE Rejects(c)
  BY DEF Discover
<1>2. committer[c].matches \subseteq Nat
  BY DEF JournalInv, JournalTypeOK, CallType
<1>3. CASE Cardinality(committer[c].matches) = 1
  <2>1. PICK id \in committer[c].matches : Returns(c, id)
    BY <1>1, <1>3
  <2>2. Holds(id, BodyOf[c]) /\ id \in Nat
    BY <1>1, <1>2, <2>1 DEF JournalInv, DiscoveryIsSound
  <2> QED BY <1>1, <2>1, <2>2, ReturnKeeps
<1>4. CASE Cardinality(committer[c].matches) # 1
  <2>1. ASSUME ~meddled
        PROVE  committer[c].missed # {} \/ \E v \in versions : v.body # BodyOf[c]
    <3> SUFFICES ASSUME committer[c].missed = {}, \A v \in versions : v.body = BodyOf[c]
                 PROVE  FALSE
      OBVIOUS
    <3>1. PICK v \in versions : TRUE
      BY <1>1 DEF JournalInv, DiscoveryIsSound
    <3>2. v.id \in committer[c].matches
      BY <1>1, <2>1, <3>1 DEF JournalInv, DiscoveryIsSound
    <3>3. \A id \in committer[c].matches : id = v.id
      BY <1>1, <2>1, <3>1 DEF JournalInv, DiscoveryIsSound, Holds, OneSoundVersion
    <3>4. committer[c].matches = {v.id}
      BY <3>2, <3>3
    <3> QED BY <1>4, <3>4, FS_Singleton
  <2> QED BY <1>1, <1>4, <2>1, RejectKeeps
<1> QED BY <1>3, <1>4
\* A put arrives after its caller gave up.
LEMMA LatePutInv ==
  ASSUME JournalInv, NEW body \in Bodies, LatePut(body)
  PROVE  JournalInv'
<1>1. /\ UNCHANGED <<sound, committer, receipts, refused, meddled>>
      /\ travelling' = travelling \ {body}
      /\ PutIfAbsent(body)
  BY DEF LatePut
<1>2. /\ versions' \subseteq VersionType /\ IsFiniteSet(versions')
      /\ IdsAreUnique' /\ OneSoundVersion'
      /\ versions \subseteq versions' /\ versions' # {}
      /\ versions # {} => versions' = versions
  BY <1>1, PutKeeps
<1>3. JournalTypeOK'
  BY <1>1, <1>2 DEF JournalInv, JournalTypeOK
<1>4. ReceiptsHold'
  BY <1>1, <1>2 DEF JournalInv, ReceiptsHold, Holds
<1>5. DiscoveryIsSound'
  BY <1>1, <1>2 DEF JournalInv, DiscoveryIsSound, Holds
<1>6. RejectedForCause'
  BY <1>1, <1>2 DEF JournalInv, RejectedForCause
<1> QED BY <1>2, <1>3, <1>4, <1>5, <1>6 DEF JournalInv

\* Others create a version or change the container: what was found stays found.
LEMMA MeddlingInv ==
  ASSUME JournalInv, ForeignVersion \/ Drift
  PROVE  JournalInv'
<1>1. /\ UNCHANGED <<committer, travelling, receipts, refused>>
      /\ meddled'
  BY DEF ForeignVersion, Drift
<1>2. /\ versions' \subseteq VersionType /\ IsFiniteSet(versions')
      /\ IdsAreUnique'
      /\ versions \subseteq versions'
      /\ sound' \in BOOLEAN
  <2>1. CASE ForeignVersion
    <3>1. PICK body \in Bodies, locked \in BOOLEAN :
            versions' = versions \cup {[id |-> NextId, body |-> body, locked |-> locked]}
      BY <2>1 DEF ForeignVersion
    <3>2. UNCHANGED sound
      BY <2>1 DEF ForeignVersion
    <3> DEFINE v == [id |-> NextId, body |-> body, locked |-> locked]
    <3>3. v \in VersionType /\ v.id = NextId
      BY FS_CardinalityType DEF VersionType, NextId, JournalInv, JournalTypeOK
    <3> HIDE DEF v
    <3>4. versions' = versions \cup {v}
      BY <3>1 DEF v
    <3> QED BY <3>2, <3>3, <3>4, NewVersion DEF JournalInv, JournalTypeOK
  <2>2. CASE Drift
    BY <2>2 DEF Drift, JournalInv, JournalTypeOK, IdsAreUnique
  <2> QED BY <2>1, <2>2
<1>3. JournalTypeOK'
  BY <1>1, <1>2 DEF JournalInv, JournalTypeOK
<1>4. ReceiptsHold'
  BY <1>1, <1>2 DEF JournalInv, ReceiptsHold, Holds
<1>5. DiscoveryIsSound'
  BY <1>1, <1>2 DEF JournalInv, DiscoveryIsSound, Holds
<1> QED BY <1>1, <1>2, <1>3, <1>4, <1>5 DEF JournalInv, OneSoundVersion, RejectedForCause

\* The invariant is inductive.
LEMMA JournalNextInv == JournalInv /\ [JournalNext]_journalVars => JournalInv'
<1> SUFFICES ASSUME JournalInv, [JournalNext]_journalVars PROVE JournalInv'
  OBVIOUS
<1>1. ASSUME NEW c \in Committers,
             Commit(c) \/ Put(c) \/ Check(c) \/ List(c) \/ Scan(c) \/ Discover(c)
      PROVE  JournalInv'
  BY <1>1, CommitInv, PutInv, CheckInv, ListInv, ScanInv, DiscoverInv
<1>2. ASSUME NEW body \in Bodies, LatePut(body) PROVE JournalInv'
  BY <1>2, LatePutInv
<1>3. CASE ForeignVersion \/ Drift
  BY <1>3, MeddlingInv
<1>4. CASE Grow \/ UNCHANGED journalVars
  BY <1>4 DEF Grow, journalVars, JournalInv, JournalTypeOK, IdsAreUnique, OneSoundVersion,
              ReceiptsHold, Holds, DiscoveryIsSound, RejectedForCause
<1> QED BY <1>1, <1>2, <1>3, <1>4 DEF JournalNext

\* Every behaviour of the journal keeps the invariant.
THEOREM JournalInvariance == JournalSpec => []JournalInv
BY JournalInitInv, JournalNextInv, PTL DEF JournalSpec

\* Unless others write to the blob, _commit creates it once, and all commits of
\* the chain that succeed return the same receipt, whatever was lost or late.
THEOREM SingleReceipt == JournalSpec => []OneReceipt
<1>1. JournalInv => OneReceipt
  <2> SUFFICES ASSUME JournalInv, ~meddled
               PROVE  Cardinality(versions) <= 1 /\ \A r, s \in receipts : r = s
    BY DEF OneReceipt
  <2>1. Cardinality(versions) <= 1
    <3>1. CASE versions = {}
      BY <3>1, FS_EmptySet
    <3>2. ASSUME NEW v \in versions PROVE Cardinality(versions) <= 1
      <4>1. versions = {v}
        BY DEF JournalInv, OneSoundVersion
      <4> QED BY <4>1, FS_Singleton
    <3> QED BY <3>1, <3>2
  <2>2. ASSUME NEW r \in receipts, NEW s \in receipts PROVE r = s
    <3>1. r.id = s.id /\ r.body = s.body
      BY DEF JournalInv, OneSoundVersion, ReceiptsHold, Holds
    <3>2. r \in [body : Bodies, id : Nat] /\ s \in [body : Bodies, id : Nat]
      BY DEF JournalInv, JournalTypeOK
    <3> QED BY <3>1, <3>2
  <2> QED BY <2>1, <2>2
<1> QED BY <1>1, JournalInvariance, PTL

\* Every receipt that _commit returned reads back the committed bytes whenever
\* the container is the attested one.
THEOREM DurableReceipts == JournalSpec => []ReceiptsReadBack
<1>1. JournalInv => ReceiptsReadBack
  <2> SUFFICES ASSUME JournalInv, sound, NEW r \in receipts
               PROVE  ReadsBack(r) /\ \A v \in versions : v.id = r.id => v.body = r.body
    BY DEF ReceiptsReadBack
  <2>1. PICK v \in versions : v.id = r.id /\ v.body = r.body /\ v.locked
    BY DEF JournalInv, ReceiptsHold, Holds
  <2>2. \A u \in versions : u.id = v.id => u = v
    BY <2>1 DEF JournalInv, IdsAreUnique
  <2>3. Valid(v, v.body)
    BY <2>1 DEF Valid, Fitting
  <2> QED BY <2>1, <2>2, <2>3 DEF ReadsBack
<1> QED BY <1>1, JournalInvariance, PTL

\* Unless others are at work, only a commit of another body is turned away, and
\* one whose discovery passed over a candidate that it could not validate: the
\* 412 discovery recognises the version that a lost or late put has made.
THEOREM RejectionHasCause == JournalSpec => []RejectedForCause
<1>1. JournalInv => RejectedForCause
  BY DEF JournalInv
<1> QED BY <1>1, JournalInvariance, PTL

\* The chain that the journal commits is one of EvidenceChain, and no step but
\* an append changes it.
THEOREM JournalChain == JournalSpec => ChainSpec
<1>1. JournalInit => ChainInit
  BY DEF JournalInit
<1>2. [JournalNext]_journalVars => [ChainNext]_chain
  BY DEF JournalNext, journalVars, Commit, Put, Check, List, Scan, Discover, LatePut,
         ForeignVersion, Drift, Grow
<1> QED BY <1>1, <1>2, PTL DEF JournalSpec, ChainSpec
=============================================================================
