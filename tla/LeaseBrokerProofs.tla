------------------------- MODULE LeaseBrokerProofs -------------------------
(***************************************************************************)
(* Proofs about the lease broker, for any number of instances, runs,       *)
(* tickets and lease ids and for any number of calls and faults.           *)
(*                                                                         *)
(* What an instance read before its next request may be stale, and a       *)
(* request whose caller gave up may arrive at any later time.  So the      *)
(* invariant says of every call and of every request in the network what   *)
(* stays true of it however the blob moves on (CallOK, RequestOK), and the *)
(* lifecycle of the blob only moves on in the sense of Later.              *)
(***************************************************************************)
EXTENDS LeaseBroker, TLAPS

-----------------------------------------------------------------------------
(* The inductive invariant. *)

\* The steps of a call that hold a state read from, or written to, the blob.
Loaded == Steps \ {"idle", "create", "load"}

Unheld == {"ACQUIRE_INTENT", "ACQUIRE_IN_FLIGHT"}
Grants == {"ACQUIRED", "ALREADY_ACQUIRED", "HELD"}
Releases == {"RELEASED", "ALREADY_RELEASED"}

\* A call that waits for its command's first request.
Fresh(c, b) ==
  /\ c.pc # "idle" => c.run \in Runs /\ c.ticket \in Tickets
  /\ c.pc = "create" => c.id \in LeaseIds /\ ActionOf[c.ticket] = "acquire"
  /\ c.pc = "load" /\ ActionOf[c.ticket] = "acquire" => b # NoBlob

\* The state a call works with belongs to the blob, and is what the blob still
\* says when the ETag has not moved.
Working(c, b, e, f) ==
  c.pc \in Loaded =>
    /\ b # NoBlob /\ c.st \in BlobState
    /\ c.st.id = b.id /\ c.st.run = b.run /\ c.run = b.run
    /\ c.etag \in Nat /\ c.etag <= e
    /\ c.pc = "start" /\ c.etag = e => b.lifecycle = "ACQUIRE_INTENT"
    /\ c.pc # "start" => b.lifecycle # "ACQUIRE_INTENT"
    /\ c.pc = "probe" => /\ c.st.lifecycle \notin Terminal \cup {"ACQUIRE_INTENT"}
                         /\ c.etag = e => b.lifecycle = c.st.lifecycle
    /\ c.pc = "update" => c.st.lifecycle \in {"HELD", "RELEASE_INTENT"}
    /\ c.pc = "finish" => f

\* What a caller has been told.
Told(c, b, f) ==
  /\ c.pc = "idle" /\ c.out \in Grants =>
       b # NoBlob /\ b.run = c.run /\ b.lifecycle \notin Unheld
  /\ c.out \in Releases => f

CallOK(c, b, e, f) == Fresh(c, b) /\ Working(c, b, e, f) /\ Told(c, b, f)

\* A request that is sent, or that is still in the network.
RequestOK(q, b, e, f) ==
  /\ q \in Requests
  /\ q.kind = "create" => q.state.lifecycle = "ACQUIRE_INTENT"
  /\ q.kind # "create" => b # NoBlob /\ q.state.id = b.id /\ q.state.run = b.run
  /\ q.kind \in {"acquire", "release"} => q.header = q.state.id
  /\ q.kind = "acquire" => b.lifecycle # "ACQUIRE_INTENT"
  /\ q.kind = "metadata" =>
       /\ q.etag <= e
       /\ q.state.lifecycle # "ACQUIRE_INTENT"
       /\ q.state.lifecycle = "ACQUIRE_IN_FLIGHT" /\ q.etag = e => b.lifecycle = "ACQUIRE_INTENT"
       /\ q.state.lifecycle \in Terminal => q.header = NoLease
       /\ q.state.lifecycle = "RELEASED" => f

BrokerTypeOK ==
  /\ blob \in BlobState \cup {NoBlob}
  /\ etag \in Nat
  /\ lease \in LeaseIds \cup {NoLease, Foreign}
  /\ call \in [Instances -> Calls]
  /\ freed \in BOOLEAN

CallsAreSound == \A i \in Instances : CallOK(call[i], blob, etag, freed)
RequestsAreSound == \A q \in late : RequestOK(q, blob, etag, freed)
LeaseIsSound == lease \in LeaseIds =>
                  blob # NoBlob /\ lease = blob.id /\ blob.lifecycle # "ACQUIRE_INTENT"
RecordIsSound == blob # NoBlob /\ blob.lifecycle = "RELEASED" => freed

BrokerInv ==
  /\ BrokerTypeOK
  /\ CallsAreSound
  /\ RequestsAreSound
  /\ LeaseIsSound
  /\ RecordIsSound

-----------------------------------------------------------------------------
(* How the blob moves on. *)

\* From the blob b, ETag e and history f to b2, e2, f2: the lease keeps its id
\* and its run, a recorded marker is not taken back, and an ETag names one state.
Later(b, e, f, b2, e2, f2) ==
  /\ b # NoBlob => /\ b2 # NoBlob /\ b2.id = b.id /\ b2.run = b.run
                   /\ b.lifecycle # "ACQUIRE_INTENT" => b2.lifecycle # "ACQUIRE_INTENT"
                   /\ b.lifecycle \notin Unheld => b2.lifecycle \notin Unheld
  /\ e \in Nat /\ e2 \in Nat /\ e <= e2
  /\ e2 = e => b2 = b
  /\ f => f2

\* What a step may do to the service's side of the state.
StoreStep ==
  /\ Later(blob, etag, freed, blob', etag', freed')
  /\ blob' \in BlobState \cup {NoBlob}
  /\ lease' \in LeaseIds \cup {NoLease, Foreign}
  /\ freed' \in BOOLEAN
  /\ LeaseIsSound'
  /\ RecordIsSound'

\* A call that does not move stays sound while the blob moves on.
LEMMA CallLater ==
  ASSUME NEW c, NEW b, NEW e, NEW f, NEW b2, NEW e2, NEW f2,
         CallOK(c, b, e, f), Later(b, e, f, b2, e2, f2)
  PROVE  CallOK(c, b2, e2, f2)
<1>1. Fresh(c, b2)
  BY DEF CallOK, Fresh, Later
<1>2. Told(c, b2, f2)
  BY DEF CallOK, Told, Later
<1>3. Working(c, b2, e2, f2)
  <2> SUFFICES ASSUME c.pc \in Loaded
               PROVE  Working(c, b2, e2, f2)
    BY DEF Working
  <2>1. c.etag = e2 => e2 = e
    BY DEF CallOK, Working, Later
  <2>2. c.etag <= e2
    BY DEF CallOK, Working, Later
  <2> QED
    BY <2>1, <2>2 DEF CallOK, Working, Later
<1> QED
  BY <1>1, <1>2, <1>3 DEF CallOK

\* So does a request in the network.
LEMMA RequestLater ==
  ASSUME NEW q, NEW b, NEW e, NEW f, NEW b2, NEW e2, NEW f2,
         RequestOK(q, b, e, f), Later(b, e, f, b2, e2, f2)
  PROVE  RequestOK(q, b2, e2, f2)
<1>1. q.etag \in Nat
  BY DEF RequestOK, Requests
<1>2. q.kind = "metadata" => q.etag <= e2 /\ (q.etag = e2 => e2 = e)
  BY <1>1 DEF RequestOK, Later
<1> QED
  BY <1>2 DEF RequestOK, Later

\* The service executes a sound request: the blob moves on.
LEMMA ServiceStep ==
  ASSUME BrokerInv, NEW q, RequestOK(q, blob, etag, freed), Accepts(q), Effect(q)
  PROVE  StoreStep
<1>0. q \in Requests /\ q.state \in BlobState /\ q.etag \in Nat /\ etag \in Nat
      /\ q.state # NoBlob /\ q.kind \in {"create", "metadata", "acquire", "release"}
  BY BlobAssumption DEF RequestOK, Requests, BrokerInv, BrokerTypeOK
<1>1. CASE q.kind = "create"
  <2>1. blob = NoBlob /\ blob' = q.state /\ etag' = etag + 1 /\ lease' = lease
    BY <1>1 DEF Accepts, Effect
  <2>2. freed' = freed
    BY <1>1, Zenon DEF Effect, BrokerInv, BrokerTypeOK
  <2> QED
    BY <1>0, <1>1, <2>1, <2>2
    DEF StoreStep, Later, LeaseIsSound, RecordIsSound, BrokerInv, BrokerTypeOK, RequestOK
<1>2. CASE q.kind = "metadata"
  <2>1. q.etag = etag /\ q.header = lease
        /\ blob' = q.state /\ etag' = etag + 1 /\ lease' = lease
    BY <1>2 DEF Accepts, Effect
  <2>2. freed' = freed
    BY <1>2, Zenon DEF Effect, BrokerInv, BrokerTypeOK
  <2>3. q.state.lifecycle \in Lifecycles
    BY <1>0 DEF BlobState
  <2> QED
    BY <1>0, <1>2, <2>1, <2>2, <2>3
    DEF StoreStep, Later, LeaseIsSound, RecordIsSound, BrokerInv, BrokerTypeOK, RequestOK,
        Unheld
<1>3. CASE q.kind = "acquire"
  <2>1. blob' = blob /\ etag' = etag /\ lease' = q.header
    BY <1>3 DEF Effect
  <2>2. freed' = freed
    BY <1>3, Zenon DEF Effect, BrokerInv, BrokerTypeOK
  <2>3. q.state.id \in LeaseIds
    BY <1>0 DEF BlobState
  <2> QED
    BY <1>0, <1>3, <2>1, <2>2, <2>3
    DEF StoreStep, Later, LeaseIsSound, RecordIsSound, BrokerInv, BrokerTypeOK, RequestOK
<1>4. CASE q.kind = "release"
  <2>1. blob' = blob /\ etag' = etag /\ lease' = NoLease
    BY <1>4 DEF Effect
  <2>2. freed' = TRUE
    BY <1>4 DEF Effect
  <2> QED
    BY <1>0, <2>1, <2>2, LeaseAssumption
    DEF StoreStep, Later, LeaseIsSound, RecordIsSound, BrokerInv, BrokerTypeOK
<1> QED
  BY <1>0, <1>1, <1>2, <1>3, <1>4

\* A step that leaves the service alone is one of its steps too.
LEMMA NoServiceStep ==
  ASSUME BrokerInv, UNCHANGED <<blob, etag, lease, freed>>
  PROVE  StoreStep
BY DEF StoreStep, Later, LeaseIsSound, RecordIsSound, BrokerInv, BrokerTypeOK

\* One call moves to a sound value, the network only gains sound requests.
LEMMA OneCallMoves ==
  ASSUME BrokerInv, StoreStep, NEW i \in Instances, NEW s \in Calls,
         call' = [call EXCEPT ![i] = s], CallOK(s, blob', etag', freed'),
         \A q \in late' : q \in late \/ RequestOK(q, blob', etag', freed')
  PROVE  BrokerInv'
<1>1. Later(blob, etag, freed, blob', etag', freed')
  BY DEF StoreStep
<1>2. BrokerTypeOK'
  BY DEF StoreStep, BrokerTypeOK, BrokerInv, Later
<1>3. CallsAreSound'
  <2> SUFFICES ASSUME NEW j \in Instances
               PROVE  CallOK(call'[j], blob', etag', freed')
    BY DEF CallsAreSound
  <2>1. CASE j = i
    BY <2>1 DEF BrokerInv, BrokerTypeOK
  <2>2. CASE j # i
    <3>1. call'[j] = call[j]
      BY <2>2 DEF BrokerInv, BrokerTypeOK
    <3> QED
      BY <3>1, <1>1, CallLater DEF BrokerInv, CallsAreSound
  <2> QED
    BY <2>1, <2>2
<1>4. RequestsAreSound'
  BY <1>1, RequestLater DEF RequestsAreSound, BrokerInv
<1> QED
  BY <1>2, <1>3, <1>4 DEF BrokerInv, StoreStep

-----------------------------------------------------------------------------
(* Answers and moves of one call. *)

\* An answer that grants and releases nothing is always sound.
LEMMA PlainAnswer ==
  ASSUME BrokerInv, StoreStep, NEW i \in Instances,
         NEW out \in Outcomes \ (Grants \cup Releases), Answer(i, out),
         \A q \in late' : q \in late \/ RequestOK(q, blob', etag', freed')
  PROVE  BrokerInv'
<1> DEFINE s == [Idle EXCEPT !.run = call[i].run, !.out = out]
<1>1. s \in Calls
  BY DEF Idle, Calls, Steps, BrokerInv, BrokerTypeOK
<1>2. CallOK(s, blob', etag', freed')
  BY DEF CallOK, Fresh, Working, Told, Idle, Loaded
<1>3. call' = [call EXCEPT ![i] = s]
  BY DEF Answer
<1> QED
  BY <1>1, <1>2, <1>3, OneCallMoves

\* Nothing changed but the answer.
LEMMA PlainRead ==
  ASSUME BrokerInv, NEW i \in Instances, UNCHANGED <<blob, etag, lease, late, freed>>,
         NEW out \in Outcomes \ (Grants \cup Releases), Answer(i, out)
  PROVE  BrokerInv'
BY NoServiceStep, PlainAnswer

\* A request whose caller gave up.
LEMMA TimedOutRequest ==
  ASSUME BrokerInv, NEW i \in Instances, NEW q, RequestOK(q, blob, etag, freed),
         late' = late \cup {q}, UNCHANGED <<blob, etag, lease, freed>>,
         NEW out \in Outcomes \ (Grants \cup Releases), Answer(i, out)
  PROVE  BrokerInv'
BY NoServiceStep, PlainAnswer

\* The three ways the code calls Goto, and the value of a call after it.
Moves(i, to, st, e) ==
  \/ Goto(i, to, st, e, FALSE)
  \/ Goto(i, to, st, e, TRUE)
  \/ Goto(i, to, st, e, call[i].resumed)

Went(i, s, to, st, e) ==
  /\ call' = [call EXCEPT ![i] = s]
  /\ s.pc = to /\ s.st = st /\ s.etag = e /\ s.run = call[i].run
  /\ s.ticket = call[i].ticket /\ s.id = call[i].id /\ s.out = call[i].out

\* Goto moves the call and keeps its command.
LEMMA MovedCall ==
  ASSUME BrokerInv, NEW i \in Instances, NEW to \in Steps, NEW st \in BlobState \cup {NoBlob},
         NEW e \in Nat, Moves(i, to, st, e)
  PROVE  \E s \in Calls : Went(i, s, to, st, e)
<1>1. call \in [Instances -> Calls]
  BY DEF BrokerInv, BrokerTypeOK
<1>2. ASSUME NEW r \in BOOLEAN
      PROVE  LET s == [call[i] EXCEPT !.pc = to, !.st = st, !.etag = e, !.resumed = r]
             IN /\ s \in Calls
                /\ s.pc = to /\ s.st = st /\ s.etag = e /\ s.run = call[i].run
                /\ s.ticket = call[i].ticket /\ s.id = call[i].id /\ s.out = call[i].out
  BY <1>1 DEF Calls
<1>3. ASSUME NEW r, Goto(i, to, st, e, r)
      PROVE  call' = [call EXCEPT ![i] =
                        [call[i] EXCEPT !.pc = to, !.st = st, !.etag = e, !.resumed = r]]
  BY <1>1, <1>3 DEF Calls, Goto
<1>4. call[i].resumed \in BOOLEAN
  BY <1>1 DEF Calls
<1>5. ASSUME NEW r \in BOOLEAN, Goto(i, to, st, e, r)
      PROVE  \E s \in Calls : Went(i, s, to, st, e)
  BY <1>2, <1>3, <1>5 DEF Went
<1>6. Goto(i, to, st, e, FALSE) => \E s \in Calls : Went(i, s, to, st, e)
  BY <1>5, Zenon
<1>7. Goto(i, to, st, e, TRUE) => \E s \in Calls : Went(i, s, to, st, e)
  BY <1>5, Zenon
<1> QED
  BY <1>4, <1>5, <1>6, <1>7 DEF Moves

\* A call at work goes on with a state that belongs to the blob.
LEMMA GotoKeeps ==
  ASSUME BrokerInv, StoreStep, NEW i \in Instances, call[i].pc # "idle",
         NEW to \in Loaded, NEW st \in BlobState, NEW e \in Nat,
         Moves(i, to, st, e),
         blob' # NoBlob, st.id = blob'.id, st.run = blob'.run, call[i].run = blob'.run,
         e <= etag',
         to = "start" /\ e = etag' => blob'.lifecycle = "ACQUIRE_INTENT",
         to # "start" => blob'.lifecycle # "ACQUIRE_INTENT",
         to = "probe" => /\ st.lifecycle \notin Terminal \cup {"ACQUIRE_INTENT"}
                         /\ e = etag' => blob'.lifecycle = st.lifecycle,
         to = "update" => st.lifecycle \in {"HELD", "RELEASE_INTENT"},
         to = "finish" => freed',
         late' = late
  PROVE  BrokerInv'
<1>0. PICK s \in Calls : Went(i, s, to, st, e)
  BY MovedCall DEF Loaded
<1>1. /\ call' = [call EXCEPT ![i] = s]
      /\ s.pc = to /\ s.st = st /\ s.etag = e /\ s.run = call[i].run
      /\ s.ticket = call[i].ticket /\ s.id = call[i].id /\ s.out = call[i].out
  BY <1>0 DEF Went
<1>2. CallOK(call[i], blob, etag, freed)
  BY DEF BrokerInv, CallsAreSound
<1>3. Fresh(s, blob')
  BY <1>1, <1>2 DEF CallOK, Fresh, Loaded
<1>4. Working(s, blob', etag', freed')
  BY <1>1 DEF Working
<1>5. Told(s, blob', freed')
  BY <1>1, <1>2 DEF CallOK, Told, Loaded, StoreStep, Later
<1> QED
  BY <1>1, <1>3, <1>4, <1>5, OneCallMoves DEF CallOK

\* The current read of the blob, as a call at "probe" or "start" uses it.
LEMMA ReadGoto ==
  ASSUME BrokerInv, NEW i \in Instances, call[i].pc # "idle",
         NEW to \in Loaded, NEW st \in BlobState, NEW e \in Nat,
         Moves(i, to, st, e), Read,
         blob # NoBlob, st.id = blob.id, st.run = blob.run, call[i].run = blob.run,
         e <= etag,
         to = "start" /\ e = etag => blob.lifecycle = "ACQUIRE_INTENT",
         to # "start" => blob.lifecycle # "ACQUIRE_INTENT",
         to = "probe" => /\ st.lifecycle \notin Terminal \cup {"ACQUIRE_INTENT"}
                         /\ e = etag => blob.lifecycle = st.lifecycle,
         to = "update" => st.lifecycle \in {"HELD", "RELEASE_INTENT"},
         to = "finish" => freed
  PROVE  BrokerInv'
<1>1. StoreStep /\ blob' = blob /\ etag' = etag /\ freed' = freed /\ late' = late
  BY NoServiceStep DEF Read
<1> HIDE DEF StoreStep
<1> QED
  BY <1>1, GotoKeeps

\* The command and the state of a call at work.
LEMMA AtWork ==
  ASSUME BrokerInv, NEW i \in Instances, call[i].pc # "idle"
  PROVE  /\ call[i] \in Calls
         /\ call[i].run \in Runs /\ call[i].ticket \in Tickets
         /\ ActionOf[call[i].ticket] \in {"acquire", "assert", "release"}
         /\ Fresh(call[i], blob)
         /\ Working(call[i], blob, etag, freed)
         /\ etag \in Nat
         /\ blob # NoBlob => blob \in BlobState
BY TicketAssumption DEF BrokerInv, BrokerTypeOK, CallsAreSound, CallOK, Fresh

\* The command belongs to the run of the state it follows.
LEMMA RelatedRun ==
  ASSUME NEW st \in BlobState, NEW c, Relationship(st, c) \in {"SAME", "NEXT"},
         c.ticket \in Tickets
  PROVE  /\ c.run = st.run
         /\ LET mine == IF Relationship(st, c) = "NEXT" THEN ForCommand(st, c) ELSE st
            IN /\ mine \in BlobState
               /\ mine.id = st.id /\ mine.run = st.run /\ mine.lifecycle = st.lifecycle
<1>1. c.run = st.run
  BY DEF Relationship
<1>2. /\ ForCommand(st, c) \in BlobState
      /\ ForCommand(st, c).id = st.id /\ ForCommand(st, c).run = st.run
      /\ ForCommand(st, c).lifecycle = st.lifecycle
  BY DEF ForCommand, BlobState
<1> QED
  BY <1>1, <1>2

\* A state with another ticket, and a state with another lifecycle.
LEMMA ChangedState ==
  ASSUME NEW st \in BlobState
  PROVE  /\ \A c : c.ticket \in Tickets =>
              /\ ForCommand(st, c) \in BlobState
              /\ ForCommand(st, c).id = st.id /\ ForCommand(st, c).run = st.run
              /\ ForCommand(st, c).lifecycle = st.lifecycle
         /\ \A l \in Lifecycles :
              /\ Transition(st, l) \in BlobState
              /\ Transition(st, l).id = st.id /\ Transition(st, l).run = st.run
              /\ Transition(st, l).lifecycle = l
BY DEF ForCommand, Transition, BlobState

\* The fields of a request.
LEMMA RequestFields ==
  ASSUME NEW kind \in {"create", "metadata", "acquire", "release"}, NEW st \in BlobState,
         NEW e \in Nat, NEW header \in LeaseIds \cup {NoLease}
  PROVE  LET q == Request(kind, st, e, header)
         IN /\ q \in Requests
            /\ q.kind = kind /\ q.state = st /\ q.etag = e /\ q.header = header
BY DEF Request, Requests

-----------------------------------------------------------------------------
(* One lemma per step of a call. *)

\* A command arrives: nothing is known of the blob.
LEMMA BeginKeeps ==
  ASSUME BrokerInv, NEW i \in Instances, NEW run \in Runs, NEW t \in Tickets,
         NEW id \in LeaseIds \cup {NoLease}, ActionOf[t] = "acquire" => id \in LeaseIds,
         Begin(i, run, t, id)
  PROVE  BrokerInv'
<1> DEFINE s == [pc |-> IF ActionOf[t] = "acquire" THEN "create" ELSE "load",
                 run |-> run, ticket |-> t, id |-> id, st |-> NoBlob, etag |-> 0,
                 resumed |-> FALSE, out |-> "none"]
<1>1. call' = [call EXCEPT ![i] = s] /\ UNCHANGED <<blob, etag, lease, late, freed>>
  BY DEF Begin
<1>2. s \in Calls /\ s.out = "none" /\ s.run = run /\ s.ticket = t /\ s.id = id
      /\ s.pc = IF ActionOf[t] = "acquire" THEN "create" ELSE "load"
  BY DEF Calls, Steps, Outcomes
<1> HIDE DEF s
<1>3. CallOK(s, blob', etag', freed')
  BY <1>2 DEF CallOK, Fresh, Working, Told, Loaded, Grants, Releases
<1> QED
  BY <1>1, <1>2, <1>3, NoServiceStep, OneCallMoves

\* A metadata write is executed, or its caller is told that nobody knows.
LEMMA MetadataCases ==
  ASSUME BrokerInv, NEW i \in Instances, call[i].pc # "idle",
         NEW st \in BlobState, NEW header \in LeaseIds \cup {NoLease}, NEW ACTION Written,
         RequestOK(Request("metadata", st, call[i].etag, header), blob, etag, freed),
         SetMetadata(i, st, header, Written)
  PROVE  \/ BrokerInv'
         \/ /\ Written /\ StoreStep
            /\ blob' = st /\ etag' = etag + 1 /\ lease' = lease /\ late' = late
            /\ freed' = freed /\ call[i].etag = etag /\ header = lease
<1> DEFINE q == Request("metadata", st, call[i].etag, header)
<1>1. call[i].etag \in Nat
  BY AtWork DEF Calls
<1>2. q.kind = "metadata" /\ q.state = st /\ q.etag = call[i].etag /\ q.header = header
  BY <1>1, RequestFields
<1>3. "INDETERMINATE_AFTER_CRASH" \in Outcomes \ (Grants \cup Releases)
  BY DEF Outcomes, Grants, Releases
<1> HIDE DEF q
<1>4. CASE Accepts(q) /\ Effect(q) /\ Written /\ UNCHANGED <<late, faults>>
  <2>1. StoreStep
    BY <1>4, ServiceStep DEF q
  <2>2. /\ blob' = st /\ etag' = etag + 1 /\ lease' = lease
        /\ call[i].etag = etag /\ header = lease
    BY <1>2, <1>4 DEF Effect, Accepts
  <2>3. freed' = freed
    BY <1>2, <1>4, Zenon DEF Effect, BrokerInv, BrokerTypeOK
  <2> QED
    BY <1>4, <2>1, <2>2, <2>3
<1>5. CASE /\ Answer(i, "INDETERMINATE_AFTER_CRASH")
           /\ UNCHANGED <<blob, etag, lease, freed, meddled, late, faults>>
  BY <1>3, <1>5, PlainRead
<1>6. CASE /\ late' = late \cup {q}
           /\ Answer(i, "INDETERMINATE_AFTER_CRASH")
           /\ UNCHANGED <<blob, etag, lease, freed, meddled>>
  BY <1>3, <1>6, TimedOutRequest DEF q
<1> QED
  BY <1>4, <1>5, <1>6 DEF SetMetadata, Exchange, q

\* An answer that grants the lease comes with a record of it.
LEMMA GrantAnswer ==
  ASSUME BrokerInv, StoreStep, NEW i \in Instances, NEW out \in Grants, Answer(i, out),
         blob' # NoBlob, blob'.run = call[i].run, blob'.lifecycle \notin Unheld, late' = late
  PROVE  BrokerInv'
<1> DEFINE s == [Idle EXCEPT !.run = call[i].run, !.out = out]
<1>1. s \in Calls
  BY DEF Idle, Calls, Steps, Outcomes, Grants, BrokerInv, BrokerTypeOK
<1>2. CallOK(s, blob', etag', freed')
  BY DEF CallOK, Fresh, Working, Told, Idle, Loaded, Grants, Releases
<1>3. call' = [call EXCEPT ![i] = s]
  BY DEF Answer
<1> QED
  BY <1>1, <1>2, <1>3, OneCallMoves

\* An answer that the lease is released comes after the release.
LEMMA ReleaseAnswer ==
  ASSUME BrokerInv, StoreStep, NEW i \in Instances, NEW out \in Releases, Answer(i, out),
         freed', late' = late
  PROVE  BrokerInv'
<1> DEFINE s == [Idle EXCEPT !.run = call[i].run, !.out = out]
<1>1. s \in Calls
  BY DEF Idle, Calls, Steps, Outcomes, Releases, BrokerInv, BrokerTypeOK
<1>2. CallOK(s, blob', etag', freed')
  BY DEF CallOK, Fresh, Working, Told, Idle, Loaded, Grants, Releases
<1>3. call' = [call EXCEPT ![i] = s]
  BY DEF Answer
<1> QED
  BY <1>1, <1>2, <1>3, OneCallMoves

\* Create: the blob is made for this command, or somebody made it before.
LEMMA CreateKeeps ==
  ASSUME BrokerInv, NEW i \in Instances, Create(i)
  PROVE  BrokerInv'
<1> DEFINE c  == call[i]
           st == [run |-> c.run, ticket |-> c.ticket, id |-> c.id,
                  lifecycle |-> "ACQUIRE_INTENT"]
           q  == Request("create", st, 0, NoLease)
<1>0. c.pc = "create"
  BY DEF Create
<1>1. c \in Calls /\ c.run \in Runs /\ c.ticket \in Tickets /\ c.id \in LeaseIds
      /\ ActionOf[c.ticket] = "acquire" /\ Fresh(c, blob) /\ etag \in Nat
  BY <1>0, AtWork DEF Fresh
<1>2. st \in BlobState /\ st.id = c.id /\ st.run = c.run /\ st.lifecycle = "ACQUIRE_INTENT"
  BY <1>1 DEF BlobState, Lifecycles
<1> HIDE DEF st
<1>3. q \in Requests /\ q.kind = "create" /\ q.state = st /\ q.etag = 0 /\ q.header = NoLease
  BY <1>2, RequestFields
<1> HIDE DEF q
<1>4. RequestOK(q, blob, etag, freed)
  BY <1>2, <1>3 DEF RequestOK
<1>5. "INDETERMINATE_AFTER_CRASH" \in Outcomes \ (Grants \cup Releases)
  BY DEF Outcomes, Grants, Releases
<1>6. CASE Accepts(q) /\ Effect(q) /\ Goto(i, "start", st, etag', FALSE) /\ late' = late
  <2>1. StoreStep
    BY <1>4, <1>6, ServiceStep
  <2>2. blob' = st /\ etag' = etag + 1 /\ blob' # NoBlob
    BY <1>2, <1>3, <1>6, BlobAssumption DEF Effect
  <2>3. "start" \in Loaded /\ etag' \in Nat
    BY <1>1, <2>2 DEF Loaded, Steps
  <2>4. Moves(i, "start", st, etag')
    BY <1>6 DEF Moves
  <2> QED
    BY <1>0, <1>2, <2>1, <2>2, <2>3, <2>4, <1>6, GotoKeeps
<1>7. CASE /\ ~Accepts(q) /\ Goto(i, "load", NoBlob, 0, FALSE)
           /\ UNCHANGED <<blob, etag, lease, freed, late>>
  <2>0. Moves(i, "load", NoBlob, 0)
    BY <1>7 DEF Moves
  <2>1. PICK s \in Calls : Went(i, s, "load", NoBlob, 0)
    BY <2>0, MovedCall DEF Steps
  <2>2. blob # NoBlob
    BY <1>3, <1>7 DEF Accepts
  <2>3. Told(c, blob, freed)
    BY DEF BrokerInv, CallsAreSound, CallOK
  <2>4. CallOK(s, blob', etag', freed')
    BY <1>1, <1>7, <2>1, <2>2, <2>3 DEF CallOK, Fresh, Working, Told, Loaded, Went
  <2> QED
    BY <1>7, <2>1, <2>4, NoServiceStep, OneCallMoves DEF Went
<1>8. CASE /\ late' = late \cup {q} /\ Answer(i, "INDETERMINATE_AFTER_CRASH")
           /\ UNCHANGED <<blob, etag, lease, freed>>
  BY <1>4, <1>5, <1>8, TimedOutRequest
<1> QED
  BY <1>6, <1>7, <1>8 DEF Create, Exchange, q, st

\* AcquireLoad goes on only for a command of the run that owns the blob.
LEMMA AcquireLoadKeeps ==
  ASSUME BrokerInv, NEW i \in Instances, AcquireLoad(i)
  PROVE  BrokerInv'
<1> DEFINE c    == call[i]
           rel  == Relationship(blob, c)
           mine == IF rel = "NEXT" THEN ForCommand(blob, c) ELSE blob
<1>0. c.pc = "load" /\ ActionOf[c.ticket] = "acquire" /\ Read
  BY DEF AcquireLoad
<1>1. c \in Calls /\ c.ticket \in Tickets /\ blob # NoBlob /\ blob \in BlobState /\ etag \in Nat
  BY <1>0, AtWork DEF Fresh
<1>2. \A o \in {"REPLAY_REJECTED", "BUSY"} : Answer(i, o) => BrokerInv'
  BY <1>0, PlainRead DEF Read, Outcomes, Grants, Releases
<1>3. CASE rel \in {"SAME", "NEXT"} /\ blob.lifecycle = "ACQUIRE_INTENT"
           /\ Goto(i, "start", mine, etag, TRUE)
  <2>1. c.run = blob.run /\ mine \in BlobState /\ mine.id = blob.id /\ mine.run = blob.run
    BY <1>1, <1>3, RelatedRun
  <2>2. "start" \in Loaded
    BY DEF Loaded, Steps
  <2>3. Moves(i, "start", mine, etag)
    BY <1>3 DEF Moves
  <2> QED
    BY <1>0, <1>1, <1>3, <2>1, <2>2, <2>3, ReadGoto
<1>4. CASE rel \in {"SAME", "NEXT"} /\ blob.lifecycle \in {"ACQUIRE_IN_FLIGHT", "HELD"}
           /\ Goto(i, "probe", blob, etag, TRUE)
  <2>1. c.run = blob.run
    BY <1>1, <1>4, RelatedRun
  <2>2. "probe" \in Loaded
    BY DEF Loaded, Steps
  <2>3. Moves(i, "probe", blob, etag)
    BY <1>4 DEF Moves
  <2> QED
    BY <1>0, <1>1, <1>4, <2>1, <2>2, <2>3, ReadGoto DEF Terminal
<1> QED
  BY <1>2, <1>3, <1>4 DEF AcquireLoad

\* Start: the marker is written where the blob still says ACQUIRE_INTENT.
LEMMA StartKeeps ==
  ASSUME BrokerInv, NEW i \in Instances, Start(i)
  PROVE  BrokerInv'
<1> DEFINE c  == call[i]
           st == Transition(c.st, "ACQUIRE_IN_FLIGHT")
           q  == Request("metadata", st, c.etag, NoLease)
<1>0. c.pc = "start" /\ c.pc \in Loaded
  BY DEF Start, Loaded, Steps
<1>1. Working(c, blob, etag, freed) /\ c \in Calls
  BY <1>0, AtWork
<1>2. st \in BlobState /\ st.id = blob.id /\ st.run = blob.run
      /\ st.lifecycle = "ACQUIRE_IN_FLIGHT"
  BY <1>0, <1>1, ChangedState DEF Working, Lifecycles
<1>3. RequestOK(q, blob, etag, freed)
  BY <1>0, <1>1, <1>2, RequestFields DEF Working, RequestOK, Terminal
<1> HIDE DEF st, q
<1>4. SetMetadata(i, st, NoLease, Goto(i, "dispatch", st, etag', c.resumed))
  BY DEF Start, st
<1>5. CASE /\ Goto(i, "dispatch", st, etag', c.resumed) /\ StoreStep
           /\ blob' = st /\ etag' = etag + 1 /\ late' = late
  <2>1. "dispatch" \in Loaded /\ etag' \in Nat /\ c.resumed \in BOOLEAN /\ st # NoBlob
    BY <1>1, <1>2, <1>5, AtWork, BlobAssumption DEF Loaded, Steps, Calls, StoreStep, Later
  <2>2. Moves(i, "dispatch", st, etag')
    BY <1>5 DEF Moves
  <2> QED
    BY <1>0, <1>1, <1>2, <1>5, <2>1, <2>2, GotoKeeps DEF Working
<1> QED
  BY <1>0, <1>2, <1>3, <1>4, <1>5, MetadataCases DEF q

\* What the metadata writes of a call have in common: the state a call wants to
\* record belongs to the blob.
LEMMA RecordedState ==
  ASSUME BrokerInv, NEW i \in Instances, call[i].pc \in Loaded, call[i].pc # "start",
         NEW l \in Lifecycles \ Unheld, NEW header \in {call[i].st.id, NoLease},
         l \in Terminal => header = NoLease, l = "RELEASED" => freed
  PROVE  LET st == Transition(call[i].st, l)
         IN /\ st \in BlobState /\ st.id = blob.id /\ st.run = blob.run /\ st.lifecycle = l
            /\ st # NoBlob /\ call[i].run = blob.run
            /\ header \in LeaseIds \cup {NoLease}
            /\ RequestOK(Request("metadata", st, call[i].etag, header), blob, etag, freed)
<1> DEFINE c == call[i]
           st == Transition(c.st, l)
<1>1. Working(c, blob, etag, freed) /\ c \in Calls
  BY AtWork DEF Loaded
<1>2. st \in BlobState /\ st.id = blob.id /\ st.run = blob.run /\ st.lifecycle = l
      /\ st # NoBlob /\ c.run = blob.run
  BY <1>1, ChangedState, BlobAssumption DEF Working
<1> HIDE DEF st
<1>3. header \in LeaseIds \cup {NoLease}
  BY <1>1 DEF Working, BlobState
<1>4. RequestOK(Request("metadata", st, c.etag, header), blob, etag, freed)
  BY <1>1, <1>2, <1>3, RequestFields DEF Working, RequestOK, Unheld
<1> QED
  BY <1>2, <1>3, <1>4 DEF st

\* Dispatch: the lease is taken under the id of the blob, or was ours already.
LEMMA DispatchKeeps ==
  ASSUME BrokerInv, NEW i \in Instances, Dispatch(i)
  PROVE  BrokerInv'
<1> DEFINE c == call[i]
           q == Request("acquire", c.st, 0, c.st.id)
           Taken == Goto(i, "hold", c.st, etag', c.resumed)
<1>0. c.pc = "dispatch" /\ c.pc \in Loaded
  BY DEF Dispatch, Loaded, Steps
<1>1. Working(c, blob, etag, freed) /\ c \in Calls /\ etag \in Nat
  BY <1>0, AtWork
<1>2. c.st \in BlobState /\ c.st.id \in LeaseIds
  BY <1>0, <1>1 DEF Working, BlobState
<1>3. q.kind = "acquire" /\ RequestOK(q, blob, etag, freed)
  BY <1>0, <1>1, <1>2, RequestFields DEF Working, RequestOK
<1> HIDE DEF q
<1>4. "BUSY" \in Outcomes \ (Grants \cup Releases)
      /\ "INDETERMINATE_AFTER_CRASH" \in Outcomes \ (Grants \cup Releases)
  BY DEF Outcomes, Grants, Releases
<1>5. ASSUME StoreStep, blob' = blob, etag' = etag, freed' = freed, late' = late, Taken
      PROVE  BrokerInv'
  <2>1. Moves(i, "hold", c.st, etag') /\ "hold" \in Loaded /\ etag' \in Nat
    BY <1>1, <1>5 DEF Moves, Loaded, Steps
  <2> QED
    BY <1>0, <1>1, <1>5, <2>1, GotoKeeps DEF Working
<1>6. CASE Accepts(q) /\ Effect(q) /\ Taken /\ UNCHANGED <<late, faults>>
  <2>1. StoreStep
    BY <1>3, <1>6, ServiceStep
  <2>2. blob' = blob /\ etag' = etag
    BY <1>3, <1>6 DEF Effect
  <2>3. freed' = freed
    BY <1>3, <1>6, Zenon DEF Effect, BrokerInv, BrokerTypeOK
  <2> QED
    BY <1>5, <1>6, <2>1, <2>2, <2>3
<1>7. CASE Answer(i, "BUSY") /\ UNCHANGED <<blob, etag, lease, freed, meddled, late, faults>>
  BY <1>4, <1>7, PlainRead
<1>8. CASE /\ late' = late \cup {q} /\ Answer(i, "INDETERMINATE_AFTER_CRASH")
           /\ UNCHANGED <<blob, etag, lease, freed, meddled>>
  BY <1>3, <1>4, <1>8, TimedOutRequest
<1>9. CASE Read /\ Taken
  <2>1. StoreStep
    BY <1>9, NoServiceStep DEF Read
  <2> QED
    BY <1>5, <1>9, <2>1 DEF Read
<1> QED
  BY <1>6, <1>7, <1>8, <1>9 DEF Dispatch, Exchange, q

\* Hold: the grant is told once HELD is written.
LEMMA HoldKeeps ==
  ASSUME BrokerInv, NEW i \in Instances, Hold(i)
  PROVE  BrokerInv'
<1> DEFINE c == call[i]
           st == Transition(c.st, "HELD")
           told == IF c.resumed THEN "ALREADY_ACQUIRED" ELSE "ACQUIRED"
<1>0. c.pc = "hold" /\ c.pc \in Loaded
  BY DEF Hold, Loaded, Steps
<1>1. "HELD" \in Lifecycles \ Unheld /\ "HELD" \notin Terminal
  BY DEF Lifecycles, Unheld, Terminal
<1>2. /\ st \in BlobState /\ st.id = blob.id /\ st.run = blob.run /\ st.lifecycle = "HELD"
      /\ st # NoBlob /\ c.run = blob.run /\ c.st.id \in LeaseIds \cup {NoLease}
      /\ RequestOK(Request("metadata", st, c.etag, c.st.id), blob, etag, freed)
  BY <1>0, <1>1, RecordedState
<1> HIDE DEF st
<1>3. told \in Grants
  BY DEF Grants
<1> HIDE DEF told
<1>4. SetMetadata(i, st, c.st.id, Answer(i, told))
  BY DEF Hold, st, told
<1>5. CASE Answer(i, told) /\ StoreStep /\ blob' = st /\ late' = late
  BY <1>1, <1>2, <1>3, <1>5, GrantAnswer
<1> QED
  BY <1>0, <1>2, <1>4, <1>5, MetadataCases

\* AcquireProbe: a recorded lease that is still there is granted again.
LEMMA AcquireProbeKeeps ==
  ASSUME BrokerInv, NEW i \in Instances, AcquireProbe(i)
  PROVE  BrokerInv'
<1> DEFINE c     == call[i]
           class == Classify(c)
           mine  == IF Relationship(c.st, c) = "NEXT" THEN ForCommand(c.st, c) ELSE c.st
<1>0. c.pc = "probe" /\ c.pc \in Loaded /\ Read
  BY DEF AcquireProbe, Loaded, Steps
<1>1. Working(c, blob, etag, freed) /\ c \in Calls /\ c.ticket \in Tickets /\ etag \in Nat
  BY <1>0, AtWork
<1>2. /\ mine \in BlobState /\ mine.id = blob.id /\ mine.run = blob.run /\ c.run = blob.run
  BY <1>0, <1>1, ChangedState DEF Working
<1> HIDE DEF mine
<1>3. \A o \in {"INDETERMINATE_AFTER_CRASH", "BUSY"} : Answer(i, o) => BrokerInv'
  BY <1>0, PlainRead DEF Read, Outcomes, Grants, Releases
<1>4. CASE class = "HELD" /\ c.st.lifecycle = "HELD" /\ Answer(i, "ALREADY_ACQUIRED")
  <2>1. c.etag = etag
    BY <1>4 DEF Classify
  <2>2. "ALREADY_ACQUIRED" \in Grants /\ "HELD" \notin Unheld
    BY DEF Grants, Unheld
  <2>3. blob # NoBlob /\ blob.lifecycle = "HELD" /\ blob.run = c.run
    BY <1>0, <1>1, <1>4, <2>1 DEF Working
  <2>4. StoreStep /\ blob' = blob /\ late' = late
    BY <1>0, NoServiceStep DEF Read
  <2> QED
    BY <1>4, <2>2, <2>3, <2>4, GrantAnswer
<1>5. ASSUME NEW to \in {"hold", "dispatch"}, Goto(i, to, mine, c.etag, TRUE)
      PROVE  BrokerInv'
  <2>1. Moves(i, to, mine, c.etag) /\ to \in Loaded
    BY <1>5 DEF Moves, Loaded, Steps
  <2> QED
    BY <1>0, <1>1, <1>2, <2>1, ReadGoto DEF Working
<1> QED
  BY <1>3, <1>4, <1>5 DEF AcquireProbe, mine

\* AssertLoad and ReleaseLoad probe only a lease of this run that was requested.
LEMMA ProbedRecord ==
  ASSUME BrokerInv, NEW i \in Instances, call[i].pc = "load", Read,
         blob # NoBlob, Relationship(blob, call[i]) \in {"SAME", "NEXT"},
         blob.lifecycle \in {"ACQUIRE_IN_FLIGHT", "HELD", "RELEASE_INTENT"},
         Goto(i, "probe", blob, etag, FALSE)
  PROVE  BrokerInv'
<1>1. call[i].ticket \in Tickets /\ blob \in BlobState /\ etag \in Nat
  BY AtWork
<1>2. call[i].run = blob.run
  BY <1>1, RelatedRun
<1>3. Moves(i, "probe", blob, etag) /\ "probe" \in Loaded
  BY DEF Moves, Loaded, Steps
<1> QED
  BY <1>1, <1>2, <1>3, ReadGoto DEF Terminal

\* AssertLoad
LEMMA AssertLoadKeeps ==
  ASSUME BrokerInv, NEW i \in Instances, AssertLoad(i)
  PROVE  BrokerInv'
<1>0. call[i].pc = "load" /\ Read
  BY DEF AssertLoad
<1>1. \A o \in {"NOT_ACQUIRED", "REPLAY_REJECTED", "LOST"} : Answer(i, o) => BrokerInv'
  BY <1>0, PlainRead DEF Read, Outcomes, Grants, Releases
<1> QED
  BY <1>0, <1>1, ProbedRecord DEF AssertLoad

\* ReleaseLoad: a lease recorded as released had been released.
LEMMA ReleaseLoadKeeps ==
  ASSUME BrokerInv, NEW i \in Instances, ReleaseLoad(i)
  PROVE  BrokerInv'
<1>0. call[i].pc = "load" /\ Read
  BY DEF ReleaseLoad
<1>1. \A o \in {"NOT_ACQUIRED", "REPLAY_REJECTED", "LOST"} : Answer(i, o) => BrokerInv'
  BY <1>0, PlainRead DEF Read, Outcomes, Grants, Releases
<1>2. CASE blob # NoBlob /\ blob.lifecycle = "RELEASED" /\ Answer(i, "ALREADY_RELEASED")
  <2>1. freed
    BY <1>2 DEF BrokerInv, RecordIsSound
  <2>2. StoreStep /\ freed' = freed /\ late' = late
    BY <1>0, NoServiceStep DEF Read
  <2>3. "ALREADY_RELEASED" \in Releases
    BY DEF Releases
  <2> QED
    BY <1>2, <2>1, <2>2, <2>3, ReleaseAnswer
<1> QED
  BY <1>0, <1>1, <1>2, ProbedRecord DEF ReleaseLoad

\* What an assertion records is never less than HELD.
LEMMA AssertedState ==
  ASSUME BrokerInv, NEW i \in Instances, call[i].pc = "probe"
  PROVE  LET st == Asserted(call[i])
         IN /\ st \in BlobState /\ st.id = blob.id /\ st.run = blob.run
            /\ st.lifecycle \in {"HELD", "RELEASE_INTENT"}
<1> DEFINE c    == call[i]
           mine == IF Relationship(c.st, c) = "NEXT" THEN ForCommand(c.st, c) ELSE c.st
<1>0. c.pc \in Loaded
  BY DEF Loaded, Steps
<1>1. Working(c, blob, etag, freed) /\ c \in Calls /\ c.ticket \in Tickets
  BY AtWork
<1>2. /\ mine \in BlobState /\ mine.id = blob.id /\ mine.run = blob.run
      /\ mine.lifecycle = c.st.lifecycle /\ c.st \in BlobState
  BY <1>0, <1>1, ChangedState DEF Working
<1> HIDE DEF mine
<1>3. c.st.lifecycle \in {"ACQUIRE_IN_FLIGHT", "HELD", "RELEASE_INTENT"}
  BY <1>0, <1>1, <1>2 DEF Working, BlobState, Lifecycles, Terminal
<1>4. Asserted(c) = IF c.st.lifecycle = "ACQUIRE_IN_FLIGHT" THEN Transition(mine, "HELD") ELSE mine
  BY DEF Asserted, mine
<1>5. /\ Transition(mine, "HELD") \in BlobState /\ Transition(mine, "HELD").id = mine.id
      /\ Transition(mine, "HELD").run = mine.run /\ Transition(mine, "HELD").lifecycle = "HELD"
  BY <1>2, ChangedState DEF Lifecycles
<1> QED
  BY <1>2, <1>3, <1>4, <1>5

\* AssertProbe: the lease is confirmed where the blob says HELD or more.
LEMMA AssertProbeKeeps ==
  ASSUME BrokerInv, NEW i \in Instances, AssertProbe(i)
  PROVE  BrokerInv'
<1> DEFINE c     == call[i]
           class == Classify(c)
           st    == Asserted(c)
<1>0. c.pc = "probe" /\ c.pc \in Loaded /\ Read
  BY DEF AssertProbe, Loaded, Steps
<1>1. Working(c, blob, etag, freed) /\ c \in Calls /\ etag \in Nat
  BY <1>0, AtWork
<1>2. /\ st \in BlobState /\ st.id = blob.id /\ st.run = blob.run
      /\ st.lifecycle \in {"HELD", "RELEASE_INTENT"}
  BY <1>0, AssertedState
<1> HIDE DEF st
<1>3. \A o \in {"INDETERMINATE_AFTER_CRASH", "LOST"} : Answer(i, o) => BrokerInv'
  BY <1>0, PlainRead DEF Read, Outcomes, Grants, Releases
<1>4. CASE class = "HELD" /\ st = c.st /\ Answer(i, "HELD")
  <2>1. c.etag = etag
    BY <1>4 DEF Classify
  <2>2. "HELD" \in Grants
    BY DEF Grants
  <2>3. blob # NoBlob /\ blob.lifecycle \notin Unheld /\ blob.run = c.run
    BY <1>0, <1>1, <1>2, <1>4, <2>1 DEF Working, Unheld
  <2>4. StoreStep /\ blob' = blob /\ late' = late
    BY <1>0, NoServiceStep DEF Read
  <2> QED
    BY <1>4, <2>2, <2>3, <2>4, GrantAnswer
<1>5. CASE Goto(i, "update", st, c.etag, FALSE)
  <2>1. Moves(i, "update", st, c.etag) /\ "update" \in Loaded
    BY <1>5 DEF Moves, Loaded, Steps
  <2> QED
    BY <1>0, <1>1, <1>2, <2>1, ReadGoto DEF Working
<1>6. CASE Goto(i, "lose", c.st, c.etag, FALSE)
  <2>1. Moves(i, "lose", c.st, c.etag) /\ "lose" \in Loaded
    BY <1>6 DEF Moves, Loaded, Steps
  <2> QED
    BY <1>0, <1>1, <2>1, ReadGoto DEF Working
<1> QED
  BY <1>3, <1>4, <1>5, <1>6 DEF AssertProbe, st

\* Update: HELD is told once the ticket is recorded.
LEMMA UpdateKeeps ==
  ASSUME BrokerInv, NEW i \in Instances, Update(i)
  PROVE  BrokerInv'
<1> DEFINE c == call[i]
<1>0. c.pc = "update" /\ c.pc \in Loaded
  BY DEF Update, Loaded, Steps
<1>1. Working(c, blob, etag, freed) /\ c \in Calls
  BY <1>0, AtWork
<1>2. /\ c.st \in BlobState /\ c.st.id \in LeaseIds /\ c.st # NoBlob
      /\ c.st.lifecycle \in {"HELD", "RELEASE_INTENT"} /\ c.st.run = c.run
  BY <1>0, <1>1, BlobAssumption DEF Working, BlobState
<1>3. RequestOK(Request("metadata", c.st, c.etag, c.st.id), blob, etag, freed)
  BY <1>0, <1>1, <1>2, RequestFields DEF Working, RequestOK, Terminal
<1>4. SetMetadata(i, c.st, c.st.id, Answer(i, "HELD")) /\ "HELD" \in Grants
  BY DEF Update, Grants
<1>5. CASE Answer(i, "HELD") /\ StoreStep /\ blob' = c.st /\ late' = late
  <2>1. c.st.lifecycle \notin Unheld
    BY <1>2 DEF Unheld
  <2> QED
    BY <1>2, <1>4, <1>5, <2>1, GrantAnswer
<1> QED
  BY <1>0, <1>2, <1>3, <1>4, <1>5, MetadataCases

\* Lose: LOST is recorded with no lease held.
LEMMA LoseKeeps ==
  ASSUME BrokerInv, NEW i \in Instances, Lose(i)
  PROVE  BrokerInv'
<1> DEFINE c == call[i]
           st == Transition(c.st, "LOST")
<1>0. c.pc = "lose" /\ c.pc \in Loaded
  BY DEF Lose, Loaded, Steps
<1>1. "LOST" \in Lifecycles \ Unheld /\ "LOST" \in Outcomes \ (Grants \cup Releases)
  BY DEF Lifecycles, Unheld, Outcomes, Grants, Releases
<1>2. /\ st \in BlobState
      /\ RequestOK(Request("metadata", st, c.etag, NoLease), blob, etag, freed)
  BY <1>0, <1>1, RecordedState
<1> HIDE DEF st
<1>3. SetMetadata(i, st, NoLease, Answer(i, "LOST"))
  BY DEF Lose, st
<1>4. CASE Answer(i, "LOST") /\ StoreStep /\ late' = late
  BY <1>1, <1>4, PlainAnswer
<1> QED
  BY <1>0, <1>2, <1>3, <1>4, MetadataCases

\* ReleaseProbe
LEMMA ReleaseProbeKeeps ==
  ASSUME BrokerInv, NEW i \in Instances, ReleaseProbe(i)
  PROVE  BrokerInv'
<1> DEFINE c     == call[i]
           class == Classify(c)
           mine  == ForCommand(c.st, c)
<1>0. c.pc = "probe" /\ c.pc \in Loaded /\ Read
  BY DEF ReleaseProbe, Loaded, Steps
<1>1. Working(c, blob, etag, freed) /\ c \in Calls /\ c.ticket \in Tickets /\ etag \in Nat
  BY <1>0, AtWork
<1>2. /\ mine \in BlobState /\ mine.id = blob.id /\ mine.run = blob.run
  BY <1>0, <1>1, ChangedState DEF Working
<1> HIDE DEF mine
<1>3. Answer(i, "LOST") => BrokerInv'
  BY <1>0, PlainRead DEF Read, Outcomes, Grants, Releases
<1>4. ASSUME NEW to \in {"lose", "release"}, Goto(i, to, c.st, c.etag, FALSE)
      PROVE  BrokerInv'
  <2>1. Moves(i, to, c.st, c.etag) /\ to \in Loaded
    BY <1>4 DEF Moves, Loaded, Steps
  <2> QED
    BY <1>0, <1>1, <2>1, ReadGoto DEF Working
<1>5. CASE Goto(i, "intent", mine, c.etag, FALSE)
  <2>1. Moves(i, "intent", mine, c.etag) /\ "intent" \in Loaded
    BY <1>5 DEF Moves, Loaded, Steps
  <2> QED
    BY <1>0, <1>1, <1>2, <2>1, ReadGoto DEF Working
<1> QED
  BY <1>3, <1>4, <1>5 DEF ReleaseProbe, mine

\* ReleaseIntent: the intent is durable before the release is sent.
LEMMA ReleaseIntentKeeps ==
  ASSUME BrokerInv, NEW i \in Instances, ReleaseIntent(i)
  PROVE  BrokerInv'
<1> DEFINE c == call[i]
           st == Transition(c.st, "RELEASE_INTENT")
           Written == Goto(i, "release", st, etag', FALSE)
<1>0. c.pc = "intent" /\ c.pc \in Loaded
  BY DEF ReleaseIntent, Loaded, Steps
<1>1. "RELEASE_INTENT" \in Lifecycles \ Unheld /\ "RELEASE_INTENT" \notin Terminal
  BY DEF Lifecycles, Unheld, Terminal
<1>2. st.id = c.st.id /\ etag \in Nat
  BY <1>0, <1>1, AtWork, ChangedState DEF Working
<1>3. /\ st \in BlobState /\ st.id = blob.id /\ st.run = blob.run
      /\ st.lifecycle = "RELEASE_INTENT"
      /\ st # NoBlob /\ c.run = blob.run /\ c.st.id \in LeaseIds \cup {NoLease}
      /\ RequestOK(Request("metadata", st, c.etag, c.st.id), blob, etag, freed)
  BY <1>0, <1>1, RecordedState
<1> HIDE DEF st
<1>4. SetMetadata(i, st, st.id, Written)
  BY DEF ReleaseIntent, st
<1>5. CASE /\ Written /\ StoreStep
           /\ blob' = st /\ etag' = etag + 1 /\ late' = late
  <2>1. Moves(i, "release", st, etag')
    BY <1>5 DEF Moves
  <2>2. "release" \in Loaded /\ etag' \in Nat
    BY <1>2, <1>5 DEF Loaded, Steps
  <2> QED
    BY <1>0, <1>3, <1>5, <2>1, <2>2, GotoKeeps
<1>6. RequestOK(Request("metadata", st, c.etag, st.id), blob, etag, freed)
      /\ st.id \in LeaseIds \cup {NoLease}
  BY <1>2, <1>3
<1> HIDE DEF Written
<1> QED
  BY <1>0, <1>3, <1>4, <1>5, <1>6, MetadataCases

\* Release: the lease ends, and the history records it.
LEMMA ReleaseKeeps ==
  ASSUME BrokerInv, NEW i \in Instances, Release(i)
  PROVE  BrokerInv'
<1> DEFINE c == call[i]
           q == Request("release", c.st, 0, c.st.id)
<1>0. c.pc = "release" /\ c.pc \in Loaded
  BY DEF Release, Loaded, Steps
<1>1. Working(c, blob, etag, freed) /\ c \in Calls /\ etag \in Nat
  BY <1>0, AtWork
<1>2. c.st \in BlobState /\ c.st.id \in LeaseIds
  BY <1>0, <1>1 DEF Working, BlobState
<1>3. q.kind = "release" /\ RequestOK(q, blob, etag, freed)
  BY <1>0, <1>1, <1>2, RequestFields DEF Working, RequestOK
<1> HIDE DEF q
<1>4. "INDETERMINATE_AFTER_CRASH" \in Outcomes \ (Grants \cup Releases)
  BY DEF Outcomes, Grants, Releases
<1>5. CASE /\ Accepts(q) /\ Effect(q) /\ Goto(i, "finish", c.st, etag', FALSE)
           /\ UNCHANGED <<late, faults>>
  <2>1. StoreStep
    BY <1>3, <1>5, ServiceStep
  <2>2. blob' = blob /\ etag' = etag
    BY <1>3, <1>5 DEF Effect
  <2>3. freed'
    BY <1>3, <1>5 DEF Effect
  <2>4. Moves(i, "finish", c.st, etag') /\ "finish" \in Loaded /\ etag' \in Nat
    BY <1>1, <1>5, <2>2 DEF Moves, Loaded, Steps
  <2> QED
    BY <1>0, <1>1, <1>5, <2>1, <2>2, <2>3, <2>4, GotoKeeps DEF Working
<1>6. CASE /\ Answer(i, "INDETERMINATE_AFTER_CRASH")
           /\ UNCHANGED <<blob, etag, lease, freed, meddled, late, faults>>
  BY <1>4, <1>6, PlainRead
<1>7. CASE /\ late' = late \cup {q} /\ Answer(i, "INDETERMINATE_AFTER_CRASH")
           /\ UNCHANGED <<blob, etag, lease, freed, meddled>>
  BY <1>3, <1>4, <1>7, TimedOutRequest
<1> QED
  BY <1>5, <1>6, <1>7 DEF Release, Exchange, q

\* Finish: RELEASED is recorded, and told, after the release.
LEMMA FinishKeeps ==
  ASSUME BrokerInv, NEW i \in Instances, Finish(i)
  PROVE  BrokerInv'
<1> DEFINE c == call[i]
           st == Transition(c.st, "RELEASED")
<1>0. c.pc = "finish" /\ c.pc \in Loaded
  BY DEF Finish, Loaded, Steps
<1>1. "RELEASED" \in Lifecycles \ Unheld /\ "RELEASED" \in Releases
  BY DEF Lifecycles, Unheld, Releases
<1>2. freed
  BY <1>0, AtWork DEF Working
<1>3. /\ st \in BlobState
      /\ RequestOK(Request("metadata", st, c.etag, NoLease), blob, etag, freed)
  BY <1>0, <1>1, <1>2, RecordedState
<1> HIDE DEF st
<1>4. SetMetadata(i, st, NoLease, Answer(i, "RELEASED"))
  BY DEF Finish, st
<1>5. CASE Answer(i, "RELEASED") /\ StoreStep /\ late' = late /\ freed' = freed
  BY <1>1, <1>2, <1>5, ReleaseAnswer
<1> QED
  BY <1>0, <1>3, <1>4, <1>5, MetadataCases

-----------------------------------------------------------------------------
(* Disturbances. *)

\* A call that ends for want of a token, or with its process.
LEMMA BrokenCallKeeps ==
  ASSUME BrokerInv, NEW i \in Instances, Unavailable(i) \/ Crash(i)
  PROVE  BrokerInv'
<1>1. \A o \in {"RETRYABLE_FAILURE", "INDETERMINATE_AFTER_CRASH", "none"} :
        o \in Outcomes \ (Grants \cup Releases)
  BY DEF Outcomes, Grants, Releases
<1>2. UNCHANGED <<blob, etag, lease, late, freed>>
  BY DEF Unavailable, Crash
<1>3. \E o \in {"RETRYABLE_FAILURE", "INDETERMINATE_AFTER_CRASH", "none"} : Answer(i, o)
  BY DEF Unavailable, Crash
<1> QED
  BY <1>1, <1>2, <1>3, PlainRead

\* A request executed late moves the blob on as its caller would have.
LEMMA ExecuteLateKeeps ==
  ASSUME BrokerInv, NEW q \in late, ExecuteLate(q)
  PROVE  BrokerInv'
<1>1. StoreStep
  BY ServiceStep DEF ExecuteLate, BrokerInv, RequestsAreSound
<1>2. Later(blob, etag, freed, blob', etag', freed')
  BY <1>1 DEF StoreStep
<1>3. CallsAreSound'
  BY <1>2, CallLater DEF CallsAreSound, BrokerInv, ExecuteLate
<1>4. RequestsAreSound'
  BY <1>2, RequestLater DEF RequestsAreSound, BrokerInv, ExecuteLate
<1>5. BrokerTypeOK'
  BY <1>1, <1>2 DEF StoreStep, Later, BrokerTypeOK, BrokerInv, ExecuteLate
<1> QED
  BY <1>1, <1>3, <1>4, <1>5 DEF BrokerInv, StoreStep

\* Somebody outside leaves no lease of the broker behind.
LEMMA OutsideKeeps ==
  ASSUME BrokerInv, Outside
  PROVE  BrokerInv'
<1>1. UNCHANGED <<blob, etag, late, call, freed>> /\ lease' \in {NoLease, Foreign}
  BY DEF Outside
<1>2. lease' \notin LeaseIds
  BY <1>1, LeaseAssumption
<1> QED
  BY <1>1, <1>2 DEF BrokerInv, BrokerTypeOK, CallsAreSound, RequestsAreSound, LeaseIsSound,
                    RecordIsSound

\* The initial state.
LEMMA BrokerInvInit ==
  ASSUME BrokerInit
  PROVE  BrokerInv
<1>1. Idle \in Calls /\ Idle.pc = "idle" /\ Idle.out = "none"
  BY DEF Idle, Calls, Steps, Outcomes
<1>2. \A i \in Instances : call[i] = Idle
  BY DEF BrokerInit
<1>3. CallsAreSound
  BY <1>1, <1>2 DEF CallsAreSound, CallOK, Fresh, Working, Told, Loaded, Grants, Releases
<1>4. BrokerTypeOK
  BY <1>1 DEF BrokerTypeOK, BrokerInit
<1> QED
  BY <1>3, <1>4, LeaseAssumption
  DEF BrokerInv, BrokerInit, RequestsAreSound, LeaseIsSound, RecordIsSound

\* Every step of a call, as a composition with a client takes it.
LEMMA ServeKeeps ==
  ASSUME BrokerInv, NEW i \in Instances, Serve(i)
  PROVE  BrokerInv'
BY CreateKeeps, AcquireLoadKeeps, StartKeeps, DispatchKeeps, HoldKeeps, AcquireProbeKeeps,
   AssertLoadKeeps, AssertProbeKeeps, UpdateKeeps, LoseKeeps, ReleaseLoadKeeps,
   ReleaseProbeKeeps, ReleaseIntentKeeps, ReleaseKeeps, FinishKeeps
DEF Serve

\* Every disturbance.
LEMMA DisturbKeeps ==
  ASSUME BrokerInv, Disturb
  PROVE  BrokerInv'
BY BrokenCallKeeps, ExecuteLateKeeps, OutsideKeeps DEF Disturb

\* Every step of the broker keeps the invariant.
LEMMA BrokerInvNext ==
  ASSUME BrokerInv, [BrokerNext]_brokerVars
  PROVE  BrokerInv'
<1>1. ASSUME NEW i \in Instances, Invoke(i)
      PROVE  BrokerInv'
  <2>1. PICK run \in Runs, t \in Tickets :
          IF ActionOf[t] = "acquire" THEN \E id \in FreshIds : Begin(i, run, t, id)
          ELSE Begin(i, run, t, NoLease)
    BY <1>1 DEF Invoke
  <2>2. CASE ActionOf[t] = "acquire"
    BY <2>1, <2>2, BeginKeeps DEF FreshIds
  <2>3. CASE ActionOf[t] # "acquire"
    BY <2>1, <2>3, BeginKeeps
  <2> QED
    BY <2>2, <2>3
<1>2. CASE UNCHANGED brokerVars
  BY <1>2 DEF brokerVars, BrokerInv, BrokerTypeOK, CallsAreSound, RequestsAreSound,
              LeaseIsSound, RecordIsSound
<1> QED
  BY <1>1, <1>2, ServeKeeps, DisturbKeeps DEF BrokerNext

\* The invariant implies what the runs check.
LEMMA BrokerSafety ==
  ASSUME BrokerInv
  PROVE  LeaseIsRecorded /\ GrantIsDurable /\ ReleasedWasReleased
<1>1. LeaseIsRecorded
  <2>1. ASSUME NEW i \in Instances, call[i].pc = "dispatch"
        PROVE  blob # NoBlob /\ call[i].st.id = blob.id /\ blob.lifecycle # "ACQUIRE_INTENT"
    <3>1. "dispatch" \in Loaded
      BY DEF Loaded, Steps
    <3> QED
      BY <2>1, <3>1, AtWork DEF Working
  <2>2. ASSUME NEW q \in late, q.kind = "acquire"
        PROVE  blob # NoBlob /\ q.header = blob.id /\ blob.lifecycle # "ACQUIRE_INTENT"
    BY <2>2 DEF BrokerInv, RequestsAreSound, RequestOK
  <2>3. lease \in LeaseIds =>
          blob # NoBlob /\ lease = blob.id /\ blob.lifecycle # "ACQUIRE_INTENT"
    BY DEF BrokerInv, LeaseIsSound
  <2> QED
    BY <2>1, <2>2, <2>3 DEF LeaseIsRecorded
<1>2. GrantIsDurable
  BY DEF BrokerInv, CallsAreSound, CallOK, Told, GrantIsDurable, Grants, Unheld
<1>3. ReleasedWasReleased
  BY DEF BrokerInv, CallsAreSound, CallOK, Told, RecordIsSound, ReleasedWasReleased, Releases
<1> QED
  BY <1>1, <1>2, <1>3

-----------------------------------------------------------------------------
(* Theorems *)

\* The inductive invariant: whatever instances, late requests and outsiders do,
\* every call and every request in the network stays bound to the one lease of
\* the blob.
THEOREM BrokerInvariance == BrokerSpec => []BrokerInv
<1>1. BrokerInit => BrokerInv
  BY BrokerInvInit
<1>2. BrokerInv /\ [BrokerNext]_brokerVars => BrokerInv'
  BY BrokerInvNext
<1> QED
  BY <1>1, <1>2, PTL DEF BrokerSpec

\* The lease exists, or is asked for, only under the id the blob records and only
\* after the in-flight marker of _start_acquire.
THEOREM RecordedLease == BrokerSpec => []LeaseIsRecorded
<1>1. BrokerInv => LeaseIsRecorded
  BY BrokerSafety
<1> QED
  BY <1>1, BrokerInvariance, PTL

\* Whoever was told ACQUIRED, ALREADY_ACQUIRED or HELD owns the blob, which had
\* recorded HELD before the answer.
THEOREM DurableGrant == BrokerSpec => []GrantIsDurable
<1>1. BrokerInv => GrantIsDurable
  BY BrokerSafety
<1> QED
  BY <1>1, BrokerInvariance, PTL

\* RELEASED is recorded and told only after a release request of the broker ended
\* its lease, never because a lease was found absent.
THEOREM ReleasedMeansReleased == BrokerSpec => []ReleasedWasReleased
<1>1. BrokerInv => ReleasedWasReleased
  BY BrokerSafety
<1> QED
  BY <1>1, BrokerInvariance, PTL

-----------------------------------------------------------------------------
(* The action property. *)

\* A metadata write leaves the blob alone or matches the lease it names.
LEMMA WrittenOrNot ==
  ASSUME NEW i, NEW st, NEW header, NEW ACTION Written, SetMetadata(i, st, header, Written)
  PROVE  blob' = blob \/ (blob' = st /\ lease' = lease /\ lease = header)
<1> DEFINE q == Request("metadata", st, call[i].etag, header)
<1>1. q.kind = "metadata" /\ q.state = st /\ q.header = header
  BY DEF Request
<1> HIDE DEF q
<1>2. CASE Accepts(q) /\ Effect(q)
  BY <1>1, <1>2 DEF Accepts, Effect
<1> QED
  BY <1>2 DEF SetMetadata, Exchange, q

\* Every step of a call that records a terminal lifecycle finds no lease.
LEMMA ServeRecords ==
  ASSUME BrokerInv, NEW i \in Instances, Serve(i),
         blob' # NoBlob, blob'.lifecycle \in Terminal, blob' # blob
  PROVE  lease' = NoLease
<1> DEFINE c == call[i]
<1>1. ASSUME c.pc \in {"start", "hold", "update", "lose", "intent", "finish"}
      PROVE  /\ c.st \in BlobState
             /\ c.pc = "update" => c.st.lifecycle \notin Terminal
             /\ \A l \in Lifecycles : Transition(c.st, l).lifecycle = l
  <2>1. c.pc \in Loaded
    BY <1>1 DEF Loaded, Steps
  <2>2. c.st \in BlobState /\ (c.pc = "update" => c.st.lifecycle \notin Terminal)
    BY <1>1, <2>1, AtWork DEF Working, Terminal
  <2> QED
    BY <2>2, ChangedState
<1>2. CASE Create(i)
  <2> DEFINE st == [run |-> c.run, ticket |-> c.ticket, id |-> c.id,
                    lifecycle |-> "ACQUIRE_INTENT"]
             q  == Request("create", st, 0, NoLease)
  <2>1. q.kind = "create" /\ q.state = st /\ st.lifecycle \notin Terminal
    BY DEF Request, Terminal
  <2> HIDE DEF q
  <2>2. CASE Accepts(q) /\ Effect(q)
    BY <2>1, <2>2 DEF Effect
  <2> QED
    BY <1>2, <2>2 DEF Create, Exchange, q
<1>3. CASE Start(i)
  <2>1. blob' = Transition(c.st, "ACQUIRE_IN_FLIGHT")
    BY <1>3, WrittenOrNot DEF Start
  <2> QED
    BY <1>1, <1>3, <2>1 DEF Start, Lifecycles, Terminal
<1>4. CASE Hold(i)
  <2>1. blob' = Transition(c.st, "HELD")
    BY <1>4, WrittenOrNot DEF Hold
  <2> QED
    BY <1>1, <1>4, <2>1 DEF Hold, Lifecycles, Terminal
<1>5. CASE Update(i)
  <2>1. blob' = c.st
    BY <1>5, WrittenOrNot DEF Update
  <2> QED
    BY <1>1, <1>5, <2>1 DEF Update
<1>6. CASE Lose(i)
  BY <1>6, WrittenOrNot DEF Lose
<1>7. CASE ReleaseIntent(i)
  <2> DEFINE st == Transition(c.st, "RELEASE_INTENT")
             Written == Goto(i, "release", st, etag', FALSE)
  <2>1. SetMetadata(i, st, st.id, Written)
    BY <1>7 DEF ReleaseIntent
  <2> HIDE DEF Written, st
  <2>2. blob' = st
    BY <2>1, WrittenOrNot
  <2> QED
    BY <1>1, <1>7, <2>2 DEF ReleaseIntent, Lifecycles, Terminal, st
<1>8. CASE Finish(i)
  BY <1>8, WrittenOrNot DEF Finish
<1>9. CASE Dispatch(i)
  <2> DEFINE q == Request("acquire", c.st, 0, c.st.id)
  <2>1. q.kind = "acquire"
    BY DEF Request
  <2> HIDE DEF q
  <2> QED
    BY <1>9, <2>1 DEF Dispatch, Exchange, Effect, Read, q
<1>10. CASE Release(i)
  <2> DEFINE q == Request("release", c.st, 0, c.st.id)
  <2>1. q.kind = "release"
    BY DEF Request
  <2> HIDE DEF q
  <2> QED
    BY <1>10, <2>1 DEF Release, Exchange, Effect, q
<1>11. CASE AcquireLoad(i) \/ AcquireProbe(i) \/ AssertLoad(i) \/ AssertProbe(i)
            \/ ReleaseLoad(i) \/ ReleaseProbe(i)
  BY <1>11 DEF AcquireLoad, AcquireProbe, AssertLoad, AssertProbe, ReleaseLoad, ReleaseProbe,
               Read
<1> QED
  BY <1>2, <1>3, <1>4, <1>5, <1>6, <1>7, <1>8, <1>9, <1>10, <1>11 DEF Serve

\* So does a late request.
LEMMA DisturbRecords ==
  ASSUME BrokerInv, Disturb,
         blob' # NoBlob, blob'.lifecycle \in Terminal, blob' # blob
  PROVE  lease' = NoLease
<1>1. ASSUME NEW q \in late, ExecuteLate(q)
      PROVE  lease' = NoLease
  <2>1. RequestOK(q, blob, etag, freed)
    BY DEF BrokerInv, RequestsAreSound
  <2>2. q.kind \in {"create", "metadata"} /\ blob' = q.state /\ lease' = lease
    BY <1>1 DEF ExecuteLate, Effect
  <2>3. q.kind = "metadata"
    BY <2>1, <2>2 DEF RequestOK, Terminal
  <2> QED
    BY <1>1, <2>1, <2>2, <2>3 DEF ExecuteLate, Accepts, RequestOK
<1> QED
  BY <1>1 DEF Disturb, Unavailable, Crash, Outside

\* RELEASED and LOST are recorded only at a moment when nobody holds the lease,
\* also by a metadata write that the service executes long after it was sent.
THEOREM TerminalIsRecordedFree == BrokerSpec => TerminalRecordsFreeLease
<1>1. ASSUME BrokerInv, [BrokerNext]_brokerVars
      PROVE  [ (blob' # NoBlob /\ blob'.lifecycle \in Terminal /\ blob' # blob)
               => lease' = NoLease ]_brokerVars
  <2>1. ASSUME NEW i \in Instances, Invoke(i)
        PROVE  blob' = blob
    BY <2>1 DEF Invoke, Begin
  <2> QED
    BY <1>1, <2>1, ServeRecords, DisturbRecords DEF BrokerNext
<1> QED
  BY <1>1, BrokerInvariance, PTL DEF BrokerSpec, TerminalRecordsFreeLease

=============================================================================
