---------------------------- MODULE LeaseBroker ----------------------------
(***************************************************************************)
(* The performance lease broker and its blob-backed state machine          *)
(* (nac_bff/azure_performance_lease_broker.py and _broker_storage.py).     *)
(*                                                                         *)
(* One blob carries the durable lifecycle of one exclusive lease as its    *)
(* metadata, and the infinite Azure lease itself.  Several broker          *)
(* instances (the function app scales out) serve the commands; each holds  *)
(* its own in-process lock, so the instances only meet in the blob.  Every *)
(* HTTP request is one step.  A request that times out is answered with a  *)
(* failure and stays in the network: the service may still execute it at   *)
(* any later time, or never.                                               *)
(***************************************************************************)
EXTENDS Integers, FiniteSets

CONSTANTS
  Instances,   \* broker processes
  Runs,        \* run fingerprints of the deployments that share the blob
  Tickets,     \* signed activation tickets
  Nonces,
  NonceOf,     \* the nonce of a ticket
  ActionOf,    \* the only operation a ticket is valid for
  LeaseIds,    \* private lease ids the broker can generate, one per acquire call
  NoBlob, NoLease, Foreign,
  MaxCalls,    \* bound: broker calls
  MaxFaults    \* bound: timeouts, token failures, outside lease changes

ASSUME TicketAssumption ==
  /\ NonceOf \in [Tickets -> Nonces]
  /\ ActionOf \in [Tickets -> {"acquire", "assert", "release"}]
ASSUME LeaseAssumption ==
  /\ NoLease \notin LeaseIds \cup {Foreign}
  /\ Foreign \notin LeaseIds

VARIABLES
  blob,     \* NoBlob or the metadata of the blob (_BlobState)
  etag,     \* number of metadata writes the blob has seen
  lease,    \* the Azure lease: an id, Foreign or NoLease
  late,     \* requests whose caller gave up, still in the network
  call,     \* what each instance is doing, and its last answer
  calls, faults,
  freed,    \* history: a release request of the broker ended its lease
  meddled   \* history: somebody outside the broker changed the lease

brokerVars == <<blob, etag, lease, late, call, calls, faults, freed, meddled>>

\* The values of the blob, of a request and of a call.
Lifecycles == {"ACQUIRE_INTENT", "ACQUIRE_IN_FLIGHT", "HELD", "RELEASE_INTENT",
               "RELEASED", "LOST"}
Terminal == {"RELEASED", "LOST"}

BlobState == [run : Runs, ticket : Tickets, id : LeaseIds, lifecycle : Lifecycles]

\* "There is no blob" is not the metadata of one.
ASSUME BlobAssumption == NoBlob \notin BlobState

\* A request: "create", "metadata", "acquire" or "release".
Requests ==
  [kind : {"create", "metadata", "acquire", "release"},
   state : BlobState, etag : Nat, header : LeaseIds \cup {NoLease}]

Steps == {"idle", "create", "load", "start", "dispatch", "hold", "probe", "update",
          "lose", "intent", "release", "finish"}

Outcomes == {"none", "ACQUIRED", "ALREADY_ACQUIRED", "BUSY", "RETRYABLE_FAILURE",
             "INDETERMINATE_AFTER_CRASH", "REPLAY_REJECTED", "HELD", "LOST",
             "NOT_ACQUIRED", "RELEASED", "ALREADY_RELEASED"}

\* The private id is chosen by acquire; the other commands carry none.
Calls ==
  [pc : Steps, run : Runs \cup {NoBlob}, ticket : Tickets \cup {NoBlob}, id : LeaseIds \cup {NoLease},
   st : BlobState \cup {NoBlob}, etag : Nat, resumed : BOOLEAN, out : Outcomes]

Idle ==
  [pc |-> "idle", run |-> NoBlob, ticket |-> NoBlob, id |-> NoLease, st |-> NoBlob,
   etag |-> 0, resumed |-> FALSE, out |-> "none"]

-----------------------------------------------------------------------------
(* The blob service, as the state machine uses it. *)

\* A metadata write needs the current ETag, and exactly the lease id of the
\* lease when there is one.
Accepts(q) ==
  CASE q.kind = "create"   -> blob = NoBlob
    [] q.kind = "metadata" -> q.etag = etag /\ q.header = lease
    [] q.kind = "acquire"  -> lease = NoLease
    [] q.kind = "release"  -> lease = q.header

Effect(q) ==
  /\ blob'  = IF q.kind \in {"create", "metadata"} THEN q.state ELSE blob
  /\ etag'  = IF q.kind \in {"create", "metadata"} THEN etag + 1 ELSE etag
  /\ lease' = CASE q.kind = "acquire" -> q.header
                [] q.kind = "release" -> NoLease
                [] OTHER -> lease
  /\ freed' = (freed \/ q.kind = "release")
  /\ UNCHANGED meddled

Request(kind, state, e, header) ==
  [kind |-> kind, state |-> state, etag |-> e, header |-> header]


-----------------------------------------------------------------------------
(* The relation of a command to the recorded state, and the answers. *)

\* Mutant: the run fingerprint is not compared.
RelationshipIgnoresRun(st, c) ==
  IF NonceOf[st.ticket] # NonceOf[c.ticket] THEN "NEXT"
  ELSE IF st.ticket # c.ticket THEN "REPLAY"
  ELSE "SAME"

\* The binding fingerprint is part of the run fingerprint and adds no case.
Relationship(st, c) ==
  IF st.run # c.run THEN "OTHER"
  ELSE IF NonceOf[st.ticket] # NonceOf[c.ticket] THEN "NEXT"
  ELSE IF st.ticket # c.ticket THEN "REPLAY"
  ELSE "SAME"

ForCommand(st, c) == [st EXCEPT !.ticket = c.ticket]
Transition(st, lifecycle) == [st EXCEPT !.lifecycle = lifecycle]

Goto(i, pc, st, e, resumed) ==
  call' = [call EXCEPT ![i].pc = pc, ![i].st = st, ![i].etag = e, ![i].resumed = resumed]

Answer(i, outcome) ==
  call' = [call EXCEPT ![i] = [Idle EXCEPT !.run = call[i].run, !.out = outcome]]

\* A step that sends nothing the service would change the blob for.
Read == UNCHANGED <<blob, etag, lease, late, calls, faults, freed, meddled>>

\* One request: executed and answered, refused, or timed out.
Exchange(i, q, Accepted, Refused, timeout) ==
  /\ \/ /\ Accepts(q)
        /\ Effect(q)
        /\ Accepted
        /\ UNCHANGED <<late, faults>>
     \/ /\ ~Accepts(q)
        /\ Refused
        /\ UNCHANGED <<blob, etag, lease, freed, meddled, late, faults>>
     \/ /\ faults < MaxFaults
        /\ faults' = faults + 1
        /\ late' = late \cup {q}
        /\ Answer(i, timeout)
        /\ UNCHANGED <<blob, etag, lease, freed, meddled>>
  /\ UNCHANGED calls

\* The conditional metadata write of _set_metadata: a refusal and a timeout are
\* both answered as indeterminate by every caller.
SetMetadata(i, st, header, Written) ==
  Exchange(i, Request("metadata", st, call[i].etag, header), Written,
           Answer(i, "INDETERMINATE_AFTER_CRASH"), "INDETERMINATE_AFTER_CRASH")

-----------------------------------------------------------------------------
(* acquire *)

\* secrets.token_bytes: an id nobody else holds.
FreshIds ==
  LeaseIds \ ( {call[i].id : i \in Instances} \cup {q.state.id : q \in late}
              \cup (IF blob = NoBlob THEN {} ELSE {blob.id}) )

Begin(i, run, t, id) ==
  /\ call[i].pc = "idle"
  /\ call' = [call EXCEPT ![i] =
       [pc |-> IF ActionOf[t] = "acquire" THEN "create" ELSE "load",
        run |-> run, ticket |-> t, id |-> id, st |-> NoBlob, etag |-> 0,
        resumed |-> FALSE, out |-> "none"]]
  /\ UNCHANGED <<blob, etag, lease, late, faults, freed, meddled>>

\* Mutant: the lease is requested without the in-flight marker.
CreateWithoutMarker(i) ==
  LET c  == call[i]
      st == [run |-> c.run, ticket |-> c.ticket, id |-> c.id,
             lifecycle |-> "ACQUIRE_INTENT"]
  IN /\ c.pc = "create"
     /\ Exchange(i, Request("create", st, 0, NoLease),
                 Goto(i, "dispatch", st, etag', FALSE),
                 Goto(i, "load", NoBlob, 0, FALSE),
                 "INDETERMINATE_AFTER_CRASH")

Create(i) ==
  LET c  == call[i]
      st == [run |-> c.run, ticket |-> c.ticket, id |-> c.id,
             lifecycle |-> "ACQUIRE_INTENT"]
  IN /\ c.pc = "create"
     /\ Exchange(i, Request("create", st, 0, NoLease),
                 Goto(i, "start", st, etag', FALSE),
                 Goto(i, "load", NoBlob, 0, FALSE),
                 "INDETERMINATE_AFTER_CRASH")

AcquireLoad(i) ==
  LET c   == call[i]
      rel == Relationship(blob, c)
      mine == IF rel = "NEXT" THEN ForCommand(blob, c) ELSE blob
  IN /\ c.pc = "load" /\ ActionOf[c.ticket] = "acquire"
     /\ \/ rel = "REPLAY" /\ Answer(i, "REPLAY_REJECTED")
        \/ rel = "OTHER" /\ Answer(i, "BUSY")
        \/ /\ rel \in {"SAME", "NEXT"}
           /\ \/ /\ blob.lifecycle \in {"RELEASE_INTENT", "RELEASED", "LOST"}
                 /\ Answer(i, "REPLAY_REJECTED")
              \/ /\ blob.lifecycle = "ACQUIRE_INTENT"
                 /\ Goto(i, "start", mine, etag, TRUE)
              \/ /\ blob.lifecycle \in {"ACQUIRE_IN_FLIGHT", "HELD"}
                 /\ Goto(i, "probe", blob, etag, TRUE)
     /\ Read

\* _start_acquire: the write-ahead marker of the acquire.
Start(i) ==
  LET st == Transition(call[i].st, "ACQUIRE_IN_FLIGHT")
  IN /\ call[i].pc = "start"
     /\ SetMetadata(i, st, NoLease, Goto(i, "dispatch", st, etag', call[i].resumed))

\* _dispatch_acquire: the request carries no ETag.  The service may answer an
\* acquire with the id that already holds the lease by 201 or by 409.
Dispatch(i) ==
  LET c == call[i]
      Taken == Goto(i, "hold", c.st, etag', c.resumed)
  IN /\ c.pc = "dispatch"
     /\ \/ Exchange(i, Request("acquire", c.st, 0, c.st.id), Taken,
                    Answer(i, "BUSY"), "INDETERMINATE_AFTER_CRASH")
        \/ /\ lease = c.st.id
           /\ Read
           /\ Taken

Hold(i) ==
  LET c == call[i]
  IN /\ c.pc = "hold"
     /\ SetMetadata(i, Transition(c.st, "HELD"), c.st.id,
                    Answer(i, IF c.resumed THEN "ALREADY_ACQUIRED" ELSE "ACQUIRED"))

-----------------------------------------------------------------------------
(* The conditional HEAD of _probe_lease, and what each operation makes of it. *)

Classify(c) ==
  IF c.etag # etag THEN "CHANGED"
  ELSE IF lease = NoLease THEN "NOT_PRESENT"
  ELSE IF lease = c.st.id THEN "HELD"
  ELSE "FOREIGN"

\* Mutant: an acquire in flight whose lease is absent is never sent again.
AcquireProbeGivesUp(i) ==
  LET c     == call[i]
      class == Classify(c)
      mine  == IF Relationship(c.st, c) = "NEXT" THEN ForCommand(c.st, c) ELSE c.st
  IN /\ c.pc = "probe" /\ ActionOf[c.ticket] = "acquire"
     /\ \/ class = "FOREIGN" /\ Answer(i, "BUSY")
        \/ class = "HELD" /\ c.st.lifecycle = "HELD" /\ Answer(i, "ALREADY_ACQUIRED")
        \/ class = "HELD" /\ c.st.lifecycle # "HELD" /\ Goto(i, "hold", mine, c.etag, TRUE)
        \/ class \in {"CHANGED", "NOT_PRESENT"} /\ Answer(i, "INDETERMINATE_AFTER_CRASH")
     /\ Read

\* _reconcile_acquire, and the confirmation of a lease recorded as held.
AcquireProbe(i) ==
  LET c     == call[i]
      class == Classify(c)
      mine  == IF Relationship(c.st, c) = "NEXT" THEN ForCommand(c.st, c) ELSE c.st
  IN /\ c.pc = "probe" /\ ActionOf[c.ticket] = "acquire"
     /\ \/ class = "FOREIGN" /\ Answer(i, "BUSY")
        \/ class = "CHANGED" /\ Answer(i, "INDETERMINATE_AFTER_CRASH")
        \/ /\ c.st.lifecycle = "HELD"
           /\ \/ class = "HELD" /\ Answer(i, "ALREADY_ACQUIRED")
              \/ class = "NOT_PRESENT" /\ Answer(i, "INDETERMINATE_AFTER_CRASH")
        \/ /\ c.st.lifecycle = "ACQUIRE_IN_FLIGHT"
           /\ \/ class = "HELD" /\ Goto(i, "hold", mine, c.etag, TRUE)
              \/ class = "NOT_PRESENT" /\ Goto(i, "dispatch", mine, c.etag, TRUE)
     /\ Read

AssertLoad(i) ==
  LET c   == call[i]
      rel == Relationship(blob, c)
  IN /\ c.pc = "load" /\ ActionOf[c.ticket] = "assert"
     /\ \/ blob = NoBlob /\ Answer(i, "NOT_ACQUIRED")
        \/ /\ blob # NoBlob
           /\ \/ rel = "REPLAY" /\ Answer(i, "REPLAY_REJECTED")
              \/ rel = "OTHER" /\ Answer(i, "NOT_ACQUIRED")
              \/ /\ rel \in {"SAME", "NEXT"}
                 /\ \/ blob.lifecycle = "ACQUIRE_INTENT" /\ Answer(i, "NOT_ACQUIRED")
                    \/ blob.lifecycle \in Terminal /\ Answer(i, "LOST")
                    \/ /\ blob.lifecycle = "RELEASE_INTENT" /\ rel = "NEXT"
                       /\ Answer(i, "REPLAY_REJECTED")
                    \/ /\ blob.lifecycle \in {"ACQUIRE_IN_FLIGHT", "HELD", "RELEASE_INTENT"}
                       /\ ~(blob.lifecycle = "RELEASE_INTENT" /\ rel = "NEXT")
                       /\ Goto(i, "probe", blob, etag, FALSE)
     /\ Read

\* The state an assertion records: the new ticket, and HELD for an acquire that
\* was still in flight.
Asserted(c) ==
  LET mine == IF Relationship(c.st, c) = "NEXT" THEN ForCommand(c.st, c) ELSE c.st
  IN IF c.st.lifecycle = "ACQUIRE_IN_FLIGHT" THEN Transition(mine, "HELD") ELSE mine

AssertProbe(i) ==
  LET c     == call[i]
      class == Classify(c)
  IN /\ c.pc = "probe" /\ ActionOf[c.ticket] = "assert"
     /\ \/ class = "HELD" /\ Asserted(c) = c.st /\ Answer(i, "HELD")
        \/ class = "HELD" /\ Asserted(c) # c.st
           /\ Goto(i, "update", Asserted(c), c.etag, FALSE)
        \/ /\ class # "HELD" /\ c.st.lifecycle = "ACQUIRE_IN_FLIGHT"
           /\ Answer(i, "INDETERMINATE_AFTER_CRASH")
        \/ /\ class = "NOT_PRESENT" /\ c.st.lifecycle # "ACQUIRE_IN_FLIGHT"
           /\ Goto(i, "lose", c.st, c.etag, FALSE)
        \/ /\ class \in {"FOREIGN", "CHANGED"} /\ c.st.lifecycle # "ACQUIRE_IN_FLIGHT"
           /\ Answer(i, "LOST")
     /\ Read

Update(i) ==
  /\ call[i].pc = "update"
  /\ SetMetadata(i, call[i].st, call[i].st.id, Answer(i, "HELD"))

\* The lease of the recorded state is gone: LOST is recorded before it is told.
Lose(i) ==
  /\ call[i].pc = "lose"
  /\ SetMetadata(i, Transition(call[i].st, "LOST"), NoLease, Answer(i, "LOST"))

-----------------------------------------------------------------------------
(* release *)

ReleaseLoad(i) ==
  LET c   == call[i]
      rel == Relationship(blob, c)
  IN /\ c.pc = "load" /\ ActionOf[c.ticket] = "release"
     /\ \/ blob = NoBlob /\ Answer(i, "NOT_ACQUIRED")
        \/ /\ blob # NoBlob
           /\ \/ rel = "REPLAY" /\ Answer(i, "REPLAY_REJECTED")
              \/ rel = "OTHER" /\ Answer(i, "NOT_ACQUIRED")
              \/ /\ rel \in {"SAME", "NEXT"}
                 /\ \/ blob.lifecycle = "ACQUIRE_INTENT" /\ Answer(i, "NOT_ACQUIRED")
                    \/ blob.lifecycle = "RELEASED" /\ Answer(i, "ALREADY_RELEASED")
                    \/ blob.lifecycle = "LOST" /\ Answer(i, "LOST")
                    \/ /\ blob.lifecycle \in {"ACQUIRE_IN_FLIGHT", "HELD", "RELEASE_INTENT"}
                       /\ Goto(i, "probe", blob, etag, FALSE)
     /\ Read

\* Mutant: an absent lease is taken for a released one.
ReleaseProbeInfers(i) ==
  LET c     == call[i]
      class == Classify(c)
  IN /\ c.pc = "probe" /\ ActionOf[c.ticket] = "release"
     /\ \/ class \in {"FOREIGN", "CHANGED"} /\ Answer(i, "LOST")
        \/ class = "NOT_PRESENT" /\ Goto(i, "finish", c.st, c.etag, FALSE)
        \/ class = "HELD" /\ Goto(i, "intent", ForCommand(c.st, c), c.etag, FALSE)
     /\ Read

ReleaseProbe(i) ==
  LET c     == call[i]
      class == Classify(c)
  IN /\ c.pc = "probe" /\ ActionOf[c.ticket] = "release"
     /\ \/ class \in {"FOREIGN", "CHANGED"} /\ Answer(i, "LOST")
        \/ class = "NOT_PRESENT" /\ Goto(i, "lose", c.st, c.etag, FALSE)
        \/ /\ class = "HELD"
           /\ \/ /\ c.st.lifecycle \in {"ACQUIRE_IN_FLIGHT", "HELD"}
                 /\ Goto(i, "intent", ForCommand(c.st, c), c.etag, FALSE)
              \/ /\ c.st.lifecycle = "RELEASE_INTENT"
                 /\ Goto(i, "release", c.st, c.etag, FALSE)
     /\ Read

\* Mutant: the terminal state is recorded before the lease is released.
ReleaseIntentIsFinal(i) ==
  LET st == Transition(call[i].st, "RELEASED")
  IN /\ call[i].pc = "intent"
     /\ SetMetadata(i, st, st.id, Goto(i, "release", st, etag', FALSE))

ReleaseIntent(i) ==
  LET st == Transition(call[i].st, "RELEASE_INTENT")
  IN /\ call[i].pc = "intent"
     /\ SetMetadata(i, st, st.id, Goto(i, "release", st, etag', FALSE))

Release(i) ==
  LET c == call[i]
  IN /\ c.pc = "release"
     /\ Exchange(i, Request("release", c.st, 0, c.st.id),
                 Goto(i, "finish", c.st, etag', FALSE),
                 Answer(i, "INDETERMINATE_AFTER_CRASH"), "INDETERMINATE_AFTER_CRASH")

Finish(i) ==
  /\ call[i].pc = "finish"
  /\ SetMetadata(i, Transition(call[i].st, "RELEASED"), NoLease, Answer(i, "RELEASED"))

-----------------------------------------------------------------------------
(* What can go wrong around a call. *)

Fault == faults < MaxFaults /\ faults' = faults + 1

\* No token, or a read that fails: nothing has been sent that could have an
\* effect.  Only acquire's first two writes and release's intent tell a missing
\* token from a lost answer.
Unavailable(i) ==
  /\ call[i].pc # "idle"
  /\ Fault
  /\ Answer(i, IF call[i].pc \in {"create", "load", "start", "probe", "intent"}
                THEN "RETRYABLE_FAILURE" ELSE "INDETERMINATE_AFTER_CRASH")
  /\ UNCHANGED <<blob, etag, lease, late, calls, freed, meddled>>

\* The process ends in the middle of a call; its caller gets no answer.
Crash(i) ==
  /\ call[i].pc # "idle"
  /\ Fault
  /\ Answer(i, "none")
  /\ UNCHANGED <<blob, etag, lease, late, calls, freed, meddled>>

\* The service executes a request whose caller no longer waits for it.
ExecuteLate(q) ==
  /\ Accepts(q)
  /\ Effect(q)
  /\ late' = late \ {q}
  /\ UNCHANGED <<call, calls, faults>>

\* Somebody outside the broker breaks the lease or takes it over.
Outside ==
  /\ blob # NoBlob
  /\ Fault
  /\ \E other \in {NoLease, Foreign} : lease # other /\ lease' = other
  /\ meddled' = TRUE
  /\ UNCHANGED <<blob, etag, late, call, calls, freed>>

-----------------------------------------------------------------------------
BrokerInit ==
  /\ blob = NoBlob /\ etag = 0 /\ lease = NoLease /\ late = {}
  /\ calls = 0 /\ faults = 0 /\ freed = FALSE /\ meddled = FALSE
  /\ call = [i \in Instances |-> Idle]

Serve(i) ==
  \/ Create(i) \/ AcquireLoad(i) \/ Start(i) \/ Dispatch(i) \/ Hold(i)
  \/ AcquireProbe(i)
  \/ AssertLoad(i) \/ AssertProbe(i) \/ Update(i) \/ Lose(i)
  \/ ReleaseLoad(i) \/ ReleaseProbe(i) \/ ReleaseIntent(i) \/ Release(i) \/ Finish(i)

Disturb ==
  \/ \E i \in Instances : Unavailable(i) \/ Crash(i)
  \/ \E q \in late : ExecuteLate(q)
  \/ Outside

\* Callers present any ticket at any instance.
Invoke(i) ==
  /\ calls < MaxCalls
  /\ calls' = calls + 1
  /\ \E run \in Runs, t \in Tickets :
       IF ActionOf[t] = "acquire"
       THEN \E id \in FreshIds : Begin(i, run, t, id)
       ELSE Begin(i, run, t, NoLease)

BrokerNext ==
  \/ \E i \in Instances : Invoke(i) \/ Serve(i)
  \/ Disturb

BrokerSpec == BrokerInit /\ [][BrokerNext]_brokerVars

-----------------------------------------------------------------------------
(* Properties *)

\* The durable marker comes before the acquire (azure_performance_lease_broker_
\* storage.py _start_acquire): the broker's lease exists, or a request for it is
\* on its way, only under the private id recorded when the blob was created,
\* whoever retried, and only once the blob says ACQUIRE_IN_FLIGHT or more.
LeaseIsRecorded ==
  LET ids == ({lease} \cap LeaseIds) \cup {q.header : q \in {q \in late : q.kind = "acquire"}}
             \cup {call[i].st.id : i \in {i \in Instances : call[i].pc = "dispatch"}}
  IN \A id \in ids :
       /\ blob # NoBlob
       /\ id = blob.id
       /\ blob.lifecycle # "ACQUIRE_INTENT"

\* A grant is durable before it is told: whoever was answered ACQUIRED,
\* ALREADY_ACQUIRED or HELD belongs to the run that owns the blob, and the blob
\* had recorded HELD by then.
GrantIsDurable ==
  \A i \in Instances :
    call[i].pc = "idle" /\ call[i].out \in {"ACQUIRED", "ALREADY_ACQUIRED", "HELD"} =>
      /\ blob # NoBlob
      /\ blob.run = call[i].run
      /\ blob.lifecycle \notin {"ACQUIRE_INTENT", "ACQUIRE_IN_FLIGHT"}

\* RELEASED is never inferred from an absent lease: it is recorded, and told,
\* only after a release request of the broker really ended the broker's lease.
ReleasedWasReleased ==
  \/ freed
  \/ /\ blob # NoBlob => blob.lifecycle # "RELEASED"
     /\ \A i \in Instances : call[i].out \notin {"RELEASED", "ALREADY_RELEASED"}

\* A terminal lifecycle is only recorded while nobody holds the lease.
TerminalRecordsFreeLease ==
  [][ (blob' # NoBlob /\ blob'.lifecycle \in Terminal /\ blob' # blob)
      => lease' = NoLease ]_brokerVars

\* The documentation calls RELEASED and LOST terminal and forbids an automatic
\* reacquire in the broker: a terminal lifecycle is never left.
TerminalIsFinal ==
  [][ (blob # NoBlob /\ blob.lifecycle \in Terminal) => blob'.lifecycle = blob.lifecycle ]_brokerVars

=============================================================================
