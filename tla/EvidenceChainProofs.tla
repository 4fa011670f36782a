------------------------ MODULE EvidenceChainProofs ------------------------
(***************************************************************************)
(* Proofs about EvidenceChain for every set of principals and every set of *)
(* callers: what verify_chain calls complete is final, an uncertain write  *)
(* needs two people, and only two people can leave a chain stuck.          *)
(***************************************************************************)
EXTENDS EvidenceChain, TLAPS

-----------------------------------------------------------------------------
(* Complete chains. *)

\* The phase at a position is the phase of the event there.
LEMMA PhaseAt ==
  ASSUME NEW c \in Seq(Events), NEW n \in Nat, DOMAIN Phases(c) = 1 .. n
  PROVE  /\ Len(c) = n
         /\ \A i \in 1 .. n : c[i].phase = Phases(c)[i]
<1>1. Len(c) \in Nat
  OBVIOUS
<1>2. DOMAIN Phases(c) = 1 .. Len(c)
  BY DEF Phases
<1>3. Len(c) = n
  BY <1>1, <1>2
<1> QED BY <1>3 DEF Phases

\* A chain that is complete as a normal write.
LEMMA NormalChain ==
  ASSUME NEW c \in Seq(Events), Phases(c) = NormalPhaseOrder
  PROVE  /\ Len(c) = 3
         /\ c[1].phase = "intent" /\ c[2].phase = "outcome" /\ c[3].phase = "readback"
<1>1. DOMAIN Phases(c) = 1 .. 3
  BY DEF NormalPhaseOrder
<1>2. Len(c) = 3 /\ \A i \in 1 .. 3 : c[i].phase = Phases(c)[i]
  BY <1>1, PhaseAt
<1> QED BY <1>2 DEF NormalPhaseOrder

\* A chain with a declared reconciliation order ends with a readback and a
\* closure, and a requirement comes before both.
LEMMA ReconciledChain ==
  ASSUME NEW c \in Seq(Events), Phases(c) \in ReconciliationPhaseOrders
  PROVE  /\ Len(c) \in {5, 6, 7}
         /\ Last(c).phase = "reconciliation_closed"
         /\ c[Len(c) - 1].phase = "readback"
         /\ \E i \in 3 .. Len(c) - 2 : c[i].phase = "reconciliation_required"
<1> DEFINE o1 == <<"intent", "outcome", "reconciliation_required", "readback",
                   "reconciliation_closed">>
           o2 == <<"intent", "outcome", "readback", "reconciliation_required",
                   "readback", "reconciliation_closed">>
           o3 == <<"intent", "outcome", "reconciliation_required", "readback",
                   "reconciliation_closed", "readback", "reconciliation_closed">>
<1>1. CASE Phases(c) = o1
  <2>1. DOMAIN Phases(c) = 1 .. 5
    BY <1>1
  <2> HIDE DEF o1
  <2>2. Len(c) = 5 /\ \A i \in 1 .. 5 : c[i].phase = Phases(c)[i]
    BY <2>1, PhaseAt
  <2>3. c[3].phase = o1[3] /\ c[4].phase = o1[4] /\ c[5].phase = o1[5]
    BY <1>1, <2>2
  <2>4. /\ o1[3] = "reconciliation_required" /\ o1[4] = "readback"
        /\ o1[5] = "reconciliation_closed"
    BY DEF o1
  <2> QED BY <2>2, <2>3, <2>4 DEF Last
<1>2. CASE Phases(c) = o2
  <2>1. DOMAIN Phases(c) = 1 .. 6
    BY <1>2
  <2> HIDE DEF o2
  <2>2. Len(c) = 6 /\ \A i \in 1 .. 6 : c[i].phase = Phases(c)[i]
    BY <2>1, PhaseAt
  <2>3. c[4].phase = o2[4] /\ c[5].phase = o2[5] /\ c[6].phase = o2[6]
    BY <1>2, <2>2
  <2>4. /\ o2[4] = "reconciliation_required" /\ o2[5] = "readback"
        /\ o2[6] = "reconciliation_closed"
    BY DEF o2
  <2> QED BY <2>2, <2>3, <2>4 DEF Last
<1>3. CASE Phases(c) = o3
  <2>1. DOMAIN Phases(c) = 1 .. 7
    BY <1>3
  <2> HIDE DEF o3
  <2>2. Len(c) = 7 /\ \A i \in 1 .. 7 : c[i].phase = Phases(c)[i]
    BY <2>1, PhaseAt
  <2>3. c[3].phase = o3[3] /\ c[6].phase = o3[6] /\ c[7].phase = o3[7]
    BY <1>3, <2>2
  <2>4. /\ o3[3] = "reconciliation_required" /\ o3[6] = "readback"
        /\ o3[7] = "reconciliation_closed"
    BY DEF o3
  <2> QED BY <2>2, <2>3, <2>4 DEF Last
<1> QED BY <1>1, <1>2, <1>3 DEF ReconciliationPhaseOrders

\* Only a chain of one event has the phases of one.
LEMMA OneEvent ==
  ASSUME NEW c \in Seq(Events), Phases(c) = <<"intent">>
  PROVE  Len(c) = 1 /\ c[1].phase = "intent"
<1>1. DOMAIN Phases(c) = 1 .. 1
  OBVIOUS
<1>2. Len(c) = 1 /\ \A i \in 1 .. 1 : c[i].phase = Phases(c)[i]
  BY <1>1, PhaseAt
<1> QED BY <1>2

\* A complete chain accepts no event of any phase.
LEMMA CompleteIsFinal ==
  ASSUME NEW c \in Seq(Events), Complete(c), NEW e \in Events
  PROVE  ~Transition(c, e)
<1>1. CASE Phases(c) = NormalPhaseOrder /\ c[3].code \in SuccessReadbackCodes
  <2>1. /\ Len(c) = 3
        /\ c[1].phase = "intent" /\ c[2].phase = "outcome" /\ c[3].phase = "readback"
    BY <1>1, NormalChain
  <2>2. Phases(c) # <<"intent">>
    BY <2>1, OneEvent
  <2>3. ~ReadbackAllowed(c)
    BY <2>1 DEF ReadbackAllowed, Last
  <2>4. ~RequirementAllowed(c, e)
    BY <1>1, <2>1 DEF RequirementAllowed, Last, SuccessReadbackCodes
  <2>5. ~ClosureAllowed(c, e)
    BY <2>1 DEF ClosureAllowed
  <2> QED BY <2>1, <2>2, <2>3, <2>4, <2>5 DEF Transition, Allowed
<1>2. CASE Phases(c) \in ReconciliationPhaseOrders /\ Last(c).code = "reconciled"
  <2>1. Len(c) \in {5, 6, 7} /\ Last(c).phase = "reconciliation_closed"
    BY <1>2, ReconciledChain
  <2>2. Phases(c) # <<"intent">>
    BY <2>1, OneEvent
  <2>3. ~ReadbackAllowed(c) /\ ~RequirementAllowed(c, e) /\ ~ClosureAllowed(c, e)
    BY <1>2, <2>1 DEF ReadbackAllowed, RequirementAllowed, ClosureAllowed
  <2>4. Len(c) # 0
    BY <2>1
  <2> QED BY <2>2, <2>3, <2>4, Zenon DEF Transition, Allowed
<1> QED BY <1>1, <1>2 DEF Complete

-----------------------------------------------------------------------------
(* Chains and the declared orders. *)

PhaseNames == {"intent", "outcome", "readback", "reconciliation_required",
               "reconciliation_closed"}

\* The events of c have the first phases of an order.
Follows(c, order) ==
  Len(c) <= Len(order) /\ \A i \in 1 .. Len(c) : c[i].phase = order[i]

\* The declared orders are sequences of phases.
LEMMA OrdersAreSequences == \A order \in LegalPhaseOrders : order \in Seq(PhaseNames)
<1>1. NormalPhaseOrder \in Seq(PhaseNames)
  BY DEF NormalPhaseOrder, PhaseNames
<1>2. <<"intent", "outcome", "reconciliation_required", "readback",
        "reconciliation_closed">> \in Seq(PhaseNames)
  BY DEF PhaseNames
<1>3. <<"intent", "outcome", "readback", "reconciliation_required", "readback",
        "reconciliation_closed">> \in Seq(PhaseNames)
  BY DEF PhaseNames
<1>4. <<"intent", "outcome", "reconciliation_required", "readback",
        "reconciliation_closed", "readback", "reconciliation_closed">> \in Seq(PhaseNames)
  BY DEF PhaseNames
<1> QED BY <1>1, <1>2, <1>3, <1>4, Zenon DEF LegalPhaseOrders, ReconciliationPhaseOrders

\* DeclaredPrefix, which compares subsequences, says the same position by
\* position.
LEMMA PrefixIsFollows ==
  ASSUME NEW c \in Seq(Events)
  PROVE  DeclaredPrefix(Phases(c)) <=> \E order \in LegalPhaseOrders : Follows(c, order)
<1>1. Len(c) \in Nat /\ Len(Phases(c)) = Len(c)
  BY DEF Phases
<1>2. ASSUME NEW order \in LegalPhaseOrders, Len(c) <= Len(order)
      PROVE  SubSeq(order, 1, Len(c)) = Phases(c)
               <=> \A i \in 1 .. Len(c) : c[i].phase = order[i]
  <2>1. order \in Seq(PhaseNames) /\ Len(c) \in 0 .. Len(order)
    BY <1>1, <1>2, OrdersAreSequences
  <2>2. SubSeq(order, 1, Len(c)) = [i \in 1 .. Len(c) |-> order[i]]
    BY <2>1
  <2> QED BY <2>2 DEF Phases
<1> QED BY <1>1, <1>2 DEF DeclaredPrefix, Follows

\* What the rules keep true of a chain: it follows a declared order, a readback
\* right after an outcome means that the outcome was not uncertain, and a
\* closure says "reconciled" only of a successful readback.
ChainShape(c) ==
  /\ c \in Seq(Events)
  /\ Len(c) > 0 => \E order \in LegalPhaseOrders : Follows(c, order)
  /\ Len(c) >= 3 /\ c[3].phase = "readback" => c[2].code # UncertainOutcomeCode
  /\ Len(c) >= 5 /\ Last(c).phase = "reconciliation_closed" /\ Last(c).code = "reconciled"
       => c[Len(c) - 1].code \in SuccessReadbackCodes

\* Every event that the rules accept keeps the shape.
LEMMA TransitionKeepsShape ==
  ASSUME NEW c, ChainShape(c), NEW e \in Events, Transition(c, e)
  PROVE  ChainShape(Append(c, e))
<1> DEFINE d == Append(c, e)
<1>1. c \in Seq(Events) /\ Len(c) \in Nat
  BY DEF ChainShape
<1>2. /\ d \in Seq(Events)
      /\ Len(d) = Len(c) + 1
      /\ \A i \in 1 .. Len(c) : d[i] = c[i]
      /\ d[Len(c) + 1] = e
  BY <1>1
<1> HIDE DEF d
<1>3. \E order \in LegalPhaseOrders : Follows(d, order)
  <2>1. DeclaredPrefix(Phases(d))
    BY DEF Transition, d
  <2> QED BY <1>2, <2>1, PrefixIsFollows
<1>4. Allowed(c, e)
  BY DEF Transition
<1>5. Phases(c) = <<"intent">> => Len(c) = 1
  BY <1>1, OneEvent
<1>6. ASSUME Len(d) >= 3, d[3].phase = "readback" PROVE d[2].code # UncertainOutcomeCode
  <2>1. CASE Len(c) >= 3
    <3>1. d[3] = c[3] /\ d[2] = c[2]
      BY <1>1, <1>2, <2>1
    <3> QED BY <1>6, <2>1, <3>1 DEF ChainShape
  <2>2. CASE Len(c) = 2
    <3>1. d[3] = e /\ d[2] = c[2] /\ Last(c) = c[2]
      BY <1>2, <2>2 DEF Last
    <3>2. PICK order \in LegalPhaseOrders : Follows(c, order)
      BY <1>1, <2>2 DEF ChainShape
    <3>3. order[2] = "outcome"
      BY DEF LegalPhaseOrders, NormalPhaseOrder, ReconciliationPhaseOrders
    <3>4. c[2].phase = "outcome"
      BY <2>2, <3>2, <3>3 DEF Follows
    <3>5. ReadbackAllowed(c)
      BY <1>4, <1>5, <1>6, <2>2, <3>1 DEF Allowed
    <3> QED BY <3>1, <3>4, <3>5 DEF ReadbackAllowed
  <2>3. Len(c) >= 3 \/ Len(c) = 2
    <3>1. Len(c) \in Nat /\ Len(d) = Len(c) + 1
      BY <1>1, <1>2
    <3>2. Len(c) + 1 >= 3
      BY <1>6, <3>1
    <3>3. \A n \in Nat : n + 1 >= 3 => n >= 3 \/ n = 2
      OBVIOUS
    <3> QED BY <3>1, <3>2, <3>3
  <2> QED BY <2>1, <2>2, <2>3
<1>7. ASSUME Len(d) >= 5, Last(d).phase = "reconciliation_closed", Last(d).code = "reconciled"
      PROVE  d[Len(d) - 1].code \in SuccessReadbackCodes
  <2>1. Last(d) = e /\ d[Len(d) - 1] = Last(c)
    BY <1>1, <1>2, <1>7 DEF Last
  <2>2. ClosureAllowed(c, e)
    BY <1>1, <1>2, <1>4, <1>5, <1>7, <2>1 DEF Allowed
  <2> QED BY <1>7, <2>1, <2>2 DEF ClosureAllowed
<1> QED BY <1>2, <1>3, <1>6, <1>7 DEF ChainShape, d

\* The rules and the orders agree: an event of the next phase of an order that c
\* follows is accepted as soon as the rule of its phase accepts it.
LEMMA NextOfOrder ==
  ASSUME NEW c \in Seq(Events), NEW e \in Events, NEW order \in LegalPhaseOrders,
         Follows(c, order), Len(c) < Len(order), e.phase = order[Len(c) + 1],
         Allowed(c, e)
  PROVE  Transition(c, e)
<1> DEFINE d == Append(c, e)
<1>1. /\ d \in Seq(Events) /\ Len(c) \in Nat
      /\ Len(d) = Len(c) + 1
      /\ \A i \in 1 .. Len(c) : d[i] = c[i]
      /\ d[Len(c) + 1] = e
  OBVIOUS
<1> HIDE DEF d
<1>2. Len(order) \in Nat
  BY OrdersAreSequences
<1>3. Follows(d, order)
  BY <1>1, <1>2 DEF Follows
<1>4. DeclaredPrefix(Phases(d))
  BY <1>1, <1>3, PrefixIsFollows
<1> QED BY <1>4 DEF Transition, d

\* What the declared orders have in common.
LEMMA OrderSteps ==
  ASSUME NEW order \in LegalPhaseOrders
  PROVE  /\ Len(order) \in 3 .. 7
         /\ order[1] = "intent" /\ order[2] = "outcome"
         /\ \A n \in 3 .. Len(order) :
              /\ order[n] \in {"readback", "reconciliation_required", "reconciliation_closed"}
              /\ order[n] = "reconciliation_required" =>
                   n < Len(order) /\ order[n + 1] = "readback"
              /\ order[n] = "readback" =>
                   \/ n = 3
                   \/ /\ n < Len(order) /\ order[n + 1] = "reconciliation_closed"
                      /\ \E i \in 3 .. n : order[i] = "reconciliation_required"
              /\ order[n] = "reconciliation_closed" =>
                   \E r \in ReconciliationPhaseOrders :
                     Len(r) = n /\ \A i \in 1 .. n : r[i] = order[i]
<1> DEFINE o1 == <<"intent", "outcome", "reconciliation_required", "readback",
                   "reconciliation_closed">>
           o2 == <<"intent", "outcome", "readback", "reconciliation_required",
                   "readback", "reconciliation_closed">>
           o3 == <<"intent", "outcome", "reconciliation_required", "readback",
                   "reconciliation_closed", "readback", "reconciliation_closed">>
<1>1. CASE order = NormalPhaseOrder
  BY <1>1 DEF NormalPhaseOrder
<1>2. CASE order = o1
  <2>1. Len(order) = 5 /\ o1 \in ReconciliationPhaseOrders
    BY <1>2 DEF ReconciliationPhaseOrders
  <2>2. \A n \in 3 .. 5 : n = 3 \/ n = 4 \/ n = 5
    OBVIOUS
  <2>3. /\ order[3] = "reconciliation_required" /\ order[4] = "readback"
        /\ order[5] = "reconciliation_closed"
    BY <1>2
  <2>4. order[1] = "intent" /\ order[2] = "outcome"
    BY <1>2
  <2> HIDE DEF o1
  <2> QED BY <1>2, <2>1, <2>2, <2>3, <2>4
<1>3. CASE order = o2
  <2>1. Len(order) = 6 /\ o2 \in ReconciliationPhaseOrders
    BY <1>3 DEF ReconciliationPhaseOrders
  <2>2. \A n \in 3 .. 6 : n = 3 \/ n = 4 \/ n = 5 \/ n = 6
    OBVIOUS
  <2>3. /\ order[3] = "readback" /\ order[4] = "reconciliation_required"
        /\ order[5] = "readback" /\ order[6] = "reconciliation_closed"
    BY <1>3
  <2>4. order[1] = "intent" /\ order[2] = "outcome"
    BY <1>3
  <2> HIDE DEF o2
  <2> QED BY <1>3, <2>1, <2>2, <2>3, <2>4
<1>4. CASE order = o3
  <2>1. Len(order) = 7 /\ {o1, o3} \subseteq ReconciliationPhaseOrders
    BY <1>4 DEF ReconciliationPhaseOrders
  <2>2. \A n \in 3 .. 7 : n = 3 \/ n = 4 \/ n = 5 \/ n = 6 \/ n = 7
    OBVIOUS
  <2>3. /\ order[3] = "reconciliation_required" /\ order[4] = "readback"
        /\ order[5] = "reconciliation_closed" /\ order[6] = "readback"
        /\ order[7] = "reconciliation_closed"
    BY <1>4
  <2>4. order[1] = "intent" /\ order[2] = "outcome"
    BY <1>4
  <2>5. Len(o1) = 5 /\ \A i \in 1 .. 5 : o1[i] = order[i]
    BY <1>4
  <2> HIDE DEF o1, o3
  <2> QED BY <1>4, <2>1, <2>2, <2>3, <2>4, <2>5
<1> QED BY <1>1, <1>2, <1>3, <1>4 DEF LegalPhaseOrders, ReconciliationPhaseOrders

-----------------------------------------------------------------------------
(* The three properties of a chain with the shape. *)

\* A complete chain with an uncertain outcome shows a requirement, a successful
\* readback after it and a closure by two people.
LEMMA UncertainChain ==
  ASSUME NEW c \in Seq(Events), Complete(c), c[2].code = UncertainOutcomeCode
  PROVE  \E i, j \in 3 .. Len(c) - 1 :
           /\ i < j
           /\ c[i].phase = "reconciliation_required"
           /\ c[j].phase = "readback"
           /\ c[j].code \in SuccessReadbackCodes
           /\ Last(c).phase = "reconciliation_closed"
           /\ Last(c).operator # Last(c).approver
<1>1. /\ Phases(c) \in ReconciliationPhaseOrders
      /\ c[Len(c) - 1].code \in SuccessReadbackCodes
  BY DEF Complete, UncertainOutcomeCode
<1>2. /\ Len(c) \in {5, 6, 7}
      /\ Last(c).phase = "reconciliation_closed"
      /\ c[Len(c) - 1].phase = "readback"
      /\ \E i \in 3 .. Len(c) - 2 : c[i].phase = "reconciliation_required"
  BY <1>1, ReconciledChain
<1>3. Last(c) \in Events
  BY <1>2 DEF Last
<1>4. Last(c).operator # Last(c).approver
  BY <1>2, <1>3 DEF Events
<1>5. PICK i \in 3 .. Len(c) - 2 : c[i].phase = "reconciliation_required"
  BY <1>2
<1>6. i \in 3 .. Len(c) - 1 /\ Len(c) - 1 \in 3 .. Len(c) - 1 /\ i < Len(c) - 1
  BY <1>2, <1>5
<1> QED BY <1>1, <1>2, <1>4, <1>5, <1>6

\* The closure that can always be recorded after a readback.
LEMMA FailedClosureExists ==
  ASSUME NEW a \in Principals, NEW b \in Principals, a # b
  PROVE  \E e \in Events : e.phase = "reconciliation_closed" /\ e.code = "failed"
<1> DEFINE e == [phase |-> "reconciliation_closed", code |-> "failed", reason |-> NoCode,
                 operator |-> a, approver |-> b]
<1>1. e \in Events
  BY DEF Events
<1> QED BY <1>1

\* A chain with the shape that accepts nothing is complete or was closed as
\* failed by two people, provided that there are two people.
LEMMA StuckChain ==
  ASSUME NEW c, ChainShape(c), ~Complete(c), \A e \in Events : ~Transition(c, e),
         NEW a \in Principals, NEW b \in Principals, a # b
  PROVE  /\ Last(c).phase = "reconciliation_closed"
         /\ Last(c).code = "failed"
         /\ Last(c).operator # Last(c).approver
<1> DEFINE n == Len(c)
<1>1. c \in Seq(Events) /\ n \in Nat
  BY DEF ChainShape
<1>2. ASSUME n = 0 PROVE FALSE
  <2> DEFINE e == [phase |-> "intent", code |-> NoCode, reason |-> NoCode,
                   operator |-> Nobody, approver |-> Nobody]
  <2>1. e \in Events /\ e.phase = "intent"
    BY DEF Events
  <2> HIDE DEF e
  <2>2. NormalPhaseOrder \in LegalPhaseOrders
    BY DEF LegalPhaseOrders
  <2>3. Follows(c, NormalPhaseOrder) /\ n < Len(NormalPhaseOrder)
    BY <1>2, <2>2, OrderSteps DEF Follows
  <2>4. Allowed(c, e)
    BY <1>2, <2>1 DEF Allowed
  <2>5. e.phase = NormalPhaseOrder[n + 1]
    BY <1>2, <2>1, <2>2, OrderSteps
  <2>6. Transition(c, e)
    BY <1>1, <2>1, <2>2, <2>3, <2>4, <2>5, NextOfOrder
  <2> QED BY <2>1, <2>6
<1>3. n > 0
  BY <1>1, <1>2
<1>4. PICK order \in LegalPhaseOrders : Follows(c, order)
  BY <1>3 DEF ChainShape
<1>5. /\ Len(order) \in 3 .. 7 /\ n <= Len(order)
      /\ order[1] = "intent" /\ order[2] = "outcome"
      /\ \A i \in 1 .. n : c[i].phase = order[i] /\ c[i] \in Events
      /\ Last(c).phase = order[n] /\ Last(c) = c[n] /\ Last(c) \in Events
  BY <1>1, <1>3, <1>4, OrderSteps DEF Follows, Last
<1>6. ASSUME n = 1 PROVE FALSE
  <2> DEFINE e == [phase |-> "outcome", code |-> "failed", reason |-> NoCode,
                   operator |-> Nobody, approver |-> Nobody]
  <2>1. e \in Events /\ e.phase = "outcome"
    BY DEF Events
  <2> HIDE DEF e
  <2>2. Phases(c) = <<"intent">>
    BY <1>5, <1>6 DEF Phases
  <2>3. Allowed(c, e)
    BY <2>1, <2>2 DEF Allowed
  <2>4. n < Len(order) /\ e.phase = order[n + 1]
    BY <1>5, <1>6, <2>1
  <2>5. Transition(c, e)
    BY <1>1, <1>4, <2>1, <2>3, <2>4, NextOfOrder
  <2> QED BY <2>1, <2>5
<1>7. ASSUME n = 2, Last(c).code = UncertainOutcomeCode PROVE FALSE
  <2> DEFINE e == [phase |-> "reconciliation_required", code |-> NoCode,
                   reason |-> "provider-readback-required",
                   operator |-> Nobody, approver |-> Nobody]
             o == <<"intent", "outcome", "reconciliation_required", "readback",
                    "reconciliation_closed">>
  <2>1. e \in Events /\ e.phase = "reconciliation_required"
    BY DEF Events, ReconciliationReasons
  <2>2. o \in LegalPhaseOrders /\ o[3] = "reconciliation_required"
    BY DEF LegalPhaseOrders, ReconciliationPhaseOrders
  <2> HIDE DEF e, o
  <2>3. Follows(c, o) /\ n < Len(o)
    BY <1>5, <1>7, <2>2, OrderSteps DEF Follows
  <2>4. Last(c).phase = "outcome"
    BY <1>5, <1>7
  <2>5. Allowed(c, e)
    BY <1>7, <2>1, <2>4 DEF Allowed, RequirementAllowed
  <2>6. e.phase = o[n + 1]
    BY <1>7, <2>1, <2>2
  <2>7. Transition(c, e)
    BY <1>1, <2>1, <2>2, <2>3, <2>5, <2>6, NextOfOrder
  <2> QED BY <2>1, <2>7
<1>8. ASSUME n = 2, Last(c).code # UncertainOutcomeCode PROVE FALSE
  <2> DEFINE e == [phase |-> "readback", code |-> "failed", reason |-> NoCode,
                   operator |-> Nobody, approver |-> Nobody]
  <2>1. e \in Events /\ e.phase = "readback"
    BY DEF Events
  <2>2. NormalPhaseOrder \in LegalPhaseOrders /\ NormalPhaseOrder[3] = "readback"
    BY DEF LegalPhaseOrders, NormalPhaseOrder
  <2> HIDE DEF e
  <2>3. Follows(c, NormalPhaseOrder) /\ n < Len(NormalPhaseOrder)
    BY <1>5, <1>8, <2>2, OrderSteps DEF Follows
  <2>4. Last(c).phase = "outcome"
    BY <1>5, <1>8
  <2>5. Allowed(c, e)
    BY <1>8, <2>1, <2>4 DEF Allowed, ReadbackAllowed
  <2>6. e.phase = NormalPhaseOrder[n + 1]
    BY <1>8, <2>1, <2>2
  <2>7. Transition(c, e)
    BY <1>1, <2>1, <2>2, <2>3, <2>5, <2>6, NextOfOrder
  <2> QED BY <2>1, <2>7
<1>9. n >= 3
  <2>1. n # 1 /\ n # 2
    BY <1>6, <1>7, <1>8
  <2>2. \A m \in Nat : m > 0 /\ m # 1 /\ m # 2 => m >= 3
    OBVIOUS
  <2> QED BY <1>1, <1>3, <2>1, <2>2
<1>10. /\ n \in 3 .. Len(order)
       /\ order[n] \in {"readback", "reconciliation_required", "reconciliation_closed"}
  BY <1>1, <1>5, <1>9, OrderSteps
<1>11. ASSUME order[n] = "reconciliation_required" PROVE FALSE
  <2> DEFINE e == [phase |-> "readback", code |-> "failed", reason |-> NoCode,
                   operator |-> Nobody, approver |-> Nobody]
  <2>1. e \in Events /\ e.phase = "readback"
    BY DEF Events
  <2> HIDE DEF e
  <2>2. n < Len(order) /\ order[n + 1] = "readback"
    BY <1>10, <1>11, OrderSteps
  <2>3. Allowed(c, e)
    BY <1>5, <1>9, <1>11, <2>1 DEF Allowed, ReadbackAllowed
  <2>4. Transition(c, e)
    BY <1>1, <1>4, <2>1, <2>2, <2>3, NextOfOrder
  <2> QED BY <2>1, <2>4
<1>12. ASSUME order[n] = "readback", NEW i \in 3 .. n, order[i] = "reconciliation_required",
              n < Len(order), order[n + 1] = "reconciliation_closed"
       PROVE  FALSE
  <2>1. PICK e \in Events : e.phase = "reconciliation_closed" /\ e.code = "failed"
    BY FailedClosureExists
  <2>2. i \in 1 .. Len(c) /\ c[i].phase = "reconciliation_required"
    BY <1>1, <1>5, <1>12
  <2>3. ClosureAllowed(c, e)
    BY <1>5, <1>12, <2>1, <2>2 DEF ClosureAllowed
  <2>4. Allowed(c, e)
    BY <1>9, <2>1, <2>3 DEF Allowed
  <2>5. Transition(c, e)
    BY <1>1, <1>4, <1>12, <2>1, <2>4, NextOfOrder
  <2> QED BY <2>1, <2>5
<1>13. ASSUME order[n] = "readback", n = 3 PROVE FALSE
  <2>1. /\ c[1].phase = "intent" /\ c[2].phase = "outcome" /\ c[3].phase = "readback"
        /\ c[2] \in Events /\ c[3] \in Events
    BY <1>5, <1>13
  <2>2. c[2].code \in {"confirmed", "failed"}
    <3>1. c[2].code # UncertainOutcomeCode
      BY <1>13, <2>1 DEF ChainShape
    <3> QED BY <2>1, <3>1 DEF Events
  <2>3. Phases(c) = NormalPhaseOrder
    BY <1>13, <2>1 DEF Phases, NormalPhaseOrder
  <2>4. c[3].code = "failed"
    <3>1. c[3].code \notin SuccessReadbackCodes
      BY <2>2, <2>3 DEF Complete
    <3>2. c[3].code \in SuccessReadbackCodes \cup {"failed"}
      BY <2>1 DEF Events
    <3> QED BY <3>1, <3>2
  <2> DEFINE e == [phase |-> "reconciliation_required", code |-> NoCode,
                   reason |-> "provider-readback-required",
                   operator |-> Nobody, approver |-> Nobody]
             o == <<"intent", "outcome", "readback", "reconciliation_required",
                    "readback", "reconciliation_closed">>
  <2>5. /\ e \in Events /\ e.phase = "reconciliation_required"
        /\ e.reason = "provider-readback-required"
    BY DEF Events, ReconciliationReasons
  <2>6. /\ o \in LegalPhaseOrders /\ Len(o) = 6
        /\ o[1] = "intent" /\ o[2] = "outcome" /\ o[3] = "readback"
        /\ o[4] = "reconciliation_required"
    BY DEF LegalPhaseOrders, ReconciliationPhaseOrders
  <2> HIDE DEF e, o
  <2>7. Follows(c, o) /\ n < Len(o) /\ e.phase = o[n + 1]
    BY <1>13, <2>1, <2>5, <2>6 DEF Follows
  <2>8. RequirementAllowed(c, e)
    BY <1>5, <1>13, <2>1, <2>4, <2>5 DEF RequirementAllowed
  <2>9. Allowed(c, e)
    BY <1>9, <2>5, <2>8 DEF Allowed
  <2>10. Transition(c, e)
    BY <1>1, <2>5, <2>6, <2>7, <2>9, NextOfOrder
  <2> QED BY <2>5, <2>10
<1>14. order[n] = "reconciliation_closed"
  <2>1. order[n] # "readback"
    <3> SUFFICES ASSUME order[n] = "readback" PROVE FALSE
      OBVIOUS
    <3>1. n = 3 \/ /\ n < Len(order) /\ order[n + 1] = "reconciliation_closed"
                   /\ \E i \in 3 .. n : order[i] = "reconciliation_required"
      BY <1>10, OrderSteps
    <3> QED BY <3>1, <1>12, <1>13
  <2> QED BY <1>10, <1>11, <2>1
<1>15. /\ Last(c).phase = "reconciliation_closed"
       /\ Last(c).code \in {"reconciled", "failed"}
       /\ Last(c).operator # Last(c).approver
  <2>1. Last(c).phase = "reconciliation_closed"
    BY <1>5, <1>14
  <2> QED BY <1>5, <2>1 DEF Events
<1>16. Last(c).code # "reconciled"
  <2> SUFFICES ASSUME Last(c).code = "reconciled" PROVE FALSE
    OBVIOUS
  <2>1. PICK r \in ReconciliationPhaseOrders :
          Len(r) = n /\ \A i \in 1 .. n : r[i] = order[i]
    BY <1>10, <1>14, OrderSteps
  <2>2. r \in LegalPhaseOrders /\ r \in Seq(PhaseNames)
    BY <2>1, OrdersAreSequences DEF LegalPhaseOrders
  <2>3. r = [i \in 1 .. n |-> r[i]]
    BY <2>1, <2>2
  <2>4. Phases(c) = r
    BY <1>5, <2>1, <2>3 DEF Phases
  <2>5. n >= 5
    BY <1>1, <2>1, <2>4, ReconciledChain
  <2>6. c[n - 1].code \in SuccessReadbackCodes
    BY <1>15, <2>5 DEF ChainShape
  <2> QED BY <2>1, <2>4, <2>6 DEF Complete
<1> QED BY <1>15, <1>16

-----------------------------------------------------------------------------
(* The chain as a system of its own. *)

\* The empty chain has the shape.
LEMMA ChainShapeInit == ChainInit => ChainShape(chain)
BY DEF ChainInit, ChainShape, Last

\* Appending an accepted event keeps the shape.
LEMMA ChainShapeNext == ChainShape(chain) /\ [ChainNext]_chain => ChainShape(chain)'
<1> SUFFICES ASSUME ChainShape(chain), [ChainNext]_chain PROVE ChainShape(chain')
  OBVIOUS
<1>1. CASE UNCHANGED chain
  BY <1>1
<1>2. ASSUME NEW e \in Offered, AppendEvent(e) PROVE ChainShape(chain')
  <2>1. e \in Events
    BY OfferedAssumption
  <2>2. Transition(chain, e) /\ chain' = Append(chain, e)
    BY <1>2 DEF AppendEvent
  <2> QED BY <2>1, <2>2, TransitionKeepsShape
<1> QED BY <1>1, <1>2 DEF ChainNext

\* There are two people who can exercise dual control.
TwoPrincipals == \E a, b \in Principals : a # b

\* The three properties hold of every chain with the shape.
LEMMA ShapeIsEnough ==
  ASSUME ChainShape(chain)
  PROVE  /\ CompleteChainsAreFinal
         /\ UncertaintyNeedsDualControl
         /\ TwoPrincipals => WedgedOnlyByFailedClosure
<1>1. chain \in Seq(Events)
  BY DEF ChainShape
<1>2. CompleteChainsAreFinal
  BY <1>1, CompleteIsFinal DEF CompleteChainsAreFinal
<1>3. UncertaintyNeedsDualControl
  BY <1>1, UncertainChain DEF UncertaintyNeedsDualControl
<1>4. ASSUME TwoPrincipals PROVE WedgedOnlyByFailedClosure
  <2>1. PICK a \in Principals, b \in Principals : a # b
    BY <1>4 DEF TwoPrincipals
  <2> QED BY <2>1, StuckChain DEF WedgedOnlyByFailedClosure
<1> QED BY <1>2, <1>3, <1>4

\* append accepts no event after verify_chain has called the chain complete, so
\* the head that a publication claims never moves.
THEOREM CompleteChainsFinal == ChainSpec => []CompleteChainsAreFinal
<1>1. ChainSpec => []ChainShape(chain)
  BY ChainShapeInit, ChainShapeNext, PTL DEF ChainSpec
<1>2. ChainShape(chain) => CompleteChainsAreFinal
  BY ShapeIsEnough
<1> QED BY <1>1, <1>2, PTL

\* An uncertain write is settled only with a requirement, a later successful
\* readback and the closure of two people.
THEOREM DualControl == ChainSpec => []UncertaintyNeedsDualControl
<1>1. ChainSpec => []ChainShape(chain)
  BY ChainShapeInit, ChainShapeNext, PTL DEF ChainSpec
<1>2. ChainShape(chain) => UncertaintyNeedsDualControl
  BY ShapeIsEnough
<1> QED BY <1>1, <1>2, PTL

\* If there are two people, an incomplete chain that accepts nothing was closed
\* as failed by two people: _validate_transition and the declared orders never
\* get in each other's way.
THEOREM NotStuck == TwoPrincipals => (ChainSpec => []WedgedOnlyByFailedClosure)
<1> SUFFICES ASSUME TwoPrincipals PROVE ChainSpec => []WedgedOnlyByFailedClosure
  OBVIOUS
<1>1. ChainSpec => []ChainShape(chain)
  BY ChainShapeInit, ChainShapeNext, PTL DEF ChainSpec
<1>2. ChainShape(chain) => WedgedOnlyByFailedClosure
  BY ShapeIsEnough
<1> QED BY <1>1, <1>2, PTL
=============================================================================
