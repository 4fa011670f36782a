--------------------------- MODULE GovernedWrite ---------------------------
(***************************************************************************)
(* What the governed write pipeline promises about the writes of one       *)
(* execution key, without saying how: the crash and retry rules that       *)
(* BusinessCaseTypeGraphWriteEdge.execute enforces together with its       *)
(* evidence hook.                                                          *)
(*                                                                         *)
(* A generation is authorized before anything is sent, is sent at most     *)
(* once, and ends settled, released for another authorization or           *)
(* suspended.  Settled and suspended are final: no restart and no          *)
(* concurrent execution sends again.                                       *)
(***************************************************************************)
EXTENDS Integers

CONSTANT MaxGeneration

VARIABLES
  phase,        \* where the current generation stands
  generation,   \* the number of authorizations so far
  sent          \* sent[g] = how many write requests generation g has sent

governedVars == <<phase, generation, sent>>

GovernedInit ==
  /\ phase = "idle"
  /\ generation = 0
  /\ sent = [g \in 1 .. MaxGeneration |-> 0]

Authorize ==
  /\ phase \in {"idle", "released"}
  /\ generation < MaxGeneration
  /\ phase' = "authorized"
  /\ generation' = generation + 1
  /\ UNCHANGED sent

Send ==
  /\ phase = "authorized"
  /\ phase' = "sent"
  /\ sent' = [sent EXCEPT ![generation] = sent[generation] + 1]
  /\ UNCHANGED generation

\* A generation may settle without a write: the item was already there.
Settle ==
  /\ phase \in {"authorized", "sent"}
  /\ phase' = "settled"
  /\ UNCHANGED <<generation, sent>>

Release ==
  /\ phase = "sent"
  /\ phase' = "released"
  /\ UNCHANGED <<generation, sent>>

Suspend ==
  /\ phase \in {"authorized", "sent"}
  /\ phase' = "suspended"
  /\ UNCHANGED <<generation, sent>>

GovernedNext == Authorize \/ Send \/ Settle \/ Release \/ Suspend

GovernedSpec == GovernedInit /\ [][GovernedNext]_governedVars
=============================================================================
