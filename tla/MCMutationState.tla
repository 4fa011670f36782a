-------------------------- MODULE MCMutationState --------------------------
(* TLC instance of the mutation state with arbitrary callers. *)
EXTENDS MutationState
=============================================================================
