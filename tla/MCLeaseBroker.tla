--------------------------- MODULE MCLeaseBroker ---------------------------
(* TLC instances of the lease broker: the tickets of one client, with a spare *)
(* acquire ticket and a release ticket that repeats a nonce.                  *)
EXTENDS LeaseBroker, TLC

CONSTANTS a1, a2, s1, x1, x2, n1, n2, n3, n4

MCNonceOf  == a1 :> n1 @@ a2 :> n2 @@ s1 :> n3 @@ x1 :> n4 @@ x2 :> n1
MCActionOf == a1 :> "acquire" @@ a2 :> "acquire" @@ s1 :> "assert"
              @@ x1 :> "release" @@ x2 :> "release"

Interchangeable == Permutations(Instances) \cup Permutations(LeaseIds)
=============================================================================
