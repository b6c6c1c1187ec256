------------------------------ MODULE MCEcpdsAccess ------------------------------
(***************************************************************************)
(* Instances of EcpdsAccess for TLC: requests of one user for one          *)
(* destination that two servers may grant.  What other users and           *)
(* destinations add is independent: nothing is shared but the room in the  *)
(* cache, and an entry may be evicted at any time.                         *)
(***************************************************************************)
EXTENDS EcpdsAccess, TLC

\* Servers are interchangeable, and so are requests.
Symmetry == Permutations(Servers) \cup Permutations(Requests)
=============================================================================
