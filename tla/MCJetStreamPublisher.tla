------------------------- MODULE MCJetStreamPublisher -------------------------
(***************************************************************************)
(* An instance of JetStreamPublisher for TLC: two replicas that want the   *)
(* same storage and different limits, as during a rolling deployment, and  *)
(* one that is configured for another storage.                             *)
(***************************************************************************)
EXTENDS JetStreamPublisher

CONSTANTS r1, r2, r3, file, memory, old, new

MCDesired ==
  r1 :> [storage |-> file, managed |-> old] @@
  r2 :> [storage |-> file, managed |-> new] @@
  r3 :> [storage |-> memory, managed |-> new]
=============================================================================
