---------------------------- MODULE MessageOrder -----------------------------
(***************************************************************************)
(* Sets of messages, each with a sequence of its own, put in the order of  *)
(* those sequences.  The code keeps such sets as deques, sorted vectors and *)
(* queues; an ordered set is all that the modules need of them.            *)
(***************************************************************************)
EXTENDS Naturals, FiniteSets

\* How many messages of a set come before a sequence.
Rank(S, n) == Cardinality({x \in S : x.seq < n})

\* The messages of a finite set, oldest first.
BySequence(S) ==
  [i \in 1..Cardinality(S) |-> CHOOSE m \in S : Rank(S, m.seq) = i - 1]
=============================================================================
