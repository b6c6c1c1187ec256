-------------------------- MODULE MCJetStreamBackend --------------------------
(***************************************************************************)
(* Instances of JetStreamBackend for TLC: two topics of one stream, a      *)
(* pattern that needs the application filter and one that does not.        *)
(***************************************************************************)
EXTENDS JetStreamBackend, TLC

CONSTANTS t1, t2

MCTopics == {t1, t2}
MCPatterns == {{t1}, {t1, t2}}
\* Subscriptions are interchangeable.
Symmetry == Permutations(Subscribers)

MCCoarse == [p \in MCPatterns |-> MCTopics]
=============================================================================
