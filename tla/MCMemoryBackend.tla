--------------------------- MODULE MCMemoryBackend ---------------------------
(***************************************************************************)
(* Instances of MemoryBackend for TLC: three topics of two streams, one of *)
(* them bare, watched through a narrow and a broad pattern.                *)
(***************************************************************************)
EXTENDS MemoryBackend

CONSTANTS t1, t2, t3, k1, k2

MCTopics == {t1, t2, t3}
MCStreams == {k1, k2}
MCStreamOf == [t \in MCTopics |-> IF t = t3 THEN k2 ELSE k1]
MCBareTopics == {t3}
MCPatterns == {{t1}, {t1, t2}}
=============================================================================
