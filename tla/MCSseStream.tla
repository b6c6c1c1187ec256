----------------------------- MODULE MCSseStream -----------------------------
(***************************************************************************)
(* Instances of SseStream for TLC: one watched topic and one that is not,  *)
(* notifications that pass, are filtered out or cannot be rendered.        *)
(***************************************************************************)
EXTENDS SseStream

CONSTANTS t1, t2, ok, excluded, broken

MCTopics == {t1, t2}
MCPatterns == {{t1}}
MCPayloads == {ok, excluded, broken}
MCTraffic == {<<t1, ok>>, <<t1, excluded>>, <<t1, broken>>, <<t2, ok>>}
PlainTraffic == {<<t1, ok>>, <<t2, ok>>}
SequenceCursors == {FromSequence(1), FromSequence(2)}
AllCursors == {FromSequence(1), FromDate(2)}
SequenceEnds == {Latest, [kind |-> "sequence", value |-> 2]}
DateEnds == {[kind |-> "date", value |-> d] : d \in 1..2}
AllEnds == DateEnds \cup SequenceEnds

\* Nothing is left to check once every connection has ended.
SomeConnectionLeft == \E c \in Subscribers : conn[c].phase # "closed"
=============================================================================
