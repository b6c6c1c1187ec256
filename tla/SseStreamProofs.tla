--------------------------- MODULE SseStreamProofs ----------------------------
(***************************************************************************)
(* Proofs about SseStream: what a client gets on one connection, for any   *)
(* number of connections, any requests and limits, and any backend that is *)
(* a NotificationLog.                                                      *)
(***************************************************************************)
EXTENDS SseStream, OrderLemmas

-----------------------------------------------------------------------------
(* The log under the connections.                                           *)

Ascending(q) == \A i, j \in DOMAIN q : i < j => q[i].seq < q[j].seq

\* Everything ever stored, by sequence; what is retained is a part of it.
HistoryKept ==
  /\ nextSequence = Len(published) + 1 /\ nextSequence <= MaxSequence + 1
  /\ \A i \in DOMAIN published :
       published[i].seq = i /\ published[i].time <= clock
  /\ \A i, j \in DOMAIN published : i <= j => published[i].time <= published[j].time
  /\ retained \subseteq ToSet(published)

\* A queue holds stored messages of its pattern from behind its boundary.
QueueKept(s) ==
  /\ Ascending(queue[s])
  /\ historyEnd[s] < nextSequence
  /\ \A m \in ToSet(queue[s]) :
       /\ m \in ToSet(published)
       /\ m.topic \in pattern[s] /\ m.seq > historyEnd[s]

LogInv ==
  /\ LogTypeOK /\ published \in Seq(Message)
  /\ HistoryKept
  /\ \A s \in Subscribers : QueueKept(s)

LEMMA MessageSeqs == \A m \in Message : m.seq \in Nat /\ m.seq # 0 /\ m.time \in Nat
  BY DEF Message

\* What was stored, as a set.
LEMMA EverStored ==
  ASSUME LogInv
  PROVE  /\ nextSequence \in Nat /\ nextSequence # 0 /\ clock \in Nat
         /\ DOMAIN published = 1..(nextSequence - 1)
         /\ \A m \in ToSet(published) :
              /\ m \in Message /\ m.seq \in 1..(nextSequence - 1) /\ m.time \in Nat
              /\ m.time <= clock
              /\ published[m.seq] = m
         /\ \A m, n \in ToSet(published) : m.seq = n.seq => m = n
         /\ \A m, n \in ToSet(published) : m.seq <= n.seq => m.time <= n.time
         /\ \A n \in 1..(nextSequence - 1) :
              published[n] \in ToSet(published) /\ published[n].seq = n
         /\ \A m \in retained : m \in ToSet(published)
  <1>1. nextSequence \in Nat /\ nextSequence # 0 /\ clock \in Nat
    BY DEF LogInv, LogTypeOK
  <1>2. DOMAIN published = 1..(nextSequence - 1)
    BY <1>1, LenProperties DEF LogInv, HistoryKept
  <1>3. ASSUME NEW i \in DOMAIN published
        PROVE  /\ published[i] \in Message /\ published[i].seq = i
               /\ published[i].time \in Nat /\ published[i].time <= clock
    <2>1. published[i] \in Message
      BY ElementOfSeq, LenProperties DEF LogInv
    <2>. QED BY <2>1, MessageSeqs DEF LogInv, HistoryKept
  <1>4. \A m \in ToSet(published) :
          /\ m \in Message /\ m.seq \in 1..(nextSequence - 1) /\ m.time \in Nat
          /\ m.time <= clock
          /\ published[m.seq] = m
    BY <1>2, <1>3 DEF ToSet
  <1>5. \A m, n \in ToSet(published) : m.seq = n.seq => m = n
    BY <1>4
  <1>6. \A m, n \in ToSet(published) : m.seq <= n.seq => m.time <= n.time
    BY <1>2, <1>4 DEF LogInv, HistoryKept
  <1>7. \A n \in 1..(nextSequence - 1) :
          published[n] \in ToSet(published) /\ published[n].seq = n
    BY <1>2, <1>3 DEF ToSet
  <1>8. \A m \in retained : m \in ToSet(published)
    BY DEF LogInv, HistoryKept
  <1>. QED BY <1>1, <1>2, <1>4, <1>5, <1>6, <1>7, <1>8

\* What is left of a queue in order is in order, and nothing else.
LEMMA ThinnedQueue ==
  ASSUME NEW q \in Seq(Message), Ascending(q), NEW r \in Thinned(q)
  PROVE  r \in Seq(Message) /\ Ascending(r) /\ ToSet(r) \subseteq ToSet(q)
  <1>1. PICK kept \in SUBSET ToSet(q) : r = BySequence(kept)
    BY DEF Thinned
  <1>2. Numbered(ToSet(q)) /\ ToSet(q) \subseteq Message
    <2>1. \A i \in DOMAIN q : q[i] \in Message
      BY MessageSeqs, ElementSeqs
    <2>. QED BY <2>1, MessageSeqs, QueueNumbered DEF Ascending, ToSet
  <1>3. Numbered(kept)
    BY <1>2, NumberedSubset
  <1>4. /\ r \in Seq(kept) /\ Cardinality(kept) \in Nat
        /\ DOMAIN r = 1..Cardinality(kept)
        /\ \A i \in 1..Cardinality(kept) : r[i] \in kept
        /\ \A i, j \in 1..Cardinality(kept) : i < j => r[i].seq < r[j].seq
    BY <1>1, <1>3, BySequenceOrders
  <1>5. r \in Seq(Message)
    BY <1>2, <1>4, SeqMonotonic
  <1>. QED BY <1>4, <1>5 DEF Ascending, ToSet

LEMMA ThinnedAll ==
  ASSUME NEW offered, NEW qs \in ThinnedQueues(offered),
         \A s \in Subscribers : offered[s] \in Seq(Message) /\ Ascending(offered[s])
  PROVE  /\ qs \in [Subscribers -> Seq(Message)]
         /\ \A s \in Subscribers :
              Ascending(qs[s]) /\ ToSet(qs[s]) \subseteq ToSet(offered[s])
  <1>1. /\ DOMAIN qs = Subscribers /\ qs = [s \in Subscribers |-> qs[s]]
        /\ \A s \in Subscribers : qs[s] \in Thinned(offered[s])
    BY DEF ThinnedQueues
  <1>2. \A s \in Subscribers :
          qs[s] \in Seq(Message) /\ Ascending(qs[s]) /\ ToSet(qs[s]) \subseteq ToSet(offered[s])
    BY <1>1, ThinnedQueue
  <1>. QED BY <1>1, <1>2

LEMMA NextMessageType ==
  ASSUME LogTypeOK, NEW t \in Topics, NEW b \in Payloads
  PROVE  /\ NextMessage(t, b) \in Message
         /\ NextMessage(t, b).seq = nextSequence /\ NextMessage(t, b).topic = t
         /\ NextMessage(t, b).time = clock /\ NextMessage(t, b).payload = b
  BY DEF LogTypeOK, Message, NextMessage

\* What a publication offers to a subscription.
LEMMA Offered ==
  ASSUME LogInv, NEW t \in Topics, NEW b \in Payloads, NEW s \in Subscribers,
         NEW m, m = NextMessage(t, b)
  PROVE  /\ Offer(s, m) \in Seq(Message) /\ Ascending(Offer(s, m))
         /\ ToSet(queue[s]) \subseteq ToSet(Offer(s, m))
         /\ \A x \in ToSet(Offer(s, m)) :
              x \in ToSet(queue[s]) \/ (x = m /\ t \in pattern[s])
         /\ t \in pattern[s] => m \in ToSet(Offer(s, m))
  <1> DEFINE q == queue[s]
  <1>1. /\ q \in Seq(Message) /\ Ascending(q)
        /\ \A x \in ToSet(q) : x \in ToSet(published)
    BY DEF LogInv, LogTypeOK, QueueKept
  <1>2. m \in Message /\ m.seq = nextSequence /\ m.topic = t
    BY NextMessageType DEF LogInv
  <1>3. CASE t \in pattern[s]
    <2>1. \A x \in ToSet(q) : x.seq \in 1..(nextSequence - 1)
      BY <1>1, EverStored
    <2>6. \A i \in DOMAIN q : q[i].seq <= nextSequence - 1
      BY <2>1, EverStored DEF ToSet
    <2>7. \A x \in Message : x.seq \in Nat
      BY MessageSeqs
    <2>8. \A i, j \in DOMAIN q : i < j => q[i].seq < q[j].seq
      BY <1>1 DEF Ascending
    <2>2. nextSequence - 1 \in Nat /\ m.seq > nextSequence - 1
      BY <1>2, EverStored
    <2>3. Offer(s, m) = Append(q, m)
      BY <1>2, <1>3 DEF Offer
    <2>9. PICK last \in Nat : last = nextSequence - 1
      BY <2>2
    <2>10. /\ q \in Seq(Message) /\ m.seq > last
           /\ \A i \in DOMAIN q : q[i].seq <= last
      BY <1>1, <2>2, <2>6, <2>9
    <2>. HIDE DEF q
    <2>4. /\ \A i, j \in DOMAIN Append(q, m) :
               i < j => Append(q, m)[i].seq < Append(q, m)[j].seq
          /\ ToSet(Append(q, m)) = ToSet(q) \cup {m}
      BY <1>2, <2>7, <2>8, <2>10, QueueGrows
    <2>5. Append(q, m) \in Seq(Message)
      BY <1>1, <1>2, AppendProperties
    <2>. QED BY <1>3, <2>3, <2>4, <2>5 DEF Ascending, q
  <1>4. CASE t \notin pattern[s]
    <2>1. Offer(s, m) = q
      BY <1>2, <1>4 DEF Offer
    <2>. QED BY <1>1, <1>4, <2>1
  <1>. QED BY <1>3, <1>4

\* The facts of a publication that the connections see.
LEMMA Published ==
  ASSUME LogInv, NEW t \in Topics, NEW b \in Payloads, Publish(t, b)
  PROVE  LET m == NextMessage(t, b) IN
         /\ nextSequence' = nextSequence + 1 /\ nextSequence <= MaxSequence
         /\ UNCHANGED <<clock, pattern, historyEnd, cancelled, conn>>
         /\ retained' \subseteq retained \cup {m}
         /\ published' = Append(published, m)
         /\ ToSet(published') = ToSet(published) \cup {m}
         /\ queue' \in [Subscribers -> Seq(Message)]
         /\ \A s \in Subscribers :
              /\ Ascending(queue'[s])
              /\ \A x \in ToSet(queue'[s]) :
                   x \in ToSet(queue[s]) \/ (x = m /\ t \in pattern[s])
              /\ lost[s] \subseteq lost'[s]
              /\ \A x \in ToSet(queue[s]) : x \in ToSet(queue'[s]) \/ x.seq \in lost'[s]
              /\ t \in pattern[s] => m \in ToSet(queue'[s]) \/ m.seq \in lost'[s]
  <1> DEFINE m == NextMessage(t, b)
             offered == [s \in Subscribers |-> Offer(s, m)]
  <1>1. Put(t, b) /\ UNCHANGED <<cancelled, conn>> /\ published' = Append(published, m)
    BY DEF Publish
  <1>2. m = [seq |-> nextSequence, topic |-> t, time |-> clock, payload |-> b]
    BY DEF NextMessage
  <1>3. /\ nextSequence <= MaxSequence /\ nextSequence' = nextSequence + 1
        /\ \E kept \in SUBSET retained : retained' = kept \cup {m}
        /\ queue' \in ThinnedQueues(offered)
        /\ UNCHANGED <<clock, pattern, historyEnd>>
    BY <1>1, <1>2 DEF Put
  <1>4. lost' = [c \in Subscribers |->
                  lost[c] \cup {x.seq : x \in ToSet(Offer(c, m)) \ ToSet(queue'[c])}]
    BY DEF Publish
  <1>5. \A s \in Subscribers : offered[s] \in Seq(Message) /\ Ascending(offered[s])
    BY Offered
  <1>6. /\ queue' \in [Subscribers -> Seq(Message)]
        /\ \A s \in Subscribers :
             Ascending(queue'[s]) /\ ToSet(queue'[s]) \subseteq ToSet(offered[s])
    BY <1>3, <1>5, ThinnedAll
  <1>7. ASSUME NEW s \in Subscribers
        PROVE  /\ \A x \in ToSet(queue'[s]) :
                    x \in ToSet(queue[s]) \/ (x = m /\ t \in pattern[s])
               /\ lost[s] \subseteq lost'[s]
               /\ \A x \in ToSet(queue[s]) : x \in ToSet(queue'[s]) \/ x.seq \in lost'[s]
               /\ t \in pattern[s] => m \in ToSet(queue'[s]) \/ m.seq \in lost'[s]
    <2>1. /\ ToSet(queue[s]) \subseteq ToSet(Offer(s, m))
          /\ \A x \in ToSet(Offer(s, m)) :
               x \in ToSet(queue[s]) \/ (x = m /\ t \in pattern[s])
          /\ t \in pattern[s] => m \in ToSet(Offer(s, m))
      BY Offered
    <2>. HIDE DEF m
    <2>2. \A x \in ToSet(Offer(s, m)) : x \in ToSet(queue'[s]) \/ x.seq \in lost'[s]
      BY <1>4
    <2>3. lost[s] \subseteq lost'[s]
      BY <1>4
    <2>. QED BY <1>6, <2>1, <2>2, <2>3
  <1>8. ToSet(published') = ToSet(published) \cup {m}
    <2>1. published \in Seq(Message) /\ m \in Message
      BY NextMessageType DEF LogInv
    <2>. HIDE DEF m
    <2>2. /\ published' \in Seq(Message)
          /\ Len(published') = Len(published) + 1
          /\ \A i \in 1..Len(published) : published'[i] = published[i]
          /\ published'[Len(published) + 1] = m
      BY <1>1, <2>1, AppendProperties
    <2>3. /\ DOMAIN published' = 1..(Len(published) + 1)
          /\ DOMAIN published = 1..Len(published) /\ Len(published) \in Nat
      BY <2>1, <2>2, LenProperties
    <2>. QED BY <2>2, <2>3 DEF ToSet
  <1>. HIDE DEF m
  <1>9. retained' \subseteq retained \cup {m}
    BY <1>3
  <1>. QED BY <1>1, <1>3, <1>6, <1>7, <1>8, <1>9 DEF m

-----------------------------------------------------------------------------
(* The log keeps its invariant, whoever acts on it.                         *)

LEMMA InitialLog == Init => LogInv
  <1> SUFFICES ASSUME Init PROVE LogInv
    OBVIOUS
  <1>1. LogTypeOK
    BY DEF Init, LogInit, LogTypeOK
  <1>2. published \in Seq(Message) /\ Len(published) = 0 /\ DOMAIN published = {}
    BY DEF Init
  <1>3. HistoryKept
    BY <1>2, BoundsAssumption DEF Init, LogInit, HistoryKept
  <1>4. \A s \in Subscribers : QueueKept(s)
    <2>1. \A s \in Subscribers : queue[s] = <<>> /\ historyEnd[s] = 0 /\ nextSequence = 1
      BY DEF Init, LogInit
    <2>. QED BY <2>1 DEF QueueKept, Ascending, ToSet
  <1>. QED BY <1>1, <1>2, <1>3, <1>4 DEF LogInv

LEMMA LogPublish ==
  ASSUME LogInv, NEW t \in Topics, NEW b \in Payloads, Publish(t, b)
  PROVE  LogInv'
  <1> DEFINE m == NextMessage(t, b)
  <1>1. /\ m \in Message /\ m.seq = nextSequence /\ m.topic = t /\ m.time = clock
    BY NextMessageType DEF LogInv
  <1>2. /\ nextSequence' = nextSequence + 1 /\ nextSequence <= MaxSequence
        /\ UNCHANGED <<clock, pattern, historyEnd>>
        /\ retained' \subseteq retained \cup {m}
        /\ published' = Append(published, m)
        /\ ToSet(published') = ToSet(published) \cup {m}
        /\ queue' \in [Subscribers -> Seq(Message)]
        /\ \A s \in Subscribers :
             /\ Ascending(queue'[s])
             /\ \A x \in ToSet(queue'[s]) :
                  x \in ToSet(queue[s]) \/ (x = m /\ t \in pattern[s])
    BY Published
  <1>. HIDE DEF m
  <1>3. nextSequence \in Nat /\ nextSequence # 0 /\ published \in Seq(Message)
    BY DEF LogInv, LogTypeOK
  <1>4. LogTypeOK'
    BY <1>1, <1>2, <1>3 DEF LogInv, LogTypeOK
  <1>5. published' \in Seq(Message)
    BY <1>1, <1>2, <1>3, AppendProperties
  <1>6. HistoryKept'
    <2>1. /\ Len(published') = Len(published) + 1
          /\ \A i \in 1..Len(published) : published'[i] = published[i]
          /\ published'[Len(published) + 1] = m
      BY <1>1, <1>2, <1>3, AppendProperties
    <2>2. /\ DOMAIN published' = 1..nextSequence
          /\ Len(published) = nextSequence - 1
          /\ DOMAIN published = 1..(nextSequence - 1)
      BY <1>3, <1>5, <2>1, LenProperties DEF LogInv, HistoryKept
    <2>3. \A i \in 1..(nextSequence - 1) :
            published[i] \in Message /\ published[i].seq = i /\ published[i].time <= clock
      BY <2>2, EverStored
    <2>4. clock \in Nat
      BY DEF LogInv, LogTypeOK
    <2>5. \A i \in 1..nextSequence : published'[i].seq = i /\ published'[i].time <= clock
      BY <1>1, <1>3, <2>1, <2>2, <2>3, <2>4
    <2>6. \A i, j \in 1..nextSequence : i <= j => published'[i].time <= published'[j].time
      <3> TAKE i, j \in 1..nextSequence
      <3> HAVE i <= j
      <3>1. CASE j = nextSequence
        BY <3>1, <1>1, <1>3, <2>1, <2>2, <2>5
      <3>2. CASE j # nextSequence
        BY <3>2, <1>3, <2>1, <2>2 DEF LogInv, HistoryKept
      <3>. QED BY <3>1, <3>2
    <2>7. retained' \subseteq ToSet(published')
      BY <1>2 DEF LogInv, HistoryKept
    <2>. QED BY <1>2, <1>3, <2>1, <2>2, <2>5, <2>6, <2>7, BoundsAssumption DEF HistoryKept
  <1>7. ASSUME NEW s \in Subscribers
        PROVE  QueueKept(s)'
    <2>1. historyEnd[s] < nextSequence /\ historyEnd[s] \in Nat
      BY DEF LogInv, LogTypeOK, QueueKept
    <2>2. Ascending(queue'[s]) /\ historyEnd'[s] = historyEnd[s] /\ pattern'[s] = pattern[s]
      BY <1>2
    <2>3. ASSUME NEW x \in ToSet(queue'[s])
          PROVE  x \in ToSet(published') /\ x.topic \in pattern[s] /\ x.seq > historyEnd[s]
      <3>1. CASE x \in ToSet(queue[s])
        BY <3>1, <1>2 DEF LogInv, QueueKept
      <3>2. CASE x = m /\ t \in pattern[s]
        BY <3>2, <1>1, <1>2, <1>3, <2>1
      <3>. QED BY <3>1, <3>2, <1>2
    <2>. QED BY <1>2, <1>3, <2>1, <2>2, <2>3 DEF QueueKept
  <1>. QED BY <1>4, <1>5, <1>6, <1>7 DEF LogInv

\* What the rest of the world does to the log.
LEMMA Worn ==
  ASSUME LogInv, Environment
  PROVE  /\ UNCHANGED <<nextSequence, pattern, historyEnd, cancelled, conn, published>>
         /\ clock' \in Nat \ {0} /\ clock <= clock' /\ retained' \subseteq retained
         /\ queue' \in [Subscribers -> Seq(Message)]
         /\ \A s \in Subscribers :
              /\ Ascending(queue'[s]) /\ ToSet(queue'[s]) \subseteq ToSet(queue[s])
              /\ lost[s] \subseteq lost'[s]
              /\ \A x \in ToSet(queue[s]) : x \in ToSet(queue'[s]) \/ x.seq \in lost'[s]
  <1>1. /\ UNCHANGED <<nextSequence, pattern, historyEnd, cancelled, conn, published>>
        /\ clock' \in Nat \ {0} /\ clock <= clock' /\ retained' \subseteq retained
    BY DEF Environment, Forget, Tick, LogInv, LogTypeOK
  <1>2. \A s \in Subscribers : queue[s] \in Seq(Message) /\ Ascending(queue[s])
    BY DEF LogInv, LogTypeOK, QueueKept
  <1>3. /\ queue' \in [Subscribers -> Seq(Message)]
        /\ \A s \in Subscribers : Ascending(queue'[s]) /\ ToSet(queue'[s]) \subseteq ToSet(queue[s])
    <2>1. CASE Forget
      BY <2>1, <1>2, ThinnedAll DEF Forget
    <2>2. CASE Tick
      BY <2>2, <1>2 DEF Tick, LogInv, LogTypeOK
    <2>. QED BY <2>1, <2>2 DEF Environment
  <1>4. lost' = [c \in Subscribers |->
                  lost[c] \cup {x.seq : x \in ToSet(queue[c]) \ ToSet(queue'[c])}]
    BY DEF Environment
  <1>5. \A s \in Subscribers :
          /\ lost[s] \subseteq lost'[s]
          /\ \A x \in ToSet(queue[s]) : x \in ToSet(queue'[s]) \/ x.seq \in lost'[s]
    BY <1>4
  <1>. QED BY <1>1, <1>3, <1>5

LEMMA LogWorn ==
  ASSUME LogInv, Environment
  PROVE  LogInv'
  <1>1. /\ UNCHANGED <<nextSequence, pattern, historyEnd, published>>
        /\ clock' \in Nat \ {0} /\ clock <= clock' /\ retained' \subseteq retained
        /\ queue' \in [Subscribers -> Seq(Message)]
        /\ \A s \in Subscribers :
             Ascending(queue'[s]) /\ ToSet(queue'[s]) \subseteq ToSet(queue[s])
    BY Worn
  <1>2. LogTypeOK' /\ published' \in Seq(Message)
    BY <1>1 DEF LogInv, LogTypeOK
  <1>3. HistoryKept'
    <2>1. clock \in Nat
      BY DEF LogInv, LogTypeOK
    <2>2. \A i \in DOMAIN published : published[i].time \in Nat
      BY EverStored
    <2>3. \A i \in DOMAIN published : published[i].time <= clock'
      BY <1>1, <2>1, <2>2 DEF LogInv, HistoryKept
    <2>. QED BY <1>1, <2>3 DEF LogInv, HistoryKept
  <1>4. \A s \in Subscribers : QueueKept(s)'
    BY <1>1 DEF LogInv, QueueKept
  <1>. QED BY <1>2, <1>3, <1>4 DEF LogInv

\* What a connection does to the log: at most to its own subscription.
OwnLog(c) ==
  \/ UNCHANGED logVars
  \/ \E p \in Patterns : Subscribe(c, p)
  \/ Receive(c)
  \/ Unsubscribe(c)

LEMMA LogOwn ==
  ASSUME LogInv, NEW c \in Subscribers, OwnLog(c), UNCHANGED published
  PROVE  /\ LogInv'
         /\ UNCHANGED <<nextSequence, clock, retained>>
         /\ \A d \in Subscribers \ {c} :
              /\ pattern'[d] = pattern[d] /\ historyEnd'[d] = historyEnd[d]
              /\ queue'[d] = queue[d]
         /\ ToSet(queue'[c]) \subseteq ToSet(queue[c])
  <1>1. UNCHANGED <<nextSequence, clock, retained>>
    BY DEF OwnLog, logVars, Subscribe, Receive, Unsubscribe
  <1>2. HistoryKept'
    BY <1>1 DEF LogInv, HistoryKept
  <1>3. ToSet(<<>>) = {} /\ Ascending(<<>>)
    BY DEF ToSet, Ascending
  <1>4. nextSequence \in Nat \ {0} /\ LogTypeOK
    BY DEF LogInv, LogTypeOK
  <1>5. queue[c] \in Seq(Message) /\ QueueKept(c)
    BY DEF LogInv, LogTypeOK
  <1>6. CASE UNCHANGED logVars
    BY <1>6 DEF logVars, LogInv, LogTypeOK, HistoryKept, QueueKept
  <1>7. ASSUME NEW p \in Patterns, Subscribe(c, p)
        PROVE  /\ LogTypeOK' /\ \A d \in Subscribers : QueueKept(d)'
               /\ \A d \in Subscribers \ {c} :
                    /\ pattern'[d] = pattern[d] /\ historyEnd'[d] = historyEnd[d]
                    /\ queue'[d] = queue[d]
               /\ ToSet(queue'[c]) \subseteq ToSet(queue[c])
    <2>1. LogTypeOK'
      BY <1>1, <1>4, <1>7 DEF Subscribe, LogTypeOK
    <2>2. /\ \A d \in Subscribers \ {c} :
               /\ pattern'[d] = pattern[d] /\ historyEnd'[d] = historyEnd[d]
               /\ queue'[d] = queue[d]
          /\ queue'[c] = <<>> /\ historyEnd'[c] = nextSequence - 1
      BY <1>4, <1>7 DEF Subscribe, LogTypeOK
    <2>3. QueueKept(c)'
      BY <1>1, <1>3, <1>4, <2>2 DEF QueueKept
    <2>4. \A d \in Subscribers \ {c} : QueueKept(d)'
      BY <1>1, <2>2 DEF LogInv, QueueKept
    <2>. QED BY <1>3, <2>1, <2>2, <2>3, <2>4
  <1>8. ASSUME Receive(c)
        PROVE  /\ LogTypeOK' /\ \A d \in Subscribers : QueueKept(d)'
               /\ \A d \in Subscribers \ {c} :
                    /\ pattern'[d] = pattern[d] /\ historyEnd'[d] = historyEnd[d]
                    /\ queue'[d] = queue[d]
               /\ ToSet(queue'[c]) \subseteq ToSet(queue[c])
    <2>1. /\ queue[c] # <<>> /\ queue' = [queue EXCEPT ![c] = Tail(queue[c])]
          /\ UNCHANGED <<pattern, historyEnd>>
      BY <1>8 DEF Receive
    <2>2. \A x \in Message : x.seq \in Nat
      BY MessageSeqs
    <2>3. /\ \A i, j \in DOMAIN Tail(queue[c]) :
               i < j => Tail(queue[c])[i].seq < Tail(queue[c])[j].seq
          /\ ToSet(Tail(queue[c])) = ToSet(queue[c]) \ {queue[c][1]}
      <3>1. \A i, j \in DOMAIN queue[c] : i < j => queue[c][i].seq < queue[c][j].seq
        BY <1>5 DEF QueueKept, Ascending
      <3>. QED BY <1>5, <2>1, <2>2, <3>1, QueueShrinks
    <2>4. Tail(queue[c]) \in Seq(Message)
      BY <1>5, <2>1, HeadTailProperties
    <2>5. LogTypeOK'
      BY <1>1, <1>4, <2>1, <2>4 DEF LogTypeOK
    <2>6. \A d \in Subscribers \ {c} : queue'[d] = queue[d]
      BY <1>4, <2>1 DEF LogTypeOK
    <2>7. queue'[c] = Tail(queue[c])
      BY <1>4, <2>1 DEF LogTypeOK
    <2>8. QueueKept(c)'
      BY <1>1, <1>5, <2>1, <2>3, <2>7 DEF QueueKept, Ascending
    <2>9. \A d \in Subscribers \ {c} : QueueKept(d)'
      BY <1>1, <2>1, <2>6 DEF LogInv, QueueKept
    <2>. QED BY <2>1, <2>3, <2>5, <2>6, <2>7, <2>8, <2>9
  <1>9. ASSUME Unsubscribe(c)
        PROVE  /\ LogTypeOK' /\ \A d \in Subscribers : QueueKept(d)'
               /\ \A d \in Subscribers \ {c} :
                    /\ pattern'[d] = pattern[d] /\ historyEnd'[d] = historyEnd[d]
                    /\ queue'[d] = queue[d]
               /\ ToSet(queue'[c]) \subseteq ToSet(queue[c])
    <2>1. LogTypeOK'
      BY <1>1, <1>4, <1>9 DEF Unsubscribe, LogTypeOK
    <2>2. /\ \A d \in Subscribers \ {c} :
               /\ pattern'[d] = pattern[d] /\ historyEnd'[d] = historyEnd[d]
               /\ queue'[d] = queue[d]
          /\ queue'[c] = <<>> /\ historyEnd'[c] = 0
      BY <1>4, <1>9 DEF Unsubscribe, LogTypeOK
    <2>3. QueueKept(c)'
      BY <1>1, <1>3, <1>4, <2>2 DEF QueueKept
    <2>4. \A d \in Subscribers \ {c} : QueueKept(d)'
      BY <1>1, <2>2 DEF LogInv, QueueKept
    <2>. QED BY <1>3, <2>1, <2>2, <2>3, <2>4
  <1>10. published' \in Seq(Message)
    BY DEF LogInv
  <1>. QED BY <1>1, <1>2, <1>6, <1>7, <1>8, <1>9, <1>10 DEF OwnLog, LogInv

-----------------------------------------------------------------------------
(* The steps of a connection, field by field: k before and n after it.      *)

Connected == conn \in [Subscribers -> Connection]

\* A connection is a record of its fields.
Whole(n) ==
  n = [mode |-> n.mode, phase |-> n.phase, topic |-> n.topic, start |-> n.start,
       end |-> n.end, bound |-> n.bound, cursor |-> n.cursor, more |-> n.more,
       known |-> n.known, frames |-> n.frames, delivered |-> n.delivered,
       expired |-> n.expired, out |-> n.out]

\* What never changes once a request is accepted.
Kept(k, n) ==
  /\ Whole(n)
  /\ n.mode = k.mode /\ n.topic = k.topic /\ n.start = k.start /\ n.end = k.end

\* Where a replay stands.
Paged(k, n) ==
  /\ n.bound = k.bound /\ n.cursor = k.cursor /\ n.more = k.more
  /\ n.delivered = k.delivered /\ n.frames = k.frames

Fresh(n) ==
  /\ Whole(n)
  /\ n.cursor = n.start /\ n.known = {} /\ n.frames = <<>> /\ n.delivered = 0
  /\ n.expired \in BOOLEAN /\ ~n.expired /\ n.out = <<>>

Rests(k, n) == Kept(k, n) /\ Paged(k, n) /\ n.out = k.out

Sends(k, n, kind) ==
  /\ Kept(k, n) /\ Paged(k, n) /\ n.known = k.known /\ n.expired = k.expired
  /\ n.out = Append(k.out, Frame(kind, 0))

LEMMA Stepped ==
  ASSUME Connected, NEW c \in Subscribers, NEW n, Step(c, n)
  PROVE  /\ conn'[c] = n /\ DOMAIN conn' = Subscribers
         /\ conn' = [d \in Subscribers |-> conn'[d]]
         /\ \A d \in Subscribers \ {c} : conn'[d] = conn[d]
         /\ UNCHANGED <<cancelled, published, lost>>
  BY DEF Connected, Step

LEMMA IdleFields ==
  /\ Idle.mode = "none" /\ Idle.phase = "idle" /\ Idle.topic = {}
  /\ Idle.start = FromSequence(0) /\ Idle.end = Latest /\ Idle.bound = 0
  /\ Idle.cursor = FromSequence(0) /\ Idle.more = FALSE /\ Idle.known = {}
  /\ Idle.frames = <<>> /\ Idle.delivered = 0 /\ Idle.expired = FALSE /\ Idle.out = <<>>
  BY DEF Idle

LEMMA OpenLiveStep ==
  ASSUME Connected, NEW c \in Subscribers, NEW p \in Patterns, OpenLive(c, p), LogTypeOK,
         NEW n, n = conn'[c]
  PROVE  /\ conn[c].mode = "none" /\ Fresh(n)
         /\ n.mode = "live" /\ n.phase = "starting" /\ n.topic = p
         /\ n.start = FromSequence(0) /\ n.end = Latest
         /\ n.bound = nextSequence - 1 /\ n.more \in BOOLEAN /\ ~n.more
         /\ pattern'[c] = p /\ historyEnd'[c] = nextSequence - 1 /\ queue'[c] = <<>>
  <1>1. /\ pattern'[c] = p /\ historyEnd'[c] = nextSequence - 1 /\ queue'[c] = <<>>
    BY DEF OpenLive, Subscribe, LogTypeOK
  <1>2. conn[c].mode = "none"
    BY DEF OpenLive, Accept
  <1>3. n = [Idle EXCEPT !.mode = "live", !.phase = "starting", !.topic = p,
                         !.bound = historyEnd'[c]]
    BY Stepped DEF OpenLive, Accept
  <1>4. Whole(n)
    BY <1>3 DEF Idle, Whole
  <1>. QED BY <1>1, <1>2, <1>3, <1>4, IdleFields DEF Idle, Fresh

LEMMA OpenWatchStep ==
  ASSUME Connected, NEW c \in Subscribers, NEW p \in Patterns, NEW start \in Cursors,
         OpenWatch(c, p, start), LogTypeOK, NEW n, n = conn'[c]
  PROVE  /\ conn[c].mode = "none" /\ Fresh(n)
         /\ n.mode = "watch" /\ n.phase = "starting" /\ n.topic = p
         /\ n.start = start /\ n.end = Latest
         /\ n.bound = nextSequence - 1 /\ n.more \in BOOLEAN /\ n.more
         /\ pattern'[c] = p /\ historyEnd'[c] = nextSequence - 1 /\ queue'[c] = <<>>
  <1>1. /\ pattern'[c] = p /\ historyEnd'[c] = nextSequence - 1 /\ queue'[c] = <<>>
    BY DEF OpenWatch, Subscribe, LogTypeOK
  <1>2. conn[c].mode = "none"
    BY DEF OpenWatch, Accept
  <1>3. n = [Idle EXCEPT !.mode = "watch", !.phase = "starting", !.topic = p,
                         !.start = start, !.cursor = start, !.more = TRUE,
                         !.bound = historyEnd'[c]]
    BY Stepped DEF OpenWatch, Accept
  <1>4. Whole(n)
    BY <1>3 DEF Idle, Whole
  <1>. QED BY <1>1, <1>2, <1>3, <1>4, IdleFields DEF Idle, Fresh

LEMMA OpenReplayStep ==
  ASSUME Connected, NEW c \in Subscribers, NEW p \in Patterns, NEW start \in Cursors,
         NEW end \in Ends, OpenReplay(c, p, start, end), LogTypeOK, NEW n, n = conn'[c]
  PROVE  /\ conn[c].mode = "none" /\ Fresh(n) /\ UNCHANGED logVars
         /\ n.mode = "replay" /\ n.topic = p /\ n.start = start /\ n.end = end
         /\ n.phase = IF end.kind = "date" THEN "resolving" ELSE "starting"
         /\ n.bound \in Nat /\ n.bound <= nextSequence - 1 /\ n.more \in BOOLEAN /\ n.more
         /\ end.kind = "sequence" => n.bound <= end.value
  <1>1. conn[c].mode = "none" /\ UNCHANGED logVars
    BY DEF OpenReplay, Accept
  <1>2. n = [Idle EXCEPT
              !.mode = "replay", !.topic = p, !.start = start, !.end = end,
              !.cursor = start, !.more = TRUE,
              !.phase = IF end.kind = "date" THEN "resolving" ELSE "starting",
              !.bound = IF end.kind = "sequence" THEN Min({HistoryEnd, end.value})
                        ELSE HistoryEnd]
    BY Stepped DEF OpenReplay, Accept
  <1>3. n.bound = IF end.kind = "sequence" THEN Min({HistoryEnd, end.value})
                  ELSE HistoryEnd
    BY <1>2, IdleFields DEF Idle
  <1>4. HistoryEnd \in Nat /\ HistoryEnd = nextSequence - 1 /\ end.value \in Nat
    BY RequestsAssumption DEF HistoryEnd, LogTypeOK
  <1>5. n.bound \in Nat /\ n.bound <= nextSequence - 1 /\ (end.kind = "sequence" => n.bound <= end.value)
    <2>1. /\ Min({HistoryEnd, end.value}) \in {HistoryEnd, end.value}
          /\ Min({HistoryEnd, end.value}) <= HistoryEnd
          /\ Min({HistoryEnd, end.value}) <= end.value
      BY <1>4, MinOfNaturals
    <2>. QED BY <1>3, <1>4, <2>1
  <1>6. Whole(n)
    BY <1>2 DEF Idle, Whole
  <1>. QED BY <1>1, <1>2, <1>5, <1>6, IdleFields DEF Idle, Fresh

LEMMA ResolveEndStep ==
  ASSUME Connected, NEW c \in Subscribers, ResolveEnd(c), NEW k, k = conn[c],
         LogTypeOK, NEW n, n = conn'[c]
  PROVE  /\ k.phase = "resolving" /\ n.phase = "starting" /\ UNCHANGED logVars
         /\ Kept(k, n) /\ n.cursor = k.cursor /\ n.more = k.more /\ n.known = k.known
         /\ n.delivered = k.delivered /\ n.frames = k.frames /\ n.expired = k.expired
         /\ n.out = k.out
         /\ n.bound \in Nat /\ n.bound <= k.bound
         /\ \A m \in Matching(k.topic) :
              m.seq <= k.bound => (m.time <= k.end.value <=> m.seq <= n.bound)
  <1>1. PICK first \in 0..HistoryEnd :
          /\ IsFirstAfter(first, k.topic, k.end.value, k.bound)
          /\ Step(c, [k EXCEPT
                      !.phase = "starting",
                      !.bound = IF first = 0 THEN k.bound ELSE Min({k.bound, first - 1})])
    BY DEF ResolveEnd
  <1>2. k.phase = "resolving" /\ UNCHANGED logVars
    BY DEF ResolveEnd
  <1>3. k \in Connection /\ k.bound \in Nat
    BY DEF Connected, Connection
  <1>4. n = [k EXCEPT !.phase = "starting",
                      !.bound = IF first = 0 THEN k.bound ELSE Min({k.bound, first - 1})]
    BY <1>1, Stepped
  <1>5. n.bound = IF first = 0 THEN k.bound ELSE Min({k.bound, first - 1})
    BY <1>3, <1>4 DEF Connection
  <1>6. first \in Nat
    BY DEF HistoryEnd
  <1>9. /\ n.phase = "starting" /\ Kept(k, n) /\ n.cursor = k.cursor /\ n.more = k.more
        /\ n.known = k.known /\ n.delivered = k.delivered /\ n.frames = k.frames
        /\ n.expired = k.expired /\ n.out = k.out
    BY <1>3, <1>4 DEF Connection, Whole, Kept
  <1>7. CASE first = 0
    <2>1. n.bound = k.bound
      BY <1>5, <1>7
    <2>2. \A m \in Matching(k.topic) : m.seq <= k.bound => m.time <= k.end.value
      BY <1>1, <1>7 DEF IsFirstAfter
    <2>3. \A m \in Matching(k.topic) :
            m.seq <= k.bound => (m.time <= k.end.value <=> m.seq <= n.bound)
      BY <2>1, <2>2
    <2>4. n.bound <= k.bound
      BY <1>3, <2>1
    <2>. QED BY <1>2, <1>3, <1>9, <2>1, <2>3, <2>4
  <1>8. CASE first # 0
    <2>1. /\ n.bound \in {k.bound, first - 1} /\ n.bound <= k.bound /\ n.bound <= first - 1
      BY <1>3, <1>5, <1>6, <1>8, MinOfNaturals
    <2>2. \A m \in Matching(k.topic) : m.seq \in Nat
      BY MessageSeqs DEF Matching, LogTypeOK
    <2>3. \A m \in Matching(k.topic) :
            m.seq <= k.bound => (m.time <= k.end.value <=> m.seq < first)
      BY <1>1, <1>8 DEF IsFirstAfter
    <2>4. \A m \in Matching(k.topic) :
            m.seq <= k.bound => (m.time <= k.end.value <=> m.seq <= n.bound)
      <3> TAKE m \in Matching(k.topic)
      <3> HAVE m.seq <= k.bound
      <3>1. m.seq < first <=> m.seq <= n.bound
        BY <1>3, <1>6, <1>8, <2>1, <2>2
      <3>. QED BY <2>3, <3>1
    <2>5. n.bound \in Nat /\ n.bound <= k.bound
      BY <1>3, <1>6, <1>8, <2>1
    <2>. QED BY <1>2, <1>9, <2>4, <2>5
  <1>. QED BY <1>7, <1>8

LEMMA EmitStep ==
  ASSUME Connected, NEW c \in Subscribers, NEW kind, NEW seq, NEW phase,
         Emit(c, kind, seq, phase), NEW k, k = conn[c], NEW n, n = conn'[c]
  PROVE  /\ Kept(k, n) /\ Paged(k, n) /\ n.known = k.known /\ n.expired = k.expired
         /\ n.phase = phase /\ n.out = Append(k.out, Frame(kind, seq))
  <1>1. k \in Connection
    BY DEF Connected
  <1>2. n = [k EXCEPT !.phase = phase, !.out = Append(k.out, Frame(kind, seq))]
    BY Stepped DEF Emit
  <1>. QED BY <1>1, <1>2 DEF Connection, Whole, Kept, Paged

LEMMA EmitStartStep ==
  ASSUME Connected, NEW c \in Subscribers, EmitStart(c), NEW k, k = conn[c],
         NEW n, n = conn'[c]
  PROVE  /\ k.phase = "starting" /\ ~k.expired /\ UNCHANGED logVars
         /\ \/ k.mode = "live" /\ n.phase = "live" /\ Sends(k, n, "connection_established")
            \/ k.mode # "live" /\ n.phase = "replaying" /\ Sends(k, n, "replay_started")
  <1>1. k.phase = "starting" /\ ~k.expired /\ UNCHANGED logVars
    BY DEF EmitStart, Polled, StopReady
  <1>2. CASE k.mode = "live"
    BY <1>1, <1>2, EmitStep DEF EmitStart, Sends
  <1>3. CASE k.mode # "live"
    BY <1>1, <1>3, EmitStep DEF EmitStart, Sends
  <1>. QED BY <1>2, <1>3

LEMMA HeartbeatStep ==
  ASSUME Connected, NEW c \in Subscribers, Heartbeat(c), NEW k, k = conn[c],
         NEW n, n = conn'[c]
  PROVE  /\ k.phase \in {"replaying", "fetching", "live"} /\ k.mode # "replay"
         /\ UNCHANGED logVars /\ n.phase = k.phase /\ Sends(k, n, "heartbeat")
  BY EmitStep DEF Heartbeat, Polled, Sends

LEMMA CompleteReplayStep ==
  ASSUME Connected, NEW c \in Subscribers, CompleteReplay(c), NEW k, k = conn[c],
         NEW n, n = conn'[c]
  PROVE  /\ k.phase = "replaying" /\ ~k.expired /\ k.frames = <<>> /\ ~k.more
         /\ UNCHANGED logVars
         /\ n.phase = IF k.mode = "watch" THEN "live" ELSE "drained"
         /\ Sends(k, n, "replay_completed")
  BY EmitStep DEF CompleteReplay, Polled, StopReady, Sends

LEMMA CloseStep ==
  ASSUME Connected, NEW c \in Subscribers, Close(c), NEW k, k = conn[c],
         NEW n, n = conn'[c], LogTypeOK
  PROVE  /\ k.phase \in Opened /\ n.phase = "closed"
         /\ \/ cancelled /\ Sends(k, n, "server_shutdown")
            \/ k.expired /\ Sends(k, n, "max_duration_reached")
            \/ ~k.expired /\ k.phase = "drained" /\ Sends(k, n, "end_of_stream")
         /\ UNCHANGED logVars \/ Unsubscribe(c)
         /\ pattern'[c] = {}
  <1>1. k.phase \in Opened /\ DropStream(c)
    BY DEF Close
  <1>2. PICK reason \in CloseReasons(c) : Emit(c, reason, 0, "closed")
    BY DEF Close
  <1>3. Sends(k, n, reason) /\ n.phase = "closed"
    BY <1>2, EmitStep DEF Sends
  <1>4. \/ reason = "server_shutdown" /\ cancelled
        \/ reason = "max_duration_reached" /\ k.expired
        \/ reason = "end_of_stream" /\ ~k.expired /\ k.phase = "drained"
    BY DEF CloseReasons, StopReady
  <1>5. (UNCHANGED logVars \/ Unsubscribe(c)) /\ pattern'[c] = {}
    BY <1>1 DEF DropStream, logVars, Unsubscribe, LogTypeOK
  <1>. QED BY <1>1, <1>3, <1>4, <1>5

LEMMA LeaveStep ==
  ASSUME Connected, NEW c \in Subscribers, Leave(c), NEW k, k = conn[c],
         NEW n, n = conn'[c], LogTypeOK
  PROVE  /\ k.phase \in Opened \cup {"resolving"} /\ n.phase = "closed" /\ Rests(k, n)
         /\ n.known = k.known /\ n.expired = k.expired
         /\ UNCHANGED logVars \/ Unsubscribe(c)
         /\ pattern'[c] = {}
  <1>1. k.phase \in Opened \cup {"resolving"} /\ DropStream(c)
    BY DEF Leave
  <1>2. n = [k EXCEPT !.phase = "closed"] /\ k \in Connection
    BY Stepped DEF Leave, Connected
  <1>3. n.phase = "closed" /\ Rests(k, n) /\ n.known = k.known /\ n.expired = k.expired
    BY <1>2 DEF Connection, Rests, Whole, Kept, Paged
  <1>4. (UNCHANGED logVars \/ Unsubscribe(c)) /\ pattern'[c] = {}
    BY <1>1 DEF DropStream, logVars, Unsubscribe, LogTypeOK
  <1>. QED BY <1>1, <1>3, <1>4

LEMMA ExpireStep ==
  ASSUME Connected, NEW c \in Subscribers, Expire(c), NEW k, k = conn[c],
         NEW n, n = conn'[c]
  PROVE  /\ k.mode # "replay" /\ k.phase \in Opened \ {"starting"}
         /\ n.phase = k.phase /\ Rests(k, n) /\ n.known = k.known /\ n.expired \in BOOLEAN /\ n.expired
         /\ UNCHANGED logVars
  <1>1. n = [k EXCEPT !.expired = TRUE] /\ k \in Connection
    BY Stepped DEF Expire, Connected
  <1>. QED BY <1>1 DEF Expire, Connection, Rests, Whole, Kept, Paged

LEMMA RequestBatchStep ==
  ASSUME Connected, NEW c \in Subscribers, RequestBatch(c), NEW k, k = conn[c],
         NEW n, n = conn'[c]
  PROVE  /\ k.phase = "replaying" /\ k.frames = <<>> /\ k.more
         /\ n.phase = "fetching" /\ Rests(k, n) /\ n.expired = k.expired
         /\ n.known = InRange(retained, k.topic, k.cursor, k.bound)
         /\ UNCHANGED logVars
  <1> DEFINE found == InRange(retained, k.topic, k.cursor, k.bound)
  <1>1. n = [k EXCEPT !.phase = "fetching", !.known = found] /\ k \in Connection
    BY Stepped DEF RequestBatch, Connected
  <1>2. k.phase = "replaying" /\ k.frames = <<>> /\ k.more /\ UNCHANGED logVars
    BY DEF RequestBatch, Polled
  <1> HIDE DEF found
  <1>3. n.phase = "fetching" /\ Rests(k, n) /\ n.expired = k.expired /\ n.known = found
    BY <1>1 DEF Connection, Rests, Whole, Kept, Paged
  <1>. QED BY <1>2, <1>3 DEF found

\* A batch as its two parameters leave it.
Fetches(k, n, next, page) ==
  LET quota == MaxAllowed - k.delivered
      messages == Accepted(page)
      counted == Counted(messages, Len(messages))
  IN /\ IsBatch(page, next # 0, next, k.known, k.topic, k.cursor, k.bound)
     /\ n.phase = "replaying" /\ n.known = {} /\ n.bound = k.bound
     /\ n.cursor = NextCursor(k, next)
     /\ n.more = GoesOn(next, counted, quota)
     /\ n.delivered = Min({MaxAllowed, k.delivered + counted})
     /\ n.frames = BatchFrames(messages, quota)
     /\ n.out = k.out

LEMMA FetchBatchStep ==
  ASSUME Connected, NEW c \in Subscribers, FetchBatch(c), NEW k, k = conn[c],
         NEW n, n = conn'[c]
  PROVE  /\ k.phase = "fetching" /\ Kept(k, n) /\ n.expired = k.expired /\ UNCHANGED logVars
         /\ \E next \in 0..k.bound, page \in SUBSET k.known : Fetches(k, n, next, page)
  <1>1. k.phase = "fetching" /\ UNCHANGED logVars /\ k \in Connection
    BY DEF FetchBatch, Polled, Connected
  <1>2. PICK next \in 0..k.bound, page \in SUBSET k.known :
          LET quota == MaxAllowed - k.delivered
              messages == Accepted(page)
              counted == Counted(messages, Len(messages))
          IN /\ IsBatch(page, next # 0, next, k.known, k.topic, k.cursor, k.bound)
             /\ Step(c, [k EXCEPT
                  !.phase = "replaying", !.known = {},
                  !.cursor = NextCursor(k, next),
                  !.more = GoesOn(next, counted, quota),
                  !.delivered = Min({MaxAllowed, k.delivered + counted}),
                  !.frames = BatchFrames(messages, quota)])
    BY DEF FetchBatch
  <1> DEFINE quota == MaxAllowed - k.delivered
             messages == Accepted(page)
             counted == Counted(messages, Len(messages))
             cursor == NextCursor(k, next)
             more == GoesOn(next, counted, quota)
             delivered == Min({MaxAllowed, k.delivered + counted})
             frames == BatchFrames(messages, quota)
  <1>3. /\ IsBatch(page, next # 0, next, k.known, k.topic, k.cursor, k.bound)
        /\ Step(c, [k EXCEPT !.phase = "replaying", !.known = {}, !.cursor = cursor,
                             !.more = more, !.delivered = delivered, !.frames = frames])
    BY <1>2
  <1> HIDE DEF cursor, more, delivered, frames
  <1>4. n = [k EXCEPT !.phase = "replaying", !.known = {}, !.cursor = cursor,
                      !.more = more, !.delivered = delivered, !.frames = frames]
    BY <1>3, Stepped
  <1>5. /\ Kept(k, n) /\ n.expired = k.expired
        /\ n.phase = "replaying" /\ n.known = {} /\ n.bound = k.bound
        /\ n.cursor = cursor /\ n.more = more /\ n.delivered = delivered
        /\ n.frames = frames /\ n.out = k.out
    BY <1>1, <1>4 DEF Connection, Whole, Kept
  <1>6. Fetches(k, n, next, page)
    BY <1>3, <1>5 DEF Fetches, cursor, more, delivered, frames
  <1>. QED BY <1>1, <1>5, <1>6

LEMMA FetchFailsStep ==
  ASSUME Connected, NEW c \in Subscribers, FetchFails(c), NEW k, k = conn[c],
         NEW n, n = conn'[c]
  PROVE  /\ k.phase = "fetching" /\ n.phase = "replaying" /\ UNCHANGED logVars
         /\ Kept(k, n) /\ n.expired = k.expired /\ n.known = {} /\ n.more \in BOOLEAN /\ ~n.more
         /\ n.bound = k.bound /\ n.cursor = k.cursor /\ n.delivered = k.delivered
         /\ n.frames = <<Frame("replay_failed", 0)>> /\ n.out = k.out
  <1>1. /\ n = [k EXCEPT !.phase = "replaying", !.known = {}, !.more = FALSE,
                         !.frames = <<Frame("replay_failed", 0)>>]
        /\ k \in Connection
    BY Stepped DEF FetchFails, Connected
  <1>2. k.phase = "fetching" /\ UNCHANGED logVars
    BY DEF FetchFails, Polled
  <1>. QED BY <1>1, <1>2 DEF Connection, Whole, Kept

\* What a frame of a replay changes.
ReplayEmitted(k, n) ==
  /\ k.phase = "replaying" /\ k.frames # <<>> /\ ~k.expired
  /\ n.phase = IF Head(k.frames).kind \in Terminal THEN "drained" ELSE "replaying"
  /\ Kept(k, n) /\ n.expired = k.expired /\ n.known = k.known /\ n.more = k.more
  /\ n.bound = k.bound /\ n.cursor = k.cursor /\ n.delivered = k.delivered
  /\ n.frames = Tail(k.frames) /\ n.out = Append(k.out, Head(k.frames))

LEMMA EmitReplayStep ==
  ASSUME Connected, NEW c \in Subscribers, EmitReplay(c), NEW k, k = conn[c],
         NEW n, n = conn'[c]
  PROVE  ReplayEmitted(k, n) /\ UNCHANGED logVars
  <1>1. /\ n = [k EXCEPT !.phase = IF Head(k.frames).kind \in Terminal THEN "drained"
                                   ELSE k.phase,
                         !.frames = Tail(k.frames),
                         !.out = Append(k.out, Head(k.frames))]
        /\ k \in Connection
    BY Stepped DEF EmitReplay, Connected
  <1>2. k.phase = "replaying" /\ k.frames # <<>> /\ ~k.expired /\ UNCHANGED logVars
    BY DEF EmitReplay, Polled, StopReady
  <1>. QED BY <1>1, <1>2 DEF Connection, Whole, Kept, ReplayEmitted

LEMMA EmitLiveStep ==
  ASSUME Connected, NEW c \in Subscribers, EmitLive(c), NEW k, k = conn[c],
         NEW n, n = conn'[c]
  PROVE  /\ k.phase = "live" /\ ~k.expired /\ n.phase = "live" /\ Receive(c)
         /\ Kept(k, n) /\ Paged(k, n) /\ n.known = k.known /\ n.expired = k.expired
         /\ \/ Head(queue[c]).payload \in Excluded /\ n.out = k.out
            \/ /\ Head(queue[c]).payload \notin Excluded
               /\ n.out = Append(k.out, Rendered(Head(queue[c]), "live"))
  <1>1. k.phase = "live" /\ ~k.expired /\ Receive(c) /\ k \in Connection
    BY DEF EmitLive, Polled, StopReady, Connected
  <1>2. CASE Head(queue[c]).payload \in Excluded
    <2>1. n = k
      BY <1>2, Stepped DEF EmitLive
    <2>2. Whole(k)
      BY <1>1 DEF Connection, Whole
    <2>. QED BY <1>1, <1>2, <2>1, <2>2 DEF Kept, Paged
  <1>3. CASE Head(queue[c]).payload \notin Excluded
    <2>1. Emit(c, Rendered(Head(queue[c]), "live").kind, Rendered(Head(queue[c]), "live").seq, "live")
      BY <1>3 DEF EmitLive
    <2>2. Rendered(Head(queue[c]), "live")
            = Frame(Rendered(Head(queue[c]), "live").kind, Rendered(Head(queue[c]), "live").seq)
      BY DEF Rendered, Frame
    <2>. QED BY <1>1, <1>3, <2>1, <2>2, EmitStep
  <1>. QED BY <1>2, <1>3

-----------------------------------------------------------------------------
(* The frames of a batch.                                                   *)

LEMMA FrameTypes ==
  /\ \A m \in Message, kind \in {"replay", "live"} :
       /\ Rendered(m, kind) \in Frames /\ Rendered(m, kind).seq = m.seq
       /\ Rendered(m, kind).kind = IF m.payload \in Unrenderable THEN "error" ELSE kind
  /\ \A kind \in FrameKinds :
       Frame(kind, 0) \in Frames /\ Frame(kind, 0).kind = kind /\ Frame(kind, 0).seq = 0
  <1>1. \A m \in Message : m.seq \in Nat
    BY MessageSeqs
  <1>2. {"error", "replay", "live"} \subseteq FrameKinds
    BY DEF FrameKinds
  <1>. QED BY <1>1, <1>2 DEF Rendered, Frame, Frames

\* The count that is held against the quota starts from nothing and goes up by
\* one with each message that can be rendered.
LEMMA CountedGrows ==
  ASSUME NEW messages \in Seq(Message)
  PROVE  /\ Counted(messages, 0) = 0
         /\ \A i \in 0..Len(messages) :
              IsFiniteSet({j \in 1..i : messages[j].payload \notin Unrenderable})
              /\ Counted(messages, i) \in Nat
         /\ \A i \in 1..Len(messages) :
              Counted(messages, i) = Counted(messages, i - 1)
                + (IF messages[i].payload \in Unrenderable THEN 0 ELSE 1)
         /\ \A i \in 0..Len(messages) : Counted(messages, i) <= Counted(messages, Len(messages))
  <1> DEFINE First(i) == {j \in 1..i : messages[j].payload \notin Unrenderable}
  <1>1. Len(messages) \in Nat
    BY LenProperties
  <1>2. \A i \in 0..Len(messages) :
          IsFiniteSet(First(i)) /\ Cardinality(First(i)) \in Nat
    <2> TAKE i \in 0..Len(messages)
    <2>1. IsFiniteSet(1..i) /\ First(i) \subseteq 1..i
      BY <1>1, FS_Interval
    <2>. QED BY <2>1, FS_Subset, FS_CardinalityType
  <1>3. First(0) = {}
    OBVIOUS
  <1>4. ASSUME NEW i \in 1..Len(messages)
        PROVE  Cardinality(First(i)) = Cardinality(First(i - 1))
                 + (IF messages[i].payload \in Unrenderable THEN 0 ELSE 1)
    <2>5. i - 1 \in 0..Len(messages)
      BY <1>1
    <2>1. IsFiniteSet(First(i - 1)) /\ Cardinality(First(i - 1)) \in Nat
      <3> HIDE DEF First
      <3>. QED BY <1>2, <2>5
    <2>2. i \notin First(i - 1)
      BY <1>1
    <2>3. CASE messages[i].payload \in Unrenderable
      <3>1. First(i) = First(i - 1)
        BY <1>1, <2>3
      <3>. HIDE DEF First
      <3>. QED BY <2>1, <2>3, <3>1
    <2>4. CASE messages[i].payload \notin Unrenderable
      <3>1. First(i) = First(i - 1) \cup {i}
        BY <1>1, <2>4
      <3>. HIDE DEF First
      <3>. QED BY <2>1, <2>2, <2>4, <3>1, FS_AddElement
    <2>. QED BY <2>3, <2>4
  <1>5. ASSUME NEW i \in 0..Len(messages)
        PROVE  Cardinality(First(i)) <= Cardinality(First(Len(messages)))
    <2>1. First(i) \subseteq First(Len(messages)) /\ IsFiniteSet(First(Len(messages)))
      BY <1>1, <1>2
    <2>. QED BY <2>1, FS_Subset
  <1>. QED BY <1>2, <1>3, <1>4, <1>5, FS_EmptySet DEF Counted

\* What a batch puts out: every message while the quota lasts, and the limit
\* control in place of the first notification beyond it.
Puts(new, messages, quota, shown) ==
  LET total == Counted(messages, Len(messages)) IN
  /\ shown \in 0..Len(messages)
  /\ new \in Seq(Frames)
  /\ \A i \in 1..shown : new[i] = Rendered(messages[i], "replay")
  /\ \/ /\ total <= quota /\ shown = Len(messages)
        /\ DOMAIN new = 1..shown
     \/ /\ total > quota /\ shown < Len(messages) /\ Counted(messages, shown) = quota
        /\ messages[shown + 1].payload \notin Unrenderable
        /\ DOMAIN new = 1..(shown + 1) /\ new[shown + 1] = Frame("replay_limit_reached", 0)

LEMMA BatchPuts ==
  ASSUME NEW messages \in Seq(Message), NEW quota \in Nat
  PROVE  \E shown \in 0..Len(messages) :
           Puts(BatchFrames(messages, quota), messages, quota, shown)
  <1> DEFINE n == Len(messages)
             total == Counted(messages, n)
             over == {i \in DOMAIN messages : Counted(messages, i) > quota}
             shown == IF over = {} THEN n ELSE Min(over) - 1
             front == [i \in 1..shown |-> Rendered(messages[i], "replay")]
             back == IF over = {} THEN <<>> ELSE <<Frame("replay_limit_reached", 0)>>
  <1>1. n \in Nat /\ DOMAIN messages = 1..n /\ \A i \in 1..n : messages[i] \in Message
    BY LenProperties, ElementOfSeq
  <1>2. BatchFrames(messages, quota) = front \o back
    BY DEF BatchFrames
  <1>3. /\ Counted(messages, 0) = 0
        /\ \A i \in 0..n : Counted(messages, i) \in Nat
        /\ \A i \in 1..n : Counted(messages, i) = Counted(messages, i - 1)
                             + (IF messages[i].payload \in Unrenderable THEN 0 ELSE 1)
        /\ \A i \in 0..n : Counted(messages, i) <= total
    BY CountedGrows
  <1>4. /\ shown \in 0..n
        /\ over = {} => total <= quota
        /\ over # {} => /\ total > quota /\ shown < n /\ Counted(messages, shown) = quota
                        /\ messages[shown + 1].payload \notin Unrenderable
    <2>1. CASE over = {}
      <3>1. total <= quota
        BY <1>1, <1>3, <2>1
      <3>. QED BY <1>1, <2>1, <3>1
    <2>2. CASE over # {}
      <3>10. over \in SUBSET Nat /\ over \subseteq 1..n
        BY <1>1
      <3>1. Min(over) \in over /\ \A i \in over : Min(over) <= i
        <4> HIDE DEF over
        <4>. QED BY <2>2, <3>10, MinOfNaturals
      <3>2. PICK i \in 1..n : i = Min(over)
        BY <1>1, <3>1
      <3>3. Counted(messages, i) > quota
        BY <3>1, <3>2
      <3>4. Counted(messages, i - 1) <= quota
        <4>1. CASE i = 1
          BY <1>3, <4>1
        <4>2. CASE i # 1
          <5>1. i - 1 \in 1..n /\ ~(i <= i - 1)
            BY <1>1, <4>2
          <5>2. i - 1 \notin over
            <6> HIDE DEF over
            <6>. QED BY <3>1, <3>2, <5>1
          <5>3. Counted(messages, i - 1) \in Nat /\ ~(Counted(messages, i - 1) > quota)
            BY <1>1, <1>3, <5>1, <5>2
          <5>. QED BY <5>3
        <4>. QED BY <4>1, <4>2
      <3>5. i - 1 \in 0..n /\ i \in 0..n
        BY <1>1
      <3>6. /\ Counted(messages, i - 1) = quota
            /\ messages[i].payload \notin Unrenderable
        BY <1>3, <3>3, <3>4, <3>5
      <3>7. total > quota
        BY <1>1, <1>3, <3>3, <3>5
      <3>8. shown = i - 1 /\ shown + 1 = i
        BY <2>2, <3>2
      <3>. QED BY <1>1, <2>2, <3>5, <3>6, <3>7, <3>8, SMTT(30)
    <2>. QED BY <2>1, <2>2
  <1>5. shown \in Nat
    BY <1>1, <1>4
  <1> HIDE DEF shown, over, total
  <1>6. \A i \in 1..shown : Rendered(messages[i], "replay") \in Frames
    BY <1>1, <1>4, FrameTypes
  <1>7. front \in Seq(Frames) /\ Len(front) = shown
    <2>1. front \in [1..shown -> Frames]
      BY <1>6
    <2>2. front \in Seq(Frames)
      BY <1>5, <2>1, SeqDef
    <2>. QED BY <1>5, <2>2, LenProperties
  <1>8. Frame("replay_limit_reached", 0) \in Frames
    BY FrameTypes DEF FrameKinds
  <1>9. /\ back \in Seq(Frames)
        /\ over = {} => Len(back) = 0
        /\ over # {} => Len(back) = 1 /\ back[1] = Frame("replay_limit_reached", 0)
    BY <1>8
  <1>10. \A i \in 1..shown : front[i] = Rendered(messages[i], "replay")
    OBVIOUS
  <1> HIDE DEF front, back, n
  <1> DEFINE new == front \o back
  <1>11. /\ new \in Seq(Frames) /\ Len(new) = shown + Len(back)
         /\ \A i \in 1..(shown + Len(back)) :
              new[i] = IF i <= shown THEN front[i] ELSE back[i - shown]
    BY <1>7, <1>9, ConcatProperties
  <1>12. DOMAIN new = 1..(shown + Len(back)) /\ Len(back) \in Nat
    BY <1>9, <1>11, LenProperties
  <1> HIDE DEF new
  <1>13. \A i \in 1..shown : new[i] = Rendered(messages[i], "replay")
    BY <1>5, <1>10, <1>11, <1>12
  <1>14. CASE over = {}
    <2>1. DOMAIN new = 1..shown /\ shown = n
      BY <1>5, <1>9, <1>12, <1>14 DEF shown
    <2>. QED BY <1>2, <1>4, <1>11, <1>13, <1>14, <2>1 DEF Puts, n, total, new
  <1>15. CASE over # {}
    <2>1. DOMAIN new = 1..(shown + 1) /\ new[shown + 1] = Frame("replay_limit_reached", 0)
      BY <1>5, <1>9, <1>11, <1>12, <1>15
    <2>. QED BY <1>2, <1>4, <1>11, <1>13, <1>15, <2>1 DEF Puts, n, total, new
  <1>. QED BY <1>14, <1>15

\* The messages of a page that pass the filters, in order.
LEMMA AcceptedMessages ==
  ASSUME LogInv, NEW page \in SUBSET ToSet(published)
  PROVE  /\ Accepted(page) \in Seq(Message) /\ Ascending(Accepted(page))
         /\ \A i \in DOMAIN Accepted(page) :
              Accepted(page)[i] \in page /\ Accepted(page)[i].payload \notin Excluded
         /\ \A m \in page : m.payload \notin Excluded =>
              \E i \in DOMAIN Accepted(page) : Accepted(page)[i] = m
  <1> DEFINE kept == {m \in page : m.payload \notin Excluded}
  <1>1. ToSet(published) \subseteq Message
    BY EverStored
  <1>2. Numbered(ToSet(published))
    <2>1. \A m \in Message : m.seq \in Nat
      BY MessageSeqs
    <2>2. \A i, j \in DOMAIN published : i < j => published[i].seq < published[j].seq
      BY DEF LogInv, HistoryKept
    <2>. QED BY <2>1, <2>2, QueueNumbered DEF LogInv
  <1>3. Numbered(kept)
    BY <1>2, NumberedSubset
  <1>4. /\ Accepted(page) \in Seq(kept) /\ DOMAIN Accepted(page) = 1..Cardinality(kept)
        /\ \A i \in 1..Cardinality(kept) : Accepted(page)[i] \in kept
        /\ \A m \in kept : \E i \in 1..Cardinality(kept) : Accepted(page)[i] = m
        /\ \A i, j \in 1..Cardinality(kept) :
             i < j => Accepted(page)[i].seq < Accepted(page)[j].seq
    BY <1>3, BySequenceOrders DEF Accepted
  <1>5. Accepted(page) \in Seq(Message)
    BY <1>1, <1>4, SeqMonotonic
  <1>. QED BY <1>4, <1>5 DEF Ascending

-----------------------------------------------------------------------------
(* The steps of one connection leave the others alone.                      *)

Turn(c) ==
  \/ \E p \in Patterns : OpenLive(c, p)
  \/ \E p \in Patterns, start \in Cursors : OpenWatch(c, p, start)
  \/ \E p \in Patterns, start \in Cursors, end \in Ends : OpenReplay(c, p, start, end)
  \/ ResolveEnd(c) \/ EmitStart(c) \/ RequestBatch(c) \/ FetchBatch(c)
  \/ EmitReplay(c) \/ CompleteReplay(c) \/ EmitLive(c) \/ Close(c)
  \/ Heartbeat(c) \/ FetchFails(c) \/ Expire(c) \/ Leave(c)

LEMMA StepCases ==
  ASSUME [Next]_vars
  PROVE  \/ \E t \in Topics, b \in Payloads : Publish(t, b)
         \/ Environment
         \/ Shutdown
         \/ \E c \in Subscribers : Turn(c)
         \/ UNCHANGED vars
  BY DEF Next, Serve, Turn

LEMMA TurnSteps ==
  ASSUME NEW c \in Subscribers, Turn(c)
  PROVE  (\E n : Step(c, n)) /\ OwnLog(c)
  <1>1. CASE \E p \in Patterns : OpenLive(c, p)
    BY <1>1 DEF OpenLive, Accept, OwnLog
  <1>2. CASE \E p \in Patterns, start \in Cursors : OpenWatch(c, p, start)
    BY <1>2 DEF OpenWatch, Accept, OwnLog
  <1>3. CASE \E p \in Patterns, start \in Cursors, end \in Ends : OpenReplay(c, p, start, end)
    BY <1>3 DEF OpenReplay, Accept, OwnLog
  <1>4. CASE ResolveEnd(c)
    BY <1>4 DEF ResolveEnd, OwnLog
  <1>5. CASE EmitStart(c)
    BY <1>5 DEF EmitStart, Emit, OwnLog
  <1>6. CASE RequestBatch(c)
    BY <1>6 DEF RequestBatch, OwnLog
  <1>7. CASE FetchBatch(c)
    BY <1>7 DEF FetchBatch, OwnLog
  <1>8. CASE EmitReplay(c)
    BY <1>8 DEF EmitReplay, OwnLog
  <1>9. CASE CompleteReplay(c)
    BY <1>9 DEF CompleteReplay, Emit, OwnLog
  <1>10. CASE EmitLive(c)
    BY <1>10 DEF EmitLive, Emit, OwnLog
  <1>11. CASE Close(c)
    BY <1>11 DEF Close, Emit, DropStream, OwnLog
  <1>12. CASE Heartbeat(c)
    BY <1>12 DEF Heartbeat, Emit, OwnLog
  <1>13. CASE FetchFails(c)
    BY <1>13 DEF FetchFails, OwnLog
  <1>14. CASE Expire(c)
    BY <1>14 DEF Expire, OwnLog
  <1>15. CASE Leave(c)
    BY <1>15 DEF Leave, DropStream, OwnLog
  <1>. QED BY <1>1, <1>2, <1>3, <1>4, <1>5, <1>6, <1>7, <1>8, <1>9, <1>10, <1>11,
              <1>12, <1>13, <1>14, <1>15 DEF Turn

LEMMA TurnFrame ==
  ASSUME LogInv, Connected, NEW c \in Subscribers, Turn(c)
  PROVE  /\ LogInv'
         /\ UNCHANGED <<nextSequence, clock, retained, cancelled, published, lost>>
         /\ \A d \in Subscribers \ {c} :
              /\ conn'[d] = conn[d] /\ pattern'[d] = pattern[d]
              /\ historyEnd'[d] = historyEnd[d] /\ queue'[d] = queue[d]
         /\ DOMAIN conn' = Subscribers /\ conn' = [d \in Subscribers |-> conn'[d]]
         /\ ToSet(queue'[c]) \subseteq ToSet(queue[c])
  <1>1. PICK n : Step(c, n)
    BY TurnSteps
  <1>2. /\ DOMAIN conn' = Subscribers /\ conn' = [d \in Subscribers |-> conn'[d]]
        /\ \A d \in Subscribers \ {c} : conn'[d] = conn[d]
        /\ UNCHANGED <<cancelled, published, lost>>
    BY <1>1, Stepped
  <1>3. OwnLog(c)
    BY TurnSteps
  <1>. QED BY <1>2, <1>3, LogOwn

-----------------------------------------------------------------------------
(* The shape of a connection in each of its phases.                         *)

Catching == {"replaying", "fetching"}

\* A batch in the order it goes out; only its last frame ends the stream, and
\* the others stand for messages.
WellEnded(q) ==
  \A i \in DOMAIN q :
    /\ q[i].kind \in {"replay", "error"} \cup Terminal
    /\ q[i].kind \in Terminal => i = Len(q) /\ q[i].seq = 0
    /\ q[i].kind \notin Terminal => q[i].seq # 0

Shape(k, pat, hist, next, pub) ==
  /\ k \in Connection
  /\ WellEnded(k.frames)
  /\ k.known \subseteq pub
  /\ k.bound < next
  /\ k.mode = "none" <=> k.phase = "idle"
  /\ k.phase = "idle" => k = Idle
  /\ k.phase = "resolving" => k.mode = "replay" /\ k.end.kind = "date"
  /\ k.phase \in Catching \cup {"drained"} => k.mode \in {"watch", "replay"}
  /\ k.phase = "live" => k.mode \in {"live", "watch"}
  /\ k.mode \in {"live", "watch"} => k.phase \in Opened \cup {"closed"}
  /\ pat = IF k.mode \in {"live", "watch"} /\ k.phase \in Opened THEN k.topic ELSE {}
  /\ pat # {} => hist = k.bound
  /\ k.expired => k.mode # "replay" /\ k.phase \notin {"idle", "resolving", "starting"}
  /\ k.phase \in {"idle", "resolving", "starting"} =>
       /\ k.out = <<>> /\ k.frames = <<>> /\ k.delivered = 0 /\ k.cursor = k.start
       /\ k.known = {}
  /\ k.mode = "live" => k.frames = <<>> /\ ~k.more
  /\ k.mode \in {"watch", "replay"} /\ k.phase \in {"resolving", "starting"} => k.more
  /\ k.mode # "none" => k.topic \in Patterns
  /\ k.mode \in {"live", "watch"} => k.end = Latest
  /\ k.frames # <<>> => k.phase \in {"replaying", "closed"}
  /\ k.phase = "fetching" => k.more

ShapeOf(c) ==
  Shape(conn[c], pattern[c], historyEnd[c], nextSequence, ToSet(published))

ShapeInv == LogInv /\ Connected /\ \A c \in Subscribers : ShapeOf(c)

LEMMA IdleShape ==
  /\ Idle \in Connection
  /\ \A next \in Nat \ {0} : \A hist, pub : Shape(Idle, {}, hist, next, pub)
  <1>1. /\ <<>> \in Seq(Frames) /\ 0 \in 0..MaxAllowed
    BY QuotaAssumption
  <1>2. Idle \in Connection
    BY <1>1 DEF Idle, Connection, Phases, FromSequence, Latest
  <1>3. WellEnded(<<>>)
    BY DEF WellEnded
  <1>. QED BY <1>2, <1>3, IdleFields DEF Shape, Catching, Opened

\* A control frame fits behind what was sent.
LEMMA Appended ==
  ASSUME NEW q \in Seq(Frames), NEW f \in Frames
  PROVE  /\ Append(q, f) \in Seq(Frames)
         /\ DOMAIN Append(q, f) = 1..(Len(q) + 1)
         /\ DOMAIN q = 1..Len(q) /\ Len(q) \in Nat
         /\ \A i \in 1..Len(q) : Append(q, f)[i] = q[i] /\ q[i] \in Frames
         /\ Append(q, f)[Len(q) + 1] = f
         /\ ToSet(Append(q, f)) = ToSet(q) \cup {f}
         /\ ToSet(q) \subseteq Frames
  <1>1. /\ Append(q, f) \in Seq(Frames) /\ Len(Append(q, f)) = Len(q) + 1
        /\ \A i \in 1..Len(q) : Append(q, f)[i] = q[i]
        /\ Append(q, f)[Len(q) + 1] = f
    BY AppendProperties
  <1>2. /\ DOMAIN Append(q, f) = 1..(Len(q) + 1)
        /\ DOMAIN q = 1..Len(q) /\ Len(q) \in Nat
    BY <1>1, LenProperties
  <1>3. \A i \in 1..Len(q) : q[i] \in Frames
    BY ElementOfSeq
  <1>4. ToSet(Append(q, f)) = ToSet(q) \cup {f}
    BY <1>1, <1>2 DEF ToSet
  <1>. QED BY <1>1, <1>2, <1>3, <1>4 DEF ToSet

LEMMA SendsTypes ==
  ASSUME NEW k \in Connection, NEW n, NEW kind \in FrameKinds, Sends(k, n, kind)
  PROVE  n.out \in Seq(Frames)
  BY FrameTypes, Appended DEF Sends, Connection

LEMMA ConnectionFields ==
  ASSUME NEW k \in Connection
  PROVE  /\ k.mode \in {"none", "live", "watch", "replay"} /\ k.phase \in Phases
         /\ k.topic \in Patterns \cup {{}} /\ k.start \in Cursors \cup {FromSequence(0)}
         /\ k.end \in Ends \cup {Latest} /\ k.bound \in Nat
         /\ k.cursor \in [kind : {"sequence", "date"}, value : Nat]
         /\ k.start \in [kind : {"sequence", "date"}, value : Nat]
         /\ k.end \in [kind : {"sequence", "date", "latest"}, value : Nat]
         /\ k.more \in BOOLEAN /\ k.known \subseteq Message /\ k.frames \in Seq(Frames)
         /\ k.delivered \in 0..MaxAllowed /\ k.expired \in BOOLEAN
         /\ k.out \in Seq(Frames)
  <1>1. FromSequence(0) \in [kind : {"sequence", "date"}, value : Nat]
    BY DEF FromSequence
  <1>2. Latest \in [kind : {"sequence", "date", "latest"}, value : Nat]
    BY DEF Latest
  <1>. QED BY <1>1, <1>2, RequestsAssumption DEF Connection

LEMMA ConnectionType ==
  ASSUME NEW n, Whole(n),
         n.mode \in {"none", "live", "watch", "replay"}, n.phase \in Phases,
         n.topic \in Patterns \cup {{}}, n.start \in Cursors \cup {FromSequence(0)},
         n.end \in Ends \cup {Latest}, n.bound \in Nat,
         n.cursor \in [kind : {"sequence", "date"}, value : Nat],
         n.more \in BOOLEAN, n.known \subseteq Message, n.frames \in Seq(Frames),
         n.delivered \in 0..MaxAllowed, n.expired \in BOOLEAN, n.out \in Seq(Frames)
  PROVE  n \in Connection
  BY DEF Whole, Connection

\* A step that keeps the request keeps the types but for what it sets.
LEMMA KeptType ==
  ASSUME NEW k \in Connection, NEW n, Kept(k, n), n.phase \in Phases, n.bound \in Nat,
         n.cursor \in [kind : {"sequence", "date"}, value : Nat],
         n.more \in BOOLEAN, n.known \subseteq Message, n.frames \in Seq(Frames),
         n.delivered \in 0..MaxAllowed, n.expired \in BOOLEAN, n.out \in Seq(Frames)
  PROVE  n \in Connection
  <1>1. /\ n.mode \in {"none", "live", "watch", "replay"}
        /\ n.topic \in Patterns \cup {{}} /\ n.start \in Cursors \cup {FromSequence(0)}
        /\ n.end \in Ends \cup {Latest} /\ Whole(n)
    BY ConnectionFields DEF Kept
  <1>. QED BY <1>1, ConnectionType

LEMMA RestsType ==
  ASSUME NEW k \in Connection, NEW n, Rests(k, n), n.phase \in Phases,
         n.known \subseteq Message, n.expired \in BOOLEAN
  PROVE  n \in Connection
  BY ConnectionFields, KeptType DEF Rests, Paged

LEMMA SendsType ==
  ASSUME NEW k \in Connection, NEW n, NEW kind \in FrameKinds, Sends(k, n, kind),
         n.phase \in Phases
  PROVE  n \in Connection
  BY ConnectionFields, KeptType, SendsTypes DEF Sends, Paged

LEMMA FreshType ==
  ASSUME NEW n, Fresh(n), n.mode \in {"live", "watch", "replay"}, n.phase \in Phases,
         n.topic \in Patterns, n.start \in Cursors \cup {FromSequence(0)},
         n.end \in Ends \cup {Latest}, n.bound \in Nat, n.more \in BOOLEAN
  PROVE  n \in Connection
  <1>1. n.cursor \in [kind : {"sequence", "date"}, value : Nat]
    BY RequestsAssumption DEF Fresh, FromSequence
  <1>2. /\ n.known \subseteq Message /\ n.frames \in Seq(Frames)
        /\ n.delivered \in 0..MaxAllowed /\ n.expired \in BOOLEAN /\ n.out \in Seq(Frames)
        /\ Whole(n)
    BY QuotaAssumption DEF Fresh
  <1>. QED BY <1>1, <1>2, ConnectionType

LEMMA OpeningShape ==
  ASSUME ShapeInv, NEW c \in Subscribers,
         \/ \E p \in Patterns : OpenLive(c, p)
         \/ \E p \in Patterns, start \in Cursors : OpenWatch(c, p, start)
         \/ \E p \in Patterns, start \in Cursors, end \in Ends : OpenReplay(c, p, start, end)
  PROVE  ShapeOf(c)'
  <1> DEFINE n == conn'[c]
             shape == Shape(n, pattern'[c], historyEnd'[c], nextSequence, ToSet(published))
  <1>1. LogTypeOK /\ nextSequence \in Nat \ {0} /\ nextSequence - 1 \in Nat
    BY DEF ShapeInv, LogInv, LogTypeOK
  <1>2. UNCHANGED <<nextSequence, published>>
    BY TurnFrame DEF ShapeInv, Turn
  <1>9. WellEnded(<<>>)
    BY DEF WellEnded
  <1>3. ASSUME NEW p \in Patterns, OpenLive(c, p)
        PROVE  shape
    <2>1. /\ Fresh(n) /\ n.mode = "live" /\ n.phase = "starting" /\ n.topic = p
          /\ n.start = FromSequence(0) /\ n.end = Latest
          /\ n.bound = nextSequence - 1 /\ n.more \in BOOLEAN /\ ~n.more
          /\ pattern'[c] = p /\ historyEnd'[c] = nextSequence - 1
      BY <1>1, <1>3, OpenLiveStep DEF ShapeInv
    <2> HIDE DEF n
    <2>2. n \in Connection
      BY <1>1, <2>1, FreshType DEF Phases
    <2>. QED BY <1>1, <1>9, <2>1, <2>2 DEF Shape, Fresh, Opened, Catching
  <1>4. ASSUME NEW p \in Patterns, NEW start \in Cursors, OpenWatch(c, p, start)
        PROVE  shape
    <2>1. /\ Fresh(n) /\ n.mode = "watch" /\ n.phase = "starting" /\ n.topic = p
          /\ n.start = start /\ n.end = Latest
          /\ n.bound = nextSequence - 1 /\ n.more \in BOOLEAN /\ n.more
          /\ pattern'[c] = p /\ historyEnd'[c] = nextSequence - 1
      BY <1>1, <1>4, OpenWatchStep DEF ShapeInv
    <2> HIDE DEF n
    <2>2. n \in Connection
      BY <1>1, <2>1, FreshType DEF Phases
    <2>. QED BY <1>1, <1>9, <2>1, <2>2 DEF Shape, Fresh, Opened, Catching
  <1>5. ASSUME NEW p \in Patterns, NEW start \in Cursors, NEW end \in Ends,
               OpenReplay(c, p, start, end)
        PROVE  shape
    <2>1. /\ conn[c].mode = "none"
          /\ Fresh(n) /\ UNCHANGED logVars
          /\ n.mode = "replay" /\ n.topic = p /\ n.start = start /\ n.end = end
          /\ n.phase = IF end.kind = "date" THEN "resolving" ELSE "starting"
          /\ n.bound \in Nat /\ n.bound <= nextSequence - 1 /\ n.more \in BOOLEAN /\ n.more
      BY <1>1, <1>5, OpenReplayStep DEF ShapeInv
    <2>2. pattern'[c] = {}
      BY <2>1 DEF ShapeInv, ShapeOf, Shape, logVars
    <2> HIDE DEF n
    <2>3. n \in Connection
      BY <1>1, <2>1, FreshType DEF Phases
    <2>4. n.bound < nextSequence
      BY <1>1, <2>1
    <2>. QED BY <1>9, <2>1, <2>2, <2>3, <2>4 DEF Shape, Fresh, Opened, Catching
  <1>6. shape
    BY <1>3, <1>4, <1>5
  <1>. QED BY <1>2, <1>6 DEF ShapeOf

\* The facts of a connection's shape, before one of its steps.
LEMMA ShapeFacts ==
  ASSUME ShapeInv, NEW c \in Subscribers
  PROVE  /\ conn[c] \in Connection
         /\ Shape(conn[c], pattern[c], historyEnd[c], nextSequence, ToSet(published))
         /\ LogTypeOK /\ nextSequence \in Nat \ {0} /\ Connected
         /\ retained \subseteq Message /\ retained \subseteq ToSet(published)
  BY EverStored DEF ShapeInv, ShapeOf, Shape, LogInv, LogTypeOK

\* A step that sends a control or rests keeps the shape if the phase allows it.
LEMMA SteadyShape ==
  ASSUME ShapeInv, NEW c \in Subscribers, NEW k, k = conn[c], NEW n, n = conn'[c],
         \/ EmitStart(c) \/ Heartbeat(c) \/ CompleteReplay(c) \/ Close(c)
         \/ Leave(c) \/ Expire(c) \/ RequestBatch(c)
  PROVE  Shape(n, pattern'[c], historyEnd'[c], nextSequence, ToSet(published))
  <1>1. /\ k \in Connection /\ LogTypeOK /\ Connected
        /\ Shape(k, pattern[c], historyEnd[c], nextSequence, ToSet(published))
        /\ retained \subseteq Message /\ retained \subseteq ToSet(published)
    BY ShapeFacts
  <1>2. /\ k.phase \in Phases /\ k.known \subseteq Message /\ k.expired \in BOOLEAN
        /\ k.mode \in {"none", "live", "watch", "replay"}
    BY <1>1, ConnectionFields
  <1>3. CASE EmitStart(c)
    <2>1. /\ k.phase = "starting" /\ ~k.expired /\ UNCHANGED logVars
          /\ \/ k.mode = "live" /\ n.phase = "live" /\ Sends(k, n, "connection_established")
             \/ k.mode # "live" /\ n.phase = "replaying" /\ Sends(k, n, "replay_started")
      BY <1>1, <1>3, EmitStartStep
    <2>2. n \in Connection
      BY <1>1, <2>1, SendsType DEF Phases, FrameKinds
    <2>3. UNCHANGED <<pattern, historyEnd>>
      BY <2>1 DEF logVars
    <2>. QED BY <1>1, <1>2, <2>1, <2>2, <2>3 DEF Shape, Sends, Kept, Paged, Opened, Catching
  <1>4. CASE Heartbeat(c)
    <2>1. /\ k.phase \in {"replaying", "fetching", "live"} /\ k.mode # "replay"
          /\ UNCHANGED logVars /\ n.phase = k.phase /\ Sends(k, n, "heartbeat")
      BY <1>1, <1>4, HeartbeatStep
    <2>2. n \in Connection
      BY <1>1, <1>2, <2>1, SendsType DEF FrameKinds
    <2>3. UNCHANGED <<pattern, historyEnd>>
      BY <2>1 DEF logVars
    <2>. QED BY <1>1, <1>2, <2>1, <2>2, <2>3 DEF Shape, Sends, Kept, Paged, Opened, Catching
  <1>5. CASE CompleteReplay(c)
    <2>1. /\ k.phase = "replaying" /\ ~k.expired /\ k.frames = <<>> /\ ~k.more
          /\ UNCHANGED logVars
          /\ n.phase = IF k.mode = "watch" THEN "live" ELSE "drained"
          /\ Sends(k, n, "replay_completed")
      BY <1>1, <1>5, CompleteReplayStep
    <2>2. n \in Connection
      BY <1>1, <2>1, SendsType DEF Phases, FrameKinds
    <2>3. UNCHANGED <<pattern, historyEnd>>
      BY <2>1 DEF logVars
    <2>. QED BY <1>1, <1>2, <2>1, <2>2, <2>3 DEF Shape, Sends, Kept, Paged, Opened, Catching
  <1>6. CASE Close(c)
    <2>1. /\ k.phase \in Opened /\ n.phase = "closed"
          /\ \E kind \in FrameKinds : Sends(k, n, kind)
          /\ pattern'[c] = {}
      BY <1>1, <1>6, CloseStep DEF FrameKinds
    <2>2. n \in Connection
      BY <1>1, <2>1, SendsType DEF Phases
    <2>. QED BY <1>1, <1>2, <2>1, <2>2 DEF Shape, Sends, Kept, Paged, Opened, Catching
  <1>7. CASE Leave(c)
    <2>1. /\ k.phase \in Opened \cup {"resolving"} /\ n.phase = "closed" /\ Rests(k, n)
          /\ n.known = k.known /\ n.expired = k.expired
          /\ pattern'[c] = {}
      BY <1>1, <1>7, LeaveStep
    <2>2. n \in Connection
      BY <1>1, <1>2, <2>1, RestsType DEF Phases
    <2>. QED BY <1>1, <1>2, <2>1, <2>2 DEF Shape, Rests, Kept, Paged, Opened, Catching
  <1>8. CASE Expire(c)
    <2>1. /\ k.mode # "replay" /\ k.phase \in Opened \ {"starting"}
          /\ n.phase = k.phase /\ Rests(k, n) /\ n.known = k.known /\ n.expired \in BOOLEAN /\ n.expired
          /\ UNCHANGED logVars
      BY <1>1, <1>8, ExpireStep
    <2>2. n \in Connection
      BY <1>1, <1>2, <2>1, RestsType
    <2>3. UNCHANGED <<pattern, historyEnd>>
      BY <2>1 DEF logVars
    <2>. QED BY <1>1, <1>2, <2>1, <2>2, <2>3 DEF Shape, Rests, Kept, Paged, Opened, Catching
  <1>9. CASE RequestBatch(c)
    <2>1. /\ k.phase = "replaying" /\ k.frames = <<>> /\ k.more
          /\ n.phase = "fetching" /\ Rests(k, n) /\ n.expired = k.expired
          /\ n.known = InRange(retained, k.topic, k.cursor, k.bound)
          /\ UNCHANGED logVars
      BY <1>1, <1>9, RequestBatchStep
    <2>2. n.known \subseteq Message /\ n.known \subseteq ToSet(published)
      BY <1>1, <2>1 DEF InRange
    <2>3. n \in Connection
      BY <1>1, <1>2, <2>1, <2>2, RestsType DEF Phases
    <2>4. UNCHANGED <<pattern, historyEnd>>
      BY <2>1 DEF logVars
    <2>. QED BY <1>1, <1>2, <2>1, <2>2, <2>3, <2>4 DEF Shape, Rests, Kept, Paged, Opened, Catching
  <1>. QED BY <1>3, <1>4, <1>5, <1>6, <1>7, <1>8, <1>9

\* A batch taken over: its page, its messages, and how many of them go out.
Batched(k, n, next, page, messages, shown) ==
  LET quota == MaxAllowed - k.delivered
      total == Counted(messages, Len(messages))
  IN /\ IsBatch(page, next # 0, next, k.known, k.topic, k.cursor, k.bound)
     /\ quota \in Nat /\ total \in Nat
     /\ messages \in Seq(Message) /\ Ascending(messages)
     /\ \A i \in DOMAIN messages : messages[i] \in page /\ messages[i].payload \notin Excluded
     /\ \A m \in page : m.payload \notin Excluded => \E i \in DOMAIN messages : messages[i] = m
     /\ Puts(n.frames, messages, quota, shown)
     /\ n.phase = "replaying" /\ n.known = {} /\ n.bound = k.bound /\ n.out = k.out
     /\ n.cursor = IF next = 0 THEN k.cursor ELSE FromSequence(next)
     /\ n.more \in BOOLEAN /\ (n.more <=> next # 0 /\ total <= quota)
     /\ n.delivered \in 0..MaxAllowed
     /\ n.delivered = IF total <= quota THEN k.delivered + total ELSE MaxAllowed

LEMMA BatchStep ==
  ASSUME ShapeInv, NEW c \in Subscribers, FetchBatch(c), NEW k, k = conn[c],
         NEW n, n = conn'[c]
  PROVE  /\ k.phase = "fetching" /\ Kept(k, n) /\ n.expired = k.expired /\ UNCHANGED logVars
         /\ k.frames = <<>> /\ k.more
         /\ \E next \in 0..k.bound, page \in SUBSET k.known, messages \in Seq(Message) :
              \E shown \in 0..Len(messages) : Batched(k, n, next, page, messages, shown)
  <1>1. /\ k \in Connection /\ Connected /\ k.known \subseteq ToSet(published)
        /\ k.phase = "fetching" => k.frames = <<>> /\ k.more
    BY ShapeFacts DEF Shape
  <1>2. /\ k.phase = "fetching" /\ Kept(k, n) /\ n.expired = k.expired /\ UNCHANGED logVars
        /\ \E next \in 0..k.bound, page \in SUBSET k.known : Fetches(k, n, next, page)
    BY <1>1, FetchBatchStep, ZenonT(60)
  <1>3. PICK next \in 0..k.bound, page \in SUBSET k.known : Fetches(k, n, next, page)
    BY <1>2
  <1> DEFINE messages == Accepted(page)
             quota == MaxAllowed - k.delivered
             total == Counted(messages, Len(messages))
  <1>4. /\ messages \in Seq(Message) /\ Ascending(messages)
        /\ \A i \in DOMAIN messages : messages[i] \in page /\ messages[i].payload \notin Excluded
        /\ \A m \in page : m.payload \notin Excluded => \E i \in DOMAIN messages : messages[i] = m
    BY <1>1, AcceptedMessages DEF ShapeInv
  <1>5. /\ IsBatch(page, next # 0, next, k.known, k.topic, k.cursor, k.bound)
        /\ n.phase = "replaying" /\ n.known = {} /\ n.bound = k.bound /\ n.out = k.out
        /\ n.cursor = NextCursor(k, next)
        /\ n.more = GoesOn(next, total, quota)
        /\ n.delivered = Min({MaxAllowed, k.delivered + total})
        /\ n.frames = BatchFrames(messages, quota)
    BY <1>3 DEF Fetches
  <1> HIDE DEF messages
  <1>6. k.delivered \in 0..MaxAllowed /\ MaxAllowed \in Nat /\ quota \in Nat
    BY <1>1, ConnectionFields, QuotaAssumption
  <1>7. Len(messages) \in Nat /\ total \in Nat
    <2>1. Len(messages) \in Nat /\ Len(messages) \in 0..Len(messages)
      BY <1>4, LenProperties
    <2>. QED BY <1>4, <2>1, CountedGrows
  <1>8. PICK shown \in 0..Len(messages) : Puts(n.frames, messages, quota, shown)
    BY <1>4, <1>5, <1>6, BatchPuts, ZenonT(60)
  <1>9. n.more \in BOOLEAN /\ (n.more <=> next # 0 /\ total <= quota)
    BY <1>5 DEF GoesOn
  <1>10. n.cursor = IF next = 0 THEN k.cursor ELSE FromSequence(next)
    BY <1>5 DEF NextCursor
  <1>11. /\ n.delivered \in 0..MaxAllowed
         /\ n.delivered = IF total <= quota THEN k.delivered + total ELSE MaxAllowed
    <2> HIDE DEF total
    <2>1. {MaxAllowed, k.delivered + total} \in SUBSET Nat /\ {MaxAllowed, k.delivered + total} # {}
      BY <1>6, <1>7
    <2>2. /\ Min({MaxAllowed, k.delivered + total}) \in {MaxAllowed, k.delivered + total}
          /\ \A x \in {MaxAllowed, k.delivered + total} :
               Min({MaxAllowed, k.delivered + total}) <= x
      BY <2>1, MinOfNaturals
    <2>3. /\ n.delivered \in {MaxAllowed, k.delivered + total}
          /\ n.delivered <= MaxAllowed /\ n.delivered <= k.delivered + total
      BY <1>5, <2>2
    <2>4. total \in Nat /\ k.delivered \in Nat /\ MaxAllowed \in Nat /\ n.delivered \in Nat
      BY <1>6, <1>7, <2>3
    <2>5. total <= quota <=> k.delivered + total <= MaxAllowed
      BY <2>4
    <2>. HIDE DEF quota
    <2>6. n.delivered = IF total <= quota THEN k.delivered + total ELSE MaxAllowed
      BY <2>3, <2>4, <2>5
    <2>. QED BY <2>3, <2>4, <2>6
  <1>12. Batched(k, n, next, page, messages, shown)
    BY <1>4, <1>5, <1>6, <1>7, <1>8, <1>9, <1>10, <1>11 DEF Batched
  <1>. QED BY <1>1, <1>2, <1>4, <1>12

LEMMA EndedTail ==
  ASSUME NEW q \in Seq(Frames), q # <<>>, WellEnded(q)
  PROVE  /\ WellEnded(Tail(q))
         /\ Head(q).kind \in Terminal => Tail(q) = <<>>
         /\ Head(q) = q[1] /\ 1 \in DOMAIN q
  <1>1. /\ Tail(q) \in Seq(Frames) /\ Len(Tail(q)) = Len(q) - 1
        /\ \A i \in 1..Len(Tail(q)) : Tail(q)[i] = q[i + 1]
    BY HeadTailProperties
  <1>2. /\ DOMAIN q = 1..Len(q) /\ Len(q) \in Nat /\ Len(q) # 0
        /\ DOMAIN Tail(q) = 1..Len(Tail(q)) /\ Len(Tail(q)) \in Nat
    BY <1>1, LenProperties, EmptySeq
  <1>3. Head(q) = q[1]
    OBVIOUS
  <1>4. WellEnded(Tail(q))
    BY <1>1, <1>2 DEF WellEnded
  <1>5. Head(q).kind \in Terminal => Len(Tail(q)) = 0
    BY <1>1, <1>2, <1>3 DEF WellEnded
  <1>. QED BY <1>1, <1>2, <1>3, <1>4, <1>5, EmptySeq

LEMMA EndedBatch ==
  ASSUME NEW messages \in Seq(Message), NEW quota, NEW shown, NEW new,
         Puts(new, messages, quota, shown)
  PROVE  WellEnded(new)
  <1>1. /\ Len(messages) \in Nat /\ \A i \in 1..Len(messages) : messages[i] \in Message
        /\ shown \in 0..Len(messages) /\ new \in Seq(Frames)
        /\ DOMAIN new = 1..shown \/ DOMAIN new = 1..(shown + 1)
    BY LenProperties, ElementOfSeq DEF Puts
  <1>2. \A i \in 1..shown : new[i].kind \in {"replay", "error"} /\ new[i].seq # 0
    <2> TAKE i \in 1..shown
    <2>1. messages[i] \in Message /\ new[i] = Rendered(messages[i], "replay")
      BY <1>1 DEF Puts
    <2>. QED BY <2>1, FrameTypes, MessageSeqs
  <1>3. {"replay", "error"} \cap Terminal = {}
    BY DEF Terminal
  <1>4. CASE DOMAIN new = 1..shown
    BY <1>2, <1>3, <1>4 DEF WellEnded
  <1>5. CASE DOMAIN new # 1..shown
    <2>1. DOMAIN new = 1..(shown + 1) /\ new[shown + 1] = Frame("replay_limit_reached", 0)
      BY <1>5 DEF Puts
    <2>2. new[shown + 1].kind \in Terminal /\ new[shown + 1].seq = 0
      BY <2>1, FrameTypes DEF Terminal, FrameKinds
    <2>3. Len(new) = shown + 1
      BY <1>1, <2>1, LenProperties
    <2>. QED BY <1>1, <1>2, <1>3, <2>1, <2>2, <2>3 DEF WellEnded
  <1>. QED BY <1>4, <1>5

LEMMA MovingShape ==
  ASSUME ShapeInv, NEW c \in Subscribers, NEW k, k = conn[c], NEW n, n = conn'[c],
         \/ ResolveEnd(c) \/ FetchBatch(c) \/ FetchFails(c) \/ EmitReplay(c) \/ EmitLive(c)
  PROVE  Shape(n, pattern'[c], historyEnd'[c], nextSequence, ToSet(published))
  <1>1. /\ k \in Connection /\ LogTypeOK /\ Connected
        /\ Shape(k, pattern[c], historyEnd[c], nextSequence, ToSet(published))
        /\ nextSequence \in Nat
    BY ShapeFacts
  <1>2. /\ k.phase \in Phases /\ k.known \subseteq Message /\ k.expired \in BOOLEAN
        /\ k.mode \in {"none", "live", "watch", "replay"}
        /\ k.bound \in Nat /\ k.cursor \in [kind : {"sequence", "date"}, value : Nat]
        /\ k.frames \in Seq(Frames) /\ k.delivered \in 0..MaxAllowed
        /\ k.out \in Seq(Frames) /\ k.more \in BOOLEAN
    BY <1>1, ConnectionFields
  <1>3. CASE ResolveEnd(c)
    <2>1. /\ k.phase = "resolving" /\ n.phase = "starting" /\ UNCHANGED logVars
          /\ Kept(k, n) /\ n.cursor = k.cursor /\ n.more = k.more /\ n.known = k.known
          /\ n.delivered = k.delivered /\ n.frames = k.frames /\ n.expired = k.expired
          /\ n.out = k.out
          /\ n.bound \in Nat /\ n.bound <= k.bound
      BY <1>1, <1>3, ResolveEndStep
    <2>2. n \in Connection
      BY <1>1, <1>2, <2>1, KeptType DEF Phases
    <2>3. UNCHANGED <<pattern, historyEnd>>
      BY <2>1 DEF logVars
    <2>4. n.bound < nextSequence
      BY <1>1, <1>2, <2>1 DEF Shape
    <2>. QED BY <1>1, <1>2, <2>1, <2>2, <2>3, <2>4 DEF Shape, Kept, Opened, Catching
  <1>4. CASE FetchBatch(c)
    <2>1. /\ k.phase = "fetching" /\ Kept(k, n) /\ n.expired = k.expired /\ UNCHANGED logVars
          /\ \E next \in 0..k.bound, page \in SUBSET k.known, messages \in Seq(Message) :
               \E shown \in 0..Len(messages) : Batched(k, n, next, page, messages, shown)
      BY <1>4, BatchStep, ZenonT(60)
    <2>2. PICK next \in 0..k.bound, page \in SUBSET k.known, messages \in Seq(Message) :
               \E shown \in 0..Len(messages) : Batched(k, n, next, page, messages, shown)
      BY <2>1
    <2>3. /\ n.phase = "replaying" /\ n.known = {} /\ n.bound = k.bound /\ n.out = k.out
          /\ n.cursor = IF next = 0 THEN k.cursor ELSE FromSequence(next)
          /\ n.more \in BOOLEAN /\ n.delivered \in 0..MaxAllowed /\ n.frames \in Seq(Frames)
      BY <2>2 DEF Batched, Puts
    <2>7. WellEnded(n.frames)
      <3>1. PICK shown \in 0..Len(messages) : Batched(k, n, next, page, messages, shown)
        BY <2>2
      <3>. QED BY <3>1, EndedBatch DEF Batched
    <2>4. n.cursor \in [kind : {"sequence", "date"}, value : Nat]
      BY <1>2, <2>3 DEF FromSequence
    <2>5. n \in Connection
      BY <1>1, <1>2, <2>1, <2>3, <2>4, KeptType DEF Phases
    <2>6. UNCHANGED <<pattern, historyEnd>>
      BY <2>1 DEF logVars
    <2>. QED BY <1>1, <1>2, <2>1, <2>3, <2>5, <2>6, <2>7 DEF Shape, Kept, Opened, Catching
  <1>5. CASE FetchFails(c)
    <2>1. /\ k.phase = "fetching" /\ n.phase = "replaying" /\ UNCHANGED logVars
          /\ Kept(k, n) /\ n.expired = k.expired /\ n.known = {} /\ n.more \in BOOLEAN /\ ~n.more
          /\ n.bound = k.bound /\ n.cursor = k.cursor /\ n.delivered = k.delivered
          /\ n.frames = <<Frame("replay_failed", 0)>> /\ n.out = k.out
      BY <1>1, <1>5, FetchFailsStep
    <2>2. n.frames \in Seq(Frames)
      <3>1. Frame("replay_failed", 0) \in Frames
        BY FrameTypes DEF FrameKinds
      <3>. QED BY <2>1, <3>1
    <2>3. n \in Connection
      BY <1>1, <1>2, <2>1, <2>2, KeptType DEF Phases
    <2>4. UNCHANGED <<pattern, historyEnd>>
      BY <2>1 DEF logVars
    <2>5. WellEnded(n.frames)
      BY <2>1, FrameTypes DEF WellEnded, Terminal, FrameKinds
    <2>. QED BY <1>1, <1>2, <2>1, <2>3, <2>4, <2>5 DEF Shape, Kept, Opened, Catching
  <1>6. CASE EmitReplay(c)
    <2>1. /\ k.phase = "replaying" /\ k.frames # <<>> /\ ~k.expired /\ UNCHANGED logVars
          /\ n.phase = IF Head(k.frames).kind \in Terminal THEN "drained" ELSE "replaying"
          /\ Kept(k, n) /\ n.expired = k.expired /\ n.known = k.known /\ n.more = k.more
          /\ n.bound = k.bound /\ n.cursor = k.cursor /\ n.delivered = k.delivered
          /\ n.frames = Tail(k.frames) /\ n.out = Append(k.out, Head(k.frames))
      <3>1. ReplayEmitted(k, n) /\ UNCHANGED logVars
        BY <1>1, <1>6, EmitReplayStep
      <3>. QED BY <3>1 DEF ReplayEmitted
    <2>2. Head(k.frames) \in Frames /\ n.frames \in Seq(Frames)
      BY <1>2, <2>1, HeadTailProperties
    <2>3. n.out \in Seq(Frames)
      BY <1>2, <2>1, <2>2, AppendProperties
    <2>4. n \in Connection
      BY <1>1, <1>2, <2>1, <2>2, <2>3, KeptType DEF Phases
    <2>5. UNCHANGED <<pattern, historyEnd>>
      BY <2>1 DEF logVars
    <2>6. WellEnded(n.frames)
          /\ (Head(k.frames).kind \in Terminal => n.frames = <<>>)
      <3>1. WellEnded(k.frames)
        BY <1>1 DEF Shape
      <3>2. k.frames \in Seq(Frames) /\ k.frames # <<>>
        BY <1>2, <2>1
      <3>. QED BY <2>1, <3>1, <3>2, EndedTail
    <2>. QED BY <1>1, <1>2, <2>1, <2>4, <2>5, <2>6 DEF Shape, Kept, Opened, Catching
  <1>7. CASE EmitLive(c)
    <2>1. /\ k.phase = "live" /\ ~k.expired /\ n.phase = "live" /\ Receive(c)
          /\ Kept(k, n) /\ Paged(k, n) /\ n.known = k.known /\ n.expired = k.expired
          /\ \/ Head(queue[c]).payload \in Excluded /\ n.out = k.out
             \/ /\ Head(queue[c]).payload \notin Excluded
                /\ n.out = Append(k.out, Rendered(Head(queue[c]), "live"))
      BY <1>1, <1>7, EmitLiveStep, SMTT(30)
    <2>2. Head(queue[c]) \in Message
      <3>1. queue[c] \in Seq(Message) /\ queue[c] # <<>>
        BY <1>1, <2>1 DEF LogTypeOK, Receive
      <3>. QED BY <3>1, HeadTailProperties
    <2>3. n.out \in Seq(Frames)
      <3>1. Rendered(Head(queue[c]), "live") \in Frames
        BY <2>2, FrameTypes
      <3>2. Append(k.out, Rendered(Head(queue[c]), "live")) \in Seq(Frames)
        BY <1>2, <3>1, AppendProperties
      <3>. QED BY <1>2, <2>1, <3>2
    <2>4. n \in Connection
      BY <1>2, <1>1, <2>1, <2>3, KeptType DEF Paged
    <2>5. UNCHANGED <<pattern, historyEnd>>
      BY <2>1 DEF Receive
    <2>. QED BY <1>1, <1>2, <2>1, <2>4, <2>5 DEF Shape, Kept, Paged, Opened, Catching
  <1>. QED BY <1>3, <1>4, <1>5, <1>6, <1>7

LEMMA TurnShape ==
  ASSUME ShapeInv, NEW c \in Subscribers, Turn(c)
  PROVE  /\ ShapeInv'
         /\ conn[c] \in Connection /\ conn'[c] \in Connection
  <1>1. /\ LogInv'
        /\ UNCHANGED <<nextSequence, clock, retained, cancelled, published, lost>>
        /\ \A d \in Subscribers \ {c} :
             /\ conn'[d] = conn[d] /\ pattern'[d] = pattern[d]
             /\ historyEnd'[d] = historyEnd[d]
        /\ conn' = [d \in Subscribers |-> conn'[d]]
    BY TurnFrame DEF ShapeInv
  <1>2. Shape(conn'[c], pattern'[c], historyEnd'[c], nextSequence, ToSet(published))
    <2>1. CASE \/ \E p \in Patterns : OpenLive(c, p)
               \/ \E p \in Patterns, start \in Cursors : OpenWatch(c, p, start)
               \/ \E p \in Patterns, start \in Cursors, end \in Ends : OpenReplay(c, p, start, end)
      BY <1>1, <2>1, OpeningShape DEF ShapeOf
    <2>2. CASE \/ EmitStart(c) \/ Heartbeat(c) \/ CompleteReplay(c) \/ Close(c)
               \/ Leave(c) \/ Expire(c) \/ RequestBatch(c)
      BY <2>2, SteadyShape
    <2>3. CASE \/ ResolveEnd(c) \/ FetchBatch(c) \/ FetchFails(c) \/ EmitReplay(c)
               \/ EmitLive(c)
      BY <2>3, MovingShape
    <2>. QED BY <2>1, <2>2, <2>3 DEF Turn
  <1>3. \A d \in Subscribers : ShapeOf(d)'
    BY <1>1, <1>2 DEF ShapeInv, ShapeOf
  <1>4. Connected'
    BY <1>1, <1>3 DEF Connected, ShapeOf, Shape
  <1>. QED BY <1>1, <1>3, <1>4 DEF ShapeInv, Connected

LEMMA PublishShape ==
  ASSUME ShapeInv, NEW t \in Topics, NEW b \in Payloads, Publish(t, b)
  PROVE  ShapeInv'
  <1>1. /\ nextSequence' = nextSequence + 1
        /\ UNCHANGED <<pattern, historyEnd, conn>>
        /\ ToSet(published) \subseteq ToSet(published')
    BY Published DEF ShapeInv
  <1>2. LogInv' /\ nextSequence \in Nat
    BY LogPublish DEF ShapeInv, LogInv, LogTypeOK
  <1>3. ASSUME NEW c \in Subscribers
        PROVE  ShapeOf(c)'
    <2>1. ShapeOf(c) /\ conn[c].bound \in Nat
      BY ConnectionFields DEF ShapeInv, Connected
    <2>2. conn[c].bound < nextSequence'
      BY <1>1, <1>2, <2>1 DEF ShapeOf, Shape
    <2>. QED BY <1>1, <2>1, <2>2 DEF ShapeOf, Shape
  <1>. QED BY <1>1, <1>2, <1>3 DEF ShapeInv, Connected

LEMMA WornShape ==
  ASSUME ShapeInv, Environment
  PROVE  ShapeInv'
  BY Worn, LogWorn DEF ShapeInv, ShapeOf, Connected

LEMMA QuietShape ==
  ASSUME ShapeInv, Shutdown \/ UNCHANGED vars
  PROVE  ShapeInv'
  <1>1. UNCHANGED <<logVars, conn, published>>
    BY DEF Shutdown, vars
  <1>. QED BY <1>1 DEF ShapeInv, ShapeOf, Connected, LogInv, LogTypeOK, HistoryKept,
                       QueueKept, logVars

LEMMA ShapeInvariant == Spec => []ShapeInv
  <1>1. Init => ShapeInv
    <2> SUFFICES ASSUME Init PROVE ShapeInv
      OBVIOUS
    <2>1. /\ LogInv /\ conn = [c \in Subscribers |-> Idle]
          /\ pattern = [c \in Subscribers |-> {}] /\ nextSequence = 1
      BY InitialLog DEF Init, LogInit
    <2>2. Connected
      BY <2>1, IdleShape DEF Connected
    <2>3. \A c \in Subscribers : ShapeOf(c)
      BY <2>1, IdleShape DEF ShapeOf
    <2>. QED BY <2>1, <2>2, <2>3 DEF ShapeInv
  <1>2. ShapeInv /\ [Next]_vars => ShapeInv'
    BY StepCases, PublishShape, WornShape, QuietShape, TurnShape
  <1>. QED BY <1>1, <1>2, PTL DEF Spec

-----------------------------------------------------------------------------
(* Types.                                                                   *)

\* Every variable keeps its type: batches are made of frames, no connection
\* counts beyond its quota, and no queue holds what is no message.
THEOREM TypeCorrect == Spec => []TypeOK
  <1> DEFINE Rest == cancelled \in BOOLEAN /\ lost \in [Subscribers -> SUBSET Nat]
  <1>1. Init => Rest
    BY DEF Init
  <1>2. ShapeInv /\ Rest /\ [Next]_vars => Rest'
    <2> SUFFICES ASSUME ShapeInv, Rest, [Next]_vars
                 PROVE  Rest'
      OBVIOUS
    <2>1. ASSUME NEW t \in Topics, NEW b \in Payloads, Publish(t, b)
          PROVE  Rest'
      <3>1. \A c \in Subscribers : \A x \in ToSet(Offer(c, NextMessage(t, b))) : x.seq \in Nat
        <4>1. \A c \in Subscribers : Offer(c, NextMessage(t, b)) \in Seq(Message)
          BY Offered DEF ShapeInv
        <4>2. \A c \in Subscribers : ToSet(Offer(c, NextMessage(t, b))) \subseteq Message
          <5> TAKE c \in Subscribers
          <5> DEFINE q == Offer(c, NextMessage(t, b))
          <5>1. q \in Seq(Message)
            BY <4>1
          <5> HIDE DEF q
          <5>2. ToSet(q) \subseteq Message
            BY <5>1, LenProperties, ElementOfSeq DEF ToSet
          <5>. QED BY <5>2 DEF q
        <4>. QED BY <4>2, MessageSeqs
      <3>2. /\ cancelled' = cancelled
            /\ lost' = [c \in Subscribers |->
                 lost[c] \cup {m.seq : m \in ToSet(Offer(c, NextMessage(t, b))) \ ToSet(queue'[c])}]
        BY <2>1 DEF Publish
      <3>. QED BY <3>1, <3>2
    <2>2. CASE Environment
      <3>1. \A c \in Subscribers : \A x \in ToSet(queue[c]) : x.seq \in Nat
        BY EverStored DEF ShapeInv, LogInv, QueueKept
      <3>2. /\ cancelled' = cancelled
            /\ lost' = [c \in Subscribers |->
                 lost[c] \cup {m.seq : m \in ToSet(queue[c]) \ ToSet(queue'[c])}]
        BY <2>2 DEF Environment
      <3>. QED BY <3>1, <3>2
    <2>3. CASE Shutdown
      BY <2>3 DEF Shutdown
    <2>4. ASSUME NEW c \in Subscribers, Turn(c)
          PROVE  Rest'
      BY <2>4, TurnFrame DEF ShapeInv
    <2>5. CASE UNCHANGED vars
      BY <2>5 DEF vars
    <2>. QED BY <2>1, <2>2, <2>3, <2>4, <2>5, StepCases
  <1>3. ShapeInv /\ Rest => TypeOK
    BY DEF ShapeInv, LogInv, Connected, TypeOK
  <1>. QED BY <1>1, <1>2, <1>3, ShapeInvariant, PTL DEF Spec

-----------------------------------------------------------------------------
(* Steps of a kind: openings, controls, and those that only move on.        *)

Opening(c) ==
  \/ \E p \in Patterns : OpenLive(c, p)
  \/ \E p \in Patterns, start \in Cursors : OpenWatch(c, p, start)
  \/ \E p \in Patterns, start \in Cursors, end \in Ends : OpenReplay(c, p, start, end)

Controlling(c) == EmitStart(c) \/ Heartbeat(c) \/ CompleteReplay(c) \/ Close(c)

Resting(c) == Leave(c) \/ Expire(c) \/ RequestBatch(c)

Controls ==
  {"connection_established", "replay_started", "replay_completed", "heartbeat",
   "server_shutdown", "max_duration_reached", "end_of_stream"}

LEMMA TurnKinds ==
  ASSUME NEW c, Turn(c)
  PROVE  \/ Opening(c) \/ Controlling(c) \/ Resting(c)
         \/ ResolveEnd(c) \/ FetchBatch(c) \/ FetchFails(c) \/ EmitReplay(c) \/ EmitLive(c)
  BY DEF Turn, Opening, Controlling, Resting

LEMMA OpeningStep ==
  ASSUME ShapeInv, NEW c \in Subscribers, Opening(c), NEW n, n = conn'[c]
  PROVE  /\ conn[c].mode = "none" /\ Fresh(n)
         /\ n.mode \in {"live", "watch", "replay"} /\ n.topic \in Patterns
         /\ n.phase = IF n.end.kind = "date" THEN "resolving" ELSE "starting"
         /\ n.more \in BOOLEAN /\ (n.more <=> n.mode # "live")
         /\ n.bound \in Nat /\ n.bound <= nextSequence - 1
         /\ n.end.kind = "sequence" => n.bound <= n.end.value
         /\ pattern'[c] # {} => n.bound = nextSequence - 1
  <1>1. /\ LogTypeOK /\ Connected /\ nextSequence - 1 \in Nat
        /\ conn[c].mode = "none" => pattern[c] = {}
    BY ShapeFacts DEF Shape
  <1>2. Latest.kind = "latest"
    BY DEF Latest
  <1>3. ASSUME NEW p \in Patterns, OpenLive(c, p)
        PROVE  /\ conn[c].mode = "none" /\ Fresh(n)
               /\ n.mode = "live" /\ n.topic \in Patterns /\ n.phase = "starting"
               /\ n.end = Latest /\ n.more \in BOOLEAN /\ ~n.more
               /\ n.bound = nextSequence - 1
    BY <1>1, <1>3, OpenLiveStep
  <1>4. ASSUME NEW p \in Patterns, NEW start \in Cursors, OpenWatch(c, p, start)
        PROVE  /\ conn[c].mode = "none" /\ Fresh(n)
               /\ n.mode = "watch" /\ n.topic \in Patterns /\ n.phase = "starting"
               /\ n.end = Latest /\ n.more \in BOOLEAN /\ n.more
               /\ n.bound = nextSequence - 1
    BY <1>1, <1>4, OpenWatchStep
  <1>5. ASSUME NEW p \in Patterns, NEW start \in Cursors, NEW end \in Ends,
               OpenReplay(c, p, start, end)
        PROVE  /\ conn[c].mode = "none" /\ Fresh(n)
               /\ n.mode = "replay" /\ n.topic \in Patterns
               /\ n.phase = IF n.end.kind = "date" THEN "resolving" ELSE "starting"
               /\ n.more \in BOOLEAN /\ n.more
               /\ n.bound \in Nat /\ n.bound <= nextSequence - 1
               /\ n.end.kind = "sequence" => n.bound <= n.end.value
               /\ pattern'[c] = {}
    BY <1>1, <1>5, OpenReplayStep DEF logVars
  <1>6. CASE \E p \in Patterns : OpenLive(c, p)
    BY <1>1, <1>2, <1>3, <1>6
  <1>7. CASE \E p \in Patterns, start \in Cursors : OpenWatch(c, p, start)
    BY <1>1, <1>2, <1>4, <1>7
  <1>8. CASE \E p \in Patterns, start \in Cursors, end \in Ends : OpenReplay(c, p, start, end)
    BY <1>5, <1>8
  <1>. QED BY <1>6, <1>7, <1>8 DEF Opening

LEMMA ControllingStep ==
  ASSUME ShapeInv, NEW c \in Subscribers, Controlling(c), NEW k, k = conn[c],
         NEW n, n = conn'[c]
  PROVE  /\ \E kind \in Controls :
              /\ Sends(k, n, kind)
              /\ kind = "replay_completed" => k.phase = "replaying" /\ k.frames = <<>> /\ ~k.more
         /\ n.phase \in {"replaying", "fetching", "live", "drained", "closed"}
         /\ n.phase = "replaying" => k.phase \in {"starting", "replaying"} /\ k.mode # "live"
         /\ n.phase = "fetching" => k.phase = "fetching"
         /\ k.phase \in {"drained", "closed"} => n.phase \in {"drained", "closed"}
         /\ (UNCHANGED logVars) \/ pattern'[c] = {}
  <1>1. /\ LogTypeOK /\ Connected
        /\ k.phase = "replaying" => k.mode # "live"
    BY ShapeFacts DEF Shape, Catching
  <1>2. CASE EmitStart(c)
    BY <1>1, <1>2, EmitStartStep DEF Controls
  <1>3. CASE Heartbeat(c)
    BY <1>1, <1>3, HeartbeatStep DEF Controls
  <1>4. CASE CompleteReplay(c)
    BY <1>1, <1>4, CompleteReplayStep DEF Controls
  <1>5. CASE Close(c)
    BY <1>1, <1>5, CloseStep DEF Controls
  <1>. QED BY <1>2, <1>3, <1>4, <1>5 DEF Controlling

LEMMA RestingStep ==
  ASSUME ShapeInv, NEW c \in Subscribers, Resting(c), NEW k, k = conn[c],
         NEW n, n = conn'[c]
  PROVE  /\ Rests(k, n)
         /\ \/ n.known = k.known
            \/ /\ k.phase = "replaying" /\ k.more
               /\ n.known = InRange(retained, k.topic, k.cursor, k.bound)
         /\ n.phase \in {"replaying", "fetching", "live", "drained", "closed"}
         /\ n.phase \in Catching => k.phase \in Catching
         /\ k.phase \in {"drained", "closed"} => n.phase \in {"drained", "closed"}
         /\ (UNCHANGED logVars) \/ pattern'[c] = {}
  <1>1. LogTypeOK /\ Connected
    BY ShapeFacts
  <1>2. CASE Leave(c)
    BY <1>1, <1>2, LeaveStep DEF Catching
  <1>3. CASE Expire(c)
    BY <1>1, <1>3, ExpireStep DEF Catching, Opened
  <1>4. CASE RequestBatch(c)
    BY <1>1, <1>4, RequestBatchStep DEF Catching
  <1>. QED BY <1>2, <1>3, <1>4 DEF Resting

-----------------------------------------------------------------------------
(* Nothing is lost behind the boundary.                                     *)

KindSeqs(q, kinds) == {f.seq : f \in {x \in ToSet(q) : x.kind \in kinds}}

Covered(k, pat, waiting, gone, pub) ==
  pat # {} =>
    \A m \in pub :
      m.topic \in k.topic /\ m.seq > k.bound =>
        \/ m \in waiting
        \/ m.seq \in gone
        \/ m.payload \in Excluded
        \/ m.seq \in KindSeqs(k.out, {"live", "error"})

CoveredOf(c) ==
  Covered(conn[c], pattern[c], ToSet(queue[c]), lost[c], ToSet(published))

\* A connection that keeps its request and what it has sent covers what it did.
LEMMA StillCovered ==
  ASSUME NEW k, NEW n, NEW pat, NEW waiting, NEW gone, NEW pub,
         Covered(k, pat, waiting, gone, pub),
         n.topic = k.topic, n.bound = k.bound, ToSet(k.out) \subseteq ToSet(n.out)
  PROVE  Covered(n, pat, waiting, gone, pub)
  BY DEF Covered, KindSeqs

LEMMA TurnCovered ==
  ASSUME ShapeInv, NEW c \in Subscribers, Turn(c), CoveredOf(c)
  PROVE  CoveredOf(c)'
  <1> DEFINE k == conn[c]
             n == conn'[c]
             covered == Covered(n, pattern'[c], ToSet(queue'[c]), lost[c], ToSet(published))
  <1>1. /\ k \in Connection /\ LogTypeOK /\ Connected
        /\ Shape(k, pattern[c], historyEnd[c], nextSequence, ToSet(published))
        /\ k.out \in Seq(Frames) /\ k.frames \in Seq(Frames)
    BY ShapeFacts, ConnectionFields
  <1>2. UNCHANGED <<published, lost>>
    BY TurnFrame DEF ShapeInv
  <1> SUFFICES covered
    BY <1>2 DEF CoveredOf
  <1>3. Covered(k, pattern[c], ToSet(queue[c]), lost[c], ToSet(published))
    BY DEF CoveredOf
  <1>4. pattern'[c] = {} => covered
    BY DEF Covered
  <1>5. ASSUME UNCHANGED logVars, Kept(k, n), n.bound = k.bound,
               ToSet(k.out) \subseteq ToSet(n.out)
        PROVE  covered
    <2>1. pattern'[c] = pattern[c] /\ queue'[c] = queue[c]
      BY <1>5 DEF logVars
    <2>. QED BY <1>3, <1>5, <2>1, StillCovered DEF Kept
  <1>6. CASE Opening(c)
    <2>1. pattern'[c] # {} => n.bound = nextSequence - 1
      BY <1>6, OpeningStep
    <2>2. nextSequence \in Nat /\ \A m \in ToSet(published) : m.seq \in 1..(nextSequence - 1)
      BY EverStored DEF ShapeInv
    <2>3. \A m \in ToSet(published) : m.seq > nextSequence - 1 => FALSE
      BY <2>2
    <2>. QED BY <1>4, <2>1, <2>3 DEF Covered
  <1>7. CASE Controlling(c)
    <2>1. /\ \E kind \in Controls : Sends(k, n, kind)
          /\ (UNCHANGED logVars) \/ pattern'[c] = {}
      BY <1>7, ControllingStep
    <2>2. Kept(k, n) /\ n.bound = k.bound /\ ToSet(k.out) \subseteq ToSet(n.out)
      <3>1. PICK kind \in Controls : Sends(k, n, kind)
        BY <2>1
      <3>2. Frame(kind, 0) \in Frames
        BY FrameTypes DEF Controls, FrameKinds
      <3>. HIDE DEF k, n
      <3>. QED BY <1>1, <3>1, <3>2, Appended DEF Sends, Paged
    <2>. QED BY <1>4, <1>5, <2>1, <2>2
  <1>8. CASE Resting(c)
    <2>1. Rests(k, n) /\ ((UNCHANGED logVars) \/ pattern'[c] = {})
      BY <1>8, RestingStep
    <2>. QED BY <1>4, <1>5, <2>1 DEF Rests, Paged
  <1>9. CASE ResolveEnd(c)
    <2>1. k.phase = "resolving" /\ UNCHANGED logVars
      BY <1>1, <1>9, ResolveEndStep
    <2>2. pattern'[c] = {}
      BY <1>1, <2>1 DEF Shape, logVars
    <2>. QED BY <1>4, <2>2
  <1>10. CASE FetchBatch(c)
    <2>1. /\ Kept(k, n) /\ UNCHANGED logVars
          /\ \E next \in 0..k.bound, page \in SUBSET k.known, messages \in Seq(Message) :
               \E shown \in 0..Len(messages) : Batched(k, n, next, page, messages, shown)
      BY <1>10, BatchStep
    <2>2. n.bound = k.bound /\ n.out = k.out
      BY <2>1 DEF Batched
    <2>. QED BY <1>5, <2>1, <2>2
  <1>11. CASE FetchFails(c)
    <2>1. Kept(k, n) /\ UNCHANGED logVars /\ n.bound = k.bound /\ n.out = k.out
      BY <1>1, <1>11, FetchFailsStep
    <2>. QED BY <1>5, <2>1
  <1>12. CASE EmitReplay(c)
    <2>1. /\ Kept(k, n) /\ UNCHANGED logVars /\ n.bound = k.bound
          /\ k.frames # <<>> /\ n.out = Append(k.out, Head(k.frames))
      <3>1. ReplayEmitted(k, n) /\ UNCHANGED logVars
        BY <1>1, <1>12, EmitReplayStep
      <3>. QED BY <3>1 DEF ReplayEmitted
    <2>2. Head(k.frames) \in Frames
      BY <1>1, <2>1, HeadTailProperties
    <2>3. ToSet(k.out) \subseteq ToSet(n.out)
      <3> HIDE DEF k, n
      <3>. QED BY <1>1, <2>1, <2>2, Appended
    <2>. QED BY <1>5, <2>1, <2>3
  <1>13. CASE EmitLive(c)
    <2> DEFINE h == Head(queue[c])
    <2>1. /\ Receive(c) /\ Kept(k, n) /\ Paged(k, n)
          /\ \/ h.payload \in Excluded /\ n.out = k.out
             \/ h.payload \notin Excluded /\ n.out = Append(k.out, Rendered(h, "live"))
      BY <1>1, <1>13, EmitLiveStep
    <2>2. /\ pattern'[c] = pattern[c] /\ queue[c] # <<>> /\ queue[c] \in Seq(Message)
          /\ queue'[c] = Tail(queue[c])
      BY <1>1, <2>1 DEF Receive, LogTypeOK
    <2>3. h \in Message /\ h = queue[c][1]
      BY <2>2, HeadTailProperties
    <2>4. ToSet(queue'[c]) = ToSet(queue[c]) \ {h}
      <3>1. \A m \in Message : m.seq \in Nat
        BY MessageSeqs
      <3>2. \A i, j \in DOMAIN queue[c] : i < j => queue[c][i].seq < queue[c][j].seq
        BY DEF ShapeInv, LogInv, QueueKept, Ascending
      <3>3. ToSet(Tail(queue[c])) = ToSet(queue[c]) \ {queue[c][1]}
        BY <2>2, <3>1, <3>2, QueueShrinks
      <3>. QED BY <2>2, <2>3, <3>3
    <2>5. /\ Rendered(h, "live") \in Frames /\ Rendered(h, "live").seq = h.seq
          /\ Rendered(h, "live").kind \in {"live", "error"}
      BY <2>3, FrameTypes
    <2>6. n.bound = k.bound /\ n.topic = k.topic
      BY <2>1 DEF Kept, Paged
    <2>. HIDE DEF h, k, n
    <2>7. CASE h.payload \in Excluded
      <3>1. n.out = k.out
        BY <2>1, <2>7
      <3>. QED BY <1>3, <2>2, <2>4, <2>6, <2>7, <3>1 DEF Covered
    <2>8. CASE h.payload \notin Excluded
      <3>1. n.out = Append(k.out, Rendered(h, "live"))
        BY <2>1, <2>8
      <3>2. ToSet(n.out) = ToSet(k.out) \cup {Rendered(h, "live")}
        BY <1>1, <2>5, <3>1, Appended
      <3>3. KindSeqs(n.out, {"live", "error"}) = KindSeqs(k.out, {"live", "error"}) \cup {h.seq}
        BY <2>5, <3>2 DEF KindSeqs
      <3>. QED BY <1>3, <2>2, <2>4, <2>6, <3>3 DEF Covered
    <2>. QED BY <2>7, <2>8
  <1>. QED BY <1>6, <1>7, <1>8, <1>9, <1>10, <1>11, <1>12, <1>13, TurnKinds

LEMMA WorldCovered ==
  ASSUME ShapeInv, NEW c \in Subscribers, CoveredOf(c),
         Environment \/ \E t \in Topics, b \in Payloads : Publish(t, b)
  PROVE  CoveredOf(c)'
  <1>1. CASE Environment
    <2>1. /\ UNCHANGED <<pattern, conn, published>>
          /\ lost[c] \subseteq lost'[c]
          /\ \A x \in ToSet(queue[c]) : x \in ToSet(queue'[c]) \/ x.seq \in lost'[c]
      BY <1>1, Worn DEF ShapeInv
    <2>. QED BY <2>1 DEF CoveredOf, Covered
  <1>2. ASSUME NEW t \in Topics, NEW b \in Payloads, Publish(t, b)
        PROVE  CoveredOf(c)'
    <2> DEFINE m == NextMessage(t, b)
    <2>1. /\ UNCHANGED <<pattern, conn>>
          /\ ToSet(published') = ToSet(published) \cup {m}
          /\ lost[c] \subseteq lost'[c]
          /\ \A x \in ToSet(queue[c]) : x \in ToSet(queue'[c]) \/ x.seq \in lost'[c]
          /\ t \in pattern[c] => m \in ToSet(queue'[c]) \/ m.seq \in lost'[c]
      BY <1>2, Published DEF ShapeInv
    <2>2. m.topic = t
      BY NextMessageType DEF ShapeInv, LogInv
    <2>3. pattern[c] # {} => pattern[c] = conn[c].topic
      BY ShapeFacts DEF Shape
    <2>. HIDE DEF m
    <2>. QED BY <2>1, <2>2, <2>3 DEF CoveredOf, Covered
  <1>. QED BY <1>1, <1>2

\* While a watch is open, every message of its pattern stored behind its
\* boundary is delivered, queued, filtered out, or was lost by the backend.
THEOREM NothingIsLostAfterBoundary == Spec => []NothingLostAfterBoundary
  <1> DEFINE Inv == \A c \in Subscribers : CoveredOf(c)
  <1>1. Init => Inv
    BY DEF Init, LogInit, CoveredOf, Covered
  <1>2. ShapeInv /\ Inv /\ [Next]_vars => Inv'
    <2> SUFFICES ASSUME ShapeInv, Inv, [Next]_vars, NEW d \in Subscribers
                 PROVE  CoveredOf(d)'
      OBVIOUS
    <2>1. ASSUME NEW t \in Topics, NEW b \in Payloads, Publish(t, b)
          PROVE  CoveredOf(d)'
      BY <2>1, WorldCovered
    <2>2. CASE Environment
      BY <2>2, WorldCovered
    <2>3. CASE Shutdown \/ UNCHANGED vars
      BY <2>3 DEF Shutdown, vars, logVars, CoveredOf
    <2>4. ASSUME NEW c \in Subscribers, Turn(c)
          PROVE  CoveredOf(d)'
      <3>1. CASE c = d
        BY <2>4, <3>1, TurnCovered
      <3>2. CASE c # d
        BY <2>4, <3>2, TurnFrame DEF ShapeInv, CoveredOf
      <3>. QED BY <3>1, <3>2
    <2>. QED BY <2>1, <2>2, <2>3, <2>4, StepCases
  <1>3. Inv => NothingLostAfterBoundary
    BY DEF CoveredOf, Covered, KindSeqs, NothingLostAfterBoundary, SeqsOf
  <1>. QED BY <1>1, <1>2, <1>3, ShapeInvariant, PTL DEF Spec

\* The boundary an end date is turned into separates, of the history there was
\* when the request came, what was stored by that date from what came later.
THEOREM EndDatesAreExact == Spec => EndDateExact
  <1> DEFINE Exact == \A c \in Subscribers :
               conn[c].phase = "resolving" /\ conn'[c].phase = "starting" =>
                 \A m \in Matching(conn[c].topic) :
                   m.seq <= conn[c].bound =>
                     (m.time <= conn[c].end.value <=> m.seq <= conn'[c].bound)
  <1>1. ShapeInv /\ [Next]_vars => [Exact]_vars
    <2> SUFFICES ASSUME ShapeInv, [Next]_vars, NEW d \in Subscribers,
                        conn[d].phase = "resolving", conn'[d].phase = "starting"
                 PROVE  \A m \in Matching(conn[d].topic) :
                          m.seq <= conn[d].bound =>
                            (m.time <= conn[d].end.value <=> m.seq <= conn'[d].bound)
      OBVIOUS
    <2>1. conn'[d] # conn[d]
      OBVIOUS
    <2>2. PICK c \in Subscribers : Turn(c)
      BY <2>1, StepCases, Published, Worn DEF ShapeInv, Shutdown, vars
    <2>3. c = d
      BY <2>1, <2>2, TurnFrame DEF ShapeInv
    <2>4. LogTypeOK /\ Connected
      BY ShapeFacts
    <2>5. CASE ResolveEnd(d)
      BY <2>4, <2>5, ResolveEndStep
    <2>6. CASE Opening(d)
      <3>1. conn[d].mode = "none"
        BY <2>6, OpeningStep
      <3>. QED BY <3>1, ShapeFacts DEF Shape
    <2>7. CASE Controlling(d)
      BY <2>7, ControllingStep
    <2>8. CASE Resting(d)
      BY <2>8, RestingStep
    <2>9. CASE FetchBatch(d) \/ FetchFails(d) \/ EmitReplay(d) \/ EmitLive(d)
      BY <2>9 DEF FetchBatch, FetchFails, EmitReplay, EmitLive, Polled
    <2>. QED BY <2>2, <2>3, <2>5, <2>6, <2>7, <2>8, <2>9, TurnKinds
  <1>. QED BY <1>1, ShapeInvariant, PTL DEF Spec, EndDateExact

-----------------------------------------------------------------------------
(* Delivery in order.                                                       *)

SeqKinds == {"replay", "live", "error"}

\* The frames of a list that stand for a message.
Standing(q) == {f \in ToSet(q) : f.kind \in SeqKinds}

LEMMA StandingFrames ==
  ASSUME NEW q \in Seq(Frames)
  PROVE  /\ \A i \in Sequenced(q) : q[i] \in Standing(q)
         /\ \A f \in Standing(q) : \E i \in Sequenced(q) : q[i] = f
         /\ \A f \in Standing(q) : f.seq \in Nat /\ f \in Frames
         /\ Sequenced(q) \subseteq 1..Len(q) /\ DOMAIN q = 1..Len(q) /\ Len(q) \in Nat
  <1>1. /\ DOMAIN q = 1..Len(q) /\ Len(q) \in Nat
        /\ \A i \in 1..Len(q) : q[i] \in Frames
    BY LenProperties, ElementOfSeq
  <1>2. \A f \in Frames : f.seq \in Nat
    BY DEF Frames
  <1>. QED BY <1>1, <1>2 DEF Sequenced, Standing, ToSet, SeqKinds

LEMMA GrownOrder ==
  ASSUME NEW q \in Seq(Frames), NEW f \in Frames, InOrder(q),
         f.kind \in SeqKinds => \A g \in Standing(q) : g.seq < f.seq
  PROVE  InOrder(Append(q, f))
  <1> DEFINE r == Append(q, f)
  <1>1. /\ r \in Seq(Frames)
        /\ DOMAIN r = 1..(Len(q) + 1)
        /\ DOMAIN q = 1..Len(q) /\ Len(q) \in Nat
        /\ \A i \in 1..Len(q) : r[i] = q[i] /\ q[i] \in Frames
        /\ r[Len(q) + 1] = f
    BY Appended
  <1> HIDE DEF r
  <1>2. SUFFICES ASSUME NEW i \in Sequenced(r), NEW j \in Sequenced(r), i < j
                 PROVE  r[i].seq < r[j].seq
    BY DEF InOrder, r
  <1>3. i \in 1..Len(q) /\ i \in Sequenced(q) /\ r[i] = q[i]
    BY <1>1, <1>2 DEF Sequenced
  <1>4. CASE j = Len(q) + 1
    <2>1. r[j] = f /\ f.kind \in SeqKinds
      BY <1>1, <1>4 DEF Sequenced, SeqKinds
    <2>2. q[i] \in Standing(q)
      BY <1>3, StandingFrames
    <2>. QED BY <1>3, <2>1, <2>2
  <1>5. CASE j # Len(q) + 1
    <2>1. j \in Sequenced(q) /\ r[j] = q[j]
      BY <1>1, <1>5 DEF Sequenced
    <2>. QED BY <1>2, <1>3, <2>1 DEF InOrder
  <1>. QED BY <1>4, <1>5

LEMMA GrownStanding ==
  ASSUME NEW q \in Seq(Frames), NEW f \in Frames
  PROVE  /\ f.kind \in SeqKinds => Standing(Append(q, f)) = Standing(q) \cup {f}
         /\ f.kind \notin SeqKinds => Standing(Append(q, f)) = Standing(q)
  BY Appended DEF Standing

LEMMA TailOrder ==
  ASSUME NEW q \in Seq(Frames), q # <<>>, InOrder(q)
  PROVE  /\ InOrder(Tail(q)) /\ Tail(q) \in Seq(Frames) /\ Head(q) \in Frames
         /\ ToSet(q) = ToSet(Tail(q)) \cup {Head(q)}
         /\ Standing(Tail(q)) \subseteq Standing(q)
         /\ Head(q).kind \in SeqKinds =>
              /\ Head(q) \in Standing(q)
              /\ \A f \in Standing(Tail(q)) : Head(q).seq < f.seq
  <1> DEFINE r == Tail(q)
  <1>1. /\ r \in Seq(Frames) /\ Len(r) = Len(q) - 1 /\ Head(q) \in Frames
        /\ \A i \in 1..Len(r) : r[i] = q[i + 1]
    BY HeadTailProperties
  <1>2. /\ DOMAIN q = 1..Len(q) /\ Len(q) \in Nat /\ Len(q) # 0
        /\ DOMAIN r = 1..Len(r) /\ Len(r) \in Nat
    BY <1>1, LenProperties, EmptySeq
  <1>3. Head(q) = q[1] /\ 1 \in DOMAIN q
    BY <1>2
  <1>4. ToSet(q) = ToSet(r) \cup {Head(q)}
    <2>1. \A i \in DOMAIN q : q[i] \in ToSet(r) \cup {Head(q)}
      <3> TAKE i \in DOMAIN q
      <3>1. CASE i = 1
        BY <1>3, <3>1
      <3>2. CASE i # 1
        <4>1. i - 1 \in DOMAIN r /\ r[i - 1] = q[i]
          BY <1>1, <1>2, <3>2
        <4>. QED BY <4>1 DEF ToSet
      <3>. QED BY <3>1, <3>2
    <2>2. \A i \in DOMAIN r : r[i] \in ToSet(q)
      <3> TAKE i \in DOMAIN r
      <3>1. i + 1 \in DOMAIN q /\ r[i] = q[i + 1]
        BY <1>1, <1>2
      <3>. QED BY <3>1 DEF ToSet
    <2>3. Head(q) \in ToSet(q)
      BY <1>3 DEF ToSet
    <2>. QED BY <2>1, <2>2, <2>3 DEF ToSet
  <1> HIDE DEF r
  <1>5. \A i \in Sequenced(r) : i \in Nat /\ i + 1 \in Sequenced(q) /\ r[i] = q[i + 1] /\ i >= 1
    BY <1>1, <1>2 DEF Sequenced
  <1>6. InOrder(r)
    BY <1>5 DEF InOrder
  <1>7. ASSUME Head(q).kind \in SeqKinds, NEW f \in Standing(r)
        PROVE  Head(q).seq < f.seq
    <2>1. 1 \in Sequenced(q)
      BY <1>3, <1>7 DEF Sequenced, SeqKinds
    <2>2. PICK i \in Sequenced(r) : r[i] = f
      BY <1>1, StandingFrames
    <2>3. i + 1 \in Sequenced(q) /\ q[i + 1] = f /\ 1 < i + 1
      BY <1>5, <2>2
    <2>. QED BY <1>3, <2>1, <2>3 DEF InOrder
  <1>. QED BY <1>1, <1>4, <1>6, <1>7 DEF Standing, r

\* The frames of a batch are in the order of its messages.
LEMMA BatchOrder ==
  ASSUME NEW messages \in Seq(Message), Ascending(messages), NEW quota, NEW shown, NEW new,
         Puts(new, messages, quota, shown)
  PROVE  /\ InOrder(new)
         /\ \A f \in Standing(new) : \E i \in 1..shown :
              /\ i \in DOMAIN messages /\ messages[i] \in Message
              /\ f = Rendered(messages[i], "replay") /\ f.seq = messages[i].seq
              /\ f.kind # "live"
              /\ f.kind = "replay" => messages[i].payload \notin Unrenderable
  <1>1. /\ DOMAIN messages = 1..Len(messages) /\ Len(messages) \in Nat
        /\ \A i \in 1..Len(messages) : messages[i] \in Message
        /\ shown \in 0..Len(messages) /\ new \in Seq(Frames)
        /\ \A i \in 1..shown : new[i] = Rendered(messages[i], "replay")
    BY LenProperties, ElementOfSeq DEF Puts
  <1>2. \A i \in Sequenced(new) : i \in 1..shown
    <2>1. CASE DOMAIN new = 1..shown
      BY <2>1 DEF Sequenced
    <2>2. CASE DOMAIN new # 1..shown
      <3>1. DOMAIN new = 1..(shown + 1) /\ new[shown + 1] = Frame("replay_limit_reached", 0)
        BY <2>2 DEF Puts
      <3>2. shown + 1 \notin Sequenced(new)
        BY <3>1, FrameTypes DEF Sequenced, FrameKinds
      <3>. QED BY <1>1, <3>1, <3>2 DEF Sequenced
    <2>. QED BY <2>1, <2>2
  <1>3. ASSUME NEW i \in 1..shown
        PROVE  /\ i \in DOMAIN messages /\ messages[i] \in Message /\ i \in Nat
               /\ new[i] = Rendered(messages[i], "replay") /\ new[i].seq = messages[i].seq
               /\ new[i].kind = IF messages[i].payload \in Unrenderable THEN "error" ELSE "replay"
    <2>1. i \in DOMAIN messages /\ messages[i] \in Message /\ i \in Nat
      BY <1>1
    <2>2. new[i] = Rendered(messages[i], "replay")
      BY <1>1
    <2>. QED BY <2>1, <2>2, FrameTypes
  <1>4. InOrder(new)
    <2> SUFFICES ASSUME NEW i \in Sequenced(new), NEW j \in Sequenced(new), i < j
                 PROVE  new[i].seq < new[j].seq
      BY DEF InOrder
    <2>1. i \in 1..shown /\ j \in 1..shown
      BY <1>2
    <2>2. messages[i].seq < messages[j].seq
      BY <1>3, <2>1 DEF Ascending
    <2>. QED BY <1>3, <2>1, <2>2
  <1>5. ASSUME NEW f \in Standing(new)
        PROVE  \E i \in 1..shown :
              /\ i \in DOMAIN messages /\ messages[i] \in Message
              /\ f = Rendered(messages[i], "replay") /\ f.seq = messages[i].seq
              /\ f.kind # "live"
              /\ f.kind = "replay" => messages[i].payload \notin Unrenderable
    <2>1. PICK i \in Sequenced(new) : new[i] = f
      BY <1>1, StandingFrames
    <2>. QED BY <1>2, <1>3, <2>1
  <1>. QED BY <1>4, <1>5

\* A sequence that the next batch of a replay cannot bring again.
Passed(cursor, n) == cursor.kind = "sequence" /\ n < cursor.value

\* What was sent is in order and behind what is to come: the rest of the batch,
\* the next batch, the queue of the subscription.
Ordered(k, waiting, next) ==
  /\ InOrder(k.out) /\ InOrder(k.frames)
  /\ \A f \in Standing(k.out), g \in Standing(k.frames) : f.seq < g.seq
  /\ \A f \in Standing(k.out) :
       /\ f.seq < next
       /\ \A m \in waiting : f.seq < m.seq
       /\ k.phase \in Catching => f.seq <= k.bound
       /\ f.kind = "replay" => f.seq <= k.bound
       /\ f.kind = "live" => f.seq > k.bound
  /\ \A f \in Standing(k.frames) : f.seq <= k.bound
  /\ k.more /\ k.phase \in Catching =>
       \A f \in Standing(k.out) \cup Standing(k.frames) : Passed(k.cursor, f.seq)

OrderedOf(c) == Ordered(conn[c], ToSet(queue[c]), nextSequence)

LEMMA QueueBehind ==
  ASSUME ShapeInv, NEW c \in Subscribers
  PROVE  \A m \in ToSet(queue[c]) :
           /\ m \in Message /\ m.seq \in Nat /\ m.seq > conn[c].bound
           /\ m.seq < nextSequence /\ m.topic \in conn[c].topic /\ m \in ToSet(published)
  <1>1. \A m \in ToSet(queue[c]) :
          m \in ToSet(published) /\ m.topic \in pattern[c] /\ m.seq > historyEnd[c]
    BY DEF ShapeInv, LogInv, QueueKept
  <1>2. pattern[c] # {} => historyEnd[c] = conn[c].bound /\ pattern[c] = conn[c].topic
    BY ShapeFacts DEF Shape
  <1>3. nextSequence \in Nat
        /\ \A m \in ToSet(published) : m \in Message /\ m.seq \in 1..(nextSequence - 1)
    BY EverStored DEF ShapeInv
  <1>4. \A m \in ToSet(published) : m.seq < nextSequence /\ m.seq \in Nat
    BY <1>3
  <1>. QED BY <1>1, <1>2, <1>3, <1>4

LEMMA NoneStanding == Standing(<<>>) = {} /\ InOrder(<<>>)
  BY DEF Standing, ToSet, InOrder, Sequenced

\* Lists that stay as they are keep their order as long as the request, the
\* boundary and the cursor do.
LEMMA StillOrdered ==
  ASSUME NEW k, NEW n, NEW waiting, NEW kept \in SUBSET waiting, NEW next,
         Ordered(k, waiting, next),
         InOrder(n.out), Standing(n.out) = Standing(k.out),
         n.frames = k.frames, n.bound = k.bound, n.cursor = k.cursor, n.more = k.more,
         n.phase \in Catching => k.phase \in Catching
  PROVE  Ordered(n, kept, next)
  BY DEF Ordered

LEMMA TurnOrdered ==
  ASSUME ShapeInv, NEW c \in Subscribers, Turn(c), OrderedOf(c)
  PROVE  OrderedOf(c)'
  <1> DEFINE k == conn[c]
             n == conn'[c]
             before == ToSet(queue[c])
             after == ToSet(queue'[c])
  <1>1. /\ k \in Connection /\ LogTypeOK /\ Connected
        /\ Shape(k, pattern[c], historyEnd[c], nextSequence, ToSet(published))
        /\ k.out \in Seq(Frames) /\ k.frames \in Seq(Frames)
        /\ k.bound \in Nat
        /\ nextSequence \in Nat
    BY ShapeFacts, ConnectionFields
  <1>2. UNCHANGED <<nextSequence, published>> /\ after \subseteq before
    BY TurnFrame DEF ShapeInv
  <1>3. Ordered(k, before, nextSequence)
    BY DEF OrderedOf
  <1>4. SUFFICES Ordered(n, after, nextSequence)
    BY <1>2 DEF OrderedOf
  <1>5. CASE Opening(c)
    <2>1. Fresh(n)
      BY <1>5, OpeningStep
    <2>. QED BY <2>1, NoneStanding DEF Ordered, Fresh
  <1>6. CASE Controlling(c)
    <2>1. PICK kind \in Controls : Sends(k, n, kind)
      BY <1>6, ControllingStep
    <2>2. /\ n.phase = "replaying" => k.phase \in {"starting", "replaying"}
          /\ n.phase = "fetching" => k.phase = "fetching"
      BY <1>6, ControllingStep
    <2>3. Frame(kind, 0) \in Frames /\ Frame(kind, 0).kind \notin SeqKinds
      BY FrameTypes DEF Controls, FrameKinds, SeqKinds
    <2>4. k.phase = "starting" => k.out = <<>> /\ k.frames = <<>>
      BY <1>1 DEF Shape
    <2>. HIDE DEF k, n, before, after
    <2>5. InOrder(n.out) /\ Standing(n.out) = Standing(k.out)
      BY <1>1, <1>3, <2>1, <2>3, GrownOrder, GrownStanding DEF Sends, Ordered
    <2>6. CASE k.phase = "starting"
      BY <2>1, <2>4, <2>5, <2>6, NoneStanding DEF Ordered, Sends, Paged
    <2>7. CASE k.phase # "starting"
      <3>1. n.phase \in Catching => k.phase \in Catching
        BY <2>2, <2>7 DEF Catching
      <3>. QED BY <1>2, <1>3, <2>1, <2>5, <3>1, StillOrdered DEF Sends, Paged
    <2>. QED BY <2>6, <2>7
  <1>7. CASE Resting(c)
    <2>1. Rests(k, n) /\ (n.phase \in Catching => k.phase \in Catching)
      BY <1>7, RestingStep
    <2>2. InOrder(n.out) /\ Standing(n.out) = Standing(k.out)
      BY <1>3, <2>1 DEF Ordered, Rests
    <2>. HIDE DEF k, n, before, after
    <2>. QED BY <1>2, <1>3, <2>1, <2>2, StillOrdered DEF Rests, Paged
  <1>8. CASE ResolveEnd(c)
    <2>1. k.phase = "resolving" /\ n.frames = k.frames /\ n.out = k.out
      BY <1>1, <1>8, ResolveEndStep
    <2>2. n.out = <<>> /\ n.frames = <<>>
      BY <1>1, <2>1 DEF Shape
    <2>. QED BY <2>2, NoneStanding DEF Ordered
  <1>9. CASE FetchBatch(c)
    <2>1. /\ k.phase = "fetching" /\ Kept(k, n) /\ k.frames = <<>> /\ k.more
          /\ \E next \in 0..k.bound, page \in SUBSET k.known, messages \in Seq(Message) :
               \E shown \in 0..Len(messages) : Batched(k, n, next, page, messages, shown)
      BY <1>9, BatchStep
    <2>2. PICK next \in 0..k.bound, page \in SUBSET k.known, messages \in Seq(Message) :
               \E shown \in 0..Len(messages) : Batched(k, n, next, page, messages, shown)
      BY <2>1
    <2>3. PICK shown \in 0..Len(messages) : Batched(k, n, next, page, messages, shown)
      BY <2>2
    <2>. HIDE DEF k, n, before, after
    <2>4. /\ n.bound = k.bound /\ n.out = k.out /\ n.phase = "replaying"
          /\ n.cursor = IF next = 0 THEN k.cursor ELSE FromSequence(next)
          /\ n.more => next # 0
          /\ Ascending(messages)
          /\ IsBatch(page, next # 0, next, k.known, k.topic, k.cursor, k.bound)
          /\ \A i \in DOMAIN messages : messages[i] \in page
      BY <2>3 DEF Batched
    <2>5. /\ InOrder(n.frames)
          /\ \A f \in Standing(n.frames) : \E i \in DOMAIN messages :
               messages[i] \in Message /\ f.seq = messages[i].seq
      BY <2>3, BatchOrder DEF Batched
    <2>6. \A f \in Standing(n.frames) : \E m \in page :
               m \in Message /\ m.seq \in Nat /\ f.seq = m.seq
      BY <2>4, <2>5, MessageSeqs
    <2>7. \A m \in page : /\ Starts(k.cursor, m)
                          /\ m.seq <= IF next # 0 THEN next - 1 ELSE k.bound
      BY <2>4 DEF IsBatch, InRange
    <2>8. next # 0 => next <= k.bound
      BY <2>4 DEF IsBatch
    <2>9. next \in Nat
      BY <1>1
    <2>10. \A f \in Standing(k.out) : k.cursor.kind = "sequence" /\ f.seq < k.cursor.value
      BY <1>3, <2>1 DEF Ordered, Passed, Catching
    <2>11. k.cursor.value \in Nat
      BY <1>1, ConnectionFields
    <2>12. \A f \in Standing(k.out) : f.seq \in Nat
      BY <1>1, StandingFrames
    <2>13. ASSUME NEW f \in Standing(n.out), NEW g \in Standing(n.frames)
           PROVE  f.seq < g.seq
      <3>1. PICK m \in page : m \in Message /\ m.seq \in Nat /\ g.seq = m.seq
        BY <2>6
      <3>2. k.cursor.kind = "sequence" /\ f.seq < k.cursor.value /\ f.seq \in Nat
        BY <2>4, <2>10, <2>12
      <3>3. m.seq >= k.cursor.value
        BY <2>7, <3>2 DEF Starts
      <3>. QED BY <2>11, <3>1, <3>2, <3>3
    <2>14. \A f \in Standing(n.frames) : f.seq \in Nat /\ f.seq <= n.bound
                                         /\ (next # 0 => f.seq < next)
      <3> TAKE f \in Standing(n.frames)
      <3>1. PICK m \in page : m \in Message /\ m.seq \in Nat /\ f.seq = m.seq
        BY <2>6
      <3>. QED BY <1>1, <2>4, <2>7, <2>8, <2>9, <3>1
    <2>15. n.more => \A f \in Standing(n.out) \cup Standing(n.frames) : Passed(n.cursor, f.seq)
      <3> SUFFICES ASSUME n.more, NEW f \in Standing(n.out) \cup Standing(n.frames)
                   PROVE  Passed(n.cursor, f.seq)
        OBVIOUS
      <3>1. next # 0 /\ n.cursor.kind = "sequence" /\ n.cursor.value = next
        BY <2>4 DEF FromSequence
      <3>2. CASE f \in Standing(n.frames)
        BY <2>14, <3>1, <3>2 DEF Passed
      <3>3. CASE f \in Standing(n.out)
        <4>1. k.cursor.kind = "sequence" /\ f.seq < k.cursor.value /\ f.seq \in Nat
          BY <2>4, <2>10, <2>12, <3>3
        <4>2. next > k.cursor.value
          BY <2>4, <3>1, <4>1 DEF IsBatch
        <4>. QED BY <2>9, <2>11, <3>1, <4>1, <4>2 DEF Passed
      <3>. QED BY <3>2, <3>3
    <2>. QED BY <1>2, <1>3, <2>1, <2>4, <2>5, <2>13, <2>14, <2>15 DEF Ordered, Catching
  <1>10. CASE FetchFails(c)
    <2>1. /\ k.phase = "fetching" /\ n.out = k.out /\ n.bound = k.bound
          /\ ~n.more
          /\ n.frames = <<Frame("replay_failed", 0)>>
      BY <1>1, <1>10, FetchFailsStep
    <2>2. Frame("replay_failed", 0).kind \notin SeqKinds
      BY FrameTypes DEF FrameKinds, SeqKinds
    <2>3. InOrder(n.frames) /\ Standing(n.frames) = {}
      BY <2>1, <2>2 DEF InOrder, Sequenced, SeqKinds, Standing, ToSet
    <2>. HIDE DEF k, n, before, after
    <2>. QED BY <1>2, <1>3, <2>1, <2>3 DEF Ordered, Catching
  <1>11. CASE EmitReplay(c)
    <2> DEFINE h == Head(k.frames)
    <2>1. /\ k.phase = "replaying" /\ k.frames # <<>>
          /\ n.phase \in {"drained", "replaying"}
          /\ n.more = k.more /\ n.bound = k.bound /\ n.cursor = k.cursor
          /\ n.frames = Tail(k.frames) /\ n.out = Append(k.out, h)
      <3>1. n.phase = IF Head(k.frames).kind \in Terminal THEN "drained" ELSE "replaying"
        <4>1. ReplayEmitted(k, n) /\ UNCHANGED logVars
          BY <1>1, <1>11, EmitReplayStep
        <4>. QED BY <4>1 DEF ReplayEmitted
      <3>3. n = conn'[c] /\ k = conn[c]
        OBVIOUS
      <3>2. /\ k.phase = "replaying" /\ k.frames # <<>>
            /\ n.more = k.more /\ n.bound = k.bound /\ n.cursor = k.cursor
            /\ n.frames = Tail(k.frames) /\ n.out = Append(k.out, h)
        <4> HIDE DEF k, n
        <4>1. ReplayEmitted(k, n) /\ UNCHANGED logVars
          BY <1>1, <1>11, <3>3, EmitReplayStep
        <4>. QED BY <4>1 DEF ReplayEmitted
      <3>. QED BY <3>1, <3>2
    <2>2. \A m \in before : m.seq \in Nat /\ m.seq > k.bound
      BY QueueBehind
    <2>3. k.bound < nextSequence /\ WellEnded(k.frames)
      BY <1>1 DEF Shape
    <2>. HIDE DEF k, n, before, after
    <2>4. /\ InOrder(n.frames) /\ h \in Frames
          /\ Standing(n.frames) \subseteq Standing(k.frames)
          /\ h.kind \in SeqKinds =>
               /\ h \in Standing(k.frames)
               /\ \A f \in Standing(n.frames) : h.seq < f.seq
      BY <1>1, <1>3, <2>1, TailOrder DEF Ordered
    <2>5. h.kind # "live"
      <3>1. h = k.frames[1] /\ 1 \in DOMAIN k.frames
        BY <1>1, <2>1, <2>3, EndedTail
      <3>. HIDE DEF h
      <3>2. h.kind \in {"replay", "error"} \cup Terminal
        BY <2>3, <3>1 DEF WellEnded
      <3>. QED BY <3>2 DEF Terminal
    <2>. HIDE DEF h
    <2>6. InOrder(n.out)
      BY <1>1, <1>3, <2>1, <2>4, GrownOrder DEF Ordered
    <2>7. h.seq \in Nat
      BY <2>4 DEF Frames
    <2>8. CASE h.kind \in SeqKinds
      <3>1. Standing(n.out) = Standing(k.out) \cup {h}
        BY <1>1, <2>1, <2>4, <2>8, GrownStanding
      <3>2. h.seq <= k.bound /\ h.seq < nextSequence
        BY <1>1, <1>3, <2>3, <2>4, <2>7, <2>8 DEF Ordered
      <3>3. \A m \in after : h.seq < m.seq
        BY <1>1, <1>2, <2>2, <2>7, <3>2
      <3>4. n.more /\ n.phase \in Catching =>
              \A f \in Standing(n.out) \cup Standing(n.frames) : Passed(n.cursor, f.seq)
        BY <1>3, <2>1, <2>4, <2>8, <3>1 DEF Ordered, Catching
      <3>5. \A f \in Standing(n.out), g \in Standing(n.frames) : f.seq < g.seq
        BY <1>3, <2>4, <2>8, <3>1 DEF Ordered
      <3>6. \A f \in Standing(n.out) :
              /\ f.seq < nextSequence
              /\ \A m \in after : f.seq < m.seq
              /\ n.phase \in Catching => f.seq <= n.bound
              /\ f.kind = "replay" => f.seq <= n.bound
              /\ f.kind = "live" => f.seq > n.bound
        BY <1>2, <1>3, <2>1, <2>5, <3>1, <3>2, <3>3 DEF Ordered, Catching
      <3>7. \A f \in Standing(n.frames) : f.seq <= n.bound
        BY <1>3, <2>1, <2>4 DEF Ordered
      <3>. QED BY <2>4, <2>6, <3>4, <3>5, <3>6, <3>7 DEF Ordered
    <2>9. CASE h.kind \notin SeqKinds
      <3>1. Standing(n.out) = Standing(k.out)
        BY <1>1, <2>1, <2>4, <2>9, GrownStanding
      <3>. QED BY <1>2, <1>3, <2>1, <2>4, <2>6, <3>1 DEF Ordered, Catching
    <2>. QED BY <2>8, <2>9
  <1>12. CASE EmitLive(c)
    <2> DEFINE h == Head(queue[c])
               f == Rendered(h, "live")
    <2>1. /\ k.phase = "live" /\ n.phase = "live" /\ Receive(c) /\ Paged(k, n)
          /\ \/ h.payload \in Excluded /\ n.out = k.out
             \/ h.payload \notin Excluded /\ n.out = Append(k.out, f)
      BY <1>1, <1>12, EmitLiveStep
    <2>2. /\ queue[c] # <<>> /\ queue[c] \in Seq(Message)
          /\ queue'[c] = Tail(queue[c])
      BY <1>1, <2>1 DEF Receive, LogTypeOK
    <2>3. h \in Message /\ h = queue[c][1] /\ h \in before
      BY <2>2, HeadTailProperties, LenProperties, EmptySeq DEF ToSet
    <2>4. h.seq \in Nat /\ h.seq > k.bound /\ h.seq < nextSequence
      BY <2>3, QueueBehind
    <2>5. \A m \in after : m \in before /\ h.seq < m.seq
      <3>1. \A m \in Message : m.seq \in Nat
        BY MessageSeqs
      <3>2. \A i, j \in DOMAIN queue[c] : i < j => queue[c][i].seq < queue[c][j].seq
        BY DEF ShapeInv, LogInv, QueueKept, Ascending
      <3>3. /\ \A i \in DOMAIN Tail(queue[c]) :
                 i + 1 \in DOMAIN queue[c] /\ Tail(queue[c])[i] = queue[c][i + 1]
            /\ 1 \in DOMAIN queue[c]
            /\ DOMAIN Tail(queue[c]) \subseteq Nat \ {0}
        <4>1. /\ \A i \in DOMAIN Tail(queue[c]) :
                   i + 1 \in DOMAIN queue[c] /\ Tail(queue[c])[i] = queue[c][i + 1]
              /\ 1 \in DOMAIN queue[c]
          BY <2>2, <3>1, <3>2, QueueShrinks
        <4>2. Tail(queue[c]) \in Seq(Message)
          BY <2>2, HeadTailProperties
        <4>3. DOMAIN Tail(queue[c]) = 1..Len(Tail(queue[c]))
          BY <4>2, LenProperties
        <4>. QED BY <4>1, <4>3
      <3>4. \A i \in DOMAIN Tail(queue[c]) : h.seq < Tail(queue[c])[i].seq
        BY <2>3, <3>2, <3>3
      <3>. QED BY <1>2, <2>2, <3>4 DEF ToSet
    <2>6. k.frames = <<>> /\ n.frames = <<>>
      BY <1>1, <2>1 DEF Shape, Paged
    <2>7. /\ f \in Frames /\ f.seq = h.seq /\ f.kind \in {"live", "error"}
      BY <2>3, FrameTypes
    <2>8. n.bound = k.bound /\ n.phase \notin Catching
      BY <2>1 DEF Paged, Catching
    <2>. HIDE DEF k, n, before, after, h, f
    <2>9. CASE h.payload \in Excluded
      <3>1. n.out = k.out
        BY <2>1, <2>9
      <3>. QED BY <1>2, <1>3, <2>6, <2>8, <3>1 DEF Ordered
    <2>10. CASE h.payload \notin Excluded
      <3>1. n.out = Append(k.out, f)
        BY <2>1, <2>10
      <3>2. Standing(n.out) = Standing(k.out) \cup {f}
        BY <1>1, <2>7, <3>1, GrownStanding DEF SeqKinds
      <3>3. \A g \in Standing(k.out) : g.seq < f.seq
        BY <1>3, <2>3, <2>7 DEF Ordered
      <3>4. InOrder(n.out)
        BY <1>1, <1>3, <2>7, <3>1, <3>3, GrownOrder DEF Ordered
      <3>5. \A g \in Standing(n.out) :
              /\ g.seq < nextSequence
              /\ \A m \in after : g.seq < m.seq
              /\ g.kind = "replay" => g.seq <= n.bound
              /\ g.kind = "live" => g.seq > n.bound
        BY <1>2, <1>3, <2>4, <2>5, <2>7, <2>8, <3>2 DEF Ordered
      <3>. QED BY <2>6, <2>8, <3>4, <3>5, NoneStanding DEF Ordered
    <2>. QED BY <2>9, <2>10
  <1>. QED BY <1>5, <1>6, <1>7, <1>8, <1>9, <1>10, <1>11, <1>12, TurnKinds

LEMMA WorldOrdered ==
  ASSUME ShapeInv, NEW c \in Subscribers, OrderedOf(c),
         Environment \/ \E t \in Topics, b \in Payloads : Publish(t, b)
  PROVE  OrderedOf(c)'
  <1>1. CASE Environment
    <2>1. UNCHANGED <<nextSequence, conn>> /\ ToSet(queue'[c]) \subseteq ToSet(queue[c])
      BY <1>1, Worn DEF ShapeInv
    <2>. QED BY <2>1 DEF OrderedOf, Ordered
  <1>2. ASSUME NEW t \in Topics, NEW b \in Payloads, Publish(t, b)
        PROVE  OrderedOf(c)'
    <2> DEFINE m == NextMessage(t, b)
    <2>1. /\ nextSequence' = nextSequence + 1 /\ conn' = conn
          /\ \A x \in ToSet(queue'[c]) : x \in ToSet(queue[c]) \/ x = m
      BY <1>2, Published DEF ShapeInv
    <2>2. m.seq = nextSequence /\ nextSequence \in Nat
      BY NextMessageType DEF ShapeInv, LogInv, LogTypeOK
    <2>3. \A f \in Standing(conn[c].out) : f.seq \in Nat /\ f.seq < nextSequence
      BY ShapeFacts, ConnectionFields, StandingFrames DEF OrderedOf, Ordered
    <2>. HIDE DEF m
    <2>4. \A f \in Standing(conn[c].out) :
            /\ f.seq < nextSequence'
            /\ \A x \in ToSet(queue'[c]) : f.seq < x.seq
      BY <2>1, <2>2, <2>3 DEF OrderedOf, Ordered
    <2>. QED BY <2>1, <2>4 DEF OrderedOf, Ordered
  <1>. QED BY <1>1, <1>2

OrderInv == ShapeInv /\ \A c \in Subscribers : OrderedOf(c)

LEMMA OrderInvariant == Spec => []OrderInv
  <1> DEFINE Inv == \A c \in Subscribers : OrderedOf(c)
  <1>1. Init => Inv
    <2> SUFFICES ASSUME Init, NEW c \in Subscribers PROVE OrderedOf(c)
      OBVIOUS
    <2>1. conn[c].out = <<>> /\ conn[c].frames = <<>>
      BY IdleFields DEF Init
    <2>. QED BY <2>1, NoneStanding DEF OrderedOf, Ordered
  <1>2. ShapeInv /\ Inv /\ [Next]_vars => Inv'
    <2> SUFFICES ASSUME ShapeInv, Inv, [Next]_vars, NEW d \in Subscribers
                 PROVE  OrderedOf(d)'
      OBVIOUS
    <2>1. ASSUME NEW t \in Topics, NEW b \in Payloads, Publish(t, b)
          PROVE  OrderedOf(d)'
      BY <2>1, WorldOrdered
    <2>2. CASE Environment
      BY <2>2, WorldOrdered
    <2>3. CASE Shutdown \/ UNCHANGED vars
      BY <2>3 DEF Shutdown, vars, logVars, OrderedOf
    <2>4. ASSUME NEW c \in Subscribers, Turn(c)
          PROVE  OrderedOf(d)'
      <3>1. CASE c = d
        BY <2>4, <3>1, TurnOrdered
      <3>2. CASE c # d
        BY <2>4, <3>2, TurnFrame DEF ShapeInv, OrderedOf
      <3>. QED BY <3>1, <3>2
    <2>. QED BY <2>1, <2>2, <2>3, <2>4, StepCases
  <1>. QED BY <1>1, <1>2, ShapeInvariant, PTL DEF Spec, OrderInv

\* On every connection the notifications, and the errors in place of some, come
\* in ascending order and once, history up to the boundary and live ones behind.
THEOREM DeliveredInOrder == Spec => []DeliveryOrdered
  <1>1. OrderInv => DeliveryOrdered
    <2> SUFFICES ASSUME OrderInv, NEW c \in Subscribers
                 PROVE  LET k == conn[c] IN
                        /\ InOrder(k.out) /\ InOrder(k.frames)
                        /\ \A i \in Sequenced(k.out), j \in Sequenced(k.frames) :
                             k.out[i].seq < k.frames[j].seq
                        /\ \A q \in {k.out, k.frames} : \A i \in DOMAIN q :
                             /\ q[i].kind = "replay" => q[i].seq <= k.bound
                             /\ q[i].kind = "live" => q[i].seq > k.bound
      BY DEF DeliveryOrdered
    <2> DEFINE k == conn[c]
    <2>1. /\ Ordered(k, ToSet(queue[c]), nextSequence)
          /\ WellEnded(k.frames)
          /\ k.out \in Seq(Frames) /\ k.frames \in Seq(Frames)
      BY ShapeFacts, ConnectionFields DEF OrderInv, OrderedOf, Shape
    <2> HIDE DEF k
    <2>2. /\ \A i \in Sequenced(k.out) : k.out[i] \in Standing(k.out)
          /\ \A i \in Sequenced(k.frames) : k.frames[i] \in Standing(k.frames)
      BY <2>1, StandingFrames
    <2>3. \A i \in DOMAIN k.out :
            /\ k.out[i].kind = "replay" => k.out[i].seq <= k.bound
            /\ k.out[i].kind = "live" => k.out[i].seq > k.bound
      <3> TAKE i \in DOMAIN k.out
      <3>1. k.out[i].kind \in {"replay", "live"} => i \in Sequenced(k.out)
        BY DEF Sequenced
      <3>. QED BY <2>1, <2>2, <3>1 DEF Ordered
    <2>4. \A i \in DOMAIN k.frames :
            /\ k.frames[i].kind = "replay" => k.frames[i].seq <= k.bound
            /\ k.frames[i].kind # "live"
      <3> TAKE i \in DOMAIN k.frames
      <3>1. k.frames[i].kind = "replay" => i \in Sequenced(k.frames)
        BY DEF Sequenced
      <3>2. k.frames[i].kind # "live"
        BY <2>1 DEF WellEnded, Terminal
      <3>. QED BY <2>1, <2>2, <3>1, <3>2 DEF Ordered
    <2>5. InOrder(k.out) /\ InOrder(k.frames)
      BY <2>1 DEF Ordered
    <2>6. \A i \in Sequenced(k.out), j \in Sequenced(k.frames) : k.out[i].seq < k.frames[j].seq
      BY <2>1, <2>2 DEF Ordered
    <2>. QED BY <2>3, <2>4, <2>5, <2>6 DEF k
  <1>. QED BY <1>1, OrderInvariant, PTL

-----------------------------------------------------------------------------
(* What is replayed was asked for, and nothing asked for is skipped.        *)

Wanted(k, m) == m.topic \in k.topic /\ Starts(k.start, m) /\ m.seq <= k.bound

\* The end of the request, in its own terms.
Ended(k, m) ==
  /\ k.end.kind = "sequence" => m.seq <= k.end.value
  /\ k.end.kind = "date" => m.time <= k.end.value

\* Every replayed notification is a message that was asked for.  What the next
\* batch can bring lies within the request too: the cursor has not left it, and
\* the boundary is within the end.
Within(k, pub, ret) ==
  /\ \A f \in ToSet(k.out) \cup ToSet(k.frames) : f.kind = "replay" =>
       \E m \in pub : m.seq = f.seq /\ Wanted(k, m) /\ Ended(k, m) /\ Notifiable(m)
  /\ \A m \in k.known : m \in pub /\ Wanted(k, m) /\ Ended(k, m)
  /\ k.phase \in Catching \cup {"starting"} => \A m \in ret :
       m.topic \in k.topic /\ m.seq <= k.bound =>
         /\ Ended(k, m)
         /\ k.more /\ Starts(k.cursor, m) => Starts(k.start, m)

WithinOf(c) == Within(conn[c], ToSet(published), retained)

LEMMA SameWanted ==
  ASSUME NEW k, NEW n, Kept(k, n), n.bound = k.bound
  PROVE  /\ \A m : Wanted(n, m) <=> Wanted(k, m)
         /\ \A m : Ended(n, m) <=> Ended(k, m)
  BY DEF Kept, Wanted, Ended

\* A step that sends no replayed notification and leaves the cursor.
LEMMA StillWithin ==
  ASSUME NEW k, NEW n, NEW pub, NEW ret, Within(k, pub, ret),
         Kept(k, n), n.bound = k.bound, n.cursor = k.cursor, n.more => k.more,
         \A f \in ToSet(n.out) \cup ToSet(n.frames) :
           f.kind = "replay" => f \in ToSet(k.out) \cup ToSet(k.frames),
         \A m \in n.known : m \in pub /\ Wanted(k, m) /\ Ended(k, m),
         n.phase \in Catching \cup {"starting"} => k.phase \in Catching \cup {"starting"}
  PROVE  Within(n, pub, ret)
  <1>1. /\ \A m : Wanted(n, m) <=> Wanted(k, m)
        /\ \A m : Ended(n, m) <=> Ended(k, m)
    BY SameWanted
  <1>2. \A f \in ToSet(n.out) \cup ToSet(n.frames) : f.kind = "replay" =>
          \E m \in pub : m.seq = f.seq /\ Wanted(n, m) /\ Ended(n, m) /\ Notifiable(m)
    BY <1>1 DEF Within
  <1>3. n.phase \in Catching \cup {"starting"} => \A m \in ret :
          m.topic \in n.topic /\ m.seq <= n.bound =>
            /\ Ended(n, m)
            /\ n.more /\ Starts(n.cursor, m) => Starts(n.start, m)
    BY <1>1 DEF Within, Kept
  <1>4. \A m \in n.known : m \in pub /\ Wanted(n, m) /\ Ended(n, m)
    BY <1>1
  <1>. QED BY <1>2, <1>3, <1>4 DEF Within

LEMMA TurnWithin ==
  ASSUME OrderInv, NEW c \in Subscribers, Turn(c), WithinOf(c)
  PROVE  WithinOf(c)'
  <1> DEFINE k == conn[c]
             n == conn'[c]
             pub == ToSet(published)
  <1>1. /\ k \in Connection /\ LogTypeOK /\ Connected /\ ShapeInv
        /\ Shape(k, pattern[c], historyEnd[c], nextSequence, pub)
        /\ k.out \in Seq(Frames) /\ k.frames \in Seq(Frames)
        /\ k.bound \in Nat
    BY ShapeFacts, ConnectionFields DEF OrderInv
  <1>2. UNCHANGED <<retained, published>>
    BY <1>1, TurnFrame DEF ShapeInv
  <1>3. Within(k, pub, retained)
    BY DEF WithinOf
  <1>4. SUFFICES Within(n, pub, retained)
    BY <1>2 DEF WithinOf
  <1>5. /\ \A m \in retained : m \in pub /\ m \in Message /\ m.seq \in Nat
        /\ \A m \in pub : m \in Message /\ m.seq \in Nat
    BY <1>1, EverStored, MessageSeqs DEF ShapeInv
  <1>6. k.known \subseteq pub /\ \A m \in k.known : Wanted(k, m) /\ Ended(k, m)
    BY <1>3 DEF Within
  <1>7. CASE Opening(c)
    <2>1. /\ Fresh(n)
          /\ n.phase = IF n.end.kind = "date" THEN "resolving" ELSE "starting"
          /\ n.bound \in Nat
          /\ n.end.kind = "sequence" => n.bound <= n.end.value
      BY <1>1, <1>7, OpeningStep
    <2>2. n \in Connection
      BY <1>1, TurnShape
    <2>. HIDE DEF k, n, pub
    <2>3. n.end.value \in Nat
      BY <2>2, ConnectionFields
    <2>4. n.phase \in Catching \cup {"starting"} => n.end.kind # "date"
      BY <2>1 DEF Catching
    <2>5. n.phase \in Catching \cup {"starting"} => \A m \in retained :
            m.topic \in n.topic /\ m.seq <= n.bound =>
              /\ Ended(n, m)
              /\ n.more /\ Starts(n.cursor, m) => Starts(n.start, m)
      BY <1>5, <2>1, <2>3, <2>4 DEF Ended, Fresh
    <2>. QED BY <2>1, <2>5 DEF Within, Fresh, ToSet
  <1>8. CASE Controlling(c)
    <2>1. PICK kind \in Controls : Sends(k, n, kind)
      BY <1>1, <1>8, ControllingStep
    <2>2. /\ n.phase = "replaying" => k.phase \in {"starting", "replaying"}
          /\ n.phase = "fetching" => k.phase = "fetching"
          /\ n.phase \in {"replaying", "fetching", "live", "drained", "closed"}
      BY <1>1, <1>8, ControllingStep
    <2>3. Frame(kind, 0) \in Frames /\ Frame(kind, 0).kind # "replay"
      BY FrameTypes DEF Controls, FrameKinds
    <2>. HIDE DEF k, n, pub
    <2>4. ToSet(n.out) = ToSet(k.out) \cup {Frame(kind, 0)} /\ n.frames = k.frames
      BY <1>1, <2>1, <2>3, Appended DEF Sends, Paged
    <2>5. /\ \A f \in ToSet(n.out) \cup ToSet(n.frames) :
               f.kind = "replay" => f \in ToSet(k.out) \cup ToSet(k.frames)
          /\ n.phase \in Catching \cup {"starting"} => k.phase \in Catching \cup {"starting"}
      BY <2>2, <2>3, <2>4 DEF Catching
    <2>6. /\ Kept(k, n) /\ n.bound = k.bound /\ n.cursor = k.cursor /\ (n.more => k.more)
          /\ \A m \in n.known : m \in pub /\ Wanted(k, m) /\ Ended(k, m)
      BY <1>6, <2>1 DEF Sends, Paged
    <2>. QED BY <1>3, <2>5, <2>6, StillWithin
  <1>9. CASE Resting(c)
    <2>1. /\ Rests(k, n)
          /\ \/ n.known = k.known
             \/ /\ k.phase = "replaying" /\ k.more
                /\ n.known = InRange(retained, k.topic, k.cursor, k.bound)
          /\ n.phase \in {"replaying", "fetching", "live", "drained", "closed"}
          /\ n.phase \in Catching => k.phase \in Catching
      BY <1>1, <1>9, RestingStep
    <2>. HIDE DEF k, n, pub
    <2>2. \A m \in n.known : m \in pub /\ Wanted(k, m) /\ Ended(k, m)
      BY <1>3, <1>5, <1>6, <2>1 DEF Within, InRange, Wanted, Catching
    <2>3. /\ \A f \in ToSet(n.out) \cup ToSet(n.frames) :
               f.kind = "replay" => f \in ToSet(k.out) \cup ToSet(k.frames)
          /\ n.phase \in Catching \cup {"starting"} => k.phase \in Catching \cup {"starting"}
          /\ Kept(k, n) /\ n.bound = k.bound /\ n.cursor = k.cursor /\ (n.more => k.more)
      BY <2>1 DEF Rests, Paged
    <2>. QED BY <1>3, <2>2, <2>3, StillWithin
  <1>10. CASE ResolveEnd(c)
    <2>1. /\ k.phase = "resolving" /\ n.phase = "starting"
          /\ Kept(k, n) /\ n.cursor = k.cursor /\ n.known = k.known
          /\ n.frames = k.frames /\ n.out = k.out
          /\ n.bound \in Nat /\ n.bound <= k.bound
          /\ \A m \in Matching(k.topic) :
               m.seq <= k.bound => (m.time <= k.end.value <=> m.seq <= n.bound)
      BY <1>1, <1>10, ResolveEndStep
    <2>. HIDE DEF k, n, pub
    <2>2. /\ n.out = <<>> /\ n.frames = <<>> /\ n.cursor = n.start /\ n.known = {}
          /\ n.end.kind = "date"
      BY <1>1, <2>1 DEF Shape, Kept
    <2>3. ASSUME NEW m \in retained, m.topic \in n.topic, m.seq <= n.bound
          PROVE  Ended(n, m)
      <3>1. m \in Matching(k.topic) /\ m.seq <= k.bound
        BY <1>1, <1>5, <2>1, <2>3 DEF Matching, Kept
      <3>. QED BY <2>1, <2>2, <2>3, <3>1 DEF Ended, Kept
    <2>. QED BY <2>2, <2>3 DEF Within, ToSet
  <1>11. CASE FetchBatch(c)
    <2>1. /\ k.phase = "fetching" /\ Kept(k, n) /\ k.frames = <<>> /\ k.more
          /\ \E next \in 0..k.bound, page \in SUBSET k.known, messages \in Seq(Message) :
               \E shown \in 0..Len(messages) : Batched(k, n, next, page, messages, shown)
      BY <1>1, <1>11, BatchStep
    <2>2. PICK next \in 0..k.bound, page \in SUBSET k.known, messages \in Seq(Message) :
               \E shown \in 0..Len(messages) : Batched(k, n, next, page, messages, shown)
      BY <2>1
    <2>3. PICK shown \in 0..Len(messages) : Batched(k, n, next, page, messages, shown)
      BY <2>2
    <2>. HIDE DEF k, n, pub
    <2>4. /\ n.bound = k.bound /\ n.out = k.out /\ n.phase = "replaying" /\ n.known = {}
          /\ n.cursor = IF next = 0 THEN k.cursor ELSE FromSequence(next)
          /\ n.more => next # 0
          /\ Ascending(messages)
          /\ IsBatch(page, next # 0, next, k.known, k.topic, k.cursor, k.bound)
          /\ \A i \in DOMAIN messages : messages[i] \in page /\ messages[i].payload \notin Excluded
          /\ n.frames \in Seq(Frames)
      BY <2>3 DEF Batched, Puts
    <2>5. /\ \A m : Wanted(n, m) <=> Wanted(k, m)
          /\ \A m : Ended(n, m) <=> Ended(k, m)
      BY <2>1, <2>4, SameWanted
    <2>6. ASSUME NEW f \in ToSet(n.frames), f.kind = "replay"
          PROVE  \E m \in pub : m.seq = f.seq /\ Wanted(n, m) /\ Ended(n, m) /\ Notifiable(m)
      <3>1. f \in Standing(n.frames)
        BY <2>6 DEF Standing, SeqKinds
      <3>2. PICK i \in 1..shown :
              /\ i \in DOMAIN messages /\ f.seq = messages[i].seq
              /\ f.kind = "replay" => messages[i].payload \notin Unrenderable
        BY <2>3, <3>1, BatchOrder DEF Batched
      <3>3. messages[i] \in k.known /\ Notifiable(messages[i])
        BY <2>4, <2>6, <3>2 DEF Notifiable
      <3>. QED BY <1>6, <2>5, <3>2, <3>3
    <2>7. \A f \in ToSet(n.out) \cup ToSet(n.frames) : f.kind = "replay" =>
            \E m \in pub : m.seq = f.seq /\ Wanted(n, m) /\ Ended(n, m) /\ Notifiable(m)
      BY <1>3, <2>4, <2>5, <2>6 DEF Within
    <2>8. ASSUME NEW m \in retained, m.topic \in n.topic, m.seq <= n.bound
          PROVE  /\ Ended(n, m)
                 /\ n.more /\ Starts(n.cursor, m) => Starts(n.start, m)
      <3>1. m.topic \in k.topic /\ m.seq <= k.bound
        BY <2>1, <2>4, <2>8 DEF Kept
      <3>2. Ended(n, m) /\ (Starts(k.cursor, m) => Starts(k.start, m))
        BY <1>3, <2>1, <2>5, <3>1 DEF Within, Catching
      <3>3. ASSUME n.more, Starts(n.cursor, m)
            PROVE  Starts(n.start, m)
        <4>1. next # 0 /\ m.seq >= next
          BY <2>4, <3>3 DEF Starts, FromSequence
        <4>2. m \in Matching(k.topic)
          BY <3>1 DEF Matching
        <4>3. Starts(k.cursor, m)
          BY <2>4, <4>1, <4>2 DEF IsBatch
        <4>. QED BY <2>1, <3>2, <4>3 DEF Kept
      <3>. QED BY <3>2, <3>3
    <2>. QED BY <2>4, <2>7, <2>8 DEF Within
  <1>12. CASE FetchFails(c)
    <2>0. k = conn[c] /\ n = conn'[c]
      OBVIOUS
    <2>. HIDE DEF k, n, pub
    <2>1. /\ k.phase = "fetching" /\ n.phase = "replaying" /\ Kept(k, n) /\ n.known = {}
          /\ n.bound = k.bound /\ n.cursor = k.cursor /\ n.out = k.out
          /\ n.more \in BOOLEAN /\ ~n.more
          /\ n.frames = <<Frame("replay_failed", 0)>>
      <3>1. Connected /\ FetchFails(c)
        BY <1>1, <1>12
      <3>2. n.frames = <<Frame("replay_failed", 0)>>
        BY <2>0, <3>1, FetchFailsStep
      <3>3. n.more \in BOOLEAN /\ ~n.more
        BY <2>0, <3>1, FetchFailsStep
      <3>4. Kept(k, n) /\ n.known = {} /\ k.phase = "fetching" /\ n.phase = "replaying"
        BY <2>0, <3>1, FetchFailsStep
      <3>5. n.bound = k.bound /\ n.cursor = k.cursor /\ n.out = k.out
        BY <2>0, <3>1, FetchFailsStep
      <3>. QED BY <3>2, <3>3, <3>4, <3>5
    <2>2. Frame("replay_failed", 0).kind # "replay"
      BY FrameTypes DEF FrameKinds
    <2>3. \A f \in ToSet(n.out) \cup ToSet(n.frames) :
            f.kind = "replay" => f \in ToSet(k.out) \cup ToSet(k.frames)
      BY <2>1, <2>2 DEF ToSet
    <2>. QED BY <1>3, <2>1, <2>3, StillWithin DEF Catching
  <1>13. CASE EmitReplay(c)
    <2> DEFINE h == Head(k.frames)
    <2>0. k = conn[c] /\ n = conn'[c]
      OBVIOUS
    <2>. HIDE DEF k, n, pub
    <2>1. /\ k.phase = "replaying" /\ k.frames # <<>> /\ Kept(k, n) /\ n.known = k.known
          /\ n.more = k.more /\ n.bound = k.bound /\ n.cursor = k.cursor
          /\ n.frames = Tail(k.frames) /\ n.out = Append(k.out, h)
          /\ n.phase = IF h.kind \in Terminal THEN "drained" ELSE "replaying"
      <3>1. ReplayEmitted(k, n) /\ UNCHANGED logVars
        BY <1>1, <1>13, <2>0, EmitReplayStep
      <3>. QED BY <3>1 DEF ReplayEmitted
    <2>2. /\ InOrder(k.frames)
      BY <2>0 DEF OrderInv, OrderedOf, Ordered
    <2>3. ToSet(k.frames) = ToSet(n.frames) \cup {h} /\ h \in Frames
      BY <1>1, <2>1, <2>2, TailOrder
    <2>4. ToSet(n.out) = ToSet(k.out) \cup {h}
      <3> HIDE DEF h
      <3>. QED BY <1>1, <2>1, <2>3, Appended
    <2>5. /\ \A f \in ToSet(n.out) \cup ToSet(n.frames) :
               f.kind = "replay" => f \in ToSet(k.out) \cup ToSet(k.frames)
          /\ n.phase \in Catching \cup {"starting"} => k.phase \in Catching \cup {"starting"}
      BY <2>1, <2>3, <2>4 DEF Catching
    <2>. QED BY <1>3, <1>6, <2>1, <2>5, StillWithin
  <1>14. CASE EmitLive(c)
    <2> DEFINE h == Head(queue[c])
    <2>1. /\ k.phase = "live" /\ n.phase = "live" /\ Receive(c)
          /\ Kept(k, n) /\ Paged(k, n) /\ n.known = k.known
          /\ \/ n.out = k.out
             \/ n.out = Append(k.out, Rendered(h, "live"))
      BY <1>1, <1>14, EmitLiveStep
    <2>2. h \in Message
      <3>1. queue[c] \in Seq(Message) /\ queue[c] # <<>>
        BY <1>1, <2>1 DEF LogTypeOK, Receive
      <3>. QED BY <3>1, HeadTailProperties
    <2>3. Rendered(h, "live") \in Frames /\ Rendered(h, "live").kind # "replay"
      BY <2>2, FrameTypes
    <2>. HIDE DEF k, n, pub, h
    <2>5. ToSet(Append(k.out, Rendered(h, "live"))) = ToSet(k.out) \cup {Rendered(h, "live")}
      BY <1>1, <2>3, Appended
    <2>4. \A f \in ToSet(n.out) : f.kind = "replay" => f \in ToSet(k.out)
      BY <2>1, <2>3, <2>5
    <2>. QED BY <1>3, <1>6, <2>1, <2>4, StillWithin DEF Paged, Catching
  <1>. QED BY <1>7, <1>8, <1>9, <1>10, <1>11, <1>12, <1>13, <1>14, TurnKinds

LEMMA WorldWithin ==
  ASSUME ShapeInv, NEW c \in Subscribers, WithinOf(c),
         Environment \/ \E t \in Topics, b \in Payloads : Publish(t, b)
  PROVE  WithinOf(c)'
  <1>1. CASE Environment
    <2>1. UNCHANGED <<published, conn>> /\ retained' \subseteq retained
      BY <1>1, Worn DEF ShapeInv
    <2>. QED BY <2>1 DEF WithinOf, Within
  <1>2. ASSUME NEW t \in Topics, NEW b \in Payloads, Publish(t, b)
        PROVE  WithinOf(c)'
    <2> DEFINE m == NextMessage(t, b)
    <2>1. /\ conn' = conn /\ retained' \subseteq retained \cup {m}
          /\ ToSet(published') = ToSet(published) \cup {m}
      BY <1>2, Published DEF ShapeInv
    <2>2. m.seq = nextSequence /\ nextSequence \in Nat
      BY NextMessageType DEF ShapeInv, LogInv, LogTypeOK
    <2>3. conn[c].bound < nextSequence /\ conn[c].bound \in Nat
      BY ShapeFacts, ConnectionFields DEF Shape
    <2>4. ~(m.seq <= conn[c].bound)
      BY <2>2, <2>3
    <2>. HIDE DEF m
    <2>. QED BY <2>1, <2>4 DEF WithinOf, Within
  <1>. QED BY <1>1, <1>2

LEMMA WithinInvariant == Spec => []\A c \in Subscribers : WithinOf(c)
  <1> DEFINE Inv == \A c \in Subscribers : WithinOf(c)
  <1>1. Init => Inv
    <2> SUFFICES ASSUME Init, NEW c \in Subscribers PROVE WithinOf(c)
      OBVIOUS
    <2>1. conn[c] = Idle
      BY DEF Init
    <2>. QED BY <2>1, IdleFields DEF WithinOf, Within, ToSet, Catching
  <1>2. OrderInv /\ Inv /\ [Next]_vars => Inv'
    <2> SUFFICES ASSUME OrderInv, Inv, [Next]_vars, NEW d \in Subscribers
                 PROVE  WithinOf(d)'
      OBVIOUS
    <2>1. ASSUME NEW t \in Topics, NEW b \in Payloads, Publish(t, b)
          PROVE  WithinOf(d)'
      BY <2>1, WorldWithin DEF OrderInv
    <2>2. CASE Environment
      BY <2>2, WorldWithin DEF OrderInv
    <2>3. CASE Shutdown \/ UNCHANGED vars
      BY <2>3 DEF Shutdown, vars, logVars, WithinOf
    <2>4. ASSUME NEW c \in Subscribers, Turn(c)
          PROVE  WithinOf(d)'
      <3>1. CASE c = d
        BY <2>4, <3>1, TurnWithin
      <3>2. CASE c # d
        BY <2>4, <3>2, TurnFrame DEF OrderInv, ShapeInv, WithinOf
      <3>. QED BY <3>1, <3>2
    <2>. QED BY <2>1, <2>2, <2>3, <2>4, StepCases
  <1>. QED BY <1>1, <1>2, OrderInvariant, PTL DEF Spec

\* Every notification a replay delivers matches the pattern, lies within the
\* start, the boundary and the end of the request, and passes the filters.
THEOREM RepliesStayWithinRequest == Spec => []ReplayWithinRequest
  <1>1. ShapeInv /\ (\A c \in Subscribers : WithinOf(c)) => ReplayWithinRequest
    <2> SUFFICES ASSUME ShapeInv, NEW c \in Subscribers, WithinOf(c),
                        NEW n \in SeqsOf(c, {"replay"})
                 PROVE  LET m == published[n] IN
                        /\ Requested(c, m) /\ Notifiable(m)
                        /\ conn[c].end.kind = "sequence" => n <= conn[c].end.value
                        /\ conn[c].end.kind = "date" => m.time <= conn[c].end.value
      BY DEF ReplayWithinRequest
    <2>1. PICK f \in ToSet(conn[c].out) : f.kind = "replay" /\ f.seq = n
      BY DEF SeqsOf
    <2>2. PICK m \in ToSet(published) :
            m.seq = n /\ Wanted(conn[c], m) /\ Ended(conn[c], m) /\ Notifiable(m)
      BY <2>1 DEF WithinOf, Within
    <2>3. published[n] = m
      BY <2>2, EverStored DEF ShapeInv
    <2>. QED BY <2>2, <2>3 DEF Wanted, Ended, Requested
  <1>. QED BY <1>1, ShapeInvariant, WithinInvariant, PTL

-----------------------------------------------------------------------------
(* A completed replay is complete.                                          *)

Replayed(q) == KindSeqs(q, {"replay"})

\* What is left to replay is in the batch or ahead of the cursor, unless the
\* replay is about to end early; once it has completed, nothing is left.
Complete(k, ret) ==
  /\ k.phase \in Catching /\ (\A f \in ToSet(k.frames) : f.kind \notin Terminal) =>
       \A m \in ret : Wanted(k, m) /\ Notifiable(m) =>
         \/ m.seq \in Replayed(k.out) \cup Replayed(k.frames)
         \/ k.more /\ Starts(k.cursor, m)
  /\ (\E f \in ToSet(k.out) : f.kind = "replay_completed") =>
       \A m \in ret : Wanted(k, m) /\ Notifiable(m) => m.seq \in Replayed(k.out)

CompleteOf(c) == Complete(conn[c], retained)

LEMMA GrownReplayed ==
  ASSUME NEW q \in Seq(Frames), NEW f \in Frames
  PROVE  /\ f.kind = "replay" => Replayed(Append(q, f)) = Replayed(q) \cup {f.seq}
         /\ f.kind # "replay" => Replayed(Append(q, f)) = Replayed(q)
  BY Appended DEF Replayed, KindSeqs

LEMMA StillComplete ==
  ASSUME NEW k, NEW n, NEW ret, Complete(k, ret), Kept(k, n), n.bound = k.bound,
         n.cursor = k.cursor, n.more <=> k.more, n.phase \in Catching => k.phase \in Catching,
         n.frames = k.frames, Replayed(n.out) = Replayed(k.out),
         (\E f \in ToSet(n.out) : f.kind = "replay_completed")
           => \E f \in ToSet(k.out) : f.kind = "replay_completed"
  PROVE  Complete(n, ret)
  <1>1. \A m : Wanted(n, m) <=> Wanted(k, m)
    BY SameWanted
  <1>. QED BY <1>1 DEF Complete

LEMMA TurnComplete ==
  ASSUME OrderInv, NEW c \in Subscribers, Turn(c), CompleteOf(c)
  PROVE  CompleteOf(c)'
  <1> DEFINE k == conn[c]
             n == conn'[c]
  <1>1. /\ k \in Connection /\ LogTypeOK /\ Connected /\ ShapeInv
        /\ Shape(k, pattern[c], historyEnd[c], nextSequence, ToSet(published))
        /\ k.out \in Seq(Frames) /\ k.frames \in Seq(Frames) /\ InOrder(k.frames)
        /\ k.bound \in Nat
    BY ShapeFacts, ConnectionFields DEF OrderInv, OrderedOf, Ordered
  <1>2. UNCHANGED retained
    BY <1>1, TurnFrame DEF ShapeInv
  <1>3. Complete(k, retained)
    BY DEF CompleteOf
  <1>4. SUFFICES Complete(n, retained)
    BY <1>2 DEF CompleteOf
  <1>5. \A m \in retained : m \in Message /\ m.seq \in Nat
    BY <1>1, EverStored, MessageSeqs DEF ShapeInv
  <1>6. k = conn[c] /\ n = conn'[c]
    OBVIOUS
  <1>7. Replayed(<<>>) = {} /\ ToSet(<<>>) = {}
    BY DEF Replayed, KindSeqs, ToSet
  <1>. HIDE DEF k, n
  <1>8. CASE Opening(c)
    <2>1. n.out = <<>> /\ n.phase \notin Catching
      BY <1>1, <1>6, <1>8, OpeningStep DEF Fresh, Catching
    <2>. QED BY <1>7, <2>1 DEF Complete
  <1>9. CASE Controlling(c)
    <2>1. PICK kind \in Controls :
            /\ Sends(k, n, kind)
            /\ kind = "replay_completed" => k.phase = "replaying" /\ k.frames = <<>> /\ ~k.more
      BY <1>1, <1>6, <1>9, ControllingStep
    <2>2. /\ n.phase = "replaying" => k.phase \in {"starting", "replaying"} /\ k.mode # "live"
          /\ n.phase = "fetching" => k.phase = "fetching"
      BY <1>1, <1>6, <1>9, ControllingStep
    <2>3. /\ Frame(kind, 0) \in Frames /\ Frame(kind, 0).kind = kind /\ kind # "replay"
      BY FrameTypes DEF Controls, FrameKinds
    <2>4. /\ ToSet(n.out) = ToSet(k.out) \cup {Frame(kind, 0)}
          /\ Replayed(n.out) = Replayed(k.out)
      BY <1>1, <2>1, <2>3, Appended, GrownReplayed DEF Sends
    <2>5. /\ Kept(k, n) /\ n.bound = k.bound /\ n.cursor = k.cursor /\ n.frames = k.frames
      BY <2>1 DEF Sends, Paged
    <2>6. n.more <=> k.more
      BY <2>1 DEF Sends, Paged
    <2>7. /\ \A m : Wanted(n, m) <=> Wanted(k, m)
          /\ \A m : Wanted(k, m) => Starts(k.start, m)
      BY <2>5, SameWanted DEF Wanted
    <2>8. CASE kind = "replay_completed"
      <3>1. \A m \in retained : Wanted(k, m) /\ Notifiable(m) => m.seq \in Replayed(k.out)
        BY <1>3, <1>7, <2>1, <2>8 DEF Complete, Catching
      <3>2. \A m \in retained : Wanted(n, m) /\ Notifiable(m) => m.seq \in Replayed(n.out)
        BY <2>4, <2>7, <3>1
      <3>. QED BY <3>2 DEF Complete
    <2>9. CASE kind # "replay_completed"
      <3>1. (\E f \in ToSet(n.out) : f.kind = "replay_completed")
               => \E f \in ToSet(k.out) : f.kind = "replay_completed"
        BY <2>3, <2>4, <2>9
      <3>2. CASE k.phase = "starting"
        <4>0. n.phase \in Catching => k.mode \in {"watch", "replay"}
          <5>1. k.mode \in {"none", "live", "watch", "replay"}
            BY <1>1, ConnectionFields
          <5>2. k.mode # "none"
            BY <1>1, <3>2 DEF Shape
          <5>. QED BY <2>2, <3>2, <5>1, <5>2 DEF Catching
        <4>1. k.cursor = k.start /\ (k.mode \in {"watch", "replay"} => k.more)
          BY <1>1, <3>2 DEF Shape
        <4>2. n.phase \in Catching => \A m \in retained :
                Wanted(n, m) => n.more /\ Starts(n.cursor, m)
          BY <2>5, <2>6, <2>7, <4>0, <4>1 DEF Kept
        <4>3. k.out = <<>>
          BY <1>1, <3>2 DEF Shape
        <4>4. ~ \E f \in ToSet(n.out) : f.kind = "replay_completed"
          BY <1>7, <3>1, <4>3
        <4>. QED BY <4>2, <4>4 DEF Complete
      <3>3. CASE k.phase # "starting"
        <4>1. n.phase \in Catching => k.phase \in Catching
          BY <2>2, <3>3 DEF Catching
        <4>. QED BY <1>3, <2>4, <2>5, <2>6, <3>1, <4>1, StillComplete
      <3>. QED BY <3>2, <3>3
    <2>. QED BY <2>8, <2>9
  <1>10. CASE Resting(c)
    <2>1. Rests(k, n) /\ (n.phase \in Catching => k.phase \in Catching)
      BY <1>1, <1>6, <1>10, RestingStep
    <2>2. /\ Kept(k, n) /\ n.bound = k.bound /\ n.cursor = k.cursor /\ n.frames = k.frames
          /\ n.out = k.out
      BY <2>1 DEF Rests, Paged
    <2>3. n.more <=> k.more
      BY <2>1 DEF Rests, Paged
    <2>. QED BY <1>3, <2>1, <2>2, <2>3, StillComplete
  <1>11. CASE ResolveEnd(c)
    <2>1. k.phase = "resolving" /\ n.phase = "starting" /\ n.out = k.out
      BY <1>1, <1>6, <1>11, ResolveEndStep
    <2>2. n.out = <<>>
      BY <1>1, <2>1 DEF Shape
    <2>. QED BY <1>7, <2>1, <2>2 DEF Complete, Catching
  <1>12. CASE FetchBatch(c)
    <2>1. /\ k.phase = "fetching" /\ Kept(k, n) /\ k.frames = <<>> /\ k.more
          /\ \E next \in 0..k.bound, page \in SUBSET k.known, messages \in Seq(Message) :
               \E shown \in 0..Len(messages) : Batched(k, n, next, page, messages, shown)
      BY <1>1, <1>6, <1>12, BatchStep
    <2>2. PICK next \in 0..k.bound, page \in SUBSET k.known, messages \in Seq(Message) :
               \E shown \in 0..Len(messages) : Batched(k, n, next, page, messages, shown)
      BY <2>1
    <2>3. PICK shown \in 0..Len(messages) : Batched(k, n, next, page, messages, shown)
      BY <2>2
    <2> DEFINE quota == MaxAllowed - k.delivered
               total == Counted(messages, Len(messages))
    <2>4. /\ n.bound = k.bound /\ n.out = k.out
          /\ n.cursor = IF next = 0 THEN k.cursor ELSE FromSequence(next)
          /\ n.more <=> next # 0 /\ total <= quota
          /\ IsBatch(page, next # 0, next, k.known, k.topic, k.cursor, k.bound)
          /\ \A m \in page : m.payload \notin Excluded => \E i \in DOMAIN messages : messages[i] = m
          /\ Puts(n.frames, messages, quota, shown)
          /\ quota \in Nat /\ total \in Nat
      BY <2>3 DEF Batched
    <2>5. \A m : Wanted(n, m) <=> Wanted(k, m)
      BY <2>1, <2>4, SameWanted
    <2>6. next \in Nat /\ next <= k.bound
      BY <1>1
    <2>7. \A m \in retained : Wanted(k, m) /\ Notifiable(m) =>
            m.seq \in Replayed(k.out) \/ Starts(k.cursor, m)
      BY <1>3, <1>7, <2>1 DEF Complete, Catching
    <2>8. /\ n.frames \in Seq(Frames)
          /\ DOMAIN messages = 1..Len(messages) /\ Len(messages) \in Nat
          /\ \A i \in 1..Len(messages) : messages[i] \in Message
          /\ shown \in 0..Len(messages)
          /\ \A i \in 1..shown : n.frames[i] = Rendered(messages[i], "replay")
      BY <2>4, LenProperties, ElementOfSeq DEF Puts
    <2>9. SUFFICES ASSUME \A f \in ToSet(n.frames) : f.kind \notin Terminal,
                          NEW m \in retained, Wanted(k, m), Notifiable(m),
                          m.seq \notin Replayed(k.out), Starts(k.cursor, m)
                   PROVE  m.seq \in Replayed(n.frames) \/ (n.more /\ Starts(n.cursor, m))
      <3>1. (\E f \in ToSet(n.out) : f.kind = "replay_completed") =>
              \A m \in retained : Wanted(n, m) /\ Notifiable(m) => m.seq \in Replayed(n.out)
        BY <1>3, <2>4, <2>5 DEF Complete
      <3>. QED BY <2>4, <2>5, <2>7, <3>1 DEF Complete
    <2>10. total <= quota /\ shown = Len(messages) /\ DOMAIN n.frames = 1..shown
      <3>1. CASE total > quota
        <4>1. DOMAIN n.frames = 1..(shown + 1)
              /\ n.frames[shown + 1] = Frame("replay_limit_reached", 0)
          BY <2>4, <3>1 DEF Puts
        <4>2. n.frames[shown + 1] \in ToSet(n.frames)
          BY <2>8, <4>1 DEF ToSet
        <4>3. Frame("replay_limit_reached", 0).kind \in Terminal
          BY FrameTypes DEF FrameKinds, Terminal
        <4>. QED BY <2>9, <4>1, <4>2, <4>3
      <3>2. CASE ~(total > quota)
        BY <2>4, <3>2 DEF Puts
      <3>. QED BY <3>1, <3>2
    <2>11. CASE m \in page
      <3>1. PICK i \in DOMAIN messages : messages[i] = m
        BY <2>4, <2>9, <2>11 DEF Notifiable
      <3>2. i \in DOMAIN n.frames /\ n.frames[i] = Rendered(m, "replay")
        BY <2>8, <2>10, <3>1
      <3>3. Rendered(m, "replay").kind = "replay" /\ Rendered(m, "replay").seq = m.seq
        BY <1>5, <2>9, FrameTypes DEF Notifiable
      <3>. QED BY <3>2, <3>3 DEF Replayed, KindSeqs, ToSet
    <2>12. CASE m \notin page
      <3> DEFINE last == IF next # 0 THEN next - 1 ELSE k.bound
      <3>1. m.topic \in k.topic /\ m.seq <= k.bound
        BY <2>9 DEF Wanted
      <3>2. m \notin Eligible(k.topic, k.cursor, last)
        BY <2>4, <2>12 DEF IsBatch
      <3>3. ~(m.seq <= last)
        BY <2>9, <3>1, <3>2 DEF Eligible, InRange
      <3>4. next # 0 /\ m.seq >= next
        BY <1>1, <1>5, <2>6, <3>1, <3>3
      <3>5. n.more /\ Starts(n.cursor, m)
        BY <2>4, <2>10, <3>4 DEF Starts, FromSequence
      <3>. QED BY <3>5
    <2>. QED BY <2>11, <2>12
  <1>13. CASE FetchFails(c)
    <2>0. Connected /\ FetchFails(c)
      BY <1>1, <1>13
    <2>1. Kept(k, n) /\ n.bound = k.bound /\ n.out = k.out
      BY <1>6, <2>0, FetchFailsStep
    <2>2. n.frames = <<Frame("replay_failed", 0)>>
      BY <1>6, <2>0, FetchFailsStep
    <2>3. Frame("replay_failed", 0).kind \in Terminal
      BY FrameTypes DEF FrameKinds, Terminal
    <2>4. Frame("replay_failed", 0) \in ToSet(n.frames)
      BY <2>2 DEF ToSet
    <2>5. \A m : Wanted(n, m) <=> Wanted(k, m)
      BY <2>1, SameWanted
    <2>. QED BY <1>3, <2>1, <2>3, <2>4, <2>5 DEF Complete
  <1>14. CASE EmitReplay(c)
    <2> DEFINE h == Head(k.frames)
    <2>0. Connected /\ EmitReplay(c)
      BY <1>1, <1>14
    <2>1. /\ k.phase = "replaying" /\ k.frames # <<>> /\ Kept(k, n)
          /\ n.bound = k.bound /\ n.cursor = k.cursor
          /\ n.frames = Tail(k.frames) /\ n.out = Append(k.out, h)
          /\ n.phase = IF h.kind \in Terminal THEN "drained" ELSE "replaying"
      <3>1. ReplayEmitted(k, n) /\ UNCHANGED logVars
        BY <1>6, <2>0, EmitReplayStep
      <3>. QED BY <3>1 DEF ReplayEmitted
    <2>2. n.more = k.more
      <3>1. ReplayEmitted(k, n) /\ UNCHANGED logVars
        BY <1>6, <2>0, EmitReplayStep
      <3>. QED BY <3>1 DEF ReplayEmitted
    <2>3. ToSet(k.frames) = ToSet(n.frames) \cup {h} /\ h \in Frames
      BY <1>1, <2>1, TailOrder
    <2>4. h.kind \in {"replay", "error"} \cup Terminal
      <3>1. h = k.frames[1] /\ 1 \in DOMAIN k.frames
        BY <1>1, <2>1, EndedTail DEF Shape
      <3>. HIDE DEF h
      <3>. QED BY <1>1, <3>1 DEF Shape, WellEnded
    <2>. HIDE DEF h
    <2>5. ToSet(n.out) = ToSet(k.out) \cup {h}
      BY <1>1, <2>1, <2>3, Appended
    <2>6. /\ h.kind = "replay" => Replayed(n.out) = Replayed(k.out) \cup {h.seq}
          /\ h.kind # "replay" => Replayed(n.out) = Replayed(k.out)
      BY <1>1, <2>1, <2>3, GrownReplayed
    <2>7. /\ h.kind = "replay" => Replayed(k.frames) = Replayed(n.frames) \cup {h.seq}
          /\ h.kind # "replay" => Replayed(k.frames) = Replayed(n.frames)
      BY <2>3 DEF Replayed, KindSeqs
    <2>8. Replayed(n.out) \cup Replayed(n.frames) = Replayed(k.out) \cup Replayed(k.frames)
          /\ Replayed(k.out) \subseteq Replayed(n.out)
      BY <2>6, <2>7
    <2>9. \A m : Wanted(n, m) <=> Wanted(k, m)
      BY <2>1, SameWanted
    <2>10. (\E f \in ToSet(n.out) : f.kind = "replay_completed")
             => \E f \in ToSet(k.out) : f.kind = "replay_completed"
      BY <2>4, <2>5 DEF Terminal
    <2>11. n.phase \in Catching /\ (\A f \in ToSet(n.frames) : f.kind \notin Terminal) =>
             \A f \in ToSet(k.frames) : f.kind \notin Terminal
      BY <2>1, <2>3 DEF Catching
    <2>. QED BY <1>3, <2>1, <2>2, <2>8, <2>9, <2>10, <2>11 DEF Complete, Catching
  <1>15. CASE EmitLive(c)
    <2> DEFINE h == Head(queue[c])
    <2>0. Connected /\ EmitLive(c)
      BY <1>1, <1>15
    <2>1. /\ n.phase = "live" /\ Receive(c) /\ Kept(k, n) /\ Paged(k, n)
          /\ \/ n.out = k.out
             \/ n.out = Append(k.out, Rendered(h, "live"))
      BY <1>6, <2>0, EmitLiveStep
    <2>2. h \in Message
      <3>1. queue[c] \in Seq(Message) /\ queue[c] # <<>>
        BY <1>1, <2>1 DEF LogTypeOK, Receive
      <3>. QED BY <3>1, HeadTailProperties
    <2>3. Rendered(h, "live") \in Frames /\ Rendered(h, "live").kind \in {"live", "error"}
      BY <2>2, FrameTypes
    <2>. HIDE DEF h
    <2>4. /\ ToSet(Append(k.out, Rendered(h, "live"))) = ToSet(k.out) \cup {Rendered(h, "live")}
          /\ Replayed(Append(k.out, Rendered(h, "live"))) = Replayed(k.out)
      BY <1>1, <2>3, Appended, GrownReplayed
    <2>5. /\ Replayed(n.out) = Replayed(k.out)
          /\ (\E f \in ToSet(n.out) : f.kind = "replay_completed")
               => \E f \in ToSet(k.out) : f.kind = "replay_completed"
      BY <2>1, <2>3, <2>4
    <2>6. \A m : Wanted(n, m) <=> Wanted(k, m)
      BY <2>1, SameWanted DEF Paged
    <2>. QED BY <1>3, <2>1, <2>5, <2>6 DEF Complete, Catching
  <1>. QED BY <1>8, <1>9, <1>10, <1>11, <1>12, <1>13, <1>14, <1>15, TurnKinds

LEMMA WorldComplete ==
  ASSUME ShapeInv, NEW c \in Subscribers, CompleteOf(c),
         Environment \/ \E t \in Topics, b \in Payloads : Publish(t, b)
  PROVE  CompleteOf(c)'
  <1>1. CASE Environment
    <2>1. UNCHANGED conn /\ retained' \subseteq retained
      BY <1>1, Worn DEF ShapeInv
    <2>. QED BY <2>1 DEF CompleteOf, Complete
  <1>2. ASSUME NEW t \in Topics, NEW b \in Payloads, Publish(t, b)
        PROVE  CompleteOf(c)'
    <2> DEFINE m == NextMessage(t, b)
    <2>1. conn' = conn /\ retained' \subseteq retained \cup {m}
      BY <1>2, Published DEF ShapeInv
    <2>2. m.seq = nextSequence /\ nextSequence \in Nat
      BY NextMessageType DEF ShapeInv, LogInv, LogTypeOK
    <2>3. conn[c].bound < nextSequence /\ conn[c].bound \in Nat
      BY ShapeFacts, ConnectionFields DEF Shape
    <2>4. ~Wanted(conn[c], m)
      BY <2>2, <2>3 DEF Wanted
    <2>. HIDE DEF m
    <2>. QED BY <2>1, <2>4 DEF CompleteOf, Complete
  <1>. QED BY <1>1, <1>2

LEMMA CompleteInvariant == Spec => []\A c \in Subscribers : CompleteOf(c)
  <1> DEFINE Inv == \A c \in Subscribers : CompleteOf(c)
  <1>1. Init => Inv
    <2> SUFFICES ASSUME Init, NEW c \in Subscribers PROVE CompleteOf(c)
      OBVIOUS
    <2>1. conn[c] = Idle
      BY DEF Init
    <2>. QED BY <2>1, IdleFields DEF CompleteOf, Complete, ToSet, Catching
  <1>2. OrderInv /\ Inv /\ [Next]_vars => Inv'
    <2> SUFFICES ASSUME OrderInv, Inv, [Next]_vars, NEW d \in Subscribers
                 PROVE  CompleteOf(d)'
      OBVIOUS
    <2>1. ASSUME NEW t \in Topics, NEW b \in Payloads, Publish(t, b)
          PROVE  CompleteOf(d)'
      BY <2>1, WorldComplete DEF OrderInv
    <2>2. CASE Environment
      BY <2>2, WorldComplete DEF OrderInv
    <2>3. CASE Shutdown \/ UNCHANGED vars
      BY <2>3 DEF Shutdown, vars, logVars, CompleteOf
    <2>4. ASSUME NEW c \in Subscribers, Turn(c)
          PROVE  CompleteOf(d)'
      <3>1. CASE c = d
        BY <2>4, <3>1, TurnComplete
      <3>2. CASE c # d
        BY <2>4, <3>2, TurnFrame DEF OrderInv, ShapeInv, CompleteOf
      <3>. QED BY <3>1, <3>2
    <2>. QED BY <2>1, <2>2, <2>3, <2>4, StepCases
  <1>. QED BY <1>1, <1>2, OrderInvariant, PTL DEF Spec

\* A replay that reports completion has delivered every notification of the
\* request that is still stored, whatever happened between its batches.
THEOREM CompletedRepliesAreComplete == Spec => []ReplayComplete
  <1>1. (\A c \in Subscribers : CompleteOf(c)) => ReplayComplete
    <2> SUFFICES ASSUME NEW c \in Subscribers, CompleteOf(c),
                        SeqsOf(c, {"replay_completed"}) # {},
                        NEW m \in retained, Requested(c, m), Notifiable(m)
                 PROVE  m.seq \in SeqsOf(c, {"replay"})
      BY DEF ReplayComplete
    <2>1. \E f \in ToSet(conn[c].out) : f.kind = "replay_completed"
      BY DEF SeqsOf
    <2>2. Wanted(conn[c], m)
      BY DEF Wanted, Requested
    <2>. QED BY <2>1, <2>2 DEF CompleteOf, Complete, Replayed, KindSeqs, SeqsOf
  <1>. QED BY <1>1, CompleteInvariant, PTL

-----------------------------------------------------------------------------
(* The limit control is proof of truncation.                                *)

\* The notifications of a batch are as many as it counts against the quota.
LEMMA BatchReplays ==
  ASSUME NEW messages \in Seq(Message), Ascending(messages), NEW quota, NEW shown, NEW new,
         Puts(new, messages, quota, shown)
  PROVE  /\ IsFiniteSet(Replayed(new))
         /\ Cardinality(Replayed(new)) = Counted(messages, shown)
         /\ \A n \in Replayed(new) : \E i \in 1..shown : i \in DOMAIN messages /\ n = messages[i].seq
  <1> DEFINE first == {j \in 1..shown : messages[j].payload \notin Unrenderable}
             number == [j \in first |-> messages[j].seq]
  <1>1. /\ DOMAIN messages = 1..Len(messages) /\ Len(messages) \in Nat
        /\ \A i \in 1..Len(messages) : messages[i] \in Message
        /\ shown \in 0..Len(messages) /\ new \in Seq(Frames)
        /\ \A i \in 1..shown : new[i] = Rendered(messages[i], "replay")
        /\ 1..shown \subseteq DOMAIN new
    <2>1. /\ DOMAIN messages = 1..Len(messages) /\ Len(messages) \in Nat
          /\ \A i \in 1..Len(messages) : messages[i] \in Message
          /\ shown \in 0..Len(messages) /\ new \in Seq(Frames)
          /\ \A i \in 1..shown : new[i] = Rendered(messages[i], "replay")
      BY LenProperties, ElementOfSeq DEF Puts
    <2>2. DOMAIN new = 1..shown \/ DOMAIN new = 1..(shown + 1)
      BY DEF Puts
    <2>. QED BY <2>1, <2>2
  <1>2. \A i \in 1..shown : i \in DOMAIN messages /\ messages[i] \in Message /\ i \in Nat
    BY <1>1
  <1>3. IsFiniteSet(first) /\ Cardinality(first) = Counted(messages, shown)
    BY <1>1, CountedGrows DEF Counted
  <1>4. \A j \in first : messages[j].seq \in Replayed(new)
    <2> TAKE j \in first
    <2>1. j \in DOMAIN new /\ new[j] = Rendered(messages[j], "replay")
      BY <1>1
    <2>2. new[j].kind = "replay" /\ new[j].seq = messages[j].seq
      BY <1>2, <2>1, FrameTypes
    <2>. QED BY <2>1, <2>2 DEF Replayed, KindSeqs, ToSet
  <1>5. \A n \in Replayed(new) : \E j \in first : n = messages[j].seq
    <2> TAKE n \in Replayed(new)
    <2>1. PICK f \in ToSet(new) : f.kind = "replay" /\ f.seq = n
      BY DEF Replayed, KindSeqs
    <2>2. f \in Standing(new)
      BY <2>1 DEF Standing, SeqKinds
    <2>3. PICK i \in 1..shown :
            f.seq = messages[i].seq /\ messages[i].payload \notin Unrenderable
      BY <2>1, <2>2, BatchOrder
    <2>. QED BY <2>1, <2>3
  <1>6. number \in Injection(first, Replayed(new))
    <2>1. number \in [first -> Replayed(new)]
      BY <1>4
    <2>2. ASSUME NEW i \in first, NEW j \in first, messages[i].seq = messages[j].seq
          PROVE  i = j
      <3>1. i \in DOMAIN messages /\ j \in DOMAIN messages /\ i \in Nat /\ j \in Nat
        BY <1>2
      <3>2. messages[i].seq \in Nat
        BY <1>2, MessageSeqs
      <3>3. ~(messages[i].seq < messages[j].seq) /\ ~(messages[j].seq < messages[i].seq)
        BY <2>2, <3>2
      <3>. QED BY <3>1, <3>3 DEF Ascending
    <2>. QED BY <2>1, <2>2 DEF Injection, IsInjective
  <1>7. number \in Bijection(first, Replayed(new))
    <2>1. \A n \in Replayed(new) : \E j \in first : number[j] = n
      BY <1>5
    <2>. QED BY <1>6, <2>1 DEF Bijection, Surjection, Injection
  <1>8. ExistsBijection(first, Replayed(new))
    BY <1>7 DEF ExistsBijection
  <1>. HIDE DEF first
  <1>9. IsFiniteSet(Replayed(new)) /\ Cardinality(Replayed(new)) = Cardinality(first)
    BY <1>3, <1>8, FS_Bijection
  <1>. QED BY <1>2, <1>3, <1>5, <1>9 DEF first

\* The notifications that were sent or are about to be.
Sent(k) == Replayed(k.out) \cup Replayed(k.frames)

Limited(q) == \E f \in ToSet(q) : f.kind = "replay_limit_reached"

\* The quota counts what was sent; the control comes last, and a message that
\* was asked for is behind everything that was sent before it.
Truncated(k, pub) ==
  /\ IsFiniteSet(Sent(k)) /\ Cardinality(Sent(k)) = k.delivered
  /\ Limited(k.out) => k.frames = <<>> /\ k.phase \in {"drained", "closed"}
  /\ Limited(k.out) \/ Limited(k.frames) =>
       /\ k.delivered = MaxAllowed
       /\ \E m \in pub : Wanted(k, m) /\ Notifiable(m) /\ \A n \in Sent(k) : n < m.seq

TruncatedOf(c) == Truncated(conn[c], ToSet(published))

LEMMA StillTruncated ==
  ASSUME NEW k, NEW n, NEW pub, Truncated(k, pub), Kept(k, n), n.bound = k.bound,
         n.delivered = k.delivered, Sent(n) = Sent(k),
         Limited(n.out) \/ Limited(n.frames) => Limited(k.out) \/ Limited(k.frames),
         Limited(n.out) => n.frames = <<>> /\ n.phase \in {"drained", "closed"}
  PROVE  Truncated(n, pub)
  <1>1. \A m : Wanted(n, m) <=> Wanted(k, m)
    BY SameWanted
  <1>. QED BY <1>1 DEF Truncated

\* A frame behind the ones that were sent, which is no notification.
LEMMA GrownSent ==
  ASSUME NEW q \in Seq(Frames), NEW f \in Frames,
         f.kind \notin {"replay", "replay_limit_reached"}
  PROVE  /\ Replayed(Append(q, f)) = Replayed(q)
         /\ Limited(Append(q, f)) <=> Limited(q)
  BY Appended, GrownReplayed DEF Limited

LEMMA BatchTruncated ==
  ASSUME OrderInv, NEW c \in Subscribers, FetchBatch(c), Turn(c), WithinOf(c), TruncatedOf(c)
  PROVE  TruncatedOf(c)'
  <1> DEFINE k == conn[c]
             n == conn'[c]
  <1>1. /\ k \in Connection /\ LogTypeOK /\ Connected /\ ShapeInv
        /\ k.out \in Seq(Frames) /\ k.bound \in Nat
        /\ k.delivered \in 0..MaxAllowed /\ k.cursor.value \in Nat
        /\ k.known \subseteq ToSet(published)
    BY ShapeFacts, ConnectionFields DEF OrderInv, Shape
  <1>2. UNCHANGED published
    BY <1>1, TurnFrame DEF ShapeInv
  <1>3. /\ Truncated(k, ToSet(published)) /\ \A m \in k.known : Wanted(k, m)
        /\ Ordered(k, ToSet(queue[c]), nextSequence)
    BY DEF TruncatedOf, WithinOf, Within, OrderInv, OrderedOf
  <1>4. SUFFICES Truncated(n, ToSet(published))
    BY <1>2 DEF TruncatedOf
  <1>5. k = conn[c] /\ n = conn'[c]
    OBVIOUS
  <1>. HIDE DEF k, n
  <1>6. /\ k.phase = "fetching" /\ Kept(k, n) /\ k.frames = <<>> /\ k.more
        /\ \E next \in 0..k.bound, page \in SUBSET k.known, messages \in Seq(Message) :
             \E shown \in 0..Len(messages) : Batched(k, n, next, page, messages, shown)
    BY <1>1, <1>5, BatchStep
  <1>7. PICK next \in 0..k.bound, page \in SUBSET k.known, messages \in Seq(Message) :
             \E shown \in 0..Len(messages) : Batched(k, n, next, page, messages, shown)
    BY <1>6
  <1>8. PICK shown \in 0..Len(messages) : Batched(k, n, next, page, messages, shown)
    BY <1>7
  <1>9. PICK quota \in Nat : quota = MaxAllowed - k.delivered
    BY <1>8 DEF Batched
  <1>10. PICK total \in Nat : total = Counted(messages, Len(messages))
    BY <1>8 DEF Batched
  <1>11. /\ n.bound = k.bound /\ n.out = k.out
         /\ n.delivered = IF total <= quota THEN k.delivered + total ELSE MaxAllowed
         /\ Ascending(messages) /\ Puts(n.frames, messages, quota, shown)
         /\ \A i \in DOMAIN messages : messages[i] \in page /\ messages[i].payload \notin Excluded
    BY <1>8, <1>9, <1>10 DEF Batched
  <1>12. \A m \in page : Starts(k.cursor, m)
    BY <1>8 DEF Batched, IsBatch, InRange
  <1>13. \A f \in Standing(k.out) :
           k.cursor.kind = "sequence" /\ f.seq < k.cursor.value /\ f.seq \in Nat
    BY <1>1, <1>3, <1>6, StandingFrames DEF Ordered, Passed, Catching
  <1>14. \A x \in Replayed(k.out) :
           k.cursor.kind = "sequence" /\ x < k.cursor.value /\ x \in Nat
    BY <1>13 DEF Replayed, KindSeqs, Standing, SeqKinds
  <1>15. \A i \in DOMAIN messages :
           /\ messages[i] \in page /\ messages[i] \in Message /\ messages[i].seq \in Nat
           /\ i \in 1..Len(messages)
    BY <1>11, ElementOfSeq, LenProperties, MessageSeqs
  \* Every message of the batch is behind everything that was sent.
  <1>16. \A i \in DOMAIN messages : \A x \in Replayed(k.out) : x < messages[i].seq
    <2> TAKE i \in DOMAIN messages
    <2> TAKE x \in Replayed(k.out)
    <2>1. x < k.cursor.value /\ x \in Nat /\ k.cursor.kind = "sequence"
      BY <1>14
    <2>2. messages[i].seq >= k.cursor.value /\ messages[i].seq \in Nat
      BY <1>12, <1>15, <2>1 DEF Starts
    <2>. QED BY <1>1, <2>1, <2>2
  <1>17. /\ IsFiniteSet(Replayed(n.frames))
         /\ Cardinality(Replayed(n.frames)) = Counted(messages, shown)
         /\ \A x \in Replayed(n.frames) : \E i \in 1..shown :
              i \in DOMAIN messages /\ x = messages[i].seq
    BY <1>11, BatchReplays
  <1>18. Replayed(k.out) \cap Replayed(n.frames) = {}
    <2> SUFFICES ASSUME NEW x \in Replayed(k.out), x \in Replayed(n.frames) PROVE FALSE
      OBVIOUS
    <2>1. PICK i \in DOMAIN messages : x = messages[i].seq
      BY <1>17
    <2>. QED BY <1>14, <1>16, <2>1
  <1>19. Replayed(<<>>) = {} /\ ~Limited(<<>>)
    BY DEF Replayed, KindSeqs, ToSet, Limited
  <1>20. /\ IsFiniteSet(Replayed(k.out)) /\ Cardinality(Replayed(k.out)) = k.delivered
         /\ ~Limited(k.out)
    BY <1>3, <1>6, <1>19 DEF Truncated, Sent
  <1>21. Sent(n) = Replayed(k.out) \cup Replayed(n.frames)
    BY <1>11 DEF Sent
  <1>22. /\ IsFiniteSet(Sent(n))
         /\ Cardinality(Sent(n)) = k.delivered + Counted(messages, shown)
    <2>0. shown \in 0..Len(messages)
      OBVIOUS
    <2>1. PICK added \in Nat : added = Counted(messages, shown)
      BY <2>0, CountedGrows
    <2>2. k.delivered \in Nat
      BY <1>1, QuotaAssumption
    <2>3. Cardinality(Replayed(k.out) \cap Replayed(n.frames)) = 0
      BY <1>18, FS_EmptySet
    <2>4. /\ IsFiniteSet(Replayed(k.out) \cup Replayed(n.frames))
          /\ Cardinality(Replayed(k.out) \cup Replayed(n.frames))
               = Cardinality(Replayed(k.out)) + Cardinality(Replayed(n.frames))
                   - Cardinality(Replayed(k.out) \cap Replayed(n.frames))
      BY <1>17, <1>20, FS_Union
    <2>5. Cardinality(Sent(n)) = k.delivered + added - 0
      BY <1>17, <1>20, <1>21, <2>1, <2>3, <2>4
    <2>. QED BY <1>21, <2>1, <2>2, <2>4, <2>5
  <1>23. n.delivered = k.delivered + Counted(messages, shown)
    <2>1. k.delivered \in Nat /\ MaxAllowed \in Nat
      BY <1>1, QuotaAssumption
    <2>2. CASE total <= quota
      <3>1. shown = Len(messages)
        BY <1>10, <1>11, <2>2 DEF Puts
      <3>. QED BY <1>10, <1>11, <2>2, <3>1
    <2>3. CASE ~(total <= quota)
      <3>1. Counted(messages, shown) = quota
        BY <1>10, <1>11, <2>3 DEF Puts
      <3>. QED BY <1>9, <1>11, <2>1, <2>3, <3>1
    <2>. QED BY <2>2, <2>3
  <1>24. ASSUME Limited(n.frames)
         PROVE  /\ n.delivered = MaxAllowed
                /\ \E m \in ToSet(published) :
                     Wanted(n, m) /\ Notifiable(m) /\ \A x \in Sent(n) : x < m.seq
    <2>1. total > quota
      <3> SUFFICES ASSUME ~(total > quota) PROVE FALSE
        OBVIOUS
      <3>1. DOMAIN n.frames = 1..shown /\ shown = Len(messages)
            /\ \A i \in 1..shown : n.frames[i] = Rendered(messages[i], "replay")
        BY <1>10, <1>11 DEF Puts
      <3>2. PICK i \in 1..shown : n.frames[i].kind = "replay_limit_reached"
        BY <1>24, <3>1 DEF Limited, ToSet
      <3>3. messages[i] \in Message
        BY <3>1, ElementOfSeq
      <3>4. Rendered(messages[i], "replay").kind \in {"replay", "error"}
        BY <3>3, FrameTypes
      <3>. QED BY <3>1, <3>2, <3>4
    <2>2. /\ shown < Len(messages) /\ shown \in 0..Len(messages)
          /\ messages[shown + 1].payload \notin Unrenderable
      BY <1>10, <1>11, <2>1 DEF Puts
    <2>3. n.delivered = MaxAllowed
      BY <1>11, <2>1
    <2>4. DOMAIN messages = 1..Len(messages) /\ Len(messages) \in Nat
      BY LenProperties
    <2>5. shown + 1 \in DOMAIN messages /\ shown \in Nat
      BY <2>2, <2>4
    <2>6. PICK last \in DOMAIN messages : last = shown + 1
      BY <2>5
    <2>7. \A x \in Sent(n) : x < messages[last].seq
      <3> SUFFICES ASSUME NEW x \in Sent(n) PROVE x < messages[last].seq
        OBVIOUS
      <3>1. CASE x \in Replayed(k.out)
        BY <1>16, <3>1
      <3>2. CASE x \in Replayed(n.frames)
        <4>1. PICK i \in 1..shown : i \in DOMAIN messages /\ x = messages[i].seq
          BY <1>17, <3>2
        <4>2. i < last
          BY <2>5, <2>6
        <4>. QED BY <1>11, <4>1, <4>2 DEF Ascending
      <3>. QED BY <1>21, <3>1, <3>2
    <2>8. messages[last] \in page /\ Notifiable(messages[last])
      BY <1>11, <2>2, <2>6 DEF Notifiable
    <2>9. Wanted(n, messages[last]) /\ messages[last] \in ToSet(published)
      BY <1>1, <1>3, <1>6, <1>11, <2>8, SameWanted
    <2>. QED BY <2>3, <2>7, <2>8, <2>9
  <1>. QED BY <1>11, <1>20, <1>22, <1>23, <1>24 DEF Truncated

LEMMA TurnTruncated ==
  ASSUME OrderInv, NEW c \in Subscribers, Turn(c), WithinOf(c), TruncatedOf(c)
  PROVE  TruncatedOf(c)'
  <1> DEFINE k == conn[c]
             n == conn'[c]
  <1>1. /\ k \in Connection /\ LogTypeOK /\ Connected /\ ShapeInv
        /\ Shape(k, pattern[c], historyEnd[c], nextSequence, ToSet(published))
        /\ k.out \in Seq(Frames) /\ k.frames \in Seq(Frames) /\ InOrder(k.frames)
    BY ShapeFacts, ConnectionFields DEF OrderInv, OrderedOf, Ordered
  <1>2. UNCHANGED published
    BY <1>1, TurnFrame DEF ShapeInv
  <1>3. Truncated(k, ToSet(published))
    BY DEF TruncatedOf
  <1>4. CASE FetchBatch(c)
    BY <1>4, BatchTruncated
  <1>5. SUFFICES ASSUME ~FetchBatch(c) PROVE Truncated(n, ToSet(published))
    BY <1>2, <1>4 DEF TruncatedOf
  <1>6. k = conn[c] /\ n = conn'[c]
    OBVIOUS
  <1>7. Replayed(<<>>) = {} /\ ~Limited(<<>>)
    BY DEF Replayed, KindSeqs, ToSet, Limited
  <1>. HIDE DEF k, n
  <1>8. CASE Opening(c)
    <2>1. n.out = <<>> /\ n.frames = <<>> /\ n.delivered = 0
      BY <1>1, <1>6, <1>8, OpeningStep DEF Fresh
    <2>2. Sent(n) = {} /\ ~Limited(n.out) /\ ~Limited(n.frames)
      BY <1>7, <2>1 DEF Sent
    <2>. QED BY <2>1, <2>2, FS_EmptySet DEF Truncated
  <1>9. CASE Controlling(c)
    <2>1. PICK kind \in Controls : Sends(k, n, kind)
      BY <1>1, <1>6, <1>9, ControllingStep
    <2>2. k.phase \in {"drained", "closed"} => n.phase \in {"drained", "closed"}
      BY <1>1, <1>6, <1>9, ControllingStep
    <2>3. /\ Frame(kind, 0) \in Frames
          /\ Frame(kind, 0).kind \notin {"replay", "replay_limit_reached"}
      BY FrameTypes DEF Controls, FrameKinds
    <2>4. Replayed(n.out) = Replayed(k.out) /\ (Limited(n.out) <=> Limited(k.out))
      BY <1>1, <2>1, <2>3, GrownSent DEF Sends
    <2>5. /\ Kept(k, n) /\ n.bound = k.bound /\ n.frames = k.frames
          /\ n.delivered = k.delivered
      BY <2>1 DEF Sends, Paged
    <2>6. Sent(n) = Sent(k)
      BY <2>4, <2>5 DEF Sent
    <2>7. Limited(n.out) => n.frames = <<>> /\ n.phase \in {"drained", "closed"}
      BY <1>3, <2>2, <2>4, <2>5 DEF Truncated
    <2>. QED BY <1>3, <2>4, <2>5, <2>6, <2>7, StillTruncated
  <1>10. CASE Resting(c)
    <2>1. Rests(k, n) /\ (k.phase \in {"drained", "closed"} => n.phase \in {"drained", "closed"})
      BY <1>1, <1>6, <1>10, RestingStep
    <2>2. /\ Kept(k, n) /\ n.bound = k.bound /\ n.frames = k.frames /\ n.out = k.out
          /\ n.delivered = k.delivered
      BY <2>1 DEF Rests, Paged
    <2>3. Sent(n) = Sent(k)
      BY <2>2 DEF Sent
    <2>4. Limited(n.out) => n.frames = <<>> /\ n.phase \in {"drained", "closed"}
      BY <1>3, <2>1, <2>2 DEF Truncated
    <2>. QED BY <1>3, <2>2, <2>3, <2>4, StillTruncated
  <1>11. CASE ResolveEnd(c)
    <2>1. /\ k.phase = "resolving" /\ n.out = k.out /\ n.frames = k.frames
          /\ n.delivered = k.delivered
      BY <1>1, <1>6, <1>11, ResolveEndStep
    <2>2. n.out = <<>> /\ n.frames = <<>> /\ n.delivered = 0
      BY <1>1, <2>1 DEF Shape
    <2>3. Sent(n) = {} /\ ~Limited(n.out) /\ ~Limited(n.frames)
      BY <1>7, <2>2 DEF Sent
    <2>. QED BY <2>2, <2>3, FS_EmptySet DEF Truncated
  <1>12. CASE FetchFails(c)
    <2>0. Connected /\ FetchFails(c)
      BY <1>1, <1>12
    <2>1. k.phase = "fetching" /\ Kept(k, n) /\ n.bound = k.bound /\ n.out = k.out
      BY <1>6, <2>0, FetchFailsStep
    <2>2. n.frames = <<Frame("replay_failed", 0)>> /\ n.delivered = k.delivered
      BY <1>6, <2>0, FetchFailsStep
    <2>3. Frame("replay_failed", 0).kind = "replay_failed"
      BY FrameTypes DEF FrameKinds
    <2>4. Replayed(n.frames) = {} /\ ~Limited(n.frames)
      BY <2>2, <2>3 DEF Replayed, KindSeqs, ToSet, Limited
    <2>5. k.frames = <<>>
      BY <1>1, <2>1 DEF Shape
    <2>6. Sent(n) = Sent(k)
      BY <1>7, <2>1, <2>4, <2>5 DEF Sent
    <2>7. ~Limited(n.out)
      BY <1>3, <2>1 DEF Truncated
    <2>. QED BY <1>3, <2>1, <2>2, <2>4, <2>6, <2>7, StillTruncated
  <1>13. CASE EmitReplay(c)
    <2> DEFINE h == Head(k.frames)
    <2>0. Connected /\ EmitReplay(c)
      BY <1>1, <1>13
    <2>1. /\ k.phase = "replaying" /\ k.frames # <<>> /\ Kept(k, n)
          /\ n.bound = k.bound /\ n.delivered = k.delivered
          /\ n.frames = Tail(k.frames) /\ n.out = Append(k.out, h)
          /\ n.phase = IF h.kind \in Terminal THEN "drained" ELSE "replaying"
      <3>1. ReplayEmitted(k, n) /\ UNCHANGED logVars
        BY <1>6, <2>0, EmitReplayStep
      <3>. QED BY <3>1 DEF ReplayEmitted
    <2>2. ToSet(k.frames) = ToSet(n.frames) \cup {h} /\ h \in Frames
      BY <1>1, <2>1, TailOrder
    <2>3. h.kind \in Terminal => n.frames = <<>>
      BY <1>1, <2>1, EndedTail DEF Shape
    <2>. HIDE DEF h
    <2>4. ToSet(n.out) = ToSet(k.out) \cup {h}
      BY <1>1, <2>1, <2>2, Appended
    <2>5. Sent(n) = Sent(k)
      BY <2>2, <2>4 DEF Sent, Replayed, KindSeqs
    <2>6. Limited(n.out) \/ Limited(n.frames) => Limited(k.out) \/ Limited(k.frames)
      BY <2>2, <2>4 DEF Limited
    <2>7. ~Limited(k.out)
      BY <1>3, <2>1 DEF Truncated
    <2>8. Limited(n.out) => h.kind = "replay_limit_reached"
      BY <2>4, <2>7 DEF Limited
    <2>9. Limited(n.out) => n.frames = <<>> /\ n.phase \in {"drained", "closed"}
      BY <2>1, <2>3, <2>8 DEF Terminal
    <2>. QED BY <1>3, <2>1, <2>5, <2>6, <2>9, StillTruncated
  <1>14. CASE EmitLive(c)
    <2> DEFINE h == Head(queue[c])
    <2>0. Connected /\ EmitLive(c)
      BY <1>1, <1>14
    <2>1. /\ k.phase = "live" /\ Receive(c) /\ Kept(k, n) /\ Paged(k, n)
          /\ \/ n.out = k.out
             \/ n.out = Append(k.out, Rendered(h, "live"))
      BY <1>6, <2>0, EmitLiveStep
    <2>2. h \in Message
      <3>1. queue[c] \in Seq(Message) /\ queue[c] # <<>>
        BY <1>1, <2>1 DEF LogTypeOK, Receive
      <3>. QED BY <3>1, HeadTailProperties
    <2>3. /\ Rendered(h, "live") \in Frames
          /\ Rendered(h, "live").kind \notin {"replay", "replay_limit_reached"}
      BY <2>2, FrameTypes
    <2>. HIDE DEF h
    <2>4. Replayed(n.out) = Replayed(k.out) /\ (Limited(n.out) <=> Limited(k.out))
      BY <1>1, <2>1, <2>3, GrownSent, ZenonT(60)
    <2>5. n.bound = k.bound /\ n.frames = k.frames /\ n.delivered = k.delivered
      BY <2>1 DEF Paged
    <2>6. Sent(n) = Sent(k)
      BY <2>4, <2>5 DEF Sent
    <2>7. ~Limited(n.out)
      BY <1>3, <2>1, <2>4 DEF Truncated
    <2>. QED BY <1>3, <2>1, <2>4, <2>5, <2>6, <2>7, StillTruncated
  <1>. QED BY <1>5, <1>8, <1>9, <1>10, <1>11, <1>12, <1>13, <1>14, TurnKinds

LEMMA WorldTruncated ==
  ASSUME ShapeInv, NEW c \in Subscribers, TruncatedOf(c),
         Environment \/ \E t \in Topics, b \in Payloads : Publish(t, b)
  PROVE  TruncatedOf(c)'
  <1>1. conn' = conn /\ ToSet(published) \subseteq ToSet(published')
    <2>1. CASE Environment
      BY <2>1, Worn DEF ShapeInv
    <2>2. ASSUME NEW t \in Topics, NEW b \in Payloads, Publish(t, b)
          PROVE  conn' = conn /\ ToSet(published) \subseteq ToSet(published')
      BY <2>2, Published DEF ShapeInv
    <2>. QED BY <2>1, <2>2
  <1>. QED BY <1>1 DEF TruncatedOf, Truncated

LEMMA TruncatedInvariant == Spec => []\A c \in Subscribers : TruncatedOf(c)
  <1> DEFINE Inv == \A c \in Subscribers : TruncatedOf(c)
             Near == \A c \in Subscribers : WithinOf(c)
  <1>1. Init => Inv
    <2> SUFFICES ASSUME Init, NEW c \in Subscribers PROVE TruncatedOf(c)
      OBVIOUS
    <2>1. conn[c] = Idle
      BY DEF Init
    <2>2. Idle.out = <<>> /\ Idle.frames = <<>> /\ Idle.delivered = 0
      BY DEF Idle
    <2>3. Sent(Idle) = {} /\ ~Limited(Idle.out) /\ ~Limited(Idle.frames)
      BY <2>2 DEF Sent, Replayed, KindSeqs, ToSet, Limited
    <2>. QED BY <2>1, <2>2, <2>3, FS_EmptySet DEF TruncatedOf, Truncated
  <1>2. OrderInv /\ Near /\ Inv /\ [Next]_vars => Inv'
    <2> SUFFICES ASSUME OrderInv, Near, Inv, [Next]_vars, NEW d \in Subscribers
                 PROVE  TruncatedOf(d)'
      OBVIOUS
    <2>1. ASSUME NEW t \in Topics, NEW b \in Payloads, Publish(t, b)
          PROVE  TruncatedOf(d)'
      BY <2>1, WorldTruncated DEF OrderInv
    <2>2. CASE Environment
      BY <2>2, WorldTruncated DEF OrderInv
    <2>3. CASE Shutdown \/ UNCHANGED vars
      BY <2>3 DEF Shutdown, vars, logVars, TruncatedOf
    <2>4. ASSUME NEW c \in Subscribers, Turn(c)
          PROVE  TruncatedOf(d)'
      <3>1. CASE c = d
        BY <2>4, <3>1, TurnTruncated
      <3>2. CASE c # d
        BY <2>4, <3>2, TurnFrame DEF OrderInv, ShapeInv, TruncatedOf
      <3>. QED BY <3>1, <3>2
    <2>. QED BY <2>1, <2>2, <2>3, <2>4, StepCases
  <1>. QED BY <1>1, <1>2, OrderInvariant, WithinInvariant, PTL DEF Spec

\* The limit control is sent only when the quota was used up and a further
\* notification of the request had been stored behind everything delivered.
THEOREM LimitIsProofOfTruncation == Spec => []LimitProvesTruncation
  <1>1. (\A c \in Subscribers : TruncatedOf(c)) => LimitProvesTruncation
    <2> SUFFICES ASSUME NEW c \in Subscribers, TruncatedOf(c),
                        SeqsOf(c, {"replay_limit_reached"}) # {}
                 PROVE  /\ Cardinality(SeqsOf(c, {"replay"})) = MaxAllowed
                        /\ \E m \in ToSet(published) :
                             /\ Requested(c, m) /\ Notifiable(m)
                             /\ \A n \in SeqsOf(c, {"replay"}) : n < m.seq
      BY DEF LimitProvesTruncation
    <2>1. Limited(conn[c].out)
      BY DEF SeqsOf, Limited
    <2>2. conn[c].frames = <<>>
      BY <2>1 DEF TruncatedOf, Truncated
    <2>3. SeqsOf(c, {"replay"}) = Sent(conn[c])
      BY <2>2 DEF SeqsOf, Sent, Replayed, KindSeqs, ToSet
    <2>4. PICK m \in ToSet(published) :
            Wanted(conn[c], m) /\ Notifiable(m) /\ \A n \in Sent(conn[c]) : n < m.seq
      BY <2>1 DEF TruncatedOf, Truncated
    <2>5. Cardinality(Sent(conn[c])) = MaxAllowed
      BY <2>1 DEF TruncatedOf, Truncated
    <2>. QED BY <2>3, <2>4, <2>5 DEF Wanted, Requested
  <1>. QED BY <1>1, TruncatedInvariant, PTL

-----------------------------------------------------------------------------
(* Every connection keeps the protocol of frames: the refinement.           *)

\* The constant bound on the sequences that are allocated.
Allocated == nextSequence \in Nat /\ nextSequence <= MaxSequence + 1

LEMMA AllocatedInvariant == Spec => []Allocated
  <1>1. Init => Allocated
    BY BoundsAssumption DEF Init, LogInit, Allocated
  <1>2. ShapeInv /\ Allocated /\ [Next]_vars => Allocated'
    <2> SUFFICES ASSUME ShapeInv, Allocated, [Next]_vars PROVE Allocated'
      OBVIOUS
    <2>1. ASSUME NEW t \in Topics, NEW b \in Payloads, Publish(t, b)
          PROVE  Allocated'
      <3>1. nextSequence <= MaxSequence /\ nextSequence' = nextSequence + 1
        BY <2>1 DEF Publish, Put
      <3>. QED BY <3>1, BoundsAssumption DEF Allocated
    <2>2. CASE Environment
      BY <2>2 DEF Environment, Forget, Tick, Allocated
    <2>3. CASE Shutdown \/ UNCHANGED vars
      BY <2>3 DEF Shutdown, vars, logVars, Allocated
    <2>4. ASSUME NEW c \in Subscribers, Turn(c)
          PROVE  Allocated'
      BY <2>4, TurnFrame DEF ShapeInv, Allocated
    <2>. QED BY <2>1, <2>2, <2>3, <2>4, StepCases
  <1>. QED BY <1>1, <1>2, ShapeInvariant, PTL DEF Spec

\* In a list in order a notification has one place.
LEMMA ReplayIndices ==
  ASSUME NEW q \in Seq(Frames), InOrder(q), IsFiniteSet(Replayed(q))
  PROVE  Cardinality({i \in DOMAIN q : q[i].kind \in {"replay"}}) = Cardinality(Replayed(q))
  <1> DEFINE places == {i \in DOMAIN q : q[i].kind \in {"replay"}}
             number == [i \in places |-> q[i].seq]
  <1>1. /\ DOMAIN q = 1..Len(q) /\ Len(q) \in Nat
        /\ \A i \in DOMAIN q : q[i].seq \in Nat
    <2>1. DOMAIN q = 1..Len(q) /\ Len(q) \in Nat
      BY LenProperties
    <2>2. \A i \in DOMAIN q : q[i] \in Frames
      BY <2>1, ElementOfSeq
    <2>. QED BY <2>1, <2>2 DEF Frames
  <1>2. IsFiniteSet(places)
    <2>1. IsFiniteSet(1..Len(q)) /\ places \subseteq 1..Len(q)
      BY <1>1, FS_Interval
    <2>. QED BY <2>1, FS_Subset
  <1>3. number \in [places -> Replayed(q)]
    BY DEF Replayed, KindSeqs, ToSet
  <1>4. ASSUME NEW i \in places, NEW j \in places, q[i].seq = q[j].seq
        PROVE  i = j
    <2>1. i \in Sequenced(q) /\ j \in Sequenced(q) /\ i \in Nat /\ j \in Nat
      BY <1>1 DEF Sequenced
    <2>2. ~(q[i].seq < q[j].seq) /\ ~(q[j].seq < q[i].seq)
      BY <1>1, <1>4
    <2>. QED BY <2>1, <2>2 DEF InOrder
  <1>5. \A n \in Replayed(q) : \E i \in places : number[i] = n
    BY DEF Replayed, KindSeqs, ToSet
  <1>6. number \in Bijection(places, Replayed(q))
    BY <1>3, <1>4, <1>5 DEF Bijection, Injection, IsInjective, Surjection
  <1>7. ExistsBijection(places, Replayed(q))
    BY <1>6 DEF ExistsBijection
  <1>. HIDE DEF places
  <1>8. Cardinality(Replayed(q)) = Cardinality(places)
    BY <1>2, <1>7, FS_Bijection
  <1>. QED BY <1>8 DEF places

\* A frame that goes out, as the client sees it.
LEMMA SendImplements ==
  ASSUME NEW c, NEW kind, NEW seq, NEW next, Kept(conn[c], conn'[c]),
         conn'[c].bound = conn[c].bound, Stage(conn'[c]) = next,
         conn'[c].out = Append(conn[c].out, Frame(kind, seq))
  PROVE  Contract(c)!Send(kind, seq, next)
  BY DEF Contract!Send, Kept, Frame

LEMMA Unseen ==
  ASSUME NEW c, conn'[c].mode = conn[c].mode, conn'[c].bound = conn[c].bound,
         Stage(conn'[c]) = Stage(conn[c]), conn'[c].out = conn[c].out
  PROVE  UNCHANGED Contract(c)!contractVars
  BY DEF Contract!contractVars

LEMMA OpeningImplements ==
  ASSUME ShapeInv, Allocated, NEW c \in Subscribers, Opening(c)
  PROVE  Contract(c)!Accept
  <1> DEFINE n == conn'[c]
  <1>1. /\ conn[c].mode = "none" /\ Fresh(n)
        /\ n.mode \in {"live", "watch", "replay"}
        /\ n.phase = IF n.end.kind = "date" THEN "resolving" ELSE "starting"
        /\ n.bound \in Nat /\ n.bound <= nextSequence - 1
    BY OpeningStep
  <1>2. conn[c].phase = "idle" /\ conn[c].out = <<>>
    BY <1>1, ShapeFacts, IdleFields DEF Shape
  <1>3. n.out = <<>> /\ n.phase \in {"resolving", "starting"}
    BY <1>1 DEF Fresh
  <1>4. n.bound \in 0..MaxSequence
    <2>1. PICK last \in Nat : last = n.bound
      BY <1>1
    <2>2. last <= nextSequence - 1
      BY <1>1, <2>1
    <2>3. last <= MaxSequence
      BY <2>2, BoundsAssumption DEF Allocated
    <2>. QED BY <2>1, <2>3, BoundsAssumption
  <1>5. Stage(n) = "new" /\ Stage(conn[c]) = "new"
    BY <1>2, <1>3 DEF Stage
  <1>. QED BY <1>1, <1>2, <1>3, <1>4, <1>5 DEF Contract!Accept

LEMMA ControllingImplements ==
  ASSUME ShapeInv, NEW c \in Subscribers, Controlling(c)
  PROVE  Contract(c)!Next
  <1> DEFINE k == conn[c]
             n == conn'[c]
  <1>1. /\ Connected /\ LogTypeOK
        /\ Shape(k, pattern[c], historyEnd[c], nextSequence, ToSet(published))
        /\ k.mode \in {"none", "live", "watch", "replay"} /\ k.phase \in Phases
    BY ShapeFacts, ConnectionFields
  <1>2. k = conn[c] /\ n = conn'[c]
    OBVIOUS
  <1>. HIDE DEF k, n
  <1>3. \A kind : Sends(k, n, kind) =>
          \A next : Stage(n) = next => Contract(c)!Send(kind, 0, next)
    <2> SUFFICES ASSUME NEW kind, Sends(k, n, kind)
                 PROVE  Contract(c)!Send(kind, 0, Stage(n))
      OBVIOUS
    <2>1. Kept(k, n) /\ n.bound = k.bound /\ n.out = Append(k.out, Frame(kind, 0))
      BY DEF Sends, Paged
    <2>. QED BY <1>2, <2>1, SendImplements
  <1>4. CASE EmitStart(c)
    <2>1. k.phase = "starting"
          /\ \/ k.mode = "live" /\ n.phase = "live" /\ Sends(k, n, "connection_established")
             \/ k.mode # "live" /\ n.phase = "replaying" /\ Sends(k, n, "replay_started")
      BY <1>1, <1>2, <1>4, EmitStartStep
    <2>2. Stage(k) = "new" /\ k.mode # "none"
      BY <1>1, <2>1 DEF Shape, Stage
    <2>3. CASE k.mode = "live"
      <3>1. Stage(n) = "live"
        BY <2>1, <2>3 DEF Stage
      <3>2. Contract(c)!Send("connection_established", 0, "live")
        BY <1>3, <2>1, <2>3, <3>1
      <3>3. Contract(c)!Open
        BY <1>2, <2>2, <2>3, <3>2 DEF Contract!Open
      <3>. QED BY <3>3 DEF Contract!Next
    <2>4. CASE k.mode # "live"
      <3>1. Stage(n) = "history" /\ k.mode \in {"watch", "replay"}
        BY <1>1, <2>1, <2>2, <2>4 DEF Stage
      <3>2. Contract(c)!Send("replay_started", 0, "history")
        BY <1>3, <2>1, <2>4, <3>1
      <3>3. Contract(c)!Open
        BY <1>2, <2>2, <3>1, <3>2 DEF Contract!Open
      <3>. QED BY <3>3 DEF Contract!Next
    <2>. QED BY <2>3, <2>4
  <1>5. CASE Heartbeat(c)
    <2>1. /\ k.phase \in {"replaying", "fetching", "live"} /\ k.mode # "replay"
          /\ n.phase = k.phase /\ Sends(k, n, "heartbeat")
      BY <1>1, <1>2, <1>5, HeartbeatStep
    <2>2. Stage(k) \in {"history", "live"} /\ Stage(n) = Stage(k)
      BY <2>1 DEF Stage
    <2>3. Contract(c)!Send("heartbeat", 0, Stage(k))
      BY <1>3, <2>1, <2>2
    <2>4. Contract(c)!Heartbeat
      BY <1>2, <2>1, <2>2, <2>3 DEF Contract!Heartbeat
    <2>. QED BY <2>4 DEF Contract!Next
  <1>6. CASE CompleteReplay(c)
    <2>1. /\ k.phase = "replaying" /\ Sends(k, n, "replay_completed")
          /\ n.phase = IF k.mode = "watch" THEN "live" ELSE "drained"
      BY <1>1, <1>2, <1>6, CompleteReplayStep
    <2>2. Stage(k) = "history" /\ Stage(n) = IF k.mode = "watch" THEN "live" ELSE "ended"
      BY <2>1 DEF Stage
    <2>3. Contract(c)!Send("replay_completed", 0, IF k.mode = "watch" THEN "live" ELSE "ended")
      BY <1>3, <2>1, <2>2
    <2>4. Contract(c)!EndHistory
      BY <1>2, <2>2, <2>3 DEF Contract!EndHistory
    <2>. QED BY <2>4 DEF Contract!Next
  <1>7. CASE Close(c)
    <2>1. /\ k.phase \in Opened /\ n.phase = "closed"
          /\ \/ Sends(k, n, "server_shutdown")
             \/ k.expired /\ Sends(k, n, "max_duration_reached")
             \/ k.phase = "drained" /\ Sends(k, n, "end_of_stream")
      BY <1>1, <1>2, <1>7, CloseStep
    <2>2. k.mode # "none" /\ Stage(k) # "closed" /\ Stage(n) = "closed"
      BY <1>1, <2>1 DEF Shape, Opened, Stage
    <2>3. k.expired => k.mode # "replay" /\ Stage(k) # "new"
      BY <1>1, <2>1 DEF Shape, Opened, Stage
    <2>4. k.phase = "drained" => Stage(k) = "ended"
      BY DEF Stage
    <2>5. \/ Contract(c)!Send("server_shutdown", 0, "closed")
          \/ k.expired /\ Contract(c)!Send("max_duration_reached", 0, "closed")
          \/ k.phase = "drained" /\ Contract(c)!Send("end_of_stream", 0, "closed")
      BY <1>3, <2>1, <2>2
    <2>6. Contract(c)!Close
      BY <1>2, <2>2, <2>3, <2>4, <2>5 DEF Contract!Close
    <2>. QED BY <2>6 DEF Contract!Next
  <1>. QED BY <1>4, <1>5, <1>6, <1>7 DEF Controlling

LEMMA RestingImplements ==
  ASSUME ShapeInv, NEW c \in Subscribers, Resting(c)
  PROVE  [Contract(c)!Next]_(Contract(c)!contractVars)
  <1> DEFINE k == conn[c]
             n == conn'[c]
  <1>1. /\ Connected /\ LogTypeOK
        /\ Shape(k, pattern[c], historyEnd[c], nextSequence, ToSet(published))
    BY ShapeFacts
  <1>2. k = conn[c] /\ n = conn'[c]
    OBVIOUS
  <1>. HIDE DEF k, n
  <1>3. CASE Leave(c)
    <2>1. k.phase \in Opened \cup {"resolving"} /\ n.phase = "closed" /\ Rests(k, n)
      BY <1>1, <1>2, <1>3, LeaveStep
    <2>2. k.mode # "none" /\ Stage(k) # "closed" /\ Stage(n) = "closed"
      BY <1>1, <2>1 DEF Shape, Opened, Stage
    <2>3. n.mode = k.mode /\ n.bound = k.bound /\ n.out = k.out
      BY <2>1 DEF Rests, Kept, Paged
    <2>4. Contract(c)!Leave
      BY <1>2, <2>2, <2>3 DEF Contract!Leave
    <2>. QED BY <2>4 DEF Contract!Next
  <1>4. CASE Expire(c) \/ RequestBatch(c)
    <2>1. Rests(k, n) /\ \/ n.phase = k.phase
                         \/ k.phase = "replaying" /\ n.phase = "fetching"
      BY <1>1, <1>2, <1>4, ExpireStep, RequestBatchStep
    <2>2. n.mode = k.mode /\ n.bound = k.bound /\ n.out = k.out
      BY <2>1 DEF Rests, Kept, Paged
    <2>3. Stage(n) = Stage(k)
      <3>1. CASE n.phase = k.phase
        BY <3>1 DEF Stage
      <3>2. CASE n.phase # k.phase
        BY <2>1, <3>2 DEF Stage
      <3>. QED BY <3>1, <3>2
    <2>. QED BY <1>2, <2>2, <2>3, Unseen
  <1>. QED BY <1>3, <1>4 DEF Resting

LEMMA QuotaImplements ==
  ASSUME OrderInv, NEW c \in Subscribers, TruncatedOf(c)
  PROVE  /\ IsFiniteSet(Replayed(conn[c].out))
         /\ Contract(c)!QuotaUsed = Cardinality(Replayed(conn[c].out))
  <1> DEFINE q == conn[c].out
  <1>1. q \in Seq(Frames) /\ InOrder(q)
    BY ShapeFacts, ConnectionFields DEF OrderInv, OrderedOf, Ordered
  <1>2. IsFiniteSet(Replayed(q))
    <2>1. IsFiniteSet(Sent(conn[c])) /\ Replayed(q) \subseteq Sent(conn[c])
      BY DEF TruncatedOf, Truncated, Sent
    <2>. QED BY <2>1, FS_Subset
  <1>3. Contract(c)!QuotaUsed = Cardinality({i \in DOMAIN q : q[i].kind \in {"replay"}})
    <2>1. Contract(c)!Indices({"replay"}) = {i \in DOMAIN q : q[i].kind \in {"replay"}}
      BY DEF Contract!Indices
    <2>2. Contract(c)!QuotaUsed = Contract(c)!Cardinality(Contract(c)!Indices({"replay"}))
      BY DEF Contract!QuotaUsed
    <2>3. ASSUME NEW S PROVE Contract(c)!Cardinality(S) = Cardinality(S)
      BY DEF Contract!Cardinality, Cardinality
    <2>. HIDE DEF q
    <2>. QED BY <2>1, <2>2, <2>3
  <1>. QED BY <1>1, <1>2, <1>3, ReplayIndices

LEMMA NewerImplements ==
  ASSUME NEW c \in Subscribers, conn[c].out \in Seq(Frames), NEW n,
         \A f \in Standing(conn[c].out) : f.seq < n
  PROVE  Contract(c)!Newer(n)
  <1>1. \A i \in DOMAIN conn[c].out :
          conn[c].out[i].kind \in {"replay", "live", "error"} => conn[c].out[i] \in Standing(conn[c].out)
    BY DEF Standing, SeqKinds, ToSet
  <1>. QED BY <1>1 DEF Contract!Newer, Contract!Indices

LEMMA EmitReplayImplements ==
  ASSUME OrderInv, Allocated, NEW c \in Subscribers, TruncatedOf(c), EmitReplay(c)
  PROVE  Contract(c)!Next
  <1> DEFINE k == conn[c]
             n == conn'[c]
             h == Head(k.frames)
  <1>1. /\ k \in Connection /\ LogTypeOK /\ Connected /\ ShapeInv
        /\ Shape(k, pattern[c], historyEnd[c], nextSequence, ToSet(published))
        /\ k.out \in Seq(Frames) /\ k.frames \in Seq(Frames) /\ k.bound \in Nat
        /\ k.delivered \in 0..MaxAllowed
    BY ShapeFacts, ConnectionFields DEF OrderInv
  <1>2. Truncated(k, ToSet(published)) /\ Ordered(k, ToSet(queue[c]), nextSequence)
    BY DEF TruncatedOf, OrderInv, OrderedOf
  <1>3. k = conn[c] /\ n = conn'[c]
    OBVIOUS
  <1>4. /\ IsFiniteSet(Replayed(k.out))
        /\ Contract(c)!QuotaUsed = Cardinality(Replayed(k.out))
    BY QuotaImplements
  <1>. HIDE DEF k, n
  <1>5. /\ k.phase = "replaying" /\ k.frames # <<>> /\ Kept(k, n)
        /\ n.bound = k.bound
        /\ n.frames = Tail(k.frames) /\ n.out = Append(k.out, h)
        /\ n.phase = IF h.kind \in Terminal THEN "drained" ELSE "replaying"
    <2>1. ReplayEmitted(k, n) /\ UNCHANGED logVars
      BY <1>1, <1>3, EmitReplayStep
    <2>. QED BY <2>1 DEF ReplayEmitted
  <1>6. ToSet(k.frames) = ToSet(n.frames) \cup {h} /\ h \in Frames
    BY <1>1, <1>2, <1>5, TailOrder DEF Ordered
  <1>7. /\ h.kind \in {"replay", "error"} \cup Terminal
        /\ h.kind \in Terminal => h.seq = 0 /\ n.frames = <<>>
        /\ h.kind \notin Terminal => h.seq # 0
    <2>1. /\ h = k.frames[1] /\ 1 \in DOMAIN k.frames
          /\ h.kind \in Terminal => n.frames = <<>>
      BY <1>1, <1>5, EndedTail DEF Shape
    <2>. HIDE DEF h
    <2>. QED BY <1>1, <2>1 DEF Shape, WellEnded
  <1>. HIDE DEF h
  <1>8. h = Frame(h.kind, h.seq) /\ h.seq \in Nat
    BY <1>6 DEF Frames, Frame
  <1>9. Stage(k) = "history"
    BY <1>5 DEF Stage
  <1>10. \A next : Stage(n) = next => Contract(c)!Send(h.kind, h.seq, next)
    BY <1>3, <1>5, <1>8, SendImplements
  <1>11. CASE h.kind \in {"replay", "error"}
    <2>1. Stage(n) = "history"
      BY <1>5, <1>11 DEF Stage, Terminal
    <2>2. h.seq # 0
      BY <1>7, <1>11 DEF Terminal
    <2>3. h \in Standing(k.frames)
      BY <1>6, <1>11 DEF Standing, SeqKinds
    <2>4. h.seq <= k.bound /\ \A f \in Standing(k.out) : f.seq < h.seq
      BY <1>2, <2>3 DEF Ordered
    <2>5. k.bound < nextSequence
      BY <1>1 DEF Shape
    <2>6. h.seq \in 1..MaxSequence
      BY <1>1, <1>8, <2>2, <2>4, <2>5, BoundsAssumption DEF Allocated
    <2>7. Contract(c)!Newer(h.seq)
      BY <1>1, <1>3, <2>4, NewerImplements
    <2>8. Contract(c)!Send(h.kind, h.seq, Stage(k))
      BY <1>9, <1>10, <2>1
    <2>9. h.kind = "replay" => Contract(c)!QuotaUsed < MaxAllowed
      <3> SUFFICES ASSUME h.kind = "replay" PROVE Cardinality(Replayed(k.out)) < MaxAllowed
        BY <1>4
      <3>1. h.seq \notin Replayed(k.out)
        <4>1. \A f \in Standing(k.out) : f.seq # h.seq
          BY <1>8, <2>4
        <4>. QED BY <4>1 DEF Replayed, KindSeqs, Standing, SeqKinds
      <3>2. h.seq \in Replayed(k.frames)
        BY <1>6 DEF Replayed, KindSeqs
      <3>3. Replayed(k.out) \cup {h.seq} \subseteq Sent(k)
        BY <3>2 DEF Sent
      <3>4. Cardinality(Replayed(k.out) \cup {h.seq}) = Cardinality(Replayed(k.out)) + 1
        BY <1>4, <3>1, FS_AddElement
      <3>5. IsFiniteSet(Sent(k)) /\ Cardinality(Sent(k)) = k.delivered
        BY <1>2 DEF Truncated
      <3>6. Cardinality(Replayed(k.out) \cup {h.seq}) <= k.delivered
        BY <3>3, <3>5, FS_Subset
      <3>7. PICK used \in Nat : used = Cardinality(Replayed(k.out))
        BY <1>4, FS_CardinalityType
      <3>8. used + 1 <= k.delivered
        BY <3>4, <3>6, <3>7
      <3>9. k.delivered \in Nat /\ k.delivered <= MaxAllowed /\ MaxAllowed \in Nat
        BY <1>1, QuotaAssumption
      <3>. QED BY <3>7, <3>8, <3>9
    <2>10. Contract(c)!Historical(h.seq)
      BY <1>3, <1>9, <1>11, <2>4, <2>7, <2>8, <2>9 DEF Contract!Historical
    <2>. QED BY <2>6, <2>10 DEF Contract!Next
  <1>12. CASE h.kind \in Terminal
    <2>1. Stage(n) = "ended" /\ h.seq = 0
      BY <1>5, <1>7, <1>12 DEF Stage
    <2>2. Contract(c)!Send(h.kind, 0, "ended")
      BY <1>10, <2>1
    <2>3. h.kind = "replay_limit_reached" => Contract(c)!QuotaUsed = MaxAllowed
      <3> SUFFICES ASSUME h.kind = "replay_limit_reached"
                   PROVE  Cardinality(Replayed(k.out)) = MaxAllowed
        BY <1>4
      <3>1. ToSet(k.frames) = {h}
        BY <1>6, <1>7, <1>12 DEF ToSet
      <3>2. Sent(k) = Replayed(k.out)
        BY <3>1 DEF Sent, Replayed, KindSeqs
      <3>3. Limited(k.frames)
        BY <3>1 DEF Limited
      <3>. QED BY <1>2, <3>2, <3>3 DEF Truncated
    <2>4. h.kind \in {"replay_limit_reached", "replay_failed"}
      BY <1>12 DEF Terminal
    <2>5. Contract(c)!EndHistory
      BY <1>3, <1>9, <2>2, <2>3, <2>4 DEF Contract!EndHistory
    <2>. QED BY <2>5 DEF Contract!Next
  <1>. QED BY <1>7, <1>11, <1>12

LEMMA EmitLiveImplements ==
  ASSUME OrderInv, Allocated, NEW c \in Subscribers, EmitLive(c)
  PROVE  [Contract(c)!Next]_(Contract(c)!contractVars)
  <1> DEFINE k == conn[c]
             n == conn'[c]
             m == Head(queue[c])
             f == Rendered(m, "live")
  <1>1. /\ k \in Connection /\ LogTypeOK /\ Connected /\ ShapeInv
        /\ k.out \in Seq(Frames) /\ k.bound \in Nat
    BY ShapeFacts, ConnectionFields DEF OrderInv
  <1>2. Ordered(k, ToSet(queue[c]), nextSequence)
    BY DEF OrderInv, OrderedOf
  <1>3. k = conn[c] /\ n = conn'[c]
    OBVIOUS
  <1>4. \A x \in ToSet(queue[c]) : /\ x \in Message /\ x.seq \in Nat /\ x.seq > k.bound
                                  /\ x.seq < nextSequence
    BY <1>1, QueueBehind
  <1>. HIDE DEF k, n
  <1>5. /\ k.phase = "live" /\ n.phase = "live" /\ Receive(c)
        /\ Kept(k, n) /\ Paged(k, n)
        /\ n.out = k.out \/ n.out = Append(k.out, f)
    BY <1>1, <1>3, EmitLiveStep
  <1>6. m \in ToSet(queue[c])
    <2>1. queue[c] \in Seq(Message) /\ queue[c] # <<>>
      BY <1>1, <1>5 DEF LogTypeOK, Receive
    <2>. QED BY <2>1, HeadTailProperties, LenProperties, EmptySeq DEF ToSet
  <1>. HIDE DEF m
  <1>7. /\ m \in Message /\ m.seq \in Nat /\ m.seq > k.bound /\ m.seq < nextSequence
        /\ \A g \in Standing(k.out) : g.seq < m.seq
    BY <1>2, <1>4, <1>6 DEF Ordered
  <1>8. f \in Frames /\ f.seq = m.seq /\ f.kind \in {"live", "error"}
    BY <1>7, FrameTypes
  <1>. HIDE DEF f
  <1>9. Stage(k) = "live" /\ Stage(n) = "live" /\ n.bound = k.bound
    BY <1>5 DEF Stage, Paged
  <1>10. CASE n.out = k.out
    <2>1. n.mode = k.mode
      BY <1>5 DEF Kept
    <2>. QED BY <1>3, <1>9, <1>10, <2>1, Unseen
  <1>11. CASE n.out = Append(k.out, f)
    <2>1. f = Frame(f.kind, m.seq)
      BY <1>8 DEF Frames, Frame
    <2>2. Contract(c)!Send(f.kind, m.seq, "live")
      BY <1>3, <1>5, <1>9, <1>11, <2>1, SendImplements
    <2>3. Contract(c)!Newer(m.seq)
      BY <1>1, <1>3, <1>7, NewerImplements
    <2>4. Contract(c)!Live(m.seq)
      BY <1>3, <1>7, <1>8, <1>9, <2>2, <2>3 DEF Contract!Live
    <2>5. m.seq \in 1..MaxSequence
      BY <1>1, <1>7, BoundsAssumption DEF Allocated
    <2>. QED BY <2>4, <2>5 DEF Contract!Next
  <1>. QED BY <1>5, <1>10, <1>11

LEMMA TurnImplements ==
  ASSUME OrderInv, Allocated, NEW c \in Subscribers, TruncatedOf(c), Turn(c)
  PROVE  [Contract(c)!Next]_(Contract(c)!contractVars)
  <1>1. ShapeInv /\ Connected /\ LogTypeOK
    BY ShapeFacts DEF OrderInv
  <1>2. CASE Opening(c)
    <2>1. Contract(c)!Accept
      BY <1>1, <1>2, OpeningImplements
    <2>. QED BY <2>1 DEF Contract!Next
  <1>3. CASE Controlling(c)
    BY <1>1, <1>3, ControllingImplements
  <1>4. CASE Resting(c)
    BY <1>1, <1>4, RestingImplements
  <1>5. CASE EmitReplay(c)
    BY <1>5, EmitReplayImplements
  <1>6. CASE EmitLive(c)
    BY <1>6, EmitLiveImplements
  <1>7. CASE ResolveEnd(c)
    <2> DEFINE k == conn[c]
               n == conn'[c]
    <2>1. k = conn[c] /\ n = conn'[c]
      OBVIOUS
    <2>2. Shape(k, pattern[c], historyEnd[c], nextSequence, ToSet(published)) /\ k.bound \in Nat
      BY <1>1, ShapeFacts, ConnectionFields
    <2>. HIDE DEF k, n
    <2>3. /\ k.phase = "resolving" /\ n.phase = "starting" /\ Kept(k, n)
          /\ n.out = k.out /\ n.bound \in Nat /\ n.bound <= k.bound
      BY <1>1, <1>7, <2>1, ResolveEndStep
    <2>4. k.mode = "replay" /\ n.mode = k.mode /\ n.bound \in 0..k.bound
      BY <2>2, <2>3 DEF Shape, Kept
    <2>5. Stage(k) = "new" /\ Stage(n) = "new"
      BY <2>3 DEF Stage
    <2>6. Contract(c)!SettleEnd
      BY <2>1, <2>3, <2>4, <2>5 DEF Contract!SettleEnd
    <2>. QED BY <2>6 DEF Contract!Next
  <1>8. CASE FetchBatch(c) \/ FetchFails(c)
    <2> DEFINE k == conn[c]
               n == conn'[c]
    <2>1. k = conn[c] /\ n = conn'[c]
      OBVIOUS
    <2>. HIDE DEF k, n
    <2>2. CASE FetchBatch(c)
      <3>1. /\ k.phase = "fetching" /\ Kept(k, n)
            /\ \E next \in 0..k.bound, page \in SUBSET k.known, messages \in Seq(Message) :
                 \E shown \in 0..Len(messages) : Batched(k, n, next, page, messages, shown)
        BY <1>1, <2>1, <2>2, BatchStep
      <3>2. n.phase = "replaying" /\ n.bound = k.bound /\ n.out = k.out
        BY <3>1 DEF Batched
      <3>3. Stage(n) = Stage(k) /\ n.mode = k.mode
        BY <3>1, <3>2 DEF Stage, Kept
      <3>. QED BY <2>1, <3>2, <3>3, Unseen
    <2>3. CASE FetchFails(c)
      <3>1. /\ k.phase = "fetching" /\ n.phase = "replaying" /\ Kept(k, n)
            /\ n.bound = k.bound /\ n.out = k.out
        BY <1>1, <2>1, <2>3, FetchFailsStep
      <3>2. Stage(n) = Stage(k) /\ n.mode = k.mode
        BY <3>1 DEF Stage, Kept
      <3>. QED BY <2>1, <3>1, <3>2, Unseen
    <2>. QED BY <1>8, <2>2, <2>3
  <1>. QED BY <1>2, <1>3, <1>4, <1>5, <1>6, <1>7, <1>8, TurnKinds

\* Every connection, whatever the others, the backend and the server do, keeps
\* the protocol its client relies on: start frame, history up to the boundary
\* and within the quota, live notifications behind it, one close frame that fits.
THEOREM ConnectionsKeepContract == Spec => ImplementsContract
  <1> DEFINE Marked == \A c \in Subscribers : TruncatedOf(c)
  <1>1. Init => \A c \in Subscribers : Contract(c)!Init
    <2> SUFFICES ASSUME Init, NEW c \in Subscribers PROVE Contract(c)!Init
      OBVIOUS
    <2>1. conn[c] = Idle
      BY DEF Init
    <2>2. /\ conn[c].mode = "none" /\ conn[c].bound = 0 /\ conn[c].out = <<>>
          /\ Stage(conn[c]) = "new"
      BY <2>1 DEF Idle, Stage
    <2>. QED BY <2>2 DEF Contract!Init
  <1>2. OrderInv /\ Allocated /\ Marked /\ [Next]_vars
          => [\A c \in Subscribers : [Contract(c)!Next]_(Contract(c)!contractVars)]_vars
    <2> SUFFICES ASSUME OrderInv, Allocated, Marked, [Next]_vars, NEW c \in Subscribers
                 PROVE  [Contract(c)!Next]_(Contract(c)!contractVars)
      OBVIOUS
    <2>1. CASE conn' = conn
      <3>1. conn'[c].mode = conn[c].mode /\ Stage(conn'[c]) = Stage(conn[c])
        BY <2>1
      <3>. QED BY <2>1, <3>1, Unseen
    <2>2. ASSUME NEW d \in Subscribers, Turn(d)
          PROVE  [Contract(c)!Next]_(Contract(c)!contractVars)
      <3>1. CASE d = c
        BY <2>2, <3>1, TurnImplements
      <3>2. CASE d # c
        <4>1. conn'[c] = conn[c]
          BY <2>2, <3>2, TurnFrame DEF OrderInv, ShapeInv
        <4>2. Stage(conn'[c]) = Stage(conn[c])
          BY <4>1
        <4>. QED BY <4>1, <4>2, Unseen
      <3>. QED BY <3>1, <3>2
    <2>3. CASE \E t \in Topics, b \in Payloads : Publish(t, b)
      BY <2>1, <2>3 DEF Publish
    <2>4. CASE Environment \/ Shutdown \/ UNCHANGED vars
      BY <2>1, <2>4 DEF Environment, Shutdown, vars
    <2>. QED BY <2>2, <2>3, <2>4, StepCases
  <1>. QED BY <1>1, <1>2, OrderInvariant, AllocatedInvariant, TruncatedInvariant, PTL
           DEF Spec, ImplementsContract

=============================================================================
