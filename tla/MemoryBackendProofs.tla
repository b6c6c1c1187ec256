-------------------------- MODULE MemoryBackendProofs --------------------------
(***************************************************************************)
(* Proofs about MemoryBackend, for any topics, subscriptions and limits.   *)
(***************************************************************************)
EXTENDS MemoryBackend, OrderLemmas, SequenceTheorems

-----------------------------------------------------------------------------
(* Dropping from and appending to queues of messages.                       *)

\* Dropping the oldest message of a queue shifts the others down by one.
LEMMA TailOfQueue ==
  ASSUME NEW q \in Seq(Message), q # <<>>
  PROVE  /\ Tail(q) \in Seq(Message)
         /\ Len(Tail(q)) = Len(q) - 1
         /\ \A i \in DOMAIN Tail(q) : i + 1 \in DOMAIN q /\ Tail(q)[i] = q[i + 1]
         /\ Ascending(q) => Ascending(Tail(q))
  <1>1. /\ Tail(q) \in Seq(Message)
        /\ Len(Tail(q)) = Len(q) - 1
        /\ \A i \in 1..Len(Tail(q)) : Tail(q)[i] = q[i + 1]
    BY HeadTailProperties
  <1>2. DOMAIN q = 1..Len(q) /\ DOMAIN Tail(q) = 1..Len(Tail(q)) /\ Len(q) \in Nat
    BY <1>1, LenProperties
  <1>3. \A i \in DOMAIN Tail(q) : i + 1 \in DOMAIN q /\ Tail(q)[i] = q[i + 1]
    BY <1>1, <1>2
  <1>4. ASSUME Ascending(q) PROVE Ascending(Tail(q))
    BY <1>2, <1>3, <1>4 DEF Ascending
  <1>. QED BY <1>1, <1>3, <1>4

\* A message newer than all of a queue can be appended to it.
LEMMA AppendToQueue ==
  ASSUME NEW q \in Seq(Message), NEW m \in Message
  PROVE  /\ Append(q, m) \in Seq(Message)
         /\ Len(Append(q, m)) = Len(q) + 1
         /\ \A i \in DOMAIN Append(q, m) :
              \/ i \in DOMAIN q /\ Append(q, m)[i] = q[i]
              \/ i = Len(q) + 1 /\ Append(q, m)[i] = m
         /\ Ascending(q) /\ (\A i \in DOMAIN q : q[i].seq < m.seq)
              => Ascending(Append(q, m))
  <1>1. /\ Append(q, m) \in Seq(Message)
        /\ Len(Append(q, m)) = Len(q) + 1
        /\ \A i \in 1..Len(q) : Append(q, m)[i] = q[i]
        /\ Append(q, m)[Len(q) + 1] = m
    BY AppendProperties
  <1>2. /\ DOMAIN q = 1..Len(q) /\ Len(q) \in Nat
        /\ DOMAIN Append(q, m) = 1..(Len(q) + 1)
    BY <1>1, LenProperties
  <1>3. \A i \in DOMAIN Append(q, m) :
           \/ i \in DOMAIN q /\ Append(q, m)[i] = q[i]
           \/ i = Len(q) + 1 /\ Append(q, m)[i] = m
    BY <1>1, <1>2
  <1>4. ASSUME Ascending(q), \A i \in DOMAIN q : q[i].seq < m.seq
        PROVE  Ascending(Append(q, m))
    BY <1>1, <1>2, <1>4 DEF Ascending
  <1>. QED BY <1>1, <1>3, <1>4

\* Removing a message from a deque leaves the others in their order.
LEMMA RemoveFromQueue ==
  ASSUME NEW q \in Seq(Message), NEW k \in DOMAIN q
  PROVE  /\ RemoveAt(q, k) \in Seq(Message)
         /\ Len(RemoveAt(q, k)) = Len(q) - 1
         /\ \A i \in DOMAIN RemoveAt(q, k) :
              \E j \in DOMAIN q : RemoveAt(q, k)[i] = q[j]
         /\ Ascending(q) => Ascending(RemoveAt(q, k))
  <1> DEFINE front == SubSeq(q, 1, k - 1)
             back == SubSeq(q, k + 1, Len(q))
  <1>1. DOMAIN q = 1..Len(q) /\ Len(q) \in Nat /\ k \in 1..Len(q)
    BY LenProperties
  <1>2. \A i \in 1..Len(q) : q[i] \in Message
    BY ElementOfSeq
  <1>3. /\ front \in Seq(Message) /\ Len(front) = k - 1
        /\ \A i \in 1..(k - 1) : front[i] = q[i]
    BY <1>1, <1>2, SubSeqProperties
  <1>4. /\ back \in Seq(Message) /\ Len(back) = Len(q) - k
        /\ \A i \in 1..(Len(q) - k) : back[i] = q[k + i]
    <2>1. \A i \in (k + 1)..Len(q) : q[i] \in Message
      BY <1>1, <1>2
    <2>2. /\ back \in Seq(Message)
          /\ Len(back) = IF k + 1 <= Len(q) THEN Len(q) - (k + 1) + 1 ELSE 0
          /\ \A i \in 1..(Len(q) - (k + 1) + 1) : back[i] = q[(k + 1) + i - 1]
      <3>. k + 1 \in Int /\ Len(q) \in Int
        BY <1>1
      <3>. QED BY <2>1, SubSeqProperties
    <2>. QED BY <1>1, <2>2
  <1>5. /\ RemoveAt(q, k) \in Seq(Message)
        /\ Len(RemoveAt(q, k)) = Len(q) - 1
        /\ \A i \in 1..(Len(q) - 1) :
             RemoveAt(q, k)[i] = IF i < k THEN q[i] ELSE q[i + 1]
    <2>1. RemoveAt(q, k) = front \o back
      BY DEF RemoveAt
    <2>2. /\ front \o back \in Seq(Message)
          /\ Len(front \o back) = Len(front) + Len(back)
          /\ \A i \in 1..(Len(front) + Len(back)) :
               (front \o back)[i] = IF i <= Len(front) THEN front[i]
                                    ELSE back[i - Len(front)]
      BY <1>3, <1>4, ConcatProperties
    <2>. HIDE DEF front, back
    <2>3. Len(front) + Len(back) = Len(q) - 1
      BY <1>1, <1>3, <1>4
    <2>4. ASSUME NEW i \in 1..(Len(q) - 1)
          PROVE  (front \o back)[i] = IF i < k THEN q[i] ELSE q[i + 1]
      <3>1. CASE i < k
        BY <1>1, <1>3, <2>2, <2>3, <3>1
      <3>2. CASE ~(i < k)
        <4>1. (front \o back)[i] = back[i - (k - 1)]
          BY <1>1, <1>3, <2>2, <2>3, <3>2
        <4>2. i - (k - 1) \in 1..(Len(q) - k) /\ k + (i - (k - 1)) = i + 1
          BY <1>1, <3>2
        <4>. QED BY <1>4, <3>2, <4>1, <4>2
      <3>. QED BY <3>1, <3>2
    <2>. QED BY <2>1, <2>2, <2>3, <2>4
  <1>6. DOMAIN RemoveAt(q, k) = 1..(Len(q) - 1)
    BY <1>5, LenProperties
  <1>7. ASSUME NEW i \in DOMAIN RemoveAt(q, k)
        PROVE  \E j \in DOMAIN q : RemoveAt(q, k)[i] = q[j]
    BY <1>1, <1>5, <1>6
  <1>8. ASSUME Ascending(q) PROVE Ascending(RemoveAt(q, k))
    <2> DEFINE From(i) == IF i < k THEN i ELSE i + 1
    <2>1. ASSUME NEW i \in DOMAIN RemoveAt(q, k)
          PROVE  From(i) \in DOMAIN q /\ RemoveAt(q, k)[i] = q[From(i)]
      BY <1>1, <1>5, <1>6
    <2>2. ASSUME NEW i \in DOMAIN RemoveAt(q, k), NEW j \in DOMAIN RemoveAt(q, k), i < j
          PROVE  From(i) < From(j)
      BY <1>1, <1>6, <2>2
    <2>. HIDE DEF From
    <2>. QED BY <1>8, <2>1, <2>2 DEF Ascending
  <1>. QED BY <1>5, <1>7, <1>8

\* What pruning leaves of a deque is in it, in order, and one shorter when full.
LEMMA PrunedQueue ==
  ASSUME NEW q \in Seq(Message)
  PROVE  /\ Pruned(q) \in Seq(Message)
         /\ Len(Pruned(q)) <= Len(q)
         /\ Len(q) >= MaxHistory /\ q # <<>> => Len(Pruned(q)) = Len(q) - 1
         /\ \A i \in DOMAIN Pruned(q) : \E j \in DOMAIN q : Pruned(q)[i] = q[j]
         /\ Ascending(q) => Ascending(Pruned(q))
  <1>1. CASE Len(q) >= MaxHistory /\ q # <<>>
    BY <1>1, TailOfQueue, LenProperties DEF Pruned
  <1>2. CASE ~(Len(q) >= MaxHistory /\ q # <<>>)
    BY <1>2, LenProperties DEF Pruned
  <1>. QED BY <1>1, <1>2

\* A subscription's channel after a message was sent: what it held, possibly
\* without its oldest message, and the new one; empty without a subscription.
LEMMA SentQueue ==
  ASSUME TypeOK, NEW s \in Subscribers, NEW m \in Message,
         Len(channel[s]) <= ChannelCapacity, Ascending(channel[s]),
         \A i \in DOMAIN channel[s] : channel[s][i].seq < m.seq
  PROVE  /\ Sent(s, m) \in Seq(Message)
         /\ Len(Sent(s, m)) <= ChannelCapacity
         /\ Ascending(Sent(s, m))
         /\ \A i \in DOMAIN Sent(s, m) :
              /\ pattern[s] # {}
              /\ \/ Sent(s, m)[i] = m
                 \/ \E j \in DOMAIN channel[s] : Sent(s, m)[i] = channel[s][j]
  <1> DEFINE q == channel[s]
  <1>1. q \in Seq(Message) /\ Len(q) \in Nat /\ ChannelCapacity \in Nat \ {0}
    BY LimitsAssumption, LenProperties DEF TypeOK
  <1>2. CASE pattern[s] = {}
    <2>1. Sent(s, m) = <<>>
      BY <1>2 DEF Sent
    <2>. QED BY <1>1, <2>1 DEF Ascending
  <1>3. CASE pattern[s] # {} /\ Len(q) >= ChannelCapacity
    <2> DEFINE r == Tail(q)
    <2>1. Sent(s, m) = Append(r, m) /\ q # <<>>
      BY <1>1, <1>3, EmptySeq DEF Sent
    <2>2. /\ r \in Seq(Message) /\ Len(r) = Len(q) - 1
          /\ \A i \in DOMAIN r : i + 1 \in DOMAIN q /\ r[i] = q[i + 1]
          /\ Ascending(r)
      BY <1>1, <2>1, TailOfQueue
    <2>. HIDE DEF q, r
    <2>3. \A i \in DOMAIN r : r[i].seq < m.seq
      BY <2>2 DEF q
    <2>4. /\ Append(r, m) \in Seq(Message)
          /\ Len(Append(r, m)) = Len(r) + 1
          /\ \A i \in DOMAIN Append(r, m) :
               (i \in DOMAIN r /\ Append(r, m)[i] = r[i]) \/ Append(r, m)[i] = m
          /\ Ascending(Append(r, m))
      BY <2>2, <2>3, AppendToQueue
    <2>5. Len(Append(r, m)) <= ChannelCapacity
      BY <1>1, <2>2, <2>4 DEF q
    <2>6. \A i \in DOMAIN Append(r, m) :
            Append(r, m)[i] = m \/ \E j \in DOMAIN q : Append(r, m)[i] = q[j]
      BY <2>2, <2>4
    <2>. QED BY <1>3, <2>1, <2>4, <2>5, <2>6 DEF q
  <1>4. CASE pattern[s] # {} /\ ~(Len(q) >= ChannelCapacity)
    <2>1. Sent(s, m) = Append(q, m)
      BY <1>4 DEF Sent
    <2>2. /\ Append(q, m) \in Seq(Message)
          /\ Len(Append(q, m)) = Len(q) + 1
          /\ \A i \in DOMAIN Append(q, m) :
               \/ i \in DOMAIN q /\ Append(q, m)[i] = q[i]
               \/ Append(q, m)[i] = m
          /\ Ascending(Append(q, m))
      BY <1>1, AppendToQueue
    <2>. QED BY <1>1, <1>4, <2>1, <2>2
  <1>. QED BY <1>2, <1>3, <1>4

-----------------------------------------------------------------------------
(* Every step, by what it does to the state.                                *)

\* A publication stamps its message with the next sequence.
LEMMA StampedMessage ==
  ASSUME TypeOK, NEW t \in Topics, NEW b \in Payloads
  PROVE  Stamped(t, b) \in Message /\ Stamped(t, b).seq = nextSequence /\ Stamped(t, b).topic = t
  BY DEF Stamped, Message, TypeOK

\* The deque of a topic after a publication on it.
LEMMA StoredQueue ==
  ASSUME TypeOK, NEW t \in Topics, NEW b \in Payloads
  PROVE  LET q == Append(Pruned(messages[t]), Stamped(t, b)) IN
         /\ q \in Seq(Message)
         /\ Len(q) = Len(Pruned(messages[t])) + 1
         /\ \A i \in DOMAIN q :
              q[i] = Stamped(t, b) \/ \E j \in DOMAIN messages[t] : q[i] = messages[t][j]
         /\ Ascending(messages[t])
              /\ (\A i \in DOMAIN messages[t] : messages[t][i].seq < nextSequence)
              => Ascending(q)
  <1> DEFINE p == Pruned(messages[t])
             m == Stamped(t, b)
  <1>1. messages[t] \in Seq(Message) /\ m \in Message /\ m.seq = nextSequence
    BY StampedMessage DEF TypeOK
  <1>2. /\ p \in Seq(Message)
        /\ \A i \in DOMAIN p : \E j \in DOMAIN messages[t] : p[i] = messages[t][j]
        /\ Ascending(messages[t]) => Ascending(p)
    BY <1>1, PrunedQueue
  <1>. HIDE DEF p, m
  <1>3. /\ Append(p, m) \in Seq(Message)
        /\ Len(Append(p, m)) = Len(p) + 1
        /\ \A i \in DOMAIN Append(p, m) :
             (i \in DOMAIN p /\ Append(p, m)[i] = p[i]) \/ Append(p, m)[i] = m
        /\ Ascending(p) /\ (\A i \in DOMAIN p : p[i].seq < m.seq) => Ascending(Append(p, m))
    BY <1>1, <1>2, AppendToQueue
  <1>. QED BY <1>1, <1>2, <1>3 DEF p, m

\* A channel stays a queue of messages whatever is sent on it.
LEMMA SentType ==
  ASSUME TypeOK, NEW s \in Subscribers, NEW m \in Message
  PROVE  Sent(s, m) \in Seq(Message)
  <1>1. channel[s] \in Seq(Message) /\ ChannelCapacity \in Nat \ {0}
    BY LimitsAssumption DEF TypeOK
  <1>2. CASE pattern[s] # {} /\ Len(channel[s]) >= ChannelCapacity
    <2>1. channel[s] # <<>>
      BY <1>1, <1>2, EmptySeq
    <2>2. Tail(channel[s]) \in Seq(Message)
      BY <1>1, <2>1, HeadTailProperties
    <2>3. Append(Tail(channel[s]), m) \in Seq(Message)
      BY <2>2, AppendProperties
    <2>. QED BY <1>2, <2>3 DEF Sent
  <1>3. CASE pattern[s] = {} \/ ~(Len(channel[s]) >= ChannelCapacity)
    BY <1>1, <1>3, AppendProperties, EmptySeq DEF Sent
  <1>. QED BY <1>2, <1>3

-----------------------------------------------------------------------------
(* Type correctness.                                                        *)

LEMMA TypeInit == Init => TypeOK
  BY EmptySeq DEF Init, TypeOK

LEMMA TypeStep == TypeOK /\ [Next]_vars => TypeOK'
  <1>. SUFFICES ASSUME TypeOK, [Next]_vars PROVE TypeOK'
    OBVIOUS
  <1>1. ASSUME NEW t \in Topics, NEW b \in Payloads, Store(t, b) PROVE TypeOK'
    <2>1. PICK evicted \in EvictedFor(t) :
            /\ topics' = (topics \ evicted) \cup {t}
            /\ messages' = [u \in Topics |->
                              IF u = t THEN Append(Pruned(messages[t]), Stamped(t, b))
                              ELSE IF u \in evicted THEN <<>>
                              ELSE messages[u]]
      BY <1>1 DEF Store
    <2>2. topics' \in SUBSET Topics
      BY <2>1 DEF TypeOK
    <2>3. Append(Pruned(messages[t]), Stamped(t, b)) \in Seq(Message)
      BY StoredQueue
    <2>4. messages' \in [Topics -> Seq(Message)]
      BY <2>1, <2>3, EmptySeq DEF TypeOK
    <2>5. channel' = [s \in Subscribers |-> Sent(s, Stamped(t, b))]
      BY <1>1 DEF Store
    <2>6. channel' \in [Subscribers -> Seq(Message)]
      BY <2>5, StampedMessage, SentType
    <2>7. nextSequence' \in Nat \ {0} /\ UNCHANGED <<clock, pattern, historyEnd>>
      BY <1>1 DEF Store, TypeOK
    <2>. QED BY <2>2, <2>4, <2>6, <2>7 DEF TypeOK
  <1>2. CASE Tick
    BY <1>2 DEF Tick, TypeOK, storage, subscriptions
  <1>3. ASSUME NEW gone, Forget(gone) PROVE TypeOK'
    BY <1>3, EmptySeq DEF Forget, TypeOK, subscriptions
  <1>4. ASSUME NEW k \in Streams, NEW n \in 1..MaxSequence, DeleteMessage(k, n)
        PROVE  TypeOK'
    <2>0. PICK t \in topics : \E i \in DOMAIN messages[t] :
            /\ messages' = [messages EXCEPT ![t] = RemoveAt(messages[t], i)]
            /\ UNCHANGED <<topics, nextSequence, clock, subscriptions>>
      BY <1>4 DEF DeleteMessage
    <2>1. PICK i \in DOMAIN messages[t] :
            /\ messages' = [messages EXCEPT ![t] = RemoveAt(messages[t], i)]
            /\ UNCHANGED <<topics, nextSequence, clock, subscriptions>>
      BY <2>0
    <2>2. messages[t] \in Seq(Message)
      BY DEF TypeOK
    <2>3. RemoveAt(messages[t], i) \in Seq(Message)
      BY <2>2, RemoveFromQueue
    <2>. QED BY <2>1, <2>3 DEF TypeOK, subscriptions
  <1>5. ASSUME NEW s \in Subscribers, NEW p \in Patterns, Subscribe(s, p) PROVE TypeOK'
    BY <1>5, EmptySeq DEF Subscribe, TypeOK, storage
  <1>6. ASSUME NEW s \in Subscribers, Receive(s) PROVE TypeOK'
    <2>1. channel[s] \in Seq(Message) /\ channel[s] # <<>>
      BY <1>6 DEF Receive, TypeOK
    <2>2. Tail(channel[s]) \in Seq(Message)
      BY <2>1, HeadTailProperties
    <2>. QED BY <1>6, <2>2 DEF Receive, TypeOK, storage
  <1>7. ASSUME NEW s \in Subscribers, Unsubscribe(s) PROVE TypeOK'
    BY <1>7, EmptySeq DEF Unsubscribe, TypeOK, storage
  <1>8. CASE UNCHANGED vars
    BY <1>8 DEF vars, TypeOK
  <1>. QED
    BY <1>1, <1>2, <1>3, <1>4, <1>5, <1>6, <1>7, <1>8 DEF Next, WipeStream, WipeAll

\* Every operation keeps the backend's state well formed: deques and channels
\* hold messages with a positive sequence on topics that requests publish on.
THEOREM TypeCorrect == Spec => []TypeOK
  BY TypeInit, TypeStep, PTL DEF Spec

-----------------------------------------------------------------------------
(* The order of sequences.                                                  *)

LEMMA OrderStep ==
  TypeOK /\ SequencesOrdered /\ [Next]_vars => SequencesOrdered'
  <1>. SUFFICES ASSUME TypeOK, SequencesOrdered, [Next]_vars PROVE SequencesOrdered'
    OBVIOUS
  \* A step that only drops messages keeps the order of those that remain.
  <1>0. ASSUME messages' \in [Topics -> Seq(Message)], nextSequence' >= nextSequence,
               \A t \in Topics :
                 /\ Ascending(messages'[t])
                 /\ \A i \in DOMAIN messages'[t] :
                      \E j \in DOMAIN messages[t] : messages'[t][i] = messages[t][j]
        PROVE  SequencesOrdered'
    <2>1. ASSUME NEW t \in Topics, NEW i \in DOMAIN messages'[t]
          PROVE  /\ messages'[t][i].topic = t
                 /\ messages'[t][i].seq < nextSequence'
                 /\ \A u \in Topics \ {t} : \A j \in DOMAIN messages'[u] :
                      messages'[t][i].seq # messages'[u][j].seq
      <3>1. PICK k \in DOMAIN messages[t] : messages'[t][i] = messages[t][k]
        BY <1>0
      <3>2. messages[t][k] \in Message
        BY ElementOfSeq, LenProperties DEF TypeOK
      <3>3. messages[t][k].topic = t /\ messages[t][k].seq < nextSequence
        BY DEF SequencesOrdered
      <3>4. messages[t][k].seq < nextSequence'
        <4>1. nextSequence \in Nat /\ nextSequence' \in Nat
          BY TypeStep DEF TypeOK
        <4>2. messages[t][k].seq \in Nat
          BY <3>2 DEF Message
        <4>. QED BY <1>0, <3>3, <4>1, <4>2
      <3>. QED BY <1>0, <3>1, <3>3, <3>4 DEF SequencesOrdered
    <2>. QED BY <1>0, <2>1 DEF SequencesOrdered, Ascending
  <1>1. ASSUME NEW t \in Topics, NEW b \in Payloads, Store(t, b)
        PROVE  SequencesOrdered'
    <2> DEFINE m == Stamped(t, b)
               q == Append(Pruned(messages[t]), m)
    <2>1. PICK evicted \in EvictedFor(t) :
            messages' = [u \in Topics |-> IF u = t THEN q
                                          ELSE IF u \in evicted THEN <<>>
                                          ELSE messages[u]]
      BY <1>1 DEF Store
    <2>2. m.seq = nextSequence /\ m.topic = t /\ m \in Message
      BY StampedMessage
    <2>3. /\ \A i \in DOMAIN q :
               q[i] = m \/ \E j \in DOMAIN messages[t] : q[i] = messages[t][j]
          /\ Ascending(messages[t])
               /\ (\A i \in DOMAIN messages[t] : messages[t][i].seq < nextSequence)
               => Ascending(q)
      BY StoredQueue
    <2>4. Ascending(q)
      BY <2>3 DEF SequencesOrdered
    <2>5. nextSequence' = nextSequence + 1 /\ nextSequence \in Nat
      BY <1>1 DEF Store, TypeOK
    <2>. HIDE DEF m, q
    <2>6. \A u \in Topics : Ascending(messages'[u])
      BY <2>1, <2>4 DEF SequencesOrdered, Ascending
    \* Where a message of the new state comes from.
    <2>7. ASSUME NEW u \in Topics, NEW i \in DOMAIN messages'[u]
          PROVE  \/ u = t /\ messages'[u][i] = m
                 \/ \E j \in DOMAIN messages[u] : messages'[u][i] = messages[u][j]
      BY <2>1, <2>3
    <2>8. ASSUME NEW u \in Topics, NEW j \in DOMAIN messages[u]
          PROVE  /\ messages[u][j].seq \in Nat
                 /\ messages[u][j].seq < nextSequence /\ messages[u][j].topic = u
      <3>1. messages[u][j] \in Message
        BY ElementOfSeq, LenProperties DEF TypeOK
      <3>. QED BY <3>1 DEF Message, SequencesOrdered
    <2>9. ASSUME NEW u \in Topics, NEW i \in DOMAIN messages'[u]
          PROVE  messages'[u][i].topic = u /\ messages'[u][i].seq < nextSequence'
      BY <2>2, <2>5, <2>7, <2>8
    <2>10. ASSUME NEW u \in Topics, NEW i \in DOMAIN messages'[u],
                  NEW v \in Topics \ {u}, NEW j \in DOMAIN messages'[v]
           PROVE  messages'[u][i].seq # messages'[v][j].seq
      <3>1. CASE u = t /\ messages'[u][i] = m
        BY <2>2, <2>5, <2>7, <2>8, <3>1
      <3>2. CASE v = t /\ messages'[v][j] = m
        BY <2>2, <2>5, <2>7, <2>8, <3>2
      <3>3. CASE /\ \E k \in DOMAIN messages[u] : messages'[u][i] = messages[u][k]
                 /\ \E k \in DOMAIN messages[v] : messages'[v][j] = messages[v][k]
        BY <3>3 DEF SequencesOrdered
      <3>. QED BY <2>7, <3>1, <3>2, <3>3
    <2>. QED BY <2>6, <2>9, <2>10 DEF SequencesOrdered, Ascending
  <1>2. ASSUME NEW gone, Forget(gone) PROVE SequencesOrdered'
    BY <1>0, <1>2, TypeStep, EmptySeq DEF Forget, SequencesOrdered, Ascending, TypeOK
  <1>3. ASSUME NEW k \in Streams, NEW n \in 1..MaxSequence, DeleteMessage(k, n)
        PROVE  SequencesOrdered'
    <2>1. PICK t \in topics : \E i \in DOMAIN messages[t] :
            /\ messages' = [messages EXCEPT ![t] = RemoveAt(messages[t], i)]
            /\ nextSequence' = nextSequence
      BY <1>3 DEF DeleteMessage
    <2>2. PICK i \in DOMAIN messages[t] :
            /\ messages' = [messages EXCEPT ![t] = RemoveAt(messages[t], i)]
            /\ nextSequence' = nextSequence
      BY <2>1
    <2>3. t \in Topics /\ messages[t] \in Seq(Message) /\ messages \in [Topics -> Seq(Message)]
      BY DEF TypeOK
    <2> DEFINE r == RemoveAt(messages[t], i)
    <2>4. /\ r \in Seq(Message)
          /\ \A j \in DOMAIN r : \E l \in DOMAIN messages[t] : r[j] = messages[t][l]
          /\ Ascending(messages[t]) => Ascending(r)
      BY <2>3, RemoveFromQueue
    <2>. HIDE DEF r
    <2>5. messages' = [messages EXCEPT ![t] = r]
      BY <2>2 DEF r
    <2>6. \A u \in Topics : /\ Ascending(messages'[u])
                            /\ \A j \in DOMAIN messages'[u] :
                                 \E l \in DOMAIN messages[u] : messages'[u][j] = messages[u][l]
      BY <2>3, <2>4, <2>5 DEF SequencesOrdered
    <2>. QED BY <1>0, <2>2, <2>3, <2>4, <2>5, <2>6 DEF TypeOK
  <1>4. CASE UNCHANGED <<messages, nextSequence>>
    BY <1>4 DEF SequencesOrdered, Ascending
  <1>. QED
    BY <1>1, <1>2, <1>3, <1>4
    DEF Next, WipeStream, WipeAll, Tick, Subscribe, Receive, Unsubscribe, vars,
        storage, subscriptions

\* Sequences are unique and in storage order, whatever operations interleave and
\* whatever the limits are.
THEOREM SequencesStayOrdered == Spec => []SequencesOrdered
  <1>1. Init => SequencesOrdered
    BY DEF Init, SequencesOrdered, Ascending
  <1>2. TypeOK /\ SequencesOrdered /\ [Next]_vars => TypeOK' /\ SequencesOrdered'
    BY TypeStep, OrderStep
  <1>. QED BY <1>1, <1>2, TypeInit, PTL DEF Spec

-----------------------------------------------------------------------------
(* The subscription boundary.                                               *)

LEMMA BoundaryStep ==
  TypeOK /\ SubscriptionBoundary /\ [Next]_vars => SubscriptionBoundary'
  <1>. SUFFICES ASSUME TypeOK, SubscriptionBoundary, [Next]_vars
                PROVE  SubscriptionBoundary'
    OBVIOUS
  <1>0. ASSUME NEW s \in Subscribers
        PROVE  /\ channel[s] \in Seq(Message) /\ Len(channel[s]) \in Nat
               /\ historyEnd[s] \in Nat /\ nextSequence \in Nat \ {0}
               /\ \A i \in DOMAIN channel[s] : channel[s][i] \in Message
    BY ElementOfSeq, LenProperties DEF TypeOK
  <1>1. ASSUME NEW t \in Topics, NEW b \in Payloads, Store(t, b)
        PROVE  SubscriptionBoundary'
    <2> DEFINE m == Stamped(t, b)
    <2>1. m \in Message /\ m.seq = nextSequence
      BY StampedMessage
    <2>2. /\ channel' = [s \in Subscribers |-> Sent(s, m)]
          /\ nextSequence' = nextSequence + 1
          /\ UNCHANGED <<pattern, historyEnd>>
      BY <1>1 DEF Store
    <2>. HIDE DEF m
    <2>3. ASSUME NEW s \in Subscribers
          PROVE  /\ historyEnd'[s] < nextSequence'
                 /\ Len(channel'[s]) <= ChannelCapacity
                 /\ Ascending(channel'[s])
                 /\ \A i \in DOMAIN channel'[s] :
                      /\ pattern'[s] # {}
                      /\ historyEnd'[s] < channel'[s][i].seq
                      /\ channel'[s][i].seq < nextSequence'
      <3>1. \A i \in DOMAIN channel[s] : channel[s][i].seq < m.seq
        BY <2>1 DEF SubscriptionBoundary
      <3>2. /\ Len(Sent(s, m)) <= ChannelCapacity
            /\ Ascending(Sent(s, m))
            /\ \A i \in DOMAIN Sent(s, m) :
                 /\ pattern[s] # {}
                 /\ \/ Sent(s, m)[i] = m
                    \/ \E j \in DOMAIN channel[s] : Sent(s, m)[i] = channel[s][j]
        BY <2>1, <3>1, SentQueue DEF SubscriptionBoundary
      <3>3. historyEnd[s] < nextSequence
        BY DEF SubscriptionBoundary
      <3>4. ASSUME NEW i \in DOMAIN Sent(s, m)
            PROVE  historyEnd[s] < Sent(s, m)[i].seq /\ Sent(s, m)[i].seq < nextSequence + 1
        <4>1. CASE Sent(s, m)[i] = m
          BY <1>0, <2>1, <3>3, <4>1
        <4>2. CASE \E j \in DOMAIN channel[s] : Sent(s, m)[i] = channel[s][j]
          <5>1. PICK j \in DOMAIN channel[s] : Sent(s, m)[i] = channel[s][j]
            BY <4>2
          <5>2. channel[s][j].seq \in Nat
            BY <1>0 DEF Message
          <5>. QED BY <1>0, <5>1, <5>2 DEF SubscriptionBoundary
        <4>. QED BY <3>2, <4>1, <4>2
      <3>5. historyEnd[s] < nextSequence + 1
        BY <1>0, <3>3
      <3>. QED BY <2>2, <3>2, <3>4, <3>5
    <2>. QED BY <2>3 DEF SubscriptionBoundary, Ascending
  <1>2. ASSUME NEW s \in Subscribers, NEW p \in Patterns, Subscribe(s, p)
        PROVE  SubscriptionBoundary'
    <2>1. /\ historyEnd' = [historyEnd EXCEPT ![s] = nextSequence - 1]
          /\ channel' = [channel EXCEPT ![s] = <<>>]
          /\ pattern' = [pattern EXCEPT ![s] = p]
          /\ nextSequence' = nextSequence
      BY <1>2 DEF Subscribe, storage
    <2>2. nextSequence \in Nat \ {0} /\ ChannelCapacity \in Nat
      BY LimitsAssumption DEF TypeOK
    <2>. QED
      BY <2>1, <2>2, EmptySeq DEF SubscriptionBoundary, TypeOK, Ascending
  <1>3. ASSUME NEW s \in Subscribers, Receive(s) PROVE SubscriptionBoundary'
    <2> DEFINE r == Tail(channel[s])
    <2>1. channel[s] # <<>> /\ channel' = [channel EXCEPT ![s] = r]
          /\ UNCHANGED <<nextSequence, pattern, historyEnd>>
      BY <1>3 DEF Receive, storage
    <2>2. /\ Len(r) = Len(channel[s]) - 1
          /\ \A i \in DOMAIN r : i + 1 \in DOMAIN channel[s] /\ r[i] = channel[s][i + 1]
          /\ Ascending(channel[s]) => Ascending(r)
      BY <1>0, <2>1, TailOfQueue
    <2>. HIDE DEF r
    <2>3. Len(r) <= ChannelCapacity
      BY <1>0, <2>2, LimitsAssumption DEF SubscriptionBoundary
    <2>. QED BY <2>1, <2>2, <2>3 DEF SubscriptionBoundary, TypeOK, Ascending
  <1>4. ASSUME NEW s \in Subscribers, Unsubscribe(s) PROVE SubscriptionBoundary'
    <2>1. /\ historyEnd' = [historyEnd EXCEPT ![s] = 0]
          /\ channel' = [channel EXCEPT ![s] = <<>>]
          /\ pattern' = [pattern EXCEPT ![s] = {}]
          /\ nextSequence' = nextSequence
      BY <1>4 DEF Unsubscribe, storage
    <2>2. nextSequence \in Nat \ {0} /\ ChannelCapacity \in Nat
      BY LimitsAssumption DEF TypeOK
    <2>. QED
      BY <2>1, <2>2, EmptySeq DEF SubscriptionBoundary, TypeOK, Ascending
  <1>5. CASE UNCHANGED <<nextSequence, subscriptions>>
    BY <1>5 DEF SubscriptionBoundary, Ascending, subscriptions
  <1>. QED
    BY <1>1, <1>2, <1>3, <1>4, <1>5
    DEF Next, WipeStream, WipeAll, Forget, DeleteMessage, Tick, vars, storage,
        subscriptions

\* Whatever is published, wiped or received meanwhile, a subscription only ever
\* holds messages above the boundary it was given, in order, and no more than
\* its channel has room for.
THEOREM BoundaryHolds == Spec => []SubscriptionBoundary
  <1>1. Init => SubscriptionBoundary
    BY EmptySeq, LimitsAssumption DEF Init, SubscriptionBoundary, Ascending
  <1>2. TypeOK /\ SubscriptionBoundary /\ [Next]_vars => TypeOK' /\ SubscriptionBoundary'
    BY TypeStep, BoundaryStep
  <1>. QED BY <1>1, <1>2, TypeInit, PTL DEF Spec

-----------------------------------------------------------------------------
(* Bounded memory.                                                          *)

\* At most one topic goes for a new one, and only when there is no room left.
LEMMA TopicsBounded ==
  ASSUME TypeOK, Cardinality(topics) <= IF MaxTopics = 0 THEN 1 ELSE MaxTopics,
         NEW t \in Topics, NEW evicted \in EvictedFor(t)
  PROVE  Cardinality((topics \ evicted) \cup {t})
           <= IF MaxTopics = 0 THEN 1 ELSE MaxTopics
  <1>1. IsFiniteSet(topics) /\ Cardinality(topics) \in Nat /\ MaxTopics \in Nat
    BY InputsAssumption, LimitsAssumption, FS_Subset, FS_CardinalityType DEF TypeOK
  <1>2. CASE t \in topics
    <2>1. (topics \ evicted) \cup {t} = topics
      BY <1>2 DEF EvictedFor
    <2>. QED BY <2>1
  <1>3. CASE t \notin topics /\ topics = {}
    <2>1. (topics \ evicted) \cup {t} = {t}
      BY <1>3
    <2>2. Cardinality({t}) = 1
      BY FS_Singleton
    <2>. QED BY <1>1, <2>1, <2>2
  <1>4. CASE t \notin topics /\ topics # {} /\ Cardinality(topics) < MaxTopics
    <2>1. (topics \ evicted) \cup {t} = topics \cup {t}
      BY <1>4 DEF EvictedFor
    <2>2. Cardinality(topics \cup {t}) = Cardinality(topics) + 1
      BY <1>1, <1>4, FS_AddElement
    <2>. QED BY <1>1, <1>4, <2>1, <2>2
  <1>5. CASE t \notin topics /\ topics # {} /\ ~(Cardinality(topics) < MaxTopics)
    <2>1. PICK old \in topics : evicted = {old}
      BY <1>5 DEF EvictedFor, Evictable
    <2>2. /\ IsFiniteSet(topics \ {old})
          /\ Cardinality(topics \ {old}) = Cardinality(topics) - 1
      BY <1>1, FS_RemoveElement
    <2>3. Cardinality((topics \ {old}) \cup {t}) = Cardinality(topics \ {old}) + 1
      BY <1>5, <2>2, FS_AddElement
    <2>. QED BY <1>1, <2>1, <2>2, <2>3
  <1>. QED BY <1>2, <1>3, <1>4, <1>5

LEMMA RetentionStep ==
  TypeOK /\ RetentionBounded /\ [Next]_vars => RetentionBounded'
  <1>. SUFFICES ASSUME TypeOK, RetentionBounded, [Next]_vars PROVE RetentionBounded'
    OBVIOUS
  <1>0. ASSUME NEW t \in Topics
        PROVE  messages[t] \in Seq(Message) /\ Len(messages[t]) \in Nat
    BY LenProperties DEF TypeOK
  <1>1. ASSUME NEW t \in Topics, NEW b \in Payloads, Store(t, b)
        PROVE  RetentionBounded'
    <2> DEFINE q == Append(Pruned(messages[t]), Stamped(t, b))
    <2>1. PICK evicted \in EvictedFor(t) :
            /\ topics' = (topics \ evicted) \cup {t}
            /\ messages' = [u \in Topics |-> IF u = t THEN q
                                             ELSE IF u \in evicted THEN <<>>
                                             ELSE messages[u]]
      BY <1>1 DEF Store
    <2>2. Cardinality(topics') <= IF MaxTopics = 0 THEN 1 ELSE MaxTopics
      BY <2>1, TopicsBounded DEF RetentionBounded
    <2>3. Len(q) <= IF MaxHistory = 0 THEN 1 ELSE MaxHistory
      <3>1. Len(q) = Len(Pruned(messages[t])) + 1
        BY StoredQueue
      <3>2. /\ Pruned(messages[t]) \in Seq(Message)
            /\ Len(Pruned(messages[t])) <= Len(messages[t])
            /\ Len(messages[t]) >= MaxHistory /\ messages[t] # <<>>
                 => Len(Pruned(messages[t])) = Len(messages[t]) - 1
        BY <1>0, PrunedQueue
      <3>3. Len(Pruned(messages[t])) \in Nat /\ MaxHistory \in Nat
        BY <3>2, LenProperties, LimitsAssumption
      <3>4. Len(messages[t]) <= IF MaxHistory = 0 THEN 1 ELSE MaxHistory
        BY DEF RetentionBounded
      <3>5. CASE messages[t] = <<>>
        BY <1>0, <3>1, <3>2, <3>3, <3>5, EmptySeq
      <3>6. CASE messages[t] # <<>>
        BY <1>0, <3>1, <3>2, <3>3, <3>4, <3>6
      <3>. QED BY <3>5, <3>6
    <2>. HIDE DEF q
    <2>4. \A u \in Topics : Len(messages'[u]) <= IF MaxHistory = 0 THEN 1 ELSE MaxHistory
      BY <2>1, <2>3, EmptySeq, LimitsAssumption DEF RetentionBounded
    <2>5. \A u \in Topics \ topics' : messages'[u] = <<>>
      BY <2>1 DEF RetentionBounded
    <2>. QED BY <2>2, <2>4, <2>5 DEF RetentionBounded
  <1>2. ASSUME NEW gone, Forget(gone) PROVE RetentionBounded'
    <2>1. topics' = topics \ gone
          /\ messages' = [t \in Topics |-> IF t \in gone THEN <<>> ELSE messages[t]]
      BY <1>2 DEF Forget
    <2>2. /\ IsFiniteSet(topics) /\ Cardinality(topics) \in Nat /\ MaxTopics \in Nat
          /\ Cardinality(topics \ gone) \in Nat
          /\ Cardinality(topics \ gone) <= Cardinality(topics)
      BY InputsAssumption, LimitsAssumption, FS_Subset, FS_CardinalityType DEF TypeOK
    <2>3. Cardinality(topics') <= IF MaxTopics = 0 THEN 1 ELSE MaxTopics
      BY <2>1, <2>2 DEF RetentionBounded
    <2>4. \A t \in Topics : Len(messages'[t]) <= IF MaxHistory = 0 THEN 1 ELSE MaxHistory
      BY <2>1, EmptySeq, LimitsAssumption DEF RetentionBounded
    <2>5. \A t \in Topics \ topics' : messages'[t] = <<>>
      BY <2>1 DEF RetentionBounded
    <2>. QED BY <2>3, <2>4, <2>5 DEF RetentionBounded
  <1>3. ASSUME NEW k \in Streams, NEW n \in 1..MaxSequence, DeleteMessage(k, n)
        PROVE  RetentionBounded'
    <2>1. PICK t \in topics : \E i \in DOMAIN messages[t] :
            /\ messages' = [messages EXCEPT ![t] = RemoveAt(messages[t], i)]
            /\ topics' = topics
      BY <1>3 DEF DeleteMessage
    <2>2. PICK i \in DOMAIN messages[t] :
            /\ messages' = [messages EXCEPT ![t] = RemoveAt(messages[t], i)]
            /\ topics' = topics
      BY <2>1
    <2>3. t \in Topics /\ messages \in [Topics -> Seq(Message)]
      BY DEF TypeOK
    <2>4. Len(RemoveAt(messages[t], i)) = Len(messages[t]) - 1
      BY <1>0, <2>3, RemoveFromQueue
    <2>. QED
      BY <1>0, <2>2, <2>3, <2>4, LimitsAssumption DEF RetentionBounded
  <1>4. CASE UNCHANGED <<topics, messages>>
    BY <1>4 DEF RetentionBounded
  <1>. QED
    BY <1>1, <1>2, <1>3, <1>4
    DEF Next, WipeStream, WipeAll, Tick, Subscribe, Receive, Unsubscribe, vars,
        storage, subscriptions

\* No sequence of publications, deletions and wipes makes the store outgrow its
\* limits, for any limits, zero included.
THEOREM MemoryBounded == Spec => []RetentionBounded
  <1>1. Init => RetentionBounded
    BY EmptySeq, FS_EmptySet, LimitsAssumption DEF Init, RetentionBounded
  <1>2. TypeOK /\ RetentionBounded /\ [Next]_vars => TypeOK' /\ RetentionBounded'
    BY TypeStep, RetentionStep
  <1>. QED BY <1>1, <1>2, TypeInit, PTL DEF Spec

-----------------------------------------------------------------------------
(* Reading history back.                                                    *)

LEMMA StoredMessages ==
  ASSUME TypeOK
  PROVE  /\ Stored \in SUBSET Message
         /\ \A m \in Stored : m.seq \in Nat \ {0} /\ m.time \in Nat
         /\ \A t \in topics : \A i \in DOMAIN messages[t] : messages[t][i] \in Stored
         /\ \A m \in Stored : \E t \in topics : \E i \in DOMAIN messages[t] : messages[t][i] = m
  <1>1. \A t \in topics : \A i \in DOMAIN messages[t] : messages[t][i] \in Message
    BY ElementOfSeq, LenProperties DEF TypeOK
  <1>2. \A m : m \in Stored <=> \E t \in topics : \E i \in DOMAIN messages[t] : messages[t][i] = m
    BY DEF Stored, ToSet
  <1>3. Stored \in SUBSET Message
    BY <1>1, <1>2
  <1>. QED BY <1>2, <1>3 DEF Message

\* Storing keeps nothing but what there was, and the new message.
LEMMA StoreStored ==
  ASSUME TypeOK, RetentionBounded, NEW t \in Topics, NEW b \in Payloads, Store(t, b)
  PROVE  Stamped(t, b) \in Stored' /\ Stored' \subseteq Stored \cup {Stamped(t, b)}
  <1> DEFINE m == Stamped(t, b)
             p == Pruned(messages[t])
             q == Append(p, m)
  <1>1. PICK evicted \in EvictedFor(t) :
          /\ topics' = (topics \ evicted) \cup {t}
          /\ messages' = [u \in Topics |-> IF u = t THEN q
                                           ELSE IF u \in evicted THEN <<>>
                                           ELSE messages[u]]
    BY DEF Store
  <1>2. messages[t] \in Seq(Message) /\ m \in Message
    BY StampedMessage DEF TypeOK
  <1>3. p \in Seq(Message) /\ \A i \in DOMAIN p : \E j \in DOMAIN messages[t] : p[i] = messages[t][j]
    BY <1>2, PrunedQueue
  <1>. HIDE DEF m, p
  <1>4. /\ \A i \in DOMAIN q : q[i] = m \/ \E j \in DOMAIN messages[t] : q[i] = messages[t][j]
        /\ Len(p) + 1 \in DOMAIN q /\ q[Len(p) + 1] = m
    <2>1. Len(p) \in Nat /\ q \in Seq(Message) /\ Len(q) = Len(p) + 1 /\ q[Len(p) + 1] = m
      BY <1>2, <1>3, AppendProperties, LenProperties
    <2>2. Len(p) + 1 \in DOMAIN q
      BY <2>1, LenProperties
    <2>. QED BY <1>2, <1>3, <2>1, <2>2, AppendToQueue
  <1>. HIDE DEF q
  <1>5. \A x : x \in Stored' <=> \E u \in topics' : \E i \in DOMAIN messages'[u] : messages'[u][i] = x
    BY DEF Stored, ToSet
  <1>6. m \in Stored'
    BY <1>1, <1>4, <1>5
  <1>7. ASSUME NEW x \in Stored', x # m PROVE x \in Stored
    <2>1. PICK u \in topics' : \E i \in DOMAIN messages'[u] : messages'[u][i] = x
      BY <1>5
    <2>2. PICK i \in DOMAIN messages'[u] : messages'[u][i] = x
      BY <2>1
    <2>3. u \in Topics
      BY <1>1, <2>1 DEF TypeOK
    <2>4. CASE u = t
      <3>1. messages'[u] = q
        BY <1>1, <2>4
      <3>2. PICK j \in DOMAIN messages[t] : x = messages[t][j]
        BY <1>4, <1>7, <2>2, <3>1
      <3>3. t \in topics
        <4>1. ASSUME messages[t] = <<>> PROVE FALSE
          BY <3>2, <4>1
        <4>. QED BY <4>1 DEF RetentionBounded
      <3>. QED BY <3>2, <3>3, StoredMessages
    <2>5. CASE u # t
      <3>1. u \in topics /\ u \notin evicted
        BY <1>1, <2>1, <2>5
      <3>2. messages'[u] = messages[u]
        BY <1>1, <2>3, <2>5, <3>1
      <3>. QED BY <2>2, <3>1, <3>2, StoredMessages
    <2>. QED BY <2>4, <2>5
  <1>. QED BY <1>6, <1>7 DEF m

\* Administration stores nothing.
LEMMA ForgetStored ==
  ASSUME TypeOK, NEW gone, Forget(gone)
  PROVE  Stored' \subseteq Stored
  <1>1. /\ topics' = topics \ gone /\ topics \subseteq Topics
        /\ messages' = [t \in Topics |-> IF t \in gone THEN <<>> ELSE messages[t]]
    BY DEF Forget, TypeOK
  <1>2. \A u \in topics' : u \in topics /\ messages'[u] = messages[u]
    BY <1>1
  <1>. QED BY <1>2 DEF Stored

LEMMA DeleteStored ==
  ASSUME TypeOK, NEW k \in Streams, NEW n \in 1..MaxSequence, DeleteMessage(k, n)
  PROVE  Stored' \subseteq Stored
  <1>1. PICK t \in topics : \E i \in DOMAIN messages[t] :
          messages' = [messages EXCEPT ![t] = RemoveAt(messages[t], i)] /\ topics' = topics
    BY DEF DeleteMessage
  <1>2. PICK i \in DOMAIN messages[t] :
          messages' = [messages EXCEPT ![t] = RemoveAt(messages[t], i)] /\ topics' = topics
    BY <1>1
  <1>3. \A j \in DOMAIN RemoveAt(messages[t], i) :
          \E l \in DOMAIN messages[t] : RemoveAt(messages[t], i)[j] = messages[t][l]
    BY RemoveFromQueue DEF TypeOK
  <1>4. \A u \in topics : \A j \in DOMAIN messages'[u] :
          \E l \in DOMAIN messages[u] : messages'[u][j] = messages[u][l]
    BY <1>2, <1>3 DEF TypeOK
  <1>. QED BY <1>2, <1>4 DEF Stored, ToSet

\* Messages are stored in the order of their sequences, across topics, and none
\* in the future.
TimesFollow ==
  /\ \A m \in Stored : m.time <= clock
  /\ \A m, n \in Stored : m.seq <= n.seq => m.time <= n.time

LEMMA TimesStep ==
  /\ TypeOK /\ SequencesOrdered /\ RetentionBounded /\ TimesFollow
  /\ [Next]_vars
  => TimesFollow'
  <1>. SUFFICES ASSUME TypeOK, SequencesOrdered, RetentionBounded, TimesFollow, [Next]_vars
                PROVE  TimesFollow'
    OBVIOUS
  <1>0. /\ nextSequence \in Nat /\ clock \in Nat
        /\ \A m \in Stored : m.seq \in Nat /\ m.time \in Nat /\ m.seq < nextSequence
    BY StoredMessages DEF TypeOK, SequencesOrdered
  <1>1. ASSUME NEW t \in Topics, NEW b \in Payloads, Store(t, b) PROVE TimesFollow'
    <2>1. /\ Stamped(t, b).seq = nextSequence /\ Stamped(t, b).time = clock
          /\ Stored' \subseteq Stored \cup {Stamped(t, b)}
          /\ clock' = clock
      BY <1>1, StoreStored DEF Stamped, Store
    <2>2. ASSUME NEW m \in Stored' PROVE m.time <= clock' /\ m.time \in Nat
      BY <1>0, <2>1 DEF TimesFollow
    <2>3. ASSUME NEW m \in Stored', NEW n \in Stored', m.seq <= n.seq
          PROVE  m.time <= n.time
      <3>1. CASE n = Stamped(t, b)
        BY <2>1, <2>2, <3>1
      <3>2. CASE n # Stamped(t, b)
        <4>1. n \in Stored /\ m # Stamped(t, b)
          BY <1>0, <2>1, <2>3, <3>2
        <4>. QED BY <2>1, <2>3, <4>1 DEF TimesFollow
      <3>. QED BY <3>1, <3>2
    <2>. QED BY <2>2, <2>3 DEF TimesFollow
  <1>2. ASSUME Stored' \subseteq Stored, clock <= clock', clock' \in Nat PROVE TimesFollow'
    BY <1>0, <1>2 DEF TimesFollow
  <1>3. CASE Tick
    <2>1. UNCHANGED Stored /\ clock' = clock + 1
      BY <1>3 DEF Tick, storage, Stored
    <2>. QED BY <1>0, <1>2, <2>1
  <1>4. ASSUME NEW gone, Forget(gone) PROVE TimesFollow'
    <2>1. Stored' \subseteq Stored
      BY <1>4, ForgetStored
    <2>2. clock' = clock
      BY <1>4 DEF Forget
    <2>. QED BY <1>0, <1>2, <2>1, <2>2
  <1>5. ASSUME NEW k \in Streams, NEW n \in 1..MaxSequence, DeleteMessage(k, n)
        PROVE  TimesFollow'
    <2>1. Stored' \subseteq Stored
      BY <1>5, DeleteStored
    <2>2. clock' = clock
      BY <1>5 DEF DeleteMessage
    <2>. QED BY <1>0, <1>2, <2>1, <2>2
  <1>6. CASE UNCHANGED <<storage, clock>>
    <2>1. UNCHANGED <<Stored, clock>>
      BY <1>6 DEF storage, Stored
    <2>. QED BY <1>0, <1>2, <2>1
  <1>. QED
    BY <1>1, <1>3, <1>4, <1>5, <1>6
    DEF Next, WipeStream, WipeAll, Subscribe, Receive, Unsubscribe, vars, storage

LEMMA TimesInit == Init => TimesFollow
  BY DEF Init, TimesFollow, Stored

\* Everything the queries rely on.
HistoryInv == TypeOK /\ SequencesOrdered /\ RetentionBounded /\ TimesFollow

LEMMA HistoryInvariant == Spec => []HistoryInv
  <1>1. Init => HistoryInv
    <2>1. Init => SequencesOrdered
      BY DEF Init, SequencesOrdered, Ascending
    <2>2. Init => RetentionBounded
      BY EmptySeq, FS_EmptySet, LimitsAssumption DEF Init, RetentionBounded
    <2>. QED BY <2>1, <2>2, TypeInit, TimesInit DEF HistoryInv
  <1>2. HistoryInv /\ [Next]_vars => HistoryInv'
    BY TypeStep, OrderStep, RetentionStep, TimesStep DEF HistoryInv
  <1>. QED BY <1>1, <1>2, PTL DEF Spec

\* A sequence stands for one stored message, and they are finitely many.
LEMMA StoredNumbered ==
  ASSUME HistoryInv
  PROVE  /\ \A m, n \in Stored : m.seq = n.seq => m = n
         /\ \A m \in Stored : m.seq \in 1..(nextSequence - 1)
         /\ IsFiniteSet(Stored)
  <1>1. ASSUME NEW m \in Stored, NEW n \in Stored, m.seq = n.seq PROVE m = n
    <2>1. PICK t \in topics : \E i \in DOMAIN messages[t] : messages[t][i] = m
      BY StoredMessages DEF HistoryInv
    <2>2. PICK i \in DOMAIN messages[t] : messages[t][i] = m
      BY <2>1
    <2>3. PICK u \in topics : \E j \in DOMAIN messages[u] : messages[u][j] = n
      BY StoredMessages DEF HistoryInv
    <2>4. PICK j \in DOMAIN messages[u] : messages[u][j] = n
      BY <2>3
    <2>5. t \in Topics /\ u \in Topics
      BY DEF HistoryInv, TypeOK
    <2>6. t = u
      BY <1>1, <2>2, <2>4, <2>5 DEF HistoryInv, SequencesOrdered
    <2>7. i \in Nat /\ j \in Nat
      BY <2>5, <2>6, LenProperties DEF HistoryInv, TypeOK
    <2>8. m.seq \in Nat /\ n.seq \in Nat
      BY StoredMessages DEF HistoryInv
    <2>9. ~(i < j) /\ ~(j < i)
      BY <1>1, <2>2, <2>4, <2>5, <2>6, <2>8 DEF HistoryInv, SequencesOrdered, Ascending
    <2>. QED BY <2>2, <2>4, <2>6, <2>7, <2>9
  <1>2. ASSUME NEW m \in Stored PROVE m.seq \in 1..(nextSequence - 1)
    <2>1. PICK t \in topics : \E i \in DOMAIN messages[t] : messages[t][i] = m
      BY StoredMessages DEF HistoryInv
    <2>2. m.seq < nextSequence /\ nextSequence \in Nat /\ m.seq \in Nat \ {0}
      BY <2>1, StoredMessages DEF HistoryInv, SequencesOrdered, TypeOK
    <2>. QED BY <2>2
  <1>3. IsFiniteSet(Stored)
    <2> DEFINE f == [m \in Stored |-> m.seq]
    <2>1. f \in Injection(Stored, 1..(nextSequence - 1))
      BY <1>1, <1>2 DEF Injection, IsInjective
    <2>2. IsFiniteSet(1..(nextSequence - 1))
      BY FS_Interval DEF HistoryInv, TypeOK
    <2>. QED BY <2>1, <2>2, FS_Injection
  <1>. QED BY <1>1, <1>2, <1>3

\* The sequence that ends a replay at a date splits the stored history at that
\* date, whatever was published, deleted and evicted before.
THEOREM EndDatesSplitHistory == Spec => []DateEndSplitsHistory
  <1>1. HistoryInv => DateEndSplitsHistory
    <2>. SUFFICES ASSUME HistoryInv, NEW p \in Patterns, NEW at \in 0..clock
                  PROVE  Log!IsFirstAfter(FirstSequenceAfter(p, at), p, at, HistoryEnd)
      BY DEF DateEndSplitsHistory
    <2> DEFINE late == {x \in Matching(p) : x.time > at}
               later == {m.seq : m \in late}
    <2>0. /\ \A m \in Stored : m.seq \in Nat \ {0} /\ m.time \in Nat
          /\ Matching(p) \subseteq Stored /\ at \in Nat
      BY StoredMessages DEF HistoryInv, Matching, TypeOK
    <2>1. later \in SUBSET Nat
      BY <2>0
    <2>2. ASSUME NEW m \in Matching(p)
          PROVE  m.time <= at <=> (FirstSequenceAfter(p, at) = 0 \/ m.seq < FirstSequenceAfter(p, at))
      <3>1. CASE late = {}
        BY <2>0, <2>2, <3>1 DEF FirstSequenceAfter
      <3>2. CASE late # {}
        <4>1. later # {}
          BY <3>2
        <4>2. Min(later) \in later /\ \A n \in later : Min(later) <= n
          BY <2>1, <4>1, MinOfNaturals
        <4>3. FirstSequenceAfter(p, at) = Min(later)
          BY <3>2 DEF FirstSequenceAfter
        <4>4. PICK x \in late : x.seq = Min(later)
          BY <4>2
        <4>5. /\ x \in Stored /\ x.seq \in Nat \ {0} /\ x.time \in Nat /\ x.time > at
              /\ m \in Stored /\ m.seq \in Nat /\ m.time \in Nat
          BY <2>0, <2>2, <4>4
        <4>6. ASSUME m.time > at PROVE ~(m.seq < x.seq)
          <5>1. m \in late
            BY <2>2, <4>5, <4>6
          <5>2. m.seq \in later
            BY <5>1
          <5>3. Min(later) <= m.seq
            BY <4>2, <5>2
          <5>. QED BY <4>4, <4>5, <5>3
        <4>7. ASSUME ~(m.seq < x.seq) PROVE m.time > at
          <5>1. x.time <= m.time
            BY <4>5, <4>7 DEF HistoryInv, TimesFollow
          <5>. QED BY <2>0, <4>5, <5>1
        <4>. QED BY <2>0, <4>3, <4>4, <4>5, <4>6, <4>7
      <3>. QED BY <3>1, <3>2
    <2>. QED BY <2>2 DEF Log!IsFirstAfter, Log!Matching, Matching
  <1>. QED BY <1>1, HistoryInvariant, PTL

\* A batch request with a limit above zero returns a page, whatever its start
\* and end: the lower part of what is in range, cut where the next page starts.
\* (With a limit of zero the page is empty and announces more.)
THEOREM RepliesArePages ==
  ASSUME BatchSize # 0
  PROVE  Spec => []BatchesArePages
  <1>1. HistoryInv => BatchesArePages
    <2>. SUFFICES ASSUME HistoryInv, NEW p \in Patterns, NEW start \in Cursors,
                         NEW end \in 0..nextSequence
                  PROVE  LET b == GetMessagesBatch(p, start, end)
                         IN  Log!IsBatch(b.page, b.more, b.next, Stored, p, start, end)
      BY DEF BatchesArePages
    <2> DEFINE range == Ranged(p, start, end)
               page == {m \in range : Rank(range, m.seq) < BatchSize}
               more == Cardinality(range) > BatchSize
               seqs == {m.seq : m \in page}
               next == IF page = {} THEN 0 ELSE Max(seqs) + 1
               last == IF more THEN next - 1 ELSE end
    <2>0. /\ \A m \in Stored : m.seq \in Nat \ {0} /\ m.time \in Nat
          /\ Matching(p) \subseteq Stored
          /\ nextSequence \in Nat /\ end \in Nat /\ BatchSize \in Nat \ {0}
      BY StoredMessages, LimitsAssumption DEF HistoryInv, Matching, TypeOK
    <2>1. /\ start.value \in Nat
          /\ (start.kind = "sequence") \/ (start.kind = "date")
      BY <2>0 DEF Cursors, HistoryInv, TypeOK
    <2>2. \A m \in Stored : Starts(start, m) <=> Log!Starts(start, m)
      BY <2>0, <2>1 DEF Starts, Log!Starts
    <2>3. /\ range \subseteq Stored
          /\ \A m \in range : m \in Matching(p) /\ m.topic \in p /\ m.seq <= end
                              /\ m.seq \in Nat \ {0} /\ Log!Starts(start, m)
          /\ \A m \in Matching(p) :
               m.topic \in p /\ (m.seq <= end /\ Log!Starts(start, m) => m \in range)
      BY <2>0, <2>2 DEF Ranged, Matching
    <2>4. /\ IsFiniteSet(range)
          /\ \A x, y \in range : x.seq = y.seq => x = y
      BY <2>3, StoredNumbered, FS_Subset
    <2>5. GetMessagesBatch(p, start, end) = [page |-> page, more |-> more, next |-> next]
      BY DEF GetMessagesBatch, Rank
    <2>. HIDE DEF range
    <2>6. /\ range # {} => page # {}
          /\ \A m \in range : \A n \in page : m.seq <= n.seq => m \in page
          /\ ~more => page = range
          /\ more => page # range
      <3>1. Cardinality(range) \in Nat
        BY <2>4, FS_CardinalityType
      <3>2. \A x \in range : x.seq \in Nat
        BY <2>3
      <3>3. page = {m \in range : Rank(range, m.seq) < BatchSize}
        OBVIOUS
      <3>. HIDE DEF page
      <3>4. Cardinality(range) <= BatchSize => page = range
        BY <2>0, <2>4, <3>2, <3>3, FirstRecords
      <3>7. Cardinality(range) > BatchSize => page # range
        BY <2>0, <2>4, <3>2, <3>3, FirstRecords
      <3>5. range # {} => page # {}
        BY <2>0, <2>4, <3>2, <3>3, FirstRecords
      <3>6. \A m \in range : \A n \in page : m.seq <= n.seq => m \in page
        BY <2>0, <2>4, <3>2, <3>3, FirstRecords
      <3>. QED BY <2>0, <3>1, <3>4, <3>5, <3>6, <3>7 DEF more
    <2>7. page \subseteq range
      OBVIOUS
    <2>8. IsFiniteSet(page)
      BY <2>4, <2>7, FS_Subset
    <2>. HIDE DEF page, more
    <2>9. /\ seqs \in SUBSET Nat /\ IsFiniteSet(seqs) /\ (page # {} => seqs # {})
      BY <2>3, <2>7, <2>8, SequencesFinite
    <2>10. \A l : Log!InRange(Stored, p, start, l)
                    = {m \in Matching(p) : Log!Starts(start, m) /\ m.seq <= l}
      BY DEF Log!InRange, Matching
    <2>11. Log!Eligible(p, start, last) = Log!InRange(Stored, p, start, last)
      BY DEF Log!Eligible
    <2>12. Log!Matching(p) = Matching(p)
      BY DEF Log!Matching, Matching
    <2>13. SUFFICES
             /\ Log!InRange(Stored, p, start, last) \subseteq page
             /\ page \subseteq Log!InRange(Stored, p, start, last)
             /\ more => /\ next > 1 /\ next <= end
                        /\ start.kind = "sequence" => next > start.value
                        /\ \A m \in Matching(p) : m.seq >= next => Log!Starts(start, m)
      <3>1. /\ GetMessagesBatch(p, start, end).page = page
            /\ GetMessagesBatch(p, start, end).more = more
            /\ GetMessagesBatch(p, start, end).next = next
        BY <2>5
      <3>. QED BY <2>11, <2>12, <3>1 DEF Log!IsBatch
    <2>14. CASE ~more
      BY <2>3, <2>6, <2>10, <2>14
    <2>15. CASE more
      <3>1. page # {}
        <4>1. range # {}
          BY <2>6, <2>7, <2>15
        <4>. QED BY <2>6, <4>1
      <3>2. Max(seqs) \in seqs /\ \A n \in seqs : Max(seqs) >= n
        BY <2>9, <3>1, MaxOfNaturals
      <3>3. PICK z \in page : z.seq = Max(seqs)
        BY <3>2
      <3>4. \A m \in page : m.seq <= z.seq
        BY <2>3, <2>7, <3>2, <3>3
      <3>5. next = z.seq + 1 /\ last = z.seq
        <4>1. z.seq \in Nat
          BY <2>3, <2>7
        <4>2. next = z.seq + 1
          BY <3>1, <3>3
        <4>. QED BY <2>15, <4>1, <4>2
      <3>6. /\ z \in range /\ z \in Stored /\ z.seq \in Nat \ {0} /\ z.seq <= end
            /\ Log!Starts(start, z)
        BY <2>3, <2>7
      <3>. HIDE DEF next, last, seqs
      <3>7. Log!InRange(Stored, p, start, last) \subseteq page
        <4>1. ASSUME NEW m \in Log!InRange(Stored, p, start, last) PROVE m \in page
          <5>1. m \in Matching(p) /\ Log!Starts(start, m) /\ m.seq <= z.seq
            BY <2>10, <3>5
          <5>2. m.seq \in Nat /\ m.seq <= end
            BY <2>0, <3>6, <5>1
          <5>3. m \in range
            BY <2>3, <5>1, <5>2
          <5>. QED BY <2>6, <5>1, <5>3
        <4>. QED BY <4>1
      <3>8. page \subseteq Log!InRange(Stored, p, start, last)
        BY <2>3, <2>7, <2>10, <3>4, <3>5
      <3>9. z.seq < end
        <4>1. PICK x \in range : x \notin page
          BY <2>6, <2>7, <2>15
        <4>2. x.seq \in Nat /\ x.seq <= end /\ ~(x.seq <= z.seq)
          BY <2>3, <2>6, <4>1
        <4>. QED BY <2>0, <3>6, <4>2
      <3>10. start.kind = "sequence" => z.seq >= start.value
        BY <3>6 DEF Log!Starts
      <3>11. ASSUME NEW m \in Matching(p), m.seq >= next PROVE Log!Starts(start, m)
        <4>1. m \in Stored /\ m.seq \in Nat /\ m.time \in Nat /\ z.seq <= m.seq
          BY <2>0, <3>5, <3>6, <3>11
        <4>2. CASE start.kind = "sequence"
          BY <2>1, <3>6, <3>10, <4>1, <4>2 DEF Log!Starts
        <4>3. CASE start.kind = "date"
          <5>1. z.time <= m.time
            BY <3>6, <4>1 DEF HistoryInv, TimesFollow
          <5>2. z.time >= start.value /\ z.time \in Nat
            BY <2>0, <3>6, <4>3 DEF Log!Starts
          <5>. QED BY <2>1, <4>1, <4>3, <5>1, <5>2 DEF Log!Starts
        <4>. QED BY <2>1, <4>2, <4>3
      <3>12. next > 1 /\ next <= end /\ (start.kind = "sequence" => next > start.value)
        BY <2>0, <2>1, <3>5, <3>6, <3>9, <3>10
      <3>. QED BY <3>7, <3>8, <3>11, <3>12
    <2>. QED BY <2>14, <2>15
  <1>. QED BY <1>1, HistoryInvariant, PTL

-----------------------------------------------------------------------------
(* The backend is a notification log.                                       *)

\* What the channel of a subscription holds for it, and the queues of the log.
Held(s) == {m \in ToSet(channel[s]) : m.topic \in pattern[s]}
Queues == [s \in Subscribers |-> BySequence(Held(s))]

LEMMA LogOrder == \A S : Log!BySequence(S) = BySequence(S)
  <1>1. \A S : Log!Cardinality(S) = Cardinality(S)
    BY DEF Log!Cardinality, Cardinality
  <1>2. \A S, n : Log!Rank(S, n) = Rank(S, n)
    BY <1>1 DEF Log!Rank, Rank
  <1>. QED BY <1>1, <1>2 DEF Log!BySequence, BySequence

LEMMA HeldNumbered ==
  ASSUME TypeOK, SubscriptionBoundary, NEW s \in Subscribers
  PROVE  Numbered(Held(s))
  <1>1. channel[s] \in Seq(Message) /\ \A m \in Message : m.seq \in Nat
    BY DEF TypeOK, Message
  <1>2. Numbered(ToSet(channel[s]))
    BY <1>1, QueueNumbered DEF SubscriptionBoundary, Ascending
  <1>. QED BY <1>2, NumberedSubset DEF Held

LEMMA QueuesHold ==
  ASSUME TypeOK, SubscriptionBoundary, NEW s \in Subscribers
  PROVE  /\ Queues[s] \in Seq(Message)
         /\ ToSet(Queues[s]) = Held(s)
  <1>1. Held(s) \subseteq Message
    BY ElementOfSeq, LenProperties DEF Held, ToSet, TypeOK
  <1>2. /\ BySequence(Held(s)) \in Seq(Held(s))
        /\ DOMAIN BySequence(Held(s)) = 1..Cardinality(Held(s))
        /\ \A i \in 1..Cardinality(Held(s)) : BySequence(Held(s))[i] \in Held(s)
        /\ \A m \in Held(s) : \E i \in 1..Cardinality(Held(s)) : BySequence(Held(s))[i] = m
    BY HeldNumbered, BySequenceOrders
  <1>3. BySequence(Held(s)) \in Seq(Message)
    BY <1>1, <1>2, SeqMonotonic
  <1>4. ToSet(BySequence(Held(s))) = Held(s)
    BY <1>2 DEF ToSet
  <1>. QED BY <1>3, <1>4 DEF Queues

\* Queues that keep a part of what they were offered are thinned.
LEMMA KeptQueues ==
  ASSUME NEW offered, \A s \in Subscribers : Held(s)' \subseteq ToSet(offered[s])
  PROVE  Queues' \in Log!ThinnedQueues(offered)
  <1>1. Queues' = [s \in Subscribers |-> BySequence(Held(s)')]
    BY DEF Queues
  <1>2. ASSUME NEW s \in Subscribers PROVE Queues'[s] \in Log!Thinned(offered[s])
    <2>1. Queues'[s] = Log!BySequence(Held(s)')
      BY <1>1, LogOrder
    <2>2. Log!ToSet(offered[s]) = ToSet(offered[s])
      BY DEF Log!ToSet, ToSet
    <2>. QED BY <2>1, <2>2 DEF Log!Thinned
  <1>3. Queues' \in [Subscribers -> UNION {Log!Thinned(offered[s]) : s \in Subscribers}]
    BY <1>1, <1>2
  <1>. QED BY <1>2, <1>3 DEF Log!ThinnedQueues

LEMMA StorePuts ==
  ASSUME HistoryInv, SubscriptionBoundary,
         NEW t \in Topics, NEW b \in Payloads, Store(t, b)
  PROVE  Log!Put(t, b)
  <1> DEFINE m == Stamped(t, b)
             offered == [s \in Subscribers |-> Log!Offer(s, m)]
  <1>1. /\ nextSequence <= MaxSequence /\ nextSequence' = nextSequence + 1
        /\ UNCHANGED <<clock, pattern, historyEnd>>
        /\ channel' = [s \in Subscribers |-> Sent(s, m)]
    BY DEF Store
  <1>2. \E kept \in SUBSET Stored : Stored' = kept \cup {m}
    <2>1. m \in Stored' /\ Stored' \subseteq Stored \cup {m}
      BY StoreStored DEF HistoryInv
    <2>2. Stored' = (Stored \cap Stored') \cup {m}
      BY <2>1
    <2>. QED BY <2>2
  <1>3. m \in Message
    BY StampedMessage DEF HistoryInv
  <1>4. ASSUME NEW s \in Subscribers PROVE Held(s)' \subseteq ToSet(offered[s])
    <2>1. Queues[s] \in Seq(Message) /\ ToSet(Queues[s]) = Held(s)
      BY QueuesHold DEF HistoryInv
    <2>2. channel[s] \in Seq(Message)
      BY DEF HistoryInv, TypeOK
    <2>3. channel'[s] = Sent(s, m) /\ pattern'[s] = pattern[s]
      BY <1>1
    <2>4. \A i \in DOMAIN Sent(s, m) : Sent(s, m)[i] = m \/ Sent(s, m)[i] \in ToSet(channel[s])
        <3>1. /\ Len(channel[s]) <= ChannelCapacity /\ Ascending(channel[s])
            /\ \A i \in DOMAIN channel[s] : channel[s][i].seq < m.seq
        BY DEF SubscriptionBoundary, Stamped
      <3>. QED BY <1>3, <3>1, SentQueue DEF HistoryInv, ToSet
    <2>5. offered[s] = IF m.topic \in pattern[s] THEN Append(Queues[s], m) ELSE Queues[s]
      BY DEF Log!Offer, Queues, Held
    <2>6. ToSet(Append(Queues[s], m)) = Held(s) \cup {m}
      <3>1. /\ Append(Queues[s], m) \in Seq(Message)
            /\ Len(Append(Queues[s], m)) = Len(Queues[s]) + 1
            /\ \A i \in 1..Len(Queues[s]) : Append(Queues[s], m)[i] = Queues[s][i]
            /\ Append(Queues[s], m)[Len(Queues[s]) + 1] = m
        BY <1>3, <2>1, AppendProperties
      <3>2. /\ DOMAIN Append(Queues[s], m) = 1..(Len(Queues[s]) + 1)
            /\ DOMAIN Queues[s] = 1..Len(Queues[s]) /\ Len(Queues[s]) \in Nat
        BY <2>1, <3>1, LenProperties
      <3>3. ToSet(Append(Queues[s], m)) = ToSet(Queues[s]) \cup {m}
        BY <3>1, <3>2 DEF ToSet
      <3>. QED BY <2>1, <3>3
    <2>7. ASSUME NEW x \in Held(s)' PROVE (x = m /\ m.topic \in pattern[s]) \/ x \in Held(s)
      BY <2>3, <2>4 DEF Held, ToSet
    <2>. QED BY <2>1, <2>5, <2>6, <2>7
  <1>5. Queues' \in Log!ThinnedQueues(offered)
    BY <1>4, KeptQueues
  <1>6. m = [seq |-> nextSequence, topic |-> t, time |-> clock, payload |-> b]
    BY DEF Stamped
  <1>. QED BY <1>1, <1>2, <1>5, <1>6 DEF Log!Put, Queues, Held

\* What is held for a subscription stays when its channel and pattern do.
LEMMA QueuesStay ==
  ASSUME UNCHANGED <<channel, pattern>>
  PROVE  UNCHANGED Queues
  BY DEF Queues, Held

LEMMA AdministrationForgets ==
  ASSUME TypeOK, SubscriptionBoundary, Stored' \subseteq Stored,
         UNCHANGED <<nextSequence, clock, pattern, historyEnd, channel>>
  PROVE  Log!Forget
  <1>1. \A s \in Subscribers : Held(s)' \subseteq ToSet(Queues[s])
    BY QueuesHold DEF Held
  <1>2. Queues' \in Log!ThinnedQueues(Queues)
    BY <1>1, KeptQueues
  <1>. QED BY <1>2 DEF Log!Forget, Queues, Held

LEMMA ReceiveYields ==
  ASSUME TypeOK, SubscriptionBoundary, NEW s \in Subscribers, Receive(s)
  PROVE  Log!Receive(s) \/ UNCHANGED Log!logVars
  <1> DEFINE q == channel[s]
             h == q[1]
  <1>1. q \in Seq(Message) /\ q # <<>> /\ \A x \in Message : x.seq \in Nat
    BY DEF TypeOK, Receive, Message
  <1>2. \A i, j \in DOMAIN q : i < j => q[i].seq < q[j].seq
    BY DEF SubscriptionBoundary, Ascending
  <1>3. /\ 1 \in DOMAIN q
        /\ ToSet(Tail(q)) = ToSet(q) \ {h}
        /\ \A x \in ToSet(q) : h.seq <= x.seq
    BY <1>1, <1>2, QueueShrinks
  <1>4. /\ channel' = [channel EXCEPT ![s] = Tail(q)]
        /\ UNCHANGED <<topics, messages, nextSequence, clock, pattern, historyEnd>>
    BY DEF Receive, storage
  <1>5. Held(s)' = Held(s) \ {h}
    <2>1. channel'[s] = Tail(q) /\ pattern'[s] = pattern[s]
      BY <1>4 DEF TypeOK
    <2>. QED BY <1>3, <2>1 DEF Held
  <1>6. \A u \in Subscribers \ {s} : Held(u)' = Held(u)
    BY <1>4 DEF Held, TypeOK
  <1>7. UNCHANGED <<Stored, nextSequence, clock, pattern, historyEnd>>
    BY <1>4 DEF Stored
  <1>8. CASE h.topic \in pattern[s]
    <2>1. h \in Held(s)
      BY <1>3, <1>8 DEF Held, ToSet
    <2>2. \A m \in Held(s) : h.seq <= m.seq
      BY <1>3 DEF Held
    <2>3. /\ BySequence(Held(s)) # <<>>
          /\ Tail(BySequence(Held(s))) = BySequence(Held(s) \ {h})
      BY <2>1, <2>2, HeldNumbered, BySequenceTail
    <2>4. Queues[s] # <<>> /\ Queues' = [Queues EXCEPT ![s] = Tail(Queues[s])]
      BY <1>5, <1>6, <2>3 DEF Queues
    <2>. QED BY <1>7, <2>4 DEF Log!Receive, Queues, Held
  <1>9. CASE h.topic \notin pattern[s]
    <2>1. \A u \in Subscribers : Held(u)' = Held(u)
      BY <1>5, <1>6, <1>9 DEF Held
    <2>2. UNCHANGED Queues
      BY <2>1 DEF Queues
    <2>. QED BY <1>7, <2>2 DEF Log!logVars, Queues, Held
  <1>. QED BY <1>8, <1>9

LEMMA SubscribeCuts ==
  ASSUME TypeOK, NEW s \in Subscribers, NEW p \in Patterns, Subscribe(s, p)
  PROVE  Log!Subscribe(s, p)
  <1>1. /\ pattern[s] = {}
        /\ pattern' = [pattern EXCEPT ![s] = p]
        /\ historyEnd' = [historyEnd EXCEPT ![s] = nextSequence - 1]
        /\ channel' = [channel EXCEPT ![s] = <<>>]
        /\ UNCHANGED <<topics, messages, nextSequence, clock>>
    BY DEF Subscribe, storage
  <1>2. Held(s)' = {}
    <2>1. channel'[s] = <<>>
      BY <1>1 DEF TypeOK
    <2>. QED BY <2>1, EmptySeq DEF Held, ToSet
  <1>3. \A u \in Subscribers \ {s} : Held(u)' = Held(u)
    BY <1>1 DEF Held, TypeOK
  <1>4. Queues' = [Queues EXCEPT ![s] = <<>>]
    BY <1>2, <1>3, BySequenceOfNone DEF Queues
  <1>5. Stored' = Stored
    BY <1>1 DEF Stored
  <1>. QED BY <1>1, <1>4, <1>5 DEF Log!Subscribe, Queues, Held

LEMMA UnsubscribeDrops ==
  ASSUME TypeOK, NEW s \in Subscribers, Unsubscribe(s)
  PROVE  Log!Unsubscribe(s)
  <1>1. /\ pattern[s] # {}
        /\ pattern' = [pattern EXCEPT ![s] = {}]
        /\ historyEnd' = [historyEnd EXCEPT ![s] = 0]
        /\ channel' = [channel EXCEPT ![s] = <<>>]
        /\ UNCHANGED <<topics, messages, nextSequence, clock>>
    BY DEF Unsubscribe, storage
  <1>2. Held(s)' = {}
    <2>1. channel'[s] = <<>>
      BY <1>1 DEF TypeOK
    <2>. QED BY <2>1, EmptySeq DEF Held, ToSet
  <1>3. \A u \in Subscribers \ {s} : Held(u)' = Held(u)
    BY <1>1 DEF Held, TypeOK
  <1>4. Queues' = [Queues EXCEPT ![s] = <<>>]
    BY <1>2, <1>3, BySequenceOfNone DEF Queues
  <1>5. Stored' = Stored
    BY <1>1 DEF Stored
  <1>. QED BY <1>1, <1>4, <1>5 DEF Log!Unsubscribe, Queues, Held

LEMMA TickTicks ==
  ASSUME Tick
  PROVE  Log!Tick
  <1>1. /\ clock < MaxClock /\ clock' = clock + 1
        /\ UNCHANGED <<topics, messages, nextSequence, pattern, historyEnd, channel>>
    BY DEF Tick, storage, subscriptions
  <1>2. Stored' = Stored /\ Queues' = Queues
    BY <1>1, QueuesStay DEF Stored
  <1>. QED BY <1>1, <1>2 DEF Log!Tick, Queues, Held

\* Every step of the backend is a step of the log or changes nothing of it.
LEMMA StepsOfLog ==
  HistoryInv /\ SubscriptionBoundary /\ [Next]_vars => [Log!LogNext]_(Log!logVars)
  <1>. SUFFICES ASSUME HistoryInv, SubscriptionBoundary, [Next]_vars
                PROVE  Log!LogNext \/ UNCHANGED Log!logVars
    OBVIOUS
  <1>0. TypeOK
    BY DEF HistoryInv
  <1>1. ASSUME NEW t \in Topics, NEW b \in Payloads, Store(t, b) PROVE Log!LogNext
    BY <1>1, StorePuts DEF Log!LogNext
  <1>2. CASE Tick
    BY <1>2, TickTicks DEF Log!LogNext
  <1>3. ASSUME NEW gone, Forget(gone) PROVE Log!LogNext
    <2>1. UNCHANGED <<nextSequence, clock, pattern, historyEnd, channel>>
      BY <1>3 DEF Forget, subscriptions
    <2>2. Stored' \subseteq Stored
      BY <1>0, <1>3, ForgetStored
    <2>. QED BY <1>0, <2>1, <2>2, AdministrationForgets DEF Log!LogNext
  <1>4. ASSUME NEW k \in Streams, NEW n \in 1..MaxSequence, DeleteMessage(k, n)
        PROVE  Log!LogNext
    <2>1. UNCHANGED <<nextSequence, clock, pattern, historyEnd, channel>>
      BY <1>4 DEF DeleteMessage, subscriptions
    <2>2. Stored' \subseteq Stored
      BY <1>0, <1>4, DeleteStored
    <2>. QED BY <1>0, <2>1, <2>2, AdministrationForgets DEF Log!LogNext
  <1>5. ASSUME NEW s \in Subscribers, NEW p \in Patterns, Subscribe(s, p)
        PROVE  Log!LogNext
    BY <1>0, <1>5, SubscribeCuts DEF Log!LogNext
  <1>6. ASSUME NEW s \in Subscribers, Receive(s)
        PROVE  Log!LogNext \/ UNCHANGED Log!logVars
    BY <1>0, <1>6, ReceiveYields DEF Log!LogNext
  <1>7. ASSUME NEW s \in Subscribers, Unsubscribe(s) PROVE Log!LogNext
    BY <1>0, <1>7, UnsubscribeDrops DEF Log!LogNext
  <1>8. CASE UNCHANGED vars
    <2>1. UNCHANGED <<Stored, Queues>>
      BY <1>8, QueuesStay DEF vars, Stored
    <2>. QED BY <1>8, <2>1 DEF vars, Log!logVars, Queues, Held
  <1>9. CASE \E k \in Streams : WipeStream(k)
    BY <1>3, <1>9 DEF WipeStream
  <1>10. CASE WipeAll
    BY <1>3, <1>10 DEF WipeAll
  <1>. QED
    BY <1>1, <1>2, <1>4, <1>5, <1>6, <1>7, <1>8, <1>9, <1>10 DEF Next

LEMMA LogStarts == Init => Log!LogInit
  <1>. SUFFICES ASSUME Init PROVE Log!LogInit
    OBVIOUS
  <1>1. \A s \in Subscribers : Held(s) = {}
    BY EmptySeq DEF Init, Held, ToSet
  <1>2. Queues = [s \in Subscribers |-> <<>>]
    BY <1>1, BySequenceOfNone DEF Queues
  <1>3. Stored = {}
    BY DEF Init, Stored
  <1>. QED BY <1>2, <1>3 DEF Init, Log!LogInit, Queues, Held

\* The in-memory backend keeps the promises of the log: it uses no sequence
\* twice and in storage order only, cuts every subscription out of history at
\* one point, and yields what was published, in that order, once, but for what
\* a lagging receiver loses.
THEOREM IsNotificationLog == Spec => ImplementsLog
  <1>1. Spec => [](HistoryInv /\ SubscriptionBoundary)
    BY HistoryInvariant, BoundaryHolds, PTL
  <1>. QED BY <1>1, LogStarts, StepsOfLog, PTL DEF Spec, ImplementsLog, Log!LogSpec
=============================================================================
