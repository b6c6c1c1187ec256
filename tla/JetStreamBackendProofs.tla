------------------------ MODULE JetStreamBackendProofs ------------------------
(***************************************************************************)
(* Proofs about JetStreamBackend, for any topics, patterns, subscriptions, *)
(* readers and limits.                                                     *)
(***************************************************************************)
EXTENDS JetStreamBackend, OrderLemmas, SequenceTheorems

-----------------------------------------------------------------------------
(* The steps, by what they change.                                          *)

\* Wipes, deletions and retention.
Purge ==
  \/ WipeStream
  \/ \E n \in 1..MaxSequence : DeleteMessage(n)
  \/ \E age \in 1..MaxClock : Expire(age)

ConsumerStep(s) ==
  \/ \E p \in Patterns : CreateConsumer(s, p) \/ AttemptFails(s, p)
  \/ OpenMessages(s) \/ Deliver(s) \/ Receive(s) \/ Unsubscribe(s)

ReaderStep(r) ==
  \/ \E p \in Patterns, start \in Starts, end \in 0..MaxSequence :
       StartBatch(r, p, start, end)
  \/ ReadInfo(r) \/ CreateReplayConsumer(r) \/ FetchNext(r) \/ EndBatch(r)
  \/ \E p \in Patterns, at \in 1..Horizon : StartFirstAfter(r, p, at)
  \/ CreateAfterConsumer(r) \/ FetchFirst(r) \/ RequestFails(r)

LEMMA PurgeDiscards ==
  ASSUME Purge
  PROVE  /\ messages' \subseteq messages
         /\ UNCHANGED <<nextSequence, clock, stored, cursor, consumer, reader>>
  BY DEF Purge, WipeStream, DeleteMessage, Expire, Discard

LEMMA NextSteps ==
  ASSUME Next
  PROVE  \/ \E t \in Topics, b \in Payloads : Store(t, b)
         \/ Tick
         \/ Purge
         \/ \E s \in Subscribers : ConsumerStep(s)
         \/ \E r \in Readers : ReaderStep(r)
  BY DEF Next, Purge, ConsumerStep, ReaderStep

-----------------------------------------------------------------------------
(* The types.                                                               *)

LEMMA LastSequenceType ==
  ASSUME TypeOK
  PROVE  LastSequence \in Nat /\ nextSequence \in Nat
  BY DEF TypeOK, LastSequence

\* The message a consumer sends or a fetch returns is one of those there are,
\* and none of them is older.
LEMMA OldestOf ==
  ASSUME NEW set \in SUBSET Message, set # {}
  PROVE  /\ Oldest(set) \in set
         /\ \A x \in set : Oldest(set).seq <= x.seq
  <1> DEFINE S == {m.seq : m \in set}
  <1>1. S \in SUBSET Nat /\ S # {}
    BY DEF Message
  <1>2. PICK n \in S : \A k \in S : n <= k
    BY <1>1, LeastNatural
  <1>3. \E m \in set : \A x \in set : m.seq <= x.seq
    BY <1>2
  <1>. QED BY <1>3 DEF Oldest

LEMMA PendingType ==
  ASSUME TypeOK, NEW s \in Subscribers
  PROVE  Pending(s) \in SUBSET Message
  BY DEF Pending, TypeOK

LEMMA AvailableType ==
  ASSUME TypeOK, NEW r \in Readers
  PROVE  Available(r) \in SUBSET Message
  BY DEF Available, TypeOK

LEMMA FromTimeType ==
  ASSUME TypeOK, NEW date
  PROVE  FromTime(date) \in Nat
  <1> DEFINE later == {m.seq : m \in {x \in messages : x.time >= date}}
  <1>1. later \in SUBSET Nat
    BY DEF TypeOK, Message
  <1>2. CASE later = {}
    BY <1>2, LastSequenceType DEF FromTime
  <1>3. CASE later # {}
    <2>1. Min(later) \in Nat
      BY <1>1, <1>3, MinOfNaturals
    <2>. QED BY <1>3, <2>1 DEF FromTime
  <1>. QED BY <1>2, <1>3

\* Storing a message keeps nothing but what there was, and the message.
LEMMA RetainedSubset ==
  ASSUME NEW kept, NEW m
  PROVE  Retained(kept, m) \subseteq kept \cup {m}
  BY DEF Retained

LEMMA NoRequestType == NoRequest \in Reader
  BY LimitsAssumption DEF NoRequest, Reader, Cursor

LEMMA AbsentType == Absent \in Consumer
  <1>1. <<>> \in Seq(Message)
    BY EmptySeq
  <1>. QED BY <1>1, LimitsAssumption DEF Absent, Consumer

LEMMA TypeInit == Init => TypeOK
  BY NoRequestType, AbsentType DEF Init, TypeOK

LEMMA SetConsumerType ==
  ASSUME TypeOK, NEW s \in Subscribers, NEW k \in Consumer, SetConsumer(s, k),
         cursor' \in [Subscribers -> Nat]
  PROVE  TypeOK'
  BY DEF TypeOK, SetConsumer, stream

LEMMA SetReaderType ==
  ASSUME TypeOK, NEW r \in Readers, NEW k \in Reader, SetReader(r, k)
  PROVE  TypeOK'
  BY DEF TypeOK, SetReader, stream

LEMMA StoreType ==
  ASSUME TypeOK, NEW t \in Topics, NEW b \in Payloads, Store(t, b)
  PROVE  TypeOK'
  <1> DEFINE m == [seq |-> nextSequence, topic |-> t, time |-> clock, payload |-> b]
  <1>1. m \in Message
    BY DEF TypeOK, Message
  <1>2. /\ nextSequence' = nextSequence + 1
        /\ messages' = Retained(messages, m)
        /\ stored' = stored \cup {m}
        /\ reader' = [r \in Readers |->
                        IF reader[r].phase \in {"idle", "done"} THEN reader[r]
                        ELSE [reader[r] EXCEPT !.known = @ \cup {m}]]
        /\ UNCHANGED <<clock, cursor, consumer>>
    BY DEF Store
  <1>. HIDE DEF m
  <1>3. messages' \in SUBSET Message /\ stored' \in SUBSET Message
    BY <1>1, <1>2, RetainedSubset DEF TypeOK
  <1>4. ASSUME NEW r \in Readers PROVE [reader[r] EXCEPT !.known = @ \cup {m}] \in Reader
    BY <1>1 DEF TypeOK, Reader
  <1>5. reader' \in [Readers -> Reader]
    BY <1>2, <1>4 DEF TypeOK
  <1>. QED BY <1>2, <1>3, <1>5 DEF TypeOK

LEMMA ConsumerStepType ==
  ASSUME TypeOK, NEW s \in Subscribers, ConsumerStep(s)
  PROVE  TypeOK'
  <1>0. consumer[s] \in Consumer
    BY DEF TypeOK
  <1>1. ASSUME NEW p \in Patterns, CreateConsumer(s, p) PROVE TypeOK'
    <2>1. [consumer[s] EXCEPT !.phase = "created", !.pattern = p,
                              !.historyEnd = LastSequence] \in Consumer
      BY <1>0, LastSequenceType DEF Consumer
    <2>2. cursor' \in [Subscribers -> Nat]
      BY <1>1, LastSequenceType DEF CreateConsumer, ConsumerName, TypeOK
    <2>. QED BY <1>1, <2>1, <2>2, SetConsumerType DEF CreateConsumer
  <1>2. ASSUME NEW p \in Patterns, AttemptFails(s, p) PROVE TypeOK'
    <2>1. consumer[s].attempt \in 1..MaxAttempts /\ MaxAttempts \in Nat
      BY <1>0, LimitsAssumption DEF Consumer
    <2>2. CASE consumer[s].attempt = MaxAttempts
      BY <1>2, <2>2, AbsentType, SetConsumerType DEF AttemptFails, TypeOK
    <2>3. CASE consumer[s].attempt # MaxAttempts
      <3> DEFINE k == [Absent EXCEPT !.phase = "retrying", !.pattern = p,
                                     !.attempt = consumer[s].attempt + 1]
      <3>1. consumer[s].attempt + 1 \in 1..MaxAttempts
        BY <2>1, <2>3
      <3>2. k \in Consumer
        BY <3>1, AbsentType DEF Consumer
      <3>3. SetConsumer(s, k) /\ cursor' = cursor
        BY <1>2, <2>3 DEF AttemptFails
      <3>. QED BY <3>2, <3>3, SetConsumerType DEF TypeOK
    <2>. QED BY <2>2, <2>3
  <1>3. ASSUME OpenMessages(s) PROVE TypeOK'
    <2>1. [consumer[s] EXCEPT !.phase = "open"] \in Consumer
      BY <1>0 DEF Consumer
    <2>. QED BY <1>3, <2>1, SetConsumerType DEF OpenMessages, TypeOK
  <1>4. ASSUME Deliver(s) PROVE TypeOK'
    <2> DEFINE m == Oldest(Pending(s))
    <2>1. m \in Message /\ m.seq \in Nat
      BY <1>4, OldestOf, PendingType DEF Deliver, Message
    <2>2. PICK arrived \in BOOLEAN :
            SetConsumer(s, [consumer[s] EXCEPT
              !.sent = @ \cup {m.seq},
              !.buffer = IF arrived THEN Append(@, m) ELSE @])
      BY <1>4 DEF Deliver
    <2>3. cursor' \in [Subscribers -> Nat]
      BY <1>4, <2>1 DEF Deliver, ConsumerName, TypeOK
    <2>. HIDE DEF m
    <2> DEFINE b == IF arrived THEN Append(consumer[s].buffer, m) ELSE consumer[s].buffer
    <2>4. b \in Seq(Message)
      BY <1>0, <2>1, AppendProperties DEF Consumer
    <2>5. SetConsumer(s, [consumer[s] EXCEPT !.sent = @ \cup {m.seq}, !.buffer = b])
      BY <2>2
    <2>. HIDE DEF b
    <2>6. [consumer[s] EXCEPT !.sent = @ \cup {m.seq}, !.buffer = b] \in Consumer
      BY <1>0, <2>1, <2>4 DEF Consumer
    <2>. QED BY <2>3, <2>5, <2>6, SetConsumerType
  <1>5. ASSUME Receive(s) PROVE TypeOK'
    <2>1. Tail(consumer[s].buffer) \in Seq(Message)
      BY <1>0, <1>5, HeadTailProperties DEF Receive, Consumer
    <2>2. [consumer[s] EXCEPT !.buffer = Tail(@)] \in Consumer
      BY <1>0, <2>1 DEF Consumer
    <2>. QED BY <1>5, <2>2, SetConsumerType DEF Receive, TypeOK
  <1>6. ASSUME Unsubscribe(s) PROVE TypeOK'
    <2>1. cursor' \in [Subscribers -> Nat]
      BY <1>6 DEF Unsubscribe, ConsumerName, TypeOK
    <2>. QED BY <1>6, <2>1, AbsentType, SetConsumerType DEF Unsubscribe
  <1>. QED BY <1>1, <1>2, <1>3, <1>4, <1>5, <1>6 DEF ConsumerStep

LEMMA StartsType == Starts \subseteq Cursor
  BY BoundsAssumption DEF Starts, Cursor

\* A round of the replay loop.
LEMMA ReadMessageType ==
  ASSUME NEW k \in Reader, NEW m \in Message, k.fetched < BatchSize
  PROVE  ReadMessage(k, m) \in Reader
  <1>1. k.fetched + 1 \in 0..BatchSize /\ m.seq + 1 \in Nat /\ m.seq \in Nat
    BY LimitsAssumption DEF Reader, Message
  <1> DEFINE seen == [k EXCEPT !.fetched = @ + 1, !.from = m.seq + 1]
  <1>2. seen \in Reader
    BY <1>1 DEF Reader
  <1>3. seen.page = k.page /\ k.page \cup {m} \in SUBSET Message /\ k.processed \in Nat
    BY DEF Reader
  <1>. HIDE DEF seen
  <1>4. CASE m.seq > k.last
    <2>1. [seen EXCEPT !.reached = TRUE] \in Reader
      BY <1>2 DEF Reader
    <2>. QED BY <1>4, <2>1 DEF ReadMessage, seen
  <1>5. CASE ~(m.seq > k.last)
    <2> DEFINE page == IF m.topic \in k.pattern THEN k.page \cup {m} ELSE k.page
               end == m.seq = k.last
    <2>1. page \in SUBSET Message /\ end \in BOOLEAN
      BY <1>3
    <2>. HIDE DEF page, end
    <2>2. [seen EXCEPT !.processed = m.seq, !.page = page, !.reached = end] \in Reader
      BY <1>1, <1>2, <2>1 DEF Reader
    <2>3. ReadMessage(k, m) = [seen EXCEPT !.processed = m.seq, !.page = page, !.reached = end]
      BY <1>3, <1>5 DEF ReadMessage, seen, page, end
    <2>. QED BY <2>2, <2>3
  <1>. QED BY <1>4, <1>5

LEMMA ReaderStepType ==
  ASSUME TypeOK, NEW r \in Readers, ReaderStep(r)
  PROVE  TypeOK'
  <1>0. reader[r] \in Reader /\ messages \in SUBSET Message
    BY DEF TypeOK
  <1>1. ASSUME NEW p \in Patterns, NEW start \in Starts, NEW end \in 0..MaxSequence,
               StartBatch(r, p, start, end)
        PROVE  TypeOK'
    <2>1. end \in Nat /\ start \in Cursor
      BY StartsType, BoundsAssumption
    <2>2. [NoRequest EXCEPT !.op = "batch", !.phase = "info", !.pattern = p,
             !.start = start, !.end = end, !.known = messages] \in Reader
      BY <1>0, <2>1, NoRequestType DEF Reader
    <2>. QED BY <1>1, <2>2, SetReaderType DEF StartBatch
  <1>2. ASSUME ReadInfo(r) PROVE TypeOK'
    <2> DEFINE last == Min({reader[r].end, LastSequence})
               phase == IF NothingToRead(reader[r], last) THEN "done" ELSE "consumer"
    <2>1. {reader[r].end, LastSequence} \in SUBSET Nat
      BY <1>0, LastSequenceType DEF Reader
    <2>2. last \in Nat
      BY <2>1, MinOfNaturals
    <2>3. phase \in {"done", "consumer"}
      OBVIOUS
    <2>4. SetReader(r, [reader[r] EXCEPT !.last = last, !.phase = phase])
      BY <1>2 DEF ReadInfo
    <2>. HIDE DEF last, phase
    <2>5. [reader[r] EXCEPT !.last = last, !.phase = phase] \in Reader
      BY <1>0, <2>2, <2>3 DEF Reader
    <2>. QED BY <2>4, <2>5, SetReaderType
  <1>3. ASSUME CreateReplayConsumer(r) PROVE TypeOK'
    <2> DEFINE start == reader[r].start
               from == IF start.kind = "date" THEN FromTime(start.value) ELSE start.value
    <2>1. from \in Nat
      BY <1>0, FromTimeType DEF Reader, Cursor
    <2>2. SetReader(r, [reader[r] EXCEPT !.phase = "fetch", !.from = from])
      BY <1>3 DEF CreateReplayConsumer
    <2>. HIDE DEF from
    <2>3. [reader[r] EXCEPT !.phase = "fetch", !.from = from] \in Reader
      BY <1>0, <2>1 DEF Reader
    <2>. QED BY <2>2, <2>3, SetReaderType
  <1>4. ASSUME FetchNext(r) PROVE TypeOK'
    <2>1. Oldest(Available(r)) \in Message
      BY <1>4, OldestOf, AvailableType DEF FetchNext
    <2>2. ReadMessage(reader[r], Oldest(Available(r))) \in Reader
      BY <1>0, <1>4, <2>1, ReadMessageType DEF FetchNext
    <2>. QED BY <1>4, <2>2, SetReaderType DEF FetchNext
  <1>5. ASSUME EndBatch(r) PROVE TypeOK'
    <2>1. [reader[r] EXCEPT !.phase = "done"] \in Reader
      BY <1>0 DEF Reader
    <2>. QED BY <1>5, <2>1, SetReaderType DEF EndBatch
  <1>6. ASSUME NEW p \in Patterns, NEW at \in 1..Horizon, StartFirstAfter(r, p, at)
        PROVE  TypeOK'
    <2> DEFINE start == [kind |-> "date", value |-> at]
               phase == IF at + 1 >= Horizon THEN "done" ELSE "consumer"
    <2>1. start \in Cursor /\ phase \in {"done", "consumer"} /\ LastSequence \in Nat
      BY BoundsAssumption, LastSequenceType DEF Cursor
    <2>2. SetReader(r, [NoRequest EXCEPT
            !.op = "after", !.pattern = p, !.start = start,
            !.end = LastSequence, !.known = messages, !.phase = phase])
      BY <1>6 DEF StartFirstAfter
    <2>. HIDE DEF start, phase
    <2>3. [NoRequest EXCEPT
            !.op = "after", !.pattern = p, !.start = start,
            !.end = LastSequence, !.known = messages, !.phase = phase] \in Reader
      BY <1>0, <2>1, NoRequestType DEF Reader
    <2>. QED BY <2>2, <2>3, SetReaderType
  <1>7. ASSUME CreateAfterConsumer(r) PROVE TypeOK'
    <2> DEFINE from == FromTime(reader[r].start.value + 1)
    <2>1. from \in Nat
      BY FromTimeType
    <2>. HIDE DEF from
    <2>2. [reader[r] EXCEPT !.phase = "fetch", !.from = from] \in Reader
      BY <1>0, <2>1 DEF Reader
    <2>. QED BY <1>7, <2>2, SetReaderType DEF CreateAfterConsumer, from
  <1>8. ASSUME FetchFirst(r) PROVE TypeOK'
    <2> DEFINE first == IF Available(r) = {} THEN 0 ELSE Oldest(Available(r)).seq
    <2>1. first \in Nat
      BY OldestOf, AvailableType DEF Message
    <2>. HIDE DEF first
    <2>2. [reader[r] EXCEPT !.phase = "done", !.first = first] \in Reader
      BY <1>0, <2>1 DEF Reader
    <2>. QED BY <1>8, <2>2, SetReaderType DEF FetchFirst, first
  <1>9. ASSUME RequestFails(r) PROVE TypeOK'
    BY <1>9, NoRequestType, SetReaderType DEF RequestFails
  <1>. QED BY <1>1, <1>2, <1>3, <1>4, <1>5, <1>6, <1>7, <1>8, <1>9 DEF ReaderStep

LEMMA TypeStep == TypeOK /\ [Next]_vars => TypeOK'
  <1>. SUFFICES ASSUME TypeOK, [Next]_vars PROVE TypeOK'
    OBVIOUS
  <1>1. ASSUME Tick PROVE TypeOK'
    BY <1>1 DEF Tick, TypeOK
  <1>2. ASSUME Purge PROVE TypeOK'
    BY <1>2, PurgeDiscards DEF TypeOK
  <1>3. CASE UNCHANGED vars
    BY <1>3 DEF vars, TypeOK
  <1>. QED BY <1>1, <1>2, <1>3, NextSteps, StoreType, ConsumerStepType, ReaderStepType

\* Every variable keeps its type: a page holds stored messages and is never
\* longer than the batch, and a subscription makes no more attempts than it may.
THEOREM TypeCorrect == Spec => []TypeOK
  BY TypeInit, TypeStep, PTL DEF Spec

-----------------------------------------------------------------------------
(* The order of what is stored.                                             *)

\* A sequence stands for one message, below the next sequence, and messages
\* were stored in the order of their sequences.
MessagesOrdered ==
  /\ clock <= MaxClock
  /\ \A m \in messages : m.seq < nextSequence /\ m.time <= clock
  /\ \A m, n \in messages : m.seq = n.seq => m = n
  /\ \A m, n \in messages : m.seq <= n.seq => m.time <= n.time

\* The steps of subscriptions and readers leave the stream alone.
LEMMA StreamUntouched ==
  /\ \A s \in Subscribers : ConsumerStep(s) => UNCHANGED <<stream, reader>>
  /\ \A r \in Readers : ReaderStep(r) => UNCHANGED <<stream, cursor, consumer>>
  <1>1. ASSUME NEW s \in Subscribers, ConsumerStep(s)
        PROVE  UNCHANGED <<stream, reader>>
    BY <1>1 DEF ConsumerStep, CreateConsumer, AttemptFails, OpenMessages, Deliver,
                Receive, Unsubscribe, SetConsumer
  <1>2. ASSUME NEW r \in Readers, ReaderStep(r)
        PROVE  UNCHANGED <<stream, cursor, consumer>>
    BY <1>2 DEF ReaderStep, StartBatch, ReadInfo, CreateReplayConsumer, FetchNext,
                EndBatch, StartFirstAfter, CreateAfterConsumer, FetchFirst,
                RequestFails, SetReader
  <1>. QED BY <1>1, <1>2

\* What a publication does to the stream.
LEMMA StoreAdds ==
  ASSUME TypeOK, NEW t \in Topics, NEW b \in Payloads, Store(t, b)
  PROVE  \E m \in Message :
           /\ m.seq = nextSequence /\ m.time = clock
           /\ messages' \subseteq messages \cup {m}
           /\ nextSequence' = nextSequence + 1
           /\ UNCHANGED <<clock, cursor, consumer>>
           /\ reader' = [r \in Readers |->
                           IF reader[r].phase \in {"idle", "done"} THEN reader[r]
                           ELSE [reader[r] EXCEPT !.known = @ \cup {m}]]
  <1> DEFINE m == [seq |-> nextSequence, topic |-> t, time |-> clock, payload |-> b]
  <1>1. m \in Message /\ m.seq = nextSequence /\ m.time = clock
    BY DEF TypeOK, Message
  <1>2. /\ nextSequence' = nextSequence + 1
        /\ messages' = Retained(messages, m)
        /\ reader' = [r \in Readers |->
                        IF reader[r].phase \in {"idle", "done"} THEN reader[r]
                        ELSE [reader[r] EXCEPT !.known = @ \cup {m}]]
        /\ UNCHANGED <<clock, cursor, consumer>>
    BY DEF Store
  <1>. HIDE DEF m
  <1>3. messages' \subseteq messages \cup {m}
    BY <1>2, RetainedSubset
  <1>. QED BY <1>1, <1>2, <1>3

LEMMA MessageNumbers ==
  ASSUME TypeOK
  PROVE  /\ \A m \in messages : m.seq \in Nat \ {0} /\ m.time \in Nat
         /\ nextSequence \in Nat /\ clock \in Nat
  BY DEF TypeOK, Message

LEMMA OrderStep ==
  TypeOK /\ MessagesOrdered /\ [Next]_vars => MessagesOrdered'
  <1>. SUFFICES ASSUME TypeOK, MessagesOrdered, [Next]_vars PROVE MessagesOrdered'
    OBVIOUS
  <1>1. ASSUME NEW t \in Topics, NEW b \in Payloads, Store(t, b)
        PROVE  MessagesOrdered'
    <2>1. PICK m \in Message :
             /\ m.seq = nextSequence /\ m.time = clock
             /\ messages' \subseteq messages \cup {m}
             /\ nextSequence' = nextSequence + 1
             /\ UNCHANGED <<clock, cursor, consumer>>
      BY <1>1, StoreAdds
    <2>2. ASSUME NEW x \in messages'
          PROVE  \/ x = m
                 \/ x \in messages /\ x.seq < m.seq /\ x.time <= m.time
      BY <2>1 DEF MessagesOrdered
    <2>3. ASSUME NEW x \in messages' PROVE x.seq < nextSequence' /\ x.time <= clock'
      BY <2>1, <2>2, MessageNumbers
    <2>4. ASSUME NEW x \in messages', NEW y \in messages'
          PROVE  (x.seq = y.seq => x = y) /\ (x.seq <= y.seq => x.time <= y.time)
      BY <2>1, <2>2, MessageNumbers DEF MessagesOrdered
    <2>. QED BY <2>1, <2>3, <2>4 DEF MessagesOrdered
  <1>2. ASSUME Tick PROVE MessagesOrdered'
    BY <1>2, MessageNumbers, BoundsAssumption DEF Tick, MessagesOrdered
  <1>3. ASSUME Purge PROVE MessagesOrdered'
    BY <1>3, PurgeDiscards DEF MessagesOrdered
  <1>4. CASE UNCHANGED stream
    BY <1>4 DEF stream, MessagesOrdered
  <1>5. CASE UNCHANGED vars
    BY <1>4, <1>5 DEF vars, stream
  <1>. QED BY <1>1, <1>2, <1>3, <1>4, <1>5, NextSteps, StreamUntouched

LEMMA OrderInit == Init => MessagesOrdered
  BY BoundsAssumption DEF Init, MessagesOrdered

-----------------------------------------------------------------------------
(* Live subscriptions.                                                      *)

\* No consumer is ahead of the stream.
CursorsBehind == \A s \in Subscribers : cursor[s] < nextSequence

LEMMA CursorStep ==
  /\ TypeOK /\ MessagesOrdered /\ CursorsBehind /\ CursorsAreOwn
  /\ [Next]_vars
  => CursorsBehind' /\ CursorsAreOwn'
  <1>. SUFFICES ASSUME TypeOK, MessagesOrdered, CursorsBehind, CursorsAreOwn,
                       [Next]_vars
                PROVE  CursorsBehind' /\ CursorsAreOwn'
    OBVIOUS
  <1>. USE DEF ConsumerName
  <1>0. \A s \in Subscribers : consumer[s] \in Consumer /\ cursor[s] \in Nat
    BY DEF TypeOK
  <1>1. ASSUME NEW t \in Topics, NEW b \in Payloads, Store(t, b)
        PROVE  CursorsBehind' /\ CursorsAreOwn'
    <2>1. PICK m \in Message :
             /\ m.seq = nextSequence /\ m.time = clock
             /\ messages' \subseteq messages \cup {m}
             /\ nextSequence' = nextSequence + 1
             /\ UNCHANGED <<clock, cursor, consumer>>
      BY <1>1, StoreAdds
    <2>2. CursorsBehind'
      BY <1>0, <2>1, MessageNumbers DEF CursorsBehind
    <2>3. \A s \in Subscribers : ~(m.seq <= cursor[s])
      BY <1>0, <2>1, MessageNumbers DEF CursorsBehind
    <2>. QED BY <2>1, <2>2, <2>3 DEF CursorsAreOwn, Subscribed
  <1>2. ASSUME messages' \subseteq messages,
               UNCHANGED <<nextSequence, cursor, consumer>>
        PROVE  CursorsBehind' /\ CursorsAreOwn'
    BY <1>2 DEF CursorsBehind, CursorsAreOwn, Subscribed
  <1>3. ASSUME NEW s \in Subscribers, ConsumerStep(s)
        PROVE  CursorsBehind' /\ CursorsAreOwn'
    <2>0. UNCHANGED <<messages, nextSequence>>
      BY <1>3, StreamUntouched DEF stream
    <2>1. ASSUME NEW k, SetConsumer(s, k), NEW c \in Nat, c < nextSequence,
                 cursor' = [cursor EXCEPT ![s] = c],
                 k.phase \in {"created", "open"} =>
                   \A m \in messages :
                     m.topic \in k.pattern /\ k.historyEnd < m.seq /\ m.seq <= c
                       => m.seq \in k.sent
          PROVE  CursorsBehind' /\ CursorsAreOwn'
      <3>1. CursorsBehind'
        BY <1>0, <2>0, <2>1 DEF CursorsBehind, TypeOK
      <3>2. consumer' = [consumer EXCEPT ![s] = k]
        BY <2>1 DEF SetConsumer
      <3>3. ASSUME NEW u \in Subscribers, NEW m \in messages, Subscribed(u)',
                   m.topic \in consumer'[u].pattern, consumer'[u].historyEnd < m.seq,
                   m.seq <= cursor'[u]
            PROVE  m.seq \in consumer'[u].sent
        <4>1. CASE u = s
          BY <2>1, <3>2, <3>3, <4>1 DEF Subscribed, TypeOK
        <4>2. CASE u # s
          BY <2>1, <3>2, <3>3, <4>2 DEF Subscribed, TypeOK, CursorsAreOwn
        <4>. QED BY <4>1, <4>2
      <3>. QED BY <2>0, <3>1, <3>3 DEF CursorsAreOwn
    <2>2. ASSUME NEW k, SetConsumer(s, k), UNCHANGED cursor,
                 k.phase \in {"created", "open"} =>
                   /\ Subscribed(s)
                   /\ k.pattern = consumer[s].pattern
                   /\ k.historyEnd = consumer[s].historyEnd
                   /\ k.sent = consumer[s].sent
          PROVE  CursorsBehind' /\ CursorsAreOwn'
      <3>1. cursor' = [cursor EXCEPT ![s] = cursor[s]] /\ cursor[s] \in Nat
        BY <1>0, <2>2 DEF TypeOK
      <3>. QED BY <2>1, <2>2, <3>1 DEF CursorsBehind, CursorsAreOwn
    <2>3. ASSUME NEW p \in Patterns, CreateConsumer(s, p)
          PROVE  CursorsBehind' /\ CursorsAreOwn'
      <3> DEFINE k == [consumer[s] EXCEPT !.phase = "created", !.pattern = p,
                                          !.historyEnd = LastSequence]
      <3>1. SetConsumer(s, k) /\ cursor' = [cursor EXCEPT ![s] = LastSequence]
        BY <2>3 DEF CreateConsumer
      <3>2. LastSequence \in Nat /\ LastSequence < nextSequence
        BY LastSequenceType DEF LastSequence
      <3>3. k.historyEnd = LastSequence
        BY <1>0 DEF Consumer
      <3>4. \A m \in messages : ~(k.historyEnd < m.seq /\ m.seq <= LastSequence)
        BY <3>2, <3>3, MessageNumbers
      <3>. HIDE DEF k
      <3>. QED BY <2>1, <3>1, <3>2, <3>4
    <2>4. ASSUME NEW p \in Patterns, AttemptFails(s, p)
          PROVE  CursorsBehind' /\ CursorsAreOwn'
      <3> DEFINE k == IF consumer[s].attempt = MaxAttempts THEN Absent
                      ELSE [Absent EXCEPT !.phase = "retrying", !.pattern = p,
                                          !.attempt = consumer[s].attempt + 1]
      <3>1. SetConsumer(s, k) /\ UNCHANGED cursor
        BY <2>4 DEF AttemptFails
      <3>2. k.phase \notin {"created", "open"}
        BY DEF Absent
      <3>. HIDE DEF k
      <3>. QED BY <2>2, <3>1, <3>2
    <2>5. ASSUME OpenMessages(s) PROVE CursorsBehind' /\ CursorsAreOwn'
      <3> DEFINE k == [consumer[s] EXCEPT !.phase = "open"]
      <3>1. /\ SetConsumer(s, k) /\ UNCHANGED cursor /\ Subscribed(s)
            /\ k.pattern = consumer[s].pattern /\ k.sent = consumer[s].sent
            /\ k.historyEnd = consumer[s].historyEnd
        BY <1>0, <2>5 DEF OpenMessages, Subscribed, Consumer
      <3>. HIDE DEF k
      <3>. QED BY <2>2, <3>1
    <2>6. ASSUME Deliver(s) PROVE CursorsBehind' /\ CursorsAreOwn'
      <3> DEFINE m == Oldest(Pending(s))
      <3>1. /\ m \in Pending(s) /\ m \in messages
            /\ \A x \in Pending(s) : m.seq <= x.seq
        BY <2>6, OldestOf, PendingType DEF Deliver, Pending
      <3>2. PICK arrived \in BOOLEAN :
              SetConsumer(s, [consumer[s] EXCEPT
                !.sent = @ \cup {m.seq},
                !.buffer = IF arrived THEN Append(@, m) ELSE @])
        BY <2>6 DEF Deliver
      <3>3. cursor' = [cursor EXCEPT ![s] = m.seq] /\ Subscribed(s)
        BY <2>6 DEF Deliver, Subscribed
      <3>4. m.seq \in Nat /\ m.seq < nextSequence
        BY <3>1, MessageNumbers DEF MessagesOrdered
      <3>. HIDE DEF m
      <3> DEFINE k == [consumer[s] EXCEPT
                        !.sent = @ \cup {m.seq},
                        !.buffer = IF arrived THEN Append(@, m) ELSE @]
      <3>5. /\ k.pattern = consumer[s].pattern
            /\ k.historyEnd = consumer[s].historyEnd
            /\ k.sent = consumer[s].sent \cup {m.seq}
        BY <1>0 DEF Consumer
      <3>6. SetConsumer(s, k)
        BY <3>2
      <3>. HIDE DEF k
      <3>7. ASSUME NEW x \in messages, x.topic \in k.pattern, k.historyEnd < x.seq,
                   x.seq <= m.seq
            PROVE  x.seq \in k.sent
        <4>1. x.topic \in consumer[s].pattern /\ consumer[s].historyEnd < x.seq
          BY <3>5, <3>7
        <4>2. CASE x.seq <= cursor[s]
          BY <3>3, <3>5, <4>1, <4>2 DEF CursorsAreOwn
        <4>3. CASE ~(x.seq <= cursor[s])
          <5>1. consumer[s].pattern \in Patterns
            BY <1>0, <4>1 DEF Consumer
          <5>2. x.topic \in Coarse[consumer[s].pattern]
            BY <4>1, <5>1, PatternsAssumption
          <5>3. x.seq > cursor[s]
            BY <1>0, <4>3, MessageNumbers
          <5>4. x \in Pending(s)
            BY <5>2, <5>3 DEF Pending
          <5>5. x.seq = m.seq
            BY <3>1, <3>4, <3>7, <5>4, MessageNumbers
          <5>. QED BY <3>5, <5>5
        <4>. QED BY <4>2, <4>3
      <3>. QED BY <2>1, <3>3, <3>4, <3>6, <3>7
    <2>7. ASSUME Receive(s) PROVE CursorsBehind' /\ CursorsAreOwn'
      <3> DEFINE k == [consumer[s] EXCEPT !.buffer = Tail(@)]
      <3>1. /\ SetConsumer(s, k) /\ UNCHANGED cursor
            /\ k.phase = consumer[s].phase
            /\ k.pattern = consumer[s].pattern /\ k.sent = consumer[s].sent
            /\ k.historyEnd = consumer[s].historyEnd
        BY <1>0, <2>7 DEF Receive, Consumer
      <3>. HIDE DEF k
      <3>. QED BY <2>2, <3>1 DEF Subscribed
    <2>8. ASSUME Unsubscribe(s) PROVE CursorsBehind' /\ CursorsAreOwn'
      <3>1. SetConsumer(s, Absent) /\ cursor' = [cursor EXCEPT ![s] = 0]
        BY <2>8 DEF Unsubscribe
      <3>2. Absent.phase = "absent" /\ 0 < nextSequence
        BY DEF Absent, TypeOK
      <3>. QED BY <2>1, <3>1, <3>2
    <2>. QED BY <1>3, <2>3, <2>4, <2>5, <2>6, <2>7, <2>8 DEF ConsumerStep
  <1>4. ASSUME Tick PROVE CursorsBehind' /\ CursorsAreOwn'
    BY <1>2, <1>4 DEF Tick
  <1>5. ASSUME Purge PROVE CursorsBehind' /\ CursorsAreOwn'
    BY <1>2, <1>5, PurgeDiscards
  <1>6. ASSUME NEW r \in Readers, ReaderStep(r) PROVE CursorsBehind' /\ CursorsAreOwn'
    BY <1>2, <1>6, StreamUntouched DEF stream
  <1>7. CASE UNCHANGED vars
    BY <1>2, <1>7 DEF vars
  <1>. QED BY <1>1, <1>3, <1>4, <1>5, <1>6, <1>7, NextSteps

\* No two subscriptions share a consumer on the server: a stored message that
\* the server has moved past for a subscription was sent to that subscription,
\* whatever others subscribe, fail, retry and receive meanwhile.
THEOREM SubscriptionsHaveOwnCursors == Spec => []CursorsAreOwn
  <1>1. Init => CursorsBehind /\ CursorsAreOwn
    BY DEF Init, CursorsBehind, CursorsAreOwn, Absent, Subscribed
  <1>2. /\ TypeOK /\ MessagesOrdered /\ CursorsBehind /\ CursorsAreOwn /\ [Next]_vars
        => TypeOK' /\ MessagesOrdered' /\ CursorsBehind' /\ CursorsAreOwn'
    BY TypeStep, OrderStep, CursorStep
  <1>. QED BY <1>1, <1>2, TypeInit, OrderInit, PTL DEF Spec

-----------------------------------------------------------------------------
(* Replay requests.  The invariant of a request is stated over what the     *)
(* stream holds, the time and the next sequence, which change under it.     *)

\* A batch request that may still read: what its page holds, and what the last
\* message it has looked at says about the ones behind it.
BatchSound(k, held, now, next) ==
  /\ k.end < next
  /\ k.phase # "info" => k.last = k.end
  /\ k.phase # "done" => held \subseteq k.known
  /\ k.phase \in {"info", "consumer"} =>
       k.page = {} /\ k.processed = 0 /\ k.fetched = 0 /\ ~k.reached
  /\ \A m \in k.page :
       /\ m \in k.known /\ m.topic \in k.pattern /\ Log!Starts(k.start, m)
       /\ m.seq <= k.processed
  /\ k.processed <= k.end
  /\ k.processed # 0 =>
       /\ k.start.kind = "sequence" => k.start.value <= k.processed
       /\ k.start.kind = "date" => k.start.value <= now
       /\ \A m \in held : m.seq > k.processed => Log!Starts(k.start, m)

\* While it reads: "from" separates what is on the page from what is to come.
BatchReading(k, held) ==
  k.phase = "fetch" =>
    /\ k.processed = 0 \/ k.processed < k.from
    /\ k.reached => k.from > k.end
    /\ ~k.reached /\ k.fetched # 0 => k.processed # 0
    /\ \A m \in held : m.seq <= k.end =>
         /\ m.seq >= k.from => Log!Starts(k.start, m)
         /\ m.seq < k.from /\ m.topic \in k.pattern /\ Log!Starts(k.start, m)
              => m \in k.page

\* What an answered batch covers is on its page.
BatchCovers(k, held) ==
  k.phase = "done" =>
    \A m \in held :
      /\ m.topic \in k.pattern /\ Log!Starts(k.start, m)
      /\ m.seq <= IF HasMore(k) THEN k.processed ELSE k.end
      => m \in k.page

\* The consumer of an end date starts between the two parts of the history, and
\* so does the sequence that is found.
AfterSplits(k, held, next) ==
  /\ k.end < next
  /\ k.phase = "fetch" =>
       \A m \in held : m.seq <= k.end =>
         (m.time <= k.start.value <=> m.seq < k.from)
  /\ k.phase = "done" =>
       \A m \in held : m.topic \in k.pattern /\ m.seq <= k.end =>
         (m.time <= k.start.value <=> (k.first = 0 \/ m.seq < k.first))

RequestInv(k, held, now, next) ==
  /\ k.op = "none" => k.phase = "idle"
  /\ k.op = "batch" =>
       /\ k.phase # "idle"
       /\ BatchSound(k, held, now, next)
       /\ BatchReading(k, held)
       /\ BatchCovers(k, held)
  /\ k.op = "after" => k.phase \notin {"idle", "info"} /\ AfterSplits(k, held, next)

\* Messages that disappear and time that passes take nothing from a request.
LEMMA RequestOutlives ==
  ASSUME NEW k \in Reader, NEW held, NEW rest, rest \subseteq held,
         NEW now \in Nat, NEW then \in Nat, now <= then, NEW next \in Nat,
         RequestInv(k, held, now, next)
  PROVE  RequestInv(k, rest, then, next)
  <1>1. k.start.value \in Nat
    BY DEF Reader, Cursor
  <1>2. BatchSound(k, held, now, next) => BatchSound(k, rest, then, next)
    BY <1>1 DEF BatchSound
  <1>3. BatchReading(k, held) => BatchReading(k, rest)
    BY DEF BatchReading
  <1>4. BatchCovers(k, held) => BatchCovers(k, rest)
    BY DEF BatchCovers
  <1>5. AfterSplits(k, held, next) => AfterSplits(k, rest, next)
    BY DEF AfterSplits
  <1>. QED BY <1>2, <1>3, <1>4, <1>5 DEF RequestInv

\* A message stored during a call lies behind its end.
LEMMA RequestSeesStored ==
  ASSUME NEW k \in Reader, NEW held \in SUBSET Message, NEW more,
         NEW now \in Nat, NEW next \in Nat,
         NEW m \in Message, m.seq = next, m.time = now, more \subseteq held \cup {m},
         RequestInv(k, held, now, next)
  PROVE  RequestInv(IF k.phase \in {"idle", "done"} THEN k
                    ELSE [k EXCEPT !.known = @ \cup {m}], more, now, next + 1)
  <1> DEFINE h == IF k.phase \in {"idle", "done"} THEN k
                  ELSE [k EXCEPT !.known = @ \cup {m}]
  <1>1. /\ k.start.value \in Nat /\ k.end \in Nat /\ k.processed \in Nat
        /\ k.start.kind \in {"sequence", "date"}
    BY DEF Reader, Cursor
  <1>2. /\ h.op = k.op /\ h.phase = k.phase /\ h.pattern = k.pattern
        /\ h.start = k.start /\ h.end = k.end /\ h.last = k.last /\ h.from = k.from
        /\ h.fetched = k.fetched /\ h.page = k.page /\ h.reached = k.reached
        /\ h.processed = k.processed /\ h.first = k.first
        /\ k.known \subseteq h.known
        /\ k.phase \notin {"idle", "done"} => h.known = k.known \cup {m}
    BY DEF Reader
  <1>. HIDE DEF h
  <1>3. ASSUME k.end < next PROVE ~(m.seq <= h.end) /\ h.end < next + 1
    BY <1>1, <1>2, <1>3
  <1>4. ASSUME k.phase # "idle", BatchSound(k, held, now, next)
        PROVE  BatchSound(h, more, now, next + 1)
    <2>1. ASSUME k.processed # 0 PROVE Log!Starts(h.start, m)
      BY <1>1, <1>2, <1>4, <2>1 DEF BatchSound, Log!Starts
    <2>2. ASSUME k.processed # 0, NEW x \in more, x.seq > h.processed
          PROVE  Log!Starts(h.start, x)
      BY <1>2, <1>4, <2>1, <2>2 DEF BatchSound
    <2>3. h.phase # "done" => more \subseteq h.known
      BY <1>2, <1>4 DEF BatchSound
    <2>. QED BY <1>2, <1>3, <1>4, <2>2, <2>3 DEF BatchSound
  <1>5. ASSUME k.end < next, BatchReading(k, held) PROVE BatchReading(h, more)
    BY <1>2, <1>3, <1>5 DEF BatchReading
  <1>6. ASSUME k.end < next, k.processed <= k.end, BatchCovers(k, held)
        PROVE  BatchCovers(h, more)
    <2>1. HasMore(h) = HasMore(k)
      BY <1>2 DEF HasMore
    <2>2. ~(m.seq <= IF HasMore(h) THEN h.processed ELSE h.end)
      BY <1>1, <1>2, <1>6
    <2>. QED BY <1>2, <1>6, <2>1, <2>2 DEF BatchCovers
  <1>7. ASSUME AfterSplits(k, held, next) PROVE AfterSplits(h, more, next + 1)
    <2>1. k.end < next
      BY <1>7 DEF AfterSplits
    <2>. QED BY <1>2, <1>3, <1>7, <2>1 DEF AfterSplits
  <1>8. RequestInv(h, more, now, next + 1)
    BY <1>2, <1>4, <1>5, <1>6, <1>7 DEF RequestInv, BatchSound
  <1>. QED BY <1>8 DEF h

AllRequests == \A r \in Readers : RequestInv(reader[r], messages, clock, nextSequence)

LEMMA SetReaderKeeps ==
  ASSUME TypeOK, AllRequests, NEW r \in Readers, NEW k, SetReader(r, k),
         RequestInv(k, messages, clock, nextSequence)
  PROVE  AllRequests'
  <1>1. /\ reader' = [reader EXCEPT ![r] = k]
        /\ UNCHANGED <<messages, clock, nextSequence>>
    BY DEF SetReader, stream
  <1>2. \A q \in Readers : reader'[q] = IF q = r THEN k ELSE reader[q]
    BY <1>1 DEF TypeOK
  <1>. QED BY <1>1, <1>2 DEF AllRequests

LEMMA NoRequestKept == RequestInv(NoRequest, messages, clock, nextSequence)
  BY DEF RequestInv, NoRequest

LEMMA StartBatchKept ==
  ASSUME TypeOK, NEW p \in Patterns, NEW start \in Starts, NEW end \in Nat,
         end <= LastSequence
  PROVE  RequestInv([NoRequest EXCEPT !.op = "batch", !.phase = "info", !.pattern = p,
                       !.start = start, !.end = end, !.known = messages],
                    messages, clock, nextSequence)
  <1> DEFINE k == [NoRequest EXCEPT !.op = "batch", !.phase = "info", !.pattern = p,
                     !.start = start, !.end = end, !.known = messages]
  <1>1. /\ k.op = "batch" /\ k.phase = "info" /\ k.end = end /\ k.known = messages
        /\ k.page = {} /\ k.processed = 0 /\ k.fetched = 0 /\ k.reached = FALSE
    BY DEF NoRequest
  <1>2. end < nextSequence
    BY LastSequenceType DEF LastSequence
  <1>. HIDE DEF k
  <1>3. BatchSound(k, messages, clock, nextSequence)
    BY <1>1, <1>2 DEF BatchSound
  <1>4. RequestInv(k, messages, clock, nextSequence)
    BY <1>1, <1>3 DEF RequestInv, BatchReading, BatchCovers
  <1>. QED BY <1>4 DEF k

LEMMA ReadInfoKept ==
  ASSUME TypeOK, NEW r \in Readers, ReadInfo(r), AllRequests
  PROVE  AllRequests'
  <1> DEFINE k == reader[r]
             last == Min({k.end, LastSequence})
             phase == IF NothingToRead(k, last) THEN "done" ELSE "consumer"
             h == [k EXCEPT !.last = last, !.phase = phase]
  <1>1. k \in Reader /\ RequestInv(k, messages, clock, nextSequence) /\ k.phase = "info"
    BY DEF AllRequests, ReadInfo, TypeOK
  <1>2. SetReader(r, h)
    BY DEF ReadInfo
  <1>. HIDE DEF k
  <1>3. k.op = "batch" /\ k.end \in Nat /\ k.start \in Cursor
    BY <1>1 DEF RequestInv, Reader
  <1>4. k.end < nextSequence
    BY <1>1, <1>3 DEF RequestInv, BatchSound
  <1>5. last = k.end
    <2>1. {k.end, LastSequence} \in SUBSET Nat /\ {k.end, LastSequence} # {}
      BY <1>3, LastSequenceType
    <2>2. last \in {k.end, LastSequence} /\ last <= k.end
      BY <2>1, MinOfNaturals
    <2>3. k.end <= LastSequence
      BY <1>3, <1>4, LastSequenceType DEF LastSequence
    <2>. QED BY <1>3, <2>2, <2>3, LastSequenceType
  <1>6. /\ h.op = k.op /\ h.phase = phase /\ h.pattern = k.pattern
        /\ h.start = k.start /\ h.end = k.end /\ h.last = k.end /\ h.from = k.from
        /\ h.fetched = k.fetched /\ h.page = k.page /\ h.reached = k.reached
        /\ h.processed = k.processed /\ h.first = k.first /\ h.known = k.known
    BY <1>1, <1>5 DEF Reader
  <1>. HIDE DEF h
  <1>7. BatchSound(k, messages, clock, nextSequence)
    BY <1>1, <1>3 DEF RequestInv
  <1>8. phase \in {"done", "consumer"}
    OBVIOUS
  <1>9. BatchSound(h, messages, clock, nextSequence)
    BY <1>1, <1>6, <1>7, <1>8 DEF BatchSound
  <1>10. ASSUME h.phase = "done", NEW m \in messages, Log!Starts(h.start, m)
        PROVE  ~(m.seq <= IF HasMore(h) THEN h.processed ELSE h.end)
    <2>1. NothingToRead(k, k.end)
      BY <1>5, <1>6, <1>10
    <2>2. ~HasMore(h) /\ m.seq \in Nat \ {0} /\ k.start.value \in Nat
      BY <1>1, <1>3, <1>6, <1>7, MessageNumbers DEF HasMore, BatchSound, Cursor
    <2>. QED BY <1>3, <1>6, <1>10, <2>1, <2>2 DEF NothingToRead, Log!Starts
  <1>11. BatchCovers(h, messages) /\ BatchReading(h, messages)
    BY <1>6, <1>8, <1>10 DEF BatchCovers, BatchReading
  <1>12. RequestInv(h, messages, clock, nextSequence)
    BY <1>3, <1>6, <1>8, <1>9, <1>11 DEF RequestInv
  <1>. QED BY <1>2, <1>12, SetReaderKeeps

\* A consumer that starts at a time starts between the messages stored before
\* that time and the others.
LEMMA FromTimeSplits ==
  ASSUME TypeOK, MessagesOrdered, NEW date \in Nat, NEW m \in messages
  PROVE  m.time >= date <=> m.seq >= FromTime(date)
  <1> DEFINE late == {x \in messages : x.time >= date}
             later == {x.seq : x \in late}
  <1>1. later \in SUBSET Nat /\ m.seq \in Nat /\ m.time \in Nat
    BY MessageNumbers
  <1>2. CASE late = {}
    <2>1. FromTime(date) = nextSequence
      BY <1>2 DEF FromTime
    <2>2. ~(m.time >= date) /\ m.seq < nextSequence
      BY <1>2 DEF MessagesOrdered
    <2>. QED BY <1>1, <2>1, <2>2, MessageNumbers
  <1>3. CASE late # {}
    <2>0. later # {}
      BY <1>3
    <2>1. Min(later) \in later /\ \A n \in later : Min(later) <= n
      BY <1>1, <2>0, MinOfNaturals
    <2>2. FromTime(date) = Min(later)
      BY <1>3 DEF FromTime
    <2>3. PICK x \in late : x.seq = FromTime(date)
      BY <2>1, <2>2
    <2>4. x \in messages /\ x.time \in Nat /\ x.seq \in Nat /\ x.time >= date
      BY <2>3, MessageNumbers
    <2>5. ASSUME m.time >= date PROVE m.seq >= FromTime(date)
      BY <2>1, <2>2, <2>5, <1>1, <2>4, <2>3
    <2>6. ASSUME m.seq >= FromTime(date) PROVE m.time >= date
      <3>1. x.seq <= m.seq
        BY <1>1, <2>3, <2>4, <2>6
      <3>2. x.time <= m.time
        BY <2>4, <3>1 DEF MessagesOrdered
      <3>. QED BY <1>1, <2>4, <3>2
    <2>. QED BY <2>5, <2>6
  <1>. QED BY <1>2, <1>3

LEMMA CreateReplayConsumerKept ==
  ASSUME TypeOK, MessagesOrdered, NEW r \in Readers, CreateReplayConsumer(r), AllRequests
  PROVE  AllRequests'
  <1> DEFINE k == reader[r]
             from == IF k.start.kind = "date" THEN FromTime(k.start.value) ELSE k.start.value
             h == [k EXCEPT !.phase = "fetch", !.from = from]
  <1>1. /\ k \in Reader /\ RequestInv(k, messages, clock, nextSequence)
        /\ k.op = "batch" /\ k.phase = "consumer"
    BY DEF AllRequests, CreateReplayConsumer, TypeOK
  <1>2. SetReader(r, h)
    BY DEF CreateReplayConsumer
  <1>. HIDE DEF k
  <1>3. k.start.value \in Nat /\ k.start.kind \in {"sequence", "date"}
    BY <1>1 DEF Reader, Cursor
  <1>4. BatchSound(k, messages, clock, nextSequence)
    BY <1>1 DEF RequestInv
  <1>5. ASSUME NEW m \in messages PROVE m.seq >= from <=> Log!Starts(k.start, m)
    BY <1>3, FromTimeSplits DEF Log!Starts
  <1>6. from \in Nat
    BY <1>3, FromTimeType
  <1>. HIDE DEF from
  <1>7. /\ h.op = "batch" /\ h.phase = "fetch" /\ h.pattern = k.pattern
        /\ h.start = k.start /\ h.end = k.end /\ h.last = k.last /\ h.from = from
        /\ h.fetched = k.fetched /\ h.page = k.page /\ h.reached = k.reached
        /\ h.processed = k.processed /\ h.known = k.known
    BY <1>1 DEF Reader
  <1>. HIDE DEF h
  <1>8. BatchSound(h, messages, clock, nextSequence)
    BY <1>1, <1>4, <1>7 DEF BatchSound
  <1>9. ASSUME NEW m \in messages
        PROVE  /\ m.seq >= h.from => Log!Starts(h.start, m)
               /\ ~(m.seq < h.from /\ Log!Starts(h.start, m))
    BY <1>5, <1>6, <1>7, MessageNumbers
  <1>10. BatchReading(h, messages)
    BY <1>1, <1>4, <1>7, <1>9 DEF BatchReading, BatchSound
  <1>11. RequestInv(h, messages, clock, nextSequence)
    BY <1>7, <1>8, <1>10 DEF RequestInv, BatchCovers
  <1>. QED BY <1>2, <1>11, SetReaderKeeps

\* The oldest message there is for a request: nothing the pattern matches lies
\* between where the request stands and that message.
LEMMA NextOfRequest ==
  ASSUME TypeOK, MessagesOrdered, NEW r \in Readers, Available(r) # {},
         NEW m, m = Oldest(Available(r))
  PROVE  /\ m \in messages /\ m.seq >= reader[r].from
         /\ \A x \in messages :
              x.topic \in reader[r].pattern /\ x.seq >= reader[r].from /\ x.seq <= m.seq
                => x = m
  <1>1. m \in Available(r) /\ \A x \in Available(r) : m.seq <= x.seq
    BY OldestOf, AvailableType
  <1>2. m \in messages /\ m.seq >= reader[r].from
    BY <1>1 DEF Available
  <1>3. ASSUME NEW x \in messages, x.topic \in reader[r].pattern,
               x.seq >= reader[r].from, x.seq <= m.seq
        PROVE  x = m
    <2>1. reader[r].pattern \in Patterns
      BY <1>3 DEF TypeOK, Reader
    <2>2. x \in Available(r)
      BY <1>3, <2>1, PatternsAssumption DEF Available
    <2>3. x.seq = m.seq
      BY <1>1, <1>2, <1>3, <2>2, MessageNumbers
    <2>. QED BY <1>2, <2>3 DEF MessagesOrdered
  <1>. QED BY <1>2, <1>3

LEMMA FetchNextKept ==
  ASSUME TypeOK, MessagesOrdered, NEW r \in Readers, FetchNext(r), AllRequests
  PROVE  AllRequests'
  <1> DEFINE k == reader[r]
             m == Oldest(Available(r))
             h == ReadMessage(k, m)
  <1>1. /\ k \in Reader /\ RequestInv(k, messages, clock, nextSequence)
        /\ k.op = "batch" /\ k.phase = "fetch" /\ ~k.reached
    BY DEF AllRequests, FetchNext, TypeOK
  <1>2. SetReader(r, h)
    BY DEF FetchNext
  <1>3. /\ m \in messages /\ m.seq >= k.from
        /\ \A x \in messages :
             x.topic \in k.pattern /\ x.seq >= k.from /\ x.seq <= m.seq => x = m
    BY NextOfRequest DEF FetchNext
  <1>. HIDE DEF k, m
  <1>4. /\ BatchSound(k, messages, clock, nextSequence)
        /\ BatchReading(k, messages)
    BY <1>1 DEF RequestInv
  <1>5. /\ k.last = k.end /\ k.end \in Nat /\ k.processed \in Nat /\ k.from \in Nat
        /\ k.fetched \in Nat /\ k.start.value \in Nat
        /\ k.start.kind \in {"sequence", "date"}
        /\ m.seq \in Nat \ {0} /\ m.time \in Nat /\ m.time <= clock
    BY <1>1, <1>3, <1>4, MessageNumbers, LimitsAssumption
       DEF BatchSound, Reader, Cursor, MessagesOrdered
  <1>6. /\ h.op = "batch" /\ h.phase = "fetch" /\ h.pattern = k.pattern
        /\ h.start = k.start /\ h.end = k.end /\ h.last = k.last
        /\ h.known = k.known /\ h.from = m.seq + 1 /\ h.fetched = k.fetched + 1
    BY <1>1 DEF ReadMessage, Reader
  <1>7. CASE m.seq > k.end
    <2>1. h.reached = TRUE /\ h.page = k.page /\ h.processed = k.processed
      BY <1>1, <1>5, <1>7 DEF ReadMessage, Reader
    <2>. HIDE DEF h
    <2>2. BatchSound(h, messages, clock, nextSequence)
      BY <1>1, <1>4, <1>6, <2>1 DEF BatchSound
    <2>3. ASSUME NEW x \in messages, x.seq <= h.end
          PROVE  /\ x.seq >= h.from => Log!Starts(h.start, x)
                 /\ /\ x.seq < h.from /\ x.topic \in h.pattern /\ Log!Starts(h.start, x)
                    => x \in h.page
      <3>1. x.seq \in Nat /\ x.seq <= k.end /\ ~(x.seq >= h.from) /\ x.seq <= m.seq
        BY <1>5, <1>6, <1>7, <2>3, MessageNumbers
      <3>2. CASE x.seq < k.from
        BY <1>1, <1>4, <1>6, <2>1, <3>1, <3>2 DEF BatchReading
      <3>3. CASE ~(x.seq < k.from)
        BY <1>3, <1>5, <1>6, <1>7, <3>1, <3>3
      <3>. QED BY <3>1, <3>2, <3>3
    <2>4. BatchReading(h, messages)
      <3>1. h.processed = 0 \/ h.processed < h.from
        BY <1>1, <1>3, <1>4, <1>5, <1>6, <2>1 DEF BatchReading
      <3>2. h.from > h.end
        BY <1>5, <1>6, <1>7
      <3>. QED BY <2>1, <2>3, <3>1, <3>2 DEF BatchReading
    <2>5. RequestInv(h, messages, clock, nextSequence)
      BY <1>6, <2>2, <2>4 DEF RequestInv, BatchCovers
    <2>. QED BY <1>2, <2>5, SetReaderKeeps
  <1>8. CASE ~(m.seq > k.end)
    <2>1. /\ h.processed = m.seq
          /\ h.page = IF m.topic \in k.pattern THEN k.page \cup {m} ELSE k.page
          /\ h.reached <=> m.seq = k.end
      BY <1>1, <1>5, <1>8 DEF ReadMessage, Reader
    <2>. HIDE DEF h
    <2>2. Log!Starts(k.start, m)
      BY <1>1, <1>3, <1>4, <1>5, <1>8 DEF BatchReading
    <2>3. ASSUME NEW x \in messages, x.seq > m.seq PROVE Log!Starts(h.start, x)
      <3>1. m.time <= x.time /\ x.seq \in Nat /\ x.time \in Nat
        BY <1>3, <1>5, <2>3, MessageNumbers DEF MessagesOrdered
      <3>. QED BY <1>5, <1>6, <2>2, <2>3, <3>1 DEF Log!Starts
    <2>4. /\ h.start.kind = "sequence" => h.start.value <= h.processed
          /\ h.start.kind = "date" => h.start.value <= clock
      BY <1>5, <1>6, <2>1, <2>2, MessageNumbers DEF Log!Starts
    <2>5. ASSUME NEW x \in h.page
          PROVE  /\ x \in h.known /\ x.topic \in h.pattern /\ Log!Starts(h.start, x)
                 /\ x.seq <= h.processed
      <3>1. CASE x = m /\ m.topic \in k.pattern
        BY <1>1, <1>3, <1>4, <1>5, <1>6, <2>1, <2>2, <3>1 DEF BatchSound
      <3>2. CASE x \in k.page
        <4>1. x.seq <= k.processed /\ x.seq \in Nat
          BY <1>1, <1>4, <3>2 DEF BatchSound, Reader, Message
        <4>2. k.processed <= m.seq
          BY <1>1, <1>3, <1>4, <1>5 DEF BatchReading
        <4>3. x.seq <= h.processed
          BY <1>5, <2>1, <4>1, <4>2
        <4>. QED BY <1>4, <1>6, <3>2, <4>3 DEF BatchSound
      <3>. QED BY <2>1, <2>5, <3>1, <3>2
    <2>6. h.processed <= h.end /\ h.end < nextSequence /\ h.last = h.end
      BY <1>4, <1>5, <1>6, <1>8, <2>1 DEF BatchSound
    <2>7. messages \subseteq h.known
      BY <1>1, <1>4, <1>6 DEF BatchSound
    <2>8. BatchSound(h, messages, clock, nextSequence)
      BY <1>6, <2>1, <2>3, <2>4, <2>5, <2>6, <2>7 DEF BatchSound
    <2>9. ASSUME NEW x \in messages, x.seq <= h.end
          PROVE  /\ x.seq >= h.from => Log!Starts(h.start, x)
                 /\ /\ x.seq < h.from /\ x.topic \in h.pattern /\ Log!Starts(h.start, x)
                    => x \in h.page
      <3>1. x.seq \in Nat /\ x.seq <= k.end
        BY <1>6, <2>9, MessageNumbers
      <3>2. x.seq >= h.from => Log!Starts(h.start, x)
        BY <1>5, <1>6, <2>3, <3>1
      <3>3. ASSUME x.seq < h.from, x.topic \in h.pattern, Log!Starts(h.start, x)
            PROVE  x \in h.page
        <4>1. CASE x.seq < k.from
          <5>1. x \in k.page
            BY <1>1, <1>4, <1>6, <3>1, <3>3, <4>1 DEF BatchReading
          <5>. QED BY <2>1, <5>1
        <4>2. CASE ~(x.seq < k.from)
          <5>1. x = m
            BY <1>3, <1>5, <1>6, <3>1, <3>3, <4>2
          <5>. QED BY <1>6, <2>1, <3>3, <5>1
        <4>. QED BY <4>1, <4>2
      <3>. QED BY <3>2, <3>3
    <2>10. BatchReading(h, messages)
      <3>1. h.processed < h.from /\ h.processed # 0
        BY <1>5, <1>6, <2>1
      <3>2. h.reached => h.from > h.end
        BY <1>5, <1>6, <2>1
      <3>. QED BY <2>9, <3>1, <3>2 DEF BatchReading
    <2>11. RequestInv(h, messages, clock, nextSequence)
      BY <1>6, <2>8, <2>10 DEF RequestInv, BatchCovers
    <2>. QED BY <1>2, <2>11, SetReaderKeeps
  <1>. QED BY <1>7, <1>8

LEMMA EndBatchKept ==
  ASSUME TypeOK, MessagesOrdered, NEW r \in Readers, EndBatch(r), AllRequests
  PROVE  AllRequests'
  <1> DEFINE k == reader[r]
             h == [k EXCEPT !.phase = "done"]
  <1>1. /\ k \in Reader /\ RequestInv(k, messages, clock, nextSequence)
        /\ k.op = "batch" /\ k.phase = "fetch"
        /\ k.reached \/ k.fetched = BatchSize \/ Available(r) = {}
    BY DEF AllRequests, EndBatch, TypeOK
  <1>2. SetReader(r, h)
    BY DEF EndBatch
  <1>3. ASSUME Available(r) = {}, NEW m \in messages, m.topic \in k.pattern
        PROVE  m.seq < k.from
    <2>1. k.pattern \in Patterns /\ k.from \in Nat
      BY <1>1, <1>3 DEF Reader
    <2>2. m.topic \in Coarse[k.pattern]
      BY <1>3, <2>1, PatternsAssumption
    <2>. QED BY <1>3, <2>1, <2>2, MessageNumbers DEF Available
  <1>. HIDE DEF k
  <1>4. /\ BatchSound(k, messages, clock, nextSequence)
        /\ BatchReading(k, messages)
    BY <1>1 DEF RequestInv
  <1>5. /\ k.last = k.end /\ k.end \in Nat /\ k.processed \in Nat /\ k.from \in Nat
        /\ k.fetched \in Nat /\ BatchSize \in Nat \ {0}
    BY <1>1, <1>4, LimitsAssumption DEF BatchSound, Reader
  <1>6. /\ h.op = k.op /\ h.phase = "done" /\ h.pattern = k.pattern
        /\ h.start = k.start /\ h.end = k.end /\ h.last = k.last /\ h.from = k.from
        /\ h.fetched = k.fetched /\ h.page = k.page /\ h.reached = k.reached
        /\ h.processed = k.processed /\ h.known = k.known
    BY <1>1 DEF Reader
  <1>. HIDE DEF h
  <1>7. BatchSound(h, messages, clock, nextSequence)
    BY <1>1, <1>4, <1>6 DEF BatchSound
  <1>8. ASSUME NEW m \in messages, m.topic \in k.pattern, Log!Starts(k.start, m),
               m.seq <= IF HasMore(h) THEN k.processed ELSE k.end
        PROVE  m \in k.page
    <2>1. m.seq <= k.end /\ m.seq \in Nat
      BY <1>4, <1>5, <1>8, MessageNumbers DEF BatchSound
    <2>2. SUFFICES m.seq < k.from
      BY <1>1, <1>4, <1>8, <2>1 DEF BatchReading
    <2>3. CASE HasMore(h)
      <3>1. k.processed # 0 /\ m.seq <= k.processed
        BY <1>6, <1>8, <2>3 DEF HasMore
      <3>. QED BY <1>1, <1>4, <1>5, <2>1, <3>1 DEF BatchReading
    <2>4. CASE ~HasMore(h) /\ k.reached
      BY <1>1, <1>4, <1>5, <2>1, <2>4 DEF BatchReading
    <2>5. CASE ~HasMore(h) /\ ~k.reached /\ k.processed # 0
      <3>1. k.processed >= k.end
        BY <1>5, <1>6, <2>5 DEF HasMore
      <3>. QED BY <1>1, <1>4, <1>5, <2>1, <2>5, <3>1 DEF BatchReading
    <2>6. CASE ~k.reached /\ k.processed = 0
      <3>1. k.fetched = 0
        BY <1>1, <1>4, <2>6 DEF BatchReading
      <3>2. Available(r) = {}
        BY <1>1, <1>5, <2>6, <3>1
      <3>. QED BY <1>3, <1>8, <3>2
    <2>. QED BY <2>3, <2>4, <2>5, <2>6
  <1>9. BatchCovers(h, messages) /\ BatchReading(h, messages)
    BY <1>6, <1>8 DEF BatchCovers, BatchReading
  <1>10. RequestInv(h, messages, clock, nextSequence)
    BY <1>1, <1>6, <1>7, <1>9 DEF RequestInv
  <1>. QED BY <1>2, <1>10, SetReaderKeeps

LEMMA StartFirstAfterKept ==
  ASSUME TypeOK, MessagesOrdered, NEW r \in Readers, NEW p \in Patterns,
         NEW at \in 1..Horizon, StartFirstAfter(r, p, at), AllRequests
  PROVE  AllRequests'
  <1> DEFINE k == [NoRequest EXCEPT
                    !.op = "after", !.pattern = p,
                    !.start = [kind |-> "date", value |-> at],
                    !.end = LastSequence, !.known = messages,
                    !.phase = IF at + 1 >= Horizon THEN "done" ELSE "consumer"]
  <1>1. SetReader(r, k)
    BY DEF StartFirstAfter
  <1>2. /\ k.op = "after" /\ k.start.value = at /\ k.end = LastSequence /\ k.first = 0
        /\ k.phase = IF at + 1 >= Horizon THEN "done" ELSE "consumer"
    BY DEF NoRequest
  <1>. HIDE DEF k
  <1>3. LastSequence < nextSequence
    BY LastSequenceType DEF LastSequence
  <1>4. ASSUME at + 1 >= Horizon, NEW m \in messages PROVE m.time <= at
    BY <1>4, MessageNumbers, BoundsAssumption DEF MessagesOrdered
  <1>5. AfterSplits(k, messages, nextSequence)
    BY <1>2, <1>3, <1>4 DEF AfterSplits
  <1>6. RequestInv(k, messages, clock, nextSequence)
    BY <1>2, <1>5 DEF RequestInv
  <1>. QED BY <1>1, <1>6, SetReaderKeeps

LEMMA CreateAfterConsumerKept ==
  ASSUME TypeOK, MessagesOrdered, NEW r \in Readers, CreateAfterConsumer(r), AllRequests
  PROVE  AllRequests'
  <1> DEFINE k == reader[r]
             from == FromTime(k.start.value + 1)
             h == [k EXCEPT !.phase = "fetch", !.from = from]
  <1>1. /\ k \in Reader /\ RequestInv(k, messages, clock, nextSequence)
        /\ k.op = "after" /\ k.phase = "consumer"
    BY DEF AllRequests, CreateAfterConsumer, TypeOK
  <1>2. SetReader(r, h)
    BY DEF CreateAfterConsumer
  <1>. HIDE DEF k
  <1>3. k.start.value \in Nat
    BY <1>1 DEF Reader, Cursor
  <1>4. ASSUME NEW m \in messages PROVE m.time <= k.start.value <=> m.seq < from
    <2>1. from \in Nat /\ (m.time >= k.start.value + 1 <=> m.seq >= from)
      BY <1>3, FromTimeSplits, FromTimeType
    <2>. HIDE DEF from
    <2>. QED BY <1>3, <2>1, MessageNumbers
  <1>. HIDE DEF from
  <1>5. /\ h.op = "after" /\ h.phase = "fetch" /\ h.start = k.start /\ h.end = k.end
        /\ h.from = from
    BY <1>1 DEF Reader
  <1>. HIDE DEF h
  <1>6. AfterSplits(h, messages, nextSequence)
    BY <1>1, <1>4, <1>5 DEF AfterSplits, RequestInv
  <1>7. RequestInv(h, messages, clock, nextSequence)
    BY <1>5, <1>6 DEF RequestInv
  <1>. QED BY <1>2, <1>7, SetReaderKeeps

LEMMA FetchFirstKept ==
  ASSUME TypeOK, MessagesOrdered, NEW r \in Readers, FetchFirst(r), AllRequests
  PROVE  AllRequests'
  <1> DEFINE k == reader[r]
             m == Oldest(Available(r))
             first == IF Available(r) = {} THEN 0 ELSE m.seq
             h == [k EXCEPT !.phase = "done", !.first = first]
  <1>1. /\ k \in Reader /\ RequestInv(k, messages, clock, nextSequence)
        /\ k.op = "after" /\ k.phase = "fetch"
    BY DEF AllRequests, FetchFirst, TypeOK
  <1>2. SetReader(r, h)
    BY DEF FetchFirst
  <1>3. ASSUME NEW x \in messages, x.topic \in k.pattern
        PROVE  x.seq < k.from <=> (first = 0 \/ x.seq < first)
    <2>0. k.from \in Nat /\ x.seq \in Nat
      BY <1>1, MessageNumbers DEF Reader
    <2>1. CASE Available(r) = {}
      <3>1. k.pattern \in Patterns
        BY <1>1, <1>3 DEF Reader
      <3>2. x.topic \in Coarse[k.pattern]
        BY <1>3, <3>1, PatternsAssumption
      <3>. QED BY <2>0, <2>1, <3>2 DEF Available
    <2>2. CASE Available(r) # {}
      <3>1. /\ m \in messages /\ m.seq >= k.from
            /\ \A y \in messages :
                 y.topic \in k.pattern /\ y.seq >= k.from /\ y.seq <= m.seq => y = m
        BY <2>2, NextOfRequest
      <3>2. first = m.seq /\ m.seq \in Nat \ {0}
        BY <2>2, <3>1, MessageNumbers
      <3>. HIDE DEF k, m, first
      <3>3. ASSUME x.seq < first PROVE x.seq < k.from
        BY <1>3, <2>0, <3>1, <3>2, <3>3
      <3>. QED BY <2>0, <3>1, <3>2, <3>3
    <2>. QED BY <2>1, <2>2
  <1>. HIDE DEF k, first
  <1>4. /\ h.op = "after" /\ h.phase = "done" /\ h.start = k.start /\ h.end = k.end
        /\ h.pattern = k.pattern /\ h.first = first
    BY <1>1 DEF Reader
  <1>. HIDE DEF h
  <1>5. AfterSplits(k, messages, nextSequence)
    BY <1>1 DEF RequestInv
  <1>6. AfterSplits(h, messages, nextSequence)
    BY <1>1, <1>3, <1>4, <1>5 DEF AfterSplits
  <1>7. RequestInv(h, messages, clock, nextSequence)
    BY <1>4, <1>6 DEF RequestInv
  <1>. QED BY <1>2, <1>7, SetReaderKeeps

LEMMA RequestsStep ==
  /\ TypeOK /\ MessagesOrdered /\ AllRequests
  /\ [Next]_vars
  => AllRequests'
  <1>. SUFFICES ASSUME TypeOK, MessagesOrdered, AllRequests, [Next]_vars
                PROVE  AllRequests'
    OBVIOUS
  <1>0. ASSUME NEW r \in Readers
        PROVE  reader[r] \in Reader /\ RequestInv(reader[r], messages, clock, nextSequence)
    BY DEF TypeOK, AllRequests
  <1>1. ASSUME NEW t \in Topics, NEW b \in Payloads, Store(t, b) PROVE AllRequests'
    <2>1. PICK m \in Message :
            /\ m.seq = nextSequence /\ m.time = clock
            /\ messages' \subseteq messages \cup {m}
            /\ nextSequence' = nextSequence + 1
            /\ UNCHANGED <<clock, cursor, consumer>>
            /\ reader' = [r \in Readers |->
                            IF reader[r].phase \in {"idle", "done"} THEN reader[r]
                            ELSE [reader[r] EXCEPT !.known = @ \cup {m}]]
      BY <1>1, StoreAdds
    <2>2. ASSUME NEW r \in Readers
          PROVE  RequestInv(reader'[r], messages', clock', nextSequence')
      <3>1. reader'[r] = IF reader[r].phase \in {"idle", "done"} THEN reader[r]
                         ELSE [reader[r] EXCEPT !.known = @ \cup {m}]
        BY <2>1
      <3>2. messages \in SUBSET Message /\ clock \in Nat /\ nextSequence \in Nat
        BY DEF TypeOK
      <3>3. RequestInv(IF reader[r].phase \in {"idle", "done"} THEN reader[r]
                       ELSE [reader[r] EXCEPT !.known = @ \cup {m}],
                       messages', clock, nextSequence + 1)
        BY <1>0, <2>1, <3>2, RequestSeesStored
      <3>. QED BY <2>1, <3>1, <3>3
    <2>. QED BY <2>2 DEF AllRequests
  <1>2. ASSUME messages' \subseteq messages, clock' \in Nat, clock <= clock',
               UNCHANGED <<nextSequence, reader>>
        PROVE  AllRequests'
    <2>1. ASSUME NEW r \in Readers
          PROVE  RequestInv(reader[r], messages', clock', nextSequence)
      BY <1>0, <1>2, RequestOutlives, MessageNumbers
    <2>. QED BY <1>2, <2>1 DEF AllRequests
  <1>3. ASSUME Tick PROVE AllRequests'
    BY <1>2, <1>3, MessageNumbers DEF Tick
  <1>4. ASSUME Purge PROVE AllRequests'
    BY <1>2, <1>4, PurgeDiscards, MessageNumbers
  <1>5. ASSUME NEW s \in Subscribers, ConsumerStep(s) PROVE AllRequests'
    BY <1>2, <1>5, StreamUntouched, MessageNumbers DEF stream
  <1>6. ASSUME NEW r \in Readers, ReaderStep(r) PROVE AllRequests'
    <2>1. ASSUME NEW p \in Patterns, NEW start \in Starts, NEW end \in 0..MaxSequence,
                 StartBatch(r, p, start, end)
          PROVE  AllRequests'
      <3>1. end \in Nat /\ end <= LastSequence
        BY <2>1, BoundsAssumption DEF StartBatch
      <3>. QED BY <2>1, <3>1, StartBatchKept, SetReaderKeeps DEF StartBatch
    <2>2. ASSUME RequestFails(r) PROVE AllRequests'
      BY <2>2, NoRequestKept, SetReaderKeeps DEF RequestFails
    <2>. QED
      BY <1>6, <2>1, <2>2, ReadInfoKept, CreateReplayConsumerKept, FetchNextKept,
         EndBatchKept, StartFirstAfterKept, CreateAfterConsumerKept, FetchFirstKept
      DEF ReaderStep
  <1>7. CASE UNCHANGED vars
    BY <1>2, <1>7, MessageNumbers DEF vars
  <1>. QED BY <1>1, <1>3, <1>4, <1>5, <1>6, <1>7, NextSteps

LEMMA RequestsHold == Spec => [](TypeOK /\ MessagesOrdered /\ AllRequests)
  <1>1. Init => AllRequests
    BY NoRequestKept DEF Init, AllRequests
  <1>2. /\ TypeOK /\ MessagesOrdered /\ AllRequests /\ [Next]_vars
        => TypeOK' /\ MessagesOrdered' /\ AllRequests'
    BY TypeStep, OrderStep, RequestsStep
  <1>. QED BY <1>1, <1>2, TypeInit, OrderInit, PTL DEF Spec

\* Whatever is stored, purged and pruned between the round trips of a batch
\* request, its answer is a page: nothing that is still there is skipped, by the
\* page or by where the next one starts.
THEOREM RepliesArePages == Spec => []BatchesArePages
  <1>1. TypeOK /\ MessagesOrdered /\ AllRequests => BatchesArePages
    <2>. SUFFICES ASSUME TypeOK, AllRequests, NEW r \in Readers, NEW k, k = reader[r],
                         k.op = "batch", k.phase = "done"
                  PROVE  Log!IsBatch(k.page, HasMore(k), NextSequenceOf(k), k.known,
                                     k.pattern, k.start, k.end)
      BY DEF BatchesArePages
    <2>1. /\ k \in Reader
          /\ BatchSound(k, messages, clock, nextSequence)
          /\ BatchCovers(k, messages)
      BY DEF AllRequests, RequestInv, TypeOK
    <2>2. /\ k.last = k.end /\ k.end \in Nat /\ k.processed \in Nat
          /\ k.start.value \in Nat
      BY <2>1 DEF BatchSound, Reader, Cursor
    <2> DEFINE last == IF HasMore(k) THEN NextSequenceOf(k) - 1 ELSE k.end
    <2>3. HasMore(k) => /\ k.processed # 0 /\ k.processed < k.end
                        /\ NextSequenceOf(k) = k.processed + 1
      BY <2>2 DEF HasMore, NextSequenceOf
    <2>4. last = IF HasMore(k) THEN k.processed ELSE k.end
      BY <2>2, <2>3
    <2>. HIDE DEF last
    <2>5. Log!Eligible(k.pattern, k.start, last) \subseteq k.page
      BY <2>1, <2>4 DEF BatchCovers, Log!Eligible, Log!InRange
    <2>6. k.page \subseteq Log!InRange(k.known, k.pattern, k.start, last)
      <3>1. ASSUME NEW m \in k.page PROVE m.seq <= last
        <4>1. m.seq \in Nat /\ m.seq <= k.processed /\ k.processed <= k.end
          BY <2>1 DEF BatchSound, Reader, Message
        <4>. QED BY <2>2, <2>4, <4>1
      <3>. QED BY <2>1, <3>1 DEF BatchSound, Log!InRange
    <2>7. ASSUME HasMore(k)
          PROVE  /\ NextSequenceOf(k) > 1 /\ NextSequenceOf(k) <= k.end
                 /\ k.start.kind = "sequence" => NextSequenceOf(k) > k.start.value
                 /\ \A m \in messages : m.seq >= NextSequenceOf(k) => Log!Starts(k.start, m)
      <3>1. ASSUME NEW m \in messages, m.seq >= NextSequenceOf(k)
            PROVE  Log!Starts(k.start, m)
        <4>1. m.seq > k.processed
          BY <2>2, <2>3, <2>7, <3>1, MessageNumbers
        <4>. QED BY <2>1, <2>3, <2>7, <4>1 DEF BatchSound
      <3>2. k.start.kind = "sequence" => k.start.value <= k.processed
        BY <2>1, <2>3, <2>7 DEF BatchSound
      <3>. QED BY <2>2, <2>3, <2>7, <3>1, <3>2
    <2>. QED BY <2>5, <2>6, <2>7 DEF Log!IsBatch, Log!Matching, last
  <1>. QED BY <1>1, RequestsHold, PTL

\* The sequence found for an end date divides the history there was when it was
\* asked for, although the consumer also sees other topics and messages stored
\* after the question.
THEOREM EndDatesSplitHistory == Spec => []DateEndSplitsHistory
  <1>1. TypeOK /\ MessagesOrdered /\ AllRequests => DateEndSplitsHistory
    <2>. SUFFICES ASSUME AllRequests, NEW r \in Readers, reader[r].op = "after",
                         reader[r].phase = "done"
                  PROVE  Log!IsFirstAfter(reader[r].first, reader[r].pattern,
                                          reader[r].start.value, reader[r].end)
      BY DEF DateEndSplitsHistory
    <2>1. AfterSplits(reader[r], messages, nextSequence)
      BY DEF AllRequests, RequestInv
    <2>. QED BY <2>1 DEF AfterSplits, Log!IsFirstAfter, Log!Matching
  <1>. QED BY <1>1, RequestsHold, PTL

-----------------------------------------------------------------------------
(* The backend is a notification log.                                       *)

\* What a subscription has received is in sequence order, and not ahead of its
\* consumer "c" on the server.
Arrived(k, c) ==
  /\ \A i, j \in DOMAIN k.buffer : i < j => k.buffer[i].seq < k.buffer[j].seq
  /\ \A i \in DOMAIN k.buffer : k.buffer[i].seq <= c
  /\ k.phase # "open" => k.buffer = <<>>
  /\ k.phase \in {"absent", "retrying"} => k.historyEnd = 0
  /\ k.phase \in {"created", "open"} => k.pattern \in Patterns

AllArrived == \A s \in Subscribers : Arrived(consumer[s], cursor[s])

LEMMA AbsentArrived == \A c : Arrived(Absent, c)
  BY EmptySeq DEF Arrived, Absent

LEMMA SetConsumerArrives ==
  ASSUME TypeOK, AllArrived, NEW s \in Subscribers, NEW k, SetConsumer(s, k),
         NEW c, cursor' = [cursor EXCEPT ![s] = c], Arrived(k, c)
  PROVE  AllArrived'
  <1>1. consumer' = [consumer EXCEPT ![s] = k]
    BY DEF SetConsumer
  <1>2. consumer'[s] = k /\ cursor'[s] = c
    BY <1>1 DEF TypeOK
  <1>3. \A u \in Subscribers \ {s} : consumer'[u] = consumer[u] /\ cursor'[u] = cursor[u]
    BY <1>1 DEF TypeOK
  <1>. QED BY <1>2, <1>3 DEF AllArrived

LEMMA MessageSeqs == \A m \in Message : m.seq \in Nat
  BY DEF Message

LEMMA ConsumerArrives ==
  ASSUME TypeOK, AllArrived, NEW s \in Subscribers, ConsumerStep(s)
  PROVE  AllArrived'
  <1>. USE DEF ConsumerName
  <1>0. /\ consumer[s] \in Consumer /\ cursor[s] \in Nat
        /\ Arrived(consumer[s], cursor[s])
        /\ cursor = [cursor EXCEPT ![s] = cursor[s]]
    BY DEF TypeOK, AllArrived
  <1>1. ASSUME NEW p \in Patterns, CreateConsumer(s, p) PROVE AllArrived'
    <2> DEFINE k == [consumer[s] EXCEPT !.phase = "created", !.pattern = p,
                                        !.historyEnd = LastSequence]
    <2>1. SetConsumer(s, k) /\ cursor' = [cursor EXCEPT ![s] = LastSequence]
      BY <1>1 DEF CreateConsumer
    <2>2. /\ k.phase = "created" /\ k.pattern = p
          /\ k.buffer = consumer[s].buffer /\ consumer[s].phase # "open"
      BY <1>0, <1>1 DEF Consumer, CreateConsumer
    <2>. HIDE DEF k
    <2>3. Arrived(k, LastSequence)
      BY <1>0, <2>2, EmptySeq DEF Arrived
    <2>. QED BY <2>1, <2>3, SetConsumerArrives
  <1>2. ASSUME NEW p \in Patterns, AttemptFails(s, p) PROVE AllArrived'
    <2> DEFINE k == IF consumer[s].attempt = MaxAttempts THEN Absent
                    ELSE [Absent EXCEPT !.phase = "retrying", !.pattern = p,
                                        !.attempt = consumer[s].attempt + 1]
    <2>1. SetConsumer(s, k) /\ cursor' = [cursor EXCEPT ![s] = cursor[s]]
      BY <1>0, <1>2 DEF AttemptFails
    <2>2. k.phase \in {"absent", "retrying"} /\ k.buffer = <<>> /\ k.historyEnd = 0
      BY DEF Absent
    <2>. HIDE DEF k
    <2>3. Arrived(k, cursor[s])
      BY <2>2, EmptySeq DEF Arrived
    <2>. QED BY <2>1, <2>3, SetConsumerArrives
  <1>3. ASSUME OpenMessages(s) PROVE AllArrived'
    <2> DEFINE k == [consumer[s] EXCEPT !.phase = "open"]
    <2>1. SetConsumer(s, k) /\ cursor' = [cursor EXCEPT ![s] = cursor[s]]
      BY <1>0, <1>3 DEF OpenMessages
    <2>2. /\ k.phase = "open" /\ k.buffer = consumer[s].buffer
          /\ k.pattern = consumer[s].pattern /\ consumer[s].phase = "created"
      BY <1>0, <1>3 DEF OpenMessages, Consumer
    <2>. HIDE DEF k
    <2>3. Arrived(k, cursor[s])
      BY <1>0, <2>2 DEF Arrived
    <2>. QED BY <2>1, <2>3, SetConsumerArrives
  <1>4. ASSUME Deliver(s) PROVE AllArrived'
    <2> DEFINE m == Oldest(Pending(s))
    <2>1. m \in Pending(s) /\ m \in Message /\ m.seq \in Nat /\ m.seq > cursor[s]
      BY <1>4, OldestOf, PendingType DEF Deliver, Pending, Message
    <2>2. PICK arrived \in BOOLEAN :
            SetConsumer(s, [consumer[s] EXCEPT
              !.sent = @ \cup {m.seq},
              !.buffer = IF arrived THEN Append(@, m) ELSE @])
      BY <1>4 DEF Deliver
    <2>3. cursor' = [cursor EXCEPT ![s] = m.seq] /\ consumer[s].phase = "open"
      BY <1>4 DEF Deliver
    <2>. HIDE DEF m
    <2> DEFINE k == [consumer[s] EXCEPT
                      !.sent = @ \cup {m.seq},
                      !.buffer = IF arrived THEN Append(@, m) ELSE @]
    <2>4. /\ k.phase = "open" /\ k.pattern = consumer[s].pattern
          /\ k.buffer = IF arrived THEN Append(consumer[s].buffer, m)
                        ELSE consumer[s].buffer
      BY <1>0, <2>3 DEF Consumer
    <2>5. SetConsumer(s, k)
      BY <2>2
    <2>. HIDE DEF k
    <2>6. consumer[s].buffer \in Seq(Message)
      BY <1>0 DEF Consumer
    <2>7. CASE arrived
      <3>1. k.buffer = Append(consumer[s].buffer, m)
        BY <2>4, <2>7
      <3> DEFINE q == consumer[s].buffer
      <3>4. /\ \A i, j \in DOMAIN q : i < j => q[i].seq < q[j].seq
            /\ \A i \in DOMAIN q : q[i].seq <= cursor[s]
        BY <1>0 DEF Arrived
      <3>5. q \in Seq(Message) /\ k.buffer = Append(q, m)
        BY <2>6, <3>1
      <3>. HIDE DEF q
      <3>2. /\ \A i, j \in DOMAIN k.buffer : i < j => k.buffer[i].seq < k.buffer[j].seq
            /\ \A i \in DOMAIN k.buffer : k.buffer[i].seq <= m.seq
        BY <1>0, <2>1, <3>4, <3>5, MessageSeqs, QueueGrows
      <3>3. Arrived(k, m.seq)
        BY <1>0, <2>3, <2>4, <3>2 DEF Arrived
      <3>. QED BY <2>3, <2>5, <3>3, SetConsumerArrives
    <2>8. CASE ~arrived
      <3>1. k.buffer = consumer[s].buffer
        BY <2>4, <2>8
      <3>2. \A i \in DOMAIN k.buffer : k.buffer[i].seq \in Nat
        BY <2>6, <3>1, MessageSeqs, ElementSeqs
      <3>3. \A i \in DOMAIN k.buffer : k.buffer[i].seq <= m.seq
        BY <1>0, <2>1, <3>1, <3>2 DEF Arrived
      <3>4. Arrived(k, m.seq)
        BY <1>0, <2>3, <2>4, <3>1, <3>3 DEF Arrived
      <3>. QED BY <2>3, <2>5, <3>4, SetConsumerArrives
    <2>. QED BY <2>7, <2>8
  <1>5. ASSUME Receive(s) PROVE AllArrived'
    <2> DEFINE k == [consumer[s] EXCEPT !.buffer = Tail(@)]
               q == consumer[s].buffer
    <2>1. SetConsumer(s, k) /\ cursor' = [cursor EXCEPT ![s] = cursor[s]]
      BY <1>0, <1>5 DEF Receive
    <2>2. /\ k.phase = consumer[s].phase /\ k.buffer = Tail(q)
          /\ k.pattern = consumer[s].pattern /\ k.historyEnd = consumer[s].historyEnd
          /\ q \in Seq(Message) /\ q # <<>>
      BY <1>0, <1>5 DEF Receive, Consumer
    <2>. HIDE DEF k
    <2>3. /\ \A i, j \in DOMAIN Tail(q) : i < j => Tail(q)[i].seq < Tail(q)[j].seq
          /\ \A i \in DOMAIN Tail(q) : i + 1 \in DOMAIN q /\ Tail(q)[i] = q[i + 1]
      BY <1>0, <2>2, MessageSeqs, QueueShrinks DEF Arrived
    <2>4. Arrived(k, cursor[s])
      BY <1>0, <2>2, <2>3 DEF Arrived
    <2>. QED BY <2>1, <2>4, SetConsumerArrives
  <1>6. ASSUME Unsubscribe(s) PROVE AllArrived'
    BY <1>6, AbsentArrived, SetConsumerArrives DEF Unsubscribe
  <1>. QED BY <1>1, <1>2, <1>3, <1>4, <1>5, <1>6 DEF ConsumerStep

LEMMA ArrivalStep ==
  TypeOK /\ AllArrived /\ [Next]_vars => AllArrived'
  <1>. SUFFICES ASSUME TypeOK, AllArrived, [Next]_vars PROVE AllArrived'
    OBVIOUS
  <1>1. ASSUME UNCHANGED <<cursor, consumer>> PROVE AllArrived'
    BY <1>1 DEF AllArrived
  <1>2. ASSUME NEW t \in Topics, NEW b \in Payloads, Store(t, b) PROVE AllArrived'
    BY <1>1, <1>2 DEF Store
  <1>3. ASSUME Tick PROVE AllArrived'
    BY <1>1, <1>3 DEF Tick
  <1>4. ASSUME Purge PROVE AllArrived'
    BY <1>1, <1>4, PurgeDiscards
  <1>5. ASSUME NEW r \in Readers, ReaderStep(r) PROVE AllArrived'
    BY <1>1, <1>5, StreamUntouched
  <1>6. CASE UNCHANGED vars
    BY <1>1, <1>6 DEF vars
  <1>. QED BY <1>2, <1>3, <1>4, <1>5, <1>6, ConsumerArrives, NextSteps

\* The queues, patterns and boundaries of the log.
Queues ==
  [s \in Subscribers |-> IF Subscribed(s) THEN BySequence(Awaited(s)) ELSE <<>>]
Watched ==
  [s \in Subscribers |-> IF Subscribed(s) THEN consumer[s].pattern ELSE {}]
Boundaries == [s \in Subscribers |-> consumer[s].historyEnd]

LEMMA LogOrder == \A S : Log!BySequence(S) = BySequence(S)
  <1>1. \A S : Log!Cardinality(S) = Cardinality(S)
    BY DEF Log!Cardinality, Cardinality
  <1>2. \A S, n : Log!Rank(S, n) = Rank(S, n)
    BY <1>1 DEF Log!Rank, Rank
  <1>. QED BY <1>1, <1>2 DEF Log!BySequence, BySequence

\* What a subscription awaits is numbered: what has arrived, in order, and what
\* is still on the server, all of it newer.
LEMMA AwaitedNumbered ==
  ASSUME TypeOK, MessagesOrdered, AllArrived, NEW s \in Subscribers
  PROVE  Awaited(s) \subseteq Message /\ Numbered(Awaited(s))
  <1> DEFINE q == consumer[s].buffer
  <1>1. q \in Seq(Message) /\ cursor[s] \in Nat
    BY DEF TypeOK, Consumer
  <1>2. /\ \A i, j \in DOMAIN q : i < j => q[i].seq < q[j].seq
        /\ \A i \in DOMAIN q : q[i].seq <= cursor[s]
    BY DEF AllArrived, Arrived
  <1>3. Numbered(ToSet(q))
    BY <1>1, <1>2, MessageSeqs, QueueNumbered
  <1>4. /\ \A m \in ToSet(q) : m \in Message /\ m.seq \in Nat /\ m.seq <= cursor[s]
    BY <1>1, <1>2, MessageSeqs, ElementSeqs DEF ToSet
  <1>5. /\ \A m \in Pending(s) : m \in messages /\ m \in Message /\ m.seq \in Nat
                                /\ m.seq > cursor[s]
    BY MessageSeqs DEF Pending, ConsumerName, TypeOK
  <1>6. IsFiniteSet(Pending(s))
    <2> DEFINE f == [m \in Pending(s) |-> m.seq]
    <2>1. f \in Injection(Pending(s), 0..nextSequence)
      <3>1. \A m \in Pending(s) : m.seq \in 0..nextSequence
        BY <1>5, MessageNumbers DEF MessagesOrdered
      <3>. QED BY <1>5, <3>1 DEF Injection, IsInjective, MessagesOrdered
    <2>2. IsFiniteSet(0..nextSequence)
      BY FS_Interval, MessageNumbers
    <2>. HIDE DEF f
    <2>. QED BY <2>1, <2>2, FS_Injection
  <1>. HIDE DEF q
  <1> DEFINE U == ToSet(q) \cup Pending(s)
  <1>7. IsFiniteSet(U)
    BY <1>3, <1>6, FS_Union DEF Numbered
  <1>8. ASSUME NEW x \in U, NEW y \in U, x.seq = y.seq PROVE x = y
    <2>1. CASE x \in ToSet(q) /\ y \in ToSet(q)
      BY <1>3, <1>8, <2>1 DEF Numbered
    <2>2. CASE x \in Pending(s) /\ y \in Pending(s)
      BY <1>5, <1>8, <2>2 DEF MessagesOrdered
    <2>3. CASE x \in ToSet(q) /\ y \in Pending(s)
      BY <1>1, <1>4, <1>5, <1>8, <2>3
    <2>4. CASE x \in Pending(s) /\ y \in ToSet(q)
      BY <1>1, <1>4, <1>5, <1>8, <2>4
    <2>. QED BY <2>1, <2>2, <2>3, <2>4
  <1>9. \A x \in U : x \in Message /\ x.seq \in Nat
    BY <1>4, <1>5
  <1>10. Numbered(U)
    BY <1>7, <1>8, <1>9 DEF Numbered
  <1>11. Awaited(s) \in SUBSET U
    BY DEF Awaited, q
  <1>. QED BY <1>9, <1>10, <1>11, NumberedSubset

LEMMA QueuesHold ==
  ASSUME TypeOK, MessagesOrdered, AllArrived, NEW s \in Subscribers, Subscribed(s)
  PROVE  Queues[s] \in Seq(Message) /\ ToSet(Queues[s]) = Awaited(s)
  <1> DEFINE A == Awaited(s)
  <1>1. A \subseteq Message /\ Numbered(A)
    BY AwaitedNumbered
  <1>2. Queues[s] = BySequence(A)
    BY DEF Queues
  <1>. HIDE DEF A
  <1>3. /\ BySequence(A) \in Seq(A)
        /\ DOMAIN BySequence(A) = 1..Cardinality(A)
        /\ \A i \in 1..Cardinality(A) : BySequence(A)[i] \in A
        /\ \A m \in A : \E i \in 1..Cardinality(A) : BySequence(A)[i] = m
    BY <1>1, BySequenceOrders
  <1>4. BySequence(A) \in Seq(Message)
    BY <1>1, <1>3, SeqMonotonic
  <1>5. ToSet(BySequence(A)) = A
    BY <1>3 DEF ToSet
  <1>. QED BY <1>2, <1>4, <1>5 DEF A

\* Queues that keep a part of what they were offered are thinned.
LEMMA KeptQueues ==
  ASSUME NEW offered,
         \A s \in Subscribers : Subscribed(s)' => Awaited(s)' \subseteq ToSet(offered[s])
  PROVE  Queues' \in Log!ThinnedQueues(offered)
  <1>1. Queues' = [s \in Subscribers |->
                     IF Subscribed(s)' THEN BySequence(Awaited(s)') ELSE <<>>]
    BY DEF Queues
  <1>2. ASSUME NEW s \in Subscribers PROVE Queues'[s] \in Log!Thinned(offered[s])
    <2>1. Log!ToSet(offered[s]) = ToSet(offered[s])
      BY DEF Log!ToSet, ToSet
    <2>2. CASE Subscribed(s)'
      <3>1. Queues'[s] = Log!BySequence(Awaited(s)')
        BY <1>1, <2>2, LogOrder
      <3>. QED BY <2>1, <2>2, <3>1 DEF Log!Thinned
    <2>3. CASE ~Subscribed(s)'
      <3>1. Queues'[s] = Log!BySequence({})
        BY <1>1, <2>3, LogOrder, BySequenceOfNone
      <3>. QED BY <2>1, <3>1 DEF Log!Thinned
    <2>. QED BY <2>2, <2>3
  <1>3. Queues' \in [Subscribers -> UNION {Log!Thinned(offered[s]) : s \in Subscribers}]
    BY <1>1, <1>2
  <1>. QED BY <1>2, <1>3 DEF Log!ThinnedQueues

\* A step in which messages or what is awaited only disappear.
LEMMA LosingForgets ==
  ASSUME TypeOK, MessagesOrdered, AllArrived,
         messages' \subseteq messages,
         UNCHANGED <<nextSequence, clock, Watched, Boundaries>>,
         \A s \in Subscribers : Subscribed(s)' =>
           Subscribed(s) /\ Awaited(s)' \subseteq Awaited(s)
  PROVE  Log!Forget
  <1>1. \A s \in Subscribers : Subscribed(s)' => Awaited(s)' \subseteq ToSet(Queues[s])
    BY QueuesHold
  <1>2. Queues' \in Log!ThinnedQueues(Queues)
    BY <1>1, KeptQueues
  <1>. QED BY <1>2 DEF Log!Forget, Queues, Watched, Boundaries

LEMMA StorePuts ==
  ASSUME TypeOK, MessagesOrdered, AllArrived,
         NEW t \in Topics, NEW b \in Payloads, Store(t, b)
  PROVE  Log!Put(t, b)
  <1> DEFINE m == [seq |-> nextSequence, topic |-> t, time |-> clock, payload |-> b]
             offered == [s \in Subscribers |-> Log!Offer(s, m)]
  <1>1. /\ nextSequence <= MaxSequence /\ nextSequence' = nextSequence + 1
        /\ messages' = Retained(messages, m)
        /\ UNCHANGED <<clock, cursor, consumer>>
    BY DEF Store
  <1>2. m \in Message /\ m.topic = t
    BY DEF Message, TypeOK
  <1>3. m \in messages' /\ messages' \subseteq messages \cup {m}
    <2>. HIDE DEF m
    <2>1. m \in Retained(messages, m)
      BY DEF Retained
    <2>. QED BY <1>1, <2>1, RetainedSubset
  <1>4. \E kept \in SUBSET messages : messages' = kept \cup {m}
    <2>1. messages' = (messages \cap messages') \cup {m}
      BY <1>3
    <2>. QED BY <2>1
  <1>5. UNCHANGED <<Watched, Boundaries>> /\ \A s \in Subscribers : Subscribed(s)' = Subscribed(s)
    BY <1>1 DEF Watched, Boundaries, Subscribed
  <1>6. ASSUME NEW s \in Subscribers, Subscribed(s)'
        PROVE  Awaited(s)' \subseteq ToSet(offered[s])
    <2>1. Subscribed(s) /\ Watched[s] = consumer[s].pattern
      BY <1>5, <1>6 DEF Watched
    <2>2. Queues[s] \in Seq(Message) /\ ToSet(Queues[s]) = Awaited(s)
      BY <2>1, QueuesHold
    <2>3. offered[s] = IF t \in Watched[s] THEN Append(Queues[s], m) ELSE Queues[s]
      BY <1>2 DEF Log!Offer, Queues, Watched
    <2>. HIDE DEF m, offered
    <2>4. ToSet(Append(Queues[s], m)) = Awaited(s) \cup {m}
      <3>1. /\ Append(Queues[s], m) \in Seq(Message)
            /\ Len(Append(Queues[s], m)) = Len(Queues[s]) + 1
            /\ \A i \in 1..Len(Queues[s]) : Append(Queues[s], m)[i] = Queues[s][i]
            /\ Append(Queues[s], m)[Len(Queues[s]) + 1] = m
        BY <1>2, <2>2, AppendProperties
      <3>2. /\ DOMAIN Append(Queues[s], m) = 1..(Len(Queues[s]) + 1)
            /\ DOMAIN Queues[s] = 1..Len(Queues[s]) /\ Len(Queues[s]) \in Nat
        BY <2>2, <3>1, LenProperties
      <3>3. ToSet(Append(Queues[s], m)) = ToSet(Queues[s]) \cup {m}
        BY <3>1, <3>2 DEF ToSet
      <3>. QED BY <2>2, <3>3
    <2>5. ASSUME NEW x \in Awaited(s)'
          PROVE  x \in Awaited(s) \/ (x = m /\ t \in Watched[s])
      <3>1. x.topic \in consumer[s].pattern
        BY <1>1 DEF Awaited, Yields
      <3>2. x \in ToSet(consumer[s].buffer) \/ x \in Pending(s) \/ x = m
        BY <1>1, <1>3 DEF Awaited, Pending, ConsumerName
      <3>. QED BY <1>2, <2>1, <3>1, <3>2 DEF Awaited, Yields
    <2>. QED BY <2>2, <2>3, <2>4, <2>5
  <1>7. Queues' \in Log!ThinnedQueues(offered)
    BY <1>6, KeptQueues
  <1>. QED BY <1>1, <1>4, <1>5, <1>7 DEF Log!Put, Queues, Watched, Boundaries

\* A step of one subscription leaves the others as they are.
LEMMA OthersWait ==
  ASSUME TypeOK, NEW s \in Subscribers, NEW k, SetConsumer(s, k),
         NEW c, cursor' = [cursor EXCEPT ![s] = c]
  PROVE  /\ UNCHANGED <<messages, nextSequence, clock>>
         /\ consumer'[s] = k /\ cursor'[s] = c
         /\ Subscribed(s)' <=> k.phase \in {"created", "open"}
         /\ \A u \in Subscribers \ {s} :
              /\ Subscribed(u)' = Subscribed(u) /\ Awaited(u)' = Awaited(u)
              /\ Queues'[u] = Queues[u] /\ Watched'[u] = Watched[u]
              /\ Boundaries'[u] = Boundaries[u]
  <1>1. consumer' = [consumer EXCEPT ![s] = k] /\ UNCHANGED <<messages, nextSequence, clock>>
    BY DEF SetConsumer, stream
  <1>2. consumer'[s] = k /\ cursor'[s] = c
    BY <1>1 DEF TypeOK
  <1>3. \A u \in Subscribers \ {s} : consumer'[u] = consumer[u] /\ cursor'[u] = cursor[u]
    BY <1>1 DEF TypeOK
  <1>4. ASSUME NEW u \in Subscribers \ {s}
        PROVE  Subscribed(u)' = Subscribed(u) /\ Awaited(u)' = Awaited(u)
    BY <1>1, <1>3 DEF Subscribed, Awaited, Pending, Yields, ConsumerName
  <1>5. ASSUME NEW u \in Subscribers \ {s}
        PROVE  /\ Queues'[u] = Queues[u] /\ Watched'[u] = Watched[u]
               /\ Boundaries'[u] = Boundaries[u]
    BY <1>3, <1>4 DEF Queues, Watched, Boundaries
  <1>. QED BY <1>1, <1>2, <1>4, <1>5 DEF Subscribed

\* A subscription that is not open to the caller before and after is none.
LEMMA RetryingHides ==
  ASSUME TypeOK, NEW s \in Subscribers, NEW k, SetConsumer(s, k),
         NEW c, cursor' = [cursor EXCEPT ![s] = c],
         ~Subscribed(s), k.phase \notin {"created", "open"},
         k.historyEnd = consumer[s].historyEnd
  PROVE  UNCHANGED Log!logVars
  <1>1. /\ UNCHANGED <<messages, nextSequence, clock>>
        /\ consumer'[s] = k /\ ~Subscribed(s)'
        /\ \A u \in Subscribers \ {s} :
              /\ Queues'[u] = Queues[u] /\ Watched'[u] = Watched[u]
              /\ Boundaries'[u] = Boundaries[u]
    BY OthersWait, ZenonT(60)
  <1>2. Queues'[s] = Queues[s] /\ Watched'[s] = Watched[s] /\ Boundaries'[s] = Boundaries[s]
    BY <1>1 DEF Queues, Watched, Boundaries
  <1>3. UNCHANGED <<Queues, Watched, Boundaries>>
    BY <1>1, <1>2 DEF Queues, Watched, Boundaries
  <1>. QED BY <1>1, <1>3 DEF Log!logVars, Queues, Watched, Boundaries

\* A step of an open subscription that awaits no more than before.
LEMMA WaitingForgets ==
  ASSUME TypeOK, MessagesOrdered, AllArrived, NEW s \in Subscribers, NEW k,
         SetConsumer(s, k), NEW c, cursor' = [cursor EXCEPT ![s] = c],
         Subscribed(s), k.phase \in {"created", "open"},
         k.pattern = consumer[s].pattern, k.historyEnd = consumer[s].historyEnd,
         Awaited(s)' \subseteq Awaited(s)
  PROVE  Log!Forget
  <1>1. /\ UNCHANGED <<messages, nextSequence, clock>>
        /\ consumer'[s] = k /\ Subscribed(s)'
        /\ \A u \in Subscribers \ {s} :
              /\ Subscribed(u)' = Subscribed(u) /\ Awaited(u)' = Awaited(u)
              /\ Watched'[u] = Watched[u] /\ Boundaries'[u] = Boundaries[u]
    BY OthersWait
  <1>2. Watched'[s] = Watched[s] /\ Boundaries'[s] = Boundaries[s]
    BY <1>1 DEF Watched, Boundaries
  <1>3. UNCHANGED <<Watched, Boundaries>>
    BY <1>1, <1>2 DEF Watched, Boundaries
  <1>4. \A u \in Subscribers : Subscribed(u)' =>
           Subscribed(u) /\ Awaited(u)' \subseteq Awaited(u)
    BY <1>1
  <1>. QED BY <1>1, <1>3, <1>4, LosingForgets

LEMMA DropUnsubscribes ==
  ASSUME TypeOK, AllArrived, NEW s \in Subscribers, NEW k, SetConsumer(s, k),
         NEW c, cursor' = [cursor EXCEPT ![s] = c],
         Subscribed(s), k.phase \notin {"created", "open"}, k.historyEnd = 0
  PROVE  Log!Unsubscribe(s)
  <1>1. /\ UNCHANGED <<messages, nextSequence, clock>>
        /\ consumer'[s] = k /\ ~Subscribed(s)'
        /\ \A u \in Subscribers \ {s} :
              /\ Queues'[u] = Queues[u] /\ Watched'[u] = Watched[u]
              /\ Boundaries'[u] = Boundaries[u]
    BY OthersWait
  <1>2. Watched[s] # {}
    BY PatternsAssumption DEF Watched, AllArrived, Arrived, Subscribed
  <1>3. Queues'[s] = <<>> /\ Watched'[s] = {} /\ Boundaries'[s] = 0
    BY <1>1 DEF Queues, Watched, Boundaries
  <1>4. /\ Queues' = [Queues EXCEPT ![s] = <<>>]
        /\ Watched' = [Watched EXCEPT ![s] = {}]
        /\ Boundaries' = [Boundaries EXCEPT ![s] = 0]
    BY <1>1, <1>3 DEF Queues, Watched, Boundaries
  <1>. QED BY <1>1, <1>2, <1>4 DEF Log!Unsubscribe, Queues, Watched, Boundaries

LEMMA CreateSubscribes ==
  ASSUME TypeOK, MessagesOrdered, AllArrived, NEW s \in Subscribers, NEW p \in Patterns,
         CreateConsumer(s, p)
  PROVE  Log!Subscribe(s, p)
  <1>. USE DEF ConsumerName
  <1> DEFINE k == [consumer[s] EXCEPT !.phase = "created", !.pattern = p,
                                      !.historyEnd = LastSequence]
  <1>1. SetConsumer(s, k) /\ cursor' = [cursor EXCEPT ![s] = LastSequence] /\ ~Subscribed(s)
    BY DEF CreateConsumer, Subscribed
  <1>2. /\ k.phase = "created" /\ k.pattern = p /\ k.historyEnd = LastSequence
        /\ k.buffer = <<>>
    <2>1. consumer[s] \in Consumer /\ consumer[s].buffer = <<>>
      BY DEF TypeOK, AllArrived, Arrived, CreateConsumer
    <2>. QED BY <2>1 DEF Consumer
  <1>. HIDE DEF k
  <1>3. /\ UNCHANGED <<messages, nextSequence, clock>>
        /\ consumer'[s] = k /\ cursor'[s] = LastSequence /\ Subscribed(s)'
        /\ \A u \in Subscribers \ {s} :
              /\ Queues'[u] = Queues[u] /\ Watched'[u] = Watched[u]
              /\ Boundaries'[u] = Boundaries[u]
    BY <1>1, <1>2, OthersWait, ZenonT(60)
  <1>4. Awaited(s)' = {}
    <2>1. ToSet(consumer'[s].buffer) = {}
      BY <1>2, <1>3, EmptySeq DEF ToSet
    <2>2. \A x \in messages' : ~(x.seq > cursor'[s])
      <3>1. \A x \in messages : x.seq < nextSequence /\ x.seq \in Nat /\ nextSequence \in Nat
        BY MessageNumbers DEF MessagesOrdered
      <3>. QED BY <1>3, <3>1 DEF LastSequence
    <2>3. Pending(s)' = {}
      BY <2>2 DEF Pending
    <2>. QED BY <2>1, <2>3 DEF Awaited
  <1>5. Queues'[s] = <<>> /\ Watched'[s] = p /\ Boundaries'[s] = nextSequence - 1
    BY <1>2, <1>3, <1>4, BySequenceOfNone DEF Queues, Watched, Boundaries, LastSequence
  <1>6. Watched[s] = {}
    BY <1>1 DEF Watched
  <1>7. /\ Queues' = [Queues EXCEPT ![s] = <<>>]
        /\ Watched' = [Watched EXCEPT ![s] = p]
        /\ Boundaries' = [Boundaries EXCEPT ![s] = nextSequence - 1]
    BY <1>3, <1>5 DEF Queues, Watched, Boundaries
  <1>. QED BY <1>3, <1>6, <1>7 DEF Log!Subscribe, Queues, Watched, Boundaries

\* A delivery moves the oldest message from the server to the client, or loses it.
LEMMA DeliverForgets ==
  ASSUME TypeOK, MessagesOrdered, AllArrived, NEW s \in Subscribers, Deliver(s)
  PROVE  Log!Forget
  <1>. USE DEF ConsumerName
  <1> DEFINE m == Oldest(Pending(s))
             q == consumer[s].buffer
  <1>0. consumer[s] \in Consumer /\ cursor[s] \in Nat /\ q \in Seq(Message)
    BY DEF TypeOK, Consumer
  <1>1. m \in Pending(s) /\ m \in Message /\ m.seq \in Nat /\ m.seq > cursor[s]
    BY OldestOf, PendingType DEF Deliver, Pending, Message
  <1>2. PICK arrived \in BOOLEAN :
          SetConsumer(s, [consumer[s] EXCEPT
            !.sent = @ \cup {m.seq},
            !.buffer = IF arrived THEN Append(@, m) ELSE @])
    BY DEF Deliver
  <1>3. cursor' = [cursor EXCEPT ![s] = m.seq] /\ Subscribed(s)
    BY DEF Deliver, Subscribed
  <1>. HIDE DEF m
  <1> DEFINE k == [consumer[s] EXCEPT
                    !.sent = @ \cup {m.seq},
                    !.buffer = IF arrived THEN Append(@, m) ELSE @]
  <1>4. /\ k.phase = consumer[s].phase /\ k.pattern = consumer[s].pattern
        /\ k.historyEnd = consumer[s].historyEnd
        /\ k.buffer = IF arrived THEN Append(q, m) ELSE q
    BY <1>0 DEF Consumer
  <1>5. SetConsumer(s, k)
    BY <1>2
  <1>. HIDE DEF k
  <1>6. ToSet(k.buffer) \subseteq ToSet(q) \cup {m}
    <2>1. /\ \A i, j \in DOMAIN q : i < j => q[i].seq < q[j].seq
          /\ \A i \in DOMAIN q : q[i].seq <= cursor[s]
      BY DEF AllArrived, Arrived
    <2>. HIDE DEF q
    <2>2. ToSet(Append(q, m)) = ToSet(q) \cup {m}
      BY <1>0, <1>1, <2>1, MessageSeqs, QueueGrows
    <2>. QED BY <1>4, <2>2
  <1>7. consumer'[s] = k /\ cursor'[s] = m.seq /\ UNCHANGED messages
    BY <1>3, <1>5, OthersWait, ZenonT(60)
  <1>8. Pending(s)' \subseteq Pending(s)
    <2>1. ASSUME NEW x \in messages, x.seq > m.seq PROVE x.seq > cursor[s]
      BY <1>0, <1>1, <2>1, MessageNumbers
    <2>. QED BY <1>4, <1>7, <2>1 DEF Pending
  <1>9. Awaited(s)' \subseteq Awaited(s)
    BY <1>1, <1>4, <1>6, <1>7, <1>8 DEF Awaited, Yields
  <1>. QED BY <1>3, <1>4, <1>5, <1>9, WaitingForgets DEF Subscribed

LEMMA ReceiveYields ==
  ASSUME TypeOK, MessagesOrdered, AllArrived, NEW s \in Subscribers, Receive(s)
  PROVE  Log!Receive(s) \/ UNCHANGED Log!logVars
  <1> DEFINE k == [consumer[s] EXCEPT !.buffer = Tail(@)]
             q == consumer[s].buffer
             h == q[1]
             A == Awaited(s)
  <1>1. /\ SetConsumer(s, k) /\ cursor' = [cursor EXCEPT ![s] = cursor[s]]
        /\ cursor[s] \in Nat
    BY DEF Receive, TypeOK
  <1>2. /\ k.phase = consumer[s].phase /\ k.buffer = Tail(q)
        /\ k.pattern = consumer[s].pattern /\ k.historyEnd = consumer[s].historyEnd
        /\ q \in Seq(Message) /\ q # <<>>
    BY DEF Receive, TypeOK, Consumer
  <1>3. Subscribed(s)
    BY <1>2 DEF AllArrived, Arrived, Subscribed
  <1>4. /\ \A i, j \in DOMAIN q : i < j => q[i].seq < q[j].seq
        /\ \A i \in DOMAIN q : q[i].seq <= cursor[s]
    BY DEF AllArrived, Arrived
  <1>. HIDE DEF k
  <1>5. /\ 1 \in DOMAIN q
        /\ ToSet(Tail(q)) = ToSet(q) \ {h}
        /\ \A x \in ToSet(q) : h.seq <= x.seq
    BY <1>2, <1>4, MessageSeqs, QueueShrinks
  <1>6. h \in ToSet(q) /\ h.seq \in Nat /\ h.seq <= cursor[s]
    BY <1>2, <1>4, <1>5, MessageSeqs, ElementSeqs DEF ToSet
  <1>7. \A x \in Pending(s) : x.seq \in Nat /\ x.seq > cursor[s]
    BY MessageNumbers DEF Pending, ConsumerName
  <1>8. /\ UNCHANGED <<messages, nextSequence, clock>>
        /\ consumer'[s] = k /\ cursor'[s] = cursor[s] /\ Subscribed(s)'
        /\ \A u \in Subscribers \ {s} :
              /\ Queues'[u] = Queues[u] /\ Watched'[u] = Watched[u]
              /\ Boundaries'[u] = Boundaries[u]
    <2>1. k.phase \in {"created", "open"}
      BY <1>2, <1>3 DEF Subscribed
    <2>. QED BY <1>1, <2>1, OthersWait
  <1>9. Awaited(s)' = A \ {h}
    <2>1. Pending(s)' = Pending(s)
      BY <1>2, <1>8 DEF Pending, ConsumerName
    <2>2. h \notin Pending(s)
      BY <1>1, <1>6, <1>7
    <2>3. Awaited(s)' = {m \in ToSet(Tail(q)) \cup Pending(s) : m.topic \in consumer[s].pattern}
      BY <1>2, <1>8, <2>1 DEF Awaited, Yields
    <2>. QED BY <1>5, <2>2, <2>3 DEF Awaited, Yields
  <1>10. UNCHANGED <<Watched, Boundaries>>
    <2>1. Watched'[s] = Watched[s] /\ Boundaries'[s] = Boundaries[s]
      BY <1>2, <1>3, <1>8 DEF Watched, Boundaries
    <2>. QED BY <1>8, <2>1 DEF Watched, Boundaries
  <1>11. CASE h \in A
    <2>1. \A m \in A : h.seq <= m.seq
      <3>1. \A m \in Pending(s) : h.seq <= m.seq
        BY <1>1, <1>6, <1>7
      <3>. QED BY <1>5, <3>1 DEF Awaited
    <2>2. Numbered(A)
      BY AwaitedNumbered
    <2>. HIDE DEF A, h, q
    <2>3. BySequence(A) # <<>> /\ Tail(BySequence(A)) = BySequence(A \ {h})
      BY <1>11, <2>1, <2>2, BySequenceTail
    <2>4. Queues[s] = BySequence(A) /\ Queues'[s] = BySequence(A \ {h})
      BY <1>3, <1>8, <1>9 DEF Queues, A
    <2>5. Queues[s] # <<>> /\ Queues' = [Queues EXCEPT ![s] = Tail(Queues[s])]
      BY <1>8, <2>3, <2>4 DEF Queues
    <2>. QED BY <1>8, <1>10, <2>5 DEF Log!Receive, Queues, Watched, Boundaries
  <1>12. CASE h \notin A
    <2>1. Awaited(s)' = Awaited(s)
      BY <1>9, <1>12
    <2>2. Queues'[s] = Queues[s]
      BY <1>3, <1>8, <2>1 DEF Queues
    <2>3. UNCHANGED Queues
      BY <1>8, <2>2 DEF Queues
    <2>. QED BY <1>8, <1>10, <2>3 DEF Log!logVars, Queues, Watched, Boundaries
  <1>. QED BY <1>11, <1>12

LEMMA ConsumerOfLog ==
  ASSUME TypeOK, MessagesOrdered, AllArrived, NEW s \in Subscribers, ConsumerStep(s)
  PROVE  Log!LogNext \/ UNCHANGED Log!logVars
  <1>. USE DEF ConsumerName
  <1>0. /\ consumer[s] \in Consumer /\ Arrived(consumer[s], cursor[s])
        /\ cursor = [cursor EXCEPT ![s] = cursor[s]]
    BY DEF TypeOK, AllArrived
  <1>1. ASSUME NEW p \in Patterns, CreateConsumer(s, p) PROVE Log!LogNext
    BY <1>1, CreateSubscribes DEF Log!LogNext
  <1>2. ASSUME NEW p \in Patterns, AttemptFails(s, p)
        PROVE  Log!LogNext \/ UNCHANGED Log!logVars
    <2> DEFINE k == IF consumer[s].attempt = MaxAttempts THEN Absent
                    ELSE [Absent EXCEPT !.phase = "retrying", !.pattern = p,
                                        !.attempt = consumer[s].attempt + 1]
    <2>1. SetConsumer(s, k) /\ cursor' = [cursor EXCEPT ![s] = cursor[s]]
      BY <1>0, <1>2 DEF AttemptFails
    <2>2. k.phase \notin {"created", "open"} /\ k.historyEnd = 0
      BY DEF Absent
    <2>. HIDE DEF k
    <2>3. CASE Subscribed(s)
      BY <2>1, <2>2, <2>3, DropUnsubscribes DEF Log!LogNext
    <2>4. CASE ~Subscribed(s)
      <3>1. consumer[s].historyEnd = 0
        BY <1>0, <2>4 DEF Arrived, Subscribed, Consumer
      <3>. QED BY <2>1, <2>2, <2>4, <3>1, RetryingHides
    <2>. QED BY <2>3, <2>4
  <1>3. ASSUME OpenMessages(s) PROVE Log!LogNext
    <2> DEFINE k == [consumer[s] EXCEPT !.phase = "open"]
    <2>1. /\ SetConsumer(s, k) /\ cursor' = [cursor EXCEPT ![s] = cursor[s]]
          /\ Subscribed(s)
      BY <1>0, <1>3 DEF OpenMessages, Subscribed
    <2>2. /\ k.phase = "open" /\ k.buffer = consumer[s].buffer
          /\ k.pattern = consumer[s].pattern /\ k.historyEnd = consumer[s].historyEnd
      BY <1>0 DEF Consumer
    <2>. HIDE DEF k
    <2>3. consumer'[s] = k /\ UNCHANGED <<messages, cursor>>
      <3>1. consumer'[s] = k /\ UNCHANGED messages
        BY <2>1, OthersWait
      <3>2. UNCHANGED cursor
        BY <1>3 DEF OpenMessages
      <3>. QED BY <3>1, <3>2
    <2>4. Awaited(s)' \subseteq Awaited(s)
      BY <2>2, <2>3 DEF Awaited, Pending, Yields
    <2>. QED BY <2>1, <2>2, <2>4, WaitingForgets DEF Log!LogNext
  <1>4. ASSUME Unsubscribe(s) PROVE Log!LogNext
    <2>1. /\ SetConsumer(s, Absent) /\ cursor' = [cursor EXCEPT ![s] = 0]
          /\ Subscribed(s)
      BY <1>4 DEF Unsubscribe, Subscribed
    <2>2. Absent.phase \notin {"created", "open"} /\ Absent.historyEnd = 0
      BY DEF Absent
    <2>. QED BY <2>1, <2>2, DropUnsubscribes DEF Log!LogNext
  <1>5. ASSUME Deliver(s) PROVE Log!LogNext
    BY <1>5, DeliverForgets DEF Log!LogNext
  <1>6. ASSUME Receive(s) PROVE Log!LogNext \/ UNCHANGED Log!logVars
    BY <1>6, ReceiveYields DEF Log!LogNext
  <1>. QED BY <1>1, <1>2, <1>3, <1>4, <1>5, <1>6 DEF ConsumerStep

\* What is awaited depends on the stream only through what it still holds.
LEMMA NothingAwaits ==
  ASSUME UNCHANGED <<cursor, consumer>>, messages' \subseteq messages
  PROVE  /\ UNCHANGED <<Watched, Boundaries>>
         /\ \A s \in Subscribers :
              Subscribed(s)' = Subscribed(s) /\ Awaited(s)' \subseteq Awaited(s)
         /\ UNCHANGED messages => UNCHANGED Queues
  <1>1. \A s \in Subscribers : Subscribed(s)' = Subscribed(s)
    BY DEF Subscribed
  <1>2. \A s \in Subscribers : Awaited(s)' \subseteq Awaited(s)
    BY DEF Awaited, Pending, Yields, ConsumerName
  <1>3. ASSUME UNCHANGED messages PROVE UNCHANGED Queues
    <2>1. \A s \in Subscribers : Awaited(s)' = Awaited(s)
      BY <1>3 DEF Awaited, Pending, Yields, ConsumerName
    <2>. QED BY <1>1, <2>1 DEF Queues
  <1>4. UNCHANGED <<Watched, Boundaries>>
    BY <1>1 DEF Watched, Boundaries
  <1>. QED BY <1>1, <1>2, <1>3, <1>4

\* Every step of the backend is a step of the log or changes nothing of it.
LEMMA StepsOfLog ==
  TypeOK /\ MessagesOrdered /\ AllArrived /\ [Next]_vars => [Log!LogNext]_(Log!logVars)
  <1>. SUFFICES ASSUME TypeOK, MessagesOrdered, AllArrived, [Next]_vars
                PROVE  Log!LogNext \/ UNCHANGED Log!logVars
    OBVIOUS
  <1>1. ASSUME NEW t \in Topics, NEW b \in Payloads, Store(t, b) PROVE Log!LogNext
    BY <1>1, StorePuts DEF Log!LogNext
  <1>2. ASSUME Tick PROVE Log!LogNext
    <2>1. /\ clock < MaxClock /\ clock' = clock + 1
          /\ UNCHANGED <<messages, nextSequence, cursor, consumer>>
      BY <1>2 DEF Tick
    <2>2. UNCHANGED <<Queues, Watched, Boundaries>>
      BY <2>1, NothingAwaits
    <2>. QED BY <2>1, <2>2 DEF Log!LogNext, Log!Tick, Queues, Watched, Boundaries
  <1>3. ASSUME Purge PROVE Log!LogNext
    <2>1. /\ messages' \subseteq messages
          /\ UNCHANGED <<nextSequence, clock, cursor, consumer>>
      BY <1>3, PurgeDiscards
    <2>2. Log!Forget
      BY <2>1, NothingAwaits, LosingForgets
    <2>. QED BY <2>2 DEF Log!LogNext
  <1>4. ASSUME UNCHANGED <<messages, nextSequence, clock, cursor, consumer>>
        PROVE  UNCHANGED Log!logVars
    <2>1. UNCHANGED <<Queues, Watched, Boundaries>>
      BY <1>4, NothingAwaits
    <2>. QED BY <1>4, <2>1 DEF Log!logVars, Queues, Watched, Boundaries
  <1>5. ASSUME NEW r \in Readers, ReaderStep(r) PROVE UNCHANGED Log!logVars
    BY <1>4, <1>5, StreamUntouched DEF stream
  <1>6. CASE UNCHANGED vars
    BY <1>4, <1>6 DEF vars
  <1>. QED BY <1>1, <1>2, <1>3, <1>5, <1>6, ConsumerOfLog, NextSteps

LEMMA LogStarts == Init => Log!LogInit
  <1>. SUFFICES ASSUME Init PROVE Log!LogInit
    OBVIOUS
  <1>1. \A s \in Subscribers : consumer[s] = Absent /\ ~Subscribed(s)
    BY DEF Init, Subscribed, Absent
  <1>2. /\ Queues = [s \in Subscribers |-> <<>>]
        /\ Watched = [s \in Subscribers |-> {}]
        /\ Boundaries = [s \in Subscribers |-> 0]
    BY <1>1 DEF Queues, Watched, Boundaries, Absent
  <1>. QED BY <1>2 DEF Init, Log!LogInit, Queues, Watched, Boundaries

\* The JetStream backend keeps the promises of the log, with one consumer per
\* subscription, retries of its creation, deliveries lost on the way and any
\* retention: what a subscription yields is what was stored behind its
\* boundary, in that order, once.
THEOREM IsNotificationLog == Spec => ImplementsLog
  <1>1. Init => AllArrived
    BY AbsentArrived DEF Init, AllArrived
  <1>2. TypeOK /\ MessagesOrdered /\ AllArrived /\ [Next]_vars
        => TypeOK' /\ MessagesOrdered' /\ AllArrived'
    BY TypeStep, OrderStep, ArrivalStep
  <1>3. Spec => [](TypeOK /\ MessagesOrdered /\ AllArrived)
    BY <1>1, <1>2, TypeInit, OrderInit, PTL DEF Spec
  <1>. QED BY <1>3, LogStarts, StepsOfLog, PTL DEF Spec, ImplementsLog, Log!LogSpec
=============================================================================
