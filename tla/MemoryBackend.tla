---------------------------- MODULE MemoryBackend ----------------------------
(***************************************************************************)
(* The in-memory notification backend                                      *)
(* (src/notification_backend/in_memory/backend.rs).  All of its state is   *)
(* behind one mutex, so that every operation is one step; operations of    *)
(* concurrent requests interleave.  Each topic keeps a bounded deque of    *)
(* messages, the number of topics is bounded by evicting the least recent  *)
(* one, and every stored message is also sent, under the same lock, on a   *)
(* bounded broadcast channel that live subscriptions read at their own     *)
(* pace.                                                                   *)
(*                                                                         *)
(* The HashMap of topics is the set "topics" of its keys with a deque per  *)
(* key.  Payload text is abstracted to a member of Payloads; the statistics*)
(* counters that only get_stats reads are left out.                        *)
(***************************************************************************)
EXTENDS Naturals, Sequences, FiniteSets, FiniteSetsExt, SequencesExt, MessageOrder

CONSTANTS
  Topics,           \* the topics that requests publish on
  Payloads,         \* message contents
  Patterns,         \* watch patterns: the set of topics each one matches
  Streams,          \* stream keys: the first token of a topic
  StreamOf,         \* the stream key of each topic
  BareTopics,       \* the topics that are their stream key alone, without
                    \* identifier values after it
  Subscribers,      \* live subscriptions
  MaxHistory,       \* max_history_per_topic
  MaxTopics,        \* max_topics
  ChannelCapacity,  \* capacity of the broadcast channel
  BatchSize,        \* replay_batch_size, the limit of a batch request
  MaxSequence,      \* bound: messages stored in a behaviour
  MaxClock          \* bound: instants the wall clock passes through

\* None of the limits is validated by the configuration: zero is possible.
ASSUME LimitsAssumption ==
  /\ MaxHistory \in Nat
  /\ MaxTopics \in Nat
  /\ BatchSize \in Nat
  /\ ChannelCapacity \in Nat \ {0}
ASSUME InputsAssumption ==
  /\ IsFiniteSet(Topics)
  /\ StreamOf \in [Topics -> Streams]
  /\ BareTopics \subseteq Topics
  /\ Patterns \subseteq (SUBSET Topics) \ {{}}
ASSUME BoundsAssumption == MaxSequence \in Nat /\ MaxClock \in Nat \ {0}

VARIABLES
  topics,        \* keys of BackendState::topics
  messages,      \* per topic: its deque, oldest first
  nextSequence,  \* BackendState::next_sequence
  clock,         \* Utc::now()
  pattern,       \* per subscription: the topics it matches, {} when absent
  historyEnd,    \* per subscription: Subscription::history_end
  channel        \* per subscription: messages sent and not yet received

storage == <<topics, messages, nextSequence>>
subscriptions == <<pattern, historyEnd, channel>>
vars == <<topics, messages, nextSequence, clock, pattern, historyEnd, channel>>

Message ==
  [seq : Nat \ {0}, topic : Topics, time : Nat \ {0}, payload : Payloads]

TypeOK ==
  /\ topics \in SUBSET Topics
  /\ messages \in [Topics -> Seq(Message)]
  /\ nextSequence \in Nat \ {0}
  /\ clock \in Nat \ {0}
  /\ pattern \in [Subscribers -> Patterns \cup {{}}]
  /\ historyEnd \in [Subscribers -> Nat]
  /\ channel \in [Subscribers -> Seq(Message)]

Init ==
  /\ topics = {}
  /\ messages = [t \in Topics |-> <<>>]
  /\ nextSequence = 1
  /\ clock = 1
  /\ pattern = [s \in Subscribers |-> {}]
  /\ historyEnd = [s \in Subscribers |-> 0]
  /\ channel = [s \in Subscribers |-> <<>>]

-----------------------------------------------------------------------------
(* Publication.                                                             *)

\* The eviction key of a topic: the time of its newest message.  A topic whose
\* messages were all deleted counts as used right now.
LastUsed(t) ==
  IF messages[t] = <<>> THEN clock ELSE messages[t][Len(messages[t])].time

\* enforce_topic_limit: the topics that may be dropped, at most one of them,
\* when a new topic comes in.  Ties are broken by the HashMap's order.
Evictable ==
  {t \in topics : \A u \in topics : LastUsed(t) <= LastUsed(u)}

\* Mutation of EvictedFor: the limit is noticed one topic too late.
EvictedLate(t) ==
  IF t \in topics \/ Cardinality(topics) <= MaxTopics
  THEN {{}}
  ELSE {{old} : old \in Evictable}

EvictedFor(t) ==
  IF t \in topics \/ Cardinality(topics) < MaxTopics \/ topics = {}
  THEN {{}}
  ELSE {{old} : old \in Evictable}

\* A full deque drops its front to make room.
Pruned(q) == IF Len(q) >= MaxHistory /\ q # <<>> THEN Tail(q) ELSE q

\* tokio's broadcast channel: a receiver that is a full channel behind loses
\* the oldest message it has not received (RecvError::Lagged when it looks).
Sent(s, m) ==
  IF pattern[s] = {} THEN <<>>
  ELSE IF Len(channel[s]) >= ChannelCapacity THEN Append(Tail(channel[s]), m)
       ELSE Append(channel[s], m)

Stamped(t, payload) ==
  [seq |-> nextSequence, topic |-> t, time |-> clock, payload |-> payload]

\* store_message, the whole critical section.
Store(t, payload) ==
  LET m == Stamped(t, payload)
  IN /\ nextSequence <= MaxSequence
     /\ nextSequence' = nextSequence + 1
     /\ \E evicted \in EvictedFor(t) :
          /\ topics' = (topics \ evicted) \cup {t}
          /\ messages' = [u \in Topics |->
                            IF u = t THEN Append(Pruned(messages[t]), m)
                            ELSE IF u \in evicted THEN <<>>
                            ELSE messages[u]]
     /\ channel' = [s \in Subscribers |-> Sent(s, m)]
     /\ UNCHANGED <<clock, pattern, historyEnd>>

Tick ==
  /\ clock < MaxClock
  /\ clock' = clock + 1
  /\ UNCHANGED <<storage, subscriptions>>

-----------------------------------------------------------------------------
(* Administration.                                                          *)

\* Mutation of Forget: a wipe starts the sequences over.
ForgetResetting(gone) ==
  /\ topics' = topics \ gone
  /\ messages' = [t \in Topics |-> IF t \in gone THEN <<>> ELSE messages[t]]
  /\ nextSequence' = 1
  /\ UNCHANGED <<clock, subscriptions>>

Forget(gone) ==
  /\ topics' = topics \ gone
  /\ messages' = [t \in Topics |-> IF t \in gone THEN <<>> ELSE messages[t]]
  /\ UNCHANGED <<nextSequence, clock, subscriptions>>

\* wipe_stream: every topic that starts with the key and a dot; NotFound, with
\* no effect, when there is none.
WipeStream(k) ==
  LET gone == {t \in topics \ BareTopics : StreamOf[t] = k}
  IN gone # {} /\ Forget(gone)

WipeAll == topics # {} /\ Forget(topics)

\* delete_message: the message leaves its deque, the topic stays even if empty.
DeleteMessage(k, n) ==
  \E t \in topics : \E i \in DOMAIN messages[t] :
    /\ StreamOf[t] = k
    /\ messages[t][i].seq = n
    /\ messages' = [messages EXCEPT ![t] = RemoveAt(@, i)]
    /\ UNCHANGED <<topics, nextSequence, clock, subscriptions>>

-----------------------------------------------------------------------------
(* Live subscriptions.                                                      *)

\* subscribe_to_topic: receiver and boundary are taken under one lock.
Subscribe(s, p) ==
  /\ pattern[s] = {}
  /\ pattern' = [pattern EXCEPT ![s] = p]
  /\ historyEnd' = [historyEnd EXCEPT ![s] = nextSequence - 1]
  /\ channel' = [channel EXCEPT ![s] = <<>>]
  /\ UNCHANGED <<storage, clock>>

\* One recv: a message the pattern matches is yielded, another one is skipped.
Receive(s) ==
  /\ channel[s] # <<>>
  /\ channel' = [channel EXCEPT ![s] = Tail(@)]
  /\ UNCHANGED <<storage, clock, pattern, historyEnd>>

\* The connection drops the subscription stream and its receiver with it.
Unsubscribe(s) ==
  /\ pattern[s] # {}
  /\ pattern' = [pattern EXCEPT ![s] = {}]
  /\ historyEnd' = [historyEnd EXCEPT ![s] = 0]
  /\ channel' = [channel EXCEPT ![s] = <<>>]
  /\ UNCHANGED <<storage, clock>>

Next ==
  \/ \E t \in Topics, b \in Payloads : Store(t, b)
  \/ Tick
  \/ \E k \in Streams : WipeStream(k)
  \/ WipeAll
  \/ \E k \in Streams, n \in 1..MaxSequence : DeleteMessage(k, n)
  \/ \E s \in Subscribers, p \in Patterns : Subscribe(s, p)
  \/ \E s \in Subscribers : Receive(s)
  \/ \E s \in Subscribers : Unsubscribe(s)

Spec == Init /\ [][Next]_vars

-----------------------------------------------------------------------------
(* Queries.                                                                 *)

Stored == UNION {ToSet(messages[t]) : t \in topics}

Matching(p) == {m \in Stored : m.topic \in p}

\* StartAt, with LiveOnly and Sequence(0) both meaning the beginning.
Starts(start, m) ==
  IF start.kind = "date" THEN m.time >= start.value
  ELSE start.value > 0 => m.seq >= start.value

Ranged(p, start, end) ==
  {m \in Matching(p) : m.seq <= end /\ Starts(start, m)}

\* Mutation of GetMessagesBatch: the has_more of BatchResult::new is kept, which
\* takes every full page for an unfinished one.
FullBatchHasMore(p, start, end) ==
  LET range == Ranged(p, start, end)
      page == {m \in range : Rank(range, m.seq) < BatchSize}
  IN [page |-> page,
      more |-> Cardinality(page) = BatchSize,
      next |-> IF page = {} THEN 0 ELSE Max({m.seq : m \in page}) + 1]

\* get_messages_batch: sorted by sequence and truncated to the batch size.  The
\* page is a set, ordered by its sequences; next_sequence None is 0.
GetMessagesBatch(p, start, end) ==
  LET range == Ranged(p, start, end)
      page == {m \in range : Rank(range, m.seq) < BatchSize}
  IN [page |-> page,
      more |-> Cardinality(range) > BatchSize,
      next |-> IF page = {} THEN 0 ELSE Max({m.seq : m \in page}) + 1]

HistoryEnd == nextSequence - 1

\* Mutation of FirstSequenceAfter: the end date is taken to be exclusive.
FirstSequenceFrom(p, at) ==
  LET later == {m.seq : m \in {x \in Matching(p) : x.time >= at}}
  IN IF later = {} THEN 0 ELSE Min(later)

\* first_sequence_after, 0 for None.
FirstSequenceAfter(p, at) ==
  LET later == {m.seq : m \in {x \in Matching(p) : x.time > at}}
  IN IF later = {} THEN 0 ELSE Min(later)

-----------------------------------------------------------------------------
(* Safety.                                                                  *)

Ascending(q) == \A i, j \in DOMAIN q : i < j => q[i].seq < q[j].seq

\* Sequences are never handed out twice and a deque is in storage order: a
\* stored message precedes the next sequence, deques ascend strictly, and no
\* sequence occurs under two topics.  Reading history back in sequence order
\* (get_messages_batch) and deleting by sequence (delete_message) rely on it.
SequencesOrdered ==
  \A t \in Topics :
    /\ Ascending(messages[t])
    /\ \A i \in DOMAIN messages[t] :
         /\ messages[t][i].topic = t
         /\ messages[t][i].seq < nextSequence
         /\ \A u \in Topics \ {t} : \A j \in DOMAIN messages[u] :
              messages[t][i].seq # messages[u][j].seq

\* Memory stays bounded under any series of publications, deletions and wipes:
\* enforce_topic_limit removes at most one topic per publication and is called
\* only for new topics, and a deque is pruned by one message per publication.
\* A limit of zero keeps one topic and one message.
RetentionBounded ==
  /\ Cardinality(topics) <= IF MaxTopics = 0 THEN 1 ELSE MaxTopics
  /\ \A t \in Topics : Len(messages[t]) <= IF MaxHistory = 0 THEN 1 ELSE MaxHistory
  /\ \A t \in Topics \ topics : messages[t] = <<>>

\* A subscription is cut out of history at one point: what its channel holds is
\* above its history_end, below the next sequence, and in storage order.  A
\* boundary read outside the lock that creates the receiver would break this.
SubscriptionBoundary ==
  \A s \in Subscribers :
    /\ historyEnd[s] < nextSequence
    /\ Len(channel[s]) <= ChannelCapacity
    /\ Ascending(channel[s])
    /\ \A i \in DOMAIN channel[s] :
         /\ pattern[s] # {}
         /\ historyEnd[s] < channel[s][i].seq /\ channel[s][i].seq < nextSequence

-----------------------------------------------------------------------------
(* The contract every backend owes the streaming layer.                     *)

\* The queue of a subscription is what its channel holds for it.  A subscription
\* takes its messages from the front of the channel, so that this is a queue of
\* the log only as long as channels are in sequence order.
Log == INSTANCE NotificationLog WITH
         retained <- Stored,
         queue <- [s \in Subscribers |->
                     BySequence({m \in ToSet(channel[s]) : m.topic \in pattern[s]})]

\* The backend implements the log: every operation is an operation of the log
\* or changes nothing a client of the backend can see.
ImplementsLog == Log!LogSpec

Cursors == {[kind |-> "sequence", value |-> n] : n \in 0..nextSequence}
             \cup {[kind |-> "date", value |-> d] : d \in 1..clock}

\* A batch is a page in the sense of the log, for every cursor and end: nothing
\* in range is skipped, paging moves forward and stays past a start date.
BatchesArePages ==
  \A p \in Patterns, start \in Cursors, end \in 0..nextSequence :
    LET b == GetMessagesBatch(p, start, end)
    IN Log!IsBatch(b.page, b.more, b.next, Stored, p, start, end)

\* The sequence that ends a replay at a date splits the stored history exactly
\* at that date.
DateEndSplitsHistory ==
  \A p \in Patterns, at \in 0..clock :
    Log!IsFirstAfter(FirstSequenceAfter(p, at), p, at, HistoryEnd)
=============================================================================
