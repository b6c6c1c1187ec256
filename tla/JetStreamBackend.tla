--------------------------- MODULE JetStreamBackend ---------------------------
(***************************************************************************)
(* The NATS JetStream backend (src/notification_backend/jetstream): one    *)
(* stream, the live consumers and the replay requests of the server over   *)
(* it.  The stream itself and its consumers are on the NATS server and are *)
(* modelled from how the code configures and uses them; the code's own     *)
(* part is what it asks for, in which order, and what it makes of the      *)
(* answers.  Nothing here is atomic: a request is a series of round trips, *)
(* between which messages are published, purged and pruned.                *)
(*                                                                         *)
(* A watched pattern is the set of topics it matches.  JetStream filters   *)
(* by a coarser subject, Coarse[p], and the code filters what it receives  *)
(* by p itself.  JetStreamPublisher models how messages and streams get    *)
(* there, with the retries and failures of publication.                    *)
(***************************************************************************)
EXTENDS Naturals, Sequences, FiniteSets, FiniteSetsExt, SequencesExt, MessageOrder

CONSTANTS
  Topics,        \* the subjects of one stream
  Payloads,      \* message contents
  Patterns,      \* watch patterns: the set of topics each one matches
  Coarse,        \* per pattern: the topics its JetStream subject matches
  Subscribers,   \* live subscriptions
  Readers,       \* replay requests in flight
  LatestOnly,    \* max_messages_per_subject is 1 (allow_duplicates is off)
  MaxMessages,   \* max_messages, 0 for no limit
  MaxAttempts,   \* subscription attempts: max_reconnect_attempts or five
  BatchSize,     \* limit of a batch request
  Horizon,       \* the first date JetStream cannot express
  MaxSequence,   \* bound: messages stored in a behaviour
  MaxClock       \* bound: instants the clock of the stream passes through

ASSUME PatternsAssumption ==
  /\ Patterns \subseteq (SUBSET Topics) \ {{}}
  /\ Coarse \in [Patterns -> SUBSET Topics]
  /\ \A p \in Patterns : p \subseteq Coarse[p]
ASSUME LimitsAssumption ==
  /\ LatestOnly \in BOOLEAN /\ MaxMessages \in Nat
  /\ MaxAttempts \in Nat \ {0} /\ BatchSize \in Nat \ {0}
ASSUME BoundsAssumption ==
  /\ MaxSequence \in Nat /\ MaxClock \in Nat \ {0}
  /\ Horizon \in Nat /\ Horizon > MaxClock

VARIABLES
  messages,      \* what the stream retains
  nextSequence,  \* the sequence of the next stored message
  clock,         \* time on the server; storage times do not decrease
  stored,        \* history: every message ever stored
  cursor,        \* on the server: how far the consumer of each name has come
  consumer,      \* per subscription, see Consumer
  reader         \* per replay request, see Reader

stream == <<messages, nextSequence, clock, stored>>
vars == <<messages, nextSequence, clock, stored, cursor, consumer, reader>>

Message ==
  [seq : Nat \ {0}, topic : Topics, time : Nat \ {0}, payload : Payloads]

\* buffer is what has reached the client; sent is a history variable, what the
\* server has sent to this subscription.
Absent ==
  [phase |-> "absent", pattern |-> {}, attempt |-> 1, historyEnd |-> 0,
   buffer |-> <<>>, sent |-> {}]

Consumer ==
  [phase : {"absent", "retrying", "created", "open"},
   pattern : Patterns \cup {{}}, attempt : 1..MaxAttempts, historyEnd : Nat,
   buffer : Seq(Message), sent : SUBSET Nat]

Cursor == [kind : {"sequence", "date"}, value : Nat]

\* One call of get_messages_batch or of first_sequence_after.  known is a
\* history variable: the messages stored at some time during the call.
NoRequest ==
  [op |-> "none", phase |-> "idle", pattern |-> {},
   start |-> [kind |-> "sequence", value |-> 0], end |-> 0, last |-> 0, from |-> 0,
   fetched |-> 0, page |-> {}, reached |-> FALSE, processed |-> 0, first |-> 0,
   known |-> {}]

Reader ==
  [op : {"none", "batch", "after"},
   phase : {"idle", "info", "consumer", "fetch", "done"},
   pattern : Patterns \cup {{}}, start : Cursor, end : Nat, last : Nat,
   from : Nat, fetched : 0..BatchSize, page : SUBSET Message, reached : BOOLEAN,
   processed : Nat, first : Nat, known : SUBSET Message]

TypeOK ==
  /\ messages \in SUBSET Message
  /\ nextSequence \in Nat \ {0}
  /\ clock \in Nat \ {0}
  /\ stored \in SUBSET Message
  /\ cursor \in [Subscribers -> Nat]
  /\ consumer \in [Subscribers -> Consumer]
  /\ reader \in [Readers -> Reader]

Init ==
  /\ messages = {}
  /\ nextSequence = 1
  /\ clock = 1
  /\ stored = {}
  /\ cursor = [s \in Subscribers |-> 0]
  /\ consumer = [s \in Subscribers |-> Absent]
  /\ reader = [r \in Readers |-> NoRequest]

LastSequence == nextSequence - 1

-----------------------------------------------------------------------------
(* The stream.                                                              *)

\* A subject keeps its newest message only, and a full stream its newest ones
\* (discard policy old).
Retained(kept, m) ==
  LET others == IF LatestOnly THEN {x \in kept : x.topic # m.topic} ELSE kept
      room == IF MaxMessages = 0 THEN Cardinality(others) ELSE MaxMessages - 1
  IN {m} \cup {x \in others : Cardinality({y \in others : y.seq > x.seq}) < room}

\* A publication reaches the stream.  A message stored during a call is one the
\* call may have seen.
Store(topic, payload) ==
  LET m == [seq |-> nextSequence, topic |-> topic, time |-> clock,
            payload |-> payload]
  IN /\ nextSequence <= MaxSequence
     /\ nextSequence' = nextSequence + 1
     /\ messages' = Retained(messages, m)
     /\ stored' = stored \cup {m}
     /\ reader' = [r \in Readers |->
                     IF reader[r].phase \in {"idle", "done"} THEN reader[r]
                     ELSE [reader[r] EXCEPT !.known = @ \cup {m}]]
     /\ UNCHANGED <<clock, cursor, consumer>>

Tick ==
  /\ clock < MaxClock
  /\ clock' = clock + 1
  /\ UNCHANGED <<messages, nextSequence, stored, cursor, consumer, reader>>

Discard(gone) ==
  /\ messages' = messages \ gone
  /\ UNCHANGED <<nextSequence, clock, stored, cursor, consumer, reader>>

\* wipe_stream, and wipe_all for this stream: a purge keeps the sequences.
WipeStream == messages # {} /\ Discard(messages)

\* delete_message, and NotFound without an effect.
DeleteMessage(n) ==
  \E m \in messages : m.seq = n /\ Discard({m})

\* max_age: what is older than the retention time goes.
Expire(age) ==
  LET old == {m \in messages : m.time + age <= clock}
  IN old # {} /\ Discard(old)

-----------------------------------------------------------------------------
(* Live subscriptions.                                                      *)

SetConsumer(s, k) ==
  /\ consumer' = [consumer EXCEPT ![s] = k]
  /\ UNCHANGED <<stream, reader>>

\* Mutation of ConsumerName: subscriptions share a name.
ConsumerNameShared(s) == CHOOSE u \in Subscribers : TRUE

\* build_jetstream_consumer_config: the name ends in a UUID of the subscription.
\* Consumers of one name would be one, with one cursor.
ConsumerName(s) == s

\* Mutation of CreateConsumer: the boundary is asked for in a request before the
\* one that makes the consumer, and something is stored in between.
CreateConsumerLate(s, p) ==
  /\ consumer[s].phase = "absent" \/ consumer[s].phase = "retrying"
  /\ consumer[s].phase = "retrying" => p = consumer[s].pattern
  /\ LastSequence > 0
  /\ cursor' = [cursor EXCEPT ![ConsumerName(s)] = LastSequence]
  /\ SetConsumer(s, [consumer[s] EXCEPT !.phase = "created", !.pattern = p,
                                        !.historyEnd = LastSequence - 1])

\* create_subscription_internal: an ephemeral consumer with DeliverPolicy::New.
\* It starts at the tail of the stream, and the response to its creation says
\* where that was.
CreateConsumer(s, p) ==
  /\ consumer[s].phase = "absent" \/ consumer[s].phase = "retrying"
  /\ consumer[s].phase = "retrying" => p = consumer[s].pattern
  /\ cursor' = [cursor EXCEPT ![ConsumerName(s)] = LastSequence]
  /\ SetConsumer(s, [consumer[s] EXCEPT !.phase = "created", !.pattern = p,
                                        !.historyEnd = LastSequence])

\* consumer.messages(): the client starts to pull.
OpenMessages(s) ==
  /\ consumer[s].phase = "created"
  /\ SetConsumer(s, [consumer[s] EXCEPT !.phase = "open"])
  /\ UNCHANGED cursor

\* An attempt fails, before or after the consumer was created: the next attempt
\* makes another consumer, and the last failure is the caller's.
AttemptFails(s, p) ==
  LET k == consumer[s]
  IN /\ k.phase \in {"absent", "retrying", "created"}
     /\ k.phase # "absent" => p = k.pattern
     /\ SetConsumer(s, IF k.attempt = MaxAttempts THEN Absent
                       ELSE [Absent EXCEPT !.phase = "retrying", !.pattern = p,
                                           !.attempt = k.attempt + 1])
     /\ UNCHANGED cursor

Oldest(set) == CHOOSE m \in set : \A x \in set : m.seq <= x.seq

\* The messages a consumer still has to send.
Pending(s) ==
  {m \in messages : m.topic \in Coarse[consumer[s].pattern] /\ m.seq > cursor[ConsumerName(s)]}

\* The server sends the next message of the consumer's subject.  Nothing is
\* acknowledged and max_deliver is 1: a message lost on the way is not repeated.
Deliver(s) ==
  /\ consumer[s].phase = "open"
  /\ Pending(s) # {}
  /\ LET m == Oldest(Pending(s))
     IN /\ cursor' = [cursor EXCEPT ![ConsumerName(s)] = m.seq]
        /\ \E arrived \in BOOLEAN :
             SetConsumer(s, [consumer[s] EXCEPT
               !.sent = @ \cup {m.seq},
               !.buffer = IF arrived THEN Append(@, m) ELSE @])

\* apply_message_filter: what the subscription passes on.
Yields(s, m) == m.topic \in consumer[s].pattern

\* The stream is polled; a message the application filter rejects is dropped
\* without a poll of its own, modelled as a step that yields nothing.
Receive(s) ==
  /\ consumer[s].buffer # <<>>
  /\ SetConsumer(s, [consumer[s] EXCEPT !.buffer = Tail(@)])
  /\ UNCHANGED cursor

\* The connection drops its subscription; the server forgets the consumer.
Unsubscribe(s) ==
  /\ consumer[s].phase \in {"created", "open"}
  /\ cursor' = [cursor EXCEPT ![ConsumerName(s)] = 0]
  /\ SetConsumer(s, Absent)

-----------------------------------------------------------------------------
(* Replay requests: round trips of get_messages_batch.                      *)

SetReader(r, k) ==
  /\ reader' = [reader EXCEPT ![r] = k]
  /\ UNCHANGED <<stream, cursor, consumer>>

\* The caller's end is a boundary it has read before (history_end).
StartBatch(r, p, start, end) ==
  /\ reader[r].phase \in {"idle", "done"}
  /\ end <= LastSequence
  /\ SetReader(r, [NoRequest EXCEPT !.op = "batch", !.phase = "info", !.pattern = p,
                                    !.start = start, !.end = end, !.known = messages])

NothingToRead(k, last) ==
  messages = {} \/ last = 0 \/ (k.start.kind = "sequence" /\ k.start.value > last)

\* stream.info(): the end is clamped to what there is; an empty range ends the
\* call.
ReadInfo(r) ==
  /\ reader[r].phase = "info"
  /\ LET last == Min({reader[r].end, LastSequence})
     IN SetReader(r, [reader[r] EXCEPT
          !.last = last,
          !.phase = IF NothingToRead(reader[r], last) THEN "done" ELSE "consumer"])

\* DeliverPolicy::ByStartTime is resolved when the consumer is created: to the
\* first message from that time on or, when there is none, to the next sequence.
FromTime(date) ==
  LET later == {m.seq : m \in {x \in messages : x.time >= date}}
  IN IF later = {} THEN nextSequence ELSE Min(later)

\* determine_deliver_policy; the error of a date that cannot be expressed is a
\* failure of the request.
CreateReplayConsumer(r) ==
  /\ reader[r].op = "batch" /\ reader[r].phase = "consumer"
  /\ LET start == reader[r].start
     IN /\ start.kind = "date" => start.value < Horizon
        /\ SetReader(r, [reader[r] EXCEPT
             !.phase = "fetch",
             !.from = IF start.kind = "date" THEN FromTime(start.value) ELSE start.value])

Available(r) ==
  {m \in messages : m.topic \in Coarse[reader[r].pattern] /\ m.seq >= reader[r].from}

\* Mutation of ReadMessage: only the messages that pass the filter move on.
ReadMessagePassing(k, m) ==
  LET seen == [k EXCEPT !.fetched = @ + 1, !.from = m.seq + 1]
  IN IF m.seq > k.last THEN [seen EXCEPT !.reached = TRUE]
     ELSE [seen EXCEPT
            !.processed = IF m.topic \in k.pattern THEN m.seq ELSE @,
            !.page = IF m.topic \in k.pattern THEN @ \cup {m} ELSE @,
            !.reached = m.seq = k.last]

\* read_replay_batch, one round of its loop.
ReadMessage(k, m) ==
  LET seen == [k EXCEPT !.fetched = @ + 1, !.from = m.seq + 1]
  IN IF m.seq > k.last THEN [seen EXCEPT !.reached = TRUE]
     ELSE [seen EXCEPT
            !.processed = m.seq,
            !.page = IF m.topic \in k.pattern THEN @ \cup {m} ELSE @,
            !.reached = m.seq = k.last]

\* fetch().max_messages(limit): the server sends the oldest message there is.
FetchNext(r) ==
  /\ reader[r].op = "batch" /\ reader[r].phase = "fetch"
  /\ ~reader[r].reached /\ reader[r].fetched < BatchSize
  /\ Available(r) # {}
  /\ SetReader(r, ReadMessage(reader[r], Oldest(Available(r))))

\* The end, the limit or the last message there is.
EndBatch(r) ==
  /\ reader[r].op = "batch" /\ reader[r].phase = "fetch"
  /\ reader[r].reached \/ reader[r].fetched = BatchSize \/ Available(r) = {}
  /\ SetReader(r, [reader[r] EXCEPT !.phase = "done"])

HasMore(k) == ~k.reached /\ k.processed # 0 /\ k.processed < k.last

\* next_sequence, 0 for None.
NextSequenceOf(k) == IF k.processed = 0 THEN 0 ELSE k.processed + 1

-----------------------------------------------------------------------------
(* Replay requests: round trips of first_sequence_after.                    *)

\* "start" holds the date.  A date beyond what JetStream can express has nothing
\* after it.
StartFirstAfter(r, p, at) ==
  /\ reader[r].phase \in {"idle", "done"}
  /\ SetReader(r, [NoRequest EXCEPT
       !.op = "after", !.pattern = p, !.start = [kind |-> "date", value |-> at],
       !.end = LastSequence, !.known = messages,
       !.phase = IF at + 1 >= Horizon THEN "done" ELSE "consumer"])

\* Mutation of CreateAfterConsumer: the consumer starts at the date itself.
CreateAfterConsumerAt(r) ==
  /\ reader[r].op = "after" /\ reader[r].phase = "consumer"
  /\ SetReader(r, [reader[r] EXCEPT !.phase = "fetch",
                                    !.from = FromTime(reader[r].start.value)])

\* The consumer starts one instant behind the date.
CreateAfterConsumer(r) ==
  /\ reader[r].op = "after" /\ reader[r].phase = "consumer"
  /\ SetReader(r, [reader[r] EXCEPT !.phase = "fetch",
                                    !.from = FromTime(reader[r].start.value + 1)])

\* One message of the subject, possibly of another topic than the pattern's.
FetchFirst(r) ==
  /\ reader[r].op = "after" /\ reader[r].phase = "fetch"
  /\ SetReader(r, [reader[r] EXCEPT
       !.phase = "done",
       !.first = IF Available(r) = {} THEN 0 ELSE Oldest(Available(r)).seq])

\* Any round trip may fail; the error is the caller's.
RequestFails(r) ==
  /\ reader[r].phase \in {"info", "consumer", "fetch"}
  /\ SetReader(r, NoRequest)

-----------------------------------------------------------------------------

Starts == {[kind |-> "sequence", value |-> n] : n \in 0..MaxSequence}
            \cup {[kind |-> "date", value |-> d] : d \in 1..Horizon}

Next ==
  \/ \E t \in Topics, b \in Payloads : Store(t, b)
  \/ Tick
  \/ WipeStream
  \/ \E n \in 1..MaxSequence : DeleteMessage(n)
  \/ \E age \in 1..MaxClock : Expire(age)
  \/ \E s \in Subscribers :
       \/ \E p \in Patterns : CreateConsumer(s, p) \/ AttemptFails(s, p)
       \/ OpenMessages(s)
       \/ Deliver(s)
       \/ Receive(s)
       \/ Unsubscribe(s)
  \/ \E r \in Readers :
       \/ \E p \in Patterns, start \in Starts, end \in 0..MaxSequence :
            StartBatch(r, p, start, end)
       \/ ReadInfo(r)
       \/ CreateReplayConsumer(r)
       \/ FetchNext(r)
       \/ EndBatch(r)
       \/ \E p \in Patterns, at \in 1..Horizon : StartFirstAfter(r, p, at)
       \/ CreateAfterConsumer(r)
       \/ FetchFirst(r)
       \/ RequestFails(r)

Spec == Init /\ [][Next]_vars

-----------------------------------------------------------------------------
(* The contract of a backend.                                               *)

Subscribed(s) == consumer[s].phase \in {"created", "open"}

\* What a subscription will yield: what it has received and what the server
\* still has to send.  It takes the front of what it has received, so that this
\* is a queue of the log only as long as messages arrive in sequence order.
Awaited(s) == {m \in ToSet(consumer[s].buffer) \cup Pending(s) : Yields(s, m)}

Log == INSTANCE NotificationLog WITH
         retained <- messages,
         pattern <- [s \in Subscribers |->
                       IF Subscribed(s) THEN consumer[s].pattern ELSE {}],
         historyEnd <- [s \in Subscribers |-> consumer[s].historyEnd],
         queue <- [s \in Subscribers |->
                     IF Subscribed(s) THEN BySequence(Awaited(s)) ELSE <<>>]

\* What the server and the client hold for a subscription together is the queue
\* of the log: nothing is repeated or comes out of order, nothing that was stored
\* behind the boundary is missed except by retention or a lost delivery, and the
\* boundary is that of the consumer.
ImplementsLog == Log!LogSpec

\* Every subscription gets its own copy: the server passes a message that is
\* still stored for a consumer only by sending it to that subscription.
CursorsAreOwn ==
  \A s \in Subscribers : Subscribed(s) =>
    \A m \in messages :
      /\ m.topic \in consumer[s].pattern
      /\ consumer[s].historyEnd < m.seq /\ m.seq <= cursor[ConsumerName(s)]
      => m.seq \in consumer[s].sent

\* A batch is a page in the sense of the log although it is read message by
\* message while others are stored, purged and pruned: what is still there is
\* not skipped, by the page or by where the next one starts.
BatchesArePages ==
  \A r \in Readers :
    LET k == reader[r]
    IN k.op = "batch" /\ k.phase = "done" =>
         Log!IsBatch(k.page, HasMore(k), NextSequenceOf(k), k.known,
                     k.pattern, k.start, k.end)

\* The sequence that ends a replay at a date splits the history there was when
\* it was asked for, although the message found may be of another topic, and
\* may have been stored after the question and even before that date.
DateEndSplitsHistory ==
  \A r \in Readers :
    LET k == reader[r]
    IN k.op = "after" /\ k.phase = "done" =>
         Log!IsFirstAfter(k.first, k.pattern, k.start.value, k.end)
=============================================================================
