--------------------------- MODULE NotificationLog ---------------------------
(***************************************************************************)
(* What a notification backend promises the rest of the server: the trait  *)
(* NotificationBackend (src/notification_backend/mod.rs), independently of *)
(* where messages are kept.  The streaming layer (SseStream) is built on   *)
(* this module; MemoryBackend and JetStreamBackend implement it.           *)
(*                                                                         *)
(* A backend is a log of numbered messages of which only a part is still   *)
(* retained, together with live subscriptions.  Retention is out of the    *)
(* streaming layer's control: any message may disappear at any time, and a *)
(* subscription may lose messages queued for it (lag in memory, retention, *)
(* purges and lost deliveries with JetStream).  What may never happen is   *)
(* fixed here: a sequence is used once, in storage order; a subscription   *)
(* is cut out of history at exactly one point, its history_end; and what   *)
(* it does get is what was published, in that order, once.                 *)
(***************************************************************************)
EXTENDS Naturals, Sequences, FiniteSets, SequencesExt, MessageOrder

CONSTANTS
  Topics,        \* the concrete topics messages are published on
  Payloads,      \* the payloads the filters and the renderer tell apart
  Patterns,      \* watch patterns, each given as the set of topics it matches
  Subscribers,   \* handles for live subscriptions
  MaxSequence,   \* bound: sequences allocated in a behaviour
  MaxClock       \* bound: instants the wall clock passes through

ASSUME PatternsAssumption == Patterns \subseteq (SUBSET Topics) \ {{}}
ASSUME BoundsAssumption == MaxSequence \in Nat /\ MaxClock \in Nat \ {0}

VARIABLES
  nextSequence,  \* the sequence the next stored message gets
  clock,         \* wall clock; storage timestamps never decrease
  retained,      \* the stored messages that can still be read
  pattern,       \* per subscriber: what it watches, {} when not subscribed
  historyEnd,    \* per subscriber: last sequence allocated when it subscribed
  queue          \* per subscriber: matching messages it has not received yet

logVars == <<nextSequence, clock, retained, pattern, historyEnd, queue>>

Message ==
  [seq : Nat \ {0}, topic : Topics, time : Nat \ {0}, payload : Payloads]

LogTypeOK ==
  /\ nextSequence \in Nat \ {0}
  /\ clock \in Nat \ {0}
  /\ retained \in SUBSET Message
  /\ pattern \in [Subscribers -> Patterns \cup {{}}]
  /\ historyEnd \in [Subscribers -> Nat]
  /\ queue \in [Subscribers -> Seq(Message)]

LogInit ==
  /\ nextSequence = 1
  /\ clock = 1
  /\ retained = {}
  /\ pattern = [s \in Subscribers |-> {}]
  /\ historyEnd = [s \in Subscribers |-> 0]
  /\ queue = [s \in Subscribers |-> <<>>]

-----------------------------------------------------------------------------
(* Publication, removal and time.                                           *)

Offer(s, m) == IF m.topic \in pattern[s] THEN Append(queue[s], m) ELSE queue[s]

\* What may be left of a queue: any of its messages, in their order, which is
\* that of the sequences.
Thinned(q) ==
  {BySequence(kept) : kept \in SUBSET ToSet(q)}

ThinnedQueues(offered) ==
  {q \in [Subscribers -> UNION {Thinned(offered[s]) : s \in Subscribers}] :
     \A s \in Subscribers : q[s] \in Thinned(offered[s])}

\* put_messages and put_message_with_headers: one message is stored under the
\* next sequence and offered to every matching subscription, in one step, in
\* which older messages and queued ones may be lost.
Put(topic, payload) ==
  LET m == [seq |-> nextSequence, topic |-> topic,
            time |-> clock, payload |-> payload]
  IN /\ nextSequence <= MaxSequence
     /\ nextSequence' = nextSequence + 1
     /\ \E kept \in SUBSET retained : retained' = kept \cup {m}
     /\ queue' \in ThinnedQueues([s \in Subscribers |-> Offer(s, m)])
     /\ UNCHANGED <<clock, pattern, historyEnd>>

\* wipe_stream, wipe_all, delete_message, retention by the store and deliveries
\* lost on the way: messages disappear, but sequences are not reused.
Forget ==
  /\ retained' \in SUBSET retained
  /\ queue' \in ThinnedQueues(queue)
  /\ UNCHANGED <<nextSequence, clock, pattern, historyEnd>>

Tick ==
  /\ clock < MaxClock
  /\ clock' = clock + 1
  /\ UNCHANGED <<nextSequence, retained, pattern, historyEnd, queue>>

-----------------------------------------------------------------------------
(* Live subscriptions.                                                      *)

\* subscribe_to_topic: the boundary is the last sequence allocated at the very
\* moment the subscription starts to receive.
Subscribe(s, p) ==
  /\ pattern[s] = {}
  /\ pattern' = [pattern EXCEPT ![s] = p]
  /\ historyEnd' = [historyEnd EXCEPT ![s] = nextSequence - 1]
  /\ queue' = [queue EXCEPT ![s] = <<>>]
  /\ UNCHANGED <<nextSequence, clock, retained>>

\* The subscription stream yields its next message.
Receive(s) ==
  /\ queue[s] # <<>>
  /\ queue' = [queue EXCEPT ![s] = Tail(@)]
  /\ UNCHANGED <<nextSequence, clock, retained, pattern, historyEnd>>

\* The subscription stream is dropped with the connection that owns it.
Unsubscribe(s) ==
  /\ pattern[s] # {}
  /\ pattern' = [pattern EXCEPT ![s] = {}]
  /\ historyEnd' = [historyEnd EXCEPT ![s] = 0]
  /\ queue' = [queue EXCEPT ![s] = <<>>]
  /\ UNCHANGED <<nextSequence, clock, retained>>

LogNext ==
  \/ \E t \in Topics, b \in Payloads : Put(t, b)
  \/ Forget
  \/ Tick
  \/ \E s \in Subscribers : \E p \in Patterns : Subscribe(s, p)
  \/ \E s \in Subscribers : Receive(s)
  \/ \E s \in Subscribers : Unsubscribe(s)

LogSpec == LogInit /\ [][LogNext]_logVars

-----------------------------------------------------------------------------
(* Queries: they read the log and change nothing.                           *)

\* StartAt: an inclusive sequence (0 is the beginning) or an inclusive time.
FromSequence(n) == [kind |-> "sequence", value |-> n]
FromDate(d) == [kind |-> "date", value |-> d]

Starts(start, m) ==
  IF start.kind = "sequence" THEN m.seq >= start.value ELSE m.time >= start.value

Matching(p) == {m \in retained : m.topic \in p}

\* The part of "messages" a batch request ranges over.
InRange(messages, p, start, end) ==
  {m \in messages : m.topic \in p /\ Starts(start, m) /\ m.seq <= end}

\* The history a batch request ranges over.
Eligible(p, start, end) == InRange(retained, p, start, end)

HistoryEnd == nextSequence - 1

\* A page of history: either everything that is left, or everything below the
\* sequence "next" from which the following page starts, which lies strictly
\* ahead of this page's start, within the range, and past the start date.  A
\* message that disappears while the page is read may still be on it: "known"
\* are the messages that were stored at some time during the call.
IsBatch(page, more, next, known, p, start, end) ==
  LET last == IF more THEN next - 1 ELSE end
  IN /\ Eligible(p, start, last) \subseteq page
     /\ page \subseteq InRange(known, p, start, last)
     /\ more => /\ next > 1 /\ next <= end
                /\ start.kind = "sequence" => next > start.value
                /\ \A m \in Matching(p) : m.seq >= next => Starts(start, m)

\* first_sequence_after: of the messages there were when the call was made, up
\* to sequence "end", those with a lower sequence are exactly the ones that were
\* stored at or before "at".  0 stands for None.
IsFirstAfter(first, p, at, end) ==
  \A m \in Matching(p) :
    m.seq <= end => (m.time <= at <=> (first = 0 \/ m.seq < first))
=============================================================================
