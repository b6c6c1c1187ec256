------------------------------ MODULE SseStream ------------------------------
(***************************************************************************)
(* The SSE connections of /watch and /replay (src/sse, src/routes/watch.rs *)
(* and replay.rs) over a notification backend that keeps the contract of   *)
(* NotificationLog.  One handle in Subscribers is one connection.          *)
(*                                                                         *)
(* A response body is polled by one task, and each poll first looks at the *)
(* stop future (server shutdown, maximum duration) and then produces at    *)
(* most one frame: those polls are the actions below.  A poll that calls   *)
(* the backend is two actions, the call and its answer.  Between two polls *)
(* of a connection anything may happen: messages are published, deleted or *)
(* pruned, its subscription lags, the token is cancelled, its time is up,  *)
(* its client leaves.                                                      *)
(***************************************************************************)
EXTENDS NotificationLog, FiniteSetsExt

CONSTANTS
  Excluded,      \* payloads the filters of the requests reject
  Unrenderable,  \* payloads no CloudEvent can be made of
  Cursors,       \* start points of requests: sequences and dates
  Ends,          \* end points of replay requests
  MaxAllowed,    \* max_historical_notifications, or the schema's own limit
  Traffic,       \* bound: the topic and payload pairs that are published
  MaxHeartbeats  \* bound: heartbeats sent on one connection

ASSUME PayloadsAssumption ==
  Excluded \subseteq Payloads /\ Unrenderable \subseteq Payloads
\* StartAt and the two kinds of end a replay request may name.
ASSUME RequestsAssumption ==
  /\ Cursors \subseteq [kind : {"sequence", "date"}, value : Nat]
  /\ Ends \subseteq [kind : {"sequence", "date", "latest"}, value : Nat]
\* deserialize_positive_usize rejects a limit of zero.
ASSUME QuotaAssumption == MaxAllowed \in Nat \ {0} /\ MaxHeartbeats \in Nat

VARIABLES
  cancelled,     \* the shutdown token
  conn,          \* per connection, see Connection
  published,     \* history: every message ever stored, by sequence
  lost           \* history: sequences each subscription's queue has lost

vars == <<logVars, cancelled, conn, published, lost>>

Latest == [kind |-> "latest", value |-> 0]

Phases == {"idle", "resolving", "starting", "replaying", "fetching", "live",
           "drained", "closed"}

Idle ==
  [mode |-> "none", phase |-> "idle", topic |-> {}, start |-> FromSequence(0),
   end |-> Latest, bound |-> 0, cursor |-> FromSequence(0), more |-> FALSE,
   known |-> {}, frames |-> <<>>, delivered |-> 0, expired |-> FALSE, out |-> <<>>]

Frame(kind, seq) == [kind |-> kind, seq |-> seq]

FrameKinds ==
  {"connection_established", "replay_started", "replay_completed",
   "replay_limit_reached", "replay_failed", "replay", "live", "error",
   "heartbeat", "server_shutdown", "max_duration_reached", "end_of_stream"}

Frames == [kind : FrameKinds, seq : Nat]

Connection ==
  [mode : {"none", "live", "watch", "replay"}, phase : Phases,
   topic : Patterns \cup {{}}, start : Cursors \cup {FromSequence(0)},
   end : Ends \cup {Latest}, bound : Nat,
   cursor : [kind : {"sequence", "date"}, value : Nat], more : BOOLEAN,
   known : SUBSET Message, frames : Seq(Frames), delivered : 0..MaxAllowed, expired : BOOLEAN,
   out : Seq(Frames)]

TypeOK ==
  /\ LogTypeOK
  /\ cancelled \in BOOLEAN
  /\ conn \in [Subscribers -> Connection]
  /\ published \in Seq(Message)
  /\ lost \in [Subscribers -> SUBSET Nat]

Init ==
  /\ LogInit
  /\ cancelled = FALSE
  /\ conn = [c \in Subscribers |-> Idle]
  /\ published = <<>>
  /\ lost = [c \in Subscribers |-> {}]

-----------------------------------------------------------------------------
(* The backend and the rest of the world.                                   *)

NextMessage(topic, payload) ==
  [seq |-> nextSequence, topic |-> topic, time |-> clock, payload |-> payload]

Publish(topic, payload) ==
  /\ Put(topic, payload)
  /\ published' = Append(published, NextMessage(topic, payload))
  /\ lost' = [c \in Subscribers |->
                lost[c] \cup {m.seq : m \in ToSet(Offer(c, NextMessage(topic, payload)))
                                              \ ToSet(queue'[c])}]
  /\ UNCHANGED <<cancelled, conn>>

Environment ==
  /\ Forget \/ Tick
  /\ lost' = [c \in Subscribers |->
                lost[c] \cup {m.seq : m \in ToSet(queue[c]) \ ToSet(queue'[c])}]
  /\ UNCHANGED <<cancelled, conn, published>>

\* The token every connection shares is cancelled once, at server shutdown.
Shutdown ==
  /\ ~cancelled
  /\ cancelled' = TRUE
  /\ UNCHANGED <<logVars, conn, published, lost>>

-----------------------------------------------------------------------------
(* Opening a stream.                                                        *)

Step(c, k) ==
  /\ conn' = [conn EXCEPT ![c] = k]
  /\ UNCHANGED <<cancelled, published, lost>>

Accept(c, k) == conn[c].mode = "none" /\ Step(c, k)

\* create_watch_sse_stream: no start point, live notifications only.  The
\* boundary of the subscription is not used by the code, only by properties.
OpenLive(c, p) ==
  /\ Subscribe(c, p)
  /\ Accept(c, [Idle EXCEPT !.mode = "live", !.phase = "starting", !.topic = p,
                            !.bound = historyEnd'[c]])

\* Mutation of OpenWatch: the boundary is taken to be exclusive.
OpenWatchOverlapping(c, p, start) ==
  /\ Subscribe(c, p)
  /\ Accept(c, [Idle EXCEPT !.mode = "watch", !.phase = "starting", !.topic = p,
                            !.start = start, !.cursor = start, !.more = TRUE,
                            !.bound = historyEnd'[c] + 1])

\* create_historical_then_live_stream: subscribes first, then replays up to the
\* boundary of that subscription.
OpenWatch(c, p, start) ==
  /\ Subscribe(c, p)
  /\ Accept(c, [Idle EXCEPT !.mode = "watch", !.phase = "starting", !.topic = p,
                            !.start = start, !.cursor = start, !.more = TRUE,
                            !.bound = historyEnd'[c]])

\* validate_end_at: an end before the start is rejected when both are of a kind.
EndAfterStart(start, end) == start.kind = end.kind => start.value <= end.value

\* create_replay_only_stream with resolve_end_sequence: the history_end is read
\* first; an end date needs a second request to the backend (ResolveEnd).
OpenReplay(c, p, start, end) ==
  /\ EndAfterStart(start, end)
  /\ Accept(c, [Idle EXCEPT
       !.mode = "replay", !.topic = p, !.start = start, !.end = end,
       !.cursor = start, !.more = TRUE,
       !.phase = IF end.kind = "date" THEN "resolving" ELSE "starting",
       !.bound = IF end.kind = "sequence" THEN Min({HistoryEnd, end.value})
                 ELSE HistoryEnd])
  /\ UNCHANGED logVars

\* Mutation of ResolveEnd: the first message after the end date is included.
ResolveEndInclusive(c) ==
  /\ conn[c].phase = "resolving"
  /\ \E first \in 0..HistoryEnd :
       /\ IsFirstAfter(first, conn[c].topic, conn[c].end.value, conn[c].bound)
       /\ Step(c, [conn[c] EXCEPT
                   !.phase = "starting",
                   !.bound = IF first = 0 THEN @ ELSE Min({@, first})])
  /\ UNCHANGED logVars

ResolveEnd(c) ==
  /\ conn[c].phase = "resolving"
  /\ \E first \in 0..HistoryEnd :
       /\ IsFirstAfter(first, conn[c].topic, conn[c].end.value, conn[c].bound)
       /\ Step(c, [conn[c] EXCEPT
                   !.phase = "starting",
                   !.bound = IF first = 0 THEN @ ELSE Min({@, first - 1})])
  /\ UNCHANGED logVars

-----------------------------------------------------------------------------
(* Polling a stream: take_until looks at the stop future before the frames. *)

\* The maximum duration applies to watches only.
StopReady(c) == cancelled \/ conn[c].expired

Polled(c, phase) == conn[c].phase = phase /\ ~StopReady(c)

Emit(c, kind, seq, phase) ==
  Step(c, [conn[c] EXCEPT !.phase = phase, !.out = Append(@, Frame(kind, seq))])

EmitStart(c) ==
  /\ Polled(c, "starting")
  /\ IF conn[c].mode = "live" THEN Emit(c, "connection_established", 0, "live")
     ELSE Emit(c, "replay_started", 0, "replaying")
  /\ UNCHANGED logVars

\* The heartbeat timer is merged in only behind the first frame.
Heartbeat(c) ==
  /\ conn[c].mode # "replay"
  /\ Polled(c, "replaying") \/ Polled(c, "fetching") \/ Polled(c, "live")
  /\ Cardinality({i \in DOMAIN conn[c].out : conn[c].out[i].kind = "heartbeat"})
       < MaxHeartbeats
  /\ Emit(c, "heartbeat", 0, conn[c].phase)
  /\ UNCHANGED logVars

\* The messages of a page, in sequence order, that pass the request's filters.
Accepted(page) == BySequence({m \in page : m.payload \notin Excluded})

Rendered(m, kind) ==
  Frame(IF m.payload \in Unrenderable THEN "error" ELSE kind, m.seq)

\* How many of the first i messages count against the quota.
Counted(messages, i) ==
  Cardinality({j \in 1..i : messages[j].payload \notin Unrenderable})

\* Mutation of BatchFrames: a full quota is taken for truncation.
BatchFramesWhenFull(messages, quota) ==
  LET over == {i \in DOMAIN messages : Counted(messages, i) >= quota}
      shown == IF over = {} THEN Len(messages) ELSE Min(over)
  IN [i \in 1..shown |-> Rendered(messages[i], "replay")]
       \o IF over = {} THEN <<>> ELSE <<Frame("replay_limit_reached", 0)>>

\* The frames of a batch: the first notification beyond the quota is replaced
\* by the limit control, and what follows it is not looked at.
BatchFrames(messages, quota) ==
  LET over == {i \in DOMAIN messages : Counted(messages, i) > quota}
      shown == IF over = {} THEN Len(messages) ELSE Min(over) - 1
  IN [i \in 1..shown |-> Rendered(messages[i], "replay")]
       \o IF over = {} THEN <<>> ELSE <<Frame("replay_limit_reached", 0)>>

\* Mutation of NextCursor: a sequence is skipped.
NextCursorBeyond(k, next) == IF next = 0 THEN k.cursor ELSE FromSequence(next + 1)

\* A batch that announces more also moves the cursor.
NextCursor(k, next) == IF next = 0 THEN k.cursor ELSE FromSequence(next)

\* Mutation of GoesOn: the batch's own has_more is never taken over.
GoesOnUnlessTruncated(next, counted, quota) == counted <= quota

\* has_more of the batch, unless the quota was exceeded in it.
GoesOn(next, counted, quota) == next # 0 /\ counted <= quota

\* One round of the unfold in create_historical_replay_stream: the backend is
\* called, and from now on its answer may be based on what is stored.
RequestBatch(c) ==
  /\ Polled(c, "replaying") /\ conn[c].frames = <<>> /\ conn[c].more
  /\ LET k == conn[c]
     IN Step(c, [k EXCEPT !.phase = "fetching",
                          !.known = InRange(retained, k.topic, k.cursor, k.bound)])
  /\ UNCHANGED logVars

\* The answer comes back.
FetchBatch(c) ==
  /\ Polled(c, "fetching")
  /\ \E next \in 0..conn[c].bound, page \in SUBSET conn[c].known :
       LET k == conn[c]
           quota == MaxAllowed - k.delivered
           messages == Accepted(page)
           counted == Counted(messages, Len(messages))
       IN /\ IsBatch(page, next # 0, next, k.known, k.topic, k.cursor, k.bound)
          /\ Step(c, [k EXCEPT
               !.phase = "replaying", !.known = {},
               !.cursor = NextCursor(k, next),
               !.more = GoesOn(next, counted, quota),
               !.delivered = Min({MaxAllowed, @ + counted}),
               !.frames = BatchFrames(messages, quota)])
  /\ UNCHANGED logVars

\* get_messages_batch fails: one terminal frame and no further batch.
FetchFails(c) ==
  /\ Polled(c, "fetching")
  /\ Step(c, [conn[c] EXCEPT !.phase = "replaying", !.known = {}, !.more = FALSE,
                             !.frames = <<Frame("replay_failed", 0)>>])
  /\ UNCHANGED logVars

\* Mutation of Terminal: a replay goes on behind its limit control.
TerminalFailure == {"replay_failed"}

Terminal == {"replay_limit_reached", "replay_failed"}

\* A frame of the batch goes out; behind a terminal one the stream is over.
EmitReplay(c) ==
  /\ Polled(c, "replaying") /\ conn[c].frames # <<>>
  /\ LET f == Head(conn[c].frames)
     IN Step(c, [conn[c] EXCEPT
               !.phase = IF f.kind \in Terminal THEN "drained" ELSE @,
               !.frames = Tail(@),
               !.out = Append(@, f)])
  /\ UNCHANGED logVars

\* The history is exhausted: a watch goes on to its subscription.
CompleteReplay(c) ==
  /\ Polled(c, "replaying") /\ conn[c].frames = <<>> /\ ~conn[c].more
  /\ Emit(c, "replay_completed", 0, IF conn[c].mode = "watch" THEN "live" ELSE "drained")
  /\ UNCHANGED logVars

\* Mutation of EmitLive: a notification that cannot be rendered is dropped.
EmitLiveRenderable(c) ==
  /\ Polled(c, "live")
  /\ Receive(c)
  /\ LET m == Head(queue[c])
     IN IF m.payload \in Excluded \cup Unrenderable THEN Step(c, conn[c])
        ELSE Emit(c, "live", m.seq, "live")

\* The subscription yields a message; excluded ones produce no frame.
EmitLive(c) ==
  /\ Polled(c, "live")
  /\ Receive(c)
  /\ LET m == Head(queue[c])
         f == Rendered(m, "live")
     IN IF m.payload \in Excluded THEN Step(c, conn[c])
        ELSE Emit(c, f.kind, f.seq, "live")

-----------------------------------------------------------------------------
(* Ending a stream.                                                         *)

Opened == {"starting", "replaying", "fetching", "live", "drained"}

\* tokio::time::sleep of the stop future, which starts with the first poll.
Expire(c) ==
  /\ conn[c].mode # "replay" /\ conn[c].phase \in Opened \ {"starting"}
  /\ ~conn[c].expired
  /\ Step(c, [conn[c] EXCEPT !.expired = TRUE])
  /\ UNCHANGED logVars

DropStream(c) == IF pattern[c] = {} THEN UNCHANGED logVars ELSE Unsubscribe(c)

\* Mutation of CloseReasons: the stop future forgets the token.
CloseReasonsWithoutToken(c) ==
  (IF conn[c].expired THEN {"max_duration_reached"} ELSE {})
    \cup (IF ~StopReady(c) /\ conn[c].phase = "drained" THEN {"end_of_stream"} ELSE {})

\* When both the token and the sleep are ready, select! takes either of them.
CloseReasons(c) ==
  (IF cancelled THEN {"server_shutdown"} ELSE {})
    \cup (IF conn[c].expired THEN {"max_duration_reached"} ELSE {})
    \cup (IF ~StopReady(c) /\ conn[c].phase = "drained" THEN {"end_of_stream"} ELSE {})

\* The frames end and the close frame is made and sent in one poll.
Close(c) ==
  /\ conn[c].phase \in Opened
  /\ \E reason \in CloseReasons(c) : Emit(c, reason, 0, "closed")
  /\ DropStream(c)

\* The client disconnects, or resolving the end of a replay fails.
Leave(c) ==
  /\ conn[c].phase \in Opened \cup {"resolving"}
  /\ Step(c, [conn[c] EXCEPT !.phase = "closed"])
  /\ DropStream(c)

\* What the task serving a connection does for as long as its client reads.
Serve(c) ==
  \/ ResolveEnd(c) \/ EmitStart(c) \/ RequestBatch(c) \/ FetchBatch(c)
  \/ EmitReplay(c) \/ CompleteReplay(c) \/ EmitLive(c) \/ Close(c)

Next ==
  \/ \E t \in Topics, b \in Payloads : <<t, b>> \in Traffic /\ Publish(t, b)
  \/ Environment
  \/ Shutdown
  \/ \E c \in Subscribers :
       \/ \E p \in Patterns : OpenLive(c, p)
       \/ \E p \in Patterns, start \in Cursors : OpenWatch(c, p, start)
       \/ \E p \in Patterns, start \in Cursors, end \in Ends : OpenReplay(c, p, start, end)
       \/ Serve(c)
       \/ Heartbeat(c)
       \/ FetchFails(c)
       \/ Expire(c)
       \/ Leave(c)

Spec == Init /\ [][Next]_vars

\* An accepted response is polled until it ends: each enabled step of a
\* connection's task is eventually taken.  Nothing is assumed of clients,
\* publishers, timers or the shutdown signal.
FairSpec == Spec /\ \A c \in Subscribers : WF_vars(Serve(c))

-----------------------------------------------------------------------------
(* What a client gets.                                                      *)

SeqsOf(c, kinds) == {f.seq : f \in {x \in ToSet(conn[c].out) : x.kind \in kinds}}

Requested(c, m) ==
  m.topic \in conn[c].topic /\ Starts(conn[c].start, m) /\ m.seq <= conn[c].bound

Notifiable(m) == m.payload \notin Excluded \cup Unrenderable

\* The frames that stand for a message.
Sequenced(q) == {i \in DOMAIN q : q[i].kind \in {"replay", "live", "error"}}

InOrder(q) == \A i, j \in Sequenced(q) : i < j => q[i].seq < q[j].seq

\* Notifications, and the errors in place of unrenderable ones, come in
\* ascending order without a repetition, across batches and across the switch
\* from history to live, which happens at the boundary; what a batch still has
\* to send continues that order.
DeliveryOrdered ==
  \A c \in Subscribers :
    LET k == conn[c] IN
    /\ InOrder(k.out) /\ InOrder(k.frames)
    /\ \A i \in Sequenced(k.out), j \in Sequenced(k.frames) :
         k.out[i].seq < k.frames[j].seq
    /\ \A q \in {k.out, k.frames} : \A i \in DOMAIN q :
         /\ q[i].kind = "replay" => q[i].seq <= k.bound
         /\ q[i].kind = "live" => q[i].seq > k.bound

\* Everything replayed was asked for: it matches the watched pattern, was stored
\* at or after the start, at or before the end, and existed when the request
\* came.  A to_date end is turned into a sequence while messages come and go.
ReplayWithinRequest ==
  \A c \in Subscribers : \A n \in SeqsOf(c, {"replay"}) :
    LET m == published[n] IN
    /\ Requested(c, m) /\ Notifiable(m)
    /\ conn[c].end.kind = "sequence" => n <= conn[c].end.value
    /\ conn[c].end.kind = "date" => m.time <= conn[c].end.value

\* A replay that reports completion has skipped nothing that is still stored,
\* whatever was pruned, deleted or published between its batches.
ReplayComplete ==
  \A c \in Subscribers :
    SeqsOf(c, {"replay_completed"}) # {} =>
      \A m \in retained :
        Requested(c, m) /\ Notifiable(m) => m.seq \in SeqsOf(c, {"replay"})

\* Turning an end date into a sequence neither loses nor adds a message: of the
\* history there was when the request came, what is still stored lies within
\* the boundary exactly when it was stored by that date.
EndDateExact ==
  [][\A c \in Subscribers :
       conn[c].phase = "resolving" /\ conn'[c].phase = "starting" =>
         \A m \in Matching(conn[c].topic) :
           m.seq <= conn[c].bound =>
             (m.time <= conn[c].end.value <=> m.seq <= conn'[c].bound)]_vars

\* While a watch is open, every matching message stored after its boundary has
\* been delivered, is queued for it, was lost by the backend or was filtered
\* out: also those that came in while history was still being replayed.
NothingLostAfterBoundary ==
  \A c \in Subscribers : pattern[c] # {} =>
    \A m \in ToSet(published) :
      m.topic \in conn[c].topic /\ m.seq > conn[c].bound =>
        \/ m \in ToSet(queue[c])
        \/ m.seq \in lost[c]
        \/ m.payload \in Excluded
        \/ m.seq \in SeqsOf(c, {"live", "error"})

\* The limit control is proof of truncation: the quota was used up, and one more
\* notification that was asked for had been stored.
LimitProvesTruncation ==
  \A c \in Subscribers :
    SeqsOf(c, {"replay_limit_reached"}) # {} =>
      /\ Cardinality(SeqsOf(c, {"replay"})) = MaxAllowed
      /\ \E m \in ToSet(published) :
           /\ Requested(c, m) /\ Notifiable(m)
           /\ \A n \in SeqsOf(c, {"replay"}) : n < m.seq

-----------------------------------------------------------------------------
(* The contract with the client.                                            *)

Stage(k) ==
  CASE k.phase \in {"idle", "resolving", "starting"} -> "new"
    [] k.phase \in {"replaying", "fetching"} -> "history"
    [] k.phase = "drained" -> "ended"
    [] OTHER -> k.phase

Contract(c) == INSTANCE StreamContract WITH
                 mode <- conn[c].mode, boundary <- conn[c].bound,
                 stage <- Stage(conn[c]), out <- conn[c].out

\* Every connection keeps the frame protocol: one start frame first, nothing
\* behind the close frame, no live delivery or heartbeat behind a truncated or
\* failed history, and a close reason that fits.
ImplementsContract ==
  /\ \A c \in Subscribers : Contract(c)!Init
  /\ [][\A c \in Subscribers : [Contract(c)!Next]_(Contract(c)!contractVars)]_vars

-----------------------------------------------------------------------------
(* Liveness.                                                                *)

\* Catching up ends: in completion, in truncation, in failure or in the end of
\* the connection.  Paging moves forward through a history of bounded length
\* while new messages keep coming in behind it.
CatchUpTerminates ==
  \A c \in Subscribers :
    conn[c].phase \in {"replaying", "fetching"} ~> conn[c].phase \in {"live", "drained", "closed"}

\* Once the token is cancelled every open stream ends.
ShutdownEndsStreams ==
  \A c \in Subscribers : cancelled /\ conn[c].phase \in Opened ~> conn[c].phase = "closed"

\* A replay ends by itself: nobody has to stop it.
ReplayEnds ==
  \A c \in Subscribers : conn[c].mode = "replay" ~> conn[c].phase = "closed"

=============================================================================
