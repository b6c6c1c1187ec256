--------------------------- MODULE StreamContract ----------------------------
(***************************************************************************)
(* What the client of one SSE connection may rely on, seen from the wire:  *)
(* the frames it has received and the stage they put it in.  SseStream     *)
(* implements this for each of its connections.                            *)
(*                                                                         *)
(*   new --> history --> live --> closed      watch with a start point     *)
(*   new ---------------> live --> closed     watch without one            *)
(*   new --> history --> ended --> closed     replay                       *)
(*                                                                         *)
(* A connection may close from every stage.  A history that was cut short, *)
(* by the replay limit or by a failed batch, goes to "ended", never to     *)
(* "live".                                                                 *)
(***************************************************************************)
EXTENDS Naturals, Sequences, FiniteSets

CONSTANTS
  MaxAllowed,    \* historical notifications one connection may get
  MaxSequence    \* bound: sequences that exist

VARIABLES
  mode,      \* "none" before the request; "live", "watch" or "replay"
  boundary,  \* last sequence that belongs to history
  stage,
  out        \* frames received, oldest first

contractVars == <<mode, boundary, stage, out>>

Indices(kinds) == {i \in DOMAIN out : out[i].kind \in kinds}

\* Newer than every notification, or error in place of one, received so far.
Newer(n) == \A i \in Indices({"replay", "live", "error"}) : out[i].seq < n

QuotaUsed == Cardinality(Indices({"replay"}))

Init == mode = "none" /\ boundary = 0 /\ stage = "new" /\ out = <<>>

-----------------------------------------------------------------------------

Accept ==
  /\ mode = "none"
  /\ mode' \in {"live", "watch", "replay"}
  /\ boundary' \in 0..MaxSequence
  /\ UNCHANGED <<stage, out>>

\* An end date lowers the boundary before anything has been sent.
SettleEnd ==
  /\ mode = "replay" /\ stage = "new"
  /\ boundary' \in 0..boundary
  /\ UNCHANGED <<mode, stage, out>>

Send(kind, seq, next) ==
  /\ out' = Append(out, [kind |-> kind, seq |-> seq])
  /\ stage' = next
  /\ UNCHANGED <<mode, boundary>>

Open ==
  /\ stage = "new"
  /\ \/ mode = "live" /\ Send("connection_established", 0, "live")
     \/ mode \in {"watch", "replay"} /\ Send("replay_started", 0, "history")

Historical(n) ==
  /\ stage = "history" /\ n <= boundary /\ Newer(n)
  /\ \/ Send("error", n, stage)
     \/ QuotaUsed < MaxAllowed /\ Send("replay", n, stage)

Live(n) ==
  /\ stage = "live" /\ n > boundary /\ Newer(n)
  /\ Send("error", n, stage) \/ Send("live", n, stage)

EndHistory ==
  /\ stage = "history"
  /\ \/ Send("replay_completed", 0, IF mode = "watch" THEN "live" ELSE "ended")
     \/ QuotaUsed = MaxAllowed /\ Send("replay_limit_reached", 0, "ended")
     \/ Send("replay_failed", 0, "ended")

Heartbeat ==
  /\ mode # "replay" /\ stage \in {"history", "live"}
  /\ Send("heartbeat", 0, stage)

\* The close frame is the last one and says why: a stream is only reported as
\* complete when it is, and a replay has no maximum duration.
Close ==
  /\ mode # "none"
  /\ \/ stage # "closed" /\ Send("server_shutdown", 0, "closed")
     \/ /\ mode # "replay" /\ stage \notin {"new", "closed"}
        /\ Send("max_duration_reached", 0, "closed")
     \/ stage = "ended" /\ Send("end_of_stream", 0, "closed")

\* The client goes away, or the request fails before its stream exists.
Leave ==
  /\ mode # "none" /\ stage # "closed"
  /\ stage' = "closed"
  /\ UNCHANGED <<mode, boundary, out>>

Next ==
  \/ Accept \/ SettleEnd \/ Open \/ EndHistory \/ Heartbeat \/ Close \/ Leave
  \/ \E n \in 1..MaxSequence : Historical(n) \/ Live(n)

Spec == Init /\ [][Next]_contractVars
=============================================================================
