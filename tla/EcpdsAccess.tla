------------------------------ MODULE EcpdsAccess ------------------------------
(***************************************************************************)
(* The ECPDS plugin: watch and replay requests are checked against the     *)
(* list of destinations that the ECPDS servers grant a user                *)
(* (enforce_ecpds_auth in src/routes/streaming.rs; the checker, client and *)
(* cache of aviso-ecpds).                                                  *)
(*                                                                         *)
(* Requests of one user share one cache entry and one fetch.  A fetch      *)
(* queries every server in parallel and merges the answers under the       *)
(* partial-outage policy.  Meanwhile servers fail and recover, access is   *)
(* granted and revoked, entries expire and clients go away.  The cache     *)
(* library (moka) is modelled from how the code uses it: an entry lives    *)
(* for the TTL from its insertion, may be evicted at any time, and a fetch *)
(* whose request is dropped passes to a request that waits for it.         *)
(***************************************************************************)
EXTENDS Naturals, FiniteSets

CONSTANTS
  Requests,       \* watch and replay requests
  Users,
  Destinations,   \* values of the match key
  Servers,        \* the configured ECPDS servers
  Policies,       \* the partial-outage policies considered
  TTL,            \* cache_ttl_seconds
  Timeout,        \* request_timeout_seconds
  MaxClock,       \* bound: instants a behaviour passes through
  MaxChanges      \* bound: changes of access and of the health of servers

ASSUME ServersAssumption == Servers # {} /\ IsFiniteSet(Servers)
\* Both durations are validated to be positive.
ASSUME TimesAssumption ==
  TTL \in Nat \ {0} /\ Timeout \in Nat \ {0} /\ MaxClock \in Nat \ {0} /\ MaxChanges \in Nat
ASSUME PoliciesAssumption == Policies \subseteq {"strict", "any_success"}

VARIABLES
  policy,      \* configuration
  clock,
  granted,     \* per server: what it would answer, pairs of user and destination
  up,          \* the servers that answer
  changes,     \* counts the changes of the last two
  cache,       \* per user, see Entry
  request,     \* per request, see Request
  lastGranted, \* history: per server and pair, when it was last granted
  lastLacked,  \* history: per server and pair, when it was last not granted
  lastDown     \* history: per server, when it last did not answer

world == <<policy, clock, granted, up, changes, lastGranted, lastLacked, lastDown>>
vars == <<policy, clock, granted, up, changes, cache, request, lastGranted,
          lastLacked, lastDown>>

Pairs == Users \X Destinations

\* What a fetch comes to: the list of destinations or ServiceUnavailable.
List(destinations) == [ok |-> TRUE, list |-> destinations]
Unavailable == [ok |-> FALSE, list |-> {}]
Lists == {List(destinations) : destinations \in SUBSET Destinations}

NoEntry == [result |-> Unavailable, expires |-> 0]

\* Only lists are cached.
Entry == [result : Lists, expires : Nat \ {0}]

\* Of a fetch: the servers that have not answered, those that failed, and the
\* destinations in the answers so far.
Idle ==
  [phase |-> "idle", user |-> "none", destination |-> "none", arrived |-> 0,
   started |-> 0, pending |-> {}, failed |-> {}, list |-> {}, result |-> Unavailable]

Answered == {"allowed", "denied", "unavailable"}
Phases ==
  Answered \cup {"idle", "lookup", "miss", "fetching", "waiting", "decide"}

Request ==
  [phase : Phases, user : Users \cup {"none"}, destination : Destinations \cup {"none"},
   arrived : Nat, started : Nat, pending : SUBSET Servers, failed : SUBSET Servers,
   list : SUBSET Destinations, result : Lists \cup {Unavailable}]

TypeOK ==
  /\ policy \in Policies
  /\ clock \in 1..MaxClock
  /\ granted \in [Servers -> SUBSET Pairs]
  /\ up \in SUBSET Servers
  /\ changes \in 0..MaxChanges
  /\ cache \in [Users -> Entry \cup {NoEntry}]
  /\ request \in [Requests -> Request]

\* History starts with what there is now; 0 is never.
Init ==
  /\ policy \in Policies
  /\ clock = 1
  /\ granted \in [Servers -> SUBSET Pairs]
  /\ up \in SUBSET Servers
  /\ changes = 0
  /\ cache = [u \in Users |-> NoEntry]
  /\ request = [r \in Requests |-> Idle]
  /\ lastGranted = [s \in Servers |-> [p \in Pairs |-> IF p \in granted[s] THEN 1 ELSE 0]]
  /\ lastLacked = [s \in Servers |-> [p \in Pairs |-> IF p \in granted[s] THEN 0 ELSE 1]]
  /\ lastDown = [s \in Servers |-> IF s \in up THEN 0 ELSE 1]

-----------------------------------------------------------------------------
(* Time and the ECPDS servers.                                              *)

\* What holds from now on holds at this instant.
Remember ==
  /\ lastGranted' = [s \in Servers |->
       [p \in Pairs |-> IF p \in granted'[s] THEN clock' ELSE lastGranted[s][p]]]
  /\ lastLacked' = [s \in Servers |->
       [p \in Pairs |-> IF p \notin granted'[s] THEN clock' ELSE lastLacked[s][p]]]
  /\ lastDown' = [s \in Servers |-> IF s \notin up' THEN clock' ELSE lastDown[s]]

\* A query is over when its timeout is; a decision on a result takes no time.
Tick ==
  /\ clock < MaxClock
  /\ \A r \in Requests :
       /\ request[r].phase # "decide"
       /\ request[r].phase = "fetching" => clock < request[r].started + Timeout
  /\ clock' = clock + 1
  /\ UNCHANGED <<policy, granted, up, changes, cache, request>>
  /\ Remember

ChangeAccess(s, p) ==
  /\ changes < MaxChanges
  /\ changes' = changes + 1
  /\ granted' = [granted EXCEPT ![s] = IF p \in @ THEN @ \ {p} ELSE @ \cup {p}]
  /\ UNCHANGED <<policy, clock, up, cache, request>>
  /\ Remember

\* A server that cannot be reached, is too slow or answers with an error.
ChangeHealth(s) ==
  /\ changes < MaxChanges
  /\ changes' = changes + 1
  /\ up' = IF s \in up THEN up \ {s} ELSE up \cup {s}
  /\ UNCHANGED <<policy, clock, granted, cache, request>>
  /\ Remember

-----------------------------------------------------------------------------
(* A request.                                                               *)

SetRequest(r, k) == request' = [request EXCEPT ![r] = k]

Free(r) == request[r].phase \in Answered \cup {"idle"}

\* enforce_ecpds_auth lets administrators pass.
Bypass(r) ==
  /\ Free(r)
  /\ SetRequest(r, [Idle EXCEPT !.phase = "allowed"])
  /\ UNCHANGED <<world, cache>>

\* check_access denies a request without the match key before any lookup.
DenyWithoutKey(r) ==
  /\ Free(r)
  /\ SetRequest(r, [Idle EXCEPT !.phase = "denied"])
  /\ UNCHANGED <<world, cache>>

CheckAccess(r, u, d) ==
  /\ Free(r)
  /\ SetRequest(r, [Idle EXCEPT !.phase = "lookup", !.user = u, !.destination = d,
                                !.arrived = clock])
  /\ UNCHANGED <<world, cache>>

Live(u) == cache[u] # NoEntry /\ clock < cache[u].expires

Decides(r, result) ==
  [request[r] EXCEPT !.phase = "decide", !.result = result, !.started = 0,
                     !.failed = {}, !.list = {}]

\* Mutation of CacheGet: the lifetime counts from the last use (time_to_idle).
CacheGetRenewing(r) ==
  LET u == request[r].user
  IN /\ request[r].phase = "lookup"
     /\ SetRequest(r, IF Live(u) THEN Decides(r, cache[u].result)
                      ELSE [request[r] EXCEPT !.phase = "miss"])
     /\ cache' = IF Live(u) THEN [cache EXCEPT ![u].expires = clock + TTL] ELSE cache
     /\ UNCHANGED world

\* try_get_or_fetch: the first look at the cache.
CacheGet(r) ==
  LET u == request[r].user
  IN /\ request[r].phase = "lookup"
     /\ SetRequest(r, IF Live(u) THEN Decides(r, cache[u].result)
                      ELSE [request[r] EXCEPT !.phase = "miss"])
     /\ UNCHANGED <<world, cache>>

Fetching(u) == {r \in Requests : request[r].phase = "fetching" /\ request[r].user = u}
Waiting(u) == {r \in Requests : request[r].phase = "waiting" /\ request[r].user = u}

StartFetch(r) ==
  [request[r] EXCEPT !.phase = "fetching", !.started = clock, !.pending = Servers]

\* Mutation of TryGetWith: every miss fetches.
TryGetWithAlone(r) ==
  LET u == request[r].user
  IN /\ request[r].phase = "miss"
     /\ SetRequest(r, IF Live(u) THEN Decides(r, cache[u].result) ELSE StartFetch(r))
     /\ UNCHANGED <<world, cache>>

\* try_get_with_by_ref: what was inserted since the first look, the fetch that is
\* running, or a fetch of its own.
TryGetWith(r) ==
  LET u == request[r].user
  IN /\ request[r].phase = "miss"
     /\ SetRequest(r, IF Live(u) THEN Decides(r, cache[u].result)
                      ELSE IF Fetching(u) # {} THEN [request[r] EXCEPT !.phase = "waiting"]
                      ELSE StartFetch(r))
     /\ UNCHANGED <<world, cache>>

\* fetch_from_server: what the server grants at this instant, or a failure.
ServerAnswers(r, s) ==
  LET u == request[r].user
  IN /\ request[r].phase = "fetching"
     /\ s \in request[r].pending
     /\ SetRequest(r,
          LET k == [request[r] EXCEPT !.pending = @ \ {s}]
          IN IF s \in up
             THEN [k EXCEPT !.list = @ \cup {d \in Destinations : <<u, d>> \in granted[s]}]
             ELSE [k EXCEPT !.failed = @ \cup {s}])
     /\ UNCHANGED <<world, cache>>

\* Mutation of Merged: the strict policy tolerates failures too.
MergedTolerant(k) == IF k.failed = Servers THEN Unavailable ELSE List(k.list)

\* merge_strict and merge_any_success.
Merged(k) ==
  IF k.failed = Servers \/ (policy = "strict" /\ k.failed # {})
  THEN Unavailable
  ELSE List(k.list)

\* Mutation of Cached: failures are cached like lists.
CachedAlways(result) == [result |-> result, expires |-> clock + TTL]

\* Errors are not cached.
Cached(result) ==
  IF result.ok THEN [result |-> result, expires |-> clock + TTL] ELSE NoEntry

\* The fetch ends for everyone who waits for it (clone_ecpds_error keeps the
\* kind of a failure).
FetchEnds(r) ==
  LET u == request[r].user
      result == Merged(request[r])
  IN /\ request[r].phase = "fetching"
     /\ request[r].pending = {}
     /\ cache' = [cache EXCEPT ![u] = Cached(result)]
     /\ request' = [q \in Requests |->
                      IF q = r \/ q \in Waiting(u)
                      THEN Decides(q, result)
                      ELSE request[q]]
     /\ UNCHANGED world

\* The verdict of check_access and the response enforce_ecpds_auth makes of it.
Verdict(r) ==
  IF ~request[r].result.ok THEN "unavailable"
  ELSE IF request[r].destination \in request[r].result.list THEN "allowed" ELSE "denied"

Decide(r) ==
  /\ request[r].phase = "decide"
  /\ SetRequest(r, [Idle EXCEPT !.phase = Verdict(r)])
  /\ UNCHANGED <<world, cache>>

\* The client disconnects and the request is dropped; a fetch it ran is another's.
Leave(r) ==
  LET abandoned == IF request[r].phase = "fetching" THEN Waiting(request[r].user) ELSE {}
  IN /\ ~Free(r)
     /\ request' = [q \in Requests |->
                      IF q = r THEN Idle
                      ELSE IF q \in abandoned THEN [request[q] EXCEPT !.phase = "miss"]
                      ELSE request[q]]
     /\ UNCHANGED <<world, cache>>

\* max_entries, and moka's housekeeping.
Evict(u) ==
  /\ cache[u] # NoEntry
  /\ cache' = [cache EXCEPT ![u] = NoEntry]
  /\ UNCHANGED <<world, request>>

-----------------------------------------------------------------------------

Serve(r) ==
  \/ CacheGet(r)
  \/ TryGetWith(r)
  \/ \E s \in Servers : ServerAnswers(r, s)
  \/ FetchEnds(r)
  \/ Decide(r)

Next ==
  \/ Tick
  \/ \E s \in Servers : ChangeHealth(s) \/ \E p \in Pairs : ChangeAccess(s, p)
  \/ \E u \in Users : Evict(u)
  \/ \E r \in Requests :
       \/ Bypass(r)
       \/ DenyWithoutKey(r)
       \/ \E u \in Users, d \in Destinations : CheckAccess(r, u, d)
       \/ Serve(r)
       \/ Leave(r)

Spec == Init /\ [][Next]_vars

-----------------------------------------------------------------------------
(* Correctness.                                                             *)

\* However many requests of a user miss the cache together, and whichever of
\* them goes away, one of them at most is fetching.
SingleFlight == \A u \in Users : \A q, r \in Fetching(u) : q = r

Becomes(r, phase) == request[r].phase = "decide" /\ request'[r].phase = phase

Window == TTL + Timeout

\* The pair a request is about.
Claim(r) == <<request[r].user, request[r].destination>>

\* Access that is revoked on every server is refused when the lifetime of the
\* list and the duration of a fetch are over, however often the list is used.
RevocationTakesEffect ==
  [][\A r \in Requests : Becomes(r, "allowed") =>
       \E s \in Servers :
         /\ lastGranted[s][Claim(r)] # 0
         /\ clock < lastGranted[s][Claim(r)] + Window]_vars

\* A refusal is about access and not about an outage: under the strict policy
\* every server has lately answered that the destination is not granted, and
\* otherwise each has that did not fail.
DenialsAreInformed ==
  [][\A r \in Requests : Becomes(r, "denied") =>
       \A s \in Servers :
         \/ lastLacked[s][Claim(r)] # 0 /\ clock < lastLacked[s][Claim(r)] + Window
         \/ /\ policy = "any_success"
            /\ lastDown[s] # 0 /\ clock < lastDown[s] + Window]_vars

\* An outage is reported only to requests that came while it lasted or while a
\* fetch that met it was running: it is not prolonged by the cache.
OutagesAreNotExtended ==
  [][\A r \in Requests : Becomes(r, "unavailable") =>
       \E s \in Servers :
         lastDown[s] # 0 /\ request[r].arrived <= lastDown[s] + Timeout]_vars

\* authentication.md on any_success: a user whose only entitlement lived on an
\* unreachable server will see 403 until the server is back.  So one who has been
\* entitled all the time is refused only if the server failed since the request.
DenialEndsWithOutage ==
  [][\A r \in Requests : Becomes(r, "denied") =>
       \A s \in Servers :
         lastLacked[s][Claim(r)] = 0 => lastDown[s] >= request[r].arrived]_vars
=============================================================================
