---------------------------- MODULE ReadAccessProofs ----------------------------
(***************************************************************************)
(* Proofs about reading: who is let in (EcpdsAccess), and what comes       *)
(* through to whom (Routing), for any requests, users, destinations,       *)
(* servers, durations, schemas, values and bounds.                         *)
(*                                                                         *)
(* EcpdsAccess: whatever is in a list, in the cache or in a running fetch  *)
(* is covered by what the servers granted, lacked or failed to say at most *)
(* a fetch and a lifetime ago, and time only adds to what was observed.    *)
(*                                                                         *)
(* Routing: a subject is decoded to the texts that it was made of.  The    *)
(* invariant says of every message and of every subscription which values  *)
(* its tokens and filters were made of, and of every pair examined that    *)
(* what passed is what was asked for.  What single values look like as     *)
(* texts, and where places are, is left to the conditions at the end of    *)
(* Routing.                                                                *)
(***************************************************************************)
EXTENDS EcpdsAccess, Routing, OrderLemmas, TLAPS

-----------------------------------------------------------------------------
(* What the history vouches for until the instant t.                        *)

GrantedUntil(u, d, t) ==
  \E s \in Servers :
    lastGranted[s][<<u, d>>] # 0 /\ t <= lastGranted[s][<<u, d>>] + Window

LackedUntil(s, u, d, t) ==
  lastLacked[s][<<u, d>>] # 0 /\ t <= lastLacked[s][<<u, d>>] + Window

DownUntil(s, t) == lastDown[s] # 0 /\ t <= lastDown[s] + Window

\* A list is right about a user until t, up to the outages that the policy
\* tolerates.
Covered(u, list, t) ==
  /\ \A d \in list : GrantedUntil(u, d, t)
  /\ \A d \in Destinations \ list, s \in Servers :
       LackedUntil(s, u, d, t) \/ (policy = "any_success" /\ DownUntil(s, t))

HistoryTyped ==
  /\ lastGranted \in [Servers -> [Pairs -> Nat]]
  /\ lastLacked \in [Servers -> [Pairs -> Nat]]
  /\ lastDown \in [Servers -> Nat]

\* What holds now was last seen now.
HistoryCurrent ==
  \A s \in Servers :
    /\ \A p \in Pairs :
         IF p \in granted[s] THEN lastGranted[s][p] = clock ELSE lastLacked[s][p] = clock
    /\ s \notin up => lastDown[s] = clock

HistoryBounded ==
  \A s \in Servers :
    /\ \A p \in Pairs : lastGranted[s][p] <= clock /\ lastLacked[s][p] <= clock
    /\ lastDown[s] <= clock

\* A request that is being checked has a claim; a fetch ends within its timeout,
\* and starts with nothing.
WellFormed(k) ==
  /\ k.arrived <= clock
  /\ k.phase \in {"lookup", "miss", "fetching", "waiting", "decide"} =>
       k.user \in Users /\ k.destination \in Destinations
  /\ k.phase \in {"lookup", "miss", "waiting"} => k.failed = {} /\ k.list = {}
  /\ k.phase = "fetching" =>
       k.started # 0 /\ k.started <= clock /\ clock <= k.started + Timeout

\* The answers that a fetch has collected.
FetchCovered(k) ==
  k.phase = "fetching" =>
    /\ \A d \in k.list : GrantedUntil(k.user, d, k.started + Window)
    /\ \A s \in Servers \ (k.pending \cup k.failed), d \in Destinations \ k.list :
         LackedUntil(s, k.user, d, k.started + Window)
    /\ \A s \in k.failed : lastDown[s] # 0 /\ k.started <= lastDown[s]

\* The result that a request decides on.
DecisionCovered(k) ==
  k.phase = "decide" =>
    IF k.result.ok THEN Covered(k.user, k.result.list, clock + 1)
    ELSE \E s \in Servers : lastDown[s] # 0 /\ k.arrived <= lastDown[s] + Timeout

RequestOK(k) == WellFormed(k) /\ FetchCovered(k) /\ DecisionCovered(k)

RequestsCovered == \A r \in Requests : RequestOK(request[r])

EntriesCovered ==
  \A u \in Users : cache[u] # NoEntry => Covered(u, cache[u].result.list, cache[u].expires)

IInv ==
  /\ TypeOK
  /\ HistoryTyped
  /\ HistoryCurrent
  /\ HistoryBounded
  /\ SingleFlight
  /\ EntriesCovered
  /\ RequestsCovered

-----------------------------------------------------------------------------
(* Cover.                                                                   *)

\* The window is a positive number of seconds.
LEMMA WindowIsNat == Window \in Nat /\ Window = TTL + Timeout /\ TTL >= 1 /\ Timeout \in Nat
  BY TimesAssumption DEF Window

\* What is covered until some instant is covered until any earlier one.
LEMMA CoveredSooner ==
  ASSUME HistoryTyped, NEW u \in Users, NEW list \in SUBSET Destinations,
         NEW t \in Nat, NEW i \in Nat, i <= t, Covered(u, list, t)
  PROVE  Covered(u, list, i)
  <1>1. \A d \in Destinations : <<u, d>> \in Pairs
    BY DEF Pairs
  <1>2. \A s \in Servers, p \in Pairs :
          lastGranted[s][p] \in Nat /\ lastLacked[s][p] \in Nat /\ lastDown[s] \in Nat
    BY DEF HistoryTyped
  <1>3. \A n \in Nat : t <= n + Window => i <= n + Window
    BY WindowIsNat
  <1>4. \A d \in list : GrantedUntil(u, d, i)
    BY <1>1, <1>2, <1>3 DEF Covered, GrantedUntil
  <1>5. \A d \in Destinations \ list, s \in Servers :
          LackedUntil(s, u, d, i) \/ (policy = "any_success" /\ DownUntil(s, i))
    BY <1>1, <1>2, <1>3 DEF Covered, LackedUntil, DownUntil
  <1>. QED BY <1>4, <1>5 DEF Covered

\* The history moves forward, and no observation gets older.
HistoryGrows ==
  /\ HistoryTyped'
  /\ \A s \in Servers :
       /\ \A p \in Pairs :
            /\ lastGranted[s][p] <= lastGranted'[s][p]
            /\ lastLacked[s][p] <= lastLacked'[s][p]
       /\ lastDown[s] <= lastDown'[s]

\* Time and new observations do not take away from a cover.
LEMMA CoveredLater ==
  ASSUME HistoryTyped, HistoryGrows, policy' = policy, NEW u \in Users,
         NEW list \in SUBSET Destinations, NEW t \in Nat
  PROVE  /\ \A d \in Destinations : GrantedUntil(u, d, t) => GrantedUntil(u, d, t)'
         /\ \A s \in Servers, d \in Destinations :
              LackedUntil(s, u, d, t) => LackedUntil(s, u, d, t)'
         /\ Covered(u, list, t) => Covered(u, list, t)'
  <1>1. \A d \in Destinations : <<u, d>> \in Pairs
    BY DEF Pairs
  <1>2. \A s \in Servers, p \in Pairs :
          /\ lastGranted[s][p] \in Nat /\ lastLacked[s][p] \in Nat /\ lastDown[s] \in Nat
          /\ lastGranted'[s][p] \in Nat /\ lastLacked'[s][p] \in Nat /\ lastDown'[s] \in Nat
    BY DEF HistoryTyped, HistoryGrows
  <1>3. \A m, n \in Nat :
          /\ m <= n /\ t <= m + Window => t <= n + Window
          /\ m <= n /\ m # 0 => n # 0
    BY WindowIsNat
  <1>4. ASSUME NEW d \in Destinations, GrantedUntil(u, d, t) PROVE GrantedUntil(u, d, t)'
    <2>1. PICK s \in Servers :
            lastGranted[s][<<u, d>>] # 0 /\ t <= lastGranted[s][<<u, d>>] + Window
      BY <1>4 DEF GrantedUntil
    <2>2. lastGranted'[s][<<u, d>>] # 0 /\ t <= lastGranted'[s][<<u, d>>] + Window
      BY <1>1, <1>2, <1>3, <2>1 DEF HistoryGrows
    <2>. QED BY <2>2 DEF GrantedUntil, Window
  <1>5. ASSUME NEW s \in Servers, NEW d \in Destinations, LackedUntil(s, u, d, t)
        PROVE  LackedUntil(s, u, d, t)'
    <2>1. lastLacked'[s][<<u, d>>] # 0 /\ t <= lastLacked'[s][<<u, d>>] + Window
      BY <1>1, <1>2, <1>3, <1>5 DEF HistoryGrows, LackedUntil
    <2>. QED BY <2>1 DEF LackedUntil, Window
  <1>6. ASSUME NEW s \in Servers, NEW d \in Destinations, DownUntil(s, t)
        PROVE  DownUntil(s, t)'
    <2>1. lastDown'[s] # 0 /\ t <= lastDown'[s] + Window
      BY <1>1, <1>2, <1>3, <1>6 DEF HistoryGrows, DownUntil
    <2>. QED BY <2>1 DEF DownUntil, Window
  <1>7. Covered(u, list, t) => Covered(u, list, t)'
    BY <1>4, <1>5, <1>6 DEF Covered
  <1>. QED BY <1>4, <1>5, <1>7

-----------------------------------------------------------------------------
(* Time and the servers.                                                    *)

\* Only lists are in the cache.
LEMMA EntryParts ==
  ASSUME TypeOK, NEW u \in Users, cache[u] # NoEntry
  PROVE  /\ cache[u].result \in Lists
         /\ cache[u].result.list \in SUBSET Destinations
         /\ cache[u].result.ok = TRUE
         /\ cache[u].expires \in Nat
  <1>1. cache[u] \in Entry
    BY DEF TypeOK
  <1>2. cache[u].result \in Lists /\ cache[u].expires \in Nat
    BY <1>1 DEF Entry
  <1>. QED BY <1>2 DEF Lists, List

\* Pairs are what the requests claim.
LEMMA PairsOf == \A u \in Users, d \in Destinations : <<u, d>> \in Pairs
  BY DEF Pairs

\* What is observed at an instant is newer than all before.
LEMMA RememberGrows ==
  ASSUME TypeOK, HistoryTyped, HistoryCurrent, Remember, clock' \in Nat,
         clock <= clock', HistoryBounded
  PROVE  HistoryGrows /\ HistoryCurrent' /\ HistoryBounded'
  <1>. DEFINE G(s, p) == IF p \in granted'[s] THEN clock' ELSE lastGranted[s][p]
              L(s, p) == IF p \notin granted'[s] THEN clock' ELSE lastLacked[s][p]
              D(s) == IF s \notin up' THEN clock' ELSE lastDown[s]
  <1>1. /\ lastGranted' = [s \in Servers |-> [p \in Pairs |-> G(s, p)]]
        /\ lastLacked' = [s \in Servers |-> [p \in Pairs |-> L(s, p)]]
        /\ lastDown' = [s \in Servers |-> D(s)]
    BY DEF Remember
  <1>2. \A s \in Servers, p \in Pairs :
          /\ lastGranted[s][p] \in Nat /\ lastLacked[s][p] \in Nat /\ lastDown[s] \in Nat
          /\ lastGranted[s][p] <= clock /\ lastLacked[s][p] <= clock
    BY DEF HistoryTyped, HistoryBounded
  <1>3. \A s \in Servers : lastDown[s] \in Nat /\ lastDown[s] <= clock
    BY DEF HistoryTyped, HistoryBounded
  <1>4. clock \in Nat
    BY TimesAssumption DEF TypeOK
  <1>5. \A s \in Servers, p \in Pairs :
          /\ lastGranted'[s][p] = G(s, p)
          /\ lastLacked'[s][p] = L(s, p)
    BY <1>1
  <1>6. \A s \in Servers : lastDown'[s] = D(s)
    BY <1>1
  <1>7. \A s \in Servers, p \in Pairs :
          /\ G(s, p) \in Nat /\ lastGranted[s][p] <= G(s, p) /\ G(s, p) <= clock'
          /\ L(s, p) \in Nat /\ lastLacked[s][p] <= L(s, p) /\ L(s, p) <= clock'
    BY <1>2, <1>4
  <1>8. \A s \in Servers :
          D(s) \in Nat /\ lastDown[s] <= D(s) /\ D(s) <= clock'
    BY <1>3, <1>4
  <1>9. HistoryTyped'
    BY <1>1, <1>7, <1>8 DEF HistoryTyped, Pairs
  <1>10. HistoryGrows
    BY <1>5, <1>6, <1>7, <1>8, <1>9 DEF HistoryGrows
  <1>11. HistoryBounded'
    BY <1>5, <1>6, <1>7, <1>8 DEF HistoryBounded, Pairs
  <1>12. HistoryCurrent'
    BY <1>5, <1>6 DEF HistoryCurrent, Pairs
  <1>. QED BY <1>10, <1>11, <1>12

\* A step of the world leaves requests and entries covered: their evidence is
\* still there, and nobody's time runs out.
LEMMA WorldStep ==
  ASSUME IInv, Remember, UNCHANGED <<policy, cache, request>>,
         granted' \in [Servers -> SUBSET Pairs], up' \in SUBSET Servers,
         changes' \in 0..MaxChanges, clock' \in 1..MaxClock, clock <= clock',
         \A r \in Requests :
           /\ request[r].phase = "decide" => clock' = clock
           /\ request[r].phase = "fetching" => clock' <= request[r].started + Timeout
  PROVE  IInv'
  <1>1. TypeOK'
    BY DEF IInv, TypeOK, Entry, Request
  <1>2. HistoryGrows /\ HistoryCurrent' /\ HistoryBounded'
    BY RememberGrows, TimesAssumption DEF IInv
  <1>3. SingleFlight'
    BY DEF IInv, SingleFlight, Fetching
  <1>4. EntriesCovered'
    <2>1. SUFFICES ASSUME NEW u \in Users, cache[u] # NoEntry
                   PROVE  Covered(u, cache[u].result.list, cache[u].expires)'
      BY DEF EntriesCovered
    <2>2. PICK list \in SUBSET Destinations, t \in Nat :
            list = cache[u].result.list /\ t = cache[u].expires
      BY <2>1, EntryParts DEF IInv
    <2>3. Covered(u, list, t)
      BY <2>1, <2>2 DEF IInv, EntriesCovered
    <2>4. Covered(u, list, t)'
      BY <1>2, <2>3, CoveredLater DEF IInv
    <2>5. list = cache'[u].result.list /\ t = cache'[u].expires
      BY <2>2
    <2>. QED BY <2>4, <2>5
  <1>5. RequestsCovered'
    <2>1. SUFFICES ASSUME NEW r \in Requests PROVE RequestOK(request[r])'
      BY DEF RequestsCovered
    <2>2. PICK k \in Request : k = request[r] /\ k = request'[r]
      BY DEF IInv, TypeOK
    <2>3. RequestOK(k)
      BY <2>2 DEF IInv, RequestsCovered
    <2>4. WellFormed(k)'
      BY <2>2, <2>3, TimesAssumption DEF RequestOK, WellFormed, IInv, TypeOK, Request
    <2>5. FetchCovered(k)'
      <3>1. SUFFICES ASSUME k.phase = "fetching" PROVE FetchCovered(k)'
        BY DEF FetchCovered
      <3>2. k.user \in Users /\ k.started \in Nat /\ k.list \in SUBSET Destinations
            /\ k.failed \in SUBSET Servers
        BY <2>3, <3>1 DEF RequestOK, WellFormed, Request
      <3>3. PICK t \in Nat : t = k.started + Window
        BY <3>2, WindowIsNat
      <3>4. /\ \A d \in k.list : GrantedUntil(k.user, d, t)
            /\ \A s \in Servers \ (k.pending \cup k.failed), d \in Destinations \ k.list :
                 LackedUntil(s, k.user, d, t)
        BY <2>3, <3>1, <3>3 DEF RequestOK, FetchCovered
      <3>5. /\ \A d \in k.list : GrantedUntil(k.user, d, t)'
            /\ \A s \in Servers \ (k.pending \cup k.failed), d \in Destinations \ k.list :
                 LackedUntil(s, k.user, d, t)'
        BY <1>2, <3>2, <3>4, CoveredLater DEF IInv
      <3>6. \A s \in k.failed : lastDown'[s] # 0 /\ k.started <= lastDown'[s]
        <4>1. \A s \in k.failed : lastDown[s] # 0 /\ k.started <= lastDown[s]
          BY <2>3, <3>1 DEF RequestOK, FetchCovered
        <4>2. \A s \in Servers : /\ lastDown[s] \in Nat /\ lastDown'[s] \in Nat
                                 /\ lastDown[s] <= lastDown'[s]
          BY <1>2 DEF HistoryGrows, HistoryTyped, IInv
        <4>. QED BY <3>2, <4>1, <4>2
      <3>7. t = (k.started + Window)'
        BY <3>3 DEF Window
      <3>. QED BY <3>5, <3>6, <3>7 DEF FetchCovered
    <2>6. DecisionCovered(k)'
      <3>1. SUFFICES ASSUME k.phase = "decide" PROVE DecisionCovered(k)'
        BY DEF DecisionCovered
      <3>2. clock' = clock /\ clock \in Nat /\ k.user \in Users
        BY <2>2, <2>3, <3>1, TimesAssumption DEF RequestOK, WellFormed, IInv, TypeOK
      <3>3. CASE k.result.ok
        <4>1. k.result.list \in SUBSET Destinations
          BY DEF Request, Lists, List, Unavailable
        <4>2. PICK t \in Nat : t = clock + 1 /\ t = clock' + 1
          BY <3>2
        <4>3. Covered(k.user, k.result.list, t)
          BY <2>3, <3>1, <3>3, <4>2 DEF RequestOK, DecisionCovered
        <4>4. Covered(k.user, k.result.list, t)'
          BY <1>2, <3>2, <4>1, <4>3, CoveredLater DEF IInv
        <4>5. t = (clock + 1)'
          BY <4>2
        <4>. QED BY <3>3, <4>4, <4>5 DEF DecisionCovered
      <3>4. CASE ~k.result.ok
        <4>1. PICK s \in Servers : lastDown[s] # 0 /\ k.arrived <= lastDown[s] + Timeout
          BY <2>3, <3>1, <3>4 DEF RequestOK, DecisionCovered
        <4>2. lastDown[s] \in Nat /\ lastDown'[s] \in Nat /\ lastDown[s] <= lastDown'[s]
          BY <1>2 DEF HistoryGrows, HistoryTyped, IInv
        <4>3. k.arrived \in Nat
          BY DEF Request
        <4>4. lastDown'[s] # 0 /\ k.arrived <= lastDown'[s] + Timeout
          BY <4>1, <4>2, <4>3, TimesAssumption
        <4>. QED BY <3>4, <4>4 DEF DecisionCovered
      <3>. QED BY <3>3, <3>4
    <2>. QED BY <2>2, <2>4, <2>5, <2>6 DEF RequestOK
  <1>. QED BY <1>1, <1>2, <1>3, <1>4, <1>5 DEF IInv, HistoryGrows

\* Time does not pass a fetch that is due, nor a decision.
LEMMA TickKeeps == ASSUME IInv, Tick PROVE IInv'
  <1>1. clock \in Nat /\ clock' = clock + 1 /\ clock' \in 1..MaxClock /\ clock <= clock'
    BY TimesAssumption DEF IInv, TypeOK, Tick
  <1>2. ASSUME NEW r \in Requests, request[r].phase = "fetching"
        PROVE  clock' <= request[r].started + Timeout
    <2>1. request[r].started \in Nat /\ clock < request[r].started + Timeout
      BY <1>2 DEF IInv, TypeOK, Request, Tick
    <2>. QED BY <1>1, <2>1, TimesAssumption
  <1>. QED BY <1>1, <1>2, WorldStep DEF Tick, IInv, TypeOK

\* Where time stands still, every fetch is still within its timeout.
LEMMA StillInTime ==
  ASSUME IInv, clock' = clock
  PROVE  /\ clock' \in 1..MaxClock /\ clock <= clock'
         /\ \A r \in Requests : request[r].phase = "fetching" =>
              clock' <= request[r].started + Timeout
  BY TimesAssumption DEF IInv, TypeOK, RequestsCovered, RequestOK, WellFormed

\* Granting and revoking access.
LEMMA ChangeAccessKeeps ==
  ASSUME IInv, NEW s \in Servers, NEW p \in Pairs, ChangeAccess(s, p) PROVE IInv'
  <1>1. granted' \in [Servers -> SUBSET Pairs]
    BY DEF IInv, TypeOK, ChangeAccess
  <1>2. changes' \in 0..MaxChanges
    BY TimesAssumption DEF IInv, TypeOK, ChangeAccess
  <1>3. UNCHANGED <<policy, clock, up, cache, request>> /\ Remember
    BY DEF ChangeAccess
  <1>. QED BY <1>1, <1>2, <1>3, StillInTime, WorldStep DEF IInv, TypeOK

\* Failures and recoveries of servers.
LEMMA ChangeHealthKeeps ==
  ASSUME IInv, NEW s \in Servers, ChangeHealth(s) PROVE IInv'
  <1>1. up' \in SUBSET Servers
    BY DEF IInv, TypeOK, ChangeHealth
  <1>2. changes' \in 0..MaxChanges
    BY TimesAssumption DEF IInv, TypeOK, ChangeHealth
  <1>3. UNCHANGED <<policy, clock, granted, cache, request>> /\ Remember
    BY DEF ChangeHealth
  <1>. QED BY <1>1, <1>2, <1>3, StillInTime, WorldStep DEF IInv, TypeOK

-----------------------------------------------------------------------------
(* The requests.                                                            *)

\* A step of requests and cache leaves the world alone: what they come to has
\* to be covered by the history as it is.
LEMMA RequestsStep ==
  ASSUME IInv, UNCHANGED world,
         cache' \in [Users -> Entry \cup {NoEntry}],
         \A u \in Users : cache'[u] # NoEntry =>
           Covered(u, cache'[u].result.list, cache'[u].expires),
         request' \in [Requests -> Request],
         \A r \in Requests : RequestOK(request'[r]),
         SingleFlight'
  PROVE  IInv'
  <1>1. /\ policy' = policy /\ clock' = clock /\ granted' = granted /\ up' = up
        /\ changes' = changes /\ lastGranted' = lastGranted /\ lastLacked' = lastLacked
        /\ lastDown' = lastDown
    BY DEF world
  <1>2. TypeOK'
    BY <1>1 DEF IInv, TypeOK, Entry, Request
  <1>3. HistoryTyped' /\ HistoryCurrent' /\ HistoryBounded'
    BY <1>1 DEF IInv, HistoryTyped, HistoryCurrent, HistoryBounded
  <1>4. EntriesCovered'
    <2>1. SUFFICES ASSUME NEW u \in Users, cache'[u] # NoEntry
                   PROVE  Covered(u, cache[u].result.list, cache[u].expires)'
      BY DEF EntriesCovered
    <2>2. Covered(u, cache'[u].result.list, cache'[u].expires)
      BY <2>1
    <2>. QED BY <1>1, <2>2 DEF Covered, GrantedUntil, LackedUntil, DownUntil, Window
  <1>5. RequestsCovered'
    <2>1. SUFFICES ASSUME NEW r \in Requests PROVE RequestOK(request[r])'
      BY DEF RequestsCovered
    <2>2. PICK k \in Request : k = request'[r]
      OBVIOUS
    <2>3. RequestOK(k)
      BY <2>2
    <2>4. RequestOK(k)'
      BY <1>1, <2>3 DEF RequestOK, WellFormed, FetchCovered, DecisionCovered, Covered,
         GrantedUntil, LackedUntil, DownUntil, Window
    <2>. QED BY <2>2, <2>4
  <1>. QED BY <1>2, <1>3, <1>4, <1>5 DEF IInv

\* One request moves on to k, the cache stays.
LEMMA RequestStep ==
  ASSUME IInv, NEW r \in Requests, NEW k \in Request, UNCHANGED <<world, cache>>,
         request' = [request EXCEPT ![r] = k],
         RequestOK(k),
         k.phase = "fetching" =>
           \A q \in Fetching(k.user) : q = r
  PROVE  IInv'
  <1>1. /\ request' \in [Requests -> Request] /\ request'[r] = k
        /\ \A q \in Requests \ {r} : request'[q] = request[q]
    BY DEF IInv, TypeOK
  <1>2. \A q \in Requests : RequestOK(request'[q])
    BY <1>1 DEF IInv, RequestsCovered
  <1>3. SingleFlight'
    BY <1>1 DEF IInv, SingleFlight, Fetching
  <1>4. UNCHANGED world /\ cache' \in [Users -> Entry \cup {NoEntry}]
    BY DEF IInv, TypeOK
  <1>5. \A u \in Users : cache'[u] # NoEntry =>
          Covered(u, cache'[u].result.list, cache'[u].expires)
    BY DEF IInv, EntriesCovered
  <1>. QED BY <1>1, <1>2, <1>3, <1>4, <1>5, RequestsStep

\* A request that is not checked claims nothing.
LEMMA IdleParts ==
  ASSUME NEW stage \in Phases
  PROVE  [Idle EXCEPT !.phase = stage] \in Request
         /\ [Idle EXCEPT !.phase = stage].phase = stage
         /\ [Idle EXCEPT !.phase = stage].arrived = 0
  BY DEF Idle, Request, Unavailable

\* The clock is a number.
LEMMA ClockIsNat == IInv => clock \in Nat /\ clock \in 1..MaxClock
  BY TimesAssumption DEF IInv, TypeOK

\* A request that is answered rests on nothing any more.
LEMMA AnswerKeeps ==
  ASSUME IInv, NEW r \in Requests, NEW stage \in Answered, UNCHANGED <<world, cache>>,
         SetRequest(r, [Idle EXCEPT !.phase = stage])
  PROVE  IInv'
  <1>1. PICK k \in Request : k = [Idle EXCEPT !.phase = stage] /\ k.phase = stage /\ k.arrived = 0
    BY IdleParts DEF Phases
  <1>2. k.phase \notin {"lookup", "miss", "fetching", "waiting", "decide"}
    BY <1>1 DEF Answered
  <1>3. RequestOK(k)
    BY <1>1, <1>2, ClockIsNat DEF RequestOK, WellFormed, FetchCovered, DecisionCovered
  <1>. QED BY <1>1, <1>2, <1>3, RequestStep DEF SetRequest

\* A request arrives at this instant, with a claim.
LEMMA CheckAccessKeeps ==
  ASSUME IInv, NEW r \in Requests, NEW u \in Users, NEW d \in Destinations,
         CheckAccess(r, u, d)
  PROVE  IInv'
  <1>. DEFINE k == [Idle EXCEPT !.phase = "lookup", !.user = u, !.destination = d,
                                !.arrived = clock]
  <1>1. /\ k \in Request
        /\ k.phase = "lookup" /\ k.user = u /\ k.destination = d /\ k.arrived = clock
        /\ k.failed = {} /\ k.list = {}
    <2>1. Idle \in Request /\ Idle.failed = {} /\ Idle.list = {}
      BY DEF Idle, Request, Phases
    <2>2. clock \in Nat
      BY ClockIsNat
    <2>. QED BY <2>1, <2>2 DEF Request, Phases
  <1>2. request' = [request EXCEPT ![r] = k]
    BY DEF CheckAccess, SetRequest
  <1>. HIDE DEF k
  <1>3. RequestOK(k) /\ k.phase # "fetching"
    BY <1>1, ClockIsNat DEF RequestOK, WellFormed, FetchCovered, DecisionCovered
  <1>. QED BY <1>1, <1>2, <1>3, RequestStep DEF CheckAccess

\* The decision on a result that is covered.
LEMMA DecidesParts ==
  ASSUME IInv, NEW r \in Requests, NEW result \in Lists \cup {Unavailable},
         request[r].phase \in {"lookup", "miss", "fetching", "waiting"},
         IF result.ok THEN Covered(request[r].user, result.list, clock + 1)
         ELSE \E s \in Servers : lastDown[s] # 0 /\ request[r].arrived <= lastDown[s] + Timeout
  PROVE  /\ Decides(r, result) \in Request
         /\ Decides(r, result).phase = "decide"
         /\ RequestOK(Decides(r, result))
  <1>1. request[r] \in Request
    BY DEF IInv, TypeOK
  <1>. DEFINE k == Decides(r, result)
  <1>2. k \in Request
    BY <1>1 DEF Decides, Request, Phases
  <1>3. /\ k.phase = "decide" /\ k.result = result /\ k.arrived = request[r].arrived
        /\ k.user = request[r].user /\ k.destination = request[r].destination
    BY <1>1 DEF Decides, Request
  <1>. HIDE DEF k
  <1>4. RequestOK(k)
    BY <1>3 DEF IInv, RequestsCovered, RequestOK, WellFormed, FetchCovered, DecisionCovered
  <1>. QED BY <1>2, <1>3, <1>4 DEF k

\* What the cache returns is covered for this instant.
LEMMA CacheIsCovered ==
  ASSUME IInv, NEW u \in Users, Live(u)
  PROVE  /\ cache[u].result \in Lists
         /\ cache[u].result.ok
         /\ Covered(u, cache[u].result.list, clock + 1)
  <1>1. cache[u] # NoEntry /\ clock < cache[u].expires
    BY DEF Live
  <1>2. Covered(u, cache[u].result.list, cache[u].expires)
    BY <1>1 DEF IInv, EntriesCovered
  <1>3. clock + 1 \in Nat /\ cache[u].expires \in Nat /\ clock + 1 <= cache[u].expires
    <2>1. clock \in Nat /\ cache[u].expires \in Nat
      BY <1>1, ClockIsNat, EntryParts DEF IInv
    <2>2. \A m, n \in Nat : m < n => m + 1 \in Nat /\ m + 1 <= n
      OBVIOUS
    <2>. QED BY <1>1, <2>1, <2>2
  <1>. QED BY <1>1, <1>2, <1>3, EntryParts, CoveredSooner DEF IInv

\* A hit decides on the entry it found.
LEMMA HitKeeps ==
  ASSUME IInv, NEW r \in Requests, request[r].phase \in {"lookup", "miss"},
         Live(request[r].user), SetRequest(r, Decides(r, cache[request[r].user].result)),
         UNCHANGED <<world, cache>>
  PROVE  IInv'
  <1>1. request[r].user \in Users
    BY DEF IInv, RequestsCovered, RequestOK, WellFormed
  <1>2. PICK result \in Lists \cup {Unavailable} : result = cache[request[r].user].result
    BY <1>1, CacheIsCovered
  <1>3. result.ok /\ Covered(request[r].user, result.list, clock + 1)
    BY <1>1, <1>2, CacheIsCovered
  <1>4. /\ Decides(r, result) \in Request
        /\ Decides(r, result).phase = "decide"
        /\ RequestOK(Decides(r, result))
    BY <1>3, DecidesParts
  <1>. QED BY <1>2, <1>4, RequestStep DEF SetRequest

\* A request that only changes to a phase without a result.
LEMMA PhaseKeeps ==
  ASSUME IInv, NEW r \in Requests, NEW stage \in {"miss", "waiting"},
         request[r].phase \in {"lookup", "miss"},
         SetRequest(r, [request[r] EXCEPT !.phase = stage]), UNCHANGED <<world, cache>>
  PROVE  IInv'
  <1>1. request[r] \in Request
    BY DEF IInv, TypeOK
  <1>2. PICK k \in Request :
          /\ k = [request[r] EXCEPT !.phase = stage]
          /\ k.phase = stage /\ k.user = request[r].user
          /\ k.destination = request[r].destination /\ k.arrived = request[r].arrived
    BY <1>1 DEF Request, Phases
  <1>3. RequestOK(k)
    BY <1>2 DEF IInv, RequestsCovered, RequestOK, WellFormed, FetchCovered, DecisionCovered
  <1>. QED BY <1>2, <1>3, RequestStep DEF SetRequest

\* The first look at the cache.
LEMMA CacheGetKeeps == ASSUME IInv, NEW r \in Requests, CacheGet(r) PROVE IInv'
  <1>1. CASE Live(request[r].user)
    BY <1>1, HitKeeps DEF CacheGet
  <1>2. CASE ~Live(request[r].user)
    BY <1>2, PhaseKeeps DEF CacheGet
  <1>. QED BY <1>1, <1>2

\* The one who finds neither an entry nor a fetch starts one.
LEMMA TryGetWithKeeps == ASSUME IInv, NEW r \in Requests, TryGetWith(r) PROVE IInv'
  <1>1. CASE Live(request[r].user)
    BY <1>1, HitKeeps DEF TryGetWith
  <1>2. CASE ~Live(request[r].user) /\ Fetching(request[r].user) # {}
    BY <1>2, PhaseKeeps DEF TryGetWith
  <1>3. CASE ~Live(request[r].user) /\ Fetching(request[r].user) = {}
    <2>1. /\ request[r] \in Request /\ request[r].phase = "miss"
          /\ request[r].arrived <= clock
          /\ request[r].user \in Users /\ request[r].destination \in Destinations
          /\ request[r].failed = {} /\ request[r].list = {}
      BY DEF IInv, TypeOK, RequestsCovered, RequestOK, WellFormed, TryGetWith
    <2>2. clock \in Nat /\ clock # 0 /\ clock <= clock + Timeout
      BY ClockIsNat, TimesAssumption
    <2>. DEFINE k == StartFetch(r)
    <2>3. k \in Request
      BY <2>1, <2>2 DEF StartFetch, Request, Phases
    <2>4. /\ k.phase = "fetching" /\ k.started = clock /\ k.pending = Servers
          /\ k.failed = {} /\ k.list = {} /\ k.arrived = request[r].arrived
          /\ k.user = request[r].user /\ k.destination = request[r].destination
      BY <2>1 DEF StartFetch, Request
    <2>5. UNCHANGED <<world, cache>> /\ request' = [request EXCEPT ![r] = k]
      BY <1>3 DEF TryGetWith, SetRequest
    <2>. HIDE DEF k
    <2>6. RequestOK(k)
      BY <2>1, <2>2, <2>4 DEF RequestOK, WellFormed, FetchCovered, DecisionCovered
    <2>7. \A q \in Fetching(k.user) : q = r
      BY <1>3, <2>4
    <2>. QED BY <2>3, <2>5, <2>6, <2>7, RequestStep
  <1>. QED BY <1>1, <1>2, <1>3

\* An answer is seen at this instant, which is not before the fetch started.
LEMMA ServerAnswersKeeps ==
  ASSUME IInv, NEW r \in Requests, NEW s \in Servers, ServerAnswers(r, s)
  PROVE  IInv'
  <1>1. /\ request[r] \in Request /\ request[r].phase = "fetching"
        /\ request[r].arrived <= clock
        /\ request[r].user \in Users /\ request[r].destination \in Destinations
        /\ request[r].started # 0 /\ request[r].started <= clock
        /\ clock <= request[r].started + Timeout
    BY DEF IInv, TypeOK, RequestsCovered, RequestOK, WellFormed, ServerAnswers
  <1>2. FetchCovered(request[r])
    BY DEF IInv, RequestsCovered, RequestOK
  <1>3. \A q \in Fetching(request[r].user) : q = r
    BY <1>1 DEF IInv, SingleFlight, Fetching
  <1>4. request[r].started + Window <= clock + Window /\ clock # 0
    BY <1>1, ClockIsNat, WindowIsNat DEF Request
  <1>. DEFINE answer == {d \in Destinations : <<request[r].user, d>> \in granted[s]}
  <1>5. CASE s \in up
    <2>. DEFINE k == [[request[r] EXCEPT !.pending = @ \ {s}] EXCEPT !.list = @ \cup answer]
    <2>1. k \in Request
      BY <1>1 DEF Request
    <2>2. /\ k.phase = "fetching" /\ k.user = request[r].user
          /\ k.destination = request[r].destination /\ k.arrived = request[r].arrived
          /\ k.started = request[r].started /\ k.pending = request[r].pending \ {s}
          /\ k.failed = request[r].failed /\ k.list = request[r].list \cup answer
      BY <1>1 DEF Request
    <2>3. UNCHANGED <<world, cache>> /\ request' = [request EXCEPT ![r] = k]
      BY <1>5 DEF ServerAnswers, SetRequest
    <2>. HIDE DEF k
    <2>4. WellFormed(k) /\ DecisionCovered(k)
      BY <1>1, <2>2 DEF WellFormed, DecisionCovered
    <2>5. \A d \in answer : GrantedUntil(request[r].user, d, request[r].started + Window)
      <3>1. \A d \in answer : lastGranted[s][<<request[r].user, d>>] = clock
        BY <1>1, PairsOf DEF IInv, HistoryCurrent
      <3>. QED BY <1>4, <3>1 DEF GrantedUntil
    <2>6. \A d \in Destinations \ answer :
            LackedUntil(s, request[r].user, d, request[r].started + Window)
      <3>1. \A d \in Destinations \ answer : lastLacked[s][<<request[r].user, d>>] = clock
        BY <1>1, PairsOf DEF IInv, HistoryCurrent
      <3>. QED BY <1>4, <3>1 DEF LackedUntil
    <2>. HIDE DEF answer
    <2>7. FetchCovered(k)
      BY <1>1, <1>2, <2>2, <2>5, <2>6 DEF FetchCovered
    <2>. QED BY <1>3, <2>1, <2>2, <2>3, <2>4, <2>7, RequestStep DEF RequestOK
  <1>6. CASE s \notin up
    <2>. DEFINE k == [[request[r] EXCEPT !.pending = @ \ {s}] EXCEPT !.failed = @ \cup {s}]
    <2>1. k \in Request
      BY <1>1 DEF Request
    <2>2. /\ k.phase = "fetching" /\ k.user = request[r].user
          /\ k.destination = request[r].destination /\ k.arrived = request[r].arrived
          /\ k.started = request[r].started /\ k.pending = request[r].pending \ {s}
          /\ k.failed = request[r].failed \cup {s} /\ k.list = request[r].list
      BY <1>1 DEF Request
    <2>3. UNCHANGED <<world, cache>> /\ request' = [request EXCEPT ![r] = k]
      BY <1>6 DEF ServerAnswers, SetRequest
    <2>. HIDE DEF k
    <2>4. WellFormed(k) /\ DecisionCovered(k)
      BY <1>1, <2>2 DEF WellFormed, DecisionCovered
    <2>5. lastDown[s] = clock
      BY <1>6 DEF IInv, HistoryCurrent
    <2>6. FetchCovered(k)
      BY <1>1, <1>2, <1>4, <2>2, <2>5 DEF FetchCovered
    <2>. QED BY <1>3, <2>1, <2>2, <2>3, <2>4, <2>6, RequestStep DEF RequestOK
  <1>. QED BY <1>5, <1>6

\* The merge of the answers of all servers is covered for the lifetime of the
\* entry; without a list, some server has failed during the fetch.
LEMMA MergedIsCovered ==
  ASSUME IInv, NEW r \in Requests, request[r].phase = "fetching", request[r].pending = {}
  PROVE  /\ Merged(request[r]) \in Lists \cup {Unavailable}
         /\ Merged(request[r]).ok =>
              /\ Merged(request[r]) \in Lists
              /\ Covered(request[r].user, Merged(request[r]).list, clock + TTL)
         /\ ~Merged(request[r]).ok =>
              \E s \in Servers : lastDown[s] # 0 /\ clock <= lastDown[s] + Timeout
  <1>. DEFINE k == request[r]
  <1>1. /\ k \in Request /\ k.user \in Users
        /\ k.started # 0 /\ k.started <= clock /\ clock <= k.started + Timeout
    BY DEF IInv, TypeOK, RequestsCovered, RequestOK, WellFormed
  <1>2. /\ k.list \in SUBSET Destinations /\ k.failed \in SUBSET Servers
        /\ k.started \in Nat
    BY <1>1 DEF Request
  <1>3. FetchCovered(k)
    BY DEF IInv, RequestsCovered, RequestOK
  <1>4. \A s \in k.failed : lastDown[s] \in Nat /\ lastDown[s] # 0 /\ k.started <= lastDown[s]
    BY <1>2, <1>3 DEF FetchCovered, IInv, HistoryTyped
  <1>5. clock \in Nat /\ Timeout \in Nat /\ TTL \in Nat
    BY ClockIsNat, TimesAssumption
  <1>6. CASE k.failed = Servers \/ (policy = "strict" /\ k.failed # {})
    <2>1. Merged(k) = Unavailable
      BY <1>6 DEF Merged
    <2>2. PICK s \in Servers : s \in k.failed
      BY <1>2, <1>6, ServersAssumption
    <2>3. clock <= lastDown[s] + Timeout
      BY <1>1, <1>2, <1>4, <1>5, <2>2
    <2>. QED BY <1>4, <2>1, <2>2, <2>3 DEF Unavailable
  <1>7. CASE ~(k.failed = Servers \/ (policy = "strict" /\ k.failed # {}))
    <2>1. Merged(k) = List(k.list) /\ List(k.list) \in Lists
      BY <1>2, <1>7 DEF Merged, Lists
    <2>2. List(k.list).list = k.list /\ List(k.list).ok = TRUE
      BY DEF List
    <2>3. Covered(k.user, k.list, k.started + Window)
      <3>1. \A d \in k.list : GrantedUntil(k.user, d, k.started + Window)
        BY <1>3 DEF FetchCovered
      <3>2. \A s \in Servers \ k.failed, d \in Destinations \ k.list :
              LackedUntil(s, k.user, d, k.started + Window)
        BY <1>3 DEF FetchCovered
      <3>3. \A s \in k.failed : DownUntil(s, k.started + Window)
        BY <1>2, <1>4, WindowIsNat DEF DownUntil
      <3>4. k.failed # {} => policy = "any_success"
        BY <1>7, PoliciesAssumption DEF IInv, TypeOK
      <3>. QED BY <3>1, <3>2, <3>3, <3>4 DEF Covered
    <2>4. /\ clock + TTL \in Nat /\ k.started + Window \in Nat
          /\ clock + TTL <= k.started + Window
      BY <1>1, <1>2, <1>5, WindowIsNat
    <2>5. Covered(k.user, k.list, clock + TTL)
      BY <1>1, <1>2, <2>3, <2>4, CoveredSooner DEF IInv
    <2>. QED BY <2>1, <2>2, <2>5
  <1>. QED BY <1>6, <1>7

\* Steps in which nobody starts a fetch leave at most one per user.
LEMMA FewerFetches ==
  ASSUME SingleFlight,
         \A q \in Requests : request'[q].phase = "fetching" => request'[q] = request[q]
  PROVE  SingleFlight'
  BY DEF SingleFlight, Fetching

\* The request that fetched and all that wait for it get one and the same result.
LEMMA FetchEndsKeeps == ASSUME IInv, NEW r \in Requests, FetchEnds(r) PROVE IInv'
  <1>1. /\ request[r].phase = "fetching" /\ request[r].pending = {}
        /\ request[r].user \in Users /\ UNCHANGED world
    BY DEF IInv, RequestsCovered, RequestOK, WellFormed, FetchEnds
  <1>2. clock \in Nat /\ TTL \in Nat \ {0}
    BY ClockIsNat, TimesAssumption
  <1>3. PICK result \in Lists \cup {Unavailable} :
          /\ result = Merged(request[r])
          /\ result.ok => /\ result \in Lists
                          /\ Covered(request[r].user, result.list, clock + TTL)
          /\ ~result.ok =>
               \E s \in Servers : lastDown[s] # 0 /\ clock <= lastDown[s] + Timeout
    BY <1>1, MergedIsCovered
  <1>4. /\ cache' = [cache EXCEPT ![request[r].user] = Cached(result)]
        /\ request' = [q \in Requests |->
                         IF q = r \/ q \in Waiting(request[r].user)
                         THEN Decides(q, result) ELSE request[q]]
    BY <1>3 DEF FetchEnds
  <1>5. IF result.ok THEN /\ Cached(result) \in Entry
                          /\ Cached(result).result = result
                          /\ Cached(result).expires = clock + TTL
                     ELSE Cached(result) = NoEntry
    BY <1>2, <1>3 DEF Cached, Entry
  <1>6. cache' \in [Users -> Entry \cup {NoEntry}]
    BY <1>1, <1>4, <1>5 DEF IInv, TypeOK
  <1>7. \A u \in Users : cache'[u] # NoEntry =>
          Covered(u, cache'[u].result.list, cache'[u].expires)
    <2>1. SUFFICES ASSUME NEW u \in Users, cache'[u] # NoEntry
                   PROVE  Covered(u, cache'[u].result.list, cache'[u].expires)
      OBVIOUS
    <2>2. CASE u = request[r].user
      <3>1. cache'[u] = Cached(result)
        BY <1>4, <2>2 DEF IInv, TypeOK
      <3>. QED BY <1>3, <1>5, <2>1, <2>2, <3>1
    <2>3. CASE u # request[r].user
      <3>1. cache'[u] = cache[u]
        BY <1>4, <2>3 DEF IInv, TypeOK
      <3>. QED BY <2>1, <3>1 DEF IInv, EntriesCovered
    <2>. QED BY <2>2, <2>3
  <1>8. ASSUME NEW q \in Requests, q = r \/ q \in Waiting(request[r].user)
        PROVE  /\ Decides(q, result) \in Request
               /\ Decides(q, result).phase = "decide"
               /\ RequestOK(Decides(q, result))
    <2>1. /\ request[q].user = request[r].user
          /\ request[q].phase \in {"fetching", "waiting"}
      BY <1>1, <1>8 DEF Waiting
    <2>2. request[q].arrived \in Nat /\ request[q].arrived <= clock
      BY DEF IInv, TypeOK, Request, RequestsCovered, RequestOK, WellFormed
    <2>3. result.ok => Covered(request[q].user, result.list, clock + 1)
      <3>1. SUFFICES ASSUME result.ok PROVE Covered(request[q].user, result.list, clock + 1)
        OBVIOUS
      <3>2. result.list \in SUBSET Destinations
        <4>1. result \in Lists
          BY <1>3, <3>1
        <4>. QED BY <4>1 DEF Lists, List
      <3>3. clock + 1 \in Nat /\ clock + TTL \in Nat /\ clock + 1 <= clock + TTL
        BY <1>2
      <3>. QED BY <1>1, <1>3, <2>1, <3>1, <3>2, <3>3, CoveredSooner DEF IInv
    <2>4. ~result.ok =>
            \E s \in Servers : lastDown[s] # 0 /\ request[q].arrived <= lastDown[s] + Timeout
      <3>1. \A s \in Servers : lastDown[s] + Timeout \in Nat
        BY TimesAssumption DEF IInv, HistoryTyped
      <3>. QED BY <1>2, <1>3, <2>2, <3>1
    <2>. QED BY <2>1, <2>3, <2>4, DecidesParts
  <1>9. request' \in [Requests -> Request]
    BY <1>4, <1>8 DEF IInv, TypeOK
  <1>10. \A q \in Requests : RequestOK(request'[q])
    BY <1>4, <1>8 DEF IInv, RequestsCovered
  <1>11. SingleFlight'
    BY <1>4, <1>8, FewerFetches DEF IInv
  <1>. QED BY <1>1, <1>6, <1>7, <1>9, <1>10, <1>11, RequestsStep

\* A verdict ends the request.
LEMMA DecideKeeps == ASSUME IInv, NEW r \in Requests, Decide(r) PROVE IInv'
  <1>1. Verdict(r) \in Answered
    BY DEF Verdict, Answered
  <1>. QED BY <1>1, AnswerKeeps DEF Decide

\* Those who waited for a fetch that is dropped look again.
LEMMA LeaveKeeps == ASSUME IInv, NEW r \in Requests, Leave(r) PROVE IInv'
  <1>. DEFINE abandoned ==
                IF request[r].phase = "fetching" THEN Waiting(request[r].user) ELSE {}
  <1>1. /\ \A q \in abandoned : q \in Requests /\ request[q].phase = "waiting"
        /\ request' = [q \in Requests |->
                           IF q = r THEN Idle
                           ELSE IF q \in abandoned THEN [request[q] EXCEPT !.phase = "miss"]
                           ELSE request[q]]
    BY DEF Leave, Waiting
  <1>. HIDE DEF abandoned
  <1>2. Idle \in Request /\ Idle.phase = "idle" /\ RequestOK(Idle)
    BY ClockIsNat DEF Idle, Request, Phases, Unavailable, RequestOK, WellFormed, FetchCovered,
       DecisionCovered
  <1>3. ASSUME NEW q \in abandoned
        PROVE  /\ [request[q] EXCEPT !.phase = "miss"] \in Request
               /\ [request[q] EXCEPT !.phase = "miss"].phase = "miss"
               /\ RequestOK([request[q] EXCEPT !.phase = "miss"])
    <2>1. request[q] \in Request /\ RequestOK(request[q]) /\ request[q].phase = "waiting"
      BY <1>1, <1>3 DEF IInv, TypeOK, RequestsCovered
    <2>. DEFINE k == [request[q] EXCEPT !.phase = "miss"]
    <2>2. k \in Request
      BY <2>1 DEF Request, Phases
    <2>3. /\ k.phase = "miss" /\ k.user = request[q].user
          /\ k.destination = request[q].destination /\ k.arrived = request[q].arrived
          /\ k.failed = request[q].failed /\ k.list = request[q].list
      BY <2>1 DEF Request
    <2>. HIDE DEF k
    <2>4. RequestOK(k)
      BY <2>1, <2>3 DEF RequestOK, WellFormed, FetchCovered, DecisionCovered
    <2>. QED BY <2>2, <2>3, <2>4 DEF k
  <1>4. request' \in [Requests -> Request]
    BY <1>1, <1>2, <1>3 DEF IInv, TypeOK
  <1>5. \A q \in Requests : RequestOK(request'[q])
    BY <1>1, <1>2, <1>3 DEF IInv, RequestsCovered
  <1>6. SingleFlight'
    BY <1>1, <1>2, <1>3, FewerFetches DEF IInv
  <1>7. UNCHANGED <<world, cache>>
    BY DEF Leave
  <1>. QED BY <1>4, <1>5, <1>6, <1>7, RequestsStep DEF IInv, TypeOK, EntriesCovered

\* Eviction only takes entries away.
LEMMA EvictKeeps == ASSUME IInv, NEW u \in Users, Evict(u) PROVE IInv'
  <1>1. /\ cache' = [cache EXCEPT ![u] = NoEntry]
        /\ UNCHANGED world /\ request' = request
    BY DEF Evict
  <1>2. cache' \in [Users -> Entry \cup {NoEntry}]
    BY <1>1 DEF IInv, TypeOK
  <1>3. \A v \in Users : cache'[v] # NoEntry => cache'[v] = cache[v]
    BY <1>1 DEF IInv, TypeOK
  <1>4. SingleFlight'
    BY <1>1, FewerFetches DEF IInv
  <1>. QED BY <1>1, <1>2, <1>3, <1>4, RequestsStep
           DEF IInv, TypeOK, EntriesCovered, RequestsCovered

-----------------------------------------------------------------------------

\* An empty cache and no requests have nothing to be covered.
LEMMA InitEstablishes == ASSUME Init PROVE IInv
  <1>1. clock = 1 /\ 1 \in 1..MaxClock /\ 0 \in 0..MaxChanges
    BY TimesAssumption DEF Init
  <1>2. Idle \in Request /\ Idle.phase = "idle" /\ RequestOK(Idle)
    BY <1>1 DEF Idle, Request, Phases, Unavailable, RequestOK, WellFormed, FetchCovered,
       DecisionCovered
  <1>3. TypeOK
    BY <1>1, <1>2 DEF Init, TypeOK
  <1>4. HistoryTyped /\ HistoryCurrent /\ HistoryBounded
    BY <1>1 DEF Init, HistoryTyped, HistoryCurrent, HistoryBounded
  <1>5. SingleFlight
    BY <1>2 DEF Init, SingleFlight, Fetching
  <1>6. EntriesCovered
    BY DEF Init, EntriesCovered
  <1>7. RequestsCovered
    BY <1>2 DEF Init, RequestsCovered
  <1>. QED BY <1>3, <1>4, <1>5, <1>6, <1>7 DEF IInv

\* Nothing changes.
LEMMA StutterKeeps == ASSUME IInv, UNCHANGED vars PROVE IInv'
  <1>1. UNCHANGED world /\ cache' = cache /\ request' = request
    BY DEF vars, world
  <1>2. SingleFlight'
    BY <1>1, FewerFetches DEF IInv
  <1>. QED BY <1>1, <1>2, RequestsStep DEF IInv, TypeOK, EntriesCovered, RequestsCovered

\* Every step preserves the invariant.
LEMMA NextKeeps == IInv /\ [Next]_vars => IInv'
  <1>. SUFFICES ASSUME IInv, [Next]_vars PROVE IInv'
    OBVIOUS
  <1>1. CASE UNCHANGED vars
    BY <1>1, StutterKeeps
  <1>2. CASE Tick
    BY <1>2, TickKeeps
  <1>3. ASSUME NEW s \in Servers, ChangeHealth(s) \/ \E p \in Pairs : ChangeAccess(s, p)
        PROVE  IInv'
    BY <1>3, ChangeHealthKeeps, ChangeAccessKeeps
  <1>4. ASSUME NEW u \in Users, Evict(u) PROVE IInv'
    BY <1>4, EvictKeeps
  <1>5. ASSUME NEW r \in Requests, Bypass(r) \/ DenyWithoutKey(r) PROVE IInv'
    BY <1>5, AnswerKeeps DEF Bypass, DenyWithoutKey, Answered
  <1>6. ASSUME NEW r \in Requests, NEW u \in Users, NEW d \in Destinations, CheckAccess(r, u, d)
        PROVE  IInv'
    BY <1>6, CheckAccessKeeps
  <1>7. ASSUME NEW r \in Requests, Serve(r) PROVE IInv'
    BY <1>7, CacheGetKeeps, TryGetWithKeeps, ServerAnswersKeeps, FetchEndsKeeps, DecideKeeps
       DEF Serve
  <1>8. ASSUME NEW r \in Requests, Leave(r) PROVE IInv'
    BY <1>8, LeaveKeeps
  <1>. QED BY <1>1, <1>2, <1>3, <1>4, <1>5, <1>6, <1>7, <1>8 DEF Next

\* What the lists in the cache and in running fetches say is backed by what the
\* servers said.
THEOREM InvariantHolds == Spec => []IInv
  BY InitEstablishes, NextKeeps, PTL DEF Spec

\* The state of the cache and of the requests is well formed; no failure is in
\* the cache.
THEOREM TypeCorrect == Spec => []TypeOK
  <1>1. IInv => TypeOK
    BY DEF IInv
  <1>. QED BY <1>1, InvariantHolds, PTL

\* However many requests of one user miss the cache together, at most one of
\* them queries the ECPDS servers (try_get_with_by_ref).
THEOREM OneFetchPerUser == Spec => []SingleFlight
  <1>1. IInv => SingleFlight
    BY DEF IInv
  <1>. QED BY <1>1, InvariantHolds, PTL

-----------------------------------------------------------------------------
(* The verdicts.                                                            *)

\* An answer to a request that decides is the verdict on its result.
LEMMA OnlyDecide ==
  ASSUME IInv, Next, NEW r \in Requests, NEW stage \in Answered, Becomes(r, stage)
  PROVE  request[r].phase = "decide" /\ stage = Verdict(r)
  <1>1. request[r].phase = "decide" /\ request'[r].phase = stage /\ request'[r] # request[r]
    BY DEF Becomes, Answered
  <1>2. request \in [Requests -> Request]
    BY DEF IInv, TypeOK
  <1>3. CASE Tick \/ \E s \in Servers : ChangeHealth(s) \/ \E p \in Pairs : ChangeAccess(s, p)
    BY <1>1, <1>3 DEF Tick, ChangeHealth, ChangeAccess
  <1>4. CASE \E u \in Users : Evict(u)
    BY <1>1, <1>4 DEF Evict
  <1>5. ASSUME NEW q \in Requests, NEW k, SetRequest(q, k), request[q].phase # "decide"
        PROVE  FALSE
    BY <1>1, <1>2, <1>5 DEF SetRequest
  <1>6. ASSUME NEW q \in Requests, Bypass(q) \/ DenyWithoutKey(q) PROVE FALSE
    BY <1>5, <1>6 DEF Bypass, DenyWithoutKey, Free, Answered
  <1>7. ASSUME NEW q \in Requests, NEW u \in Users, NEW d \in Destinations, CheckAccess(q, u, d)
        PROVE  FALSE
    BY <1>5, <1>7 DEF CheckAccess, Free, Answered
  <1>8. ASSUME NEW q \in Requests,
               CacheGet(q) \/ TryGetWith(q) \/ \E s \in Servers : ServerAnswers(q, s)
        PROVE  FALSE
    BY <1>5, <1>8 DEF CacheGet, TryGetWith, ServerAnswers
  <1>9. ASSUME NEW q \in Requests, FetchEnds(q) PROVE FALSE
    BY <1>1, <1>9 DEF FetchEnds, Waiting
  <1>10. ASSUME NEW q \in Requests, Leave(q) PROVE FALSE
    <2>1. CASE q = r
      <3>1. request'[r] = Idle
        BY <1>10, <2>1 DEF Leave
      <3>. QED BY <1>1, <3>1 DEF Idle, Answered
    <2>2. CASE q # r
      BY <1>1, <1>10, <2>2 DEF Leave, Waiting
    <2>. QED BY <2>1, <2>2
  <1>11. ASSUME NEW q \in Requests, Decide(q) PROVE stage = Verdict(r)
    <2>1. /\ Verdict(q) \in Phases
          /\ request' = [request EXCEPT ![q] = [Idle EXCEPT !.phase = Verdict(q)]]
      BY <1>11 DEF Decide, SetRequest, Verdict, Phases, Answered
    <2>2. q = r
      BY <1>1, <1>2, <2>1
    <2>. QED BY <1>1, <1>2, <2>1, <2>2, IdleParts
  <1>. QED BY <1>1, <1>3, <1>4, <1>6, <1>7, <1>8, <1>9, <1>10, <1>11 DEF Next, Serve

\* What a decision rests on.
LEMMA DecisionParts ==
  ASSUME IInv, NEW r \in Requests, request[r].phase = "decide"
  PROVE  /\ request[r].user \in Users /\ request[r].destination \in Destinations
         /\ Claim(r) = <<request[r].user, request[r].destination>>
         /\ IF request[r].result.ok
            THEN Covered(request[r].user, request[r].result.list, clock + 1)
            ELSE \E s \in Servers :
                   lastDown[s] # 0 /\ request[r].arrived <= lastDown[s] + Timeout
  BY DEF IInv, RequestsCovered, RequestOK, WellFormed, DecisionCovered, Claim

\* Cover for this instant means that the window is not over.
LEMMA SoonerIsBefore ==
  ASSUME IInv, NEW n \in Nat, clock + 1 <= n + Window
  PROVE  clock < n + Window
  BY ClockIsNat, WindowIsNat

\* A list is used for a lifetime at most after a fetch that takes its timeout at
\* most, so a revoked destination is refused after that (cache_ttl_seconds).
THEOREM RevocationIsEffective == Spec => RevocationTakesEffect
  <1>1. ASSUME IInv, Next, NEW r \in Requests, Becomes(r, "allowed")
        PROVE  \E s \in Servers :
                 /\ lastGranted[s][Claim(r)] # 0
                 /\ clock < lastGranted[s][Claim(r)] + Window
    <2>1. request[r].phase = "decide" /\ Verdict(r) = "allowed"
      BY <1>1, OnlyDecide DEF Answered
    <2>2. request[r].result.ok /\ request[r].destination \in request[r].result.list
      BY <2>1 DEF Verdict
    <2>3. GrantedUntil(request[r].user, request[r].destination, clock + 1)
      BY <1>1, <2>1, <2>2, DecisionParts DEF Covered
    <2>4. PICK s \in Servers :
            lastGranted[s][Claim(r)] # 0 /\ clock + 1 <= lastGranted[s][Claim(r)] + Window
      BY <1>1, <2>1, <2>3, DecisionParts DEF GrantedUntil
    <2>5. lastGranted[s][Claim(r)] \in Nat
      BY <1>1, <2>1, DecisionParts, PairsOf DEF IInv, HistoryTyped
    <2>. QED BY <1>1, <2>4, <2>5, SoonerIsBefore
  <1>2. IInv /\ [Next]_vars =>
          [\A r \in Requests : Becomes(r, "allowed") =>
             \E s \in Servers :
               /\ lastGranted[s][Claim(r)] # 0
               /\ clock < lastGranted[s][Claim(r)] + Window]_vars
    BY <1>1
  <1>. QED BY <1>2, InvariantHolds, PTL DEF Spec, RevocationTakesEffect

\* A 403 comes from what servers have lately answered or, where the policy
\* tolerates it, from servers that have lately failed (merge_strict,
\* merge_any_success).
THEOREM DenialsHaveReasons == Spec => DenialsAreInformed
  <1>1. ASSUME IInv, Next, NEW r \in Requests, Becomes(r, "denied"), NEW s \in Servers
        PROVE  \/ lastLacked[s][Claim(r)] # 0 /\ clock < lastLacked[s][Claim(r)] + Window
               \/ /\ policy = "any_success"
                  /\ lastDown[s] # 0 /\ clock < lastDown[s] + Window
    <2>1. request[r].phase = "decide" /\ Verdict(r) = "denied"
      BY <1>1, OnlyDecide DEF Answered
    <2>2. request[r].result.ok /\ request[r].destination \notin request[r].result.list
      BY <2>1 DEF Verdict
    <2>3. \/ LackedUntil(s, request[r].user, request[r].destination, clock + 1)
          \/ policy = "any_success" /\ DownUntil(s, clock + 1)
      BY <1>1, <2>1, <2>2, DecisionParts DEF Covered
    <2>4. \/ lastLacked[s][Claim(r)] # 0 /\ clock + 1 <= lastLacked[s][Claim(r)] + Window
          \/ /\ policy = "any_success"
             /\ lastDown[s] # 0 /\ clock + 1 <= lastDown[s] + Window
      BY <1>1, <2>1, <2>3, DecisionParts DEF LackedUntil, DownUntil
    <2>5. lastLacked[s][Claim(r)] \in Nat /\ lastDown[s] \in Nat
      BY <1>1, <2>1, DecisionParts, PairsOf DEF IInv, HistoryTyped
    <2>. QED BY <1>1, <2>4, <2>5, SoonerIsBefore
  <1>2. IInv /\ [Next]_vars =>
          [\A r \in Requests : Becomes(r, "denied") =>
             \A s \in Servers :
               \/ lastLacked[s][Claim(r)] # 0 /\ clock < lastLacked[s][Claim(r)] + Window
               \/ /\ policy = "any_success"
                  /\ lastDown[s] # 0 /\ clock < lastDown[s] + Window]_vars
    BY <1>1
  <1>. QED BY <1>2, InvariantHolds, PTL DEF Spec, DenialsAreInformed

\* A 503 is about an outage that the request itself has met: no failure comes
\* from the cache.
THEOREM OutagesEnd == Spec => OutagesAreNotExtended
  <1>1. ASSUME IInv, Next, NEW r \in Requests, Becomes(r, "unavailable")
        PROVE  \E s \in Servers :
                 lastDown[s] # 0 /\ request[r].arrived <= lastDown[s] + Timeout
    <2>1. request[r].phase = "decide" /\ Verdict(r) = "unavailable"
      BY <1>1, OnlyDecide DEF Answered
    <2>2. ~request[r].result.ok
      BY <2>1 DEF Verdict
    <2>. QED BY <1>1, <2>1, <2>2, DecisionParts
  <1>2. IInv /\ [Next]_vars =>
          [\A r \in Requests : Becomes(r, "unavailable") =>
             \E s \in Servers :
               lastDown[s] # 0 /\ request[r].arrived <= lastDown[s] + Timeout]_vars
    BY <1>1
  <1>. QED BY <1>2, InvariantHolds, PTL DEF Spec, OutagesAreNotExtended

-----------------------------------------------------------------------------
(* Tokens on the wire.                                                      *)

Codes == {"2E", "2A", "3E", "25"}

\* How one atom is written, and how the atom at a position is read.
Written(c) == IF c \in Reserved THEN <<"%", HexCode[c]>> ELSE <<c>>

CodeAt(wire, i) == {c \in Reserved : i < Len(wire) /\ HexCode[c] = wire[i + 1]}

ReadAt(wire, i) ==
  IF wire[i] = "%" THEN <<Only(CodeAt(wire, i))>>
  ELSE IF i > 1 /\ wire[i - 1] = "%" THEN <<>>
  ELSE <<wire[i]>>

\* Every escape is complete.
Closed(wire) ==
  /\ Len(wire) > 0 => wire[Len(wire)] # "%"
  /\ \A i \in 1..Len(wire) : wire[i] = "%" => CodeAt(wire, i) # {}

\* Every reserved character has a code of its own.
LEMMA HexCodes ==
  /\ \A c \in Reserved : HexCode[c] \in Codes
  /\ \A c, d \in Reserved : HexCode[c] = HexCode[d] => c = d
  /\ Codes \cap Reserved = {}
  <1>1. HexCode["."] = "2E" /\ HexCode["*"] = "2A" /\ HexCode[">"] = "3E" /\ HexCode["%"] = "25"
    BY DEF HexCode, Reserved
  <1>. QED BY <1>1 DEF Reserved, Codes

\* The element of a singleton.
LEMMA OnlyOne == \A x : Only({x}) = x
  BY DEF Only

\* Tokens are encoded atom by atom.
LEMMA EncodeEmpty == EncodeToken(<<>>) = <<>>
  <1> DEFINE e == [i \in DOMAIN <<>> |-> IF <<>>[i] \in Reserved THEN <<"%", HexCode[<<>>[i]]>> ELSE <<<<>>[i]>>]
  <1>1. DOMAIN <<>> = {}
    OBVIOUS
  <1>2. e = <<>>
    BY <1>1
  <1>. QED BY <1>2, FlattenEmpty DEF EncodeToken

\* One more atom adds what is written for it.
LEMMA EncodeAppend ==
  ASSUME NEW A, NEW t \in Seq(A), NEW c \in A
  PROVE  /\ EncodeToken(t) \in Seq(A \cup {"%"} \cup Codes)
         /\ Written(c) \in Seq(A \cup {"%"} \cup Codes)
         /\ EncodeToken(Append(t, c)) = EncodeToken(t) \o Written(c)
  <1> DEFINE B == A \cup {"%"} \cup Codes
             e(s) == [i \in DOMAIN s |-> Written(s[i])]
  <1>1. \A d \in A : Written(d) \in Seq(B)
    <2>1. ASSUME NEW d \in A PROVE Written(d) \in Seq(B)
      <3>1. d \in Reserved => HexCode[d] \in B /\ "%" \in B
        BY HexCodes
      <3>2. d \in B
        OBVIOUS
      <3>. HIDE DEF B
      <3>. QED BY <3>1, <3>2 DEF Written
    <2>. QED BY <2>1
  <1>. HIDE DEF B
  <1>2. ASSUME NEW s \in Seq(A) PROVE e(s) \in Seq(Seq(B)) /\ Len(e(s)) = Len(s) /\ EncodeToken(s) = FlattenSeq(e(s))
    <2>1. Len(s) \in Nat /\ DOMAIN s = 1..Len(s) /\ \A i \in 1..Len(s) : s[i] \in A
      BY LenProperties, ElementOfSeq
    <2>2. e(s) \in [1..Len(s) -> Seq(B)]
      BY <1>1, <2>1
    <2>3. EncodeToken(s) = FlattenSeq(e(s))
      BY DEF EncodeToken, Written
    <2>. HIDE DEF e
    <2>. QED BY <2>1, <2>2, <2>3
  <1>3. Append(t, c) \in Seq(A) /\ Len(Append(t, c)) = Len(t) + 1 /\ Len(t) \in Nat
        /\ (\A i \in 1..Len(t) : Append(t, c)[i] = t[i]) /\ Append(t, c)[Len(t) + 1] = c
    BY AppendProperties, LenProperties
  <1>4. e(Append(t, c)) = Append(e(t), Written(c))
    <2> DEFINE n == Len(t)
               l == e(Append(t, c))
               r == Append(e(t), Written(c))
    <2>1. e(t) \in Seq(Seq(B)) /\ Len(e(t)) = n /\ DOMAIN t = 1..n /\ DOMAIN Append(t, c) = 1..(n + 1)
      BY <1>2, <1>3, LenProperties
    <2>2. l \in Seq(Seq(B)) /\ Len(l) = n + 1
      BY <1>2, <1>3
    <2>3. \A i \in 1..n : l[i] = Written(t[i])
      BY <1>3, <2>1
    <2>4. l[n + 1] = Written(c)
      BY <1>3, <2>1
    <2>5. \A i \in 1..n : e(t)[i] = Written(t[i])
      BY <2>1
    <2>. HIDE DEF e, l, n
    <2>6. r \in Seq(Seq(B)) /\ Len(r) = n + 1 /\ (\A i \in 1..n : r[i] = e(t)[i]) /\ r[n + 1] = Written(c)
      BY <1>1, <2>1, AppendProperties
    <2>. HIDE DEF r
    <2>7. ASSUME NEW i \in 1..Len(l) PROVE l[i] = r[i]
      <3>1. n \in Nat
        BY <1>3 DEF n
      <3>2. i \in 1..n \/ i = n + 1
        BY <2>2, <3>1
      <3>3. CASE i \in 1..n
        BY <2>3, <2>5, <2>6, <3>3
      <3>4. CASE i = n + 1
        BY <2>4, <2>6, <3>4
      <3>. QED BY <3>2, <3>3, <3>4
    <2>8. l = r
      BY <2>2, <2>6, <2>7, SeqEqual
    <2>. QED BY <2>8 DEF l, r
  <1>5. FlattenSeq(Append(e(t), Written(c))) = FlattenSeq(e(t)) \o Written(c) /\ FlattenSeq(e(t)) \in Seq(B)
    <2>1. e(t) \in Seq(Seq(B)) /\ Written(c) \in Seq(B)
      BY <1>1, <1>2
    <2>. HIDE DEF e
    <2>. QED BY <2>1, FlattenAppend
  <1>. QED BY <1>1, <1>2, <1>3, <1>4, <1>5 DEF B

\* What DecodeToken makes of a text, atom by atom.
Reading(w) == [i \in DOMAIN w |-> ReadAt(w, i)]

\* A wire text with whole escapes is decoded by reading at every place.
LEMMA DecodeReads ==
  ASSUME NEW B, NEW w \in Seq(B), Closed(w)
  PROVE  /\ Reading(w) \in Seq(Seq(B \cup Reserved)) /\ Len(Reading(w)) = Len(w)
         /\ \A i \in 1..Len(w) : Reading(w)[i] = ReadAt(w, i)
         /\ DecodeToken(w) = {FlattenSeq(Reading(w))}
  <1> DEFINE C == B \cup Reserved
             n == Len(w)
  <1>1. n \in Nat /\ DOMAIN w = 1..n /\ \A i \in 1..n : w[i] \in B
    BY LenProperties, ElementOfSeq
  <1>2. ASSUME NEW i \in 1..n PROVE ReadAt(w, i) \in Seq(C)
    <2>1. CASE w[i] = "%"
      <3>1. CodeAt(w, i) # {} /\ CodeAt(w, i) \subseteq Reserved
        BY <2>1 DEF Closed, CodeAt
      <3>2. Only(CodeAt(w, i)) \in C
        BY <3>1 DEF Only
      <3>. HIDE DEF C
      <3>. QED BY <2>1, <3>2 DEF ReadAt
    <2>2. CASE w[i] # "%"
      <3>1. w[i] \in C
        BY <1>1
      <3>. HIDE DEF C
      <3>. QED BY <2>2, <3>1 DEF ReadAt
    <2>. QED BY <2>1, <2>2
  <1>. HIDE DEF C
  <1>3. Reading(w) \in [1..n -> Seq(C)]
    BY <1>1, <1>2 DEF Reading
  <1>4. \A i \in 1..n : Reading(w)[i] = ReadAt(w, i)
    BY <1>1 DEF Reading
  <1>5. DecodeToken(w) = {FlattenSeq(Reading(w))}
    <2>1. \A i \in DOMAIN w : w[i] = "%" => {c \in Reserved : i < Len(w) /\ HexCode[c] = w[i + 1]} # {}
      BY <1>1 DEF Closed, CodeAt
    <2>. QED BY <2>1 DEF DecodeToken, Reading, ReadAt, CodeAt, When
  <1>6. Reading(w) \in Seq(Seq(C)) /\ Len(Reading(w)) = n
    BY <1>1, <1>3
  <1>. QED BY <1>4, <1>5, <1>6 DEF C

\* What is read does not change when more follows.
LEMMA ReadingStable ==
  ASSUME NEW B, NEW w \in Seq(B), NEW x \in Seq(B), Closed(w),
         Len(w) <= Len(x), \A i \in 1..Len(w) : x[i] = w[i]
  PROVE  \A i \in 1..Len(w) : /\ ReadAt(x, i) = ReadAt(w, i)
                              /\ w[i] = "%" => CodeAt(x, i) = CodeAt(w, i)
  <1>0. Len(w) \in Nat /\ Len(x) \in Nat
    BY LenProperties
  <1>1. ASSUME NEW i \in 1..Len(w), w[i] = "%" PROVE CodeAt(x, i) = CodeAt(w, i)
    <2>1. i # Len(w)
      BY <1>0, <1>1 DEF Closed
    <2>2. i < Len(w) /\ i < Len(x) /\ x[i + 1] = w[i + 1]
      BY <1>0, <2>1
    <2>. QED BY <2>2 DEF CodeAt
  <1>2. ASSUME NEW i \in 1..Len(w) PROVE ReadAt(x, i) = ReadAt(w, i)
    <2>1. x[i] = w[i]
      OBVIOUS
    <2>2. i > 1 => x[i - 1] = w[i - 1]
      BY <1>0
    <2>. QED BY <1>1, <2>1, <2>2 DEF ReadAt
  <1>. QED BY <1>1, <1>2

\* A text of atoms is read back as it was, and its wire form has neither a
\* separator nor a wildcard.
LEMMA DecodeEncoded ==
  ASSUME NEW A
  PROVE  \A t \in Seq(A) :
           /\ DecodeToken(EncodeToken(t)) = {t}
           /\ \A i \in 1..Len(EncodeToken(t)) : EncodeToken(t)[i] \notin Reserved \ {"%"}
  <1> DEFINE B == A \cup {"%"} \cup Codes
             C == B \cup Reserved
             Good(t, w) ==
               /\ w \in Seq(B) /\ Closed(w)
               /\ FlattenSeq(Reading(w)) = t
               /\ \A i \in 1..Len(w) : w[i] \notin Reserved \ {"%"}
             Q == {t \in Seq(A) : Good(t, EncodeToken(t))}
  <1>1. <<>> \in Q
    <2>1. Len(<<>>) = 0 /\ <<>> \in Seq(A) /\ <<>> \in Seq(B) /\ DOMAIN <<>> = {}
      BY EmptySeq
    <2>2. Reading(<<>>) = <<>>
      BY <2>1 DEF Reading
    <2>3. Closed(<<>>)
      BY <2>1 DEF Closed
    <2>4. Good(<<>>, <<>>)
      BY <2>1, <2>2, <2>3, FlattenEmpty
    <2>. QED BY <2>1, <2>4, EncodeEmpty
  <1>2. ASSUME NEW t \in Seq(A), NEW c \in A, t \in Q PROVE Append(t, c) \in Q
    <2> DEFINE w == EncodeToken(t)
               n == Len(w)
               x == w \o Written(c)
    <2>1. Good(t, w)
      BY <1>2
    <2>2. /\ n \in Nat /\ x \in Seq(B) /\ Written(c) \in Seq(B)
          /\ Len(x) = n + Len(Written(c))
          /\ \A i \in 1..(n + Len(Written(c))) : x[i] = IF i <= n THEN w[i] ELSE Written(c)[i - n]
      <3>1. w \in Seq(B) /\ Written(c) \in Seq(B)
        BY EncodeAppend
      <3>. HIDE DEF w, B
      <3>. QED BY <3>1, LenProperties, ConcatProperties
    <2>3. EncodeToken(Append(t, c)) = x /\ Append(t, c) \in Seq(A) /\ Append(t, c) = t \o <<c>>
      BY EncodeAppend, AppendIsConcat, AppendProperties
    <2>. HIDE DEF w, B, C
    <2>4. w \in Seq(B) /\ Closed(w) /\ FlattenSeq(Reading(w)) = t
          /\ \A i \in 1..n : w[i] \notin Reserved \ {"%"}
      BY <2>1
    <2>5. Reading(w) \in Seq(Seq(C)) /\ Len(Reading(w)) = n /\ \A i \in 1..n : Reading(w)[i] = ReadAt(w, i)
      BY <2>4, DecodeReads DEF C
    <2>6. t \in Seq(C) /\ <<c>> \in Seq(C) /\ <<>> \in Seq(C) /\ "%" \in Reserved
      <3>1. A \subseteq C /\ c \in C
        BY DEF C, B
      <3>2. t \in Seq(C)
        BY <3>1, SeqMonotonic
      <3>. QED BY <3>1, <3>2, EmptySeq DEF Reserved
    <2>7. FlattenSeq(Append(Reading(w), <<c>>)) = t \o <<c>>
          /\ Append(Reading(w), <<c>>) \in Seq(Seq(C))
      BY <2>4, <2>5, <2>6, FlattenAppend, AppendProperties
    <2>8. CASE c \in Reserved
      <3>1. Len(Written(c)) = 2 /\ Written(c)[1] = "%" /\ Written(c)[2] = HexCode[c]
        BY <2>8 DEF Written
      <3>2. HexCode[c] \in Codes /\ HexCode[c] \notin Reserved /\ HexCode[c] # "%"
        BY <2>6, <2>8, HexCodes
      <3>3. Len(x) = n + 2 /\ (\A i \in 1..n : x[i] = w[i]) /\ x[n + 1] = "%" /\ x[n + 2] = HexCode[c]
        <4>1. ~(n + 1 <= n) /\ ~(n + 2 <= n) /\ (n + 1) - n = 1 /\ (n + 2) - n = 2
          BY <2>2
        <4>2. n + 1 \in 1..(n + 2) /\ n + 2 \in 1..(n + 2) /\ \A i \in 1..n : i \in 1..(n + 2) /\ i <= n
          BY <2>2
        <4>. HIDE DEF x, n
        <4>. QED BY <2>2, <3>1, <4>1, <4>2
      <3>. HIDE DEF x
      <3>4. \A i \in 1..n : ReadAt(x, i) = ReadAt(w, i) /\ (w[i] = "%" => CodeAt(x, i) = CodeAt(w, i))
        <4>1. Len(w) <= Len(x) /\ \A i \in 1..Len(w) : x[i] = w[i]
          BY <2>2, <3>3
        <4>. QED BY <2>2, <2>4, <4>1, ReadingStable
      <3>5. CodeAt(x, n + 1) = {c}
        <4>1. n + 1 < Len(x) /\ (n + 1) + 1 = n + 2
          BY <2>2, <3>3
        <4>. QED BY <2>8, <3>3, <4>1, HexCodes DEF CodeAt
      <3>6. Closed(x)
        <4>1. x[Len(x)] # "%"
          BY <3>2, <3>3
        <4>2. ASSUME NEW i \in 1..Len(x), x[i] = "%" PROVE CodeAt(x, i) # {}
          <5>1. i \in 1..n \/ i = n + 1 \/ i = n + 2
            BY <2>2, <3>3
          <5>2. i # n + 2
            BY <3>2, <3>3, <4>2
          <5>3. CASE i \in 1..n
            BY <2>4, <3>3, <3>4, <4>2, <5>3 DEF Closed
          <5>. QED BY <3>5, <5>1, <5>2, <5>3
        <4>. QED BY <4>1, <4>2 DEF Closed
      <3>7. /\ Reading(x) \in Seq(Seq(C)) /\ Len(Reading(x)) = n + 2
            /\ \A i \in 1..(n + 2) : Reading(x)[i] = ReadAt(x, i)
        BY <2>2, <3>3, <3>6, DecodeReads DEF C
      <3>8. ReadAt(x, n + 1) = <<c>> /\ ReadAt(x, n + 2) = <<>>
        <4>1. n + 2 > 1 /\ (n + 2) - 1 = n + 1
          BY <2>2
        <4>. QED BY <3>2, <3>3, <3>5, <4>1, OnlyOne DEF ReadAt
      <3> DEFINE r == Append(Append(Reading(w), <<c>>), <<>>)
      <3>9. /\ r \in Seq(Seq(C)) /\ Len(r) = n + 2 /\ r[n + 1] = <<c>> /\ r[n + 2] = <<>>
            /\ \A i \in 1..n : r[i] = ReadAt(w, i)
        <4> DEFINE q == Append(Reading(w), <<c>>)
        <4>1. /\ q \in Seq(Seq(C)) /\ Len(q) = n + 1 /\ q[n + 1] = <<c>>
              /\ \A i \in 1..n : q[i] = ReadAt(w, i)
          BY <2>5, <2>6, AppendProperties
        <4>2. n + 1 \in 1..(n + 1) /\ (n + 1) + 1 = n + 2 /\ \A i \in 1..n : i \in 1..(n + 1)
          BY <2>2
        <4>. HIDE DEF q
        <4>3. /\ Append(q, <<>>) \in Seq(Seq(C)) /\ Len(Append(q, <<>>)) = Len(q) + 1
              /\ (\A i \in 1..Len(q) : Append(q, <<>>)[i] = q[i]) /\ Append(q, <<>>)[Len(q) + 1] = <<>>
          BY <2>6, <4>1, AppendProperties
        <4>. QED BY <4>1, <4>2, <4>3 DEF q
      <3>10. Reading(x) = r
        <4>1. ASSUME NEW i \in 1..(n + 2) PROVE Reading(x)[i] = r[i]
          <5>1. i \in 1..n \/ i = n + 1 \/ i = n + 2
            BY <2>2
          <5>. HIDE DEF r
          <5>2. CASE i \in 1..n
            BY <3>4, <3>7, <3>9, <5>2
          <5>. QED BY <3>7, <3>8, <3>9, <5>1, <5>2
        <4>. HIDE DEF r
        <4>. QED BY <3>7, <3>9, <4>1, SeqEqual
      <3>11. FlattenSeq(r) = t \o <<c>>
        <4>1. FlattenSeq(r) = (t \o <<c>>) \o <<>>
          BY <2>6, <2>7, FlattenAppend
        <4>2. t \o <<c>> \in Seq(C)
          BY <2>6, ConcatProperties
        <4>. QED BY <4>1, <4>2, ConcatEmptySeq
      <3>12. \A i \in 1..Len(x) : x[i] \notin Reserved \ {"%"}
        <4>1. ASSUME NEW i \in 1..Len(x) PROVE x[i] \notin Reserved \ {"%"}
          <5>1. i \in 1..n \/ i = n + 1 \/ i = n + 2
            BY <2>2, <3>3
          <5>2. CASE i \in 1..n
            BY <2>4, <3>3, <5>2
          <5>. QED BY <3>2, <3>3, <5>1, <5>2
        <4>. QED BY <4>1
      <3>13. Good(Append(t, c), x)
        BY <2>2, <2>3, <3>6, <3>10, <3>11, <3>12 DEF x
      <3>. QED BY <2>3, <3>13 DEF x
    <2>9. CASE c \notin Reserved
      <3>1. Len(Written(c)) = 1 /\ Written(c)[1] = c /\ c # "%"
        BY <2>6, <2>9 DEF Written
      <3>3. Len(x) = n + 1 /\ (\A i \in 1..n : x[i] = w[i]) /\ x[n + 1] = c
        <4>1. ~(n + 1 <= n) /\ (n + 1) - n = 1
          BY <2>2
        <4>2. n + 1 \in 1..(n + 1) /\ \A i \in 1..n : i \in 1..(n + 1) /\ i <= n
          BY <2>2
        <4>. HIDE DEF x, n
        <4>. QED BY <2>2, <3>1, <4>1, <4>2
      <3>. HIDE DEF x
      <3>4. \A i \in 1..n : ReadAt(x, i) = ReadAt(w, i) /\ (w[i] = "%" => CodeAt(x, i) = CodeAt(w, i))
        <4>1. Len(w) <= Len(x) /\ \A i \in 1..Len(w) : x[i] = w[i]
          BY <2>2, <3>3
        <4>. QED BY <2>2, <2>4, <4>1, ReadingStable
      <3>6. Closed(x)
        <4>1. x[Len(x)] # "%"
          BY <3>1, <3>3
        <4>2. ASSUME NEW i \in 1..Len(x), x[i] = "%" PROVE CodeAt(x, i) # {}
          <5>1. i \in 1..n \/ i = n + 1
            BY <2>2, <3>3
          <5>2. i # n + 1
            BY <3>1, <3>3, <4>2
          <5>. QED BY <2>4, <3>3, <3>4, <4>2, <5>1, <5>2 DEF Closed
        <4>. QED BY <4>1, <4>2 DEF Closed
      <3>7. /\ Reading(x) \in Seq(Seq(C)) /\ Len(Reading(x)) = n + 1
            /\ \A i \in 1..(n + 1) : Reading(x)[i] = ReadAt(x, i)
        BY <2>2, <3>3, <3>6, DecodeReads DEF C
      <3>8. ReadAt(x, n + 1) = <<c>>
        <4>1. n + 1 > 1 => x[(n + 1) - 1] # "%"
          <5>1. ASSUME n + 1 > 1 PROVE x[(n + 1) - 1] # "%"
            <6>1. n > 0 /\ n \in 1..n /\ (n + 1) - 1 = n
              BY <2>2, <5>1
            <6>2. w[n] # "%"
              BY <2>4, <6>1 DEF Closed
            <6>. QED BY <3>3, <6>1, <6>2
          <5>. QED BY <5>1
        <4>. QED BY <3>1, <3>3, <4>1 DEF ReadAt
      <3> DEFINE r == Append(Reading(w), <<c>>)
      <3>9. /\ r \in Seq(Seq(C)) /\ Len(r) = n + 1 /\ r[n + 1] = <<c>>
            /\ \A i \in 1..n : r[i] = ReadAt(w, i)
        BY <2>5, <2>6, AppendProperties
      <3>10. Reading(x) = r
        <4>1. ASSUME NEW i \in 1..(n + 1) PROVE Reading(x)[i] = r[i]
          <5>1. i \in 1..n \/ i = n + 1
            BY <2>2
          <5>. HIDE DEF r
          <5>2. CASE i \in 1..n
            BY <3>4, <3>7, <3>9, <5>2
          <5>. QED BY <3>7, <3>8, <3>9, <5>1, <5>2
        <4>. HIDE DEF r
        <4>. QED BY <3>7, <3>9, <4>1, SeqEqual
      <3>12. \A i \in 1..Len(x) : x[i] \notin Reserved \ {"%"}
        <4>1. ASSUME NEW i \in 1..Len(x) PROVE x[i] \notin Reserved \ {"%"}
          <5>1. i \in 1..n \/ i = n + 1
            BY <2>2, <3>3
          <5>. QED BY <2>4, <2>9, <3>3, <5>1
        <4>. QED BY <4>1
      <3>13. Good(Append(t, c), x)
        BY <2>2, <2>3, <2>7, <3>6, <3>10, <3>12 DEF x
      <3>. QED BY <2>3, <3>13 DEF x
    <2>. QED BY <2>8, <2>9
  <1>. HIDE DEF Q
  <1>3. \A t \in Seq(A) : t \in Q
    BY <1>1, <1>2, SequenceInduction
  <1>4. ASSUME NEW t \in Seq(A)
        PROVE  /\ DecodeToken(EncodeToken(t)) = {t}
               /\ \A i \in 1..Len(EncodeToken(t)) : EncodeToken(t)[i] \notin Reserved \ {"%"}
    <2>1. Good(t, EncodeToken(t))
      BY <1>3 DEF Q
    <2>2. EncodeToken(t) \in Seq(B) /\ Closed(EncodeToken(t))
      BY <2>1
    <2>. HIDE DEF B
    <2>3. DecodeToken(EncodeToken(t)) = {FlattenSeq(Reading(EncodeToken(t)))}
      BY <2>2, DecodeReads
    <2>. QED BY <2>1, <2>3
  <1>. QED BY <1>4

-----------------------------------------------------------------------------
(* Subjects.                                                                *)

\* What the next atom does to the tokens so far.
SplitStep(before, atom) ==
  IF atom = "." THEN Append(before, <<>>)
  ELSE [before EXCEPT ![Len(before)] = Append(@, atom)]

\* Subjects are split atom by atom.
LEMMA SplitAccumulates ==
  ASSUME NEW B, NEW s \in Seq(B)
  PROVE  \E f : /\ Accumulates(f, Seq(Seq(B)) \ {<<>>},
                               [p \in (Seq(Seq(B)) \ {<<>>}) \X B |-> SplitStep(p[1], p[2])],
                               <<<<>>>>, s)
               /\ Split(s) = f[Len(s)]
  <1> DEFINE S == Seq(Seq(B)) \ {<<>>}
             step == [p \in S \X B |-> SplitStep(p[1], p[2])]
             n == Len(s)
             G(g) == g = [i \in 0..n |-> IF i = 0 THEN <<<<>>>> ELSE SplitStep(g[i - 1], s[i])]
  <1>1. \A before \in S, atom \in B : SplitStep(before, atom) \in S
    <2>1. ASSUME NEW before \in S, NEW atom \in B PROVE SplitStep(before, atom) \in S
      <3>1. before \in Seq(Seq(B)) /\ before # <<>> /\ Len(before) \in Nat \ {0}
        BY EmptySeq
      <3>2. CASE atom = "."
        <4>1. SplitStep(before, atom) = Append(before, <<>>) /\ <<>> \in Seq(B)
          BY <3>2, EmptySeq DEF SplitStep
        <4>2. Append(before, <<>>) \in Seq(Seq(B)) /\ Append(before, <<>>) # <<>>
          BY <3>1, <4>1, AppendProperties
        <4>. QED BY <4>1, <4>2
      <3>3. CASE atom # "."
        <4> DEFINE l == Len(before)
                   e == Append(before[l], atom)
        <4>1. l \in 1..Len(before) /\ before[l] \in Seq(B)
          BY <3>1, ElementOfSeq
        <4>2. e \in Seq(B)
          BY <4>1, AppendProperties
        <4>3. SplitStep(before, atom) = [before EXCEPT ![l] = e]
          BY <3>3 DEF SplitStep
        <4>. HIDE DEF l, e
        <4>4. [before EXCEPT ![l] = e] \in Seq(Seq(B)) /\ Len([before EXCEPT ![l] = e]) = Len(before)
          BY <3>1, <4>1, <4>2, ExceptSeq
        <4>5. [before EXCEPT ![l] = e] # <<>>
          BY <3>1, <4>4, EmptySeq
        <4>. QED BY <4>3, <4>4, <4>5
      <3>. QED BY <3>2, <3>3
    <2>. QED BY <2>1
  <1>2. n \in Nat /\ \A i \in 1..n : s[i] \in B
    BY LenProperties, ElementOfSeq
  <1>3. <<<<>>>> \in S
    OBVIOUS
  <1>. HIDE DEF S
  <1>4. step \in [S \X B -> S]
    BY <1>1
  <1>5. \A before \in S, atom \in B : step[<<before, atom>>] = SplitStep(before, atom)
    OBVIOUS
  <1>. HIDE DEF step
  <1>6. PICK f : Accumulates(f, S, step, <<<<>>>>, s)
    BY <1>3, <1>4, AccumulatorExists
  <1>7. f \in [0..n -> S] /\ f[0] = <<<<>>>> /\ \A i \in 1..n : f[i] = SplitStep(f[i - 1], s[i])
    <2>1. f \in [0..n -> S] /\ f[0] = <<<<>>>> /\ \A i \in 1..n : f[i] = step[<<f[i - 1], s[i]>>]
      BY <1>6 DEF Accumulates
    <2>. HIDE DEF n
    <2>2. ASSUME NEW i \in 1..n PROVE f[i - 1] \in S
      <3>1. i - 1 \in 0..n
        BY <1>2
      <3>. QED BY <2>1, <3>1
    <2>. QED BY <1>2, <1>5, <2>1, <2>2
  <1> DEFINE c == CHOOSE g : G(g)
  <1>8. Split(s) = c[n]
    BY DEF Split, SplitStep
  <1>. HIDE DEF n
  <1>9. G(f)
    <2> DEFINE h == [i \in 0..n |-> IF i = 0 THEN <<<<>>>> ELSE SplitStep(f[i - 1], s[i])]
    <2>1. ASSUME NEW i \in 0..n PROVE f[i] = h[i]
      <3>1. CASE i = 0
        BY <1>7, <3>1
      <3>2. CASE i # 0
        <4>1. i \in 1..n
          BY <1>2, <3>2
        <4>. QED BY <1>7, <3>2, <4>1
      <3>. QED BY <3>1, <3>2
    <2>2. DOMAIN h = 0..n /\ h = [i \in 0..n |-> h[i]]
      OBVIOUS
    <2>. HIDE DEF h
    <2>3. f = h
      BY <1>7, <2>1, <2>2
    <2>. QED BY <2>3 DEF h
  <1>10. G(c)
    BY <1>9
  <1>. HIDE DEF c
  <1>11. c[0] = <<<<>>>> /\ \A i \in 1..n : c[i] = SplitStep(c[i - 1], s[i])
    <2>1. 0 \in 0..n /\ \A i \in 1..n : i \in 0..n /\ i # 0
      BY <1>2
    <2>2. \A i \in 0..n : c[i] = IF i = 0 THEN <<<<>>>> ELSE SplitStep(c[i - 1], s[i])
      BY <1>10
    <2>. QED BY <2>1, <2>2
  <1>. HIDE DEF G
  <1> DEFINE N == {k \in Nat : k <= n => c[k] = f[k]}
  <1>12. 0 \in N
    BY <1>7, <1>11
  <1>13. ASSUME NEW k \in Nat, k \in N PROVE k + 1 \in N
    <2>1. ASSUME k + 1 <= n PROVE c[k + 1] = f[k + 1]
      <3> DEFINE j == k + 1
      <3>1. j \in 1..n /\ j - 1 = k /\ c[k] = f[k]
        BY <1>2, <1>13, <2>1
      <3>. HIDE DEF j
      <3>2. c[j] = SplitStep(c[j - 1], s[j]) /\ f[j] = SplitStep(f[j - 1], s[j])
        BY <1>7, <1>11, <3>1
      <3>3. c[j] = f[j]
        BY <3>1, <3>2
      <3>. QED BY <3>3 DEF j
    <2>. QED BY <2>1
  <1>. HIDE DEF N
  <1>14. \A k \in Nat : k \in N
    BY <1>12, <1>13, SetInduction
  <1>15. Split(s) = f[n]
    BY <1>2, <1>8, <1>14 DEF N
  <1>. QED BY <1>6, <1>15 DEF S, step, n

\* Nothing is one empty token.
LEMMA SplitEmpty == Split(<<>>) = <<<<>>>>
  <1>1. <<>> \in Seq({}) /\ Len(<<>>) = 0
    OBVIOUS
  <1>. QED BY <1>1, SplitAccumulates DEF Accumulates

\* One more atom: a dot begins a token, another goes to the last one.
LEMMA SplitAppend ==
  ASSUME NEW B, NEW s \in Seq(B), NEW atom \in B
  PROVE  Split(s) \in Seq(Seq(B)) /\ Split(Append(s, atom)) = SplitStep(Split(s), atom)
  <1> DEFINE S == Seq(Seq(B)) \ {<<>>}
             step == [p \in S \X B |-> SplitStep(p[1], p[2])]
             t == Append(s, atom)
             n == Len(s)
  <1>1. t \in Seq(B) /\ Len(t) = n + 1 /\ n \in Nat /\ t[n + 1] = atom
        /\ \A i \in 1..n : t[i] = s[i]
    BY AppendProperties, LenProperties
  <1>. HIDE DEF t
  <1>2. PICK f : Accumulates(f, S, step, <<<<>>>>, s) /\ Split(s) = f[n]
    BY SplitAccumulates
  <1>3. PICK g : Accumulates(g, S, step, <<<<>>>>, t) /\ Split(t) = g[Len(t)]
    BY <1>1, SplitAccumulates
  <1>5. f[n] \in S
    <2>. HIDE DEF S
    <2>. QED BY <1>1, <1>2 DEF Accumulates
  <1>7. step[<<f[n], atom>>] = SplitStep(f[n], atom)
    <2>. HIDE DEF S
    <2>. QED BY <1>5
  <1>8. f[n] \in Seq(Seq(B))
    BY <1>5
  <1>. HIDE DEF S, step
  <1>4. f[Len(s)] = g[Len(s)]
    <2>1. Len(s) <= Len(t) /\ \A i \in 1..Len(s) : s[i] = t[i]
      BY <1>1
    <2>2. s \in Seq(B) /\ t \in Seq(B)
      BY <1>1
    <2> DEFINE base == <<<<>>>>
    <2>3. Accumulates(f, S, step, base, s) /\ Accumulates(g, S, step, base, t)
      BY <1>2, <1>3
    <2>. HIDE DEF base
    <2>4. Agree(f, g, s)
      BY <2>1, <2>2, <2>3, AccumulatorUnique
    <2>. QED BY <1>1, <2>4 DEF Agree
  <1>6. g[n + 1] = step[<<g[n], atom>>]
    <2>1. n + 1 \in 1..Len(t) /\ (n + 1) - 1 = n
      BY <1>1
    <2>. QED BY <1>1, <1>3, <2>1 DEF Accumulates
  <1>9. f[n] = g[n]
    BY <1>1, <1>4
  <1>. QED BY <1>1, <1>2, <1>3, <1>6, <1>7, <1>8, <1>9 DEF t

\* Texts without a separator.
Undotted(B) == {u \in Seq(B) : \A i \in 1..Len(u) : u[i] # "."}

\* They only make the last token longer.
LEMMA SplitConcat ==
  ASSUME NEW B, NEW s \in Seq(B), NEW ts \in Seq(Seq(B)), NEW token \in Seq(B),
         Split(s) = Append(ts, token)
  PROVE  \A u \in Undotted(B) : Split(s \o u) = Append(ts, token \o u)
  <1> DEFINE Q == {u \in Seq(B) : u \in Undotted(B) => Split(s \o u) = Append(ts, token \o u)}
  <1>1. <<>> \in Q
    <2>1. <<>> \in Seq(B) /\ s \o <<>> = s /\ token \o <<>> = token
      BY ConcatEmptySeq, EmptySeq
    <2>. QED BY <2>1
  <1>2. ASSUME NEW u \in Seq(B), NEW x \in B, u \in Q PROVE Append(u, x) \in Q
    <2>1. ASSUME Append(u, x) \in Undotted(B)
          PROVE  Split(s \o Append(u, x)) = Append(ts, token \o Append(u, x))
      <3>1. /\ Append(u, x) \in Seq(B) /\ Len(Append(u, x)) = Len(u) + 1 /\ Len(u) \in Nat
            /\ (\A i \in 1..Len(u) : Append(u, x)[i] = u[i]) /\ Append(u, x)[Len(u) + 1] = x
        BY AppendProperties, LenProperties
      <3>2. u \in Undotted(B) /\ x # "."
        <4>1. \A i \in 1..Len(u) : i \in 1..(Len(u) + 1)
          BY <3>1
        <4>2. Len(u) + 1 \in 1..(Len(u) + 1)
          BY <3>1
        <4>3. \A i \in 1..(Len(u) + 1) : Append(u, x)[i] # "."
          BY <2>1, <3>1 DEF Undotted
        <4>. QED BY <3>1, <4>1, <4>2, <4>3 DEF Undotted
      <3>3. Split(s \o u) = Append(ts, token \o u)
        BY <1>2, <3>2
      <3>4. s \o Append(u, x) = Append(s \o u, x) /\ token \o Append(u, x) = Append(token \o u, x)
            /\ s \o u \in Seq(B) /\ token \o u \in Seq(B)
        <4>1. <<x>> \in Seq(B) /\ Append(u, x) = u \o <<x>>
          BY AppendIsConcat
        <4>2. s \o u \in Seq(B) /\ token \o u \in Seq(B)
          BY ConcatProperties
        <4>3. s \o (u \o <<x>>) = (s \o u) \o <<x>>
          BY <4>1, ConcatAssociative, SMTT(20)
        <4>4. token \o (u \o <<x>>) = (token \o u) \o <<x>>
          BY <4>1, ConcatAssociative, SMTT(20)
        <4>5. Append(s \o u, x) = (s \o u) \o <<x>> /\ Append(token \o u, x) = (token \o u) \o <<x>>
          BY <4>2, AppendIsConcat
        <4>6. s \o Append(u, x) = Append(s \o u, x)
          BY <4>1, <4>3, <4>5
        <4>7. token \o Append(u, x) = Append(token \o u, x)
          BY <4>1, <4>4, <4>5
        <4>. QED BY <4>2, <4>6, <4>7
      <3>5. Split(Append(s \o u, x)) = SplitStep(Split(s \o u), x)
        BY <3>4, SplitAppend
      <3> DEFINE v == token \o u
                 w == Append(v, x)
                 before == Append(ts, v)
                 l == Len(before)
      <3>6. /\ before \in Seq(Seq(B)) /\ l = Len(ts) + 1 /\ before[l] = v /\ Len(ts) \in Nat
            /\ \A i \in 1..Len(ts) : before[i] = ts[i]
        BY <3>4, AppendProperties, LenProperties
      <3>7. w \in Seq(B)
        BY <3>4, AppendProperties
      <3>8. SplitStep(before, x) = [before EXCEPT ![l] = w]
        BY <3>2, <3>6 DEF SplitStep
      <3>. HIDE DEF w, v
      <3>9. /\ Append(ts, w) \in Seq(Seq(B)) /\ Len(Append(ts, w)) = Len(ts) + 1
            /\ (\A i \in 1..Len(ts) : Append(ts, w)[i] = ts[i]) /\ Append(ts, w)[Len(ts) + 1] = w
        BY <3>7, AppendProperties
      <3>. HIDE DEF before
      <3>10. l \in 1..l /\ l \in Nat
        BY <3>6
      <3> DEFINE e == [before EXCEPT ![l] = w]
      <3>11. /\ e \in Seq(Seq(B)) /\ Len(e) = l
             /\ \A j \in 1..l : e[j] = IF j = l THEN w ELSE before[j]
        BY <3>6, <3>7, <3>10, ExceptSeq
      <3>. HIDE DEF e, l
      <3>12. ASSUME NEW i \in 1..Len(e) PROVE e[i] = Append(ts, w)[i]
        <4>1. i = l \/ (i \in 1..Len(ts) /\ i # l)
          BY <3>6, <3>11
        <4>. QED BY <3>6, <3>9, <3>11, <4>1
      <3>13. e = Append(ts, w)
        <4> DEFINE r == Append(ts, w)
        <4>1. e \in Seq(Seq(B)) /\ r \in Seq(Seq(B)) /\ Len(e) = Len(r)
          BY <3>6, <3>9, <3>11
        <4>2. \A i \in 1..Len(e) : e[i] = r[i]
          BY <3>12
        <4>. HIDE DEF r
        <4>3. e = r
          BY <4>1, <4>2, SeqEqual
        <4>. QED BY <4>3 DEF r
      <3>. QED BY <3>3, <3>4, <3>5, <3>8, <3>13 DEF e, v, w, before
    <2>2. Append(u, x) \in Seq(B)
      BY AppendProperties
    <2>. QED BY <2>1, <2>2
  <1>. HIDE DEF Q
  <1>3. \A u \in Seq(B) : u \in Q
    BY <1>1, <1>2, SequenceInduction
  <1>. QED BY <1>3 DEF Q, Undotted

\* Tokens are joined from the front.
LEMMA JoinEmpty == Join(<<>>) = <<>>
  <1> DEFINE e == [i \in DOMAIN <<>> |-> IF i = 1 THEN <<>>[i] ELSE <<".">> \o <<>>[i]]
  <1>1. DOMAIN <<>> = {}
    OBVIOUS
  <1>2. e = <<>>
    BY <1>1
  <1>. QED BY <1>2, FlattenEmpty DEF Join

\* One more token comes after a dot.
LEMMA JoinAppend ==
  ASSUME NEW B, "." \in B, NEW ts \in Seq(Seq(B)), NEW u \in Seq(B)
  PROVE  /\ Join(ts) \in Seq(B)
         /\ Join(Append(ts, u)) = Join(ts) \o (IF ts = <<>> THEN u ELSE <<".">> \o u)
  <1> DEFINE piece(s, i) == IF i = 1 THEN s[i] ELSE <<".">> \o s[i]
             e(s) == [i \in DOMAIN s |-> piece(s, i)]
             last == IF ts = <<>> THEN u ELSE <<".">> \o u
             n == Len(ts)
  <1>1. <<".">> \in Seq(B) /\ \A v \in Seq(B) : <<".">> \o v \in Seq(B)
    <2>1. <<".">> \in Seq(B)
      OBVIOUS
    <2>. QED BY <2>1, ConcatProperties
  <1>2. ASSUME NEW s \in Seq(Seq(B))
        PROVE  e(s) \in Seq(Seq(B)) /\ Len(e(s)) = Len(s) /\ Join(s) = FlattenSeq(e(s))
               /\ \A i \in 1..Len(s) : e(s)[i] = piece(s, i)
    <2>1. Len(s) \in Nat /\ DOMAIN s = 1..Len(s) /\ \A i \in 1..Len(s) : s[i] \in Seq(B)
      BY LenProperties, ElementOfSeq
    <2>2. \A i \in 1..Len(s) : piece(s, i) \in Seq(B)
      BY <1>1, <2>1
    <2>3. Join(s) = FlattenSeq(e(s))
      BY DEF Join
    <2>. HIDE DEF piece
    <2>4. \A i \in 1..Len(s) : e(s)[i] = piece(s, i)
      BY <2>1
    <2>5. e(s) \in [1..Len(s) -> Seq(B)]
      BY <2>1, <2>2
    <2>. HIDE DEF e, piece
    <2>6. e(s) \in Seq(Seq(B)) /\ Len(e(s)) = Len(s)
      <3>1. Len(s) \in Nat
        BY <2>1
      <3> DEFINE S == Seq(B)
                 l == Len(s)
                 x == e(s)
      <3>2. x \in [1..l -> S] /\ l \in Nat
        BY <2>5, <3>1
      <3>. HIDE DEF S, l, x
      <3>3. x \in Seq(S) /\ Len(x) = l
        BY <3>2
      <3>. QED BY <3>3 DEF S, l, x
    <2>. QED BY <2>3, <2>4, <2>6
  <1> DEFINE t == Append(ts, u)
  <1>3. /\ t \in Seq(Seq(B)) /\ Len(t) = n + 1 /\ n \in Nat /\ t[n + 1] = u
        /\ \A i \in 1..n : t[i] = ts[i]
    BY AppendProperties, LenProperties
  <1>4. last \in Seq(B)
    BY <1>1
  <1>5. piece(t, n + 1) = last
    <2>1. CASE ts = <<>>
      <3>1. n + 1 = 1
        BY <2>1, EmptySeq
      <3>. QED BY <1>3, <2>1, <3>1
    <2>2. CASE ts # <<>>
      <3>1. n + 1 # 1
        BY <1>3, <2>2, EmptySeq
      <3>. HIDE DEF t
      <3>. QED BY <1>3, <2>2, <3>1
    <2>. QED BY <2>1, <2>2
  <1>6. \A i \in 1..n : piece(t, i) = piece(ts, i)
    <2>. HIDE DEF t
    <2>. QED BY <1>3
  <1>7. e(ts) \in Seq(Seq(B)) /\ Len(e(ts)) = n /\ \A i \in 1..n : e(ts)[i] = piece(ts, i)
    BY <1>2
  <1>8. e(t) \in Seq(Seq(B)) /\ Len(e(t)) = n + 1 /\ \A i \in 1..(n + 1) : e(t)[i] = piece(t, i)
    <2>. HIDE DEF t, e, piece
    <2>. QED BY <1>2, <1>3
  <1>9. Join(ts) = FlattenSeq(e(ts)) /\ Join(t) = FlattenSeq(e(t))
    <2>. HIDE DEF t, e
    <2>. QED BY <1>2, <1>3
  <1>. HIDE DEF e, piece, last, t
  <1>10. e(t) = Append(e(ts), last)
    <2> DEFINE r == Append(e(ts), last)
    <2>1. /\ r \in Seq(Seq(B)) /\ Len(r) = n + 1 /\ (\A i \in 1..n : r[i] = e(ts)[i]) /\ r[n + 1] = last
      BY <1>4, <1>7, AppendProperties
    <2>. HIDE DEF r, n
    <2>2. ASSUME NEW i \in 1..Len(e(t)) PROVE e(t)[i] = r[i]
      <3>1. i \in 1..(n + 1) /\ (i \in 1..n \/ i = n + 1)
        BY <1>3, <1>8
      <3>2. CASE i \in 1..n
        BY <1>6, <1>7, <1>8, <2>1, <3>1, <3>2
      <3>3. CASE i = n + 1
        BY <1>5, <1>8, <2>1, <3>1, <3>3
      <3>. QED BY <3>1, <3>2, <3>3
    <2>3. e(t) = r
      BY <1>8, <2>1, <2>2, SeqEqual
    <2>. QED BY <2>3 DEF r
  <1>11. FlattenSeq(Append(e(ts), last)) = FlattenSeq(e(ts)) \o last /\ FlattenSeq(e(ts)) \in Seq(B)
    BY <1>4, <1>7, FlattenAppend
  <1>. QED BY <1>9, <1>10, <1>11 DEF t, last

\* Tokens without separators are told apart again.
LEMMA SplitJoin ==
  ASSUME NEW B, "." \in B
  PROVE  \A ts \in Seq(Undotted(B)) : ts # <<>> => Split(Join(ts)) = ts
  <1> DEFINE U == Undotted(B)
             Q == {ts \in Seq(U) : ts # <<>> => Split(Join(ts)) = ts}
  <1>0. U \subseteq Seq(B)
    BY DEF Undotted
  <1>. HIDE DEF U
  <1>1. <<>> \in Q
    BY EmptySeq
  <1>2. ASSUME NEW ts \in Seq(U), NEW u \in U, ts \in Q PROVE Append(ts, u) \in Q
    <2>0. Append(ts, u) \in Seq(U)
      BY AppendProperties
    <2>1. u \in Seq(B) /\ ts \in Seq(Seq(B)) /\ u \in Undotted(B)
      <3>1. ts \in Seq(Seq(B))
        BY <1>0, SeqMonotonic
      <3>. QED BY <1>0, <3>1 DEF U
    <2>2. /\ Join(ts) \in Seq(B)
          /\ Join(Append(ts, u)) = Join(ts) \o (IF ts = <<>> THEN u ELSE <<".">> \o u)
      BY <2>1, JoinAppend
    <2>3. <<>> \in Seq(B) /\ <<>> \in Seq(Seq(B)) /\ <<>> \o u = u
      BY <2>1, EmptySeq, ConcatEmptySeq
    <2>4. CASE ts = <<>>
      <3>1. Join(Append(ts, u)) = <<>> \o u
        BY <2>2, <2>4, JoinEmpty
      <3>2. Split(<<>>) = Append(<<>>, <<>>)
        BY SplitEmpty
      <3>3. Split(<<>> \o u) = Append(<<>>, <<>> \o u)
        BY <2>1, <2>3, <3>2, SplitConcat
      <3>4. Split(Join(Append(ts, u))) = Append(ts, u)
        BY <2>3, <2>4, <3>1, <3>3
      <3>. QED BY <2>0, <3>4
    <2>5. CASE ts # <<>>
      <3> DEFINE j == Join(ts)
      <3>1. Split(j) = ts
        BY <1>2, <2>5
      <3>. HIDE DEF j
      <3>2. Join(Append(ts, u)) = Append(j, ".") \o u /\ j \in Seq(B) /\ Append(j, ".") \in Seq(B)
        <4>1. <<".">> \in Seq(B) /\ j \in Seq(B) /\ Join(Append(ts, u)) = j \o (<<".">> \o u)
          BY <2>2, <2>5 DEF j
        <4>2. j \o (<<".">> \o u) = (j \o <<".">>) \o u /\ Append(j, ".") = j \o <<".">>
          BY <2>1, <4>1, ConcatAssociative, AppendIsConcat, SMTT(30)
        <4>. QED BY <4>1, <4>2, AppendProperties
      <3>3. Split(Append(j, ".")) = Append(ts, <<>>)
        BY <3>1, <3>2, SplitAppend DEF SplitStep
      <3>4. Split(Append(j, ".") \o u) = Append(ts, <<>> \o u)
        BY <2>1, <2>3, <3>2, <3>3, SplitConcat
      <3>5. Split(Join(Append(ts, u))) = Append(ts, u)
        BY <2>3, <3>2, <3>4
      <3>. QED BY <2>0, <3>5
    <2>. QED BY <2>4, <2>5
  <1>. HIDE DEF Q
  <1>3. \A ts \in Seq(U) : ts \in Q
    BY <1>1, <1>2, SequenceInduction
  <1>. QED BY <1>3 DEF Q, U

-----------------------------------------------------------------------------
(* Round trips.                                                             *)

\* An encoded token has no dot.
LEMMA EncodeTyped ==
  ASSUME NEW A, NEW t \in Seq(A)
  PROVE  EncodeToken(t) \in Seq(A \cup {"%"} \cup Codes)
  <1>1. CASE t = <<>>
    BY <1>1, EncodeEmpty, EmptySeq
  <1>2. CASE t # <<>>
    <2>1. PICK s \in Seq(A), c \in A : t = Append(s, c)
      BY <1>2, SequenceEmptyOrAppend
    <2>2. /\ EncodeToken(s) \in Seq(A \cup {"%"} \cup Codes)
          /\ Written(c) \in Seq(A \cup {"%"} \cup Codes)
          /\ EncodeToken(t) = EncodeToken(s) \o Written(c)
      BY <2>1, EncodeAppend
    <2>. QED BY <2>2, ConcatProperties
  <1>. QED BY <1>1, <1>2

\* A subject is split into the tokens it was made of, and decoded to the texts
\* behind them, reserved characters or not.
THEOREM SubjectRoundTrip ==
  ASSUME NEW A, NEW parts \in Seq(Seq(A)), parts # <<>>
  PROVE  /\ Split(EncodeSubject(parts)) = [i \in 1..Len(parts) |-> EncodeToken(parts[i])]
         /\ DecodeSubject(EncodeSubject(parts)) = {parts}
  <1> DEFINE B == A \cup {"%"} \cup Codes \cup {"."}
             n == Len(parts)
             tokens == [i \in DOMAIN parts |-> EncodeToken(parts[i])]
  <1>1. n \in Nat /\ n # 0 /\ DOMAIN parts = 1..n /\ \A i \in 1..n : parts[i] \in Seq(A)
    BY LenProperties, ElementOfSeq, EmptySeq
  <1>2. \A t \in Seq(A) : EncodeToken(t) \in Undotted(B) /\ DecodeToken(EncodeToken(t)) = {t}
    <2>1. ASSUME NEW t \in Seq(A) PROVE EncodeToken(t) \in Undotted(B) /\ DecodeToken(EncodeToken(t)) = {t}
      <3>1. EncodeToken(t) \in Seq(A \cup {"%"} \cup Codes)
        BY EncodeTyped
      <3>2. A \cup {"%"} \cup Codes \subseteq B
        OBVIOUS
      <3>. HIDE DEF B
      <3>3. EncodeToken(t) \in Seq(B)
        BY <3>1, <3>2, SeqMonotonic
      <3>4. DecodeToken(EncodeToken(t)) = {t}
        BY DecodeEncoded
      <3>5. \A i \in 1..Len(EncodeToken(t)) : EncodeToken(t)[i] \notin Reserved \ {"%"}
        BY DecodeEncoded
      <3>6. "." \in Reserved \ {"%"}
        BY DEF Reserved
      <3>. QED BY <3>3, <3>4, <3>5, <3>6 DEF Undotted
    <2>. QED BY <2>1
  <1> DEFINE U == Undotted(B)
  <1>3. "." \in B
    OBVIOUS
  <1>. HIDE DEF B
  <1>4. tokens \in [1..n -> U] /\ tokens = [i \in 1..n |-> EncodeToken(parts[i])]
        /\ \A i \in 1..n : tokens[i] = EncodeToken(parts[i])
    BY <1>1, <1>2
  <1>5. EncodeSubject(parts) = Join(tokens)
    BY DEF EncodeSubject
  <1>. HIDE DEF tokens, n, U
  <1>6. tokens \in Seq(U) /\ Len(tokens) = n
    BY <1>1, <1>4
  <1>7. tokens # <<>> /\ DOMAIN tokens = 1..n
    BY <1>1, <1>4, <1>6, EmptySeq
  <1>8. Split(Join(tokens)) = tokens
    BY <1>3, <1>6, <1>7, SplitJoin DEF U
  <1>9. \A i \in 1..n : DecodeToken(tokens[i]) = {parts[i]} /\ Only(DecodeToken(tokens[i])) = parts[i]
    BY <1>1, <1>2, <1>4, OnlyOne
  <1>10. [i \in DOMAIN tokens |-> Only(DecodeToken(tokens[i]))] = parts
    <2>1. parts = [i \in 1..n |-> parts[i]]
      BY <1>1
    <2>. QED BY <1>7, <1>9, <2>1
  <1>11. DecodeSubject(EncodeSubject(parts)) = {parts}
    <2>1. \A i \in DOMAIN tokens : DecodeToken(tokens[i]) # {}
      BY <1>7, <1>9
    <2>. QED BY <1>5, <1>8, <1>10, <2>1 DEF DecodeSubject, When
  <1>. QED BY <1>4, <1>5, <1>8, <1>11 DEF n

\* The coarse pattern that the backend is asked for hides nothing that the
\* token-wise pattern would let through, for messages with a token after the
\* base.
THEOREM CoarsePatternHidesNothing ==
  ASSUME NEW A, NEW parts \in Seq(Seq(A)), NEW B, NEW fields \in Seq(Seq(B)),
         Len(fields) > 1, parts # <<>>, parts[1] # Wildcard,
         MatchesWatchPattern(parts, EncodeSubject(fields))
  PROVE  InStream(CoarsePattern(parts), EncodeSubject(fields))
  <1> DEFINE n == Len(fields)
             subject == EncodeSubject(fields)
             specific ==
               IF FirstWildcard(parts) # {}
               THEN LET i == Only(FirstWildcard(parts)) IN IF i > 2 THEN i - 1 ELSE 1
               ELSE IF Len(parts) > 1 THEN Len(parts) - 1 ELSE 1
             tokens == Split(subject)
             pattern == CoarsePattern(parts)
  <1>1. n \in Nat /\ n > 1 /\ Len(parts) \in Nat /\ fields # <<>> /\ DOMAIN parts = 1..Len(parts)
    BY LenProperties, EmptySeq
  <1>2. DecodeSubject(subject) = {fields} /\ tokens = [i \in 1..n |-> EncodeToken(fields[i])]
    BY <1>1, SubjectRoundTrip
  <1>3. Len(parts) = n /\ \A i \in 1..n : parts[i] \in {Wildcard, fields[i]}
    BY <1>1, <1>2 DEF MatchesWatchPattern
  <1>4. specific \in 1..(n - 1) /\ \A i \in 1..specific : parts[i] # Wildcard
    <2>1. CASE FirstWildcard(parts) # {}
      <3> DEFINE k == Only(FirstWildcard(parts))
      <3>1. k \in FirstWildcard(parts)
        BY <2>1 DEF Only
      <3>2. k \in 1..n /\ parts[k] = Wildcard /\ \A j \in 1..(k - 1) : parts[j] # Wildcard
        BY <1>1, <1>3, <3>1 DEF FirstWildcard
      <3>3. specific = IF k > 2 THEN k - 1 ELSE 1
        BY <2>1
      <3>. HIDE DEF k, specific, n
      <3>. QED BY <1>1, <3>2, <3>3
    <2>2. CASE FirstWildcard(parts) = {}
      <3>1. specific = n - 1
        BY <1>1, <1>3, <2>2
      <3> DEFINE W == {i \in 1..n : parts[i] = Wildcard}
      <3>2. ASSUME W # {} PROVE FALSE
        <4>0. W \in SUBSET Nat
          BY <1>1
        <4>1. PICK i \in W : \A j \in W : i <= j
          BY <3>2, <4>0, LeastNatural
        <4>2. i \in DOMAIN parts /\ parts[i] = Wildcard /\ i \in 1..n
          BY <1>1, <1>3, <4>1
        <4>3. ASSUME NEW j \in 1..(i - 1) PROVE parts[j] # Wildcard
          <5>1. j \in 1..n /\ j < i
            BY <1>1, <4>2
          <5>2. j \in Int /\ i \in Int /\ ~(i <= j)
            BY <5>1, <4>2
          <5>3. j \notin W
            BY <4>1, <5>2
          <5>. QED BY <5>1, <5>3
        <4>. QED BY <2>2, <4>2, <4>3 DEF FirstWildcard
      <3>. HIDE DEF specific
      <3>3. \A i \in 1..(n - 1) : i \in 1..n
        BY <1>1
      <3>4. n - 1 \in 1..(n - 1)
        BY <1>1
      <3>. QED BY <3>1, <3>2, <3>3, <3>4
    <2>. QED BY <2>1, <2>2
  <1>5. pattern = [i \in 1..specific |-> EncodeToken(parts[i])]
    BY DEF CoarsePattern
  <1>. HIDE DEF n, specific, pattern, tokens
  <1>6. \A i \in 1..specific : i \in 1..n /\ parts[i] = fields[i]
    BY <1>1, <1>3, <1>4
  <1>7. pattern = [i \in 1..specific |-> tokens[i]]
    BY <1>2, <1>5, <1>6
  <1>8. Len(pattern) = specific /\ Len(tokens) = n
    BY <1>1, <1>2, <1>4, <1>5
  <1>9. SubSeq(tokens, 1, specific) = pattern
    <2>1. SubSeq(tokens, 1, specific) = [i \in 1..specific |-> tokens[i]]
      BY <1>1, <1>4
    <2>. QED BY <1>7, <2>1
  <1>10. n > specific
    BY <1>1, <1>4
  <1>. QED BY <1>8, <1>9, <1>10 DEF InStream, tokens, pattern

-----------------------------------------------------------------------------
(* Canonical texts.                                                         *)

\* The texts of values are sequences.
LEMMA ScalarTexts ==
  ASSUME NEW v, ValidValue(v), IsScalar(v)
  PROVE  IsSequence(Text(v)) /\ IsSequence(Lower(v))
  <1>1. v.form = "word" => IsSequence(v.text) /\ IsSequence(v.lower)
    BY DEF ValidValue, IsSequence
  <1>2. IsSequence(Text(v))
    <2>1. CASE v.form = "word"
      <3>1. Text(v) = v.text
        BY <2>1 DEF Text
      <3>. QED BY <1>1, <2>1, <3>1
    <2>2. CASE v.form = "empty"
      <3>1. Text(v) = <<>>
        BY <2>2 DEF Text
      <3>. QED BY <3>1, Tuples
    <2>3. CASE v.form = "digits"
      <3>1. Text(v) = <<v.sign \o Padded(v.value, v.width)>>
        BY <2>3 DEF Text
      <3>. QED BY <3>1, Tuples
    <2>4. CASE v.form = "decimal"
      <3>1. Text(v) = <<v.sign \o ToString(v.tenths \div 10), ".", ToString(v.tenths % 10)>>
        BY <2>4 DEF Text
      <3>. QED BY <3>1, Tuples
    <2>5. CASE v.form = "colon"
      <3>1. Text(v) = <<Padded(v.hours, v.width) \o ":" \o Padded(v.minutes, 2)>>
        BY <2>5 DEF Text
      <3>. QED BY <3>1, Tuples
    <2>6. CASE v.form = "iso"
      <3>1. Text(v) =
              <<Padded(v.year, 4) \o "-" \o Padded(v.month, 2) \o "-" \o Padded(v.day, 2)>>
        BY <2>6 DEF Text
      <3>. QED BY <3>1, Tuples
    <2>7. CASE v.form = "ordinal"
      <3>1. Text(v) = <<Padded(v.year, 4) \o "-" \o Padded(v.day, 3)>>
        BY <2>7 DEF Text
      <3>. QED BY <3>1, Tuples
    <2>8. CASE v.form = "ring"
      <3>1. Text(v) = <<ToString(v.positions)>>
        BY <2>8 DEF Text
      <3>. QED BY <3>1, Tuples
    <2>9. CASE v.form = "position"
      <3>1. Text(v) = <<ToString(v.at)>>
        BY <2>9 DEF Text
      <3>. QED BY <3>1, Tuples
    <2>. QED BY <2>1, <2>2, <2>3, <2>4, <2>5, <2>6, <2>7, <2>8, <2>9 DEF IsScalar, ScalarForms
  <1>. QED BY <1>1, <1>2 DEF Lower

\* So are the canonical ones.
LEMMA CanonicalTexts ==
  ASSUME NEW rule, ValidRule(rule), NEW v, ValidValue(v), NEW text \in Canonical(rule, v)
  PROVE  IsSequence(text)
  <1>1. CASE rule.type \in {"PolygonHandler", "PointCloudHandler"}
    <2>1. text \in {<<ToString(g)>> : g \in Geometry(rule, v)}
      BY <1>1 DEF Canonical
    <2>. QED BY <2>1, Tuples
  <1>2. CASE rule.type \in ScalarHandlers
    <2>0. rule.type \notin {"PolygonHandler", "PointCloudHandler"}
      BY <1>2 DEF ScalarHandlers
    <2>1. IsScalar(v)
      BY <2>0 DEF Canonical
    <2>2. IsSequence(Text(v)) /\ IsSequence(Lower(v))
      BY <2>1, ScalarTexts
    <2> DEFINE scalar ==
          CASE rule.type = "StringHandler" -> StringHandler(rule, v)
            [] rule.type = "DateHandler" -> DateHandler(rule, v)
            [] rule.type = "EnumHandler" -> EnumHandler(rule, v)
            [] rule.type = "ExpverHandler" -> ExpverHandler(rule, v)
            [] rule.type = "IntHandler" -> IntHandler(rule, v)
            [] rule.type = "FloatHandler" -> FloatHandler(rule, v)
            [] rule.type = "TimeHandler" -> TimeHandler(v)
    <2>3. text \in scalar
      BY <2>0, <2>1 DEF Canonical
    <2>4. CASE rule.type = "StringHandler"
      <3>1. text \in StringHandler(rule, v)
        BY <2>3, <2>4
      <3>. QED BY <2>2, <3>1 DEF StringHandler, When
    <2>5. CASE rule.type = "DateHandler"
      <3>1. text \in DateHandler(rule, v)
        BY <2>3, <2>5
      <3>2. PICK date : text = DateText(rule.canonical_format, date)
        BY <3>1 DEF DateHandler
      <3>. QED BY <3>2, Tuples DEF DateText
    <2>6. CASE rule.type = "EnumHandler"
      <3>1. text \in EnumHandler(rule, v)
        BY <2>3, <2>6
      <3>. QED BY <2>2, <3>1 DEF EnumHandler, When
    <2>7. CASE rule.type = "ExpverHandler"
      <3>1. text \in ExpverHandler(rule, v)
        BY <2>3, <2>7
      <3>2. ASSUME NEW w, ValidValue(w), IsScalar(w) PROVE IsSequence(ExpverText(w))
        <4>1. IsSequence(Lower(w))
          BY <3>2, ScalarTexts
        <4>. QED BY <4>1, Tuples DEF ExpverText
      <3>3. \A d \in rule.default : IsSequence(ExpverText(d))
        BY <2>7, <3>2 DEF ValidRule, IsScalar
      <3>4. IsSequence(ExpverText(v))
        BY <2>1, <3>2
      <3>. QED BY <3>1, <3>3, <3>4 DEF ExpverHandler
    <2>8. CASE rule.type = "IntHandler"
      <3>1. text \in IntHandler(rule, v)
        BY <2>3, <2>8
      <3>. QED BY <3>1, Tuples DEF IntHandler, IntText, When
    <2>9. CASE rule.type = "FloatHandler"
      <3>1. text \in FloatHandler(rule, v)
        BY <2>3, <2>9
      <3>2. \A negative, tenths : IsSequence(FloatText(negative, tenths))
        BY Tuples DEF FloatText
      <3>. QED BY <3>1, <3>2 DEF FloatHandler, When
    <2>10. CASE rule.type = "TimeHandler"
      <3>1. text \in TimeHandler(v)
        BY <2>3, <2>10
      <3>2. \A hours, minutes : \A t \in TimeText(hours, minutes) : IsSequence(t)
        BY Tuples DEF TimeText, When
      <3>. QED BY <3>1, <3>2 DEF TimeHandler
    <2>. QED BY <1>2, <2>4, <2>5, <2>6, <2>7, <2>8, <2>9, <2>10 DEF ScalarHandlers
  <1>. QED BY <1>1, <1>2 DEF ValidRule

\* The sequence of sorted names has each of them once.
LEMMA SortedNames ==
  ASSUME NEW names
  PROVE  /\ DOMAIN Sorted(names) = 1..Len(Sorted(names)) /\ Len(Sorted(names)) \in Nat
         /\ Sorted(names) \in Seq(names \cap ToSet(FieldOrder))
         /\ \A name \in names \cap ToSet(FieldOrder) : \E i \in DOMAIN Sorted(names) : Sorted(names)[i] = name
         /\ \A i, j \in DOMAIN Sorted(names) : Sorted(names)[i] = Sorted(names)[j] => i = j
         /\ Len(Sorted(names)) = Cardinality({[seq |-> i, field |-> FieldOrder[i]] :
                                   i \in {j \in DOMAIN FieldOrder : FieldOrder[j] \in names}})
  <1> DEFINE I == {j \in DOMAIN FieldOrder : FieldOrder[j] \in names}
             S == {[seq |-> i, field |-> FieldOrder[i]] : i \in I}
             fields == BySequence(S)
             n == Cardinality(S)
             N == names \cap ToSet(FieldOrder)
  <1>1. DOMAIN FieldOrder = 1..Len(FieldOrder) /\ Len(FieldOrder) \in Nat
    BY FieldOrderAssumption, LenProperties
  <1>2. Numbered(S)
    <2>1. I \subseteq 1..Len(FieldOrder)
      BY <1>1
    <2>2. IsFiniteSet(I)
      <3>1. I \in SUBSET Nat /\ \A i \in I : i <= Len(FieldOrder)
        BY <1>1, <2>1
      <3>. HIDE DEF I
      <3>. QED BY <1>1, <3>1, FS_BoundedSetOfNaturals
    <2>. HIDE DEF I
    <2> DEFINE f == [i \in I |-> [seq |-> i, field |-> FieldOrder[i]]]
    <2>6. f \in Surjection(I, S)
      BY DEF Surjection
    <2>. HIDE DEF f
    <2>3. IsFiniteSet(S)
      BY <2>2, <2>6, FS_Surjection
    <2>4. ASSUME NEW m \in S PROVE  m.seq \in Nat
      <3>1. PICK i \in I : m = [seq |-> i, field |-> FieldOrder[i]]
        OBVIOUS
      <3>2. i \in Nat /\ m.seq = i
        BY <1>1, <2>1, <3>1
      <3>. QED BY <3>2
    <2>5. \A x, y \in S : x.seq = y.seq => x = y
      OBVIOUS
    <2>. HIDE DEF S
    <2>. QED BY <2>3, <2>4, <2>5 DEF Numbered
  <1>3. Sorted(names) = [i \in DOMAIN fields |-> fields[i].field]
    BY DEF Sorted
  <1>4. \A m \in S : m.field \in N /\ m.seq \in DOMAIN FieldOrder /\ m.field = FieldOrder[m.seq]
    BY DEF ToSet
  <1>5. ASSUME NEW name \in N PROVE \E m \in S : m.field = name
    <2>1. PICK i \in DOMAIN FieldOrder : FieldOrder[i] = name
      BY DEF ToSet
    <2>2. i \in I
      BY <2>1
    <2>3. [seq |-> i, field |-> FieldOrder[i]] \in S
      BY <2>2
    <2>4. [seq |-> i, field |-> FieldOrder[i]].field = name
      BY <2>1
    <2>. HIDE DEF S
    <2>. QED BY <2>3, <2>4
  <1>. HIDE DEF S
  <1>6. /\ n \in Nat /\ DOMAIN fields = 1..n
        /\ \A i \in 1..n : fields[i] \in S
        /\ \A m \in S : \E i \in 1..n : fields[i] = m
        /\ \A i, j \in 1..n : i < j => fields[i].seq < fields[j].seq
    BY <1>2, BySequenceOrders
  <1>. HIDE DEF n, fields, N
  <1>7. Sorted(names) \in [1..n -> N]
    BY <1>3, <1>4, <1>6
  <1>8. Sorted(names) \in Seq(N) /\ Len(Sorted(names)) = n /\ DOMAIN Sorted(names) = 1..n
    BY <1>6, <1>7
  <1>9. ASSUME NEW name \in N PROVE \E i \in 1..n : Sorted(names)[i] = name
    <2>1. PICK m \in S : m.field = name
      BY <1>5
    <2>2. PICK i \in 1..n : fields[i] = m
      BY <1>6
    <2>. QED BY <1>3, <1>6, <2>1, <2>2
  <1>10. ASSUME NEW i \in 1..n, NEW j \in 1..n, Sorted(names)[i] = Sorted(names)[j] PROVE i = j
    <2>1. fields[i] \in S /\ fields[j] \in S /\ fields[i].field = fields[j].field
      BY <1>3, <1>6, <1>10
    <2>2. fields[i].seq = fields[j].seq /\ fields[i].seq \in Nat
      BY <1>1, <1>4, <2>1, FieldOrderAssumption
    <2>3. ~(i < j) /\ ~(j < i)
      BY <1>6, <2>2
    <2>. QED BY <1>6, <2>3
  <1>. QED BY <1>6, <1>8, <1>9, <1>10 DEF N, n, S

\* Names of which a part sorts to the same length are no more than that part, as
\* far as they are field names.
LEMMA SortedSame ==
  ASSUME NEW names, NEW others, names \subseteq others,
         Len(Sorted(names)) = Len(Sorted(others))
  PROVE  Sorted(names) = Sorted(others)
  <1> DEFINE I(x) == {j \in DOMAIN FieldOrder : FieldOrder[j] \in x}
             S(x) == {[seq |-> i, field |-> FieldOrder[i]] : i \in I(x)}
  <1>1. Len(Sorted(names)) = Cardinality(S(names)) /\ Len(Sorted(others)) = Cardinality(S(others))
    BY SortedNames
  <1>2. IsFiniteSet(S(others)) /\ S(names) \subseteq S(others)
    <2>1. DOMAIN FieldOrder = 1..Len(FieldOrder) /\ Len(FieldOrder) \in Nat
      BY FieldOrderAssumption, LenProperties
    <2>2. I(others) \in SUBSET Nat /\ \A i \in I(others) : i <= Len(FieldOrder)
      BY <2>1
    <2> DEFINE J == I(others)
               f == [i \in J |-> [seq |-> i, field |-> FieldOrder[i]]]
    <2>3. f \in Surjection(J, S(others))
      BY DEF Surjection
    <2>. HIDE DEF f, J
    <2>4. IsFiniteSet(J)
      BY <2>1, <2>2, FS_BoundedSetOfNaturals DEF J
    <2>5. IsFiniteSet(S(others))
      <3>. HIDE DEF S
      <3>. QED BY <2>3, <2>4, FS_Surjection
    <2>6. I(names) \subseteq I(others)
      OBVIOUS
    <2>7. S(names) \subseteq S(others)
      BY <2>6
    <2>. QED BY <2>5, <2>7
  <1>3. S(names) = S(others)
    <2>. HIDE DEF S
    <2>1. S(names) \in SUBSET S(others) /\ Cardinality(S(others)) = Cardinality(S(names))
      BY <1>1, <1>2
    <2>. QED BY <1>2, <2>1, FS_Subset
  <1>. QED BY <1>3 DEF Sorted

-----------------------------------------------------------------------------
(* The tokens of a topic.                                                   *)

\* The fields on which a topic is made, in order, and the texts of its tokens.
Route(schema, params) ==
  IF schema.topic = {} THEN Sorted(DOMAIN params) ELSE Only(schema.topic).key_order

PartsOf(base, route, params) == <<<<base>>>> \o [i \in DOMAIN route |-> params[route[i]]]

\* The base comes first, then the texts of the route; the subject says no less.
LaidOut(parts, base, route, params) ==
  /\ Len(parts) = Len(route) + 1 /\ Len(route) \in Nat
  /\ DOMAIN parts = 1..(Len(route) + 1) /\ DOMAIN route = 1..Len(route)
  /\ parts[1] = <<base>>
  /\ \A i \in DOMAIN route : parts[i + 1] = params[route[i]]
  /\ \E A : parts \in Seq(Seq(A))
  /\ DecodeSubject(EncodeSubject(parts)) = {parts}

\* Parts survive the wire.
LEMMA PartsDecode ==
  ASSUME NEW base, NEW S, NEW route \in Seq(S), NEW params,
         \A i \in DOMAIN route : IsSequence(params[route[i]])
  PROVE  LaidOut(PartsOf(base, route, params), base, route, params)
  <1> DEFINE n == Len(route)
             tail == [i \in DOMAIN route |-> params[route[i]]]
             T == {<<base>>} \cup {params[route[i]] : i \in DOMAIN route}
             parts == PartsOf(base, route, params)
  <1>1. n \in Nat /\ DOMAIN route = 1..n
    BY LenProperties
  <1>2. tail \in [1..n -> T] /\ \A i \in 1..n : tail[i] = params[route[i]]
    BY <1>1
  <1>3. <<<<base>>>> \in Seq(T) /\ Len(<<<<base>>>>) = 1 /\ <<<<base>>>>[1] = <<base>>
    OBVIOUS
  <1>4. parts = <<<<base>>>> \o tail
    BY DEF PartsOf
  <1>5. \A t \in T : IsSequence(t)
    BY Tuples
  <1>. HIDE DEF tail, T, n, parts
  <1>6. tail \in Seq(T) /\ Len(tail) = n
    BY <1>1, <1>2
  <1>7. /\ parts \in Seq(T) /\ Len(parts) = 1 + n
        /\ \A i \in 1..(1 + n) : parts[i] = IF i <= 1 THEN <<<<base>>>>[i] ELSE tail[i - 1]
    BY <1>3, <1>4, <1>6, ConcatProperties
  <1>8. Len(parts) = n + 1 /\ DOMAIN parts = 1..(n + 1)
    BY <1>1, <1>7, LenProperties
  <1>9. parts[1] = <<base>>
    <2>1. 1 \in 1..(1 + n)
      BY <1>1
    <2>. QED BY <1>3, <1>7, <2>1
  <1>10. ASSUME NEW i \in 1..n PROVE parts[i + 1] = params[route[i]]
    <2>1. i + 1 \in 1..(1 + n) /\ ~(i + 1 <= 1) /\ (i + 1) - 1 = i
      BY <1>1
    <2>2. parts[i + 1] = tail[(i + 1) - 1]
      BY <1>7, <2>1
    <2>. QED BY <1>2, <2>1, <2>2
  <1>11. PICK A : parts \in Seq(Seq(A))
    <2>1. \A i \in 1..Len(parts) : parts[i] \in T
      BY <1>7, ElementOfSeq
    <2>. QED BY <1>5, <1>7, <2>1, CommonAtoms
  <1>12. parts # <<>>
    BY <1>1, <1>7, EmptySeq
  <1>13. DecodeSubject(EncodeSubject(parts)) = {parts}
    BY <1>11, <1>12, SubjectRoundTrip
  <1>. QED BY <1>1, <1>8, <1>9, <1>10, <1>11, <1>13 DEF parts, n, LaidOut

\* Topics are made of the parts of a route.
LEMMA TopicsAreRoutes ==
  /\ \A type, schema, params : \A topic \in BuildTopic(type, schema, params) :
       /\ topic = EncodeSubject(PartsOf(Base(schema, type), Route(schema, params), params))
       /\ schema.topic # {} => ToSet(Only(schema.topic).key_order) \subseteq DOMAIN params
  /\ \A type, params :
       GenericTopic(type, params) = EncodeSubject(PartsOf(type, Sorted(DOMAIN params), params))
  <1>1. ASSUME NEW type, NEW params
        PROVE  GenericTopic(type, params) = EncodeSubject(PartsOf(type, Sorted(DOMAIN params), params))
    BY DEF GenericTopic, PartsOf
  <1>2. ASSUME NEW type, NEW schema, NEW params, NEW topic \in BuildTopic(type, schema, params)
        PROVE  /\ topic = EncodeSubject(PartsOf(Base(schema, type), Route(schema, params), params))
               /\ schema.topic # {} => ToSet(Only(schema.topic).key_order) \subseteq DOMAIN params
    <2>1. CASE schema.topic = {}
      <3>1. topic = GenericTopic(type, params)
        BY <2>1 DEF BuildTopic
      <3>. QED BY <1>1, <2>1, <3>1 DEF Base, Route
    <2>2. CASE schema.topic # {}
      <3> DEFINE t == Only(schema.topic)
      <3>1. Base(schema, type) = t.base
        BY <2>2 DEF Base, Only
      <3>. HIDE DEF t
      <3>2. /\ ToSet(t.key_order) \subseteq DOMAIN params
            /\ topic = EncodeSubject(<<<<t.base>>>> \o [i \in DOMAIN t.key_order |-> params[t.key_order[i]]])
        BY <2>2 DEF BuildTopic, When, t
      <3>3. Route(schema, params) = t.key_order
        BY <2>2 DEF Route, t
      <3>. QED BY <3>1, <3>2, <3>3 DEF PartsOf, t
    <2>. QED BY <2>1, <2>2
  <1>. QED BY <1>1, <1>2

-----------------------------------------------------------------------------
(* What is known of a stored message and of a subscription.                 *)

ValidSettings(sett) == \A type \in DOMAIN sett.schema : ValidSchema(sett.schema[type])

Published(schema, m) ==
  [f \in DOMAIN m.identifier |-> Only(Canonical(schema.identifier[f], m.identifier[f]))]

\* Without a schema, the texts are taken as they are.
Texts(x) == [f \in DOMAIN x.identifier |-> Text(x.identifier[f])]

\* A message was laid out along the route of its event type, from canonical texts.
MessageFacts(sett, m) ==
  /\ "point" \notin DOMAIN m.identifier
  /\ m.type \in DOMAIN sett.schema =>
       LET schema == sett.schema[m.type]
       IN /\ DOMAIN m.identifier = DOMAIN schema.identifier
          /\ \A f \in DOMAIN m.identifier :
               /\ Canonical(schema.identifier[f], m.identifier[f]) # {}
               /\ IsSequence(Published(schema, m)[f])
          /\ m.topic = EncodeSubject(PartsOf(Base(schema, m.type), Route(schema, Published(schema, m)),
                                            Published(schema, m)))
          /\ m.metadata = SpatialMetadata(schema, m.identifier)
  /\ m.type \notin DOMAIN sett.schema =>
       /\ ~Strict(sett) /\ ValidTopicBase(m.type)
       /\ \A f \in DOMAIN m.identifier : IsSequence(Text(m.identifier[f]))
       /\ m.topic = EncodeSubject(PartsOf(m.type, Sorted(DOMAIN m.identifier), Texts(m)))
       /\ m.metadata = {}

\* A field that is asked for has its canonical text as a token; one that is left
\* out, has a constraint or is geometry has an asterisk.
AskedTexts(schema, s, params) ==
  LET rule == schema.identifier
      given == s.identifier
  IN /\ DOMAIN rule \subseteq DOMAIN params
     /\ DOMAIN params \subseteq DOMAIN rule \cup SpatialFilters(schema)
     /\ \A f \in DOMAIN rule :
          IF f \notin DOMAIN given THEN params[f] = Wildcard
          ELSE IF Spatial(rule[f]) THEN (\E t \in schema.topic : Routes(t, f)) => params[f] = Wildcard
          ELSE IF given[f].form = "object" THEN params[f] = Wildcard
          ELSE params[f] \in Canonical(rule[f], given[f])

\* The filters of a subscription are those that were asked for.
AskedFilters(schema, s) ==
  LET rule == schema.identifier
      given == s.identifier
  IN /\ DOMAIN s.constraints = {f \in DOMAIN given : given[f].form = "object"}
     /\ s.filters = {"point", "polygon"} \cap DOMAIN given
     /\ \A f \in DOMAIN s.constraints :
          /\ f \in DOMAIN rule /\ ~Spatial(rule[f])
          /\ s.constraints[f] \in ParseConstraint(rule[f], given[f])
     /\ IF "point" \in DOMAIN given
        THEN /\ s.point = {given["point"].at} /\ s.point = PointHandler(given["point"])
             /\ "polygon" \in DOMAIN rule \/ "point" \in DOMAIN rule
        ELSE s.point = {}
     /\ IF "polygon" \in DOMAIN given
        THEN /\ s.polygon = {given["polygon"].positions} /\ s.polygon = PolygonHandler(given["polygon"])
             /\ "polygon" \in DOMAIN rule \/ "point_cloud" \in DOMAIN rule
        ELSE s.polygon = {}

\* The tokens of a subscription were made of the values that were checked.
SubscriptionFacts(sett, s) ==
  /\ s.coarse = CoarsePattern(s.parts)
  /\ s.type \in DOMAIN sett.schema => AskedFilters(sett.schema[s.type], s)
  /\ s.type \notin DOMAIN sett.schema =>
       /\ ~Strict(sett) /\ ValidTopicBase(s.type)
       /\ \A f \in DOMAIN s.identifier : IsScalar(s.identifier[f])
       /\ DOMAIN s.constraints = {} /\ s.filters = FilterFields(s.identifier)
  /\ \E params :
       /\ \A f \in DOMAIN params : IsSequence(params[f])
       /\ s.type \in DOMAIN sett.schema =>
            /\ AskedTexts(sett.schema[s.type], s, params)
            /\ s.parts = PartsOf(Base(sett.schema[s.type], s.type), Route(sett.schema[s.type], params), params)
       /\ s.type \notin DOMAIN sett.schema =>
            params = Texts(s) /\ s.parts = PartsOf(s.type, Sorted(DOMAIN params), params)
       /\ s.type \in EcpdsStreams(sett) => params[Only(sett.ecpds).match_key] \in Granted

\* The route of an event type takes fields of the schema only, and has a field at
\* one place at most.
RouteOf(route, schema, params) ==
  /\ route \in Seq(DOMAIN params) /\ DOMAIN route = 1..Len(route) /\ Len(route) \in Nat
  /\ \A i, j \in DOMAIN route : route[i] = route[j] => i = j
  /\ \A f \in DOMAIN schema.identifier :
       (\A t \in schema.topic : Routes(t, f)) <=> \E i \in DOMAIN route : route[i] = f
  /\ schema.topic # {} => ToSet(route) \subseteq DOMAIN schema.identifier

\* So it is in settings that are accepted.
LEMMA RouteFields ==
  ASSUME NEW schema, ValidSchema(schema), ValidateTopicSchema(schema),
         NEW params, DOMAIN schema.identifier \subseteq DOMAIN params,
         NEW route, route = Route(schema, params)
  PROVE  RouteOf(route, schema, params)
  <1>1. CASE schema.topic = {}
    <2>1. route = Sorted(DOMAIN params)
      BY <1>1 DEF Route
    <2>2. \A f \in DOMAIN schema.identifier : f \in DOMAIN params \cap ToSet(FieldOrder)
      BY DEF ValidSchema
    <2>3. /\ DOMAIN route = 1..Len(route) /\ Len(route) \in Nat
          /\ route \in Seq(DOMAIN params \cap ToSet(FieldOrder))
          /\ \A name \in DOMAIN params \cap ToSet(FieldOrder) : \E i \in DOMAIN route : route[i] = name
          /\ \A i, j \in DOMAIN route : route[i] = route[j] => i = j
      BY <2>1, SortedNames
    <2>4. route \in Seq(DOMAIN params)
      BY <2>3, SeqMonotonic
    <2>. QED BY <1>1, <2>2, <2>3, <2>4 DEF RouteOf
  <1>2. CASE schema.topic # {}
    <2> DEFINE topic == Only(schema.topic)
    <2>1. topic \in schema.topic /\ (\A t \in schema.topic : t = topic) /\ route = topic.key_order
      BY <1>2 DEF Only, ValidSchema, Route
    <2>. HIDE DEF topic
    <2>2. route \in Seq(STRING)
      BY <2>1 DEF ValidSchema
    <2>3. DOMAIN route = 1..Len(route) /\ Len(route) \in Nat
      BY <2>2, LenProperties
    <2>4. \A i \in DOMAIN route :
            route[i] \in DOMAIN schema.identifier /\ \A j \in 1..(i - 1) : route[i] # route[j]
      BY <2>1 DEF ValidateTopicSchema
    <2>5. ASSUME NEW i \in DOMAIN route, NEW j \in DOMAIN route, route[i] = route[j] PROVE i = j
      <3>1. i \in Nat /\ j \in Nat /\ i >= 1 /\ j >= 1
        BY <2>3
      <3>2. ASSUME i < j PROVE FALSE
        <4>1. i \in 1..(j - 1)
          BY <3>1, <3>2
        <4>. QED BY <2>4, <2>5, <4>1
      <3>3. ASSUME j < i PROVE FALSE
        <4>1. j \in 1..(i - 1)
          BY <3>1, <3>3
        <4>. QED BY <2>4, <2>5, <4>1
      <3>. QED BY <3>1, <3>2, <3>3
    <2>6. ASSUME NEW f \in DOMAIN schema.identifier
          PROVE  (\A t \in schema.topic : Routes(t, f)) <=> \E i \in DOMAIN route : route[i] = f
      <3>1. (\A t \in schema.topic : Routes(t, f)) <=> f \in ToSet(route)
        BY <2>1 DEF Routes
      <3>. QED BY <3>1 DEF ToSet
    <2>7. ToSet(route) \subseteq DOMAIN schema.identifier
      BY <2>4 DEF ToSet
    <2>8. route \in Seq(DOMAIN params)
      <3>1. \A i \in 1..Len(route) : route[i] \in DOMAIN params
        BY <2>3, <2>4
      <3> DEFINE n == Len(route)
                 P == DOMAIN params
      <3>2. route \in [1..n -> STRING] /\ n \in Nat
        BY <2>2, LenProperties
      <3>. HIDE DEF n, P
      <3>3. route \in [1..n -> P]
        BY <3>1, <3>2 DEF n, P
      <3>4. route \in Seq(P)
        BY <3>2, <3>3
      <3>. QED BY <3>4 DEF P
    <2>. QED BY <2>3, <2>5, <2>6, <2>7, <2>8 DEF RouteOf
  <1>. QED BY <1>1, <1>2

\* What a stored message is decoded to.
LEMMA MessageParts ==
  ASSUME NEW sett, ValidSettings(sett), Accepts(sett), NEW m, MessageFacts(sett, m),
         m.type \in DOMAIN sett.schema, NEW schema, schema = sett.schema[m.type],
         NEW params, params = Published(schema, m),
         NEW route, route = Route(schema, params),
         NEW base, base = Base(schema, m.type),
         NEW parts, parts = PartsOf(base, route, params)
  PROVE  /\ DecodeSubject(m.topic) = {parts}
         /\ LaidOut(parts, base, route, params) /\ RouteOf(route, schema, params)
         /\ DOMAIN params = DOMAIN schema.identifier /\ DOMAIN params = DOMAIN m.identifier
  <1>1. /\ DOMAIN m.identifier = DOMAIN schema.identifier /\ DOMAIN params = DOMAIN m.identifier
        /\ \A f \in DOMAIN m.identifier : IsSequence(params[f])
        /\ m.topic = EncodeSubject(parts)
    BY DEF MessageFacts, Published
  <1>2. ValidSchema(schema) /\ ValidateTopicSchema(schema)
    BY DEF ValidSettings, Accepts
  <1>3. RouteOf(route, schema, params)
    <2>1. DOMAIN schema.identifier \subseteq DOMAIN params
      BY <1>1
    <2>. QED BY <1>2, <2>1, RouteFields
  <1>4. route \in Seq(DOMAIN params) /\ \A i \in DOMAIN route : IsSequence(params[route[i]])
    <2>1. route \in Seq(DOMAIN params) /\ DOMAIN route = 1..Len(route)
      BY <1>3 DEF RouteOf
    <2>. QED BY <1>1, <2>1, ElementOfSeq
  <1>5. LaidOut(parts, base, route, params)
    BY <1>4, PartsDecode
  <1>. QED BY <1>1, <1>3, <1>5 DEF LaidOut

\* The bases of accepted settings are no wildcards, and tell event types apart.
LEMMA BasesApart ==
  ASSUME NEW sett, Accepts(sett)
  PROVE  /\ \A type \in DOMAIN sett.schema : Base(sett.schema[type], type) \in DOMAIN StreamName
         /\ \A t, u \in DOMAIN sett.schema :
              Base(sett.schema[t], t) = Base(sett.schema[u], u) => t = u
  BY DEF Accepts, ValidateStorage, ValidTopicBase

\* The tokens of a message or a subscription without a schema.
LEMMA GenericParts ==
  ASSUME NEW type, NEW x, \A f \in DOMAIN x.identifier : IsSequence(Text(x.identifier[f]))
  PROVE  LaidOut(PartsOf(type, Sorted(DOMAIN x.identifier), Texts(x)),
                 type, Sorted(DOMAIN x.identifier), Texts(x))
  <1> DEFINE params == Texts(x)
             D == DOMAIN x.identifier
             route == Sorted(D)
  <1>1. \A f \in D : IsSequence(params[f])
    BY DEF Texts
  <1>2. route \in Seq(D \cap ToSet(FieldOrder)) /\ DOMAIN route = 1..Len(route)
    BY SortedNames
  <1>. HIDE DEF params, route, D
  <1>3. \A i \in DOMAIN route : IsSequence(params[route[i]])
    BY <1>1, <1>2, ElementOfSeq
  <1>4. LaidOut(PartsOf(type, route, params), type, route, params)
    BY <1>2, <1>3, PartsDecode
  <1>. QED BY <1>4 DEF params, route, D

\* The tokens of a subscription to an event type with a schema.
AskedLayout(sett, schema, s, asked) ==
  /\ AskedTexts(schema, s, asked)
  /\ LaidOut(s.parts, Base(schema, s.type), Route(schema, asked), asked)
  /\ RouteOf(Route(schema, asked), schema, asked)
  /\ s.type \in EcpdsStreams(sett) => asked[Only(sett.ecpds).match_key] \in Granted

\* Every subscription to such an event type has them.
LEMMA AskedParts ==
  ASSUME NEW sett, ValidSettings(sett), Accepts(sett), NEW s, SubscriptionFacts(sett, s),
         s.type \in DOMAIN sett.schema, NEW schema, schema = sett.schema[s.type]
  PROVE  \E asked : AskedLayout(sett, schema, s, asked)
  <1>1. PICK asked :
          /\ \A f \in DOMAIN asked : IsSequence(asked[f])
          /\ AskedTexts(schema, s, asked)
          /\ s.parts = PartsOf(Base(schema, s.type), Route(schema, asked), asked)
          /\ s.type \in EcpdsStreams(sett) => asked[Only(sett.ecpds).match_key] \in Granted
    BY DEF SubscriptionFacts
  <1> DEFINE route == Route(schema, asked)
             base == Base(schema, s.type)
  <1>2. ValidSchema(schema) /\ ValidateTopicSchema(schema)
    BY DEF ValidSettings, Accepts
  <1>3. DOMAIN schema.identifier \subseteq DOMAIN asked
    BY <1>1 DEF AskedTexts
  <1>4. RouteOf(route, schema, asked)
    BY <1>2, <1>3, RouteFields
  <1>5. s.parts = PartsOf(base, route, asked)
    BY <1>1
  <1>. HIDE DEF route, base
  <1>6. route \in Seq(DOMAIN asked) /\ DOMAIN route = 1..Len(route)
    BY <1>4 DEF RouteOf
  <1>7. \A i \in DOMAIN route : IsSequence(asked[route[i]])
    BY <1>1, <1>6, ElementOfSeq
  <1>8. LaidOut(s.parts, base, route, asked)
    BY <1>5, <1>6, <1>7, PartsDecode
  <1>9. AskedLayout(sett, schema, s, asked)
    BY <1>1, <1>4, <1>8 DEF AskedLayout, route, base
  <1>. QED BY <1>9

\* A message begins with the base of its event type, and so does a subscription.
LEMMA MessageBase ==
  ASSUME NEW sett, ValidSettings(sett), Accepts(sett), NEW m, MessageFacts(sett, m)
  PROVE  \E parts : /\ DecodeSubject(m.topic) = {parts} /\ Len(parts) \in Nat
                    /\ parts[1] = <<OwnBase(sett, m.type)>>
  <1>1. CASE m.type \in DOMAIN sett.schema
    <2> DEFINE schema == sett.schema[m.type]
               published == Published(schema, m)
               own == Base(schema, m.type)
               route == Route(schema, published)
               parts == PartsOf(own, route, published)
    <2>1. schema = sett.schema[m.type] /\ published = Published(schema, m) /\ own = Base(schema, m.type)
          /\ route = Route(schema, published) /\ parts = PartsOf(own, route, published)
      OBVIOUS
    <2>. HIDE DEF schema, published, own, route, parts
    <2>2. DecodeSubject(m.topic) = {parts} /\ LaidOut(parts, own, route, published)
      BY <1>1, <2>1, MessageParts
    <2>3. parts[1] = <<own>> /\ Len(parts) \in Nat
      BY <2>2 DEF LaidOut
    <2>. QED BY <1>1, <2>1, <2>2, <2>3 DEF OwnBase
  <1>2. CASE m.type \notin DOMAIN sett.schema
    <2> DEFINE route == Sorted(DOMAIN m.identifier)
               parts == PartsOf(m.type, route, Texts(m))
    <2>1. m.topic = EncodeSubject(parts) /\ \A f \in DOMAIN m.identifier : IsSequence(Text(m.identifier[f]))
      BY <1>2 DEF MessageFacts
    <2>2. LaidOut(parts, m.type, route, Texts(m))
      BY <2>1, GenericParts
    <2>. HIDE DEF route, parts
    <2>3. DecodeSubject(m.topic) = {parts} /\ parts[1] = <<m.type>> /\ Len(parts) \in Nat
      BY <2>1, <2>2 DEF LaidOut
    <2>. QED BY <1>2, <2>3 DEF OwnBase
  <1>. QED BY <1>1, <1>2

\* Its first token is a name, never an asterisk.
LEMMA SubscriptionBase ==
  ASSUME NEW sett, ValidSettings(sett), Accepts(sett), NEW s, SubscriptionFacts(sett, s)
  PROVE  /\ Len(s.parts) \in Nat /\ 1 \in DOMAIN s.parts /\ s.parts[1] = <<OwnBase(sett, s.type)>>
         /\ OwnBase(sett, s.type) # "*" /\ s.parts[1] # Wildcard
         /\ \E A : s.parts \in Seq(Seq(A))
  <1>1. OwnBase(sett, s.type) # "*"
    BY BasesApart, StreamNameAssumption DEF SubscriptionFacts, ValidTopicBase, OwnBase
  <1>2. ASSUME NEW base, NEW route, NEW params, LaidOut(s.parts, base, route, params)
        PROVE  /\ Len(s.parts) \in Nat /\ 1 \in DOMAIN s.parts /\ s.parts[1] = <<base>>
               /\ \E A : s.parts \in Seq(Seq(A))
    <2>1. Len(route) \in Nat /\ DOMAIN s.parts = 1..(Len(route) + 1) /\ s.parts[1] = <<base>>
      BY <1>2 DEF LaidOut
    <2>2. Len(s.parts) = Len(route) + 1 /\ \E A : s.parts \in Seq(Seq(A))
      BY <1>2 DEF LaidOut
    <2>. QED BY <2>1, <2>2
  <1>3. /\ Len(s.parts) \in Nat /\ 1 \in DOMAIN s.parts /\ s.parts[1] = <<OwnBase(sett, s.type)>>
        /\ \E A : s.parts \in Seq(Seq(A))
    <2>1. CASE s.type \in DOMAIN sett.schema
      <3> DEFINE schema == sett.schema[s.type]
      <3>1. PICK asked : AskedLayout(sett, schema, s, asked)
        BY <2>1, AskedParts
      <3>2. LaidOut(s.parts, Base(schema, s.type), Route(schema, asked), asked)
        BY <3>1 DEF AskedLayout
      <3>3. OwnBase(sett, s.type) = Base(schema, s.type)
        BY <2>1 DEF OwnBase
      <3>. HIDE DEF schema
      <3>. QED BY <1>2, <3>2, <3>3
    <2>2. CASE s.type \notin DOMAIN sett.schema
      <3>1. PICK params :
              /\ \A f \in DOMAIN params : IsSequence(params[f])
              /\ params = Texts(s) /\ s.parts = PartsOf(s.type, Sorted(DOMAIN params), params)
        BY <2>2 DEF SubscriptionFacts
      <3>2. DOMAIN params = DOMAIN s.identifier /\ \A f \in DOMAIN s.identifier : IsSequence(Text(s.identifier[f]))
        BY <3>1 DEF Texts
      <3>3. LaidOut(s.parts, s.type, Sorted(DOMAIN s.identifier), Texts(s))
        BY <3>1, <3>2, GenericParts
      <3>4. OwnBase(sett, s.type) = s.type
        BY <2>2 DEF OwnBase
      <3>. QED BY <1>2, <3>3, <3>4
    <2>. QED BY <2>1, <2>2
  <1>4. <<OwnBase(sett, s.type)>> # Wildcard
    BY <1>1 DEF Wildcard
  <1>. QED BY <1>1, <1>3, <1>4

\* A subscription whose pattern lets a message through is one for its event type or
\* for a namesake.
LEMMA SameBase ==
  ASSUME NEW sett, ValidSettings(sett), Accepts(sett), NEW m, MessageFacts(sett, m),
         NEW s, SubscriptionFacts(sett, s), MatchesWatchPattern(s.parts, m.topic)
  PROVE  OwnBase(sett, s.type) = OwnBase(sett, m.type)
  <1> DEFINE own == OwnBase(sett, m.type)
             base == OwnBase(sett, s.type)
  <1>1. PICK parts : DecodeSubject(m.topic) = {parts} /\ parts[1] = <<own>>
    BY MessageBase
  <1>2. 1 \in DOMAIN s.parts /\ s.parts[1] = <<base>> /\ base # "*"
    BY SubscriptionBase
  <1>. HIDE DEF own, base
  <1>3. s.parts[1] \in {Wildcard, parts[1]}
    BY <1>1, <1>2 DEF MatchesWatchPattern
  <1>4. base = own
    <2>1. <<base>> = <<"*">> \/ <<base>> = <<own>>
      BY <1>1, <1>2, <1>3 DEF Wildcard
    <2>2. \A x, y : <<x>> = <<y>> => x = y
      OBVIOUS
    <2>. QED BY <1>2, <2>1, <2>2
  <1>. QED BY <1>4 DEF base, own

\* On an event type with the ECPDS plugin, the match key is a field of every
\* message, with a token of its own.
LEMMA MatchKeyRouted ==
  ASSUME NEW sett, Accepts(sett), NEW type \in EcpdsStreams(sett)
  PROVE  /\ type \in DOMAIN sett.schema
         /\ ValidateMatchKey(sett.schema[type], Only(sett.ecpds).match_key)
         /\ Only(sett.ecpds).match_key # "polygon"
  <1>1. type \in DOMAIN sett.schema
    BY DEF EcpdsStreams
  <1>2. "ecpds" \in Features
    <2>1. PICK auth \in sett.schema[type].auth : \E plugins \in auth.plugins : "ecpds" \in plugins
      BY DEF EcpdsStreams
    <2>2. PICK plugins \in auth.plugins : "ecpds" \in plugins
      BY <2>1
    <2>3. ValidateStreamPlugins(sett.schema[type])
      BY <1>1 DEF Accepts
    <2>4. plugins \subseteq {"ecpds"} \cap Features
      BY <2>3 DEF ValidateStreamPlugins
    <2>. QED BY <2>2, <2>4
  <1>3. sett.ecpds # {} /\ \A e \in sett.ecpds : e.match_key # "polygon" /\ \A t \in EcpdsStreams(sett) :
          ValidateMatchKey(sett.schema[t], e.match_key)
    <2>1. ValidateEcpds(sett) /\ EcpdsStreams(sett) # {}
      BY DEF Accepts
    <2>. HIDE DEF EcpdsStreams
    <2>2. sett.ecpds # {}
      BY <1>2, <2>1 DEF ValidateEcpds
    <2>3. ASSUME NEW e \in sett.ecpds, NEW t \in EcpdsStreams(sett)
          PROVE  ValidateMatchKey(sett.schema[t], e.match_key)
      BY <1>2, <2>1 DEF ValidateEcpds
    <2>4. \A e \in sett.ecpds : e.match_key # "polygon"
      BY <1>2, <2>1 DEF ValidateEcpds
    <2>. QED BY <2>2, <2>3, <2>4
  <1>4. Only(sett.ecpds) \in sett.ecpds
    BY <1>3 DEF Only
  <1>. QED BY <1>1, <1>3, <1>4

\* A message that the token-wise pattern of a checked subscription lets through is
\* for the destination that was checked.  One to any other event type lets none through,
\* but for a namesake.
LEMMA CheckedDestination ==
  ASSUME Wildcard \notin Granted,
         NEW sett, ValidSettings(sett), Accepts(sett), NEW m, MessageFacts(sett, m),
         m.type \in EcpdsStreams(sett), NEW s, SubscriptionFacts(sett, s),
         ~Namesakes(sett, s.type, m.type), MatchesWatchPattern(s.parts, m.topic)
  PROVE  Only(Canonical(sett.schema[m.type].identifier[Only(sett.ecpds).match_key],
                        m.identifier[Only(sett.ecpds).match_key])) \in Granted
  <1> DEFINE schema == sett.schema[m.type]
             key == Only(sett.ecpds).match_key
             published == Published(schema, m)
             own == Base(schema, m.type)
             route == Route(schema, published)
             parts == PartsOf(own, route, published)
  <1>1. /\ m.type \in DOMAIN sett.schema /\ key \in DOMAIN schema.identifier
        /\ \A t \in schema.topic : Routes(t, key)
    BY MatchKeyRouted DEF ValidateMatchKey
  <1>2. s.type = m.type
    BY SameBase DEF Namesakes
  <1>3. PICK asked : AskedLayout(sett, schema, s, asked)
    BY <1>1, <1>2, AskedParts
  <1> DEFINE other == Route(schema, asked)
  <1>4. /\ DOMAIN schema.identifier \subseteq DOMAIN asked /\ asked[key] \in Granted
        /\ LaidOut(s.parts, own, other, asked)
    BY <1>2, <1>3 DEF AskedLayout, AskedTexts
  <1>5. /\ DecodeSubject(m.topic) = {parts} /\ LaidOut(parts, own, route, published)
        /\ RouteOf(route, schema, published) /\ DOMAIN published = DOMAIN schema.identifier
        /\ DOMAIN published = DOMAIN m.identifier
    <2>1. schema = sett.schema[m.type] /\ published = Published(schema, m) /\ own = Base(schema, m.type)
          /\ route = Route(schema, published) /\ parts = PartsOf(own, route, published)
      OBVIOUS
    <2>2. m.type \in DOMAIN sett.schema
      BY <1>1
    <2>. HIDE DEF schema, published, own, route, parts
    <2>. QED BY <2>1, <2>2, MessageParts
  <1>6. published[key] = Only(Canonical(schema.identifier[key], m.identifier[key]))
    <2>1. key \in DOMAIN m.identifier
      BY <1>1, <1>5
    <2>. HIDE DEF schema, key
    <2>. QED BY <2>1 DEF Published
  <1>7. route = other \/ schema.topic = {}
    BY DEF Route
  <1>8. schema.topic = {} => route = Sorted(DOMAIN published) /\ other = Sorted(DOMAIN asked)
    BY DEF Route
  <1>. HIDE DEF schema, key, published, own, route, parts
  <1>. HIDE DEF other
  <1>11. Len(parts) = Len(s.parts) /\ \A i \in DOMAIN s.parts : s.parts[i] \in {Wildcard, parts[i]}
    BY <1>5 DEF MatchesWatchPattern
  <1>12. Len(route) = Len(other)
    <2>1. Len(parts) = Len(route) + 1 /\ Len(route) \in Nat
      BY <1>5 DEF LaidOut
    <2>2. Len(s.parts) = Len(other) + 1 /\ Len(other) \in Nat
      BY <1>4 DEF LaidOut
    <2>3. Len(parts) = Len(s.parts)
      BY <1>11
    <2>. QED BY <2>1, <2>2, <2>3
  <1>13. route = other
    <2>1. CASE schema.topic = {}
      <3>1. DOMAIN published \subseteq DOMAIN asked
        BY <1>4, <1>5
      <3>2. Len(Sorted(DOMAIN published)) = Len(Sorted(DOMAIN asked))
        BY <1>8, <1>12, <2>1
      <3>. QED BY <1>8, <2>1, <3>1, <3>2, SortedSame
    <2>. QED BY <1>7, <2>1
  <1>14. PICK i \in DOMAIN route : route[i] = key
    BY <1>1, <1>5 DEF RouteOf, schema, key
  <1>15. s.parts[i + 1] = asked[key] /\ parts[i + 1] = published[key] /\ i + 1 \in DOMAIN s.parts
    <2>1. i \in 1..Len(other) /\ Len(other) \in Nat /\ DOMAIN s.parts = 1..(Len(other) + 1)
      BY <1>4, <1>13 DEF LaidOut
    <2>2. i + 1 \in DOMAIN s.parts
      BY <2>1
    <2>3. s.parts[i + 1] = asked[other[i]]
      BY <1>4, <1>13 DEF LaidOut
    <2>4. parts[i + 1] = published[route[i]]
      BY <1>5 DEF LaidOut
    <2>. QED BY <1>13, <1>14, <2>2, <2>3, <2>4
  <1>16. asked[key] = published[key]
    BY <1>4, <1>11, <1>15 DEF key
  <1>. QED BY <1>4, <1>6, <1>16 DEF key, schema

\* Two messages of one event type have the same subject exactly if their routed
\* fields have the same texts.
LEMMA SameTopicSameTexts ==
  ASSUME NEW sett, ValidSettings(sett), Accepts(sett),
         NEW m, MessageFacts(sett, m), NEW n, MessageFacts(sett, n),
         m.type = n.type, m.type \in DOMAIN sett.schema, NEW schema, schema = sett.schema[m.type]
  PROVE  m.topic = n.topic <=>
           \A f \in DOMAIN schema.identifier :
             (\A t \in schema.topic : Routes(t, f)) => Published(schema, m)[f] = Published(schema, n)[f]
  <1> DEFINE mine == Published(schema, m)
             yours == Published(schema, n)
             own == Base(schema, m.type)
             route == Route(schema, mine)
             other == Route(schema, yours)
             left == PartsOf(own, route, mine)
             right == PartsOf(own, other, yours)
  <1>1. /\ DecodeSubject(m.topic) = {left} /\ LaidOut(left, own, route, mine)
        /\ RouteOf(route, schema, mine) /\ DOMAIN mine = DOMAIN schema.identifier
    <2>1. mine = Published(schema, m) /\ own = Base(schema, m.type)
          /\ route = Route(schema, mine) /\ left = PartsOf(own, route, mine)
      OBVIOUS
    <2>. HIDE DEF mine, own, route, left
    <2>. QED BY <2>1, MessageParts
  <1>2. /\ DecodeSubject(n.topic) = {right} /\ LaidOut(right, own, other, yours)
        /\ RouteOf(other, schema, yours) /\ DOMAIN yours = DOMAIN schema.identifier
    <2>1. yours = Published(schema, n) /\ own = Base(schema, n.type) /\ schema = sett.schema[n.type]
          /\ other = Route(schema, yours) /\ right = PartsOf(own, other, yours) /\ n.type \in DOMAIN sett.schema
      OBVIOUS
    <2>. HIDE DEF yours, own, other, right
    <2>. QED BY <2>1, MessageParts
  <1>3. m.topic = EncodeSubject(left) /\ n.topic = EncodeSubject(right)
    BY DEF MessageFacts
  <1>4. route = other
    BY <1>1, <1>2 DEF Route
  <1>. HIDE DEF mine, yours, own, route, other, left, right
  <1>5. m.topic = n.topic <=> left = right
    BY <1>1, <1>2, <1>3
  <1>6. left = right <=> \A i \in DOMAIN route : mine[route[i]] = yours[route[i]]
    <2>1. ASSUME left = right, NEW i \in DOMAIN route PROVE mine[route[i]] = yours[route[i]]
      BY <1>1, <1>2, <1>4, <2>1 DEF LaidOut
    <2>2. ASSUME \A i \in DOMAIN route : mine[route[i]] = yours[route[i]] PROVE left = right
      <3>1. [i \in DOMAIN route |-> mine[route[i]]] = [i \in DOMAIN other |-> yours[other[i]]]
        BY <1>4, <2>2
      <3>. QED BY <3>1 DEF left, right, PartsOf
    <2>. QED BY <2>1, <2>2
  <1>7. (\A i \in DOMAIN route : mine[route[i]] = yours[route[i]]) <=>
          \A f \in DOMAIN schema.identifier :
            (\A t \in schema.topic : Routes(t, f)) => mine[f] = yours[f]
    <2>1. ASSUME \A i \in DOMAIN route : mine[route[i]] = yours[route[i]],
                 NEW f \in DOMAIN schema.identifier, \A t \in schema.topic : Routes(t, f)
          PROVE  mine[f] = yours[f]
      <3>1. PICK i \in DOMAIN route : route[i] = f
        BY <1>1, <2>1 DEF RouteOf
      <3>. QED BY <2>1, <3>1
    <2>2. ASSUME \A f \in DOMAIN schema.identifier :
                   (\A t \in schema.topic : Routes(t, f)) => mine[f] = yours[f],
                 NEW i \in DOMAIN route
          PROVE  mine[route[i]] = yours[route[i]]
      <3>1. route[i] \in DOMAIN schema.identifier
        <4>1. route \in Seq(DOMAIN schema.identifier) /\ DOMAIN route = 1..Len(route)
          BY <1>1 DEF RouteOf
        <4>. QED BY <4>1, ElementOfSeq
      <3>2. \A t \in schema.topic : Routes(t, route[i])
        BY <1>1, <3>1 DEF RouteOf
      <3>. QED BY <2>2, <3>1, <3>2
    <2>. QED BY <2>1, <2>2
  <1>. QED BY <1>5, <1>6, <1>7 DEF mine, yours

-----------------------------------------------------------------------------
(* The event made of a message.                                             *)

\* The metadata of a message are the texts of its spatial fields.
GeometryOf(schema, m) ==
  /\ {x.field : x \in m.metadata} = {f \in DOMAIN schema.identifier : Spatial(schema.identifier[f])}
  /\ \A f \in {x.field : x \in m.metadata} :
       <<ToString(Only(m.metadata).geometry)>> = Published(schema, m)[f]

\* The geometry stored with a message is that of its one spatial field.
LEMMA StoredGeometry ==
  ASSUME NEW sett, Accepts(sett), NEW m, MessageFacts(sett, m),
         m.type \in DOMAIN sett.schema, NEW schema, schema = sett.schema[m.type]
  PROVE  GeometryOf(schema, m)
  <1> DEFINE fields == {f \in DOMAIN schema.identifier : Spatial(schema.identifier[f])}
             of(f) == {[box |-> BoundingBox(g), field |-> f, geometry |-> g] :
                         g \in Geometry(schema.identifier[f], m.identifier[f])}
             one(f, g) == [box |-> BoundingBox(g), field |-> f, geometry |-> g]
  <1>1. /\ DOMAIN m.identifier = DOMAIN schema.identifier
        /\ \A f \in DOMAIN m.identifier : Canonical(schema.identifier[f], m.identifier[f]) # {}
        /\ m.metadata = UNION {of(f) : f \in fields}
    BY DEF MessageFacts, SpatialMetadata
  <1>2. \A f, g \in fields : f = g
    <2>1. ValidateSpatialSchema(schema)
      BY DEF Accepts
    <2>2. \A f \in fields : f = "polygon" \/ f = "point_cloud"
      BY <2>1 DEF ValidateSpatialSchema, Spatial
    <2>3. ~("polygon" \in fields /\ "point_cloud" \in fields)
      BY <2>1 DEF ValidateSpatialSchema
    <2>. HIDE DEF fields
    <2>. QED BY <2>2, <2>3
  <1>3. ASSUME NEW f \in fields
        PROVE  \E g : of(f) = {one(f, g)} /\ Published(schema, m)[f] = <<ToString(g)>>
    <2> DEFINE v == m.identifier[f]
               rule == schema.identifier[f]
    <2>1. rule.type \in {"PolygonHandler", "PointCloudHandler"}
      BY DEF Spatial
    <2>. HIDE DEF v, rule
    <2>2. Canonical(rule, v) = {<<ToString(g)>> : g \in Geometry(rule, v)}
      BY <2>1 DEF Canonical
    <2>3. Geometry(rule, v) # {}
      BY <1>1, <2>2 DEF rule, v
    <2>4. Geometry(rule, v) = {v.positions}
      BY <2>1, <2>3 DEF Geometry, PolygonHandler, PointCloudHandler, When
    <2>5. of(f) = {one(f, v.positions)}
      BY <2>4 DEF rule, v
    <2>6. Canonical(rule, v) = {<<ToString(v.positions)>>}
      BY <2>2, <2>4
    <2>7. Published(schema, m)[f] = Only(Canonical(rule, v))
      BY <1>1 DEF Published, rule, v
    <2>. HIDE DEF of, one
    <2>. QED BY <2>5, <2>6, <2>7, OnlyOne
  <1>4. \A f, g : one(f, g).field = f /\ one(f, g).geometry = g
    OBVIOUS
  <1>. HIDE DEF of, one, fields
  <1>5. ASSUME NEW f \in fields
        PROVE  /\ {x.field : x \in m.metadata} = {f}
               /\ <<ToString(Only(m.metadata).geometry)>> = Published(schema, m)[f]
    <2>1. PICK g : of(f) = {one(f, g)} /\ Published(schema, m)[f] = <<ToString(g)>>
      BY <1>3
    <2>2. fields = {f}
      BY <1>2
    <2>3. m.metadata = {one(f, g)}
      BY <1>1, <2>1, <2>2
    <2>4. Only(m.metadata) = one(f, g)
      BY <2>3, OnlyOne
    <2>5. {x.field : x \in m.metadata} = {f}
      BY <1>4, <2>3
    <2>. QED BY <1>4, <2>1, <2>4, <2>5
  <1>6. {x.field : x \in m.metadata} = fields
    <2>1. CASE fields = {}
      <3>1. m.metadata = {}
        BY <1>1, <2>1
      <3>. QED BY <2>1, <3>1
    <2>2. CASE fields # {}
      <3>1. PICK f \in fields : TRUE
        BY <2>2
      <3>2. fields = {f}
        BY <1>2, <3>1
      <3>. QED BY <1>5, <3>2
    <2>. QED BY <2>1, <2>2
  <1>7. \A f \in fields : <<ToString(Only(m.metadata).geometry)>> = Published(schema, m)[f]
    BY <1>5
  <1>. QED BY <1>6, <1>7 DEF fields, GeometryOf

\* The fields read back from a message are the ones that were published.
LEMMA EventFields ==
  ASSUME NEW sett, ValidSettings(sett), Accepts(sett), NEW m, MessageFacts(sett, m),
         m.type \in DOMAIN sett.schema, NEW schema, schema = sett.schema[m.type],
         schema.topic # {},
         \A f \in DOMAIN m.identifier : Published(schema, m)[f] \notin {<<>>, Wildcard}
  PROVE  EventIdentifier(schema, m) = Published(schema, m)
  <1> DEFINE params == Published(schema, m)
             route == Route(schema, params)
             base == Base(schema, m.type)
             parts == PartsOf(base, route, params)
             decoded == Only(DecodeSubject(m.topic))
             at(field) == 1 + Only({i \in DOMAIN route : route[i] = field})
             routed == {f \in ToSet(route) : at(f) <= Len(decoded) /\ decoded[at(f)] \notin {<<>>, Wildcard}}
             stored == {x.field : x \in m.metadata}
  <1>1. /\ DecodeSubject(m.topic) = {parts} /\ LaidOut(parts, base, route, params)
        /\ RouteOf(route, schema, params)
        /\ DOMAIN params = DOMAIN schema.identifier /\ DOMAIN params = DOMAIN m.identifier
    <2>1. params = Published(schema, m) /\ base = Base(schema, m.type)
          /\ route = Route(schema, params) /\ parts = PartsOf(base, route, params)
      OBVIOUS
    <2>. HIDE DEF params, base, route, parts
    <2>. QED BY <2>1, MessageParts
  <1>2. Only(schema.topic).key_order = route
    BY DEF Route
  <1>3. EventIdentifier(schema, m) =
          [f \in routed \cup stored |->
             IF f \in stored THEN <<ToString(Only(m.metadata).geometry)>> ELSE decoded[at(f)]]
    BY <1>2 DEF EventIdentifier
  <1>4. \A f \in DOMAIN params : params[f] \notin {<<>>, Wildcard}
    BY <1>1
  <1>. HIDE DEF params, route, base, parts
  <1>5. decoded = parts
    BY <1>1, OnlyOne
  <1>6. ASSUME NEW f \in ToSet(route)
        PROVE  at(f) <= Len(decoded) /\ decoded[at(f)] = params[f] /\ f \in DOMAIN params
    <2>1. PICK i \in DOMAIN route : route[i] = f
      BY DEF ToSet
    <2>2. {j \in DOMAIN route : route[j] = f} = {i}
      BY <1>1, <2>1 DEF RouteOf
    <2>3. at(f) = 1 + i
      BY <2>2, OnlyOne
    <2>4. i \in 1..Len(route) /\ Len(route) \in Nat /\ Len(parts) = Len(route) + 1
      BY <1>1 DEF LaidOut
    <2>5. parts[i + 1] = params[f]
      BY <1>1, <2>1 DEF LaidOut
    <2>6. 1 + i = i + 1 /\ 1 + i <= Len(parts)
      BY <2>4
    <2>7. f \in DOMAIN params
      <3>1. route \in Seq(DOMAIN params) /\ DOMAIN route = 1..Len(route)
        BY <1>1 DEF RouteOf
      <3>. QED BY <2>1, <3>1, ElementOfSeq
    <2>. HIDE DEF at, decoded
    <2>. QED BY <1>5, <2>3, <2>5, <2>6, <2>7
  <1>7. routed = ToSet(route)
    <2>. HIDE DEF at, decoded
    <2>. QED BY <1>4, <1>6
  <1>8. /\ stored = {f \in DOMAIN schema.identifier : Spatial(schema.identifier[f])}
        /\ \A f \in stored : <<ToString(Only(m.metadata).geometry)>> = params[f]
    <2>1. GeometryOf(schema, m)
      BY StoredGeometry
    <2>. QED BY <2>1 DEF GeometryOf, params
  <1>9. ToSet(route) \subseteq DOMAIN schema.identifier
    BY <1>1 DEF RouteOf
  <1>10. \A f \in DOMAIN schema.identifier : f \in ToSet(route) \/ f \in stored
    <2>1. PICK topic \in schema.topic : topic.key_order = route
      BY <1>2 DEF Only
    <2>2. \A f \in DOMAIN schema.identifier : Routes(topic, f) \/ Spatial(schema.identifier[f])
      BY DEF Accepts, ValidateTopicSchema
    <2>. QED BY <1>8, <2>1, <2>2 DEF Routes
  <1>11. params = [f \in DOMAIN schema.identifier |-> params[f]]
    <2>1. params = [f \in DOMAIN m.identifier |-> params[f]]
      BY DEF params, Published
    <2>. QED BY <1>1, <2>1
  <1>12. routed \cup stored = DOMAIN schema.identifier
    BY <1>7, <1>8, <1>9, <1>10
  <1>13. ASSUME NEW f \in DOMAIN schema.identifier
         PROVE  (IF f \in stored THEN <<ToString(Only(m.metadata).geometry)>> ELSE decoded[at(f)]) = params[f]
    <2>1. CASE f \in stored
      BY <1>8, <2>1
    <2>2. CASE f \notin stored
      <3>1. f \in ToSet(route)
        BY <1>10, <2>2
      <3>. QED BY <1>6, <2>2, <3>1
    <2>. QED BY <2>1, <2>2
  <1>. HIDE DEF routed, stored, at, decoded
  <1>14. EventIdentifier(schema, m) = params
    BY <1>3, <1>11, <1>12, <1>13
  <1>. QED BY <1>14 DEF params

\* Nobody else owns the topic base of an event type, and only a topic block makes
\* an owner.
LEMMA OwnersWithBase ==
  ASSUME ValidSettings(settings), Accepts(settings), NEW type \in DOMAIN settings.schema
  PROVE  \A other \in Owners(<<Base(settings.schema[type], type)>>) :
           other = type /\ settings.schema[other].topic # {}
  <1> DEFINE sett == settings
             base == Base(sett.schema[type], type)
  <1>1. schemas = sett.schema
    BY DEF schemas
  <1>2. \A x, y : <<x>> = <<y>> => x = y
    OBVIOUS
  <1>3. \A other \in DOMAIN sett.schema : \A t \in sett.schema[other].topic :
          t.base = Base(sett.schema[other], other)
    <2>1. ASSUME NEW other \in DOMAIN sett.schema, NEW t \in sett.schema[other].topic
          PROVE  t.base = Base(sett.schema[other], other)
      <3>1. ValidSchema(sett.schema[other]) /\ sett.schema[other].topic # {}
        BY DEF ValidSettings
      <3> DEFINE u == Only(sett.schema[other].topic)
      <3>2. u \in sett.schema[other].topic
        BY <3>1 DEF Only
      <3>3. u = t
        BY <3>1, <3>2 DEF ValidSchema
      <3>4. Base(sett.schema[other], other) = u.base
        BY <3>1 DEF Base, Only
      <3>. QED BY <3>3, <3>4
    <2>. QED BY <2>1
  <1>4. ASSUME NEW other \in Owners(<<base>>) PROVE other = type /\ sett.schema[other].topic # {}
    <2>1. other \in DOMAIN sett.schema /\ \E t \in sett.schema[other].topic : <<t.base>> = <<base>>
      BY <1>1 DEF Owners
    <2>2. Base(sett.schema[other], other) = base
      <3>. HIDE DEF base, sett
      <3>. QED BY <1>2, <1>3, <2>1
    <2>3. Accepts(sett) /\ type \in DOMAIN sett.schema
      OBVIOUS
    <2>. HIDE DEF sett
    <2>. QED BY <2>1, <2>2, <2>3, BasesApart DEF base
  <1>. QED BY <1>4

\* The one event type that owns a topic base.
LEMMA OwnersOf ==
  ASSUME ValidSettings(settings), Accepts(settings), NEW type \in DOMAIN settings.schema,
         settings.schema[type].topic # {}
  PROVE  Owners(<<Base(settings.schema[type], type)>>) = {type}
  <1>1. settings.schema[type].topic
          = {Only(settings.schema[type].topic)} /\ schemas = settings.schema
    BY DEF ValidSettings, ValidSchema, Only, schemas
  <1>2. Base(settings.schema[type], type) = Only(settings.schema[type].topic).base
    BY DEF Base, Only
  <1>3. type \in Owners(<<Base(settings.schema[type], type)>>)
    BY <1>1, <1>2 DEF Owners
  <1>. QED BY <1>3, OwnersWithBase

\* The event of a message is of the event type that it was published for.
LEMMA EventOfMessage ==
  ASSUME ValidSettings(settings), Accepts(settings), NEW m, MessageFacts(settings, m),
         HasSchema(m.type), schemas[m.type].topic # {},
         \A f \in DOMAIN m.identifier : Published(schemas[m.type], m)[f] \notin {<<>>, Wildcard}
  PROVE  CloudEvent(m) = {[type |-> m.type, identifier |-> Published(schemas[m.type], m)]}
  <1> DEFINE sett == settings
             schema == sett.schema[m.type]
             params == Published(schema, m)
             base == Base(schema, m.type)
  <1>1. schemas = sett.schema /\ m.type \in DOMAIN sett.schema
    BY DEF schemas, HasSchema
  <1>2. PICK parts : DecodeSubject(m.topic) = {parts} /\ parts[1] = <<base>>
    <2>2. ValidSettings(sett) /\ Accepts(sett) /\ MessageFacts(sett, m)
      OBVIOUS
    <2>3. OwnBase(sett, m.type) = base
      BY <1>1 DEF OwnBase
    <2>. HIDE DEF sett, base
    <2>. QED BY <2>2, <2>3, MessageBase
  <1>5. Owners(<<base>>) = {m.type}
    BY <1>1, OwnersOf
  <1>6. UNION {Owners(decoded[1]) : decoded \in DecodeSubject(m.topic)} = {m.type}
    <2>. HIDE DEF base, sett
    <2>. QED BY <1>2, <1>5
  <1>7. EventIdentifier(schemas[m.type], m) = params
    <2>1. ValidSettings(sett) /\ Accepts(sett) /\ MessageFacts(sett, m) /\ schema.topic # {}
      BY <1>1
    <2>2. \A f \in DOMAIN m.identifier : Published(schema, m)[f] \notin {<<>>, Wildcard}
      BY <1>1
    <2>3. schema = sett.schema[m.type]
      OBVIOUS
    <2>. HIDE DEF sett, schema
    <2>. QED BY <1>1, <2>1, <2>2, <2>3, EventFields
  <1>8. params = Published(schemas[m.type], m)
    BY <1>1
  <1>. HIDE DEF params, sett
  <1>. QED BY <1>6, <1>7, <1>8 DEF CloudEvent

-----------------------------------------------------------------------------
(* What a request becomes.                                                  *)

\* A message is one of the notifications of its scenario.
FromScenario(i, m) ==
  \E n \in Scenarios[i].notifications : n.type = m.type /\ n.identifier = m.identifier

\* Fields are collected when none of them is refused.
LEMMA CollectedElements ==
  ASSUME NEW results, NEW params \in Collected(results)
  PROVE  /\ params = [key \in DOMAIN results |-> Only(results[key])]
         /\ DOMAIN params = DOMAIN results
         /\ \A key \in DOMAIN results : results[key] # {} /\ params[key] \in results[key]
  <1>1. /\ \A key \in DOMAIN results : results[key] # {}
        /\ params = [key \in DOMAIN results |-> Only(results[key])]
    BY DEF Collected, When
  <1>2. \A key \in DOMAIN results : Only(results[key]) \in results[key]
    BY <1>1 DEF Only
  <1>. QED BY <1>1, <1>2

\* The settings of a scenario are of their types.
LEMMA SettingsValid == scenario \in DOMAIN Scenarios => ValidSettings(settings)
  BY ScenariosAssumption DEF ValidSettings, settings

\* Without a schema, scalars are taken as they are.
LEMMA GenericTexts ==
  ASSUME NEW given, \A field \in DOMAIN given : ValidValue(given[field]),
         NEW operation, NEW params \in ProcessGeneric(given, operation)
  PROVE  /\ params = [field \in DOMAIN given |-> Text(given[field])]
         /\ \A field \in DOMAIN given : IsScalar(given[field]) /\ IsSequence(Text(given[field]))
  <1> DEFINE accepted(field) == /\ IsScalar(given[field])
                                /\ operation = "notify" => given[field].form # "empty"
             results == [field \in DOMAIN given |-> When(accepted(field), Text(given[field]))]
  <1>1. params \in Collected(results)
    BY DEF ProcessGeneric
  <1>2. DOMAIN results = DOMAIN given
    OBVIOUS
  <1>3. \A field \in DOMAIN given : results[field] = When(accepted(field), Text(given[field]))
    OBVIOUS
  <1>. HIDE DEF results, accepted
  <1>4. /\ params = [field \in DOMAIN given |-> Only(results[field])]
        /\ \A field \in DOMAIN given : results[field] # {}
    BY <1>1, <1>2, CollectedElements
  <1>5. \A field \in DOMAIN given : accepted(field) /\ Only(results[field]) = Text(given[field])
    BY <1>3, <1>4, OnlyOne DEF When
  <1>6. ASSUME NEW field \in DOMAIN given
        PROVE  IsScalar(given[field]) /\ IsSequence(Text(given[field]))
    <2>1. ValidValue(given[field]) /\ IsScalar(given[field])
      BY <1>5 DEF accepted
    <2>. QED BY <2>1, ScalarTexts
  <1>. QED BY <1>4, <1>5, <1>6

\* A request to notify that is accepted makes a message as MessageFacts says.
LEMMA PublishFacts ==
  ASSUME scenario \in DOMAIN Scenarios,
         NEW n \in Scenarios[scenario].notifications,
         NEW params \in ProcessParams(n.type, n.identifier, n.payload, "notify"),
         NEW topic \in ProcessTopic(n.type, params, "notify"),
         NEW m, m.topic = topic, m.type = n.type, m.identifier = n.identifier,
         m.metadata = IF HasSchema(n.type) THEN SpatialMetadata(schemas[n.type], n.identifier) ELSE {}
  PROVE  MessageFacts(settings, m) /\ FromScenario(scenario, m)
  <1>1. FromScenario(scenario, m)
    BY DEF FromScenario
  <1>4. "point" \notin DOMAIN m.identifier
    BY DEF ProcessParams
  <1>2. ASSUME m.type \in DOMAIN settings.schema PROVE MessageFacts(settings, m)
    <2> DEFINE schema == settings.schema[m.type]
               given == n.identifier
               results == [field \in DOMAIN given |-> Canonical(schema.identifier[field], given[field])]
    <2>1. HasSchema(n.type) /\ schemas[n.type] = schema
      BY <1>2 DEF HasSchema, schemas
    <2>2. params \in ProcessNotify(schema, given, n.payload)
      BY <2>1 DEF ProcessParams
    <2>3. DOMAIN given = DOMAIN schema.identifier /\ params \in Collected(results)
      BY <2>2 DEF ProcessNotify
    <2>4. /\ params = [field \in DOMAIN given |-> Only(results[field])]
          /\ \A field \in DOMAIN given : results[field] # {} /\ params[field] \in results[field]
      <3>1. DOMAIN results = DOMAIN given
        OBVIOUS
      <3>. HIDE DEF results
      <3>. QED BY <2>3, <3>1, CollectedElements
    <2>5. \A field \in DOMAIN given : results[field] = Canonical(schema.identifier[field], given[field])
      OBVIOUS
    <2>. HIDE DEF results
    <2>6. params = Published(schema, m)
      BY <2>4, <2>5 DEF Published
    <2>7. ASSUME NEW field \in DOMAIN given PROVE IsSequence(params[field])
      <3>1. ValidSchema(schema)
        BY <1>2, SettingsValid DEF ValidSettings
      <3>2. ValidRule(schema.identifier[field])
        BY <2>3, <3>1 DEF ValidSchema
      <3>3. ValidValue(given[field])
        BY ScenariosAssumption DEF ValidFields
      <3>4. params[field] \in Canonical(schema.identifier[field], given[field])
        BY <2>4, <2>5
      <3>. QED BY <3>2, <3>3, <3>4, CanonicalTexts
    <2>8. topic \in BuildTopic(n.type, schema, params)
      BY <2>1 DEF ProcessTopic, RoutingParams
    <2>. HIDE DEF schema, given
    <2>9. topic = EncodeSubject(PartsOf(Base(schema, n.type), Route(schema, params), params))
      BY <2>8, TopicsAreRoutes
    <2>10. m.metadata = SpatialMetadata(schema, m.identifier)
      BY <2>1
    <2>11. \A field \in DOMAIN m.identifier :
             Canonical(schema.identifier[field], m.identifier[field]) # {} /\ IsSequence(params[field])
      BY <2>4, <2>5, <2>7 DEF given
    <2>12. DOMAIN m.identifier = DOMAIN schema.identifier
      BY <2>3 DEF given
    <2>. QED BY <1>2, <1>4, <2>6, <2>9, <2>10, <2>11, <2>12 DEF MessageFacts, schema
  <1>3. ASSUME m.type \notin DOMAIN settings.schema PROVE MessageFacts(settings, m)
    <2> DEFINE given == n.identifier
    <2>1. ~HasSchema(n.type)
      BY <1>3 DEF HasSchema, schemas
    <2>2. ~Strict(settings) /\ ValidTopicBase(n.type) /\ params \in ProcessGeneric(given, "notify")
      BY <2>1 DEF ProcessParams
    <2>3. \A field \in DOMAIN given : ValidValue(given[field])
      BY ScenariosAssumption DEF ValidFields
    <2>. HIDE DEF given
    <2>4. /\ params = [field \in DOMAIN given |-> Text(given[field])]
          /\ \A field \in DOMAIN given : IsScalar(given[field]) /\ IsSequence(Text(given[field]))
      BY <2>2, <2>3, GenericTexts
    <2>5. params = Texts(m) /\ DOMAIN params = DOMAIN m.identifier
      BY <2>4 DEF Texts, given
    <2>6. topic = GenericTopic(n.type, params)
      BY <2>1 DEF ProcessTopic
    <2>7. topic = EncodeSubject(PartsOf(m.type, Sorted(DOMAIN m.identifier), Texts(m)))
      BY <2>5, <2>6, TopicsAreRoutes
    <2>8. \A f \in DOMAIN m.identifier : IsSequence(Text(m.identifier[f]))
      BY <2>4 DEF given
    <2>9. m.metadata = {}
      BY <2>1
    <2>. QED BY <1>3, <1>4, <2>2, <2>7, <2>8, <2>9 DEF MessageFacts
  <1>. QED BY <1>1, <1>2, <1>3

\* What the parameters of a watch or a replay are made of.
StreamingParams(schema, given, params) ==
  LET rule == schema.identifier
  IN /\ DOMAIN rule \subseteq DOMAIN params
     /\ DOMAIN params \subseteq DOMAIN rule \cup SpatialFilters(schema)
     /\ DOMAIN given \subseteq DOMAIN rule \cup SpatialFilters(schema) /\ "point_cloud" \notin DOMAIN given
     /\ \A field \in DOMAIN params : IsSequence(params[field])
     /\ \A field \in DOMAIN rule : params[field] \in StreamingField(schema, given, field)
     /\ "point" \in DOMAIN given \ DOMAIN rule => PointHandler(given["point"]) # {}
     /\ "polygon" \in DOMAIN given \ DOMAIN rule => PolygonHandler(given["polygon"]) # {}

\* So process_streaming makes them.
LEMMA StreamingTexts ==
  ASSUME NEW schema, ValidSchema(schema), NEW given,
         \A field \in DOMAIN given : ValidValue(given[field]),
         NEW params \in ProcessStreaming(schema, given)
  PROVE  StreamingParams(schema, given, params)
  <1> DEFINE extra == {f \in {"point", "polygon"} \ DOMAIN schema.identifier : f \in DOMAIN given}
             filter(f) == IF f = "point" THEN {<<ToString(p)>> : p \in PointHandler(given[f])}
                          ELSE {<<ToString(g)>> : g \in PolygonHandler(given[f])}
             D == DOMAIN schema.identifier \cup extra
             results == [field \in D |->
                           IF field \in extra THEN filter(field) ELSE StreamingField(schema, given, field)]
  <1>1. params \in Collected(results)
    BY DEF ProcessStreaming
  <1>2. DOMAIN params = D /\ \A field \in D : params[field] \in results[field]
    <2>1. DOMAIN results = D
      OBVIOUS
    <2>. HIDE DEF results, D
    <2>. QED BY <1>1, <2>1, CollectedElements
  <1>3. \A field \in D : results[field] =
           IF field \in extra THEN filter(field) ELSE StreamingField(schema, given, field)
    OBVIOUS
  <1>4. \A f : \A text \in filter(f) : IsSequence(text)
    BY Tuples
  <1>5. ASSUME NEW field \in DOMAIN schema.identifier, NEW text \in StreamingField(schema, given, field)
        PROVE  IsSequence(text)
    <2>1. IsSequence(Wildcard)
      BY Tuples DEF Wildcard
    <2>2. ASSUME field \in DOMAIN given, text \in Canonical(schema.identifier[field], given[field])
          PROVE  IsSequence(text)
      <3>1. ValidRule(schema.identifier[field])
        BY DEF ValidSchema
      <3>2. ValidValue(given[field])
        BY <2>2
      <3>. QED BY <2>2, <3>1, <3>2, CanonicalTexts
    <2>3. \/ field \in DOMAIN given /\ text \in Canonical(schema.identifier[field], given[field])
          \/ text = Wildcard
      BY DEF StreamingField, When
    <2>. QED BY <2>1, <2>2, <2>3
  <1>6. DOMAIN given \subseteq DOMAIN schema.identifier \cup SpatialFilters(schema)
        /\ "point_cloud" \notin DOMAIN given
    BY DEF ProcessStreaming
  <1>7. /\ \A field \in D : field \notin extra => field \in DOMAIN schema.identifier
        /\ DOMAIN schema.identifier \subseteq D /\ extra \subseteq D
        /\ \A field \in extra : field \notin DOMAIN schema.identifier /\ field \in DOMAIN given
        /\ "point" \in DOMAIN given \ DOMAIN schema.identifier => "point" \in extra
        /\ "polygon" \in DOMAIN given \ DOMAIN schema.identifier => "polygon" \in extra
    OBVIOUS
  <1>8. /\ filter("point") # {} => PointHandler(given["point"]) # {}
        /\ filter("polygon") # {} => PolygonHandler(given["polygon"]) # {}
    OBVIOUS
  <1>. HIDE DEF results, filter, extra, D
  <1>9. \A field \in extra : filter(field) # {}
    BY <1>2, <1>3, <1>7
  <1>10. \A field \in DOMAIN schema.identifier : params[field] \in StreamingField(schema, given, field)
    BY <1>2, <1>3, <1>7
  <1>11. \A field \in DOMAIN params : IsSequence(params[field])
    BY <1>2, <1>3, <1>4, <1>5, <1>7, <1>10
  <1>12. DOMAIN params \subseteq DOMAIN schema.identifier \cup SpatialFilters(schema)
    BY <1>2, <1>6, <1>7
  <1>13. DOMAIN schema.identifier \subseteq DOMAIN params
    BY <1>2, <1>7
  <1>. QED BY <1>6, <1>7, <1>8, <1>9, <1>10, <1>11, <1>12, <1>13 DEF StreamingParams

\* The tokens and the filters that a request with a schema is turned into.
LEMMA StreamingAsked ==
  ASSUME NEW schema, ValidSchema(schema), ValidateSpatialSchema(schema),
         NEW s, NEW params, StreamingParams(schema, s.identifier, params),
         \A field \in DOMAIN s.identifier : ValidValue(s.identifier[field]),
         s.constraints = [f \in {g \in DOMAIN s.identifier : s.identifier[g].form = "object"} |->
                            Only(ParseConstraint(schema.identifier[f], s.identifier[f]))],
         s.filters = FilterFields(s.identifier),
         s.point = UNION {PointHandler(s.identifier[f]) : f \in {"point"} \cap DOMAIN s.identifier},
         s.polygon = UNION {PolygonHandler(s.identifier[f]) : f \in {"polygon"} \cap DOMAIN s.identifier},
         "point" \in DOMAIN s.identifier => PointHandler(s.identifier["point"]) # {}
  PROVE  AskedFilters(schema, s)
  <1> DEFINE rule == schema.identifier
             given == s.identifier
  <1>1. /\ DOMAIN given \subseteq DOMAIN rule \cup SpatialFilters(schema) /\ "point_cloud" \notin DOMAIN given
        /\ \A field \in DOMAIN rule : params[field] \in StreamingField(schema, given, field)
        /\ "polygon" \in DOMAIN given \ DOMAIN rule => PolygonHandler(given["polygon"]) # {}
    BY DEF StreamingParams
  <1>2. \A field \in DOMAIN rule :
          /\ field = "polygon" <=> rule[field].type = "PolygonHandler"
          /\ field = "point_cloud" <=> rule[field].type = "PointCloudHandler"
    BY DEF ValidateSpatialSchema
  <1>3. \A field \in DOMAIN rule \cap DOMAIN given :
          IF given[field].form = "object" THEN ParseConstraint(rule[field], given[field]) # {}
          ELSE Canonical(rule[field], given[field]) # {}
    BY <1>1 DEF StreamingField
  <1>4. \A r, v : ParseConstraint(r, v) # {} => ~Spatial(r)
    BY ZenonT(60) DEF ParseConstraint, Spatial
  <1>5. SpatialFilters(schema) \subseteq {"point", "polygon"}
        /\ ("point" \in SpatialFilters(schema) => "polygon" \in DOMAIN rule)
        /\ ("polygon" \in SpatialFilters(schema) => HasPointCloud(schema))
    BY DEF SpatialFilters
  <1>6. HasPointCloud(schema) => "point_cloud" \in DOMAIN rule
    BY <1>2 DEF HasPointCloud
  <1>7. PointHandler(given["point"]) # {} =>
          given["point"].form = "position" /\ PointHandler(given["point"]) = {given["point"].at}
    BY DEF PointHandler, When
  <1>8. PolygonHandler(given["polygon"]) # {} =>
          given["polygon"].form = "ring" /\ PolygonHandler(given["polygon"]) = {given["polygon"].positions}
    BY DEF PolygonHandler, When
  <1>9. "point" \in DOMAIN given => "polygon" \in DOMAIN rule \/ "point" \in DOMAIN rule
    BY <1>1, <1>5
  <1>10. ASSUME "polygon" \in DOMAIN given
         PROVE  /\ PolygonHandler(given["polygon"]) # {}
                /\ "polygon" \in DOMAIN rule \/ "point_cloud" \in DOMAIN rule
    <2>1. CASE "polygon" \in DOMAIN rule
      <3>1. rule["polygon"].type = "PolygonHandler"
        BY <1>2, <2>1
      <3>2. Spatial(rule["polygon"])
        BY <3>1 DEF Spatial
      <3>3. Canonical(rule["polygon"], given["polygon"]) # {}
        BY <1>3, <1>4, <1>10, <2>1, <3>2
      <3>4. Geometry(rule["polygon"], given["polygon"]) # {}
        BY <3>1, <3>3 DEF Canonical
      <3>. QED BY <2>1, <3>1, <3>4 DEF Geometry
    <2>2. CASE "polygon" \notin DOMAIN rule
      BY <1>1, <1>5, <1>6, <1>10, <2>2
    <2>. QED BY <2>1, <2>2
  <1>11. IF "point" \in DOMAIN given
         THEN /\ s.point = {given["point"].at} /\ s.point = PointHandler(given["point"])
              /\ "polygon" \in DOMAIN rule \/ "point" \in DOMAIN rule
         ELSE s.point = {}
    <2>1. CASE "point" \in DOMAIN given
      <3>1. s.point = PointHandler(given["point"])
        BY <2>1
      <3>. QED BY <1>7, <1>9, <2>1, <3>1
    <2>2. CASE "point" \notin DOMAIN given
      <3>1. {"point"} \cap DOMAIN given = {}
        BY <2>2
      <3>2. s.point = {}
        BY <3>1
      <3>. QED BY <2>2, <3>2
    <2>. QED BY <2>1, <2>2
  <1>12. IF "polygon" \in DOMAIN given
         THEN /\ s.polygon = {given["polygon"].positions} /\ s.polygon = PolygonHandler(given["polygon"])
              /\ "polygon" \in DOMAIN rule \/ "point_cloud" \in DOMAIN rule
         ELSE s.polygon = {}
    <2>1. CASE "polygon" \in DOMAIN given
      <3>1. s.polygon = PolygonHandler(given["polygon"])
        BY <2>1
      <3>. QED BY <1>8, <1>10, <2>1, <3>1
    <2>2. CASE "polygon" \notin DOMAIN given
      <3>1. {"polygon"} \cap DOMAIN given = {}
        BY <2>2
      <3>2. s.polygon = {}
        BY <3>1
      <3>. QED BY <2>2, <3>2
    <2>. QED BY <2>1, <2>2
  <1>13. ASSUME NEW f \in DOMAIN given, given[f].form = "object"
         PROVE  /\ f \in DOMAIN rule /\ ~Spatial(rule[f])
                /\ Only(ParseConstraint(rule[f], given[f])) \in ParseConstraint(rule[f], given[f])
    <2>1. f \in DOMAIN rule
      <3>1. f = "point" => given[f].form = "position"
        BY <1>7
      <3>2. f = "polygon" => given[f].form = "ring"
        BY <1>8, <1>10
      <3>3. f \notin {"point", "polygon"}
        BY <1>13, <3>1, <3>2
      <3>. QED BY <1>1, <1>5, <3>3
    <2>2. ParseConstraint(rule[f], given[f]) # {}
      BY <1>3, <1>13, <2>1
    <2>. QED BY <1>4, <2>1, <2>2 DEF Only
  <1>14. DOMAIN s.constraints = {f \in DOMAIN given : given[f].form = "object"}
         /\ \A f \in DOMAIN s.constraints : s.constraints[f] = Only(ParseConstraint(rule[f], given[f]))
    OBVIOUS
  <1>15. \A f \in DOMAIN s.constraints :
           /\ f \in DOMAIN rule /\ ~Spatial(rule[f])
           /\ s.constraints[f] \in ParseConstraint(rule[f], given[f])
    BY <1>13, <1>14
  <1>16. s.filters = {"point", "polygon"} \cap DOMAIN given
    <2>1. "point" \in DOMAIN given => given["point"].form # "word"
      BY <1>7
    <2>2. "polygon" \in DOMAIN given => given["polygon"].form # "word"
      BY <1>8, <1>10
    <2>3. s.filters = FilterFields(given)
      OBVIOUS
    <2>. HIDE DEF given
    <2>. QED BY <2>1, <2>2, <2>3 DEF FilterFields
  <1>. QED BY <1>11, <1>12, <1>14, <1>15, <1>16 DEF AskedFilters

\* The routed texts: a polygon that is routed on is left out.
RoutedTexts(schema, s, params, asked) ==
  /\ AskedTexts(schema, s, asked)
  /\ \A field \in DOMAIN asked : IsSequence(asked[field])
  /\ \A field \in DOMAIN params : field # "polygon" => asked[field] = params[field]

\* A polygon that is routed on is left out of the tokens.
LEMMA StreamingRouted ==
  ASSUME NEW schema, ValidSchema(schema), ValidateSpatialSchema(schema), ValidateTopicSchema(schema),
         NEW s, NEW params, StreamingParams(schema, s.identifier, params), AskedFilters(schema, s),
         NEW asked,
         asked = IF \E t \in schema.topic : Routes(t, "polygon")
                 THEN RoutingParams(params, "watch") ELSE params
  PROVE  RoutedTexts(schema, s, params, asked)
  <1> DEFINE rule == schema.identifier
             given == s.identifier
  <1>1. /\ DOMAIN rule \subseteq DOMAIN params /\ DOMAIN params \subseteq DOMAIN rule \cup SpatialFilters(schema)
        /\ \A field \in DOMAIN params : IsSequence(params[field])
        /\ \A field \in DOMAIN rule : params[field] \in StreamingField(schema, given, field)
    BY DEF StreamingParams
  <1>2. /\ DOMAIN asked = DOMAIN params
        /\ \A field \in DOMAIN params : field # "polygon" => asked[field] = params[field]
        /\ \A field \in DOMAIN params : asked[field] \in {Wildcard, params[field]}
        /\ ((\E t \in schema.topic : Routes(t, "polygon")) /\ "polygon" \in DOMAIN params) =>
             asked["polygon"] = Wildcard
    BY DEF RoutingParams
  <1>3. IsSequence(Wildcard)
    BY Tuples DEF Wildcard
  <1>4. \A field \in DOMAIN rule :
          /\ Spatial(rule[field]) <=> field \in {"polygon", "point_cloud"}
          /\ \A t \in schema.topic : ~Routes(t, "point_cloud")
    BY DEF ValidateSpatialSchema, ValidateTopicSchema, Spatial
  <1>5. ASSUME NEW f \in DOMAIN rule
        PROVE  IF f \notin DOMAIN given THEN asked[f] = Wildcard
               ELSE IF Spatial(rule[f]) THEN (\E t \in schema.topic : Routes(t, f)) => asked[f] = Wildcard
               ELSE IF given[f].form = "object" THEN asked[f] = Wildcard
               ELSE asked[f] \in Canonical(rule[f], given[f])
    <2>1. CASE f \notin DOMAIN given
      <3>1. params[f] = Wildcard
        BY <1>1, <2>1 DEF StreamingField, When
      <3>. QED BY <1>1, <1>2, <2>1, <3>1
    <2>2. CASE f \in DOMAIN given /\ Spatial(rule[f])
      <3>1. ASSUME \E t \in schema.topic : Routes(t, f) PROVE asked[f] = Wildcard
        <4>1. f = "polygon"
          BY <1>4, <2>2, <3>1
        <4>. QED BY <1>1, <1>2, <3>1, <4>1
      <3>. QED BY <2>2, <3>1
    <2>3. CASE f \in DOMAIN given /\ ~Spatial(rule[f])
      <3>1. asked[f] = params[f]
        BY <1>1, <1>2, <1>4, <2>3
      <3>2. IF given[f].form = "object" THEN params[f] = Wildcard
            ELSE params[f] \in Canonical(rule[f], given[f])
        BY <1>1, <2>3 DEF StreamingField
      <3>. QED BY <2>3, <3>1, <3>2
    <2>. QED BY <2>1, <2>2, <2>3
  <1>6. \A field \in DOMAIN asked : IsSequence(asked[field])
    BY <1>1, <1>2, <1>3
  <1>7. AskedTexts(schema, s, asked)
    BY <1>1, <1>2, <1>5 DEF AskedTexts
  <1>. QED BY <1>2, <1>6, <1>7 DEF RoutedTexts

\* A request to watch or to replay that is accepted makes a subscription as
\* SubscriptionFacts says.
FromRequests(i, s) ==
  \E r \in Scenarios[i].requests : r.type = s.type /\ r.identifier = s.identifier

\* A request that is accepted makes a subscription as SubscriptionFacts says.
LEMMA SubscribeFacts ==
  ASSUME scenario \in DOMAIN Scenarios, Accepts(settings),
         NEW r \in Scenarios[scenario].requests,
         NEW params \in ProcessParams(r.type, r.identifier, TRUE, "watch"),
         NEW topic \in ProcessTopic(r.type, params, "watch"),
         NEW parts \in DecodeSubject(topic), Admitted(r.type, params),
         NEW s, s.type = r.type, s.identifier = r.identifier, s.parts = parts,
         s.coarse = CoarsePattern(parts),
         s.constraints = [f \in {g \in DOMAIN s.identifier : s.identifier[g].form = "object"} |->
                            Only(ParseConstraint(schemas[s.type].identifier[f], s.identifier[f]))],
         s.filters = FilterFields(s.identifier),
         s.point = UNION {PointHandler(s.identifier[f]) : f \in {"point"} \cap DOMAIN s.identifier},
         s.polygon = UNION {PolygonHandler(s.identifier[f]) : f \in {"polygon"} \cap DOMAIN s.identifier}
  PROVE  SubscriptionFacts(settings, s) /\ FromRequests(scenario, s)
  <1> DEFINE given == s.identifier
             type == s.type
  <1>1. \A field \in DOMAIN given : ValidValue(given[field])
    BY ScenariosAssumption DEF ValidFields
  <1>2. /\ "point" \in DOMAIN given => PointHandler(given["point"]) # {}
        /\ HasSchema(type) => params \in ProcessStreaming(schemas[type], given)
        /\ ~HasSchema(type) =>
             ~Strict(settings) /\ ValidTopicBase(type) /\ params \in ProcessGeneric(given, "watch")
    BY DEF ProcessParams
  <1>3. FromRequests(scenario, s)
    BY DEF FromRequests
  <1>4. s.coarse = CoarsePattern(s.parts)
    OBVIOUS
  <1>5. CASE HasSchema(type)
    <2> DEFINE schema == settings.schema[type]
               base == Base(schema, type)
               asked == IF \E t \in schema.topic : Routes(t, "polygon")
                        THEN RoutingParams(params, "watch") ELSE params
    <2>1. type \in DOMAIN settings.schema /\ schemas[type] = schema
      BY <1>5 DEF HasSchema, schemas
    <2>2. ValidSchema(schema) /\ ValidateTopicSchema(schema) /\ ValidateSpatialSchema(schema)
      <3>1. ValidSchema(schema)
        BY <2>1, SettingsValid DEF ValidSettings
      <3>2. ValidateTopicSchema(schema) /\ ValidateSpatialSchema(schema)
        BY <2>1 DEF Accepts
      <3>. QED BY <3>1, <3>2
    <2>3. params \in ProcessStreaming(schema, s.identifier)
      BY <1>2, <1>5, <2>1
    <2>4. topic \in BuildTopic(type, schema, asked)
      BY <1>5, <2>1 DEF ProcessTopic
    <2>5. asked = IF \E t \in schema.topic : Routes(t, "polygon")
                  THEN RoutingParams(params, "watch") ELSE params
      OBVIOUS
    <2>6. s.constraints = [f \in {g \in DOMAIN s.identifier : s.identifier[g].form = "object"} |->
                             Only(ParseConstraint(schema.identifier[f], s.identifier[f]))]
      BY <2>1
    <2>. HIDE DEF schema, asked
    <2>7. StreamingParams(schema, s.identifier, params)
      BY <1>1, <2>2, <2>3, StreamingTexts
    <2>8. AskedFilters(schema, s)
      BY <1>1, <1>2, <2>2, <2>6, <2>7, StreamingAsked
    <2>9. /\ AskedTexts(schema, s, asked)
          /\ \A field \in DOMAIN asked : IsSequence(asked[field])
          /\ \A field \in DOMAIN params : field # "polygon" => asked[field] = params[field]
      <3>1. RoutedTexts(schema, s, params, asked)
        BY <2>2, <2>5, <2>7, <2>8, StreamingRouted
      <3>. QED BY <3>1 DEF RoutedTexts
    <2> DEFINE route == Route(schema, asked)
    <2>10. RouteOf(route, schema, asked)
      <3>1. DOMAIN schema.identifier \subseteq DOMAIN asked
        BY <2>9 DEF AskedTexts
      <3>. QED BY <2>2, <3>1, RouteFields
    <2>11. topic = EncodeSubject(PartsOf(base, route, asked))
      BY <2>4, TopicsAreRoutes
    <2>. HIDE DEF route, base
    <2>12. route \in Seq(DOMAIN asked) /\ \A i \in DOMAIN route : IsSequence(asked[route[i]])
      <3>1. route \in Seq(DOMAIN asked) /\ DOMAIN route = 1..Len(route)
        BY <2>10 DEF RouteOf
      <3>. QED BY <2>9, <3>1, ElementOfSeq
    <2>13. LaidOut(PartsOf(base, route, asked), base, route, asked)
      BY <2>12, PartsDecode
    <2>14. parts = PartsOf(base, route, asked)
      BY <2>11, <2>13 DEF LaidOut
    <2>15. ASSUME type \in EcpdsStreams(settings) PROVE asked[Only(settings.ecpds).match_key] \in Granted
      <3> DEFINE key == Only(settings.ecpds).match_key
      <3>1. params[key] \in Granted
        BY <2>15 DEF Admitted
      <3>2. ValidateMatchKey(schema, key)
        BY <2>15, MatchKeyRouted DEF schema
      <3>3. key \in DOMAIN params
        BY <2>7, <3>2 DEF ValidateMatchKey, StreamingParams
      <3>4. key # "polygon"
        BY <2>15, MatchKeyRouted
      <3>. HIDE DEF key
      <3>5. asked[key] = params[key]
        BY <2>9, <3>3, <3>4
      <3>. QED BY <3>1, <3>5 DEF key
    <2>16. s.parts = PartsOf(Base(settings.schema[s.type], s.type), Route(settings.schema[s.type], asked), asked)
      BY <2>14 DEF schema, base, route
    <2>17. AskedTexts(settings.schema[s.type], s, asked) /\ AskedFilters(settings.schema[s.type], s)
      BY <2>8, <2>9 DEF schema
    <2>. QED BY <1>3, <1>4, <2>1, <2>9, <2>15, <2>16, <2>17 DEF SubscriptionFacts
  <1>6. CASE ~HasSchema(type)
    <2>1. /\ params = Texts(s)
          /\ \A field \in DOMAIN given : IsScalar(given[field]) /\ IsSequence(Text(given[field]))
      <3>1. params \in ProcessGeneric(given, "watch")
        BY <1>2, <1>6
      <3>. HIDE DEF given
      <3>2. /\ params = [field \in DOMAIN given |-> Text(given[field])]
            /\ \A field \in DOMAIN given : IsScalar(given[field]) /\ IsSequence(Text(given[field]))
        BY <1>1, <3>1, GenericTexts
      <3>. QED BY <3>2 DEF Texts, given
    <2> DEFINE route == Sorted(DOMAIN params)
    <2>2. topic = EncodeSubject(PartsOf(type, route, params))
      <3>1. topic = GenericTopic(type, params)
        BY <1>6 DEF ProcessTopic
      <3>. QED BY <3>1, TopicsAreRoutes
    <2>3. route \in Seq(DOMAIN params \cap ToSet(FieldOrder)) /\ DOMAIN route = 1..Len(route)
      BY SortedNames
    <2>. HIDE DEF route
    <2>4. \A field \in DOMAIN params : IsSequence(params[field])
      BY <2>1 DEF Texts
    <2>5. \A i \in DOMAIN route : IsSequence(params[route[i]])
      BY <2>3, <2>4, ElementOfSeq
    <2>6. LaidOut(PartsOf(type, route, params), type, route, params)
      BY <2>3, <2>5, PartsDecode
    <2>7. parts = PartsOf(type, route, params)
      BY <2>2, <2>6 DEF LaidOut
    <2>8. s.type \notin DOMAIN settings.schema /\ ~Strict(settings) /\ ValidTopicBase(s.type)
      BY <1>2, <1>6 DEF HasSchema, schemas
    <2>9. s.type \notin EcpdsStreams(settings)
      BY <2>8 DEF EcpdsStreams
    <2>10. s.parts = PartsOf(s.type, Sorted(DOMAIN params), params)
      BY <2>7 DEF route
    <2>11. DOMAIN s.constraints = {}
      <3>1. \A g \in DOMAIN given : given[g].form # "object"
        BY <2>1 DEF IsScalar, ScalarForms
      <3>2. DOMAIN s.constraints = {g \in DOMAIN given : given[g].form = "object"}
        OBVIOUS
      <3>. QED BY <3>1, <3>2
    <2>12. s.filters = FilterFields(s.identifier)
      OBVIOUS
    <2>13. \A f \in DOMAIN s.identifier : IsScalar(s.identifier[f])
      BY <2>1
    <2>. QED BY <1>3, <1>4, <2>1, <2>4, <2>8, <2>9, <2>10, <2>11, <2>12, <2>13 DEF SubscriptionFacts
  <1>. QED BY <1>5, <1>6

-----------------------------------------------------------------------------
(* Whether a message that a reader asks for is delivered.                   *)

\* What the conditions say of a message and a subscription of one event type.
Faithful(schema, s, m) ==
  LET rule == schema.identifier
      given == s.identifier
      text(f) == Published(schema, m)[f]
      asks(f) == FieldRequested(rule[f], given[f], m.identifier[f])
  IN /\ \A f \in DOMAIN rule : text(f) \notin {<<>>, Wildcard}
     /\ \A f \in DOMAIN rule \cap DOMAIN given :
          ~Spatial(rule[f]) =>
            IF given[f].form = "object"
            THEN \A c \in ParseConstraint(rule[f], given[f]) : MatchesConstraint(c, text(f)) <=> asks(f)
            ELSE \A asked \in Canonical(rule[f], given[f]) :
                   /\ asked # Wildcard
                   /\ asked = text(f) <=> asks(f) /\ ~OppositeZeros(rule[f], given[f], m.identifier[f])
     /\ schema.topic = {} => DOMAIN rule # {} /\ \A f \in DOMAIN rule : ~Spatial(rule[f])

\* Comparing the boxes first loses no match.
BoxesAgree(schema, s, m) ==
  LET rule == schema.identifier
      given == s.identifier
  IN \A f \in DOMAIN rule :
       Spatial(rule[f]) =>
         \A g \in Geometry(rule[f], m.identifier[f]) :
           /\ "point" \in DOMAIN given =>
                \A p \in PointHandler(given["point"]) :
                  (f = "polygon" /\ Inside(g, p)) => BoxContains(BoundingBox(g), p)
           /\ "polygon" \in DOMAIN given =>
                \A ring \in PolygonHandler(given["polygon"]) :
                  (IF f = "point_cloud" THEN \E p \in ToSet(g) : Covers(ring, p) ELSE RingsIntersect(g, ring))
                    => BoxesIntersect(BoundingBox(g), BoundingBox(ring))

\* Asked for by its meaning, and no zero of the other sign.
Selects(rule, asked, published) ==
  FieldRequested(rule, asked, published) /\ ~OppositeZeros(rule, asked, published)

\* The fields that are asked for by a scalar.
ScalarsRequested(schema, s, m) ==
  \A f \in DOMAIN schema.identifier \cap DOMAIN s.identifier :
    (~Spatial(schema.identifier[f]) /\ s.identifier[f].form # "object") =>
      Selects(schema.identifier[f], s.identifier[f], m.identifier[f])

\* Two texts laid out along one route match token by token.
LEMMA SameRoute ==
  ASSUME NEW subject, NEW parts, DecodeSubject(subject) = {parts}, NEW pattern, NEW base, NEW route,
         NEW params, NEW asked, LaidOut(parts, base, route, params), LaidOut(pattern, base, route, asked)
  PROVE  MatchesWatchPattern(pattern, subject) <=>
           \A i \in DOMAIN route : asked[route[i]] \in {Wildcard, params[route[i]]}
  <1> DEFINE n == Len(route)
  <1>1. /\ n \in Nat /\ DOMAIN route = 1..n /\ DOMAIN parts = 1..(n + 1) /\ DOMAIN pattern = 1..(n + 1)
        /\ Len(parts) = Len(pattern) /\ parts[1] = pattern[1]
        /\ \A i \in 1..n : parts[i + 1] = params[route[i]]
        /\ \A i \in 1..n : pattern[i + 1] = asked[route[i]]
    BY DEF LaidOut
  <1>2. MatchesWatchPattern(pattern, subject) <=> \A i \in 1..(n + 1) : pattern[i] \in {Wildcard, parts[i]}
    BY <1>1 DEF MatchesWatchPattern
  <1>. HIDE DEF n
  <1>3. ASSUME \A i \in 1..(n + 1) : pattern[i] \in {Wildcard, parts[i]}, NEW i \in 1..n
        PROVE  asked[route[i]] \in {Wildcard, params[route[i]]}
    <2>1. i + 1 \in 1..(n + 1)
      BY <1>1
    <2>. QED BY <1>1, <1>3, <2>1
  <1>4. ASSUME \A i \in 1..n : asked[route[i]] \in {Wildcard, params[route[i]]}, NEW i \in 1..(n + 1)
        PROVE  pattern[i] \in {Wildcard, parts[i]}
    <2>1. CASE i = 1
      BY <1>1, <2>1
    <2>2. CASE i # 1
      <3>1. i - 1 \in 1..n /\ (i - 1) + 1 = i
        BY <1>1, <2>2
      <3>2. pattern[i] = asked[route[i - 1]] /\ parts[i] = params[route[i - 1]]
        BY <1>1, <3>1
      <3>. QED BY <1>4, <3>1, <3>2
    <2>. QED BY <2>1, <2>2
  <1>. QED BY <1>1, <1>2, <1>3, <1>4

\* The token-wise pattern compares the fields that are asked for by a scalar.
LEMMA PatternAsAsked ==
  ASSUME NEW sett, ValidSettings(sett), Accepts(sett), NEW m, MessageFacts(sett, m),
         NEW s, SubscriptionFacts(sett, s), s.type = m.type, m.type \in DOMAIN sett.schema,
         NEW schema, schema = sett.schema[m.type], Faithful(schema, s, m)
  PROVE  MatchesWatchPattern(s.parts, m.topic) <=> ScalarsRequested(schema, s, m)
  <1> DEFINE rule == schema.identifier
             given == s.identifier
             published == Published(schema, m)
             own == Base(schema, m.type)
             route == Route(schema, published)
             parts == PartsOf(own, route, published)
  <1>1. ValidSchema(schema) /\ ValidateTopicSchema(schema) /\ ValidateSpatialSchema(schema)
    BY DEF ValidSettings, Accepts
  <1>2. PICK asked : AskedLayout(sett, schema, s, asked)
    BY AskedParts
  <1>3. /\ DecodeSubject(m.topic) = {parts} /\ LaidOut(parts, own, route, published)
        /\ RouteOf(route, schema, published) /\ DOMAIN published = DOMAIN rule
    <2>1. published = Published(schema, m) /\ own = Base(schema, m.type)
          /\ route = Route(schema, published) /\ parts = PartsOf(own, route, published)
      OBVIOUS
    <2>. HIDE DEF published, own, route, parts
    <2>. QED BY <2>1, MessageParts
  <1>4. /\ DOMAIN rule \subseteq DOMAIN asked /\ DOMAIN asked \subseteq DOMAIN rule \cup SpatialFilters(schema)
        /\ \A f \in DOMAIN rule :
             IF f \notin DOMAIN given THEN asked[f] = Wildcard
             ELSE IF Spatial(rule[f]) THEN (\E t \in schema.topic : Routes(t, f)) => asked[f] = Wildcard
             ELSE IF given[f].form = "object" THEN asked[f] = Wildcard
             ELSE asked[f] \in Canonical(rule[f], given[f])
    BY <1>2 DEF AskedLayout, AskedTexts
  <1>5. schema.topic = {} => \A f \in DOMAIN rule : ~Spatial(rule[f])
    BY DEF Faithful
  <1>6. Route(schema, asked) = route
    <2>1. CASE schema.topic = {}
      <3>1. SpatialFilters(schema) = {}
        <4>1. ~HasPointCloud(schema)
          BY <1>5, <2>1 DEF HasPointCloud, Spatial
        <4>2. "polygon" \notin DOMAIN rule
          BY <1>1, <1>5, <2>1 DEF ValidateSpatialSchema, Spatial
        <4>. QED BY <4>1, <4>2 DEF SpatialFilters
      <3>2. DOMAIN asked = DOMAIN published
        BY <1>3, <1>4, <3>1
      <3>. QED BY <2>1, <3>2 DEF Route
    <2>2. CASE schema.topic # {}
      BY <2>2 DEF Route
    <2>. QED BY <2>1, <2>2
  <1>7. LaidOut(s.parts, own, route, asked)
    BY <1>2, <1>6 DEF AskedLayout
  <1>. HIDE DEF published, own, route, parts
  <1>8. MatchesWatchPattern(s.parts, m.topic) <=>
          \A i \in DOMAIN route : asked[route[i]] \in {Wildcard, published[route[i]]}
    BY <1>3, <1>7, SameRoute
  <1> DEFINE routed(f) == \A t \in schema.topic : Routes(t, f)
  <1>9. \A f \in DOMAIN rule : routed(f) <=> \E i \in DOMAIN route : route[i] = f
    BY <1>3 DEF RouteOf
  <1>10. \A i \in DOMAIN route : route[i] \in DOMAIN rule
    <2>1. route \in Seq(DOMAIN published) /\ DOMAIN route = 1..Len(route)
      BY <1>3 DEF RouteOf
    <2>. QED BY <1>3, <2>1, ElementOfSeq
  <1>11. \A f \in DOMAIN rule : Spatial(rule[f]) \/ routed(f)
    BY <1>1 DEF ValidateTopicSchema
  <1>12. \A f \in DOMAIN rule : (Spatial(rule[f]) /\ f \in DOMAIN given /\ routed(f)) => asked[f] = Wildcard
    BY <1>4, <1>5
  <1>13. \A f \in DOMAIN rule \cap DOMAIN given : (~Spatial(rule[f]) /\ given[f].form # "object") =>
           /\ asked[f] # Wildcard
           /\ asked[f] = published[f] <=> Selects(rule[f], given[f], m.identifier[f])
    BY <1>4 DEF Faithful, Selects, published
  <1>. HIDE DEF routed
  <1>14. ASSUME ScalarsRequested(schema, s, m), NEW i \in DOMAIN route
         PROVE  asked[route[i]] \in {Wildcard, published[route[i]]}
    <2>1. route[i] \in DOMAIN rule /\ routed(route[i])
      BY <1>9, <1>10
    <2>2. CASE route[i] \in DOMAIN given /\ ~Spatial(rule[route[i]]) /\ given[route[i]].form # "object"
      BY <1>13, <1>14, <2>1, <2>2 DEF ScalarsRequested
    <2>3. CASE ~(route[i] \in DOMAIN given /\ ~Spatial(rule[route[i]]) /\ given[route[i]].form # "object")
      <3>1. asked[route[i]] = Wildcard
        BY <1>4, <1>12, <2>1, <2>3
      <3>. QED BY <3>1
    <2>. QED BY <2>2, <2>3
  <1>15. ASSUME \A i \in DOMAIN route : asked[route[i]] \in {Wildcard, published[route[i]]},
                NEW f \in DOMAIN rule \cap DOMAIN given, ~Spatial(rule[f]), given[f].form # "object"
         PROVE  Selects(rule[f], given[f], m.identifier[f])
    <2>1. PICK i \in DOMAIN route : route[i] = f
      BY <1>9, <1>11, <1>15
    <2>2. asked[f] \in {Wildcard, published[f]}
      BY <1>15, <2>1
    <2>. QED BY <1>13, <1>15, <2>2
  <1>. QED BY <1>8, <1>14, <1>15 DEF ScalarsRequested

\* The fields that are asked for by a constraint.
ConstraintsRequested(schema, s, m) ==
  \A f \in DOMAIN s.constraints : FieldRequested(schema.identifier[f], s.identifier[f], m.identifier[f])

\* The text of a field that is no geometry is the token at its place in the route.
FieldTokens(schema, m, parts) ==
  LET order == Only(schema.topic).key_order
  IN \A f \in DOMAIN schema.identifier :
       ~Spatial(schema.identifier[f]) =>
         /\ \E i \in DOMAIN order : order[i] = f
         /\ \A i \in DOMAIN order :
              order[i] = f => i < Len(parts) /\ parts[i + 1] = Published(schema, m)[f]

\* Every message of an event type with a topic block has such tokens.
LEMMA MessageTokens ==
  ASSUME NEW sett, ValidSettings(sett), Accepts(sett), NEW m, MessageFacts(sett, m),
         m.type \in DOMAIN sett.schema, NEW schema, schema = sett.schema[m.type], schema.topic # {}
  PROVE  \E parts : /\ DecodeSubject(m.topic) = {parts} /\ parts[1] = <<Base(schema, m.type)>>
                    /\ FieldTokens(schema, m, parts)
  <1> DEFINE published == Published(schema, m)
             own == Base(schema, m.type)
             route == Route(schema, published)
             parts == PartsOf(own, route, published)
  <1>1. /\ DecodeSubject(m.topic) = {parts} /\ LaidOut(parts, own, route, published)
        /\ RouteOf(route, schema, published)
    <2>1. published = Published(schema, m) /\ own = Base(schema, m.type)
          /\ route = Route(schema, published) /\ parts = PartsOf(own, route, published)
      OBVIOUS
    <2>. HIDE DEF published, own, route, parts
    <2>. QED BY <2>1, MessageParts
  <1>2. Only(schema.topic).key_order = route
    BY DEF Route
  <1>. HIDE DEF published, own, route, parts
  <1>3. /\ parts[1] = <<own>> /\ Len(route) \in Nat /\ Len(parts) = Len(route) + 1
        /\ DOMAIN route = 1..Len(route) /\ \A i \in DOMAIN route : parts[i + 1] = published[route[i]]
    BY <1>1 DEF LaidOut
  <1>4. ASSUME NEW f \in DOMAIN schema.identifier, ~Spatial(schema.identifier[f])
        PROVE  \E i \in DOMAIN route : route[i] = f
    <2>1. \A t \in schema.topic : Routes(t, f)
      BY <1>4 DEF Accepts, ValidateTopicSchema
    <2>. QED BY <1>1, <2>1 DEF RouteOf
  <1>5. \A i \in DOMAIN route : i < Len(parts)
    BY <1>3
  <1>6. FieldTokens(schema, m, parts)
    BY <1>2, <1>3, <1>4, <1>5 DEF FieldTokens, published
  <1>. QED BY <1>1, <1>3, <1>6 DEF own

\* The constraints are compared with the tokens of their fields.
LEMMA ConstraintsAsAsked ==
  ASSUME ValidSettings(settings), Accepts(settings), NEW m, MessageFacts(settings, m),
         m.type \in DOMAIN settings.schema, NEW s, NEW schema, schema = settings.schema[m.type],
         AskedFilters(schema, s), Faithful(schema, s, m), schema.topic # {}
  PROVE  MatchesConstraints(s.constraints, m.topic) <=> ConstraintsRequested(schema, s, m)
  <1> DEFINE rule == schema.identifier
             given == s.identifier
             published == Published(schema, m)
             own == Base(schema, m.type)
             order == Only(schema.topic).key_order
             passes(decoded, type) ==
               LET keys == Only(schemas[type].topic).key_order
               IN \A field \in DOMAIN s.constraints :
                    \E i \in DOMAIN keys :
                      /\ keys[i] = field /\ i < Len(decoded)
                      /\ decoded[i + 1] \notin {<<>>, Wildcard}
                      /\ MatchesConstraint(s.constraints[field], decoded[i + 1])
  <1>1. \A f \in DOMAIN s.constraints :
          /\ f \in DOMAIN given /\ given[f].form = "object" /\ f \in DOMAIN rule /\ ~Spatial(rule[f])
          /\ s.constraints[f] \in ParseConstraint(rule[f], given[f])
    BY DEF AskedFilters
  <1>2. schema.topic # {}
    OBVIOUS
  <1>3. PICK parts : DecodeSubject(m.topic) = {parts} /\ parts[1] = <<own>> /\ FieldTokens(schema, m, parts)
    <2> DEFINE sett == settings
    <2>1. ValidSettings(sett) /\ Accepts(sett) /\ MessageFacts(sett, m) /\ m.type \in DOMAIN sett.schema
          /\ schema = sett.schema[m.type]
      OBVIOUS
    <2>. HIDE DEF sett
    <2>. QED BY <1>2, <2>1, MessageTokens
  <1>4. schemas[m.type] = schema
    BY DEF schemas
  <1>5. Owners(<<own>>) = {m.type}
    BY <1>2, OwnersOf
  <1>6. \A f \in DOMAIN rule : published[f] \notin {<<>>, Wildcard}
    BY DEF Faithful
  <1>7. \A f \in DOMAIN s.constraints :
          MatchesConstraint(s.constraints[f], published[f]) <=> FieldRequested(rule[f], given[f], m.identifier[f])
    BY <1>1 DEF Faithful
  <1>8. MatchesConstraints(s.constraints, m.topic) <=>
          \E decoded \in DecodeSubject(m.topic) : \E type \in Owners(decoded[1]) : passes(decoded, type)
    BY DEF MatchesConstraints
  <1>9. passes(parts, m.type) <=>
          \A f \in DOMAIN s.constraints :
            \E i \in DOMAIN order :
              /\ order[i] = f /\ i < Len(parts)
              /\ parts[i + 1] \notin {<<>>, Wildcard}
              /\ MatchesConstraint(s.constraints[f], parts[i + 1])
    BY <1>4
  <1>. HIDE DEF published, own, passes
  <1>10. MatchesConstraints(s.constraints, m.topic) <=> passes(parts, m.type)
    BY <1>3, <1>5, <1>8
  <1>11. ASSUME NEW f \in DOMAIN s.constraints
         PROVE  (\E i \in DOMAIN order :
                   /\ order[i] = f /\ i < Len(parts)
                   /\ parts[i + 1] \notin {<<>>, Wildcard}
                   /\ MatchesConstraint(s.constraints[f], parts[i + 1]))
                 <=> MatchesConstraint(s.constraints[f], published[f])
    <2>1. /\ \E i \in DOMAIN order : order[i] = f
          /\ \A i \in DOMAIN order : order[i] = f => i < Len(parts) /\ parts[i + 1] = published[f]
      BY <1>1, <1>3 DEF FieldTokens, published
    <2>2. published[f] \notin {<<>>, Wildcard}
      BY <1>1, <1>6
    <2>. HIDE DEF order
    <2>. QED BY <2>1, <2>2
  <1>. QED BY <1>7, <1>9, <1>10, <1>11 DEF ConstraintsRequested

\* Without a topic block, no event type is found to compare them with.
LEMMA TopiclessConstraints ==
  ASSUME ValidSettings(settings), Accepts(settings), NEW m, MessageFacts(settings, m),
         m.type \in DOMAIN settings.schema, settings.schema[m.type].topic = {}, NEW s
  PROVE  ~MatchesConstraints(s.constraints, m.topic)
  <1> DEFINE sett == settings
             base == Base(sett.schema[m.type], m.type)
  <1>1. PICK parts : DecodeSubject(m.topic) = {parts} /\ parts[1] = <<base>>
    <2>1. ValidSettings(sett) /\ Accepts(sett) /\ MessageFacts(sett, m)
      OBVIOUS
    <2>2. OwnBase(sett, m.type) = base
      BY DEF OwnBase
    <2>. HIDE DEF sett, base
    <2>. QED BY <2>1, <2>2, MessageBase
  <1>2. Owners(<<base>>) = {}
    <2>1. \A other \in Owners(<<base>>) : other = m.type /\ settings.schema[other].topic # {}
      BY OwnersWithBase
    <2>. HIDE DEF base
    <2>. QED BY <2>1
  <1>. HIDE DEF base
  <1>. QED BY <1>1, <1>2 DEF MatchesConstraints

\* The filters by geometry are compared with the one place of a message.
LEMMA PlacesAsAsked ==
  ASSUME NEW sett, Accepts(sett), NEW m, MessageFacts(sett, m), m.type \in DOMAIN sett.schema,
         NEW s, NEW schema, schema = sett.schema[m.type],
         AskedFilters(schema, s), BoxesAgree(schema, s, m)
  PROVE  (/\ "point" \in s.filters => \E p \in s.point : MatchesPoint(p, m)
          /\ "polygon" \in s.filters => \E ring \in s.polygon : MatchesPolygon(ring, m.metadata))
         <=> PlaceRequested(s.identifier, m.identifier)
  <1> DEFINE rule == schema.identifier
             given == s.identifier
             one(f, g) == [box |-> BoundingBox(g), field |-> f, geometry |-> g]
             fields == {f \in DOMAIN rule : Spatial(rule[f])}
             of(f) == {one(f, g) : g \in Geometry(rule[f], m.identifier[f])}
  <1>1. /\ DOMAIN m.identifier = DOMAIN rule
        /\ \A f \in DOMAIN rule : Canonical(rule[f], m.identifier[f]) # {}
        /\ m.metadata = UNION {of(f) : f \in fields}
    BY DEF MessageFacts, SpatialMetadata
  <1>2. ValidateSpatialSchema(schema)
    BY DEF Accepts
  <1>3. /\ \A f \in DOMAIN rule : Spatial(rule[f]) <=> f \in {"polygon", "point_cloud"}
        /\ ~("polygon" \in DOMAIN rule /\ "point_cloud" \in DOMAIN rule)
    BY <1>2 DEF ValidateSpatialSchema, Spatial
  <1>4. ASSUME NEW f \in DOMAIN rule, Spatial(rule[f])
        PROVE  /\ m.metadata = {one(f, m.identifier[f].positions)}
               /\ Geometry(rule[f], m.identifier[f]) = {m.identifier[f].positions}
    <2>1. rule[f].type \in {"PolygonHandler", "PointCloudHandler"}
      BY <1>4 DEF Spatial
    <2>2. Geometry(rule[f], m.identifier[f]) # {}
      BY <1>1, <2>1 DEF Canonical
    <2>3. Geometry(rule[f], m.identifier[f]) = {m.identifier[f].positions}
      BY <2>2 DEF Geometry, PolygonHandler, PointCloudHandler, When
    <2>4. fields = {f}
      BY <1>3, <1>4
    <2>. HIDE DEF fields, one
    <2>5. m.metadata = of(f)
      BY <1>1, <2>4
    <2>. QED BY <2>3, <2>5
  <1>5. \A f, g : one(f, g).box = BoundingBox(g) /\ one(f, g).field = f /\ one(f, g).geometry = g
    OBVIOUS
  <1>. HIDE DEF one, of, fields
  <1>6. IF "point" \in DOMAIN given
        THEN /\ s.point = {given["point"].at} /\ s.point = PointHandler(given["point"])
             /\ "polygon" \in DOMAIN rule
        ELSE s.point = {}
    <2>1. "point" \notin DOMAIN rule
      BY <1>1 DEF MessageFacts
    <2>. QED BY <2>1 DEF AskedFilters
  <1>7. IF "polygon" \in DOMAIN given
        THEN /\ s.polygon = {given["polygon"].positions} /\ s.polygon = PolygonHandler(given["polygon"])
             /\ "polygon" \in DOMAIN rule \/ "point_cloud" \in DOMAIN rule
        ELSE s.polygon = {}
    BY DEF AskedFilters
  <1>8. ASSUME "point" \in DOMAIN given
        PROVE  (\E p \in s.point : MatchesPoint(p, m)) <=>
                 Inside(m.identifier["polygon"].positions, given["point"].at)
    <2> DEFINE g == m.identifier["polygon"].positions
               p == given["point"].at
    <2>1. s.point = {p} /\ p \in PointHandler(given["point"]) /\ "polygon" \in DOMAIN rule
          /\ Spatial(rule["polygon"])
      BY <1>3, <1>6, <1>8
    <2>2. m.metadata = {one("polygon", g)} /\ g \in Geometry(rule["polygon"], m.identifier["polygon"])
      BY <1>4, <2>1
    <2>. HIDE DEF g, p
    <2>3. Inside(g, p) => BoxContains(BoundingBox(g), p)
      BY <1>8, <2>1, <2>2 DEF BoxesAgree
    <2>4. CandidatePolygon(m) = {g}
      <3>1. {x \in m.metadata : x.field = "polygon"} = {one("polygon", g)}
        BY <1>5, <2>2
      <3>2. {x.geometry : x \in {x \in m.metadata : x.field = "polygon"}} = {g}
        BY <1>5, <3>1
      <3>. QED BY <3>2 DEF CandidatePolygon
    <2>5. MatchesPoint(p, m) <=> BoxContains(BoundingBox(g), p) /\ Inside(g, p)
      BY <1>5, <2>2, <2>4 DEF MatchesPoint
    <2>. QED BY <2>1, <2>3, <2>5 DEF g, p
  <1>9. ASSUME "polygon" \in DOMAIN given
        PROVE  (\E ring \in s.polygon : MatchesPolygon(ring, m.metadata)) <=>
                 IF "polygon" \in DOMAIN m.identifier
                 THEN RingsIntersect(m.identifier["polygon"].positions, given["polygon"].positions)
                 ELSE \E p \in Positions(m.identifier["point_cloud"]) : Covers(given["polygon"].positions, p)
    <2> DEFINE f == IF "polygon" \in DOMAIN rule THEN "polygon" ELSE "point_cloud"
               g == m.identifier[f].positions
               ring == given["polygon"].positions
               meets == IF f = "point_cloud" THEN \E p \in ToSet(g) : Covers(ring, p) ELSE RingsIntersect(g, ring)
    <2>1. /\ s.polygon = {ring} /\ ring \in PolygonHandler(given["polygon"])
          /\ f \in DOMAIN rule /\ Spatial(rule[f])
      BY <1>3, <1>7, <1>9
    <2>2. meets <=> IF "polygon" \in DOMAIN m.identifier
                    THEN RingsIntersect(m.identifier["polygon"].positions, given["polygon"].positions)
                    ELSE \E p \in Positions(m.identifier["point_cloud"]) : Covers(given["polygon"].positions, p)
      BY <1>1 DEF Positions
    <2>. HIDE DEF f
    <2>3. m.metadata = {one(f, g)} /\ g \in Geometry(rule[f], m.identifier[f])
      BY <1>4, <2>1
    <2>. HIDE DEF g, ring
    <2>4. meets => BoxesIntersect(BoundingBox(g), BoundingBox(ring))
      BY <1>9, <2>1, <2>3 DEF BoxesAgree
    <2>5. MatchesPolygon(ring, m.metadata) <=> BoxesIntersect(BoundingBox(g), BoundingBox(ring)) /\ meets
      BY <1>5, <2>3 DEF MatchesPolygon
    <2>. HIDE DEF meets
    <2>. QED BY <2>1, <2>2, <2>4, <2>5
  <1>10. /\ "point" \in s.filters <=> "point" \in DOMAIN given
         /\ "polygon" \in s.filters <=> "polygon" \in DOMAIN given
    BY DEF AskedFilters
  <1>. QED BY <1>8, <1>9, <1>10 DEF PlaceRequested

\* The subject of a message with fields has more than one token.
HasFields(sett, m) ==
  IF m.type \in DOMAIN sett.schema
  THEN sett.schema[m.type].topic = {} => DOMAIN sett.schema[m.type].identifier # {}
  ELSE DOMAIN m.identifier \cap ToSet(FieldOrder) # {}

\* A message with fields has a token after the base.
LEMMA MessageTail ==
  ASSUME NEW sett, ValidSettings(sett), Accepts(sett), NEW m, MessageFacts(sett, m), HasFields(sett, m)
  PROVE  \E A : \E parts \in Seq(Seq(A)) : m.topic = EncodeSubject(parts) /\ Len(parts) > 1
  <1>1. ASSUME NEW parts, NEW base, NEW route, NEW params, LaidOut(parts, base, route, params),
               m.topic = EncodeSubject(parts), \E i \in DOMAIN route : TRUE
        PROVE  \E A : \E p \in Seq(Seq(A)) : m.topic = EncodeSubject(p) /\ Len(p) > 1
    <2>1. /\ Len(parts) = Len(route) + 1 /\ Len(route) \in Nat /\ DOMAIN route = 1..Len(route)
          /\ \E A : parts \in Seq(Seq(A))
      BY <1>1 DEF LaidOut
    <2>2. Len(parts) > 1
      BY <1>1, <2>1
    <2>. QED BY <1>1, <2>1, <2>2
  <1>2. CASE m.type \in DOMAIN sett.schema
    <2> DEFINE schema == sett.schema[m.type]
               published == Published(schema, m)
               own == Base(schema, m.type)
               route == Route(schema, published)
               parts == PartsOf(own, route, published)
    <2>1. schema = sett.schema[m.type] /\ published = Published(schema, m) /\ own = Base(schema, m.type)
          /\ route = Route(schema, published) /\ parts = PartsOf(own, route, published)
      OBVIOUS
    <2>2. m.topic = EncodeSubject(parts)
      BY <1>2 DEF MessageFacts
    <2>3. schema.topic = {} => DOMAIN schema.identifier # {}
      BY <1>2 DEF HasFields
    <2>4. ValidSchema(schema) /\ ValidateTopicSchema(schema)
      BY <1>2 DEF ValidSettings, Accepts
    <2>. HIDE DEF schema, published, own, route, parts
    <2>5. LaidOut(parts, own, route, published) /\ RouteOf(route, schema, published)
      BY <1>2, <2>1, MessageParts
    <2>6. \E i \in DOMAIN route : TRUE
      <3>1. CASE schema.topic = {}
        BY <2>3, <2>5, <3>1 DEF RouteOf
      <3>2. CASE schema.topic # {}
        <4>1. PICK t \in schema.topic : t.key_order = route
          BY <2>1, <3>2 DEF Route, Only
        <4>2. route # <<>> /\ route \in Seq(STRING)
          BY <2>4, <4>1 DEF ValidateTopicSchema, ValidSchema
        <4>3. Len(route) \in Nat /\ Len(route) # 0 /\ DOMAIN route = 1..Len(route)
          BY <4>2, LenProperties, EmptySeq
        <4>4. 1 \in DOMAIN route
          BY <4>3
        <4>. QED BY <4>4
      <3>. QED BY <3>1, <3>2
    <2>. QED BY <1>1, <2>2, <2>5, <2>6
  <1>3. CASE m.type \notin DOMAIN sett.schema
    <2> DEFINE route == Sorted(DOMAIN m.identifier)
               parts == PartsOf(m.type, route, Texts(m))
    <2>1. m.topic = EncodeSubject(parts) /\ \A f \in DOMAIN m.identifier : IsSequence(Text(m.identifier[f]))
      BY <1>3 DEF MessageFacts
    <2>2. LaidOut(parts, m.type, route, Texts(m))
      BY <2>1, GenericParts
    <2>3. PICK f \in DOMAIN m.identifier \cap ToSet(FieldOrder) : TRUE
      BY <1>3 DEF HasFields
    <2>4. \E i \in DOMAIN route : route[i] = f
      BY <2>3, SortedNames
    <2>. HIDE DEF route, parts
    <2>. QED BY <1>1, <2>1, <2>2, <2>4
  <1>. QED BY <1>2, <1>3

\* What the token-wise pattern lets through comes up in the stream.
LEMMA PatternWithinStream ==
  ASSUME NEW sett, ValidSettings(sett), Accepts(sett), NEW m, MessageFacts(sett, m), HasFields(sett, m),
         NEW s, SubscriptionFacts(sett, s), MatchesWatchPattern(s.parts, m.topic)
  PROVE  InStream(s.coarse, m.topic)
  <1>1. PICK B : \E fields \in Seq(Seq(B)) : m.topic = EncodeSubject(fields) /\ Len(fields) > 1
    BY MessageTail
  <1>2. PICK fields \in Seq(Seq(B)) : m.topic = EncodeSubject(fields) /\ Len(fields) > 1
    BY <1>1
  <1>3. /\ 1 \in DOMAIN s.parts /\ s.parts[1] # Wildcard /\ \E A : s.parts \in Seq(Seq(A))
    BY SubscriptionBase
  <1>4. PICK A : s.parts \in Seq(Seq(A))
    BY <1>3
  <1> DEFINE parts == s.parts
  <1>5. parts \in Seq(Seq(A)) /\ parts[1] # Wildcard /\ MatchesWatchPattern(parts, EncodeSubject(fields))
    BY <1>2, <1>3, <1>4
  <1>6. parts # <<>>
    BY <1>3
  <1>. HIDE DEF parts
  <1>7. InStream(CoarsePattern(parts), EncodeSubject(fields))
    BY <1>2, <1>5, <1>6, CoarsePatternHidesNothing
  <1>8. s.coarse = CoarsePattern(s.parts)
    BY DEF SubscriptionFacts
  <1>. QED BY <1>2, <1>7, <1>8 DEF parts

\* Without a schema, the texts are compared.
LEMMA GenericAsAsked ==
  ASSUME NEW sett, NEW m, MessageFacts(sett, m), NEW s, SubscriptionFacts(sett, s),
         s.type = m.type, m.type \notin DOMAIN sett.schema,
         DOMAIN m.identifier = DOMAIN s.identifier, DOMAIN s.identifier \subseteq ToSet(FieldOrder),
         \A f \in DOMAIN s.identifier : Text(s.identifier[f]) # Wildcard
  PROVE  MatchesWatchPattern(s.parts, m.topic) <=>
           \A f \in DOMAIN s.identifier : Text(s.identifier[f]) = Text(m.identifier[f])
  <1> DEFINE D == DOMAIN s.identifier
             route == Sorted(D)
             published == Texts(m)
             asked == Texts(s)
             parts == PartsOf(m.type, route, published)
  <1>1. m.topic = EncodeSubject(parts) /\ \A f \in DOMAIN m.identifier : IsSequence(Text(m.identifier[f]))
    BY DEF MessageFacts
  <1>2. /\ \A f \in DOMAIN asked : IsSequence(asked[f])
        /\ s.parts = PartsOf(m.type, Sorted(DOMAIN asked), asked)
    BY DEF SubscriptionFacts
  <1>3. DOMAIN asked = D /\ \A f \in D : IsSequence(Text(s.identifier[f]))
    BY <1>2 DEF Texts
  <1>4. LaidOut(parts, m.type, route, published)
    <2>1. LaidOut(PartsOf(m.type, Sorted(DOMAIN m.identifier), Texts(m)),
                  m.type, Sorted(DOMAIN m.identifier), Texts(m))
      BY <1>1, GenericParts
    <2>. QED BY <2>1
  <1>5. LaidOut(s.parts, m.type, route, asked)
    <2>1. LaidOut(PartsOf(m.type, Sorted(DOMAIN s.identifier), Texts(s)),
                  m.type, Sorted(DOMAIN s.identifier), Texts(s))
      BY <1>3, GenericParts
    <2>. QED BY <1>2, <1>3, <2>1
  <1>6. \A f \in D : asked[f] = Text(s.identifier[f]) /\ published[f] = Text(m.identifier[f])
    BY DEF Texts
  <1>7. /\ DOMAIN route = 1..Len(route) /\ route \in Seq(D \cap ToSet(FieldOrder))
        /\ \A f \in D \cap ToSet(FieldOrder) : \E i \in DOMAIN route : route[i] = f
    BY SortedNames
  <1>. HIDE DEF D, route, published, asked, parts
  <1>8. DecodeSubject(m.topic) = {parts}
    BY <1>1, <1>4 DEF LaidOut
  <1>9. MatchesWatchPattern(s.parts, m.topic) <=>
          \A i \in DOMAIN route : asked[route[i]] \in {Wildcard, published[route[i]]}
    BY <1>4, <1>5, <1>8, SameRoute
  <1>10. \A i \in DOMAIN route : route[i] \in D
    BY <1>7, ElementOfSeq
  <1>11. \A f \in D : \E i \in DOMAIN route : route[i] = f
    BY <1>7 DEF D
  <1>12. \A f \in D : asked[f] # Wildcard
    BY <1>6 DEF D
  <1>13. ASSUME \A i \in DOMAIN route : asked[route[i]] \in {Wildcard, published[route[i]]}, NEW f \in D
         PROVE  asked[f] = published[f]
    BY <1>11, <1>12, <1>13
  <1>14. ASSUME \A f \in D : asked[f] = published[f], NEW i \in DOMAIN route
         PROVE  asked[route[i]] \in {Wildcard, published[route[i]]}
    BY <1>10, <1>14
  <1>. QED BY <1>6, <1>9, <1>13, <1>14 DEF D

\* What the conditions on all inputs say of one message and one subscription.
LEMMA PairFaithful ==
  ASSUME NoBlankValues, AskedFaithful, BoxesFaithful, TopiclessPlain,
         NEW i \in DOMAIN Scenarios, NEW sett, sett = Scenarios[i].settings,
         NEW m, MessageFacts(sett, m), FromScenario(i, m), NEW s, FromRequests(i, s),
         s.type = m.type, m.type \in DOMAIN sett.schema, NEW schema, schema = sett.schema[m.type]
  PROVE  Faithful(schema, s, m) /\ BoxesAgree(schema, s, m)
  <1> DEFINE rule == schema.identifier
             given == s.identifier
             type == m.type
  <1>1. PICK n \in Scenarios[i].notifications : n.type = m.type /\ n.identifier = m.identifier
    BY DEF FromScenario
  <1>2. PICK r \in Scenarios[i].requests : r.type = s.type /\ r.identifier = s.identifier
    BY DEF FromRequests
  <1>3. /\ DOMAIN m.identifier = DOMAIN rule
        /\ \A f \in DOMAIN rule : Canonical(rule[f], m.identifier[f]) # {}
    BY DEF MessageFacts
  <1>4. \A f \in DOMAIN rule : m.identifier[f] \in PublishedValues(i, type, f)
    BY <1>1, <1>3 DEF PublishedValues, ValuesIn
  <1>5. \A f \in DOMAIN given : given[f] \in AskedValues(i, type, f)
    BY <1>2 DEF AskedValues, ValuesIn
  <1>6. \A f \in DOMAIN rule : Published(schema, m)[f] \in Canonical(rule[f], m.identifier[f])
    BY <1>3 DEF Published, Only
  <1>7. ASSUME NEW f \in DOMAIN rule PROVE Published(schema, m)[f] \notin {<<>>, Wildcard}
    <2>1. Canonical(rule[f], m.identifier[f]) \cap {<<>>, Wildcard} = {}
      BY <1>4 DEF NoBlankValues
    <2>. QED BY <1>6, <2>1
  <1>8. ASSUME NEW f \in DOMAIN rule \cap DOMAIN given, ~Spatial(rule[f])
        PROVE  IF given[f].form = "object"
               THEN \A c \in ParseConstraint(rule[f], given[f]) :
                      MatchesConstraint(c, Published(schema, m)[f])
                        <=> FieldRequested(rule[f], given[f], m.identifier[f])
               ELSE \A asked \in Canonical(rule[f], given[f]) :
                      /\ asked # Wildcard
                      /\ asked = Published(schema, m)[f] <=>
                           /\ FieldRequested(rule[f], given[f], m.identifier[f])
                           /\ ~OppositeZeros(rule[f], given[f], m.identifier[f])
    <2> DEFINE v == m.identifier[f]
               w == given[f]
               text == Published(schema, m)[f]
    <2>1. v \in PublishedValues(i, type, f) /\ w \in AskedValues(i, type, f) /\ text \in Canonical(rule[f], v)
      BY <1>4, <1>5, <1>6
    <2>. HIDE DEF v, w, text
    <2>2. TextsAgree(rule[f], w, v)
      BY <1>8, <2>1 DEF AskedFaithful
    <2>3. \A t \in Canonical(rule[f], v) :
            IF w.form = "object"
            THEN \A c \in ParseConstraint(rule[f], w) : MatchesConstraint(c, t) <=> FieldRequested(rule[f], w, v)
            ELSE \A other \in Canonical(rule[f], w) :
                   /\ other # Wildcard
                   /\ other = t <=> FieldRequested(rule[f], w, v) /\ ~OppositeZeros(rule[f], w, v)
      BY <2>2 DEF TextsAgree
    <2>4. IF w.form = "object"
          THEN \A c \in ParseConstraint(rule[f], w) : MatchesConstraint(c, text) <=> FieldRequested(rule[f], w, v)
          ELSE \A asked \in Canonical(rule[f], w) :
                 /\ asked # Wildcard
                 /\ asked = text <=> FieldRequested(rule[f], w, v) /\ ~OppositeZeros(rule[f], w, v)
      BY <2>1, <2>3
    <2>. QED BY <2>4 DEF v, w, text
  <1>9. ASSUME schema.topic = {}
        PROVE  DOMAIN rule # {} /\ \A f \in DOMAIN rule : ~Spatial(rule[f])
    BY <1>9 DEF TopiclessPlain
  <1>10. Faithful(schema, s, m)
    BY <1>7, <1>8, <1>9 DEF Faithful
  <1>11. ASSUME NEW f \in DOMAIN rule, Spatial(rule[f]), NEW g \in Geometry(rule[f], m.identifier[f])
         PROVE  /\ "point" \in DOMAIN given =>
                     \A p \in PointHandler(given["point"]) :
                       (f = "polygon" /\ Inside(g, p)) => BoxContains(BoundingBox(g), p)
                /\ "polygon" \in DOMAIN given =>
                     \A ring \in PolygonHandler(given["polygon"]) :
                       (IF f = "point_cloud" THEN \E p \in ToSet(g) : Covers(ring, p) ELSE RingsIntersect(g, ring))
                         => BoxesIntersect(BoundingBox(g), BoundingBox(ring))
    <2>1. /\ \A w \in AskedValues(i, type, "point") : \A p \in PointHandler(w) :
               (f = "polygon" /\ Inside(g, p)) => BoxContains(BoundingBox(g), p)
          /\ \A w \in AskedValues(i, type, "polygon") : \A ring \in PolygonHandler(w) :
               (IF f = "point_cloud" THEN \E p \in ToSet(g) : Covers(ring, p) ELSE RingsIntersect(g, ring))
                 => BoxesIntersect(BoundingBox(g), BoundingBox(ring))
      <3>1. BoxesCover(i, type, f, g)
        BY <1>4, <1>11 DEF BoxesFaithful
      <3>. QED BY <3>1 DEF BoxesCover
    <2>. QED BY <1>5, <2>1
  <1>12. BoxesAgree(schema, s, m)
    BY <1>11 DEF BoxesAgree
  <1>. QED BY <1>10, <1>12

\* Requested and not missed, with the schemas as an argument.
AskedFor(known, s, m) ==
  /\ s.type = m.type
  /\ s.type \in DOMAIN known =>
       LET rule == known[s.type].identifier
       IN /\ known[s.type].topic = {} => DOMAIN s.constraints = {}
          /\ \A f \in DOMAIN s.identifier \cap DOMAIN rule :
               ~Spatial(rule[f]) => Selects(rule[f], s.identifier[f], m.identifier[f])
          /\ PlaceRequested(s.identifier, m.identifier)
  /\ s.type \notin DOMAIN known =>
       /\ DOMAIN s.identifier = DOMAIN m.identifier
       /\ \A f \in DOMAIN s.identifier : Text(s.identifier[f]) = Text(m.identifier[f])
       /\ FilterFields(s.identifier) = {}

\* The two say the same.
LEMMA RequestedIsAskedFor ==
  \A s, m : Requested(s, m) /\ ~Missed(s, m) <=> AskedFor(settings.schema, s, m)
  BY DEF Requested, Missed, AskedFor, Selects, HasSchema, schemas

\* A constraint is no zero.
LEMMA ConstraintsAreNoZeros ==
  \A rule, v, w : v.form = "object" => ~OppositeZeros(rule, v, w)
  BY DEF OppositeZeros

\* Of an event type with a schema, what is asked for passes.
LEMMA ConfiguredDelivery ==
  ASSUME ValidSettings(settings), Accepts(settings), NEW m, MessageFacts(settings, m),
         NEW s, SubscriptionFacts(settings, s), s.type = m.type, m.type \in DOMAIN settings.schema,
         NEW schema, schema = settings.schema[m.type], Faithful(schema, s, m), BoxesAgree(schema, s, m)
  PROVE  Passes(s, m) <=> AskedFor(settings.schema, s, m)
  <1> DEFINE sett == settings
             rule == schema.identifier
             given == s.identifier
  <1>1. /\ ValidSettings(sett) /\ Accepts(sett) /\ MessageFacts(sett, m) /\ SubscriptionFacts(sett, s)
        /\ m.type \in DOMAIN sett.schema /\ schema = sett.schema[m.type]
    OBVIOUS
  <1>2. AskedFilters(schema, s)
    BY DEF SubscriptionFacts
  <1> DEFINE topicless == schema.topic = {} /\ DOMAIN s.constraints # {}
  <1>3. IF schema.topic = {} THEN ~MatchesConstraints(s.constraints, m.topic)
        ELSE MatchesConstraints(s.constraints, m.topic) <=> ConstraintsRequested(schema, s, m)
    <2>1. CASE schema.topic = {}
      BY <2>1, TopiclessConstraints
    <2>2. CASE schema.topic # {}
      BY <1>2, <2>2, ConstraintsAsAsked
    <2>. QED BY <2>1, <2>2
  <1>. HIDE DEF sett
  <1>4. MatchesWatchPattern(s.parts, m.topic) <=> ScalarsRequested(schema, s, m)
    BY <1>1, PatternAsAsked
  <1>5. (/\ "point" \in s.filters => \E p \in s.point : MatchesPoint(p, m)
         /\ "polygon" \in s.filters => \E ring \in s.polygon : MatchesPolygon(ring, m.metadata))
        <=> PlaceRequested(s.identifier, m.identifier)
    BY <1>1, <1>2, PlacesAsAsked
  <1>6. HasFields(sett, m)
    BY <1>1 DEF HasFields, Faithful
  <1>7. MatchesWatchPattern(s.parts, m.topic) => InStream(s.coarse, m.topic)
    BY <1>1, <1>6, PatternWithinStream
  <1>8. DOMAIN s.constraints = {} => ConstraintsRequested(schema, s, m)
    BY DEF ConstraintsRequested
  <1>9. Passes(s, m) <=> /\ ScalarsRequested(schema, s, m) /\ ConstraintsRequested(schema, s, m)
                         /\ PlaceRequested(s.identifier, m.identifier) /\ ~topicless
    BY <1>3, <1>4, <1>5, <1>7, <1>8 DEF Passes, MatchesFilters
  <1>10. (ScalarsRequested(schema, s, m) /\ ConstraintsRequested(schema, s, m)) <=>
           \A f \in DOMAIN given \cap DOMAIN rule :
             ~Spatial(rule[f]) => Selects(rule[f], given[f], m.identifier[f])
    <2>1. /\ DOMAIN s.constraints = {f \in DOMAIN given : given[f].form = "object"}
          /\ \A f \in DOMAIN s.constraints : f \in DOMAIN rule /\ ~Spatial(rule[f])
      BY <1>2 DEF AskedFilters
    <2>2. \A f \in DOMAIN s.constraints :
            Selects(rule[f], given[f], m.identifier[f]) <=> FieldRequested(rule[f], given[f], m.identifier[f])
      BY <2>1, ConstraintsAreNoZeros DEF Selects
    <2>. QED BY <2>1, <2>2 DEF ScalarsRequested, ConstraintsRequested
  <1>11. AskedFor(settings.schema, s, m) <=>
           /\ ~topicless
           /\ \A f \in DOMAIN given \cap DOMAIN rule :
                ~Spatial(rule[f]) => Selects(rule[f], given[f], m.identifier[f])
           /\ PlaceRequested(s.identifier, m.identifier)
    BY DEF AskedFor
  <1>. QED BY <1>9, <1>10, <1>11

\* Of one without a schema, too, unless a field is taken for a filter by geometry.
LEMMA GenericDelivery ==
  ASSUME ValidSettings(settings), Accepts(settings), NEW m, MessageFacts(settings, m),
         NEW s, SubscriptionFacts(settings, s), s.type = m.type, m.type \notin DOMAIN settings.schema,
         DOMAIN m.identifier = DOMAIN s.identifier, DOMAIN s.identifier # {},
         DOMAIN s.identifier \subseteq ToSet(FieldOrder),
         \A f \in DOMAIN s.identifier : Text(s.identifier[f]) # Wildcard
  PROVE  Passes(s, m) <=> AskedFor(settings.schema, s, m)
  <1> DEFINE sett == settings
  <1>1. /\ ValidSettings(sett) /\ Accepts(sett) /\ MessageFacts(sett, m) /\ SubscriptionFacts(sett, s)
        /\ m.type \notin DOMAIN sett.schema
    OBVIOUS
  <1>2. DOMAIN s.constraints = {} /\ s.filters = FilterFields(s.identifier)
    BY DEF SubscriptionFacts
  <1>. HIDE DEF sett
  <1>3. MatchesWatchPattern(s.parts, m.topic) <=>
          \A f \in DOMAIN s.identifier : Text(s.identifier[f]) = Text(m.identifier[f])
    BY <1>1, GenericAsAsked
  <1>4. HasFields(sett, m)
    BY <1>1 DEF HasFields
  <1>5. MatchesWatchPattern(s.parts, m.topic) => InStream(s.coarse, m.topic)
    BY <1>1, <1>4, PatternWithinStream
  <1>6. Passes(s, m) <=> MatchesWatchPattern(s.parts, m.topic) /\ s.filters = {}
    <2>1. s.filters \subseteq {"polygon"}
      <3>1. "point" \notin DOMAIN s.identifier
        BY DEF MessageFacts
      <3>. QED BY <1>2, <3>1 DEF FilterFields
    <2>2. \A ring \in s.polygon : ~MatchesPolygon(ring, m.metadata)
      <3>1. m.metadata = {}
        BY DEF MessageFacts
      <3>. QED BY <3>1 DEF MatchesPolygon
    <2>3. MatchesFilters(s, m) <=> s.filters = {}
      BY <1>2, <2>1, <2>2 DEF MatchesFilters
    <2>. QED BY <1>5, <2>3 DEF Passes
  <1>. QED BY <1>2, <1>3, <1>6 DEF AskedFor

\* The conditions on the inputs.
DeliveryConditions ==
  NoBlankValues /\ AskedFaithful /\ BoxesFaithful /\ TopiclessPlain /\ GenericsAlike

\* Under the conditions, what passes is what is asked for, but for namesakes.
LEMMA DeliveredAsAsked ==
  ASSUME DeliveryConditions, scenario \in DOMAIN Scenarios, Accepts(settings),
         NEW m, MessageFacts(settings, m), FromScenario(scenario, m),
         NEW s, SubscriptionFacts(settings, s), FromRequests(scenario, s),
         ~Namesakes(settings, s.type, m.type)
  PROVE  Passes(s, m) <=> AskedFor(settings.schema, s, m)
  <1> DEFINE sett == settings
  <1>1. /\ ValidSettings(sett) /\ Accepts(sett) /\ MessageFacts(sett, m) /\ SubscriptionFacts(sett, s)
        /\ sett = Scenarios[scenario].settings
    BY SettingsValid DEF settings
  <1>2. ValidSettings(settings)
    BY SettingsValid
  <1>3. Passes(s, m) => MatchesWatchPattern(s.parts, m.topic)
    BY DEF Passes
  <1>4. MatchesWatchPattern(s.parts, m.topic) => s.type = m.type
    BY <1>2, SameBase DEF Namesakes
  <1>5. CASE s.type = m.type /\ m.type \in DOMAIN settings.schema
    <2> DEFINE schema == sett.schema[m.type]
    <2>1. m.type \in DOMAIN sett.schema /\ schema = sett.schema[m.type]
      BY <1>5
    <2>. HIDE DEF schema, sett
    <2>2. Faithful(schema, s, m) /\ BoxesAgree(schema, s, m)
      BY <1>1, <1>5, <2>1, PairFaithful DEF DeliveryConditions
    <2>3. schema = settings.schema[m.type]
      BY <2>1 DEF sett
    <2>. QED BY <1>2, <1>5, <2>2, <2>3, ConfiguredDelivery
  <1>6. CASE s.type = m.type /\ m.type \notin DOMAIN settings.schema
    <2>1. PICK n \in Scenarios[scenario].notifications : n.type = m.type /\ n.identifier = m.identifier
      BY DEF FromScenario
    <2>2. PICK r \in Scenarios[scenario].requests : r.type = s.type /\ r.identifier = s.identifier
      BY DEF FromRequests
    <2>3. Generic(sett, n.type) /\ Generic(sett, r.type)
      BY <1>6, <2>1, <2>2 DEF MessageFacts, Generic
    <2>4. \A f \in DOMAIN s.identifier : IsScalar(s.identifier[f])
      BY <1>6 DEF SubscriptionFacts
    <2>. HIDE DEF sett
    <2>5. /\ DOMAIN n.identifier = DOMAIN r.identifier /\ DOMAIN n.identifier # {}
          /\ \A f \in DOMAIN r.identifier : IsScalar(r.identifier[f]) => Text(r.identifier[f]) # Wildcard
      BY <1>1, <1>6, <2>1, <2>2, <2>3 DEF DeliveryConditions, GenericsAlike
    <2>6. DOMAIN r.identifier \subseteq ToSet(FieldOrder)
      BY ScenariosAssumption DEF ValidFields
    <2>. QED BY <1>2, <1>6, <2>1, <2>2, <2>4, <2>5, <2>6, GenericDelivery
  <1>7. CASE s.type # m.type
    BY <1>3, <1>4, <1>7 DEF AskedFor
  <1>. QED BY <1>5, <1>6, <1>7

-----------------------------------------------------------------------------
(* The server.                                                              *)

\* What is known of a pair that was examined: only what the pattern lets through
\* is delivered, as the event that was published, and under the conditions exactly
\* what is asked for is.
ExaminedFacts(sett, s, m, e) ==
  /\ e.delivered =>
       /\ MatchesWatchPattern(s.parts, m.topic)
       /\ (NoBlankValues /\ m.type \in DOMAIN sett.schema /\ sett.schema[m.type].topic # {}) =>
            e.event = {[type |-> m.type, identifier |-> Published(sett.schema[m.type], m)]}
  /\ (DeliveryConditions /\ ~Namesakes(sett, s.type, m.type)) =>
       (e.delivered <=> AskedFor(sett.schema, s, m))

\* Nothing is stored or subscribed to before the settings are accepted, and what
\* is was made of a request of the scenario.
RoutingInv ==
  /\ RoutingTypeOK
  /\ phase = "serving" => Accepts(settings)
  /\ phase # "serving" => log = <<>> /\ subs = <<>>
  /\ IsSequence(log) /\ IsSequence(subs)
  /\ \A i \in DOMAIN log : MessageFacts(settings, log[i]) /\ FromScenario(scenario, log[i])
  /\ \A i \in DOMAIN subs : SubscriptionFacts(settings, subs[i]) /\ FromRequests(scenario, subs[i])
  /\ \A e \in seen : ExaminedFacts(settings, subs[e.sub], log[e.message], e)

\* The steps of the induction.
LEMMA RoutingInvInit == RoutingInit => RoutingInv
  <1>. SUFFICES ASSUME RoutingInit PROVE RoutingInv
    OBVIOUS
  <1>1. IsSequence(<<>>) /\ DOMAIN <<>> = {} /\ Len(<<>>) = 0
    BY Tuples
  <1>2. log = <<>> /\ subs = <<>> /\ seen = {} /\ scenario \in DOMAIN Scenarios /\ phase = "starting"
    BY DEF RoutingInit
  <1>3. RoutingTypeOK
    BY <1>1, <1>2, RoutingBounds DEF RoutingTypeOK
  <1>. QED BY <1>1, <1>2, <1>3 DEF RoutingInv

LEMMA StartStep == RoutingInv /\ Start => RoutingInv'
  <1>. SUFFICES ASSUME RoutingInv, Start PROVE RoutingInv'
    OBVIOUS
  <1>1. /\ phase = "starting" /\ scenario' = scenario /\ log' = log /\ subs' = subs /\ seen' = seen
        /\ phase' \in {"serving", "refused"}
        /\ phase' = "serving" => Accepts(settings)
        /\ settings' = settings
    BY DEF Start, settings
  <1>2. RoutingTypeOK'
    BY <1>1 DEF RoutingInv, RoutingTypeOK
  <1>3. (phase # "serving" => log = <<>> /\ subs = <<>>)'
    BY <1>1 DEF RoutingInv
  <1>4. (phase = "serving" => Accepts(settings))'
    BY <1>1
  <1>. QED BY <1>1, <1>2, <1>3, <1>4 DEF RoutingInv

LEMMA PublishStep == RoutingInv /\ Publish => RoutingInv'
  <1>. SUFFICES ASSUME RoutingInv, Publish PROVE RoutingInv'
    OBVIOUS
  <1>1. /\ phase = "serving" /\ scenario' = scenario /\ phase' = phase /\ subs' = subs /\ seen' = seen
        /\ settings' = settings /\ Len(log) + Len(subs) < MaxInputs
    BY DEF Publish, settings
  <1>2. PICK n \in Scenarios[scenario].notifications :
          \E params \in ProcessParams(n.type, n.identifier, n.payload, "notify") :
            \E topic \in ProcessTopic(n.type, params, "notify") :
              log' = Append(log,
                [topic |-> topic, type |-> n.type, identifier |-> n.identifier, drawn |-> n.drawn,
                 metadata |-> IF HasSchema(n.type)
                              THEN SpatialMetadata(schemas[n.type], n.identifier) ELSE {}])
    BY DEF Publish
  <1>3. PICK params \in ProcessParams(n.type, n.identifier, n.payload, "notify") :
          \E topic \in ProcessTopic(n.type, params, "notify") :
            log' = Append(log,
              [topic |-> topic, type |-> n.type, identifier |-> n.identifier, drawn |-> n.drawn,
               metadata |-> IF HasSchema(n.type)
                            THEN SpatialMetadata(schemas[n.type], n.identifier) ELSE {}])
    BY <1>2
  <1>4. PICK topic \in ProcessTopic(n.type, params, "notify") :
          log' = Append(log,
            [topic |-> topic, type |-> n.type, identifier |-> n.identifier, drawn |-> n.drawn,
             metadata |-> IF HasSchema(n.type)
                          THEN SpatialMetadata(schemas[n.type], n.identifier) ELSE {}])
    BY <1>3
  <1> DEFINE m == [topic |-> topic, type |-> n.type, identifier |-> n.identifier, drawn |-> n.drawn,
                   metadata |-> IF HasSchema(n.type)
                                THEN SpatialMetadata(schemas[n.type], n.identifier) ELSE {}]
  <1>5. /\ m.topic = topic /\ m.type = n.type /\ m.identifier = n.identifier
        /\ m.metadata = IF HasSchema(n.type) THEN SpatialMetadata(schemas[n.type], n.identifier) ELSE {}
    OBVIOUS
  <1>6. log' = Append(log, m)
    BY <1>4
  <1>. HIDE DEF m
  <1>7. scenario \in DOMAIN Scenarios
    BY DEF RoutingInv, RoutingTypeOK
  <1>8. MessageFacts(settings, m) /\ FromScenario(scenario, m)
    BY <1>5, <1>7, PublishFacts
  <1>9. /\ IsSequence(log') /\ Len(log) \in Nat /\ Len(log') = Len(log) + 1
        /\ \A i \in DOMAIN log : i \in DOMAIN log' /\ log'[i] = log[i]
        /\ \A i \in DOMAIN log' : i \in DOMAIN log \/ log'[i] = m
    BY <1>6, Appending DEF RoutingInv
  <1>10. Len(subs) \in Nat
    BY Appending DEF RoutingInv
  <1>11. RoutingTypeOK'
    <2>1. Len(log') + Len(subs') <= MaxInputs /\ Len(subs') <= MaxSubscriptions
      BY <1>1, <1>9, <1>10, RoutingBounds DEF RoutingInv, RoutingTypeOK
    <2>2. \A e \in seen : e.sub \in DOMAIN subs' /\ e.message \in DOMAIN log'
      BY <1>1, <1>9 DEF RoutingInv, RoutingTypeOK
    <2>3. scenario \in DOMAIN Scenarios /\ phase \in {"starting", "serving", "refused"}
      BY DEF RoutingInv, RoutingTypeOK
    <2>. QED BY <1>1, <2>1, <2>2, <2>3 DEF RoutingTypeOK
  <1>12. \A i \in DOMAIN log' : MessageFacts(settings, log'[i]) /\ FromScenario(scenario, log'[i])
    BY <1>8, <1>9 DEF RoutingInv
  <1>13. \A e \in seen : ExaminedFacts(settings, subs[e.sub], log'[e.message], e)
    BY <1>9 DEF RoutingInv, RoutingTypeOK
  <1>. QED BY <1>1, <1>9, <1>11, <1>12, <1>13 DEF RoutingInv

LEMMA SubscribeStep == RoutingInv /\ Subscribe => RoutingInv'
  <1>. SUFFICES ASSUME RoutingInv, Subscribe PROVE RoutingInv'
    OBVIOUS
  <1>1. /\ phase = "serving" /\ scenario' = scenario /\ phase' = phase /\ log' = log /\ seen' = seen
        /\ settings' = settings /\ Len(log) + Len(subs) < MaxInputs /\ Len(subs) < MaxSubscriptions
    BY DEF Subscribe, settings
  <1> DEFINE S(r, parts) ==
               [type |-> r.type, identifier |-> r.identifier, parts |-> parts,
                coarse |-> CoarsePattern(parts),
                constraints |->
                  [f \in {g \in DOMAIN r.identifier : r.identifier[g].form = "object"} |->
                     Only(ParseConstraint(schemas[r.type].identifier[f], r.identifier[f]))],
                filters |-> FilterFields(r.identifier),
                point |-> UNION {PointHandler(r.identifier[f]) : f \in {"point"} \cap DOMAIN r.identifier},
                polygon |-> UNION {PolygonHandler(r.identifier[f]) :
                                     f \in {"polygon"} \cap DOMAIN r.identifier}]
  <1>2. PICK r \in Scenarios[scenario].requests :
          \E params \in ProcessParams(r.type, r.identifier, TRUE, "watch") :
            \E topic \in ProcessTopic(r.type, params, "watch") :
              \E parts \in DecodeSubject(topic) :
                Admitted(r.type, params) /\ subs' = Append(subs, S(r, parts))
    BY DEF Subscribe
  <1>3. PICK params \in ProcessParams(r.type, r.identifier, TRUE, "watch") :
          \E topic \in ProcessTopic(r.type, params, "watch") :
            \E parts \in DecodeSubject(topic) :
              Admitted(r.type, params) /\ subs' = Append(subs, S(r, parts))
    BY <1>2
  <1>4. PICK topic \in ProcessTopic(r.type, params, "watch") :
          \E parts \in DecodeSubject(topic) :
            Admitted(r.type, params) /\ subs' = Append(subs, S(r, parts))
    BY <1>3
  <1>5. PICK parts \in DecodeSubject(topic) :
          Admitted(r.type, params) /\ subs' = Append(subs, S(r, parts))
    BY <1>4
  <1> DEFINE s == S(r, parts)
  <1>6. /\ s.type = r.type /\ s.identifier = r.identifier /\ s.parts = parts
        /\ s.coarse = CoarsePattern(parts)
        /\ s.constraints = [f \in {g \in DOMAIN s.identifier : s.identifier[g].form = "object"} |->
                              Only(ParseConstraint(schemas[s.type].identifier[f], s.identifier[f]))]
        /\ s.filters = FilterFields(s.identifier)
        /\ s.point = UNION {PointHandler(s.identifier[f]) : f \in {"point"} \cap DOMAIN s.identifier}
        /\ s.polygon = UNION {PolygonHandler(s.identifier[f]) : f \in {"polygon"} \cap DOMAIN s.identifier}
        /\ Admitted(r.type, params) /\ subs' = Append(subs, s)
    BY <1>5
  <1>. HIDE DEF s, S
  <1>7. scenario \in DOMAIN Scenarios /\ Accepts(settings)
    BY <1>1 DEF RoutingInv, RoutingTypeOK
  <1>8. SubscriptionFacts(settings, s) /\ FromRequests(scenario, s)
    BY <1>6, <1>7, SubscribeFacts
  <1>9. /\ IsSequence(subs') /\ Len(subs) \in Nat /\ Len(subs') = Len(subs) + 1
        /\ \A i \in DOMAIN subs : i \in DOMAIN subs' /\ subs'[i] = subs[i]
        /\ \A i \in DOMAIN subs' : i \in DOMAIN subs \/ subs'[i] = s
    BY <1>6, Appending DEF RoutingInv
  <1>10. Len(log) \in Nat
    BY Appending DEF RoutingInv
  <1>11. RoutingTypeOK'
    <2>1. Len(log') + Len(subs') <= MaxInputs /\ Len(subs') <= MaxSubscriptions
      BY <1>1, <1>9, <1>10, RoutingBounds DEF RoutingInv, RoutingTypeOK
    <2>2. \A e \in seen : e.sub \in DOMAIN subs' /\ e.message \in DOMAIN log'
      BY <1>1, <1>9 DEF RoutingInv, RoutingTypeOK
    <2>3. scenario \in DOMAIN Scenarios /\ phase \in {"starting", "serving", "refused"}
      BY DEF RoutingInv, RoutingTypeOK
    <2>. QED BY <1>1, <2>1, <2>2, <2>3 DEF RoutingTypeOK
  <1>12. \A i \in DOMAIN subs' : SubscriptionFacts(settings, subs'[i]) /\ FromRequests(scenario, subs'[i])
    BY <1>8, <1>9 DEF RoutingInv
  <1>13. \A e \in seen : ExaminedFacts(settings, subs'[e.sub], log[e.message], e)
    BY <1>9 DEF RoutingInv, RoutingTypeOK
  <1>. QED BY <1>1, <1>9, <1>11, <1>12, <1>13 DEF RoutingInv

\* A message of the scenario has no blank text.
LEMMA NoBlanks ==
  ASSUME NoBlankValues, scenario \in DOMAIN Scenarios, NEW m, MessageFacts(settings, m),
         FromScenario(scenario, m), HasSchema(m.type)
  PROVE  \A f \in DOMAIN m.identifier : Published(schemas[m.type], m)[f] \notin {<<>>, Wildcard}
  <1> DEFINE schema == settings.schema[m.type]
  <1>1. m.type \in DOMAIN settings.schema /\ schemas[m.type] = schema
    BY DEF HasSchema, schemas
  <1>2. PICK n \in Scenarios[scenario].notifications : n.type = m.type /\ n.identifier = m.identifier
    BY DEF FromScenario
  <1>3. ASSUME NEW f \in DOMAIN m.identifier
        PROVE  Published(schema, m)[f] \notin {<<>>, Wildcard}
    <2>1. f \in DOMAIN schema.identifier /\ Canonical(schema.identifier[f], m.identifier[f]) # {}
      BY <1>1 DEF MessageFacts
    <2>2. m.identifier[f] \in PublishedValues(scenario, m.type, f)
      BY <1>2 DEF PublishedValues, ValuesIn
    <2>3. Canonical(schema.identifier[f], m.identifier[f]) \cap {<<>>, Wildcard} = {}
      BY <1>1, <2>1, <2>2 DEF NoBlankValues, settings
    <2>4. Published(schema, m)[f] \in Canonical(schema.identifier[f], m.identifier[f])
      BY <2>1 DEF Published, Only
    <2>. QED BY <2>3, <2>4
  <1>. QED BY <1>1, <1>3

LEMMA ExamineStep == RoutingInv /\ Examine => RoutingInv'
  <1>. SUFFICES ASSUME RoutingInv, Examine PROVE RoutingInv'
    OBVIOUS
  <1>1. /\ scenario' = scenario /\ phase' = phase /\ log' = log /\ subs' = subs
        /\ settings' = settings /\ scenario \in DOMAIN Scenarios
    BY DEF Examine, settings, RoutingInv, RoutingTypeOK
  <1>2. PICK s \in DOMAIN subs, m \in DOMAIN log :
          seen' = seen \cup
            {[sub |-> s, message |-> m, delivered |-> Passes(subs[s], log[m]),
              event |-> IF Passes(subs[s], log[m]) THEN CloudEvent(log[m]) ELSE {}]}
    BY DEF Examine
  <1> DEFINE e == [sub |-> s, message |-> m, delivered |-> Passes(subs[s], log[m]),
                   event |-> IF Passes(subs[s], log[m]) THEN CloudEvent(log[m]) ELSE {}]
  <1>3. /\ e.sub = s /\ e.message = m /\ seen' = seen \cup {e}
        /\ e.delivered <=> Passes(subs[s], log[m])
        /\ e.delivered => e.event = CloudEvent(log[m])
    BY <1>2
  <1>. HIDE DEF e
  <1>4. phase = "serving" /\ Accepts(settings) /\ ValidSettings(settings)
    <2>1. log # <<>>
      OBVIOUS
    <2>. QED BY <1>1, <2>1, SettingsValid DEF RoutingInv
  <1>5. ExaminedFacts(settings, subs[s], log[m], e)
    <2> DEFINE x == log[m]
               y == subs[s]
    <2>1. /\ MessageFacts(settings, x) /\ FromScenario(scenario, x)
          /\ SubscriptionFacts(settings, y) /\ FromRequests(scenario, y)
      BY DEF RoutingInv
    <2>2. /\ e.delivered <=> Passes(y, x)
          /\ e.delivered => e.event = CloudEvent(x)
      BY <1>3
    <2>. HIDE DEF x, y
    <2>3. ASSUME e.delivered PROVE MatchesWatchPattern(y.parts, x.topic)
      BY <2>2, <2>3 DEF Passes
    <2>4. ASSUME e.delivered, NoBlankValues, x.type \in DOMAIN settings.schema,
                 settings.schema[x.type].topic # {}
          PROVE  e.event = {[type |-> x.type, identifier |-> Published(settings.schema[x.type], x)]}
      <3>1. HasSchema(x.type) /\ schemas[x.type] = settings.schema[x.type] /\ schemas[x.type].topic # {}
        BY <2>4 DEF HasSchema, schemas
      <3>2. \A f \in DOMAIN x.identifier : Published(schemas[x.type], x)[f] \notin {<<>>, Wildcard}
        BY <1>1, <2>1, <2>4, <3>1, NoBlanks
      <3>3. CloudEvent(x) = {[type |-> x.type, identifier |-> Published(schemas[x.type], x)]}
        BY <1>4, <2>1, <3>1, <3>2, EventOfMessage
      <3>. QED BY <2>2, <2>4, <3>1, <3>3
    <2>5. ASSUME DeliveryConditions, ~Namesakes(settings, y.type, x.type)
          PROVE  e.delivered <=> AskedFor(settings.schema, y, x)
      <3>1. Passes(y, x) <=> AskedFor(settings.schema, y, x)
        BY <1>1, <1>4, <2>1, <2>5, DeliveredAsAsked
      <3>. QED BY <2>2, <3>1
    <2>6. ExaminedFacts(settings, y, x, e)
      BY <2>3, <2>4, <2>5 DEF ExaminedFacts
    <2>. QED BY <2>6 DEF x, y
  <1>6. RoutingTypeOK'
    BY <1>1, <1>3 DEF RoutingInv, RoutingTypeOK
  <1>7. \A x \in seen' : ExaminedFacts(settings, subs[x.sub], log[x.message], x)
    BY <1>3, <1>5 DEF RoutingInv
  <1>. QED BY <1>1, <1>4, <1>6, <1>7 DEF RoutingInv

\* The invariant holds in every state.
LEMMA RoutingInvariant == RoutingSpec => []RoutingInv
  <1>1. RoutingInv /\ [RoutingNext]_routingVars => RoutingInv'
    <2>1. RoutingInv /\ RoutingNext => RoutingInv'
      BY StartStep, PublishStep, SubscribeStep, ExamineStep DEF RoutingNext
    <2>2. RoutingInv /\ UNCHANGED routingVars => RoutingInv'
      <3>. SUFFICES ASSUME RoutingInv, UNCHANGED routingVars PROVE RoutingInv'
        OBVIOUS
      <3>1. /\ scenario' = scenario /\ phase' = phase /\ log' = log /\ subs' = subs /\ seen' = seen
            /\ settings' = settings
        BY DEF routingVars, settings
      <3>. QED BY <3>1 DEF RoutingInv, RoutingTypeOK
    <2>. QED BY <2>1, <2>2
  <1>. QED BY <1>1, RoutingInvInit, PTL DEF RoutingSpec

-----------------------------------------------------------------------------

\* Messages and subscriptions stay within their bounds, and every pair that the
\* filters examined is one of them.
THEOREM RoutingTyped == RoutingSpec => []RoutingTypeOK
  <1>1. RoutingInv => RoutingTypeOK
    BY DEF RoutingInv
  <1>. QED BY <1>1, RoutingInvariant, PTL

\* The ECPDS plugin sees the match key of the request (src/routes/streaming.rs) and
\* no notification; the token-wise pattern (wildcard_matcher.rs) does the rest: every
\* reader gets notifications for granted destinations only, whatever else is published
\* or read, provided that no destination is called by a lone asterisk.  Who reads a
\* namesake of such an event type, which has no schema and so no plugin, is the
\* exception that the property names; strict mode excludes it.
THEOREM DestinationsStayGranted ==
  ASSUME Wildcard \notin Granted
  PROVE  RoutingSpec => []OnlyGrantedDestinations
  <1>1. RoutingInv => OnlyGrantedDestinations
    <2>. SUFFICES ASSUME RoutingInv, NEW e \in seen, e.delivered,
                         log[e.message].type \in EcpdsStreams(settings),
                         ~Namesakes(settings, subs[e.sub].type, log[e.message].type)
         PROVE  ForGranted(log[e.message])
      BY DEF OnlyGrantedDestinations
    <2> DEFINE m == log[e.message]
               s == subs[e.sub]
    <2>1. e.sub \in DOMAIN subs /\ e.message \in DOMAIN log /\ scenario \in DOMAIN Scenarios
      BY DEF RoutingInv, RoutingTypeOK
    <2>2. Accepts(settings) /\ ValidSettings(settings)
      <3>1. log # <<>>
        BY <2>1
      <3>. QED BY <2>1, <3>1, SettingsValid DEF RoutingInv
    <2>3. /\ MessageFacts(settings, m) /\ SubscriptionFacts(settings, s)
          /\ MatchesWatchPattern(s.parts, m.topic)
      BY <2>1 DEF RoutingInv, ExaminedFacts
    <2>4. m.type \in EcpdsStreams(settings) /\ ~Namesakes(settings, s.type, m.type)
      OBVIOUS
    <2>. HIDE DEF m, s
    <2>5. Only(Canonical(settings.schema[m.type].identifier[Only(settings.ecpds).match_key],
                         m.identifier[Only(settings.ecpds).match_key])) \in Granted
      BY <2>2, <2>3, <2>4, CheckedDestination
    <2>. QED BY <2>5 DEF ForGranted, m, schemas
  <1>. QED BY <1>1, RoutingInvariant, PTL

\* The event read back from the subject and the metadata (topic_parser.rs,
\* src/cloudevents) is the notification that was published.
THEOREM EventsCarryIdentifiers ==
  ASSUME NoBlankValues
  PROVE  RoutingSpec => []IdentifiersSurviveRouting
  <1>1. RoutingInv => IdentifiersSurviveRouting
    <2>. SUFFICES ASSUME RoutingInv, NEW e \in seen, e.delivered, HasSchema(log[e.message].type),
                         schemas[log[e.message].type].topic # {}
         PROVE  e.event = {[type |-> log[e.message].type,
                            identifier |-> Published(schemas[log[e.message].type], log[e.message])]}
      BY DEF IdentifiersSurviveRouting, Published
    <2>1. ExaminedFacts(settings, subs[e.sub], log[e.message], e)
      BY DEF RoutingInv
    <2>. QED BY <2>1 DEF ExaminedFacts, HasSchema, schemas
  <1>. QED BY <1>1, RoutingInvariant, PTL

\* Two notifications of an event type share a topic exactly if their fields mean the
\* same and have no zeros of different sign, provided that CanonicalFaithful holds of
\* the single values that are published.  The latest-only storage of both backends
\* goes by the topic.
THEOREM TopicsIdentify ==
  ASSUME CanonicalFaithful
  PROVE  RoutingSpec => []SameTopicIffSameMeaning
  <1>1. RoutingInv => SameTopicIffSameMeaning
    <2>. SUFFICES ASSUME RoutingInv, NEW i \in DOMAIN log, NEW j \in DOMAIN log,
                         log[i].type = log[j].type, HasSchema(log[i].type)
         PROVE  LET schema == schemas[log[i].type]
                    routed == {f \in DOMAIN schema.identifier : \A t \in schema.topic : Routes(t, f)}
                IN log[i].topic = log[j].topic <=>
                     \A f \in routed :
                       SameValue(schema.identifier[f], log[i].identifier[f], log[j].identifier[f])
      BY DEF SameTopicIffSameMeaning
    <2> DEFINE m == log[i]
               n == log[j]
               schema == settings.schema[m.type]
    <2>1. scenario \in DOMAIN Scenarios /\ m.type \in DOMAIN settings.schema /\ schemas[m.type] = schema
      BY DEF RoutingInv, RoutingTypeOK, HasSchema, schemas
    <2>2. Accepts(settings) /\ ValidSettings(settings)
      <3>1. log # <<>>
        OBVIOUS
      <3>. QED BY <2>1, <3>1, SettingsValid DEF RoutingInv
    <2>3. /\ MessageFacts(settings, m) /\ FromScenario(scenario, m)
          /\ MessageFacts(settings, n) /\ FromScenario(scenario, n) /\ m.type = n.type
      BY DEF RoutingInv
    <2>. HIDE DEF m, n
    <2>4. m.topic = n.topic <=>
            \A f \in DOMAIN schema.identifier :
              (\A t \in schema.topic : Routes(t, f)) => Published(schema, m)[f] = Published(schema, n)[f]
      <3>1. schema = settings.schema[m.type]
        OBVIOUS
      <3>. HIDE DEF schema
      <3>. QED BY <2>1, <2>2, <2>3, <3>1, SameTopicSameTexts
    <2>5. ASSUME NEW f \in DOMAIN schema.identifier
          PROVE  Published(schema, m)[f] = Published(schema, n)[f] <=>
                   SameValue(schema.identifier[f], m.identifier[f], n.identifier[f])
      <3> DEFINE rule == schema.identifier[f]
                 v == m.identifier[f]
                 w == n.identifier[f]
      <3>1. f \in DOMAIN m.identifier /\ f \in DOMAIN n.identifier
        BY <2>1, <2>3 DEF MessageFacts
      <3>2. Canonical(rule, v) # {} /\ Canonical(rule, w) # {}
        BY <2>1, <2>3, <3>1 DEF MessageFacts
      <3>3. Published(schema, m)[f] = Only(Canonical(rule, v)) /\ Published(schema, n)[f] = Only(Canonical(rule, w))
        BY <3>1 DEF Published
      <3>4. v \in PublishedValues(scenario, m.type, f) /\ w \in PublishedValues(scenario, m.type, f)
        BY <2>3, <3>1 DEF PublishedValues, ValuesIn, FromScenario
      <3>. HIDE DEF v, w
      <3>5. Only(Canonical(rule, v)) = Only(Canonical(rule, w)) <=>
              SameValue(rule, v, w)
        BY <2>1, <3>2, <3>4 DEF CanonicalFaithful, settings
      <3>. QED BY <3>3, <3>5 DEF v, w
    <2>. QED BY <2>1, <2>4, <2>5 DEF m, n
  <1>. QED BY <1>1, RoutingInvariant, PTL

\* Whoever asks for a notification gets it, and nobody else does, but for what Missed
\* lists: the processor, the topic builder, the coarse and the token-wise pattern, the
\* constraints and the geometry agree on what a request asks for.  The property says
\* nothing of a reader and a notification that are namesakes.  The conditions leave
\* out blank texts, geometry without a topic block, and event types without a schema
\* whose fields differ from one request to the next; they take for granted that single
\* values are faithful as texts, and boxes to the geometry in them.
THEOREM ReadersGetWhatTheyAskFor ==
  ASSUME NoBlankValues, AskedFaithful, BoxesFaithful, TopiclessPlain, GenericsAlike
  PROVE  RoutingSpec => []DeliveredIffRequested
  <1>1. RoutingInv => DeliveredIffRequested
    <2>. SUFFICES ASSUME RoutingInv, NEW e \in seen,
                         ~Namesakes(settings, subs[e.sub].type, log[e.message].type)
         PROVE  e.delivered <=> Requested(subs[e.sub], log[e.message]) /\ ~Missed(subs[e.sub], log[e.message])
      BY DEF DeliveredIffRequested
    <2>1. DeliveryConditions
      BY DEF DeliveryConditions
    <2>2. e.delivered <=> AskedFor(settings.schema, subs[e.sub], log[e.message])
      BY <2>1 DEF RoutingInv, ExaminedFacts
    <2>. QED BY <2>2, RequestedIsAskedFor
  <1>. QED BY <1>1, RoutingInvariant, PTL
=============================================================================
