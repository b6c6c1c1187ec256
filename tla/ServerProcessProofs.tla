-------------------------- MODULE ServerProcessProofs --------------------------
(***************************************************************************)
(* Theorems about ServerProcess, for any clients, users, routes and        *)
(* number of attempts: its variables are well typed, the gauges are exact  *)
(* between any two steps, and the backend is let go of last.               *)
(***************************************************************************)
EXTENDS ServerProcess, FiniteSetTheorems, TLAPS

-----------------------------------------------------------------------------
(* The inductive invariant.                                                 *)

RegisteredAs(route, u) == {c \in Registered(route) : request[c].user = {u}}

Present(route) == {u \in Users : users[route][u] # 0}

\* The table of users counts connections, the gauge of users its entries.
Counts ==
  /\ inFlight = Cardinality(InFlight)
  /\ \A route \in StreamRoutes :
       /\ active[route] = Cardinality(Listed(route))
       /\ \A u \in Users : users[route][u] = Cardinality(RegisteredAs(route, u))
       /\ unique[route] = Cardinality(Present(route))

\* A request is in flight from its arrival until its stream is open, and only a
\* stream is listed and registered.
StagesAgree ==
  \A c \in Clients :
    /\ request[c].stage = "none" => ~request[c].flight
    /\ request[c].stage \in {"waiting", "storing", "listed", "opening"} => request[c].flight
    /\ request[c].stage \in {"listed", "opening", "open", "delisted"} =>
         request[c].route \in StreamRoutes

\* The stopper comes to the backend only when the API is down.
ShutdownOrder ==
  /\ main = "connecting" => stopper = "none"
  /\ stopper \in {"flush", "drain", "done"} => http = "down"
  /\ LetGo => stopper \in {"drain", "done"}

Requests == [stage : Stages, route : Routes, user : Somebody, flight : BOOLEAN]

ProcessTypes ==
  /\ main \in {"connecting", "serving", "flushing", "exited", "failed"}
  /\ attempt \in Nat
  /\ cancelled \in BOOLEAN
  /\ stopper \in {"none", "waiting", "metrics", "server", "flush", "drain", "done"}
  /\ http \in {"none", "up", "stopping", "down"}
  /\ metricsServer \in {"none", "up", "stopping", "down"}
  /\ backend \in {"none", "up", "flushed", "drained"}

GaugeTypes ==
  /\ request \in [Clients -> Requests]
  /\ inFlight \in Nat
  /\ active \in [StreamRoutes -> Nat]
  /\ users \in [StreamRoutes -> [Users -> Nat]]
  /\ unique \in [StreamRoutes -> Nat]

IInv == ProcessTypes /\ GaugeTypes /\ StagesAgree /\ Counts /\ ShutdownOrder

-----------------------------------------------------------------------------
(* Counting.                                                                *)

LEMMA CountJoin ==
  ASSUME NEW S, NEW T, NEW x, IsFiniteSet(S), x \notin S, T = S \cup {x}
  PROVE  Cardinality(T) = Cardinality(S) + 1 /\ Cardinality(T) \in Nat
BY FS_AddElement, FS_CardinalityType

LEMMA CountLeave ==
  ASSUME NEW S, NEW T, NEW x, IsFiniteSet(S), x \in S, T = S \ {x}
  PROVE  Cardinality(T) = Cardinality(S) - 1 /\ Cardinality(T) \in Nat /\ Cardinality(S) > 0
<1>1. IsFiniteSet(T) /\ Cardinality(T) = Cardinality(S) - 1
  BY FS_RemoveElement
<1>2. Cardinality(T) \in Nat /\ Cardinality(S) \in Nat
  BY <1>1, FS_CardinalityType
<1> QED BY <1>1, <1>2

\* All that is counted are sets of clients or users.
LEMMA CountedFinite ==
  /\ IsFiniteSet(InFlight)
  /\ \A route : IsFiniteSet(Listed(route))
  /\ \A route, u : IsFiniteSet(RegisteredAs(route, u))
  /\ \A route : IsFiniteSet(Present(route))
<1>1. \A S : S \subseteq Clients => IsFiniteSet(S)
  BY FS_Subset, ServerProcessAssumption
<1>2. \A S : S \subseteq Users => IsFiniteSet(S)
  BY FS_Subset, ServerProcessAssumption
<1> QED BY <1>1, <1>2 DEF InFlight, Listed, Registered, RegisteredAs, Present

\* Who has a connection is who has an entry in the table.
LEMMA PresentAreRegistered ==
  ASSUME GaugeTypes, Counts, NEW route \in StreamRoutes
  PROVE  UNION {request[c].user : c \in Registered(route)} = Present(route)
<1>1. \A c \in Registered(route) : request[c].user \in Somebody
  BY DEF GaugeTypes, Requests, Registered
<1>2. ASSUME NEW u \in Users
      PROVE  (\E c \in Registered(route) : u \in request[c].user) <=> RegisteredAs(route, u) # {}
  BY <1>1 DEF RegisteredAs, Somebody
<1>3. ASSUME NEW u \in Users
      PROVE  users[route][u] # 0 <=> RegisteredAs(route, u) # {}
  BY CountedFinite, FS_EmptySet DEF Counts
<1>4. ASSUME NEW u PROVE (\E c \in Registered(route) : u \in request[c].user) => u \in Users
  BY <1>1 DEF Somebody
<1> QED BY <1>2, <1>3, <1>4 DEF Present

-----------------------------------------------------------------------------
(* Steps of the process leave requests and gauges alone, and the reverse.   *)

ProcessStep ==
  \/ ConnectFails \/ Connects \/ Signal
  \/ BeginShutdown \/ MetricsServerStops \/ AwaitMetricsServer
  \/ ServerStops \/ AwaitServer \/ Flush \/ Drain \/ ServersDown \/ Exit

LEMMA CountsUnchanged ==
  ASSUME GaugeTypes, StagesAgree, Counts, UNCHANGED <<request, gauges>>
  PROVE  GaugeTypes' /\ StagesAgree' /\ Counts'
<1>1. InFlight' = InFlight
  BY DEF InFlight, gauges
<1>2. \A route : Listed(route)' = Listed(route)
  BY DEF Listed
<1>3. \A route, u : RegisteredAs(route, u)' = RegisteredAs(route, u)
  BY DEF RegisteredAs, Registered
<1>4. \A route : Present(route)' = Present(route)
  BY DEF Present, gauges
<1>5. Counts'
  BY <1>1, <1>2, <1>3, <1>4 DEF Counts, gauges
<1>6. GaugeTypes' /\ StagesAgree'
  BY DEF GaugeTypes, StagesAgree, gauges
<1> QED BY <1>5, <1>6

LEMMA ProcessKeepsInv ==
  ASSUME IInv, ProcessStep
  PROVE  IInv'
<1>1. UNCHANGED <<request, gauges>>
  BY DEF ProcessStep, ConnectFails, Connects, Signal, BeginShutdown, MetricsServerStops,
         AwaitMetricsServer, ServerStops, AwaitServer, Flush, Drain, ServersDown, Exit
<1>2. GaugeTypes' /\ StagesAgree' /\ Counts'
  BY <1>1, CountsUnchanged DEF IInv
<1> USE DEF IInv, ProcessTypes, ShutdownOrder, LetGo
<1>3. CASE ConnectFails
  BY <1>2, <1>3 DEF ConnectFails
<1>4. CASE Connects
  BY <1>2, <1>4 DEF Connects
<1>5. CASE Signal
  BY <1>2, <1>5 DEF Signal
<1>6. CASE BeginShutdown
  BY <1>2, <1>6 DEF BeginShutdown
<1>7. CASE MetricsServerStops
  BY <1>2, <1>7 DEF MetricsServerStops
<1>8. CASE AwaitMetricsServer
  BY <1>2, <1>8 DEF AwaitMetricsServer
<1>9. CASE ServerStops
  BY <1>2, <1>9 DEF ServerStops
<1>10. CASE AwaitServer
  BY <1>2, <1>10 DEF AwaitServer
<1>11. CASE Flush
  BY <1>2, <1>11 DEF Flush
<1>12. CASE Drain
  BY <1>2, <1>12 DEF Drain
<1>13. CASE ServersDown
  BY <1>2, <1>13 DEF ServersDown
<1>14. CASE Exit
  BY <1>2, <1>14 DEF Exit
<1> QED
  BY <1>3, <1>4, <1>5, <1>6, <1>7, <1>8, <1>9, <1>10, <1>11, <1>12, <1>13, <1>14 DEF ProcessStep

LEMMA ProcessUnchanged ==
  ASSUME ProcessTypes, ShutdownOrder, UNCHANGED process
  PROVE  ProcessTypes' /\ ShutdownOrder'
BY DEF ProcessTypes, ShutdownOrder, LetGo, process

-----------------------------------------------------------------------------
(* A step of one client: who is counted where.                              *)

\* Nothing changes but the request of c, which becomes q.
Moves(c, q) == q \in Requests /\ request' = [request EXCEPT ![c] = q]

ListedStages == {"listed", "opening", "open"}
RegisteredStages == {"opening", "open", "delisted"}

LEMMA MovesOne ==
  ASSUME GaugeTypes, NEW c \in Clients, NEW q, Moves(c, q)
  PROVE  /\ request' \in [Clients -> Requests]
         /\ request'[c] = q
         /\ \A d \in Clients : d # c => request'[d] = request[d]
BY DEF GaugeTypes, Moves

LEMMA FlightMoves ==
  ASSUME GaugeTypes, NEW c \in Clients, NEW q, Moves(c, q)
  PROVE  InFlight' = IF q.flight THEN InFlight \cup {c} ELSE InFlight \ {c}
BY MovesOne DEF InFlight

LEMMA ListedMoves ==
  ASSUME GaugeTypes, NEW c \in Clients, NEW q, Moves(c, q), NEW route
  PROVE  Listed(route)' = IF q.route = route /\ q.stage \in ListedStages
                          THEN Listed(route) \cup {c} ELSE Listed(route) \ {c}
BY MovesOne DEF Listed, ListedStages

LEMMA RegisteredMoves ==
  ASSUME GaugeTypes, NEW c \in Clients, NEW q, Moves(c, q), NEW route, NEW u
  PROVE  RegisteredAs(route, u)' =
           IF q.route = route /\ q.stage \in RegisteredStages /\ q.user = {u}
           THEN RegisteredAs(route, u) \cup {c} ELSE RegisteredAs(route, u) \ {c}
BY MovesOne DEF RegisteredAs, Registered, RegisteredStages

\* The three parts of Counts, one for each gauge.
FlightCount == inFlight \in Nat /\ inFlight = Cardinality(InFlight)

ActiveCount ==
  /\ active \in [StreamRoutes -> Nat]
  /\ \A route \in StreamRoutes : active[route] = Cardinality(Listed(route))

UserCount ==
  /\ users \in [StreamRoutes -> [Users -> Nat]]
  /\ unique \in [StreamRoutes -> Nat]
  /\ \A route \in StreamRoutes :
       /\ \A u \in Users : users[route][u] = Cardinality(RegisteredAs(route, u))
       /\ unique[route] = Cardinality(Present(route))

LEMMA CountsInParts ==
  GaugeTypes /\ Counts <=>
    request \in [Clients -> Requests] /\ FlightCount /\ ActiveCount /\ UserCount
BY DEF GaugeTypes, Counts, FlightCount, ActiveCount, UserCount

LEMMA FlightKept ==
  ASSUME GaugeTypes, FlightCount, NEW c \in Clients, NEW q, Moves(c, q),
         q.flight <=> request[c].flight, inFlight' = inFlight
  PROVE  FlightCount'
<1>1. InFlight' = InFlight
  BY FlightMoves DEF InFlight
<1> QED BY <1>1 DEF FlightCount

LEMMA ActiveKept ==
  ASSUME GaugeTypes, ActiveCount, NEW c \in Clients, NEW q, Moves(c, q),
         q.stage \in ListedStages <=> request[c].stage \in ListedStages,
         q.stage \in ListedStages => q.route = request[c].route,
         active' = active
  PROVE  ActiveCount'
<1>1. ASSUME NEW route PROVE Listed(route)' = Listed(route)
  BY ListedMoves DEF Listed, ListedStages
<1> QED BY <1>1 DEF ActiveCount

LEMMA UsersKept ==
  ASSUME GaugeTypes, UserCount, NEW c \in Clients, NEW q, Moves(c, q),
         \/ q.user = {} /\ request[c].user = {}
         \/ q.stage \notin RegisteredStages /\ request[c].stage \notin RegisteredStages
         \/ /\ q.stage \in RegisteredStages /\ request[c].stage \in RegisteredStages
            /\ q.route = request[c].route /\ q.user = request[c].user,
         UNCHANGED <<users, unique>>
  PROVE  UserCount'
<1>1. ASSUME NEW route, NEW u PROVE RegisteredAs(route, u)' = RegisteredAs(route, u)
  <2>1. RegisteredAs(route, u)' =
          IF q.route = route /\ q.stage \in RegisteredStages /\ q.user = {u}
          THEN RegisteredAs(route, u) \cup {c} ELSE RegisteredAs(route, u) \ {c}
    BY RegisteredMoves
  <2>2. c \in RegisteredAs(route, u) <=>
          /\ request[c].route = route /\ request[c].stage \in RegisteredStages
          /\ request[c].user = {u}
    BY DEF RegisteredAs, Registered, RegisteredStages
  <2>3. c \in RegisteredAs(route, u) <=>
          q.route = route /\ q.stage \in RegisteredStages /\ q.user = {u}
    BY <2>2
  <2> QED BY <2>1, <2>3
<1>2. \A route : Present(route)' = Present(route)
  BY DEF Present
<1> QED BY <1>1, <1>2 DEF UserCount

LEMMA FlightJoins ==
  ASSUME GaugeTypes, FlightCount, NEW c \in Clients, NEW q, Moves(c, q),
         q.flight, ~request[c].flight, inFlight' = inFlight + 1
  PROVE  FlightCount'
<1>1. InFlight' = InFlight \cup {c} /\ c \notin InFlight
  BY FlightMoves DEF InFlight
<1> QED BY <1>1, CountJoin, CountedFinite DEF FlightCount

LEMMA FlightLeaves ==
  ASSUME GaugeTypes, FlightCount, NEW c \in Clients, NEW q, Moves(c, q),
         ~q.flight, request[c].flight, inFlight' = inFlight - 1
  PROVE  FlightCount'
<1>1. InFlight' = InFlight \ {c} /\ c \in InFlight
  BY FlightMoves DEF InFlight
<1> QED BY <1>1, CountLeave, CountedFinite DEF FlightCount

LEMMA ActiveJoins ==
  ASSUME GaugeTypes, ActiveCount, NEW c \in Clients, NEW q, Moves(c, q),
         q.route \in StreamRoutes, q.stage \in ListedStages,
         request[c].stage \notin ListedStages,
         active' = [active EXCEPT ![q.route] = @ + 1]
  PROVE  ActiveCount'
<1>1. ASSUME NEW route \in StreamRoutes
      PROVE  active'[route] = Cardinality(Listed(route)') /\ active'[route] \in Nat
  <2>1. c \notin Listed(route)
    BY DEF Listed, ListedStages
  <2>2. CASE route = q.route
    <3>1. Listed(route)' = Listed(route) \cup {c}
      BY <2>2, ListedMoves
    <3>2. active'[route] = active[route] + 1
      BY <2>2 DEF ActiveCount
    <3> QED BY <2>1, <3>1, <3>2, CountJoin, CountedFinite DEF ActiveCount
  <2>3. CASE route # q.route
    <3>1. Listed(route)' = Listed(route)
      BY <2>1, <2>3, ListedMoves
    <3> QED BY <2>3, <3>1 DEF ActiveCount
  <2> QED BY <2>2, <2>3
<1>2. active' \in [StreamRoutes -> Nat]
  BY <1>1 DEF ActiveCount
<1> QED BY <1>1, <1>2 DEF ActiveCount

LEMMA ActiveLeaves ==
  ASSUME GaugeTypes, ActiveCount, NEW c \in Clients, NEW q, Moves(c, q),
         request[c].stage \in ListedStages, q.stage \notin ListedStages,
         active' = [active EXCEPT ![request[c].route] = @ - 1]
  PROVE  ActiveCount'
<1>1. ASSUME NEW route \in StreamRoutes
      PROVE  active'[route] = Cardinality(Listed(route)') /\ active'[route] \in Nat
  <2>1. Listed(route)' = Listed(route) \ {c}
    BY ListedMoves
  <2>2. CASE route = request[c].route
    <3>1. c \in Listed(route)
      BY <2>2 DEF Listed, ListedStages
    <3>2. active'[route] = active[route] - 1
      BY <2>2 DEF ActiveCount
    <3> QED BY <2>1, <3>1, <3>2, CountLeave, CountedFinite DEF ActiveCount
  <2>3. CASE route # request[c].route
    <3>1. Listed(route)' = Listed(route)
      BY <2>1, <2>3 DEF Listed
    <3> QED BY <2>3, <3>1 DEF ActiveCount
  <2> QED BY <2>2, <2>3
<1>2. active' \in [StreamRoutes -> Nat]
  BY <1>1 DEF ActiveCount
<1> QED BY <1>1, <1>2 DEF ActiveCount

\* The table and the gauge of users, when u comes to a route or leaves it.
LEMMA UsersJoin ==
  ASSUME GaugeTypes, UserCount, NEW c \in Clients, NEW q, Moves(c, q), NEW u \in Users,
         NEW r \in StreamRoutes, q.route = r, q.user = {u}, q.stage \in RegisteredStages,
         request[c].stage \notin RegisteredStages,
         users' = [users EXCEPT ![r][u] = @ + 1],
         unique' = [unique EXCEPT ![r] = IF users[r][u] = 0 THEN @ + 1 ELSE @]
  PROVE  UserCount'
<1>1. \A route, w : c \notin RegisteredAs(route, w)
  BY DEF RegisteredAs, Registered, RegisteredStages
<1>2. users' \in [StreamRoutes -> [Users -> Nat]]
  BY DEF UserCount
<1>3. users'[r][u] = users[r][u] + 1
  BY DEF UserCount
<1>4. \A route \in StreamRoutes, w \in Users :
        (route # r \/ w # u) => users'[route][w] = users[route][w]
  BY DEF UserCount
<1>5. ASSUME NEW route \in StreamRoutes, NEW w \in Users
      PROVE  users'[route][w] = Cardinality(RegisteredAs(route, w)')
  <2>1. CASE route = r /\ w = u
    <3>1. RegisteredAs(route, w)' = RegisteredAs(route, w) \cup {c}
      BY <2>1, RegisteredMoves
    <3> QED BY <1>1, <1>3, <2>1, <3>1, CountJoin, CountedFinite DEF UserCount
  <2>2. CASE route # r \/ w # u
    <3>1. RegisteredAs(route, w)' = RegisteredAs(route, w) \ {c}
      BY <2>2, RegisteredMoves
    <3>2. RegisteredAs(route, w)' = RegisteredAs(route, w)
      BY <3>1, <1>1
    <3> QED BY <1>4, <2>2, <3>2 DEF UserCount
  <2> QED BY <2>1, <2>2
<1>6. ASSUME NEW route \in StreamRoutes
      PROVE  unique'[route] = Cardinality(Present(route)') /\ unique'[route] \in Nat
  <2>1. CASE route = r /\ users[r][u] = 0
    <3>1. u \notin Present(r) /\ Present(r)' = Present(r) \cup {u}
      BY <1>3, <1>4, <2>1 DEF Present
    <3>2. unique'[route] = unique[route] + 1
      BY <2>1 DEF UserCount
    <3>3. Cardinality(Present(r)') = Cardinality(Present(r)) + 1 /\ Cardinality(Present(r)') \in Nat
      BY <3>1, CountJoin, CountedFinite
    <3> QED BY <2>1, <3>2, <3>3 DEF UserCount
  <2>2. CASE route # r \/ users[r][u] # 0
    <3>1. users[r][u] \in Nat
      BY DEF UserCount
    <3>2. \A w \in Users : users'[route][w] # 0 <=> users[route][w] # 0
      BY <1>3, <1>4, <2>2, <3>1
    <3>3. Present(route)' = Present(route)
      BY <3>2 DEF Present
    <3>4. unique'[route] = unique[route]
      BY <2>2 DEF UserCount
    <3> QED BY <3>3, <3>4 DEF UserCount
  <2> QED BY <2>1, <2>2
<1>7. unique' \in [StreamRoutes -> Nat]
  BY <1>6 DEF UserCount
<1> QED BY <1>2, <1>5, <1>6, <1>7 DEF UserCount

LEMMA UsersLeave ==
  ASSUME GaugeTypes, UserCount, NEW c \in Clients, NEW q, Moves(c, q), NEW u \in Users,
         NEW r \in StreamRoutes, request[c].route = r, request[c].user = {u},
         request[c].stage \in RegisteredStages, q.stage \notin RegisteredStages,
         users' = [users EXCEPT ![r][u] = @ - 1],
         unique' = [unique EXCEPT ![r] = IF users[r][u] = 1 THEN @ - 1 ELSE @]
  PROVE  UserCount'
<1>1. \A route, w : RegisteredAs(route, w)' = RegisteredAs(route, w) \ {c}
  BY RegisteredMoves
<1>2. \A route, w : c \in RegisteredAs(route, w) <=> route = r /\ w = u
  BY DEF RegisteredAs, Registered, RegisteredStages
<1>3. users'[r][u] = users[r][u] - 1
  BY DEF UserCount
<1>4. \A route \in StreamRoutes, w \in Users :
        (route # r \/ w # u) => users'[route][w] = users[route][w]
  BY DEF UserCount
<1>5. ASSUME NEW route \in StreamRoutes, NEW w \in Users
      PROVE  /\ users'[route][w] = Cardinality(RegisteredAs(route, w)')
             /\ users'[route][w] \in Nat
  <2>1. CASE route = r /\ w = u
    <3>1. c \in RegisteredAs(route, w) /\ RegisteredAs(route, w)' = RegisteredAs(route, w) \ {c}
      BY <1>1, <1>2, <2>1
    <3> QED BY <1>3, <2>1, <3>1, CountLeave, CountedFinite DEF UserCount
  <2>2. CASE route # r \/ w # u
    <3>1. RegisteredAs(route, w)' = RegisteredAs(route, w)
      BY <1>1, <1>2, <2>2
    <3> QED BY <1>4, <2>2, <3>1 DEF UserCount
  <2> QED BY <2>1, <2>2
<1>6. ASSUME NEW route \in StreamRoutes
      PROVE  unique'[route] = Cardinality(Present(route)') /\ unique'[route] \in Nat
  <2>1. CASE route = r /\ users[r][u] = 1
    <3>1. u \in Present(r) /\ Present(r)' = Present(r) \ {u}
      BY <1>3, <1>4, <2>1 DEF Present
    <3>2. unique'[route] = unique[route] - 1
      BY <2>1 DEF UserCount
    <3> QED BY <2>1, <3>1, <3>2, CountLeave, CountedFinite DEF UserCount
  <2>2. CASE route # r \/ users[r][u] # 1
    <3>1. users[r][u] \in Nat /\ users[r][u] # 0
      <4>1. Cardinality(RegisteredAs(r, u)) > 0
        BY <1>2, CountLeave, CountedFinite
      <4> QED BY <4>1 DEF UserCount
    <3>2. \A w \in Users : users'[route][w] # 0 <=> users[route][w] # 0
      BY <1>3, <1>4, <2>2, <3>1
    <3>3. Present(route)' = Present(route)
      BY <3>2 DEF Present
    <3>4. unique'[route] = unique[route]
      BY <2>2 DEF UserCount
    <3> QED BY <3>3, <3>4 DEF UserCount
  <2> QED BY <2>1, <2>2
<1>7. users' \in [StreamRoutes -> [Users -> Nat]]
  <2>1. DOMAIN users' = StreamRoutes /\ users' = [route \in StreamRoutes |-> users'[route]]
    BY DEF UserCount
  <2>2. ASSUME NEW route \in StreamRoutes PROVE users'[route] \in [Users -> Nat]
    <3>1. users'[route] = [w \in Users |-> users'[route][w]]
      BY DEF UserCount
    <3> QED BY <1>5, <3>1
  <2> QED BY <2>1, <2>2
<1>8. unique' \in [StreamRoutes -> Nat]
  BY <1>6 DEF UserCount
<1> QED BY <1>5, <1>6, <1>7, <1>8 DEF UserCount

-----------------------------------------------------------------------------
(* Every step of a client keeps the invariant.                              *)

\* What is left to show of a step of a client.
LEMMA ClientKeepsInv ==
  ASSUME IInv, NEW c \in Clients, NEW q, Moves(c, q), UNCHANGED process,
         FlightCount', ActiveCount', UserCount',
         q.stage = "none" => ~q.flight,
         q.stage \in {"waiting", "storing", "listed", "opening"} => q.flight,
         q.stage \in {"listed", "opening", "open", "delisted"} => q.route \in StreamRoutes
  PROVE  IInv'
<1>1. request' \in [Clients -> Requests]
  BY MovesOne DEF IInv
<1>2. GaugeTypes' /\ Counts'
  BY <1>1 DEF GaugeTypes, Counts, FlightCount, ActiveCount, UserCount
<1>3. StagesAgree'
  BY MovesOne DEF IInv, StagesAgree
<1>4. ProcessTypes' /\ ShutdownOrder'
  BY ProcessUnchanged DEF IInv
<1> QED BY <1>2, <1>3, <1>4 DEF IInv

LEMMA RequestFields ==
  ASSUME GaugeTypes, NEW c \in Clients
  PROVE  /\ request[c] \in Requests
         /\ request[c].stage \in Stages /\ request[c].route \in Routes
         /\ request[c].user \in Somebody /\ request[c].flight \in BOOLEAN
BY DEF GaugeTypes, Requests

\* A request that goes on to another stage, with the flag of its flight.
LEMMA GoesOn ==
  ASSUME GaugeTypes, NEW c \in Clients, NEW stage \in Stages, NEW flight \in BOOLEAN,
         request' = [request EXCEPT ![c] = [request[c] EXCEPT !.stage = stage, !.flight = flight]]
  PROVE  \E q \in Requests :
           /\ Moves(c, q)
           /\ q.stage = stage /\ q.flight = flight
           /\ q.route = request[c].route /\ q.user = request[c].user
<1> DEFINE q == [request[c] EXCEPT !.stage = stage, !.flight = flight]
<1>1. q \in Requests
  BY RequestFields DEF Requests
<1>2. q.stage = stage /\ q.flight = flight /\ q.route = request[c].route /\ q.user = request[c].user
  BY RequestFields DEF Requests
<1> QED BY <1>1, <1>2 DEF Moves

LEMMA StageGoesOn ==
  ASSUME GaugeTypes, NEW c \in Clients, NEW stage \in Stages, GoesTo(c, stage)
  PROVE  \E q \in Requests :
           /\ Moves(c, q)
           /\ q.stage = stage /\ q.flight = request[c].flight
           /\ q.route = request[c].route /\ q.user = request[c].user
<1> DEFINE q == [request[c] EXCEPT !.stage = stage]
<1>1. q \in Requests
  BY RequestFields DEF Requests
<1>2. /\ q.stage = stage /\ q.flight = request[c].flight
      /\ q.route = request[c].route /\ q.user = request[c].user
  BY RequestFields DEF Requests
<1>3. request' = [request EXCEPT ![c] = q]
  BY DEF GoesTo
<1> QED BY <1>1, <1>2, <1>3 DEF Moves

LEMMA InvParts ==
  ASSUME IInv
  PROVE  GaugeTypes /\ FlightCount /\ ActiveCount /\ UserCount
BY DEF IInv, GaugeTypes, Counts, FlightCount, ActiveCount, UserCount

LEMMA ArriveKeepsInv ==
  ASSUME IInv, NEW c \in Clients, Arrive(c)
  PROVE  IInv'
<1>1. PICK route \in Routes, user \in Somebody :
        request' = [request EXCEPT ![c] =
                      [stage |-> "waiting", route |-> route, user |-> user, flight |-> TRUE]]
  BY DEF Arrive
<1> DEFINE q == [stage |-> "waiting", route |-> route, user |-> user, flight |-> TRUE]
<1>2. Moves(c, q)
  BY <1>1 DEF Moves, Requests, Stages
<1>3. q.stage = "waiting" /\ q.flight
  OBVIOUS
<1> HIDE DEF q
<1>4. request[c].stage = "none" /\ ~request[c].flight
  BY DEF Arrive, At, IInv, StagesAgree
<1>5. FlightCount'
  BY <1>2, <1>3, <1>4, InvParts, FlightJoins DEF Arrive
<1>6. ActiveCount'
  BY <1>2, <1>3, <1>4, InvParts, ActiveKept DEF Arrive, ListedStages
<1>7. UserCount'
  BY <1>2, <1>3, <1>4, InvParts, UsersKept DEF Arrive, RegisteredStages
<1> QED BY <1>2, <1>3, <1>5, <1>6, <1>7, ClientKeepsInv DEF Arrive

\* Store and Stored.
LEMMA StoreKeepsInv ==
  ASSUME IInv, NEW c \in Clients, Store(c) \/ Stored(c)
  PROVE  IInv'
<1>1. PICK stage \in {"storing", "leaving"} : GoesTo(c, stage)
  BY DEF Store, Stored
<1>2. /\ request[c].stage \in {"waiting", "storing"} /\ request[c].flight
      /\ UNCHANGED <<process, gauges>>
  BY DEF Store, Stored, Runs, At, IInv, StagesAgree
<1>3. PICK q \in Requests :
        /\ Moves(c, q)
        /\ q.stage = stage /\ q.flight = request[c].flight
        /\ q.route = request[c].route /\ q.user = request[c].user
  BY <1>1, StageGoesOn, InvParts DEF Stages
<1>4. FlightCount'
  BY <1>2, <1>3, InvParts, FlightKept DEF gauges
<1>5. ActiveCount'
  BY <1>2, <1>3, InvParts, ActiveKept DEF gauges, ListedStages
<1>6. UserCount'
  BY <1>2, <1>3, InvParts, UsersKept DEF gauges, RegisteredStages
<1> QED BY <1>2, <1>3, <1>4, <1>5, <1>6, ClientKeepsInv

LEMMA ListKeepsInv ==
  ASSUME IInv, NEW c \in Clients, List(c)
  PROVE  IInv'
<1>1. /\ request[c].stage = "waiting" /\ request[c].flight
      /\ request[c].route \in StreamRoutes
      /\ active' = [active EXCEPT ![request[c].route] = @ + 1]
      /\ UNCHANGED <<process, inFlight, users, unique>>
  BY DEF List, Runs, At, IInv, StagesAgree
<1>2. PICK q \in Requests :
        /\ Moves(c, q)
        /\ q.stage = "listed" /\ q.flight = request[c].flight
        /\ q.route = request[c].route /\ q.user = request[c].user
  BY StageGoesOn, InvParts DEF List, Stages
<1>3. FlightCount'
  BY <1>1, <1>2, InvParts, FlightKept
<1>4. ActiveCount'
  BY <1>1, <1>2, InvParts, ActiveJoins DEF ListedStages
<1>5. UserCount'
  BY <1>1, <1>2, InvParts, UsersKept DEF RegisteredStages
<1> QED BY <1>1, <1>2, <1>3, <1>4, <1>5, ClientKeepsInv

LEMMA RegisterKeepsInv ==
  ASSUME IInv, NEW c \in Clients, Register(c)
  PROVE  IInv'
<1>1. /\ request[c].stage = "listed" /\ request[c].flight
      /\ request[c].route \in StreamRoutes
      /\ UNCHANGED <<process, inFlight, active>>
  BY DEF Register, Runs, At, IInv, StagesAgree
<1>2. PICK q \in Requests :
        /\ Moves(c, q)
        /\ q.stage = "opening" /\ q.flight = request[c].flight
        /\ q.route = request[c].route /\ q.user = request[c].user
  BY StageGoesOn, InvParts DEF Register, Stages
<1>3. FlightCount'
  BY <1>1, <1>2, InvParts, FlightKept
<1>4. ActiveCount'
  BY <1>1, <1>2, InvParts, ActiveKept DEF ListedStages
<1>5. UserCount'
  <2>1. CASE request[c].user = {} /\ UNCHANGED <<users, unique>>
    BY <1>2, <2>1, InvParts, UsersKept
  <2>2. ASSUME NEW u \in request[c].user,
               users' = [users EXCEPT ![request[c].route][u] = @ + 1],
               unique' = [unique EXCEPT ![request[c].route] =
                            IF users[request[c].route][u] = 0 THEN @ + 1 ELSE @]
        PROVE  UserCount'
    <3>1. u \in Users /\ request[c].user = {u}
      BY RequestFields, InvParts DEF Somebody
    <3> QED BY <1>1, <1>2, <2>2, <3>1, InvParts, UsersJoin DEF RegisteredStages
  <2> QED BY <2>1, <2>2 DEF Register
<1> QED BY <1>1, <1>2, <1>3, <1>4, <1>5, ClientKeepsInv

LEMMA OpenedKeepsInv ==
  ASSUME IInv, NEW c \in Clients, Opened(c)
  PROVE  IInv'
<1>1. /\ request[c].stage = "opening" /\ request[c].flight
      /\ request[c].route \in StreamRoutes
      /\ inFlight' = inFlight - 1
      /\ UNCHANGED <<process, active, users, unique>>
  BY DEF Opened, Runs, At, IInv, StagesAgree
<1>2. PICK q \in Requests :
        /\ Moves(c, q)
        /\ q.stage = "open" /\ q.flight = FALSE
        /\ q.route = request[c].route /\ q.user = request[c].user
  <2>1. request' = [request EXCEPT ![c] = [request[c] EXCEPT !.stage = "open", !.flight = FALSE]]
    BY DEF Opened
  <2> QED BY <2>1, GoesOn, InvParts DEF Stages
<1>3. FlightCount'
  BY <1>1, <1>2, InvParts, FlightLeaves
<1>4. ActiveCount'
  BY <1>1, <1>2, InvParts, ActiveKept DEF ListedStages
<1>5. UserCount'
  BY <1>1, <1>2, InvParts, UsersKept DEF RegisteredStages
<1> QED BY <1>1, <1>2, <1>3, <1>4, <1>5, ClientKeepsInv

LEMMA DelistKeepsInv ==
  ASSUME IInv, NEW c \in Clients, Delist(c)
  PROVE  IInv'
<1>1. /\ request[c].stage \in {"opening", "open"}
      /\ request[c].route \in StreamRoutes
      /\ active' = [active EXCEPT ![request[c].route] = @ - 1]
      /\ UNCHANGED <<process, inFlight, users, unique>>
  BY DEF Delist, At, IInv, StagesAgree
<1>2. PICK q \in Requests :
        /\ Moves(c, q)
        /\ q.stage = "delisted" /\ q.flight = request[c].flight
        /\ q.route = request[c].route /\ q.user = request[c].user
  BY StageGoesOn, InvParts DEF Delist, Stages
<1>3. FlightCount'
  BY <1>1, <1>2, InvParts, FlightKept
<1>4. ActiveCount'
  BY <1>1, <1>2, InvParts, ActiveLeaves DEF ListedStages
<1>5. UserCount'
  BY <1>1, <1>2, InvParts, UsersKept DEF RegisteredStages
<1> QED BY <1>1, <1>2, <1>3, <1>4, <1>5, ClientKeepsInv

LEMMA DeregisterKeepsInv ==
  ASSUME IInv, NEW c \in Clients, Deregister(c)
  PROVE  IInv'
<1>1. /\ request[c].stage = "delisted"
      /\ request[c].route \in StreamRoutes
      /\ UNCHANGED <<process, inFlight, active>>
  BY DEF Deregister, At, IInv, StagesAgree
<1>2. PICK q \in Requests :
        /\ Moves(c, q)
        /\ q.stage = "leaving" /\ q.flight = request[c].flight
        /\ q.route = request[c].route /\ q.user = request[c].user
  BY StageGoesOn, InvParts DEF Deregister, Stages
<1>3. FlightCount'
  BY <1>1, <1>2, InvParts, FlightKept
<1>4. ActiveCount'
  BY <1>1, <1>2, InvParts, ActiveKept DEF ListedStages
<1>5. UserCount'
  <2>1. CASE request[c].user = {} /\ UNCHANGED <<users, unique>>
    BY <1>2, <2>1, InvParts, UsersKept
  <2>2. ASSUME NEW u \in request[c].user,
               users' = [users EXCEPT ![request[c].route][u] = @ - 1],
               unique' = [unique EXCEPT ![request[c].route] =
                            IF users[request[c].route][u] = 1 THEN @ - 1 ELSE @]
        PROVE  UserCount'
    <3>1. u \in Users /\ request[c].user = {u}
      BY RequestFields, InvParts DEF Somebody
    <3> QED BY <1>1, <1>2, <2>2, <3>1, InvParts, UsersLeave DEF RegisteredStages
  <2> QED BY <2>1, <2>2 DEF Deregister
<1> QED BY <1>1, <1>2, <1>3, <1>4, <1>5, ClientKeepsInv

LEMMA LeaveKeepsInv ==
  ASSUME IInv, NEW c \in Clients, Leave(c)
  PROVE  IInv'
<1>1. /\ request[c].stage \in {"waiting", "storing", "leaving"}
      /\ inFlight' = IF request[c].flight THEN inFlight - 1 ELSE inFlight
      /\ UNCHANGED <<process, active, users, unique>>
  BY DEF Leave, At
<1>2. Moves(c, NoRequest) /\ NoRequest.stage = "none" /\ ~NoRequest.flight
  BY DEF Leave, Moves, NoRequest, Requests, Stages, Routes, Somebody
<1>3. FlightCount'
  <2>1. CASE request[c].flight
    BY <1>1, <1>2, <2>1, InvParts, FlightLeaves
  <2>2. CASE ~request[c].flight
    BY <1>1, <1>2, <2>2, InvParts, FlightKept
  <2> QED BY <2>1, <2>2
<1>4. ActiveCount'
  BY <1>1, <1>2, InvParts, ActiveKept DEF ListedStages
<1>5. UserCount'
  BY <1>1, <1>2, InvParts, UsersKept DEF RegisteredStages
<1> QED BY <1>1, <1>2, <1>3, <1>4, <1>5, ClientKeepsInv

-----------------------------------------------------------------------------
(* The invariant holds.                                                     *)

LEMMA InitInv == Init => IInv
<1> SUFFICES ASSUME Init PROVE IInv
  OBVIOUS
<1>1. ProcessTypes /\ ShutdownOrder
  BY DEF Init, ProcessTypes, ShutdownOrder, LetGo
<1>2. NoRequest \in Requests /\ NoRequest.stage = "none" /\ ~NoRequest.flight
  BY DEF NoRequest, Requests, Stages, Routes, Somebody
<1>3. GaugeTypes /\ StagesAgree
  BY <1>2 DEF Init, GaugeTypes, StagesAgree
<1>4. /\ InFlight = {}
      /\ \A route : Listed(route) = {}
      /\ \A route, u : RegisteredAs(route, u) = {}
      /\ \A route \in StreamRoutes : Present(route) = {}
  BY <1>2 DEF Init, InFlight, Listed, RegisteredAs, Registered, Present
<1>5. Counts
  BY <1>4, FS_EmptySet DEF Init, Counts
<1> QED BY <1>1, <1>3, <1>5 DEF IInv

LEMMA StutterKeepsInv == IInv /\ UNCHANGED vars => IInv'
BY CountsUnchanged, ProcessUnchanged DEF IInv, vars

LEMMA NextKeepsInv == IInv /\ [Next]_vars => IInv'
<1> SUFFICES ASSUME IInv, [Next]_vars PROVE IInv'
  OBVIOUS
<1>1. CASE ProcessStep
  BY <1>1, ProcessKeepsInv
<1>2. CASE UNCHANGED vars
  BY <1>2, StutterKeepsInv
<1>3. ASSUME NEW c \in Clients,
             \/ Arrive(c) \/ Store(c) \/ Stored(c) \/ List(c) \/ Register(c) \/ Opened(c)
             \/ Delist(c) \/ Deregister(c) \/ Leave(c)
      PROVE  IInv'
  BY <1>3, ArriveKeepsInv, StoreKeepsInv, ListKeepsInv, RegisterKeepsInv, OpenedKeepsInv,
     DelistKeepsInv, DeregisterKeepsInv, LeaveKeepsInv
<1> QED BY <1>1, <1>2, <1>3 DEF Next, ProcessStep

LEMMA InvHolds == Spec => []IInv
BY InitInv, NextKeepsInv, PTL DEF Spec

-----------------------------------------------------------------------------
(* Theorems.                                                                *)

\* All variables are well typed: no gauge is ever negative, whoever leaves when.
THEOREM TypeCorrect == Spec => []TypeOK
<1>1. IInv => TypeOK
  BY DEF IInv, ProcessTypes, GaugeTypes, Requests, TypeOK
<1> QED BY <1>1, InvHolds, PTL

\* The gauges of SseConnectionGuard and InFlightGuard are exact in every state, for any
\* number of clients, users and routes.
THEOREM GaugesAreExact == Spec => []GaugesMatchConnections
<1>1. IInv => GaugesMatchConnections
  BY PresentAreRegistered DEF IInv, Counts, GaugesMatchConnections
<1> QED BY <1>1, InvHolds, PTL

\* Once the shutdown task has flushed the backend, no request works on it.
THEOREM NothingAfterShutdown == Spec => NoOperationAfterShutdown
<1>1. IInv /\ [Next]_vars => [LetGo => \A c \in Clients : NoProgress(c)]_vars
  <2> SUFFICES ASSUME IInv, Next, LetGo, NEW c \in Clients
               PROVE  NoProgress(c)
    BY DEF vars
  <2>1. http = "down" /\ main # "connecting"
    BY DEF IInv, ShutdownOrder
  <2>2. GaugeTypes
    BY DEF IInv
  <2>3. CASE UNCHANGED request
    BY <2>3 DEF NoProgress
  <2>4. CASE ProcessStep
    BY <2>3, <2>4 DEF ProcessStep, ConnectFails, Connects, Signal, BeginShutdown,
       MetricsServerStops, AwaitMetricsServer, ServerStops, AwaitServer, Flush, Drain,
       ServersDown, Exit
  <2>5. ASSUME NEW d \in Clients, Delist(d) PROVE NoProgress(c)
    BY <2>2, <2>5 DEF Delist, GoesTo, NoProgress, GaugeTypes, Requests
  <2>6. ASSUME NEW d \in Clients, Deregister(d) PROVE NoProgress(c)
    <3>1. request[d].stage = "delisted" /\ request' = [request EXCEPT ![d].stage = "leaving"]
      BY <2>6 DEF Deregister, GoesTo, At
    <3> QED BY <2>2, <3>1 DEF NoProgress, GaugeTypes, Requests
  <2>7. ASSUME NEW d \in Clients, Leave(d) PROVE NoProgress(c)
    BY <2>2, <2>7 DEF Leave, NoRequest, NoProgress, GaugeTypes, Requests
  <2>8. ASSUME NEW d \in Clients,
               Arrive(d) \/ Store(d) \/ Stored(d) \/ List(d) \/ Register(d) \/ Opened(d)
        PROVE  FALSE
    BY <2>1, <2>8 DEF Arrive, Store, Stored, List, Register, Opened, Runs
  <2> QED BY <2>4, <2>5, <2>6, <2>7, <2>8 DEF Next, ProcessStep
<1> QED BY <1>1, InvHolds, PTL DEF Spec, NoOperationAfterShutdown
=============================================================================
