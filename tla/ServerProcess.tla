----------------------------- MODULE ServerProcess -----------------------------
(***************************************************************************)
(* The process around the requests: it connects to the backend and serves  *)
(* (src/startup.rs, main.rs), counts what is in flight and who is connected *)
(* (src/metrics.rs, src/middleware/http_metrics.rs), and after a signal    *)
(* stops its servers one after the other and lets go of the backend.       *)
(*                                                                         *)
(* A signal cancels a token.  A task, here the stopper, waits for it and   *)
(* stops the servers, while main waits for the servers themselves and ends  *)
(* the process when both are down, wherever the stopper is.  A server that *)
(* is stopped takes no new connection, serves those it has and gives up    *)
(* on them after a time (actix-web, seen from here).                       *)
(*                                                                         *)
(* A request is a thread of its own: it can be interrupted between any two *)
(* steps, and dropped where it awaits something.                           *)
(***************************************************************************)
EXTENDS Naturals, FiniteSets

CONSTANTS
  Clients,          \* each has one request at a time
  Users,            \* names of authenticated users
  StreamRoutes,     \* the routes of SSE connections
  MetricsEnabled,   \* whether there is a metrics server
  RetryAttempts     \* retry_attempts of the backend

ASSUME ServerProcessAssumption ==
  /\ IsFiniteSet(Clients)
  /\ IsFiniteSet(Users)
  /\ "notification" \notin StreamRoutes
  /\ MetricsEnabled \in BOOLEAN
  /\ RetryAttempts \in Nat

VARIABLES
  main,           \* where main is
  attempt,        \* connection attempts made
  cancelled,      \* the shutdown token
  stopper,        \* where the shutdown task is
  http,           \* the server of the API
  metricsServer,
  backend,        \* up until it is flushed and drained
  request,        \* of each client
  inFlight,       \* the gauge http_requests_in_flight
  active,         \* the gauge sse_connections_active
  users,          \* connections of a user on a route, under a lock
  unique          \* the gauge sse_unique_users_active

process == <<main, attempt, cancelled, stopper, http, metricsServer, backend>>
gauges == <<inFlight, active, users, unique>>
vars == <<process, request, gauges>>

Routes == StreamRoutes \cup {"notification"}
Somebody == {{}} \cup {{u} : u \in Users}

\* stage is where the request is: storing and opening are backend operations, an open
\* stream outlives the call of its handler (flight).
Stages ==
  {"none", "waiting", "storing", "listed", "opening", "open", "delisted", "leaving"}

NoRequest == [stage |-> "none", route |-> "notification", user |-> {}, flight |-> FALSE]

Attempts == IF RetryAttempts = 0 THEN 1 ELSE RetryAttempts

Init ==
  /\ main = "connecting" /\ attempt = 0 /\ cancelled = FALSE
  /\ stopper = "none" /\ http = "none" /\ metricsServer = "none" /\ backend = "none"
  /\ request = [c \in Clients |-> NoRequest]
  /\ inFlight = 0
  /\ active = [route \in StreamRoutes |-> 0]
  /\ users = [route \in StreamRoutes |-> [u \in Users |-> 0]]
  /\ unique = [route \in StreamRoutes |-> 0]

Running == main \notin {"exited", "failed"}

-----------------------------------------------------------------------------
(* Startup.                                                                 *)

\* An attempt of the JetStream backend fails; the last one is an error.
ConnectFails ==
  /\ main = "connecting"
  /\ attempt' = attempt + 1
  /\ main' = IF attempt' >= Attempts THEN "failed" ELSE main
  /\ UNCHANGED <<cancelled, stopper, http, metricsServer, backend, request, gauges>>

\* Application::build from its backend on.
Connects ==
  /\ main = "connecting"
  /\ attempt' = attempt + 1
  /\ \/ /\ main' = "serving" /\ stopper' = "waiting" /\ http' = "up" /\ backend' = "up"
        /\ metricsServer' = IF MetricsEnabled THEN "up" ELSE "down"
     \/ /\ MetricsEnabled   \* the port of the metrics is taken
        /\ main' = "failed" /\ UNCHANGED <<stopper, http, metricsServer, backend>>
  /\ UNCHANGED <<cancelled, request, gauges>>

-----------------------------------------------------------------------------
(* Shutdown.                                                                *)

\* SIGINT or SIGTERM, at any time.
Signal ==
  /\ Running /\ ~cancelled
  /\ cancelled' = TRUE
  /\ UNCHANGED <<main, attempt, stopper, http, metricsServer, backend, request, gauges>>

\* Mutation of BeginShutdown: the metrics server is forgotten.
BeginShutdownOfApi ==
  /\ Running /\ stopper = "waiting" /\ cancelled
  /\ stopper' = "server" /\ http' = "stopping"
  /\ UNCHANGED <<main, attempt, cancelled, metricsServer, backend, request, gauges>>

\* The metrics server goes first: until it is down the API takes new connections.
BeginShutdown ==
  /\ Running /\ stopper = "waiting" /\ cancelled
  /\ IF MetricsEnabled
     THEN stopper' = "metrics" /\ metricsServer' = "stopping" /\ UNCHANGED http
     ELSE stopper' = "server" /\ http' = "stopping" /\ UNCHANGED metricsServer
  /\ UNCHANGED <<main, attempt, cancelled, backend, request, gauges>>

\* Its connections are closed, or it gives up on them.
MetricsServerStops ==
  /\ Running /\ metricsServer = "stopping"
  /\ metricsServer' = "down"
  /\ UNCHANGED <<main, attempt, cancelled, stopper, http, backend, request, gauges>>

AwaitMetricsServer ==
  /\ Running /\ stopper = "metrics" /\ metricsServer = "down"
  /\ stopper' = "server" /\ http' = "stopping"
  /\ UNCHANGED <<main, attempt, cancelled, metricsServer, backend, request, gauges>>

\* The same of the API, with 30 seconds.  Requests that are left are dropped.
ServerStops ==
  /\ Running /\ http = "stopping"
  /\ http' = "down"
  /\ UNCHANGED <<main, attempt, cancelled, stopper, metricsServer, backend, request, gauges>>

\* Mutation of AwaitServer: the stop of the server is not awaited.
AwaitNothing ==
  /\ Running /\ stopper = "server"
  /\ stopper' = "flush"
  /\ UNCHANGED <<main, attempt, cancelled, http, metricsServer, backend, request, gauges>>

AwaitServer ==
  /\ Running /\ stopper = "server" /\ http = "down"
  /\ stopper' = "flush"
  /\ UNCHANGED <<main, attempt, cancelled, http, metricsServer, backend, request, gauges>>

\* shutdown_backend: a flush that fails leaves the connection undrained.
Flush ==
  /\ Running /\ stopper = "flush"
  /\ \/ stopper' = "drain" /\ backend' = "flushed"
     \/ stopper' = "done" /\ UNCHANGED backend
  /\ UNCHANGED <<main, attempt, cancelled, http, metricsServer, request, gauges>>

Drain ==
  /\ Running /\ stopper = "drain"
  /\ stopper' = "done" /\ backend' = "drained"
  /\ UNCHANGED <<main, attempt, cancelled, http, metricsServer, request, gauges>>

\* run_until_stopped, then the log records; nobody waits for the stopper.
ServersDown ==
  /\ main = "serving" /\ http = "down" /\ metricsServer = "down"
  /\ main' = "flushing"
  /\ UNCHANGED <<attempt, cancelled, stopper, http, metricsServer, backend, request, gauges>>

Exit ==
  /\ main = "flushing"
  /\ main' = "exited"
  /\ UNCHANGED <<attempt, cancelled, stopper, http, metricsServer, backend, request, gauges>>

-----------------------------------------------------------------------------
(* Requests.                                                                *)

At(c, stage) == Running /\ request[c].stage = stage

\* Handlers run on the workers of the server.
Runs(c, stage) == At(c, stage) /\ http # "down"

GoesTo(c, stage) == request' = [request EXCEPT ![c].stage = stage]

\* HttpMetrics counts it.  A connection that is kept alive may bring it to a server
\* that is stopping.
Arrive(c) ==
  /\ At(c, "none") /\ http \in {"up", "stopping"}
  /\ \E route \in Routes, user \in Somebody :
       request' = [request EXCEPT ![c] =
                     [stage |-> "waiting", route |-> route, user |-> user, flight |-> TRUE]]
  /\ inFlight' = inFlight + 1
  /\ UNCHANGED <<process, active, users, unique>>

\* An operation of the backend starts, and ends.
Store(c) ==
  /\ Runs(c, "waiting") /\ request[c].route = "notification"
  /\ GoesTo(c, "storing")
  /\ UNCHANGED <<process, gauges>>

Stored(c) ==
  /\ Runs(c, "storing")
  /\ GoesTo(c, "leaving")
  /\ UNCHANGED <<process, gauges>>

\* track_sse_connection: first the gauge, then the users under their lock.
List(c) ==
  LET route == request[c].route
  IN /\ Runs(c, "waiting") /\ route \in StreamRoutes
     /\ active' = [active EXCEPT ![route] = @ + 1]
     /\ GoesTo(c, "listed")
     /\ UNCHANGED <<process, inFlight, users, unique>>

Register(c) ==
  LET route == request[c].route
  IN /\ Runs(c, "listed")
     /\ \/ request[c].user = {} /\ UNCHANGED <<users, unique>>
        \/ \E u \in request[c].user :
             /\ users' = [users EXCEPT ![route][u] = @ + 1]
             /\ unique' = [unique EXCEPT ![route] = IF users[route][u] = 0 THEN @ + 1 ELSE @]
     /\ GoesTo(c, "opening")
     /\ UNCHANGED <<process, inFlight, active>>

\* The guard moves into the body of the answer.
Opened(c) ==
  /\ Runs(c, "opening")
  /\ request' = [request EXCEPT ![c].stage = "open", ![c].flight = FALSE]
  /\ inFlight' = inFlight - 1
  /\ UNCHANGED <<process, active, users, unique>>

\* SseConnectionGuard::drop, in the same order: the stream ends, its client leaves,
\* or it could not be opened.
Delist(c) ==
  LET route == request[c].route
  IN /\ At(c, "open") \/ At(c, "opening")
     /\ active' = [active EXCEPT ![route] = @ - 1]
     /\ GoesTo(c, "delisted")
     /\ UNCHANGED <<process, inFlight, users, unique>>

\* Mutation of Deregister: the gauge goes down with every connection.
DeregisterEvery(c) ==
  LET route == request[c].route
  IN /\ At(c, "delisted")
     /\ \/ request[c].user = {} /\ UNCHANGED <<users, unique>>
        \/ \E u \in request[c].user :
             /\ users' = [users EXCEPT ![route][u] = @ - 1]
             /\ unique' = [unique EXCEPT ![route] = IF @ = 0 THEN @ ELSE @ - 1]
     /\ GoesTo(c, "leaving")
     /\ UNCHANGED <<process, inFlight, active>>

Deregister(c) ==
  LET route == request[c].route
  IN /\ At(c, "delisted")
     /\ \/ request[c].user = {} /\ UNCHANGED <<users, unique>>
        \/ \E u \in request[c].user :
             /\ users' = [users EXCEPT ![route][u] = @ - 1]
             /\ unique' = [unique EXCEPT ![route] = IF users[route][u] = 1 THEN @ - 1 ELSE @]
     /\ GoesTo(c, "leaving")
     /\ UNCHANGED <<process, inFlight, active>>

\* A request is over: answered, or dropped where it waits.
Leave(c) ==
  /\ At(c, "waiting") \/ At(c, "storing") \/ At(c, "leaving")
  /\ request' = [request EXCEPT ![c] = NoRequest]
  /\ inFlight' = IF request[c].flight THEN inFlight - 1 ELSE inFlight
  /\ UNCHANGED <<process, active, users, unique>>

Next ==
  \/ ConnectFails \/ Connects \/ Signal
  \/ BeginShutdown \/ MetricsServerStops \/ AwaitMetricsServer
  \/ ServerStops \/ AwaitServer \/ Flush \/ Drain \/ ServersDown \/ Exit
  \/ \E c \in Clients :
       \/ Arrive(c) \/ Store(c) \/ Stored(c) \/ List(c) \/ Register(c) \/ Opened(c)
       \/ Delist(c) \/ Deregister(c) \/ Leave(c)

\* Attempts, stops and flushes have timeouts; tasks that can go on do.
Fairness ==
  /\ WF_vars(ConnectFails \/ Connects)
  /\ WF_vars(BeginShutdown) /\ WF_vars(MetricsServerStops) /\ WF_vars(AwaitMetricsServer)
  /\ WF_vars(ServerStops) /\ WF_vars(ServersDown) /\ WF_vars(Exit)

Spec == Init /\ [][Next]_vars /\ Fairness

-----------------------------------------------------------------------------
(* Properties.                                                              *)

\* Type invariant.
TypeOK ==
  /\ main \in {"connecting", "serving", "flushing", "exited", "failed"}
  /\ attempt \in Nat
  /\ cancelled \in BOOLEAN
  /\ stopper \in {"none", "waiting", "metrics", "server", "flush", "drain", "done"}
  /\ http \in {"none", "up", "stopping", "down"}
  /\ metricsServer \in {"none", "up", "stopping", "down"}
  /\ backend \in {"none", "up", "flushed", "drained"}
  /\ request \in [Clients -> [stage : Stages, route : Routes, user : Somebody, flight : BOOLEAN]]
  /\ inFlight \in Nat
  /\ active \in [StreamRoutes -> Nat]
  /\ users \in [StreamRoutes -> [Users -> Nat]]
  /\ unique \in [StreamRoutes -> Nat]

InFlight == {c \in Clients : request[c].flight}

Listed(route) ==
  {c \in Clients : request[c].route = route /\ request[c].stage \in {"listed", "opening", "open"}}

Registered(route) ==
  {c \in Clients : request[c].route = route /\ request[c].stage \in {"opening", "open", "delisted"}}

\* The gauges never leak and never miss: whatever steps of connections come between
\* the two halves of a registration, and wherever a request is dropped, each gauge is
\* the number of what it counts, and a user with several connections on a route counts
\* once until the last of them is gone.
GaugesMatchConnections ==
  /\ inFlight = Cardinality(InFlight)
  /\ \A route \in StreamRoutes :
       /\ active[route] = Cardinality(Listed(route))
       /\ unique[route] = Cardinality(UNION {request[c].user : c \in Registered(route)})

LetGo == backend \in {"flushed", "drained"}

NoProgress(c) ==
  /\ request'[c].stage \in {"storing", "opening", "open"} => request'[c].stage = request[c].stage
  /\ request[c].stage = "storing" => request'[c].stage # "leaving"

\* Once the backend is let go of, no request begins an operation on it, finishes one
\* or opens a stream (the order of the steps of the task at src/startup.rs:247).
NoOperationAfterShutdown ==
  [][LetGo => \A c \in Clients : NoProgress(c)]_vars

\* A signal is not lost, whenever it comes: the process ends, whether its clients leave
\* or not (src/startup.rs:247-316, src/main.rs:76-126).
ShutdownCompletes == cancelled ~> ~Running
=============================================================================
