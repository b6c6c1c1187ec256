# aviso-server in TLA+

Aviso is a notification server.  Producers publish notifications over HTTP;
consumers read them over HTTP as server-sent events (SSE), live (`/watch`),
from a point in history and then live (`/watch` with a start point), or
history only (`/replay`).  Messages are kept by one of two backends, an
in-memory store or NATS JetStream.  This directory models the parts of the
server whose correctness depends on order, concurrency, failure and limits,
checks them with TLC on small instances, and proves theorems about them with
TLAPS.  Paths below are relative to the repository root.

## 1. Inventory

| Component | State | Operations | Hard behaviour | Correct when |
|---|---|---|---|---|
| Backend contract (`src/notification_backend/mod.rs`, `replay.rs`, `src/types/response.rs`) | a log of numbered messages, live subscriptions | publish, batch, history end, first sequence after a date, subscribe, wipe, delete | retention removes what a reader is about to read | a sequence is used once, in storage order; a subscription starts at exactly one sequence; a page skips nothing |
| In-memory backend (`in_memory/backend.rs`) | per-topic deques, the next sequence, a broadcast channel, all behind one mutex | the trait's operations, topic eviction, pruning | eviction at the limits, lagging receivers, empty topics | bounded, ordered, implements the contract |
| JetStream backend (`jetstream/*.rs`) | streams on a NATS server, ephemeral pull consumers, one client connection | ensure stream (get, create, reconcile), publish with retry, paged fetch, subscribe with retry, purge, delete | lost acknowledgements, reconnects, replicas racing to create a stream, coarse subjects filtered again by the server | implements the contract; at most one copy per request; replicas converge |
| SSE streaming (`src/sse/*.rs`) | per connection: paging cursor, quota counter, stop future, the subscription | live, replay-then-live and replay-only streams, heartbeats, close frame | the switch from history to live while messages keep coming, quota, batch failure, expiry, shutdown | ordered, complete up to the boundary, nothing twice, protocol of frames, ends |
| Watch, replay, notify endpoints (`src/routes`, `src/handlers`) | none | parse, authorize, process, open a stream or store | order of the checks, clients that leave between a store and its answer | a request that is refused changes nothing, and each answer is counted once |
| Request pipeline (`notification/processor.rs`, `topic_builder.rs`, `topic_codec.rs`, `topic_parser.rs`, `types/request.rs`) | none | validate identifiers, build the topic, read it back | spellings, reserved characters, fields that are left out | equal notifications share a topic, others do not; fields survive the way through a topic |
| Patterns and filters (`wildcard_matcher.rs`, `spatial.rs`) | none | analyse a pattern into a coarse subject and a filter, match a topic, constraints, geometry | three filters that may disagree | a reader gets what was asked for and nothing else |
| Field validators (`aviso-validators`) | none | canonical text of a value, constraint objects | one value in several spellings, ranges, negative zero | both sides of a match bring a value to the same text |
| Authentication, stream authorization (`src/auth`, `src/routes/streaming.rs`, `helpers.rs`) | none per request | middleware, tokens, read and write roles, administration | missing credentials, outages of auth-o-tron, defaults when a rule is absent | nothing happens that the policy does not allow; what is public stays open |
| ECPDS plugin (`aviso-ecpds`) | a per-user cache of destinations with expiry | single-flight fetch, merge of several servers | concurrent misses, partial outages, failures not cached | one upstream call per miss; a failure is never served from the cache |
| Lifecycle (`main.rs`, `startup.rs`) | the shutdown token, two servers, the backend | connect, serve, stop, flush, drain, exit | the stop runs in a task nobody awaits | streams end, then the servers, then the backend; the process ends |
| Metrics (`metrics.rs`, `middleware/http_metrics.rs`) | gauges, counters, connections per user and route | guards around connections and requests | connections of one user that open and close at once | gauges are exact, counters agree with the answers |
| Configuration (`src/configuration`) | immutable after startup | load, complete with defaults, validate | settings another part takes for granted | what the other parts assume is validated |
| Telemetry, CloudEvents, errors, schema and home pages | none that others read | rendering and export | | |

How they interact: `notify` stores through the backend trait
(`handlers/storage.rs`); the backend offers what it stored to the live
subscriptions; a stream calls `subscribe_to_topic` once or `history_end` and
`first_sequence_after` once, then `get_messages_batch` for as long as a page
announces more; one task polls each response body; one cancellation token is
shared by all streams and by the task that stops the servers.

A request to the API passes, in this order: the metrics middleware, the
authentication middleware (`auth/middleware.rs`, which may ask auth-o-tron), the
checks of its handler, stream authorization, the ECPDS plugin, and then the
backend.  Each of these relies on what the ones before it let through and on what
`configuration/validation.rs` refused at startup; that dependence across files
is what `Gateway` and `Routing` are about.

`PROJECT.json` lists every hazard of this code at its line with the properties
that cover it.

## 2. Modules

| Module | Models |
|---|---|
| `NotificationLog` | the contract of the trait `NotificationBackend`: what any backend promises |
| `MessageOrder` | sets of messages in the order of their sequences, as the code sorts them |
| `OrderLemmas` | lemmas about least elements, ranks, ordered sets of messages, and sequences, for the proofs |
| `MemoryBackend` | the in-memory backend; implements `NotificationLog` (`ImplementsLog`, proved) |
| `MemoryBackendProofs` | theorems about `MemoryBackend` |
| `JetStreamBackend` | subscriptions, paged history, date lookups, purges over one JetStream stream; implements `NotificationLog` (`ImplementsLog`, proved) |
| `JetStreamBackendProofs` | theorems about `JetStreamBackend` |
| `JetStreamPublisher` | publication with retries, creation and reconciliation of the stream by several replicas |
| `JetStreamPublisherProofs` | theorems about `JetStreamPublisher` |
| `StreamContract` | what the client of one connection may rely on, in frames |
| `SseStream` | the SSE connections, over `NotificationLog`; implements `StreamContract` for every connection (`ImplementsContract`, proved) |
| `SseStreamProofs` | theorems about `SseStream` |
| `Configuration` | the settings and every check of `Application::build` on them |
| `FieldValues` | values of fields: handlers of `aviso-validators`, constraint objects, geometry, and the meaning of a value as the reference |
| `Routing` | how a notification finds its readers: fields, topics, patterns, filters, events |
| `Gateway` | who may do what: middleware, checks of the handlers, authorization, plugin, backend answers, counters |
| `GatewayProofs` | theorems about `Gateway` |
| `ServerProcess` | startup, shutdown, gauges of requests, connections and users |
| `ServerProcessProofs` | theorems about `ServerProcess` |
| `EcpdsAccess` | the ECPDS check of a request: cache, shared fetch, servers that fail, policies |
| `ReadAccessProofs` | theorems about reading: `EcpdsAccess` (who is let in) and `Routing` (what comes through) |
| `MCMemoryBackend`, `MCJetStreamBackend`, `MCJetStreamPublisher`, `MCSseStream`, `MCEcpdsAccess`, `MCRouting`, `MCGateway`, `MCServerProcess` | values of the constants for TLC |

The composition is by contract.  `SseStream` EXTENDS `NotificationLog`, so its
connections run over *any* behaviour the contract allows: any retained message
may vanish at any time, any subscription may lose messages queued for it.
`MemoryBackend` and `JetStreamBackend` are both proved to stay within that
contract for the steps of publication, retention and subscriptions
(`IsNotificationLog`), and to answer queries as it says (`RepliesArePages`,
`EndDatesSplitHistory`).  Streaming properties therefore hold over either backend.

`Routing` and `Gateway` EXTEND `Configuration`: a behaviour begins with settings
as an operator may write them, and `Start` either serves or refuses them with
the checks of the code.  What either module needs from the settings it therefore
gets from `Accepts` and from nowhere else, and a check that is dropped there
shows up as a violation here (two of the mutants are such).  `Routing` takes
requests that are authorized, `Gateway` takes a body that is in order or is not:
what the one abstracts, the other has in detail.

### MemoryBackend and the code

All state is behind one `tokio::sync::Mutex`, taken once per operation, so an
operation is one action; `Store` includes `enforce_topic_limit`, the pruning
of the deque, the assignment of the sequence and the send on the broadcast
channel, all under the lock.  `topics` and `messages` together are the
`HashMap` of `BackendState`: a topic emptied by `delete_message` stays in
`topics`, which matters for eviction.  Ties in eviction are broken
nondeterministically, as the iteration order of a `HashMap` is.  `channel[s]`
is what subscription `s` has not received: the broadcast ring, seen from one
receiver.  A full ring overwrites the oldest entry, which the receiver finds
out as `Lagged`.  Queries are operators, as they change nothing:
`GetMessagesBatch`, `HistoryEnd`, `FirstSequenceAfter`.  `clock` is `Utc::now()`
and is assumed not to go backwards; the date queries depend on it.

### JetStreamBackend and the code

Nothing here is atomic in the code, and nothing is in the model: a batch
request asks for the stream's information, makes a consumer, fetches and drops
it, one action each, and messages are stored, purged and pruned in between.
The stream (sequences, storage times, discarding, one message per subject when
duplicates are not allowed) and its consumers (a filter subject, a start, a
cursor on the server) are external: they are modelled from how the code
configures and calls them.  Their part of the map is marked so.

A pattern is the set of topics it matches; `Coarse[p]` is the larger set that
its JetStream subject matches, since the code filters again what it receives.
That is why a page may be full of messages that are then dropped, and why a page
may be empty and announce more.  `cursor` is indexed by `ConsumerName(s)`: a
consumer belongs to whoever uses its name.  A subscription retries with a new
consumer and a new boundary until `MaxAttempts`.

Assumed of NATS: storage times do not decrease with sequences; a consumer's
creation reports the last sequence at that moment; with `max_deliver` 1 and no
acknowledgement a delivery that is lost is not repeated.

### JetStreamPublisher and the code

A request goes through `publish_with_retry`: look the stream up, create it or
reconcile it, hand the message over, wait for the acknowledgement.  Each round
trip is an action that may fail.  `network` holds messages that have left the
server: they may be stored after their request has been answered with an
error.  An error "channel closed" can arise only before a message is handed
over to the client library, since it says that the channel *into* the client is
closed; `is_channel_closed_error` retries that error alone.  Settings of a
stream are three values: its storage, those the configuration manages, the
rest.  The duplicate window is managed.  An operator who edits a stream between
a lookup and the update that follows is not modelled: NATS has no conditional
update and the repository promises nothing about it.

### SseStream and the code

A response body is polled by one task.  `take_until` polls the stop future
first, then the frames, and a poll yields at most one frame; `Serve(c)` is one
poll that yields something or moves paging on.  One round of the `unfold` in
`create_historical_replay_stream` is two actions: `RequestBatch`, with which the
backend call begins, and `FetchBatch`, with which it answers and the cursor
moves, followed by filter, quota and limit control.  Between them messages may
be stored and vanish: `known` collects what existed at some time during the
call, and the page may be of any of that (`IsBatch`).  Its frames go out one by
one (`EmitReplay`), so shutdown, expiry and disconnects fall between them, as
well as in the delay between batches.  `OpenReplay` reads the history end; an
end date needs a second backend request, which is the separate `ResolveEnd`.
The close frame is made when the frames have ended, in the same poll
(`Close`).  `Leave` drops the response body and the subscription with it.
`published` and `lost` are history variables: no action reads them.

What is abstracted: payloads are `ok`, filtered out, or impossible to render; a
pattern is the set of topics it matches; timestamps inside frames, request ids
and event names are left out; the `Err` arm of rendering inside `unfold` cannot
be reached with the renderer of this repository and is not modelled (a failed
rendering is an error frame).  The maximum duration is taken to be longer than
the first poll.  Each connection has a subscription handle of its own and is
used for one request.

`StreamContract` has one action per kind of frame and no backend, no cursor, no
batches: it is the protocol of `docs/src/streaming-semantics.md`, as the code
implements it.

### Configuration, FieldValues, Routing and the code

`Accepts` is what `Application::build` checks before it opens anything.  An
optional setting is a set of at most one element, names are strings of which some
are marked as untrimmed, and a storage policy is a function on the fields that
are set.

`FieldValues` replaces characters by the *forms* in which a value can be
written: `Digits("+", 6, 3)` is `+06`, `Colon(6, 0, 1)` is `6:00`, and so on.
Each handler is an operator from a form to the set of its canonical texts (empty
for an error); a text is a sequence of atoms in which the four characters
reserved in subjects are atoms of their own, which is the finest distinction
the coding of tokens makes.  At the end of the module `Meaning` says what a value
means, from the documentation of the handlers and without the code's text; it is
what the properties compare with.  Geometry is on a grid of places: rings,
boxes, points inside, intersections, with the boundary cases exact.  A ring or a
position may be written as a text too, which any field can hold (`IsScalar`).

`Publish` and `Subscribe` are the handlers of `/notification`, `/watch` and
`/replay` up to the backend: processing of the fields with or without a schema,
the topic, the metadata; for a reader the coarse pattern, the token-wise
pattern, constraints and geometry.  `Examine` takes any message and any
subscription: live and replayed messages go through the same filters.  The
reference `Requested` compares fields by meaning and places by geometry, and
knows nothing of topics, so `DeliveredIffRequested` fails when any of the three
filters, the coding, the order of tokens, a canonical text or a check of the
settings is wrong.  `filters` of a subscription are the fields that
`matches_notification_filters_prepared` takes for geometry: it goes by the names
`polygon` and `point`, whether or not there is a schema.  `drawn` of a notification
is the polygon in its payload, to which the matcher falls back.  `Missed` lists what
is asked for and not delivered, the exceptions of `DeliveredIffRequested`: a zero
under the other sign, a constraint on an event type whose schema has no topic block,
and fields named `polygon` or `point` without a schema.  The property says that these
get nothing as surely as that everything else arrives.  `Namesakes` are an event
type without a schema and one with the same topic base; who reads the one gets the
other's notifications as well, and is excepted from `DeliveredIffRequested` and
`OnlyGrantedDestinations`.  Section 5 says what the documentation says of each.

The conditions at the end of `Routing` say of the inputs, value by value, what the
theorems ask of them (section 4).  `MCRouting` assumes them (`ConditionsHold`), so
TLC evaluates the handlers, constraint objects and geometry of `FieldValues`
against the meaning of every value listed before it explores anything: a handler
that brings two spellings of one value to two texts ends the run there.

### Gateway and the code

A request goes from stage to stage: `arrived`, `authenticating` (it waits for
auth-o-tron), `admitted` (past the middleware), `checking` (it waits for ECPDS),
`storing`, `opening` or `erasing` (it waits for the backend), `answered` or
`gone`.  The checks of a handler are a sequence in their order
(`NotifyChecks`, `StreamChecks`); `Refuse` answers with the first one that
fails, its status, its code and what it counts.  A client may leave wherever its
request waits, whatever the backend then does with what it was sent.
`AuthOTronAnswers` is external: any answer, or none.  `counted` is the bag of
what was added to the counters of notifications, authentication and access
decisions.  Whether the token is valid is one choice: signatures, clocks and the
parsing of claims are not modelled.

The middleware goes by the path as it was sent (`IsAdminPath`, `IsSchemaPath`), the
router by the decoded one, which names the operation.  `path` of a request says
whether its path is spelled as documented or with encoded letters.  Other ways to
spell the same route are not told apart.

### ServerProcess and the code

`main`, the stopper (the task of `startup.rs` that waits for the token), the two
servers and the backend are five processes; each request is another one.  A
server that is told to stop takes no connection, still gets requests on the
connections it has, and gives up on them after its timeout (actix-web, external).
Registration of a stream and its reverse are two steps each, as the gauge is
changed outside the lock of the table of users: `List` and `Register`, `Delist`
and `Deregister`.  A request may be dropped where it awaits something.
`Flush` and `Drain` may hang for ever: the process does not wait for them.

### EcpdsAccess and the code

A request goes through `enforce_ecpds_auth`, `check_access` and
`try_get_or_fetch`; `CacheGet` is the first look at the cache and `TryGetWith`
the second one, inside `try_get_with_by_ref`, which also decides who fetches and
who waits.  A fetch queries all servers in parallel (`ServerAnswers`, in any
order) and merges their answers (`Merged`).  Meanwhile `ChangeAccess`,
`ChangeHealth` and `Tick` change the world: `lastGranted`, `lastLacked` and
`lastDown` remember when something was last so, and no action of a request
reads them.

External and modelled from their use: the moka cache (an entry lives for its
TTL from insertion, may be evicted earlier, and a fetch whose request is
dropped passes to one that waits) and the ECPDS servers.  A server that is up
answers within the timeout; a decision on a result takes no time.  Parsing of
answers and metric labels are left out.

## 3. Runs

| Run | Question | Result |
|---|---|---|
| `memory_backend` | Does the in-memory backend keep its order, limits and boundaries, answer queries exactly, and implement the contract? | holds |
| `jetstream_live` | Do watches over JetStream keep to their boundary and their own consumer, and does the backend implement the contract? | holds |
| `jetstream_replay` | Do pages of a coarse subject, read in several round trips, cover the history, and do date lookups split it? | holds |
| `jetstream_publish` | Is a notification stored once at most, and surely when success is reported; do replicas converge on a stream without harm? | holds; answers under `FairSpec` |
| `sse_stream` | Do connections deliver in order, completely, without gaps at the switch to live, and keep the frame protocol? | holds |
| `sse_liveness` | Do catch-up, replays and shutdown end, and do date starts and ends select exactly the requested messages, although resolving an end takes two requests? | holds; liveness under `FairSpec` |
| `ecpds_access` | Is there one fetch per user, does revocation take effect, is every refusal and every 503 justified? | holds |
| `routing` | Does a reader get exactly what was asked for, with the fields that were published, and of ECPDS event types for granted destinations only, whatever the spelling and the accepted settings? | holds, but for `Missed` and `Namesakes` |
| `gateway` | Is everything that happens authorized (administration: under its documented paths), does what is public stay open, do accepted settings suffice, do the counters agree with the answers? | holds |
| `server` | Are the gauges exact between any two steps, is the backend let go of last, and does the process end after a signal? | holds; the last under `Fairness` |
| `ecpds_partial` | Does a refusal caused by a partial outage end with the outage? | no, see findings |
| `gateway_paths` | Is administration for administrators under every spelling of its paths? | no, see findings |

Deadlock checking is off in every run: bounded publications, connections that
have all ended, requests that have all been answered, settings that are refused
and a process that has exited are not errors.

`TypeOK` of each module (`RoutingTypeOK` of `Routing`) documents the variables.  For
every module with proofs it is a theorem; the runs check what could be wrong.

### Bounds

* `memory_backend`: three topics of two streams with room for two topics (so a
  third publication topic evicts), deques of two messages (so the third prunes),
  a channel of two (so a third lags), pages of two, five sequences, two
  instants.  Five sequences are what it takes to fill a deque and a channel,
  overflow both, and still delete or wipe and publish again.  All safety
  properties of this run are proved for any values.
* `jetstream_live`: two subscriptions, which is what it takes to share a
  consumer by mistake, on two patterns of one stream of two topics, of which one
  needs the second filter.  A stream of two messages with one per subject
  discards in both ways within three sequences.  Two attempts are one retry.
  The theorems below lift these bounds and those of the next run.
* `jetstream_replay`: one reader (readers share only the stream, which changes
  at any time anyway), a batch of two, three sequences, so that a batch is full,
  partial or of other topics' messages only, and dates before, at and after each
  of two instants, or beyond what JetStream can express (`Horizon`).
* `jetstream_publish`: three requests of three replicas: two want the same
  storage with old and new limits, as during a rolling deployment, one is
  configured for another storage.  The stream may be absent, or made before
  with any settings.  Two attempts are one retry.
* `sse_stream`: a watched and an unwatched topic, four kinds of traffic
  (matching, filtered, unrenderable, other topic), a quota of one, three
  sequences: history, boundary and live each get at least one message, and one
  message can be beyond the quota.  One connection: connections share only the
  log and the token, both of which the environment already changes at will.
  `SomeConnectionLeft` stops a branch when the connection has ended.  The
  theorems below lift all of these bounds, for any number of connections.
* `sse_liveness`: as `sse_stream` with plain traffic, two sequences, three
  instants, a quota of two and no heartbeats, with every start (by sequence, by
  date) and every end: dates fall before, between and after the two messages.
* `ecpds_access`, `ecpds_partial`: two requests of one user about one
  destination over two servers, both policies, a lifetime of two and a timeout
  of one, four instants, two changes of access or health.  Users share nothing,
  and a request is about one destination.  Two servers are what it takes to
  tell a partial from a full outage; four instants reach beyond the lifetime and
  the timeout together.  The theorems below lift all of these bounds.
* `routing`: `MaxInputs` is two: a message and a subscription, in either order,
  or two messages (`SameTopicIffSameMeaning` is about pairs), and no property
  relates more.  What varies is the input: twenty-two scenarios, of which some
  have a setting wrong and are refused, with every combination of the listed
  spellings of each field and, for readers, with fields left out: enumerations
  in either case, times with and without a colon, signed and padded integers,
  numbers with decimals, zeros with and without a sign, names with each kind of
  reserved character, a schema with and without a topic block, experiments with defaults, dates by calendar and by day of the year, rings in JSON and in
  text, open rings, points in, on and outside, clouds, all constraint operators,
  geometry as a text in event types without a schema, a namesake of an ECPDS event
  type, and values each handler refuses.  62861 distinct states.
* `gateway`: one request, since requests share only the counters, which are
  sums; nineteen sets of settings (eight accepted, each of the others with one
  thing wrong), five event types of which one is configured nowhere and one is no
  topic base, five users (an administrator, members of a listed realm with and
  without a role, one of another realm, one of none), and two spellings of the paths
  of administration and of the schema.  137829 distinct states.  The theorems below
  hold for any number of requests.
* `server`: two clients that may be the same user or two, on two streaming
  routes, two attempts, a metrics server.  Two connections are what it takes to
  interleave a registration with the reverse; the theorems below lift the bound.
* `gateway_paths`: as `gateway`.

### Fairness

`SseStream!FairSpec` asks for weak fairness of `Serve(c)` for each connection: an
accepted body is polled until it ends.  That holds when the client keeps
reading or disconnects and when backend requests return (with a page or an
error); actix polls the body whenever the socket can take data.  Nothing is
assumed of publishers, heartbeats, expiry, failures, `Leave` or `Shutdown`: they
may happen or not.  A client that neither reads nor disconnects is outside
this assumption, and nothing is claimed for it.

`JetStreamPublisher!FairSpec` asks for weak fairness of `Serve(r)` for each
request: its task goes on, because each round trip to NATS ends in a response,
an error or the timeout of the client library.  Nothing is assumed of the
network: a message may be stored, lost or delayed for ever.

`ServerProcess!Fairness` asks for weak fairness of the steps of the process: an
attempt to connect ends, by the timeout of the connection, in an answer or an
error; a task that can go on does (`BeginShutdown`, `AwaitMetricsServer`,
`ServersDown`, `Exit`); and a server that is stopping is down in the end,
because actix-web drops what is left after its shutdown timeout
(`MetricsServerStops`, `ServerStops`).  Nothing is assumed of clients, of the
signal, or of `AwaitServer`, `Flush` and `Drain`: the process ends without them.

## 4. Proofs

All theorems hold for all values of the constants that satisfy the assumptions
of the component's module.

`MemoryBackendProofs` (topics are finite, limits are naturals, the channel holds
at least one message):

* `TypeCorrect`: `Spec => []TypeOK`.
* `SequencesStayOrdered`: `Spec => []SequencesOrdered`.
* `BoundaryHolds`: `Spec => []SubscriptionBoundary`.
* `MemoryBounded`: `Spec => []RetentionBounded`.
* `EndDatesSplitHistory`: `Spec => []DateEndSplitsHistory`.
* `RepliesArePages`: `Spec => []BatchesArePages`, if `BatchSize # 0`.
* `IsNotificationLog`: `Spec => ImplementsLog`, the refinement.

Each of the second to fourth is inductive together with `TypeOK`, and the
strengthening is part of its definition: `SequencesOrdered` bounds stored
sequences by `nextSequence` and ties a message to the topic it is stored under;
`SubscriptionBoundary` bounds queued sequences by `nextSequence` from above and
by the boundary from below; `RetentionBounded` says that topics that are not
kept have no messages, without which evicting one and creating another would
not preserve the count.  The proofs rest on lemmas about deques (`TailOfQueue`,
`AppendToQueue`, `RemoveFromQueue`) and about the operators of the module
(`PrunedQueue`, `SentQueue`, `StoredQueue`), then go action by action.

The other three rest on `HistoryInv`: the types, order and limits above, and that
storage times follow sequences and do not run ahead of the clock (`TimesFollow`).
From it `EndDatesSplitHistory` and `RepliesArePages` follow state by state, as a
query changes nothing.  The hypothesis of the latter is needed: `BatchSize` may be
zero in an accepted configuration, and the page is then empty and announces more
(section 5).  In the refinement the queue of a subscription is what its channel
holds of its pattern, in the order of sequences.  `Store` is `Put` of the log
together with a loss for everybody whose channel was full; wipes and deletions
are `Forget`; `Receive` either takes the head of the queue or a message that the
subscription filters out, which the log does not see.

`OrderLemmas` has what makes such queues usable: `BySequence` puts a finite set
of messages with sequences of their own in order (`BySequenceOrders`), and its
head and tail are those of the set without its least message (`BySequenceTail`).
They need induction, which the library states for a predicate, an operator that
the provers cannot instantiate; `SetInduction` is the same for a set of numbers and
follows from the least element that any such set has (`LeastNatural`).

`JetStreamBackendProofs` (patterns are sets of topics within their coarse
subject, at least one attempt, a batch that is not empty, dates beyond the
horizon are beyond the clock):

* `TypeCorrect`, `SubscriptionsHaveOwnCursors` (`CursorsAreOwn`),
  `RepliesArePages` (`BatchesArePages`), `EndDatesSplitHistory`
  (`DateEndSplitsHistory`), `IsNotificationLog` (`ImplementsLog`).

`MessagesOrdered` is the order of the stream: one message per sequence, times
that go with sequences.  `CursorsAreOwn` needs `CursorsBehind`, no cursor is ahead
of the stream, or a new message could already be behind one.  A request has
an invariant of its own, `RequestInv`, over what the stream holds, the time and the
next sequence, because all three change under it.  `BatchSound` says what a page
holds and that messages behind the last one examined are in range if that one
was; `BatchReading`, that while it reads, everything of the request before
`from` is on the page; `BatchCovers`, that an answered batch has what it covers.
`AfterSplits` is the same of a date lookup: its consumer starts between the two
parts of the history, since times are ordered.  `RequestOutlives` carries all of
it over whatever others do, so that only the steps of the request itself are
left.  For the refinement, `Arrived` says that what a client has received is in
order and not beyond the cursor on the server, so that it precedes what is still to
be sent: what server and client hold together is the queue of the log.

`SseStreamProofs` (a start is a sequence or a date, an end is a sequence, a date
or the present, a quota of at least one; the backend is any `NotificationLog`):

* `TypeCorrect`, `NothingIsLostAfterBoundary` (`NothingLostAfterBoundary`),
  `DeliveredInOrder` (`DeliveryOrdered`), `RepliesStayWithinRequest`
  (`ReplayWithinRequest`), `CompletedRepliesAreComplete` (`ReplayComplete`),
  `LimitIsProofOfTruncation` (`LimitProvesTruncation`), the action property
  `EndDatesAreExact` (`EndDateExact`), and the refinement
  `ConnectionsKeepContract` (`ImplementsContract`).

None of these is inductive alone; all rest on the shape of a connection, the later
ones on the order too.  `LogInv` says of the log that `published` is its history, `retained` a part of that, and
each queue in order and behind its boundary.  `Shape` says which fields of a
connection go with which phase and mode: that only a catching-up connection has
frames waiting, that a control that ends a replay is the last of its batch, that
an open watch has the boundary of its subscription.  Then, per connection:
`Covered`, every message behind the boundary is queued, delivered, filtered out
or lost; `Ordered`, what was sent precedes what waits in the batch, both precede
what the next batch can bring, and all of it precedes the queue; `Within`, what was
sent, what the running request may see and what the cursor still reaches all lie
within the request; `Complete`, what is left to replay is in the batch or ahead of
the cursor, unless the replay is about to end early; `Truncated`, the quota
counts what was sent, and the limit control comes with a message behind it all.
The steps fall into publication, loss and retention (`PublishShape` and the like),
the steps of others, and turns of the connection; the hard turn is `FetchBatch`,
where the page is of any messages that were there at some time of the call,
so that what it skips (`IsBatch`) must have gone by the time it answers.  For the
refinement, `Stage` maps a phase to a stage of the contract; a turn that sends a
frame is that frame's action, any other is a stutter, and `Ordered`, `Within` and
`Truncated` give the guards.

`JetStreamPublisherProofs` (at least one attempt, well-formed settings):

* `TypeCorrect`, `StoredOnce` (`AtMostOneCopy`), `SuccessMeansStored`
  (`SuccessIsStored`), `StorageIsRespected` (`StorageRespected`),
  `UnmanagedIsPreserved` (`UnmanagedPreserved`, an action property).

None of these is inductive alone.  The invariant `IInv` adds three facts:
`SentOnce`, a request whose message has left is waiting for the acknowledgement
or answered, so that no retry comes after it; `LookupsHold`, what a request has
looked up still agrees with the stream in storage and unmanaged settings, since
nobody changes those, although the managed settings may have changed since; and
`StorageAgreed`, from reconciliation on the stream has the storage of the
request.  `LocalStep` and `StreamStep` carry the invariant over the steps of a
request's record and over those that change the stream; each action is then an
instance of one of them, and `Send`, `Store` and `Lose` are done in full.

`ReadAccessProofs` on `EcpdsAccess` (finitely many servers and at least one, positive durations):

* `TypeCorrect`, `OneFetchPerUser` (`SingleFlight`), and the action properties
  `RevocationIsEffective` (`RevocationTakesEffect`), `DenialsHaveReasons`
  (`DenialsAreInformed`), `OutagesEnd` (`OutagesAreNotExtended`).

The last three rest on one notion: a list is `Covered` until an instant when,
for each destination, the history vouches for its presence or absence until
then.  `IInv` says that every cache entry is covered until it expires, every
running fetch until its start plus the window, and every result that is being
decided on until now, besides what the history is (`HistoryCurrent`,
`HistoryBounded`) and that a fetch is within its timeout (`WellFormed`).  Cover
shrinks with the instant (`CoveredSooner`) and survives observation
(`CoveredLater`), so `WorldStep` deals with all steps of the world and
`RequestsStep` with all steps of requests and cache.

`ServerProcessProofs` (finitely many clients and users, `notification` is not a
streaming route):

* `TypeCorrect`, `GaugesAreExact` (`GaugesMatchConnections`), and the action
  property `NothingAfterShutdown` (`NoOperationAfterShutdown`).

`GaugesMatchConnections` is not inductive, since whether the gauge of users
changes depends on the table of users, of which it says nothing.  `IInv` adds
that an entry of the table is the number of registered connections of that user
and the gauge the number of entries that are not zero (`Counts`), what the stage
of a request says of its flight and its route (`StagesAgree`), and the order
of the stop (`ShutdownOrder`): the stopper is at the backend only when the API is
down, and then no handler runs.  `CountJoin` and `CountLeave` carry a cardinality
over a step; each action of a request is an instance of them for the sets it
changes, and steps of the process leave all sets alone.

`GatewayProofs` (an optional setting has one value, the mode is one of the two):

* `Authorized` (`EffectsAreAuthorized`), `PublicStaysOpen`
  (`OpenStreamsStayOpen`), `AcceptedServes` (`AcceptedConfigurationServes`),
  `CountersAgree` (`RequestsCounted`) and `TypeCorrect`, for any settings, event
  types, users and number of requests.

`IInv` says of each request what the steps behind it have established:
`EntitledToStage`, nobody is at a stage without the permission that the checks
before it give (an administrator behind the middleware, under the paths it takes for
administration, writers before the
store, readers before the plugin, granted or administrators behind it), and
nobody is anywhere unless the settings were accepted; `EntitledToEffect`, the
same of effects; `Undisturbed`, what is public never waits for auth-o-tron or
ECPDS and has no status of a denial.  What the settings contribute are four
lemmas, each from the checks of startup: `ProtectedIsRequired` (a plugin or
a requirement implies login and the middleware), `AdminIsListed` and
`RolesAreListed` (the code takes an empty table of roles for everybody; accepted
tables are not empty), `AcceptedIsComplete` (a checker and a client of
auth-o-tron exist where they are needed).  `AuthorizationSuffices` derives the
policy from `enforce_stream_auth`, `PassedIsAuthorized` that a request that
passes its checks has passed that one.

The counters are a bag; `Increments` makes one element of each increment, so that
a counter is a cardinality and no sum has to be unfolded.  `RequestsCounted` is
not inductive: it does not say that a request is counted only once on its way.
`CInv` adds that only finitely many requests have arrived, that the increments of
each kind are as many as the requests that this kind `Counts`, and what a request
that is not answered yet cannot have been counted for (`Uncounted`).
`CountKeepsCInv` carries this over a step of one request with one increment or
none (`CountedOnce`); each action is an instance of it: it sets a user, a grant or
an answer, and counts exactly that.

`ReadAccessProofs` on `Routing` (fields have an order, schemas are well formed,
which serde and the validation give):

* `ReadersGetWhatTheyAskFor` (`DeliveredIffRequested`), `DestinationsStayGranted`
  (`OnlyGrantedDestinations`), `EventsCarryIdentifiers`
  (`IdentifiersSurviveRouting`), `TopicsIdentify` (`SameTopicIffSameMeaning`),
  `RoutingTyped`; and about the operators `SubjectRoundTrip` and
  `CoarsePatternHidesNothing`.

They hold for any schemas, settings, requests, notifications and bounds, in two
layers.  What joins the fields of a request is proved: the order of tokens, the
coding of reserved characters, the coarse pattern, the token-wise pattern, the
choice between patterns, constraints and geometry, event types of others on the
same base, the settings that startup accepts.  What one value looks like as a
text is a condition of the theorem, since nothing can be proved about the text of
a number or about rings on a grid:

| Condition | Says | Needed by |
|---|---|---|
| `CanonicalFaithful` | two accepted values of a field have one text exactly if they mean the same and are no zeros of different sign | `TopicsIdentify` |
| `AskedFaithful` | the same of a value asked for and one published; a constraint takes the texts of what it admits; no asked text is `*` | `ReadersGetWhatTheyAskFor` |
| `BoxesFaithful` | comparing bounding boxes first loses no match of the geometry | `ReadersGetWhatTheyAskFor` |
| `NoBlankValues` | nothing published is empty or a lone `*` | `ReadersGetWhatTheyAskFor`, `EventsCarryIdentifiers` |
| `TopiclessPlain` | schemas without a topic block have fields, none of them spatial | `ReadersGetWhatTheyAskFor` |
| `GenericsAlike` | event types without a schema are asked for with the fields they are published with | `ReadersGetWhatTheyAskFor` |
| `Wildcard \notin Granted` | no destination is called `*` | `DestinationsStayGranted` |

`DestinationsStayGranted` is about every reader, whatever else is published and read,
except one who reads a namesake of the ECPDS event type: of that reader it would be
false, and the property says so (`Namesakes`) rather than a condition of the theorem.
In strict mode there are no namesakes, since accepted bases are unique.  `Authorized` is about erasures under the paths that the
middleware takes for administration; of others `gateway_paths` shows that it would be
false.

TLC evaluates all of them on every scenario of the run (`ConditionsHold` in
`MCRouting`), so none excludes the inputs that are checked.  Those that an accepted
configuration and a legal request can break are observations in section 5; they were
met while proving.

The argument.  Texts and subjects are sequences that the code builds by folds.
`SequenceInduction` (in `OrderLemmas`), from the least element of a set of lengths,
takes the place of the library's induction; `EncodeAppend`, `SplitConcat` and
`SplitAppend` say what one more atom or token does to a fold; from these
`SubjectRoundTrip` follows, and that coding is injective.  `MessageFacts` says that
a stored message was laid out along the route of its event type from canonical
texts, `SubscriptionFacts` that the tokens and filters of a subscription were made
of the values that were checked.  `RoutingInv` has both for all of the log and of the
subscriptions, ties them to inputs of the scenario (`FromScenario`,
`FromRequests`), and says of every examined pair that what was delivered matched
and what its event is; `PublishFacts`, `SubscribeFacts` and the step lemmas show
that each action keeps it.  `DeliveredAsAsked` is then about one pair: tokens match
position by position because both follow the same `key_order`; a base is nobody
else's, because accepted bases are unique; a wildcard stands exactly where a
field was left out or asked for by a constraint; and the coarse pattern hides
nothing of that.

Every invariant that a passing run checks is stated by one of these theorems.
Only model-checked:

* Liveness (`JetStreamPublisher`, `SseStream`, `ServerProcess`): the prover
  reasons about neither fairness nor `ENABLED`.
* The conditions on single values in the table above, that is the handlers,
  constraint objects and geometry of `FieldValues` against the meaning of a value:
  TLC evaluates them on the spellings of the scenarios.  What a text of a number or
  of a list of places is, the provers cannot tell.

## 5. Findings

* `ecpds_partial`: under `any_success` the list of the servers that answered is
  cached like any other, so a user entitled at the failed server goes on getting
  403 after that server is back, until the entry expires;
  `docs/src/authentication.md` says "until the server is back".
* `gateway_paths`: the middleware decides by a prefix of `req.path()` whether a
  request is administration (`auth/middleware.rs:156`).  That is the path as it was
  sent; routes match the percent-decoded one (actix-web, whose code is not in this
  repository: external, modelled from its documented behaviour).  Where the two
  differ, the handlers of `routes/admin.rs`, which have no check of their own, run
  without login or role.  `docs/src/authentication.md` says that administration
  always needs both.  The other direction is harmless: under an encoded path the
  schema is refused to malformed credentials.
Exceptions that the properties of `routing` name, where the documentation has none.
The run has scenarios with each, and `DeliveredIffRequested` checks what it says of
the first three, so that the property is violated when the code changes in either
direction:

* Constraints are matched against the tokens that `key_order` names of the event type
  that owns the topic base (`wildcard_matcher.rs:388`).  A schema without a topic
  block has neither, so a watch with a constraint gets nothing.
  `docs/src/streaming-semantics.md:352-354` allows constraints on any event type with
  a schema, and `docs/src/schema-guide.md:25` schemas without a topic.
* Without a schema any text is taken in a field `polygon` (`processor.rs:365`), and
  the matcher takes it for a filter that was not prepared or meets no box
  (`wildcard_matcher.rs:176-204`), so that nothing is delivered, not even what has the
  same text.  `docs/src/concepts.md:31-32` says that such fields are treated as they
  are.  A field `point` is refused in notifications (`routes/notify.rs:122`), so a
  watch that has one gets nothing either.
* The text of a float keeps the sign of zero (`aviso-validators/src/float.rs:55`), so
  a watch on `0` misses `-0`, which the constraint `{"eq": 0}` selects; latest-only
  storage keeps both (`SameTopicIffSameMeaning` has the exception too).
  `docs/src/streaming-semantics.md:353-354` says that a scalar is an implicit `eq`.
  Coordinates of places are whole numbers in the model, so a coordinate of negative
  zero, which as a token of the topic has the same effect, is not modelled.
* Namesakes: when strict mode is off, an event type without a schema may have the name
  of a configured topic base (`notification/processor.rs:75`), since uniqueness of
  bases is checked between schemas only.  A watch on the one may receive the other,
  without ECPDS too.  With ECPDS the plugin is looked up by the name of the event type
  (`routes/streaming.rs:272`) and finds none, while the pattern matches the topics of
  the configured type.  `docs/src/authentication.md:273-275` says that routing on the
  match key filters notifications by the authorized destination.

Observations made while modelling, for which no run is kept:

* `wipe_stream` of the in-memory backend (`in_memory/backend.rs:312`) matches
  topics by the prefix `key.`, so a topic that is the key alone, which
  `build_generic_topic` makes of a request without identifiers, survives a wipe;
  `delete_message` handles that topic.  `docs/src/admin-operations.md:135` says
  that all messages are removed.
* `replay_batch_size` may be 0 (`configuration/types.rs:24`): a page is then
  empty, announces more and names no next sequence.  `sse_heartbeat_interval_sec`
  may be 0, and `tokio::time::interval` panics on it (`sse/helpers.rs:278`).
* `apply_stream_lifecycle` documents a precedence of close reasons
  (`sse/helpers.rs:297`), but the `select!` between token and timer is unbiased
  (`:317`).  The frame that is sent does tell the reason that was found.
* A comment says that `match_key` need not be in `key_order`
  (`aviso-ecpds/src/config.rs:91`); `configuration/validation.rs:655` refuses such
  schemas, and rightly: `OnlyGrantedDestinations` depends on it.
* An unknown field of a notification is answered with 500
  (`handlers/notification_processor.rs:76` does not recognise its message), while
  `docs/src/api-errors.md:124` says that validation errors are 400.
  `FieldStatus` models what the code does.
* A published field may be a lone `*` where its handler takes any text.  The
  event read back leaves it out (`topic_parser.rs:99`), a constraint does not match
  it (`wildcard_matcher.rs:361`), and a reader who asks for `*` gets everything.
  The conditions `NoBlankValues` and `AskedFaithful` exclude it.
* The topic of an event type without a schema has the values in the order of
  their names and not the names (`topic_builder.rs:44`), so a watch on one set of
  fields may receive notifications with another.  A notification without fields has
  a topic of one token, which the coarse pattern `base.>` never matches.  The
  condition `GenericsAlike` excludes both.
* A polygon or point of a request for an event type with a schema without a topic
  block becomes a token of the generic topic (`notification/processor.rs:109`), and
  is compared as text.  The condition `TopiclessPlain` excludes it.

## 6. Not modelled

* Telemetry, logging and the access log; the text of `/metrics`, histograms and
  counters of backend operations; the home page and the OpenAPI document: output
  that nothing reads back.
* Loading of the configuration (files, environment, precedence): a library's.
* Readiness and health: they only read.
* Numbers, dates and JSON character by character: `FieldValues` has the forms that
  the handlers tell apart, and not the spellings no model value has.  The
  upper limits of storage literals.
* `wipe_all` over several JetStream streams, and the settings of a stream beyond
  the three values of `JetStreamPublisher`.
* A message stream of a JetStream consumer that ends or reports errors
  (`jetstream/subscriber.rs:165`): the watch stays open on heartbeats.  Nothing in
  the repository promises otherwise.
* Policies that change while a stream is open: access is checked at its opening
  and the stream is bounded by its maximum duration.

## 7. Plan

1. Done: the contract, both backends, publication, streams and their client
   contract, ECPDS, configuration, fields and routing, authorization and the
   counters, the process and its gauges.  Proved: type correctness and safety of
   all of these, for `Routing` under conditions on single values; that the
   backends implement the contract of the trait, and the connections that of
   their clients.
2. `ResumingClient`: a client that reconnects from its checkpoint, over
   `StreamContract`: processed at least once, in order, gaps only where
   retention or the quota made them.  The client is not part of this repository
   (`docs/src/streaming-semantics.md` describes it), so the hazards do not list it.
3. The conditions on single values as theorems, for the handlers whose texts need
   no numbers (`EnumHandler`, `ExpverText`): they are comparisons of spellings.
4. A second request in `gateway` once its state space allows, for the shared
   counters.
