-------------------------------- MODULE Routing --------------------------------
(***************************************************************************)
(* How a notification finds its readers: the fields of a request are       *)
(* brought to a canonical text and laid out as the tokens of a subject     *)
(* (src/notification/processor.rs, topic_builder.rs, topic_codec.rs); a    *)
(* watch or replay turns its fields into a coarse pattern for the backend, *)
(* a token-wise pattern and filters (wildcard_matcher.rs); and a message   *)
(* that passes is turned back into an event (topic_parser.rs,              *)
(* src/cloudevents).  No single part decides who gets what: the settings   *)
(* have to be accepted, both sides have to spell a value the same way, and *)
(* the three filters have to agree.                                        *)
(*                                                                         *)
(* Live messages and replayed ones go through the same filters, so that a  *)
(* subscription is examined against messages stored before and after it.   *)
(* The order of delivery is the subject of SseStream.                      *)
(***************************************************************************)
EXTENDS Configuration, FieldValues, MessageOrder

CONSTANTS
  Scenarios,         \* a sequence of settings with notifications and requests to try
  FieldOrder,        \* all field names in alphabetical order
  Granted,           \* texts of the destinations that ECPDS grants the reader
  MaxInputs,         \* bound: messages stored and subscriptions in a behaviour
  MaxSubscriptions   \* bound: watches and replays in a behaviour

ASSUME RoutingBounds == MaxInputs \in Nat /\ MaxSubscriptions \in Nat

ASSUME FieldOrderAssumption ==
  /\ FieldOrder \in Seq(STRING)
  /\ \A i, j \in DOMAIN FieldOrder : FieldOrder[i] = FieldOrder[j] => i = j

\* What the types of the settings and of the requests guarantee: there is at most
\* one topic block, its key order is a list, and FieldOrder has all field names.
ValidSchema(schema) ==
  /\ \A t, u \in schema.topic : t = u
  /\ \A t \in schema.topic : t.key_order \in Seq(STRING)
  /\ \A field \in DOMAIN schema.identifier :
       field \in ToSet(FieldOrder) /\ ValidRule(schema.identifier[field])

ValidFields(given) ==
  \A field \in DOMAIN given : field \in ToSet(FieldOrder) /\ ValidValue(given[field])

ASSUME ScenariosAssumption ==
  \A i \in DOMAIN Scenarios :
    /\ \A type \in DOMAIN Scenarios[i].settings.schema :
         ValidSchema(Scenarios[i].settings.schema[type])
    /\ \A n \in Scenarios[i].notifications : ValidFields(n.identifier)
    /\ \A r \in Scenarios[i].requests : ValidFields(r.identifier)

VARIABLES
  scenario,   \* the index of the settings and inputs
  phase,      \* starting, serving or refused
  log,        \* the stored messages
  subs,       \* the watches and replays opened
  seen        \* the pairs examined, with the outcome

routingVars == <<scenario, phase, log, subs, seen>>

settings == Scenarios[scenario].settings
schemas == settings.schema
HasSchema(type) == type \in DOMAIN schemas

Only(S) == CHOOSE x \in S : TRUE

-----------------------------------------------------------------------------
(* Subjects on the wire.                                                    *)

HexCode == [c \in Reserved |->
  CASE c = "." -> "2E" [] c = "*" -> "2A" [] c = ">" -> "3E" [] c = "%" -> "25"]

\* Mutation of EncodeToken: the escape character itself is not escaped.
EncodeTokenRaw(text) ==
  FlattenSeq([i \in DOMAIN text |->
    IF text[i] \in Reserved \ {"%"} THEN <<"%", HexCode[text[i]]>> ELSE <<text[i]>>])

EncodeToken(text) ==
  FlattenSeq([i \in DOMAIN text |->
    IF text[i] \in Reserved THEN <<"%", HexCode[text[i]]>> ELSE <<text[i]>>])

\* {} when a percent sign is not followed by a code.
DecodeToken(wire) ==
  LET escape(i) == wire[i] = "%"
      code(i) == {c \in Reserved : i < Len(wire) /\ HexCode[c] = wire[i + 1]}
      part(i) ==
        IF escape(i) THEN <<Only(code(i))>>
        ELSE IF i > 1 /\ wire[i - 1] = "%" THEN <<>>
        ELSE <<wire[i]>>
  IN When(\A i \in DOMAIN wire : escape(i) => code(i) # {},
          FlattenSeq([i \in DOMAIN wire |-> part(i)]))

Join(tokens) ==
  FlattenSeq([i \in DOMAIN tokens |-> IF i = 1 THEN tokens[i] ELSE <<".">> \o tokens[i]])

Split(subject) ==
  LET tokens[i \in 0..Len(subject)] ==
        IF i = 0 THEN <<<<>>>>
        ELSE LET before == tokens[i - 1]
             IN IF subject[i] = "." THEN Append(before, <<>>)
                ELSE [before EXCEPT ![Len(before)] = Append(@, subject[i])]
  IN tokens[Len(subject)]

EncodeSubject(parts) == Join([i \in DOMAIN parts |-> EncodeToken(parts[i])])

DecodeSubject(subject) ==
  LET tokens == Split(subject)
  IN When(\A i \in DOMAIN tokens : DecodeToken(tokens[i]) # {},
          [i \in DOMAIN tokens |-> Only(DecodeToken(tokens[i]))])

-----------------------------------------------------------------------------
(* From the fields of a request to a topic.                                 *)

Sorted(names) ==
  LET fields == BySequence({[seq |-> i, field |-> FieldOrder[i]] :
                              i \in {j \in DOMAIN FieldOrder : FieldOrder[j] \in names}})
  IN [i \in DOMAIN fields |-> fields[i].field]

GenericTopic(type, params) ==
  LET keys == Sorted(DOMAIN params)
  IN EncodeSubject(<<<<type>>>> \o [i \in DOMAIN keys |-> params[keys[i]]])

\* {} when a routed field is missing.
BuildTopic(type, schema, params) ==
  IF schema.topic = {} THEN {GenericTopic(type, params)}
  ELSE LET topic == Only(schema.topic)
       IN When(ToSet(topic.key_order) \subseteq DOMAIN params,
               EncodeSubject(<<<<topic.base>>>>
                             \o [i \in DOMAIN topic.key_order |-> params[topic.key_order[i]]]))

HasPointCloud(schema) ==
  \E field \in DOMAIN schema.identifier : schema.identifier[field].type = "PointCloudHandler"

\* Of a function to sets of at most one element: the function to the elements.
Collected(results) ==
  When(\A key \in DOMAIN results : results[key] # {},
       [key \in DOMAIN results |-> Only(results[key])])

\* Geometry does not travel in the subject alone: it is stored with its box.
SpatialMetadata(schema, given) ==
  UNION {{[box |-> BoundingBox(g), field |-> field, geometry |-> g] :
            g \in Geometry(schema.identifier[field], given[field])} :
         field \in {f \in DOMAIN schema.identifier : Spatial(schema.identifier[f])}}

\* Every field of the schema, no other, each accepted by its handler.
ProcessNotify(schema, given, payload) ==
  IF DOMAIN given = DOMAIN schema.identifier /\ (schema.payload_required => payload)
  THEN Collected([field \in DOMAIN given |-> Canonical(schema.identifier[field], given[field])])
  ELSE {}

\* A field that is left out stands for any value; a required one may be only
\* when the request filters by geometry in its place.
StreamingField(schema, given, field) ==
  LET rule == schema.identifier[field]
  IN IF field \in DOMAIN given
     THEN IF given[field].form = "object"
          THEN {Wildcard : c \in ParseConstraint(rule, given[field])}
          ELSE Canonical(rule, given[field])
     ELSE When(\/ ~rule.required
               \/ field = "polygon" /\ "point" \in DOMAIN given
               \/ rule.type = "PointCloudHandler" /\ "polygon" \in DOMAIN given,
               Wildcard)

\* The filters by geometry a schema admits.
SpatialFilters(schema) ==
  (IF HasPointCloud(schema) THEN {"polygon"} ELSE {})
    \cup (IF "polygon" \in DOMAIN schema.identifier THEN {"point"} ELSE {})

ProcessStreaming(schema, given) ==
  LET extra == {f \in {"point", "polygon"} \ DOMAIN schema.identifier : f \in DOMAIN given}
      filter(f) == IF f = "point" THEN {<<ToString(p)>> : p \in PointHandler(given[f])}
                   ELSE {<<ToString(g)>> : g \in PolygonHandler(given[f])}
  IN IF /\ "point_cloud" \notin DOMAIN given
        /\ ~(HasPointCloud(schema) /\ "point" \in DOMAIN given)
        /\ DOMAIN given \subseteq DOMAIN schema.identifier \cup SpatialFilters(schema)
     THEN Collected([field \in DOMAIN schema.identifier \cup extra |->
                       IF field \in extra THEN filter(field)
                       ELSE StreamingField(schema, given, field)])
     ELSE {}

\* Without a schema every scalar is taken as it is.
ProcessGeneric(given, operation) ==
  Collected([field \in DOMAIN given |->
    When(/\ IsScalar(given[field])
         /\ operation = "notify" => given[field].form # "empty",
         Text(given[field]))])

\* A request may name a polygon or a valid point, not both; a notification has no
\* point.
ProcessParams(type, given, payload, operation) ==
  IF /\ "point" \in DOMAIN given
     /\ operation = "notify" \/ "polygon" \in DOMAIN given \/ PointHandler(given["point"]) = {}
  THEN {}
  ELSE IF ~HasSchema(type)
    THEN IF Strict(settings) \/ ~ValidTopicBase(type) THEN {} ELSE ProcessGeneric(given, operation)
  ELSE IF operation = "notify" THEN ProcessNotify(schemas[type], given, payload)
  ELSE ProcessStreaming(schemas[type], given)

\* A polygon a reader asks for is a filter and no token of the subject.
RoutingParams(params, operation) ==
  IF operation # "notify" /\ "polygon" \in DOMAIN params
  THEN [params EXCEPT !["polygon"] = Wildcard] ELSE params

ProcessTopic(type, params, operation) ==
  IF HasSchema(type)
  THEN BuildTopic(type, schemas[type],
                  IF \E t \in schemas[type].topic : Routes(t, "polygon")
                  THEN RoutingParams(params, operation) ELSE params)
  ELSE {GenericTopic(type, params)}

-----------------------------------------------------------------------------
(* What a subscription lets through.                                        *)

FirstWildcard(parts) ==
  {i \in DOMAIN parts : parts[i] = Wildcard /\ \A j \in 1..(i - 1) : parts[j] # Wildcard}

\* The tokens all matching subjects begin with, as the backend is asked for them.
CoarsePattern(parts) ==
  LET specific ==
        IF FirstWildcard(parts) # {}
        THEN LET i == Only(FirstWildcard(parts)) IN IF i > 2 THEN i - 1 ELSE 1
        ELSE IF Len(parts) > 1 THEN Len(parts) - 1 ELSE 1
  IN [i \in 1..specific |-> EncodeToken(parts[i])]

\* NATS: a pattern that ends in > takes every subject with at least one token more.
InStream(pattern, subject) ==
  LET tokens == Split(subject)
  IN Len(tokens) > Len(pattern) /\ SubSeq(tokens, 1, Len(pattern)) = pattern

\* Mutation of MatchesWatchPattern: only the part before the first wildcard is compared.
MatchesWatchPrefix(parts, subject) ==
  \E decoded \in DecodeSubject(subject) :
    \A i \in 1..(IF FirstWildcard(parts) = {} THEN Len(parts) ELSE Only(FirstWildcard(parts))) :
      parts[i] \in {Wildcard, decoded[i]}

MatchesWatchPattern(parts, subject) ==
  \E decoded \in DecodeSubject(subject) :
    /\ Len(decoded) = Len(parts)
    /\ \A i \in DOMAIN parts : parts[i] \in {Wildcard, decoded[i]}

\* The event type that owns a topic base.
Owners(base) ==
  {type \in DOMAIN schemas : \E t \in schemas[type].topic : <<t.base>> = base}

MatchesConstraints(constraints, subject) ==
  \E decoded \in DecodeSubject(subject) :
    \E type \in Owners(decoded[1]) :
      LET order == Only(schemas[type].topic).key_order
      IN \A field \in DOMAIN constraints :
           \E i \in DOMAIN order :
             /\ order[i] = field /\ i < Len(decoded)
             /\ decoded[i + 1] \notin {<<>>, Wildcard}
             /\ MatchesConstraint(constraints[field], decoded[i + 1])

\* The fields of a request that are taken for filters by geometry, whether or not
\* the event type has a schema.  A polygon that is a lone asterisk is none.
FilterFields(given) ==
  {f \in {"point", "polygon"} \cap DOMAIN given :
     ~(given[f].form = "word" /\ given[f].text = Wildcard)}

\* The boxes are compared first, then the geometry itself.
MatchesPolygon(ring, metadata) ==
  \E m \in metadata :
    /\ BoxesIntersect(m.box, BoundingBox(ring))
    /\ IF m.field = "point_cloud"
       THEN \E p \in ToSet(m.geometry) : Covers(ring, p)
       ELSE RingsIntersect(m.geometry, ring)

\* extract_candidate_polygon: what is stored with the message, or else what its
\* payload says.
CandidatePolygon(message) ==
  LET stored == {m.geometry : m \in {x \in message.metadata : x.field = "polygon"}}
  IN IF stored # {} THEN stored ELSE message.drawn

MatchesPoint(p, message) ==
  /\ \A m \in message.metadata : BoxContains(m.box, p)
  /\ \E ring \in CandidatePolygon(message) : Inside(ring, p)

MatchesFilters(sub, message) ==
  /\ DOMAIN sub.constraints # {} => MatchesConstraints(sub.constraints, message.topic)
  /\ "point" \in sub.filters => \E p \in sub.point : MatchesPoint(p, message)
  /\ "polygon" \in sub.filters =>
       \E ring \in sub.polygon : MatchesPolygon(ring, message.metadata)

Passes(sub, message) ==
  /\ InStream(sub.coarse, message.topic)
  /\ MatchesWatchPattern(sub.parts, message.topic)
  /\ MatchesFilters(sub, message)

\* The fields of an event are read back from the topic and the geometry.
EventIdentifier(schema, message) ==
  LET decoded == Only(DecodeSubject(message.topic))
      order == Only(schema.topic).key_order
      at(field) == 1 + Only({i \in DOMAIN order : order[i] = field})
      routed == {f \in ToSet(order) : at(f) <= Len(decoded)
                                      /\ decoded[at(f)] \notin {<<>>, Wildcard}}
      stored == {m.field : m \in message.metadata}
  IN [f \in routed \cup stored |->
        IF f \in stored THEN <<ToString(Only(message.metadata).geometry)>> ELSE decoded[at(f)]]

\* The event made of a message; {} when no event type owns the topic.
CloudEvent(message) ==
  {[type |-> type, identifier |-> EventIdentifier(schemas[type], message)] :
     type \in UNION {Owners(decoded[1]) : decoded \in DecodeSubject(message.topic)}}

-----------------------------------------------------------------------------
(* The server.                                                              *)

RoutingInit ==
  /\ scenario \in DOMAIN Scenarios
  /\ phase = "starting"
  /\ log = <<>> /\ subs = <<>> /\ seen = {}

\* Application::build: nothing is served with settings that are not accepted.
Start ==
  /\ phase = "starting"
  /\ phase' = IF Accepts(settings) THEN "serving" ELSE "refused"
  /\ UNCHANGED <<scenario, log, subs, seen>>

\* POST /notification with a request that is accepted: the message is stored, with
\* what geometry its payload has (drawn).
Publish ==
  /\ phase = "serving" /\ Len(log) + Len(subs) < MaxInputs
  /\ \E n \in Scenarios[scenario].notifications :
       \E params \in ProcessParams(n.type, n.identifier, n.payload, "notify") :
         \E topic \in ProcessTopic(n.type, params, "notify") :
           log' = Append(log,
             [topic |-> topic, type |-> n.type, identifier |-> n.identifier, drawn |-> n.drawn,
              metadata |-> IF HasSchema(n.type)
                           THEN SpatialMetadata(schemas[n.type], n.identifier) ELSE {}])
  /\ UNCHANGED <<scenario, phase, subs, seen>>

\* Mutation of Admitted: no destination is taken for an admitted one.
AdmittedOrAny(type, params) ==
  type \in EcpdsStreams(settings) =>
    params[Only(settings.ecpds).match_key] \in Granted \cup {Wildcard}

\* The value of the match key that the ECPDS plugin checks, on its streams.
Admitted(type, params) ==
  type \in EcpdsStreams(settings) => params[Only(settings.ecpds).match_key] \in Granted

\* POST /watch or /replay with a request that is accepted: its pattern and its
\* filters are made once.
Subscribe ==
  /\ phase = "serving" /\ Len(subs) < MaxSubscriptions /\ Len(log) + Len(subs) < MaxInputs
  /\ \E r \in Scenarios[scenario].requests :
       \E params \in ProcessParams(r.type, r.identifier, TRUE, "watch") :
         \E topic \in ProcessTopic(r.type, params, "watch") :
           \E parts \in DecodeSubject(topic) :
             /\ Admitted(r.type, params)
             /\ subs' = Append(subs,
                  [type |-> r.type, identifier |-> r.identifier, parts |-> parts,
                   coarse |-> CoarsePattern(parts),
                   constraints |->
                     [f \in {g \in DOMAIN r.identifier : r.identifier[g].form = "object"} |->
                        Only(ParseConstraint(schemas[r.type].identifier[f], r.identifier[f]))],
                   filters |-> FilterFields(r.identifier),
                   point |-> UNION {PointHandler(r.identifier[f]) :
                                      f \in {"point"} \cap DOMAIN r.identifier},
                   polygon |-> UNION {PolygonHandler(r.identifier[f]) :
                                        f \in {"polygon"} \cap DOMAIN r.identifier}])
  /\ UNCHANGED <<scenario, phase, log, seen>>

\* A message comes up in a watch or a replay: it is filtered, then rendered.
Examine ==
  \E s \in DOMAIN subs, m \in DOMAIN log :
    /\ \A pair \in seen : <<pair.sub, pair.message>> # <<s, m>>
    /\ seen' = seen \cup
         {[sub |-> s, message |-> m, delivered |-> Passes(subs[s], log[m]),
           event |-> IF Passes(subs[s], log[m]) THEN CloudEvent(log[m]) ELSE {}]}
    /\ UNCHANGED <<scenario, phase, log, subs>>

RoutingNext == Start \/ Publish \/ Subscribe \/ Examine

RoutingSpec == RoutingInit /\ [][RoutingNext]_routingVars

-----------------------------------------------------------------------------
(* Properties.                                                              *)

\* Type invariant: messages and subscriptions within their bounds, and every pair
\* examined is one of them.
RoutingTypeOK ==
  /\ scenario \in DOMAIN Scenarios
  /\ phase \in {"starting", "serving", "refused"}
  /\ Len(log) + Len(subs) <= MaxInputs /\ Len(subs) <= MaxSubscriptions
  /\ \A e \in seen : e.sub \in DOMAIN subs /\ e.message \in DOMAIN log

\* Whether a reader asked for a notification, by what the values on both sides
\* mean and where the places are.
FieldRequested(rule, asked, published) ==
  IF asked.form = "object" THEN Admits(rule, asked, Meaning(rule, published))
  ELSE Meaning(rule, asked) = Meaning(rule, published)

PlaceRequested(asked, given) ==
  /\ "point" \in DOMAIN asked => Inside(given["polygon"].positions, asked["point"].at)
  /\ "polygon" \in DOMAIN asked =>
       IF "polygon" \in DOMAIN given
       THEN RingsIntersect(given["polygon"].positions, asked["polygon"].positions)
       ELSE \E p \in Positions(given["point_cloud"]) : Covers(asked["polygon"].positions, p)

Requested(sub, message) ==
  /\ sub.type = message.type
  /\ HasSchema(sub.type) =>
       LET rule == schemas[sub.type].identifier
       IN /\ \A f \in DOMAIN sub.identifier \cap DOMAIN rule :
               ~Spatial(rule[f]) =>
                 FieldRequested(rule[f], sub.identifier[f], message.identifier[f])
          /\ PlaceRequested(sub.identifier, message.identifier)
  /\ ~HasSchema(sub.type) =>
       /\ DOMAIN sub.identifier = DOMAIN message.identifier
       /\ \A f \in DOMAIN sub.identifier :
            Text(sub.identifier[f]) = Text(message.identifier[f])

\* What is asked for and yet not found: without a schema nothing has a geometry, and
\* a field that is taken for a filter finds none; a zero is not found under the
\* other sign; and a constraint finds nothing of an event type without a topic
\* block, which is not found by its topic base.
Missed(sub, message) ==
  IF HasSchema(sub.type)
  THEN LET rule == schemas[sub.type].identifier
       IN \/ schemas[sub.type].topic = {} /\ DOMAIN sub.constraints # {}
          \/ \E f \in DOMAIN sub.identifier \cap DOMAIN rule :
               ~Spatial(rule[f]) /\ OppositeZeros(rule[f], sub.identifier[f], message.identifier[f])
  ELSE FilterFields(sub.identifier) # {}

\* What the topics of an event type begin with.
OwnBase(sett, type) == IF type \in DOMAIN sett.schema THEN Base(sett.schema[type], type) ELSE type

\* Two event types with the same: one of them has no schema and has the name of the
\* topic base of the other.
Namesakes(sett, type, other) == type # other /\ OwnBase(sett, type) = OwnBase(sett, other)

\* Once settings are accepted, a watch or replay gets exactly the notifications
\* that its fields, constraints and geometry ask for, in whatever spelling either
\* side used, but for what Missed lists: canonical texts, the order of the tokens,
\* the coarse pattern and the filters never lose another one and never let one
\* through that was not asked for.  Only namesakes get each other's notifications.
DeliveredIffRequested ==
  \A e \in seen :
    LET sub == subs[e.sub]
        message == log[e.message]
    IN ~Namesakes(settings, sub.type, message.type) =>
         (e.delivered <=> Requested(sub, message) /\ ~Missed(sub, message))

\* The event a reader gets carries the event type and the fields that were
\* published, reserved characters and geometry included: nothing is lost or mixed
\* up between the request, the subject, the stored message and the event.
IdentifiersSurviveRouting ==
  \A e \in seen :
    LET message == log[e.message]
    IN (e.delivered /\ HasSchema(message.type) /\ schemas[message.type].topic # {}) =>
         e.event =
           {[type |-> message.type,
             identifier |-> [f \in DOMAIN message.identifier |->
               Only(Canonical(schemas[message.type].identifier[f], message.identifier[f]))]]}

\* What a published value means: the places of geometry, or the reference of its
\* handler.
PublishedMeaning(rule, v) == IF Spatial(rule) THEN v.positions ELSE Meaning(rule, v)

\* Two published values that are one for the server: zeros of different sign are two.
SameValue(rule, v, w) ==
  PublishedMeaning(rule, v) = PublishedMeaning(rule, w) /\ ~OppositeZeros(rule, v, w)

\* Two notifications of an event type get the same subject exactly if their
\* fields mean the same and have no zeros of different sign: latest-only storage
\* keeps no other two versions of one notification and replaces no different one.
SameTopicIffSameMeaning ==
  \A i, j \in DOMAIN log :
    (log[i].type = log[j].type /\ HasSchema(log[i].type)) =>
      LET schema == schemas[log[i].type]
          routed == {f \in DOMAIN schema.identifier : \A t \in schema.topic : Routes(t, f)}
      IN log[i].topic = log[j].topic <=>
           \A f \in routed :
             SameValue(schema.identifier[f], log[i].identifier[f], log[j].identifier[f])

\* The destination of a notification is one that ECPDS grants the reader.
ForGranted(message) ==
  LET key == Only(settings.ecpds).match_key
  IN Only(Canonical(schemas[message.type].identifier[key], message.identifier[key])) \in Granted

\* Of an event type with the ECPDS plugin, every reader only ever gets notifications
\* for the destination that was checked, although the check saw the request and never
\* the notifications, except who reads a namesake: strict mode off, an event type
\* without a schema, and so without a plugin, that has the name of the topic base.
OnlyGrantedDestinations ==
  \A e \in seen :
    LET sub == subs[e.sub]
        message == log[e.message]
    IN /\ e.delivered /\ message.type \in EcpdsStreams(settings)
       /\ ~Namesakes(settings, sub.type, message.type)
       => ForGranted(message)

-----------------------------------------------------------------------------
(* Conditions on the inputs, under which the properties hold for any of     *)
(* them.                                                                    *)

\* Taken without a schema, which strict mode forbids.
Generic(sett, type) == ~Strict(sett) /\ type \notin DOMAIN sett.schema

\* The values published, or asked for, in a field of an event type.
ValuesIn(inputs, type, field) ==
  {input.identifier[field] :
     input \in {x \in inputs : x.type = type /\ field \in DOMAIN x.identifier}}
PublishedValues(i, type, field) == ValuesIn(Scenarios[i].notifications, type, field)
AskedValues(i, type, field) == ValuesIn(Scenarios[i].requests, type, field)

\* No value is published that is empty or a lone asterisk once it is canonical.
NoBlankValues ==
  \A i \in DOMAIN Scenarios :
    \A type \in DOMAIN Scenarios[i].settings.schema :
      LET rule == Scenarios[i].settings.schema[type].identifier
      IN \A field \in DOMAIN rule : \A v \in PublishedValues(i, type, field) :
           Canonical(rule[field], v) \cap {<<>>, Wildcard} = {}

\* Two accepted values of a field have the same text exactly if they are one.
CanonicalFaithful ==
  \A i \in DOMAIN Scenarios :
    \A type \in DOMAIN Scenarios[i].settings.schema :
      LET rule == Scenarios[i].settings.schema[type].identifier
      IN \A field \in DOMAIN rule : \A v, w \in PublishedValues(i, type, field) :
           LET texts == Canonical(rule[field], v)
               others == Canonical(rule[field], w)
           IN (texts # {} /\ others # {}) =>
                (Only(texts) = Only(others) <=> SameValue(rule[field], v, w))

\* The text of an accepted scalar is no asterisk and equals a published one exactly
\* if both mean the same and are no zeros of different sign; an accepted constraint
\* takes the texts of the values that it admits.
TextsAgree(rule, asked, published) ==
  \A text \in Canonical(rule, published) :
    LET meant == FieldRequested(rule, asked, published)
    IN IF asked.form = "object"
       THEN \A c \in ParseConstraint(rule, asked) : MatchesConstraint(c, text) <=> meant
       ELSE \A other \in Canonical(rule, asked) :
              /\ other # Wildcard
              /\ other = text <=> meant /\ ~OppositeZeros(rule, asked, published)

AskedFaithful ==
  \A i \in DOMAIN Scenarios :
    \A type \in DOMAIN Scenarios[i].settings.schema :
      LET rule == Scenarios[i].settings.schema[type].identifier
      IN \A field \in {f \in DOMAIN rule : ~Spatial(rule[f])} :
           \A v \in PublishedValues(i, type, field), w \in AskedValues(i, type, field) :
             TextsAgree(rule[field], w, v)

\* A point in a ring is in its box, and so on: comparing the boxes first loses no
\* match.
BoxesCover(i, type, field, g) ==
  /\ \A w \in AskedValues(i, type, "point") : \A p \in PointHandler(w) :
       (field = "polygon" /\ Inside(g, p)) => BoxContains(BoundingBox(g), p)
  /\ \A w \in AskedValues(i, type, "polygon") : \A ring \in PolygonHandler(w) :
       (IF field = "point_cloud" THEN \E p \in ToSet(g) : Covers(ring, p)
        ELSE RingsIntersect(g, ring)) =>
         BoxesIntersect(BoundingBox(g), BoundingBox(ring))

BoxesFaithful ==
  \A i \in DOMAIN Scenarios :
    \A type \in DOMAIN Scenarios[i].settings.schema :
      LET rule == Scenarios[i].settings.schema[type].identifier
      IN \A field \in {f \in DOMAIN rule : Spatial(rule[f])} :
           \A v \in PublishedValues(i, type, field) : \A g \in Geometry(rule[field], v) :
             BoxesCover(i, type, field, g)

\* Event types without a topic block have fields, none of them spatial.
TopiclessPlain ==
  \A i \in DOMAIN Scenarios :
    \A type \in DOMAIN Scenarios[i].settings.schema :
      LET schema == Scenarios[i].settings.schema[type]
      IN schema.topic = {} =>
           /\ DOMAIN schema.identifier # {}
           /\ \A field \in DOMAIN schema.identifier : ~Spatial(schema.identifier[field])

\* Event types without a schema are published and asked for with the same fields,
\* and without a lone asterisk.
GenericsAlike ==
  \A i \in DOMAIN Scenarios :
    LET sett == Scenarios[i].settings
        generic(inputs) == {x \in inputs : Generic(sett, x.type)}
    IN \A n \in generic(Scenarios[i].notifications), r \in generic(Scenarios[i].requests) :
         n.type = r.type =>
           /\ DOMAIN n.identifier = DOMAIN r.identifier /\ DOMAIN n.identifier # {}
           /\ \A field \in DOMAIN r.identifier :
                IsScalar(r.identifier[field]) => Text(r.identifier[field]) # Wildcard
=============================================================================
