----------------------------- MODULE Configuration -----------------------------
(***************************************************************************)
(* The settings the server starts with and the checks they pass at startup *)
(* (src/configuration): the rest of the server relies on what is refused   *)
(* here.  Routing and Gateway start from settings that may be refused.     *)
(*                                                                         *)
(* An optional setting is a set of at most one element.  Names are model   *)
(* strings: Untrimmed are those that begin or end with white space, and    *)
(* StreamName gives the name of the stream, in upper case, of every name   *)
(* that is a valid topic base.                                             *)
(***************************************************************************)
EXTENDS Naturals, Sequences, FiniteSets, SequencesExt

CONSTANTS
  Untrimmed,        \* names with white space at an end
  StreamName,       \* of the valid topic bases
  Features          \* Cargo features of the build

ASSUME FeaturesAssumption == Features \subseteq {"ecpds"}

\* Letters, digits, hyphens and underscores make a topic base.
ASSUME StreamNameAssumption == "*" \notin DOMAIN StreamName

HardMaxPoints == 10000

Spatial(rule) == rule.type \in {"PolygonHandler", "PointCloudHandler"}

\* White space or a slash inside a match key is refused as well: no name here has one.
Proper(name) == name # "" /\ name \notin Untrimmed

-----------------------------------------------------------------------------
(* Settings with every optional part left out.                              *)

EventSchema(identifier) ==
  [topic |-> {}, identifier |-> identifier, payload_required |-> FALSE,
   storage_policy |-> {}, auth |-> {}]

StreamAuth(required) ==
  [required |-> required, read_roles |-> {}, write_roles |-> {}, plugins |-> {}]

AuthSettings ==
  [enabled |-> FALSE, mode |-> "direct", auth_o_tron_url |-> "", jwt_secret |-> "",
   admin_roles |-> <<>>, timeout_ms |-> 5000]

\* schema is a function on the configured event types; none configured is a
\* function on nothing.
DefaultSettings ==
  [kind |-> "in_memory", retention_policy |-> {}, schema |-> <<>>, strict |-> {},
   auth |-> AuthSettings, ecpds |-> {},
   metrics |-> [enabled |-> FALSE, port |-> {}], port |-> 8000]

EcpdsSettings(match_key) ==
  [username |-> "aviso", password |-> "secret", target_field |-> "name",
   match_key |-> match_key, cache_ttl_seconds |-> 300, max_entries |-> 10000,
   request_timeout_seconds |-> 30, connect_timeout_seconds |-> 5,
   servers |-> <<[url |-> TRUE, scheme |-> "https", loopback |-> FALSE,
                  query |-> FALSE, fragment |-> FALSE]>>]

\* Unset, strict mode follows from whether there is a schema.
Strict(settings) ==
  IF settings.strict = {} THEN DOMAIN settings.schema # {} ELSE TRUE \in settings.strict

-----------------------------------------------------------------------------
(* Topics and spatial identifiers.                                          *)

ValidTopicBase(base) == base \in DOMAIN StreamName

Base(schema, type) ==
  IF schema.topic = {} THEN type ELSE (CHOOSE t \in schema.topic : TRUE).base

Routes(topic, field) == field \in ToSet(topic.key_order)

\* An identifier that is not routed on is lost, unless it is spatial: geometry
\* is stored beside the subject.
ValidateTopicSchema(schema) ==
  \A topic \in schema.topic :
    /\ topic.key_order # <<>>
    /\ ~Routes(topic, "point_cloud")
    /\ \A i \in DOMAIN topic.key_order :
         /\ topic.key_order[i] \in DOMAIN schema.identifier
         /\ \A j \in 1..(i - 1) : topic.key_order[i] # topic.key_order[j]
    /\ \A field \in DOMAIN schema.identifier :
         Routes(topic, field) \/ Spatial(schema.identifier[field])

ValidateSpatialSchema(schema) ==
  LET rule == schema.identifier
  IN /\ \A field \in DOMAIN rule :
          /\ field = "polygon" <=> rule[field].type = "PolygonHandler"
          /\ field = "point_cloud" <=> rule[field].type = "PointCloudHandler"
     /\ "point_cloud" \in DOMAIN rule =>
          /\ "polygon" \notin DOMAIN rule
          /\ schema.topic # {}
          /\ rule["point_cloud"].max_points \in 1..HardMaxPoints
          /\ \A topic \in schema.topic : ~Routes(topic, "point_cloud")

-----------------------------------------------------------------------------
(* Storage policies and the names of streams.                               *)

PolicyFields ==
  {"retention_time", "max_messages", "max_size", "allow_duplicates", "compression"}

\* The in-memory backend supports none of the fields.
Capabilities(kind) == IF kind = "jetstream" THEN PolicyFields ELSE {}

\* A literal is [amount, unit].  The upper limits of the amounts (retention in
\* signed 64-bit nanoseconds, sizes in signed 64 bits) are left out.
ParsedRetentionTime(literal) == literal.unit \in {"s", "m", "h", "d", "w"}

ParsedSize(literal) ==
  literal.amount > 0 /\ literal.unit \in {"K", "M", "G", "T", "Ki", "Mi", "Gi", "Ti"}

\* policy is a function on the fields that are set.
ValidatePolicyFields(kind, policy) ==
  /\ "retention_time" \in DOMAIN policy =>
       ParsedRetentionTime(policy["retention_time"]) /\ policy["retention_time"].amount > 0
  /\ "max_size" \in DOMAIN policy => ParsedSize(policy["max_size"])
  /\ "max_messages" \in DOMAIN policy => policy["max_messages"].amount > 0
  /\ DOMAIN policy \subseteq Capabilities(kind)

\* Names of streams tell event types apart without regard to case.
ValidateStorage(settings) ==
  LET schema == settings.schema
      base == [type \in DOMAIN schema |-> Base(schema[type], type)]
  IN /\ settings.kind \in {"jetstream", "in_memory"}
     /\ settings.kind = "jetstream" => "workqueue" \notin settings.retention_policy
     /\ \A type \in DOMAIN schema : ValidTopicBase(base[type])
     /\ \A t, u \in DOMAIN schema : t # u => StreamName[base[t]] # StreamName[base[u]]
     /\ \A type \in DOMAIN schema : \A policy \in schema[type].storage_policy :
          schema[type].topic # {} /\ ValidatePolicyFields(settings.kind, policy)

-----------------------------------------------------------------------------
(* Authentication, roles and plugins.                                       *)

\* Roles are a function from realms to sets of roles.
ValidateRealmRoles(realm_roles) ==
  \A realm \in DOMAIN realm_roles :
    Proper(realm) /\ realm_roles[realm] # {} /\ \A role \in realm_roles[realm] : Proper(role)

ValidateAuth(auth) ==
  auth.enabled =>
    /\ {auth.auth_o_tron_url, auth.jwt_secret} \cap Untrimmed = {}
    /\ auth.timeout_ms > 0
    /\ DOMAIN auth.admin_roles # {}
    /\ ValidateRealmRoles(auth.admin_roles)
    /\ auth.jwt_secret # ""
    /\ auth.mode = "direct" => auth.auth_o_tron_url # ""

\* Mutation of ValidateStreamPlugins: a plugin is accepted where nobody has to log in.
ValidateStreamPluginsAlone(schema) ==
  \A auth \in schema.auth : \A plugins \in auth.plugins :
    plugins # {} /\ plugins \subseteq {"ecpds"} \cap Features

\* A plugin runs only after stream authorization: without it, it never would.
ValidateStreamPlugins(schema) ==
  \A auth \in schema.auth : \A plugins \in auth.plugins :
    /\ plugins # {}
    /\ plugins \subseteq {"ecpds"} \cap Features
    /\ auth.required

HasRoles(auth) == auth.read_roles # {} \/ auth.write_roles # {}

ValidateStreamAuth(settings, schema) ==
  \A auth \in schema.auth :
    /\ \A roles \in auth.read_roles \cup auth.write_roles :
         DOMAIN roles # {} /\ ValidateRealmRoles(roles)
    /\ HasRoles(auth) => auth.required
    /\ auth.required => settings.auth.enabled

-----------------------------------------------------------------------------
(* Metrics and ECPDS.                                                       *)

ValidateMetrics(settings) ==
  settings.metrics.enabled =>
    /\ settings.metrics.port # {}
    /\ settings.metrics.port \cap {0, settings.port} = {}

EcpdsStreams(settings) ==
  {type \in DOMAIN settings.schema :
     \E auth \in settings.schema[type].auth : \E plugins \in auth.plugins : "ecpds" \in plugins}

ValidateServer(server) ==
  /\ server.url
  /\ server.scheme = "https" \/ (server.scheme = "http" /\ server.loopback)
  /\ ~server.query /\ ~server.fragment

\* Access is checked for one value of the match key: the key has to be in every
\* request, and routed on, so that only what was checked is delivered.
ValidateMatchKey(schema, key) ==
  /\ key \in DOMAIN schema.identifier
  /\ schema.identifier[key].required
  /\ ~Spatial(schema.identifier[key])
  /\ \A topic \in schema.topic : Routes(topic, key)

\* Mutation of ValidateEcpds: the plugin is accepted without its section.
ValidateEcpdsIfGiven(settings) ==
  EcpdsStreams(settings) # {} =>
    \A e \in settings.ecpds : \A type \in EcpdsStreams(settings) :
      ValidateMatchKey(settings.schema[type], e.match_key)

ValidateEcpds(settings) ==
  ("ecpds" \in Features /\ EcpdsStreams(settings) # {}) =>
    /\ settings.ecpds # {}
    /\ \A e \in settings.ecpds :
         /\ e.servers # <<>> /\ \A server \in ToSet(e.servers) : ValidateServer(server)
         /\ \A name \in {e.username, e.password, e.target_field, e.match_key} : Proper(name)
         /\ \A n \in {e.cache_ttl_seconds, e.max_entries, e.request_timeout_seconds,
                      e.connect_timeout_seconds} : n > 0
         /\ e.match_key # "polygon"
         /\ \A type \in EcpdsStreams(settings) :
              ValidateMatchKey(settings.schema[type], e.match_key)

\* An unused section is not even looked at.
HasChecker(settings) ==
  "ecpds" \in Features /\ settings.ecpds # {} /\ EcpdsStreams(settings) # {}

-----------------------------------------------------------------------------

\* What Application::build checks before it opens anything.
Accepts(settings) ==
  /\ ValidateStorage(settings)
  /\ ValidateAuth(settings.auth)
  /\ ValidateMetrics(settings)
  /\ ValidateEcpds(settings)
  /\ \A type \in DOMAIN settings.schema :
       /\ ValidateTopicSchema(settings.schema[type])
       /\ ValidateSpatialSchema(settings.schema[type])
       /\ ValidateStreamPlugins(settings.schema[type])
       /\ ValidateStreamAuth(settings, settings.schema[type])
=============================================================================
