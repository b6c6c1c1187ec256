-------------------------------- MODULE Gateway --------------------------------
(***************************************************************************)
(* Who may do what: a request on its way through the authentication        *)
(* middleware (src/auth/middleware.rs, client.rs), the checks of its       *)
(* handler (src/routes) and the backend, and what of it the metrics count. *)
(* Every check relies on what startup refused, and on what the checks      *)
(* before it let through; between them the request waits for auth-o-tron,  *)
(* for ECPDS and for the backend, and its client may leave.                *)
(*                                                                         *)
(* Whether the fields of a request are accepted is part of the request     *)
(* here (body) and the subject of Routing; SseStream continues after a     *)
(* stream is opened, EcpdsAccess has the check of ECPDS in detail.         *)
(***************************************************************************)
EXTENDS Configuration, Bags

CONSTANTS
  Deployments,   \* a sequence of settings to start with
  EventTypes,    \* the event types that clients name, configured or not
  Users,         \* what tokens say: a name, a realm (if any) and roles
  Requests       \* identities of requests: bounds the requests in a behaviour

\* Settings as they are deserialized: an optional one is a set of at most one.
ASSUME DeploymentsAssumption ==
  \A i \in DOMAIN Deployments :
    LET deployed == Deployments[i]
    IN /\ deployed.auth.mode \in {"direct", "trusted_proxy"}
       /\ \A type \in DOMAIN deployed.schema : \A auth \in deployed.schema[type].auth :
            /\ deployed.schema[type].auth = {auth}
            /\ \A roles \in auth.read_roles : auth.read_roles = {roles}
            /\ \A roles \in auth.write_roles : auth.write_roles = {roles}

VARIABLES
  deployment,   \* the index of the settings
  phase,        \* starting, serving or refused
  request,      \* the requests
  counted       \* a bag: notifications_total, auth_requests_total, access decisions

vars == <<deployment, phase, request, counted>>

settings == Deployments[deployment]
schemas == settings.schema
HasSchema(type) == type \in DOMAIN schemas

AdminOperations == {"wipe_stream", "wipe_all", "delete"}
Operations == {"notify", "watch", "replay", "schema"} \cup AdminOperations
Headers == {"absent", "malformed", "basic", "bearer"}

\* What may be wrong with a body; "started" is one in order that names a start.
Bodies ==
  {"good", "started", "unparsable", "end_point", "point", "two_filters", "two_starts",
   "missing_field", "unknown_field", "bad_field", "no_payload", "bad_id"}

\* Without those that make no difference: only some operations read one.
BodiesOf(op) ==
  CASE op \in {"notify", "watch", "replay"} -> Bodies
    [] op = "delete" -> {"good", "bad_id"}
    [] OTHER -> {"good"}

\* How a request spells its path.  Routing goes by the decoded path and names the
\* operation; for the middleware a path with percent-encoded letters is another
\* one.  Without those that make no difference to it.
Spellings == {"documented", "encoded"}

Paths(op) == IF op \in AdminOperations \cup {"schema"} THEN Spellings ELSE {"documented"}

NoRequest ==
  [stage |-> "none", op |-> "schema", path |-> "documented", type |-> "", header |-> "absent", claims |-> {},
   body |-> "good", user |-> {}, granted |-> FALSE, status |-> 0, code |-> "", effect |-> "none"]

\* What the middleware takes for administration, and for public.
IsAdminPath(q) == q.op \in AdminOperations /\ q.path = "documented"
IsSchemaPath(q) == q.op = "schema" /\ q.path = "documented"

Waiting == {"authenticating", "checking", "storing", "opening", "erasing"}

-----------------------------------------------------------------------------
(* Users and roles.                                                         *)

HasAnyRole(user, realm_roles) ==
  \/ DOMAIN realm_roles = {}
  \/ \E realm \in user.realm \cap DOMAIN realm_roles :
       "*" \in realm_roles[realm] \/ user.roles \cap realm_roles[realm] # {}

IsAdmin(user) == HasAnyRole(user, settings.auth.admin_roles)

\* Mutation of Credentials: whatever is in the header is taken for credentials.
CredentialsPresent(header) == IF header = "absent" THEN "none" ELSE "given"

\* Credentials a mode takes: a reverse proxy passes tokens on only.
Credentials(header) ==
  IF header = "absent" THEN "none"
  ELSE IF header = "malformed" \/ (settings.auth.mode = "trusted_proxy" /\ header = "basic")
    THEN "malformed"
  ELSE "given"

\* The client of auth-o-tron, made once.
HasAuthClient ==
  settings.auth.enabled /\ settings.auth.mode = "direct" /\ settings.auth.auth_o_tron_url # ""

-----------------------------------------------------------------------------
(* Steps of a request.                                                      *)

Count(entries) == counted' = counted (+) SetToBag(entries)

Goes(r, stage) == request' = [request EXCEPT ![r].stage = stage]

Answer(r, status, code) ==
  request' = [request EXCEPT ![r].stage = "answered", ![r].status = status, ![r].code = code]

AuthCount(outcome) == [metric |-> "auth", label |-> settings.auth.mode, outcome |-> outcome]

FailureStatus(reason) ==
  CASE reason = "unauthorized" -> 401
    [] reason = "forbidden" -> 403
    [] reason = "service_unavailable" -> 503

\* resolve_user fails, or finds a user who is not enough.
Fail(r, reason, code) == Answer(r, FailureStatus(reason), code) /\ Count({AuthCount(reason)})

\* A user is resolved: paths of administration are for administrators.
Admit(r, user) ==
  IF IsAdminPath(request[r]) /\ ~IsAdmin(user)
  THEN Fail(r, "forbidden", "FORBIDDEN")
  ELSE /\ request' = [request EXCEPT ![r].stage = "admitted", ![r].user = {user}]
       /\ Count({AuthCount("success")})

\* validate_jwt: a token is in order or not.
Token(r, valid) ==
  IF valid /\ request[r].claims # {}
  THEN \E user \in request[r].claims : Admit(r, user)
  ELSE Fail(r, "unauthorized", "UNAUTHORIZED")

AuthOTronAnswerWithoutToken(r) ==
  \/ Fail(r, "unauthorized", "UNAUTHORIZED")
  \/ Fail(r, "forbidden", "FORBIDDEN")
  \/ Fail(r, "service_unavailable", "SERVICE_UNAVAILABLE")

Init ==
  /\ deployment \in DOMAIN Deployments
  /\ phase = "starting"
  /\ request = [r \in Requests |-> NoRequest]
  /\ counted = EmptyBag

\* Application::build.
Start ==
  /\ phase = "starting"
  /\ phase' = IF Accepts(settings) THEN "serving" ELSE "refused"
  /\ UNCHANGED <<deployment, request, counted>>

Arrive(r) ==
  /\ phase = "serving" /\ request[r].stage = "none"
  /\ \E op \in Operations, type \in EventTypes, header \in Headers :
     \E body \in BodiesOf(op), path \in Paths(op),
        claims \in IF header \in {"basic", "bearer"} THEN {{}} \cup {{u} : u \in Users} ELSE {{}} :
         request' = [request EXCEPT ![r] =
           [NoRequest EXCEPT !.stage = "arrived", !.op = op, !.path = path, !.type = type,
                             !.header = header, !.claims = claims, !.body = body]]
  /\ UNCHANGED <<deployment, phase, counted>>

\* AuthMiddlewareService::call, up to the answer of auth-o-tron.
Authenticate(r) ==
  LET q == request[r]
      given == Credentials(q.header)
  IN /\ q.stage = "arrived"
     /\ IF ~settings.auth.enabled \/ IsSchemaPath(q)
          THEN Goes(r, "admitted") /\ UNCHANGED counted
        ELSE IF given = "given" /\ settings.auth.mode = "trusted_proxy"
          THEN \E valid \in BOOLEAN : Token(r, valid)
        ELSE IF given = "given" /\ HasAuthClient
          THEN Goes(r, "authenticating") /\ UNCHANGED counted
        ELSE IF given = "given"
          THEN Fail(r, "service_unavailable", "MISCONFIGURED")
        ELSE IF IsAdminPath(q)
          THEN Fail(r, "unauthorized", "UNAUTHORIZED")
        ELSE Goes(r, "admitted") /\ UNCHANGED counted
     /\ UNCHANGED <<deployment, phase>>

\* Its token is validated here as well.
AuthOTronAnswers(r) ==
  /\ request[r].stage = "authenticating"
  /\ (\E valid \in BOOLEAN : Token(r, valid)) \/ AuthOTronAnswerWithoutToken(r)
  /\ UNCHANGED <<deployment, phase>>

-----------------------------------------------------------------------------
(* The checks of the handlers.                                              *)

Known(type) == HasSchema(type) \/ ~Strict(settings)

\* Mutation of Label: the label is what the client wrote.
LabelAsNamed(type) == type

\* bucket_event_type_for_observability
Label(type) == IF HasSchema(type) THEN type ELSE "generic"

Required(type) ==
  settings.auth.enabled /\ HasSchema(type) /\ \E auth \in schemas[type].auth : auth.required

\* enforce_stream_auth: 0, or the status of a refusal.
StreamAuthorization(q) ==
  IF ~Required(q.type) THEN 0
  ELSE IF q.user = {} THEN 401
  ELSE LET auth == CHOOSE a \in schemas[q.type].auth : TRUE
           user == CHOOSE u \in q.user : TRUE
           roles == IF q.op = "notify" THEN auth.write_roles ELSE auth.read_roles
       IN IF \/ IsAdmin(user)
             \/ roles = {} /\ q.op # "notify"
             \/ \E rr \in roles : HasAnyRole(user, rr)
          THEN 0 ELSE 403

\* process_notification_request and StreamingRequestProcessor::process_request on
\* fields that are not in order.  Without a schema only a bad scalar is refused.
BadFields(q) ==
  \/ ~HasSchema(q.type) /\ ~ValidTopicBase(q.type)
  \/ q.body = "bad_field"
  \/ HasSchema(q.type) /\ q.body \in {"missing_field", "unknown_field"}
  \/ q.body = "no_payload" /\ q.op = "notify" /\ HasSchema(q.type)
       /\ schemas[q.type].payload_required

BadStart(q) ==
  \/ q.body \in {"two_filters", "two_starts"}
  \/ q.body = "end_point" /\ q.op = "watch"
  \/ q.body # "started" /\ q.op = "replay"
  \/ q.body = "point" /\ HasSchema(q.type) /\ "polygon" \notin DOMAIN schemas[q.type].identifier

\* The message of an unknown field is not recognised as one of validation, and
\* a name that is no topic base or misses a field is.
FieldStatus(q) == IF q.body = "unknown_field" /\ ValidTopicBase(q.type) THEN 500 ELSE 400

\* The checks of POST /notification in their order: whether one fails, the status,
\* the code and the labels of the notification that is counted.
NotifyChecks(q) ==
  LET check(fails, status, code, type, outcome) ==
        [fails |-> fails, status |-> status, code |-> code,
         counts |-> {[metric |-> "notification", label |-> type, outcome |-> outcome]}]
      label == Label(q.type)
      authorization == StreamAuthorization(q)
  IN <<check(q.body = "unparsable", 400, "PARSE", "unknown", "error"),
       check(~Known(q.type), 400, "UNKNOWN_EVENT_TYPE", "unknown", "rejected"),
       check(q.body \in {"end_point", "point"}, 400, "INVALID_NOTIFICATION_REQUEST", label, "error"),
       check(authorization # 0, authorization, "DENIED", label, "rejected"),
       check(BadFields(q), FieldStatus(q), "INVALID_NOTIFICATION_REQUEST", label, "error")>>

\* Those of POST /watch and /replay: no notification is counted.
StreamChecks(q) ==
  LET check(fails, status, code) ==
        [fails |-> fails, status |-> status, code |-> code, counts |-> {}]
      authorization == StreamAuthorization(q)
  IN <<check(q.body = "unparsable", 400, "PARSE"),
       check(~Known(q.type), 400, "UNKNOWN_EVENT_TYPE"),
       check(authorization # 0, authorization, "DENIED"),
       check(BadFields(q) \/ BadStart(q), 400, "INVALID_STREAM_REQUEST")>>

\* What a request goes on to when no check fails.
Checks(q) ==
  CASE q.op = "notify" -> NotifyChecks(q)
    [] q.op \in {"watch", "replay"} -> StreamChecks(q)
    [] OTHER -> <<>>

FirstFailing(checks) ==
  {i \in DOMAIN checks : checks[i].fails /\ \A j \in 1..(i - 1) : ~checks[j].fails}

Refuse(r) ==
  /\ request[r].stage = "admitted"
  /\ LET checks == Checks(request[r])
     IN \E i \in FirstFailing(checks) :
          /\ Answer(r, checks[i].status, checks[i].code)
          /\ Count(checks[i].counts)
  /\ UNCHANGED <<deployment, phase>>

Passed(r, op) ==
  /\ request[r].stage = "admitted" /\ request[r].op \in op
  /\ FirstFailing(Checks(request[r])) = {}

\* The schemas are public.
DescribeSchema(r) ==
  /\ Passed(r, {"schema"})
  /\ Answer(r, IF HasSchema(request[r].type) THEN 200 ELSE 404, "")
  /\ UNCHANGED <<deployment, phase, counted>>

Notify(r) ==
  /\ Passed(r, {"notify"})
  /\ Goes(r, "storing") /\ UNCHANGED <<deployment, phase, counted>>

\* An identity of a notification that does not parse is refused, others go to the backend.
Administer(r) ==
  /\ Passed(r, AdminOperations)
  /\ IF request[r].op = "delete" /\ request[r].body = "bad_id"
     THEN Answer(r, 400, "") ELSE Goes(r, "erasing")
  /\ UNCHANGED <<deployment, phase, counted>>

-----------------------------------------------------------------------------
(* enforce_ecpds_auth.                                                      *)

HasPlugin(type) ==
  /\ "ecpds" \in Features /\ HasSchema(type)
  /\ \E auth \in schemas[type].auth : \E plugins \in auth.plugins : "ecpds" \in plugins

Decision(outcome) == [metric |-> "access", label |-> "", outcome |-> outcome]

OpenStream(r) ==
  /\ Passed(r, {"watch", "replay"})
  /\ LET q == request[r]
         admin == \E user \in q.user : IsAdmin(user)
     IN IF ~HasPlugin(q.type) \/ q.user = {}
          THEN Goes(r, "opening") /\ UNCHANGED counted
        ELSE IF admin
          THEN Goes(r, "opening") /\ Count({Decision("admin_bypass")})
        ELSE IF ~HasChecker(settings)
          THEN Answer(r, 500, "MISCONFIGURED") /\ Count({Decision("error")})
        ELSE Goes(r, "checking") /\ UNCHANGED counted
  /\ UNCHANGED <<deployment, phase>>

EcpdsAnswers(r) ==
  /\ request[r].stage = "checking"
  /\ \/ /\ request' = [request EXCEPT ![r].stage = "opening", ![r].granted = TRUE]
        /\ Count({Decision("allow")})
     \/ Answer(r, 403, "FORBIDDEN") /\ Count({Decision("deny")})
     \/ Answer(r, 503, "SERVICE_UNAVAILABLE") /\ Count({Decision("unavailable")})
  /\ UNCHANGED <<deployment, phase>>

-----------------------------------------------------------------------------
(* The backend answers; a client may be gone before.                        *)

Effect(stage) ==
  CASE stage = "storing" -> "stored" [] stage = "opening" -> "opened" [] stage = "erasing" -> "erased"

Outcome(r, outcome) ==
  Count(IF request[r].op = "notify"
        THEN {[metric |-> "notification", label |-> Label(request[r].type), outcome |-> outcome]}
        ELSE {})

BackendSucceeds(r) ==
  /\ request[r].stage \in {"storing", "opening", "erasing"}
  /\ request' = [request EXCEPT ![r].stage = "answered", ![r].status = 200,
                                ![r].effect = Effect(request[r].stage)]
  /\ Outcome(r, "success")
  /\ UNCHANGED <<deployment, phase>>

\* A failure may be one of the answer alone.  Nothing to erase is a 404.
BackendFails(r) ==
  /\ request[r].stage \in {"storing", "opening", "erasing"}
  /\ \E status \in IF request[r].stage = "erasing" /\ request[r].op # "wipe_all" THEN {404, 500} ELSE {500},
        effect \in IF request[r].stage = "opening" THEN {"none"}
                   ELSE {"none", Effect(request[r].stage)} :
       /\ status = 404 => effect = "none"
       /\ request' = [request EXCEPT ![r].stage = "answered", ![r].status = status,
                                     ![r].effect = effect]
  /\ Outcome(r, "error")
  /\ UNCHANGED <<deployment, phase>>

\* The future of a request is dropped where it waits, whatever the backend does with
\* what it was sent.
Disconnect(r) ==
  /\ request[r].stage \in Waiting
  /\ \E effect \in {"none"} \cup (IF request[r].stage \in {"storing", "erasing"}
                                  THEN {Effect(request[r].stage)} ELSE {}) :
       request' = [request EXCEPT ![r].stage = "gone", ![r].effect = effect]
  /\ UNCHANGED <<deployment, phase, counted>>

Next ==
  \/ Start
  \/ \E r \in Requests :
       \/ Arrive(r) \/ Authenticate(r) \/ AuthOTronAnswers(r) \/ Refuse(r)
       \/ DescribeSchema(r) \/ Notify(r) \/ Administer(r) \/ OpenStream(r)
       \/ EcpdsAnswers(r) \/ BackendSucceeds(r) \/ BackendFails(r) \/ Disconnect(r)

Spec == Init /\ [][Next]_vars

-----------------------------------------------------------------------------
(* Properties.                                                              *)

\* Type invariant.
TypeOK ==
  /\ deployment \in DOMAIN Deployments
  /\ phase \in {"starting", "serving", "refused"}
  /\ \A r \in Requests :
       /\ request[r].op \in Operations /\ request[r].path \in Spellings
       /\ request[r].stage \in {"none", "arrived", "admitted", "answered", "gone"} \cup Waiting
       /\ request[r].status \in {0, 200, 400, 401, 403, 404, 500, 503}
       /\ request[r].effect \in {"none", "stored", "opened", "erased"}
       /\ Cardinality(request[r].user) <= 1
  /\ IsABag(counted)

\* The policy as docs/src/authentication.md:176-200 has it, without the cases of
\* the code: somebody is listed by realm and role.
Listed(user, realm_roles) ==
  \E realm \in user.realm \cap DOMAIN realm_roles :
    \/ "*" \in realm_roles[realm]
    \/ user.roles \cap realm_roles[realm] # {}

Allowed(q, roles, anyone) ==
  \E user \in q.user :
    \/ Listed(user, settings.auth.admin_roles)
    \/ \E realm_roles \in roles : Listed(user, realm_roles)
    \/ roles = {} /\ anyone

\* Whatever reaches the backend was allowed by the policy of the settings, however
\* the middleware, the handler and the plugin divide the checks and whoever leaves
\* meanwhile: enforce_stream_auth trusts that required streams come with the
\* middleware enabled, and the plugin that somebody else has asked for a user.  Of
\* the erasures this is said of those whose path is spelled as documented: the
\* handlers of src/routes/admin.rs ask nobody (see AdministratorsErase).
EffectsAreAuthorized ==
  \A r \in Requests :
    LET q == request[r]
        protected == {auth \in IF HasSchema(q.type) THEN schemas[q.type].auth ELSE {} :
                        auth.required \/ auth.plugins # {}}
    IN /\ (q.effect = "erased" /\ IsAdminPath(q) /\ settings.auth.enabled) => Allowed(q, {}, FALSE)
       /\ \A auth \in protected :
            /\ q.effect = "stored" => Allowed(q, auth.write_roles, FALSE)
            /\ q.effect = "opened" => Allowed(q, auth.read_roles, TRUE)
            /\ (q.effect = "opened" /\ auth.plugins # {}) => q.granted \/ Allowed(q, {}, FALSE)

\* Claimed by docs/src/authentication.md:94: administration is always for
\* administrators, and so under every spelling of a path that leads to it.
AdministratorsErase ==
  \A r \in Requests :
    request[r].effect = "erased" /\ settings.auth.enabled => Allowed(request[r], {}, FALSE)

\* Public endpoints are not disrupted by bad headers or outages of auth-o-tron
\* (src/auth/middleware.rs:142, 388): the schema under its documented path, whatever
\* is sent with it, and event types without authorization for those who send no
\* usable credentials.
OpenStreamsStayOpen ==
  \A r \in Requests :
    LET q == request[r]
        public == \/ IsSchemaPath(q)
                  \/ /\ q.op \in {"notify", "watch", "replay"}
                     /\ ~HasSchema(q.type) \/ schemas[q.type].auth = {}
                     /\ q.header \in {"absent", "malformed"}
    IN public => q.status \notin {401, 403, 503}

\* Settings that are accepted do not fail later for something that is missing from
\* them: no request finds auth-o-tron without an address or ECPDS without servers
\* (the fail-closed answers of authenticate_user and enforce_ecpds_auth).
AcceptedConfigurationServes ==
  \A r \in Requests : request[r].code # "MISCONFIGURED"

ByMiddleware == {"UNAUTHORIZED", "FORBIDDEN", "SERVICE_UNAVAILABLE", "MISCONFIGURED"}

ReachedHandler(q) == q.stage = "answered" /\ q.code \notin ByMiddleware

NotificationStatus(q) ==
  CASE q.status = 200 -> "success"
    [] q.status \in {401, 403} \/ q.code = "UNKNOWN_EVENT_TYPE" -> "rejected"
    [] OTHER -> "error"

\* The increments of the counters, one by one, whatever their labels.
Increments(metric, outcome) ==
  UNION {{e} \X (1..counted[e]) :
           e \in {d \in BagToSet(counted) : d.metric = metric /\ d.outcome = outcome}}

Counted(metric, outcome) == Cardinality(Increments(metric, outcome))

NumberOf(P(_)) == Cardinality({r \in Requests : P(request[r])})

\* Each answered notification is counted once with the status its client saw, each
\* user once, each refusal of the middleware under its reason, each grant of ECPDS
\* once; nothing is counted for a client that left, even if its notification was
\* stored; and no client can add a label.
RequestsCounted ==
  /\ \A outcome \in {"success", "rejected", "error"} :
       Counted("notification", outcome) =
         NumberOf(LAMBDA q : q.op = "notify" /\ ReachedHandler(q) /\ NotificationStatus(q) = outcome)
  /\ Counted("auth", "success") = NumberOf(LAMBDA q : q.user # {})
  /\ \A reason \in {"unauthorized", "forbidden", "service_unavailable"} :
       Counted("auth", reason) =
         NumberOf(LAMBDA q : /\ q.stage = "answered" /\ q.user = {} /\ q.code \in ByMiddleware
                             /\ q.status = FailureStatus(reason))
  /\ Counted("access", "allow") = NumberOf(LAMBDA q : q.granted)
  /\ \A e \in BagToSet(counted) :
       e.metric = "notification" => e.label \in DOMAIN schemas \cup {"generic", "unknown"}
=============================================================================
