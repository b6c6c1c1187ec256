----------------------------- MODULE GatewayProofs -----------------------------
(***************************************************************************)
(* Theorems about Gateway, for any settings, event types, users and        *)
(* requests: whatever the settings, those that startup accepts let nothing *)
(* happen without authorization, keep what is public open and are enough   *)
(* to serve; and the counters agree with the answers.                      *)
(***************************************************************************)
EXTENDS Gateway, FiniteSetTheorems, TLAPS

-----------------------------------------------------------------------------
(* What the properties ask of one request.                                  *)

Protected(type) ==
  {auth \in IF HasSchema(type) THEN schemas[type].auth ELSE {} :
     auth.required \/ auth.plugins # {}}

Administrator(q) == Allowed(q, {}, FALSE)

MayErase(q) == IsAdminPath(q) /\ settings.auth.enabled => Administrator(q)

MayStore(q) == \A auth \in Protected(q.type) : Allowed(q, auth.write_roles, FALSE)

MayRead(q) == \A auth \in Protected(q.type) : Allowed(q, auth.read_roles, TRUE)

PluginPassed(q) ==
  \A auth \in Protected(q.type) : auth.plugins # {} => q.granted \/ Administrator(q)

Public(q) ==
  \/ IsSchemaPath(q)
  \/ /\ q.op \in {"notify", "watch", "replay"}
     /\ ~HasSchema(q.type) \/ schemas[q.type].auth = {}
     /\ q.header \in {"absent", "malformed"}

-----------------------------------------------------------------------------
(* The inductive invariant: what holds of a request wherever it is.         *)

Stages == {"none", "arrived", "admitted", "answered", "gone"} \cup Waiting

Effects == {"none", "stored", "opened", "erased"}

Codes ==
  {"", "PARSE", "UNKNOWN_EVENT_TYPE", "INVALID_NOTIFICATION_REQUEST", "INVALID_STREAM_REQUEST",
   "DENIED", "UNAUTHORIZED", "FORBIDDEN", "SERVICE_UNAVAILABLE", "MISCONFIGURED"}

Statuses == {0, 200, 400, 401, 403, 404, 500, 503}

Queries ==
  [stage : Stages, op : Operations, path : Spellings,
   type : EventTypes \cup {""}, header : Headers, claims : SUBSET Users, body : Bodies,
   user : SUBSET Users, granted : BOOLEAN, status : Statuses, code : Codes, effect : Effects]

\* Nobody is at a stage without what the checks before it establish.
EntitledToStage(q) ==
  /\ q.stage # "none" => Accepts(settings)
  /\ q.stage \in {"admitted", "erasing"} /\ q.op \in AdminOperations => MayErase(q)
  /\ q.stage = "erasing" => q.op \in AdminOperations
  /\ q.stage = "storing" => MayStore(q)
  /\ q.stage \in {"checking", "opening"} => MayRead(q)
  /\ q.stage = "opening" => PluginPassed(q)

EntitledToEffect(q) ==
  /\ q.effect = "erased" => MayErase(q)
  /\ q.effect = "stored" => MayStore(q)
  /\ q.effect = "opened" => MayRead(q) /\ PluginPassed(q)

\* The statuses that are about access.
Denials == {401, 403, 503}

Undisturbed(q) ==
  Public(q) => q.stage \notin {"authenticating", "checking"} /\ q.status \notin Denials

Secure(q) ==
  /\ \A user \in q.user : q.user = {user}
  /\ EntitledToStage(q)
  /\ EntitledToEffect(q)
  /\ Undisturbed(q)
  /\ q.effect # "none" => q.stage \in {"answered", "gone"}
  /\ q.code # "MISCONFIGURED"

IInv ==
  /\ deployment \in DOMAIN Deployments
  /\ phase = "serving" => Accepts(settings)
  /\ request \in [Requests -> Queries]
  /\ \A r \in Requests : Secure(request[r])

-----------------------------------------------------------------------------
(* What the checks establish under settings that are accepted.              *)

LEMMA OneAuth ==
  ASSUME deployment \in DOMAIN Deployments, NEW type, HasSchema(type),
         NEW auth \in schemas[type].auth
  PROVE  /\ schemas[type].auth = {auth}
         /\ (CHOOSE a \in schemas[type].auth : TRUE) = auth
         /\ \A roles \in auth.read_roles : auth.read_roles = {roles}
         /\ \A roles \in auth.write_roles : auth.write_roles = {roles}
<1>1. /\ schemas[type].auth = {auth}
      /\ \A roles \in auth.read_roles : auth.read_roles = {roles}
      /\ \A roles \in auth.write_roles : auth.write_roles = {roles}
  BY DeploymentsAssumption DEF settings, schemas, HasSchema
<1> QED BY <1>1

\* What is protected is required, and the middleware is there.
LEMMA ProtectedIsRequired ==
  ASSUME Accepts(settings), NEW type, NEW auth \in Protected(type)
  PROVE  /\ HasSchema(type) /\ auth \in schemas[type].auth
         /\ auth.required /\ settings.auth.enabled /\ Required(type)
         /\ auth.plugins # {} => HasPlugin(type)
<1>1. HasSchema(type) /\ auth \in schemas[type].auth /\ (auth.required \/ auth.plugins # {})
  BY DEF Protected
<1>2. \A plugins \in auth.plugins :
        plugins # {} /\ plugins \subseteq {"ecpds"} \cap Features /\ auth.required
  BY <1>1 DEF Accepts, ValidateStreamPlugins, schemas, HasSchema
<1>3. auth.required
  BY <1>1, <1>2
<1>4. settings.auth.enabled
  BY <1>1, <1>3 DEF Accepts, ValidateStreamAuth, schemas, HasSchema
<1>5. auth.plugins # {} => HasPlugin(type)
  BY <1>1, <1>2 DEF HasPlugin
<1> QED BY <1>1, <1>3, <1>4, <1>5 DEF Required

LEMMA AdminIsListed ==
  ASSUME Accepts(settings), settings.auth.enabled, NEW q, NEW user \in q.user, IsAdmin(user)
  PROVE  Administrator(q)
<1>1. DOMAIN settings.auth.admin_roles # {}
  BY DEF Accepts, ValidateAuth
<1> QED BY <1>1 DEF IsAdmin, HasAnyRole, Administrator, Allowed, Listed

LEMMA RolesAreListed ==
  ASSUME Accepts(settings), NEW type, HasSchema(type), NEW auth \in schemas[type].auth,
         NEW roles \in auth.read_roles \cup auth.write_roles,
         NEW user, HasAnyRole(user, roles)
  PROVE  Listed(user, roles)
<1>1. DOMAIN roles # {}
  BY DEF Accepts, ValidateStreamAuth, schemas, HasSchema
<1> QED BY <1>1 DEF HasAnyRole, Listed

\* enforce_stream_auth lets through only whom the policy allows.
LEMMA AuthorizationSuffices ==
  ASSUME Accepts(settings), deployment \in DOMAIN Deployments, NEW q,
         \A user \in q.user : q.user = {user}, StreamAuthorization(q) = 0
  PROVE  /\ q.op = "notify" => MayStore(q)
         /\ q.op # "notify" => MayRead(q)
         /\ \A auth \in Protected(q.type) : q.user # {}
<1> SUFFICES ASSUME NEW auth \in Protected(q.type)
             PROVE  /\ q.op = "notify" => Allowed(q, auth.write_roles, FALSE)
                    /\ q.op # "notify" => Allowed(q, auth.read_roles, TRUE)
                    /\ q.user # {}
  BY DEF MayStore, MayRead
<1> DEFINE roles == IF q.op = "notify" THEN auth.write_roles ELSE auth.read_roles
<1>1. /\ HasSchema(q.type) /\ auth \in schemas[q.type].auth
      /\ settings.auth.enabled /\ Required(q.type)
  BY ProtectedIsRequired
<1>2. (CHOOSE a \in schemas[q.type].auth : TRUE) = auth
  BY <1>1, OneAuth
<1>3. q.user # {}
  BY <1>1 DEF StreamAuthorization
<1>4. PICK user \in q.user : q.user = {user} /\ (CHOOSE u \in q.user : TRUE) = user
  BY <1>3
<1>5. \/ IsAdmin(user)
      \/ roles = {} /\ q.op # "notify"
      \/ \E rr \in roles : HasAnyRole(user, rr)
  BY <1>1, <1>2, <1>3, <1>4 DEF StreamAuthorization
<1>6. CASE IsAdmin(user)
  BY <1>1, <1>3, <1>4, <1>6, AdminIsListed DEF Administrator, Allowed
<1>7. CASE roles = {} /\ q.op # "notify"
  BY <1>3, <1>4, <1>7 DEF Allowed
<1>8. CASE \E rr \in roles : HasAnyRole(user, rr)
  <2>1. PICK rr \in roles : HasAnyRole(user, rr)
    BY <1>8
  <2>2. Listed(user, rr)
    BY <1>1, <2>1, RolesAreListed
  <2> QED BY <1>3, <1>4, <2>1, <2>2 DEF Allowed
<1> QED BY <1>5, <1>6, <1>7, <1>8

\* Where stream authorization is among the checks.
LEMMA AuthorizationIsChecked ==
  ASSUME NEW q
  PROVE  /\ DOMAIN NotifyChecks(q) = 1..5
         /\ NotifyChecks(q)[4].fails = (StreamAuthorization(q) # 0)
         /\ DOMAIN StreamChecks(q) = 1..4
         /\ StreamChecks(q)[3].fails = (StreamAuthorization(q) # 0)
<1>1. DOMAIN NotifyChecks(q) = 1..5
  BY DEF NotifyChecks
<1>2. NotifyChecks(q)[4].fails = (StreamAuthorization(q) # 0)
  BY DEF NotifyChecks
<1>3. DOMAIN StreamChecks(q) = 1..4
  BY DEF StreamChecks
<1>4. StreamChecks(q)[3].fails = (StreamAuthorization(q) # 0)
  BY DEF StreamChecks
<1> QED BY <1>1, <1>2, <1>3, <1>4

\* A request that passes the checks of its handler is authorized.
LEMMA PassedIsAuthorized ==
  ASSUME NEW r \in Requests, NEW op, Passed(r, op),
         request[r].op \in {"notify", "watch", "replay"}
  PROVE  StreamAuthorization(request[r]) = 0
<1> DEFINE q == request[r]
<1> DEFINE checks == Checks(q)
<1>1. FirstFailing(checks) = {} /\ q.op \in op
  BY DEF Passed
<1>2. CASE q.op = "notify"
  <2>1. checks = NotifyChecks(q)
    BY <1>2 DEF Checks
  <2>2. /\ DOMAIN checks = 1..5
        /\ checks[4].fails <=> StreamAuthorization(q) # 0
    BY <2>1, AuthorizationIsChecked
  <2> HIDE DEF checks, q
  <2>3. ASSUME checks[4].fails PROVE FALSE
    <3>1. CASE checks[1].fails
      <4>1. 1 \in FirstFailing(checks)
        BY <2>2, <3>1 DEF FirstFailing
      <4> QED BY <4>1, <1>1
    <3>2. CASE ~checks[1].fails /\ checks[2].fails
      <4>1. 2 \in FirstFailing(checks)
        BY <2>2, <3>2 DEF FirstFailing
      <4> QED BY <4>1, <1>1
    <3>3. CASE ~checks[1].fails /\ ~checks[2].fails /\ checks[3].fails
      <4>1. 3 \in FirstFailing(checks)
        BY <2>2, <3>3 DEF FirstFailing
      <4> QED BY <4>1, <1>1
    <3>4. CASE ~checks[1].fails /\ ~checks[2].fails /\ ~checks[3].fails
      <4>1. 4 \in FirstFailing(checks)
        BY <2>2, <2>3, <3>4 DEF FirstFailing
      <4> QED BY <4>1, <1>1
    <3> QED BY <3>1, <3>2, <3>3, <3>4
  <2> QED BY <2>2, <2>3 DEF q
<1>3. CASE q.op \in {"watch", "replay"}
  <2>1. checks = StreamChecks(q)
    BY <1>3 DEF Checks
  <2>2. /\ DOMAIN checks = 1..4
        /\ checks[3].fails <=> StreamAuthorization(q) # 0
    BY <2>1, AuthorizationIsChecked
  <2> HIDE DEF checks, q
  <2>3. ASSUME checks[3].fails PROVE FALSE
    <3>1. CASE checks[1].fails
      <4>1. 1 \in FirstFailing(checks)
        BY <2>2, <3>1 DEF FirstFailing
      <4> QED BY <4>1, <1>1
    <3>2. CASE ~checks[1].fails /\ checks[2].fails
      <4>1. 2 \in FirstFailing(checks)
        BY <2>2, <3>2 DEF FirstFailing
      <4> QED BY <4>1, <1>1
    <3>3. CASE ~checks[1].fails /\ ~checks[2].fails
      <4>1. 3 \in FirstFailing(checks)
        BY <2>2, <2>3, <3>3 DEF FirstFailing
      <4> QED BY <4>1, <1>1
    <3> QED BY <3>1, <3>2, <3>3
  <2> QED BY <2>2, <2>3 DEF q
<1> QED BY <1>2, <1>3

\* An accepted deployment with the plugin has its checker, and one that asks
\* auth-o-tron its client.
LEMMA AcceptedIsComplete ==
  ASSUME Accepts(settings), deployment \in DOMAIN Deployments
  PROVE  /\ \A type : HasPlugin(type) => HasChecker(settings)
         /\ settings.auth.enabled => settings.auth.mode = "trusted_proxy" \/ HasAuthClient
<1>1. ASSUME NEW type, HasPlugin(type) PROVE HasChecker(settings)
  <2>1. /\ "ecpds" \in Features
        /\ type \in EcpdsStreams(settings)
    BY <1>1 DEF HasPlugin, EcpdsStreams, schemas, HasSchema
  <2>2. settings.ecpds # {}
    BY <2>1 DEF Accepts, ValidateEcpds
  <2> QED BY <2>1, <2>2 DEF HasChecker
<1>2. settings.auth.mode \in {"direct", "trusted_proxy"}
  BY DeploymentsAssumption DEF settings
<1>3. settings.auth.enabled /\ settings.auth.mode = "direct" => settings.auth.auth_o_tron_url # ""
  BY DEF Accepts, ValidateAuth
<1> QED BY <1>1, <1>2, <1>3 DEF HasAuthClient

-----------------------------------------------------------------------------
(* Steps of one request.                                                    *)

Moves(r, q) == q \in Queries /\ request' = [request EXCEPT ![r] = q]

LEMMA RequestKeepsInv ==
  ASSUME IInv, NEW r \in Requests, NEW q, Moves(r, q), Secure(q), UNCHANGED <<deployment, phase>>
  PROVE  IInv'
<1>1. request' \in [Requests -> Queries]
  BY DEF IInv, Moves
<1>2. \A d \in Requests : Secure(request'[d])
  BY DEF IInv, Moves
<1>3. settings' = settings
  BY DEF settings
<1>4. ASSUME NEW p, Secure(p) PROVE Secure(p)'
  BY <1>3, <1>4 DEF Secure, EntitledToStage, EntitledToEffect, Undisturbed, MayErase, MayStore,
     MayRead, PluginPassed, Public, Protected, Administrator, Allowed, Listed, HasSchema, schemas
<1>5. \A d \in Requests : Secure(request[d])'
  BY <1>2, <1>4
<1> QED BY <1>1, <1>3, <1>5 DEF IInv

\* What is established of a request does not depend on where it is.
SameRequest(p, q) ==
  /\ q.op = p.op /\ q.path = p.path /\ q.type = p.type /\ q.header = p.header
  /\ q.user = p.user /\ q.granted = p.granted

LEMMA EntitlementsStay ==
  ASSUME NEW p, NEW q, SameRequest(p, q)
  PROVE  /\ MayErase(q) <=> MayErase(p)
         /\ MayStore(q) <=> MayStore(p)
         /\ MayRead(q) <=> MayRead(p)
         /\ PluginPassed(q) <=> PluginPassed(p)
         /\ Public(q) <=> Public(p)
BY DEF SameRequest, MayErase, MayStore, MayRead, PluginPassed, Public, Administrator, Allowed,
   IsAdminPath, IsSchemaPath

LEMMA GoesMoves ==
  ASSUME IInv, NEW r \in Requests, NEW stage \in Stages, Goes(r, stage)
  PROVE  \E q : /\ Moves(r, q) /\ SameRequest(request[r], q) /\ q.stage = stage
                /\ q.status = request[r].status /\ q.code = request[r].code
                /\ q.effect = request[r].effect
<1> DEFINE q == [request[r] EXCEPT !.stage = stage]
<1>1. request[r] \in Queries
  BY DEF IInv
<1>2. q \in Queries
  BY <1>1 DEF Queries
<1>3. /\ SameRequest(request[r], q) /\ q.stage = stage
      /\ q.status = request[r].status /\ q.code = request[r].code
      /\ q.effect = request[r].effect
  BY <1>1 DEF Queries, SameRequest
<1>4. request' = [request EXCEPT ![r] = q]
  BY DEF Goes
<1> HIDE DEF q
<1> QED BY <1>2, <1>3, <1>4 DEF Moves

\* A request that goes on to a stage it is entitled to.
LEMMA GoesKeepsInv ==
  ASSUME IInv, NEW r \in Requests, NEW stage \in Stages \ {"none"}, Goes(r, stage),
         UNCHANGED <<deployment, phase>>,
         Accepts(settings),
         request[r].effect = "none",
         stage \in {"admitted", "erasing"} /\ request[r].op \in AdminOperations
           => MayErase(request[r]),
         stage = "erasing" => request[r].op \in AdminOperations,
         stage = "storing" => MayStore(request[r]),
         stage \in {"checking", "opening"} => MayRead(request[r]),
         stage = "opening" => PluginPassed(request[r]),
         stage \in {"authenticating", "checking"} => ~Public(request[r])
  PROVE  IInv'
<1>1. PICK q : /\ Moves(r, q) /\ SameRequest(request[r], q) /\ q.stage = stage
               /\ q.status = request[r].status /\ q.code = request[r].code
               /\ q.effect = request[r].effect
  BY GoesMoves
<1>2. Secure(request[r])
  BY DEF IInv
<1>3. EntitledToStage(q)
  BY <1>1, EntitlementsStay DEF EntitledToStage, SameRequest
<1>4. EntitledToEffect(q)
  BY <1>1 DEF EntitledToEffect
<1>5. Undisturbed(q)
  BY <1>1, <1>2, EntitlementsStay DEF Undisturbed, Secure
<1>6. Secure(q)
  BY <1>1, <1>2, <1>3, <1>4, <1>5 DEF Secure, SameRequest
<1> QED BY <1>1, <1>6, RequestKeepsInv

LEMMA AnswerKeepsInv ==
  ASSUME IInv, NEW r \in Requests, NEW status \in Statuses, NEW code \in Codes,
         Answer(r, status, code), UNCHANGED <<deployment, phase>>,
         Accepts(settings), request[r].effect = "none",
         Public(request[r]) => status \notin Denials,
         code # "MISCONFIGURED"
  PROVE  IInv'
<1> DEFINE q == [request[r] EXCEPT !.stage = "answered", !.status = status, !.code = code]
<1>1. request[r] \in Queries /\ Secure(request[r])
  BY DEF IInv
<1>2. q \in Queries
  BY <1>1 DEF Queries, Stages
<1>3. /\ SameRequest(request[r], q) /\ q.stage = "answered"
      /\ q.status = status /\ q.code = code /\ q.effect = "none"
  BY <1>1 DEF Queries, SameRequest
<1>4. request' = [request EXCEPT ![r] = q]
  BY DEF Answer
<1> HIDE DEF q
<1>5. Secure(q)
  BY <1>1, <1>3, EntitlementsStay
     DEF Secure, SameRequest, EntitledToStage, EntitledToEffect, Undisturbed
<1> QED BY <1>2, <1>4, <1>5, RequestKeepsInv DEF Moves

\* Before the handlers a request has had no effect, and it is there because the
\* server serves.
LEMMA BeforeBackend ==
  ASSUME IInv, NEW r \in Requests, request[r].stage \notin {"none", "answered", "gone"}
  PROVE  Accepts(settings) /\ request[r].effect = "none" /\ request[r] \in Queries
BY DEF IInv, Secure, EntitledToStage

Reasons == {"unauthorized", "forbidden", "service_unavailable"}

LEMMA FailKeepsInv ==
  ASSUME IInv, NEW r \in Requests, NEW reason \in Reasons, NEW code \in Codes,
         Fail(r, reason, code), UNCHANGED <<deployment, phase>>,
         request[r].stage \notin {"none", "answered", "gone"},
         ~Public(request[r]), code # "MISCONFIGURED"
  PROVE  IInv'
<1>1. FailureStatus(reason) \in Statuses
  BY DEF FailureStatus, Reasons, Statuses
<1> QED BY <1>1, BeforeBackend, AnswerKeepsInv DEF Fail

LEMMA TokenKeepsInv ==
  ASSUME IInv, NEW r \in Requests, NEW valid \in BOOLEAN, Token(r, valid),
         UNCHANGED <<deployment, phase>>,
         request[r].stage \in {"arrived", "authenticating"},
         ~Public(request[r])
  PROVE  IInv'
<1>1. CASE Fail(r, "unauthorized", "UNAUTHORIZED")
  BY <1>1, FailKeepsInv DEF Reasons, Codes
<1>2. ASSUME NEW user \in request[r].claims, Admit(r, user)
      PROVE  IInv'
  <2>1. CASE IsAdminPath(request[r]) /\ ~IsAdmin(user)
    <3>1. Fail(r, "forbidden", "FORBIDDEN")
      BY <1>2, <2>1 DEF Admit
    <3> QED BY <3>1, FailKeepsInv DEF Reasons, Codes
  <2>2. CASE ~(IsAdminPath(request[r]) /\ ~IsAdmin(user))
    <3> DEFINE q == [request[r] EXCEPT !.stage = "admitted", !.user = {user}]
    <3>1. request[r] \in Queries /\ Secure(request[r]) /\ Accepts(settings) /\ request[r].effect = "none"
      BY BeforeBackend DEF IInv
    <3>2. user \in Users
      BY <3>1 DEF Queries
    <3>3. q \in Queries
      BY <3>1, <3>2 DEF Queries, Stages
    <3>4. /\ q.stage = "admitted" /\ q.user = {user}
          /\ q.op = request[r].op /\ q.path = request[r].path
          /\ q.type = request[r].type /\ q.header = request[r].header
          /\ q.effect = "none" /\ q.status = request[r].status /\ q.code = request[r].code
      BY <3>1 DEF Queries
    <3>5. request' = [request EXCEPT ![r] = q]
      BY <1>2, <2>2 DEF Admit
    <3> HIDE DEF q
    <3>6. q.op \in AdminOperations => MayErase(q)
      BY <2>2, <3>1, <3>4, AdminIsListed DEF MayErase, IsAdminPath
    <3>7. ~Public(q)
      BY <3>4 DEF Public, IsSchemaPath
    <3>8. Secure(q)
      BY <3>1, <3>4, <3>6, <3>7 DEF Secure, EntitledToStage, EntitledToEffect, Undisturbed
    <3> QED BY <3>3, <3>5, <3>8, RequestKeepsInv DEF Moves
  <2> QED BY <2>1, <2>2
<1> QED BY <1>1, <1>2 DEF Token

-----------------------------------------------------------------------------
(* One lemma for each action.                                               *)

LEMMA ArriveKeepsInv ==
  ASSUME IInv, NEW r \in Requests, Arrive(r)
  PROVE  IInv'
<1>1. PICK op \in Operations, type \in EventTypes, header \in Headers :
        \E body \in BodiesOf(op), path \in Paths(op),
           claims \in IF header \in {"basic", "bearer"} THEN {{}} \cup {{u} : u \in Users} ELSE {{}} :
          request' = [request EXCEPT ![r] =
            [NoRequest EXCEPT !.stage = "arrived", !.op = op, !.path = path, !.type = type,
                              !.header = header, !.claims = claims, !.body = body]]
  BY DEF Arrive
<1>2. PICK body \in BodiesOf(op), path \in Paths(op),
             claims \in IF header \in {"basic", "bearer"} THEN {{}} \cup {{u} : u \in Users} ELSE {{}} :
          request' = [request EXCEPT ![r] =
            [NoRequest EXCEPT !.stage = "arrived", !.op = op, !.path = path, !.type = type,
                              !.header = header, !.claims = claims, !.body = body]]
  BY <1>1
<1>9. claims \in SUBSET Users
  BY <1>2, ZenonT(60)
<1> DEFINE q == [NoRequest EXCEPT !.stage = "arrived", !.op = op, !.path = path, !.type = type,
                                  !.header = header, !.claims = claims, !.body = body]
<1>3. body \in Bodies /\ path \in Spellings
  BY DEF BodiesOf, Bodies, Paths, Spellings, Operations, AdminOperations
<1>4. q \in Queries
  BY <1>3, <1>9, ZenonT(60) DEF Queries, Spellings, NoRequest, Stages, Effects, Codes, Statuses
<1>5. q.stage = "arrived" /\ q.user = {} /\ q.effect = "none" /\ q.status = 0 /\ q.code = ""
  BY DEF NoRequest
<1> HIDE DEF q
<1>6. Accepts(settings) /\ UNCHANGED <<deployment, phase>>
  BY DEF Arrive, IInv
<1>7. Secure(q)
  <2>1. EntitledToStage(q)
    BY <1>5, <1>6 DEF EntitledToStage
  <2>2. EntitledToEffect(q)
    BY <1>5 DEF EntitledToEffect
  <2>3. q.status \notin Denials
    <3>1. 0 \notin Denials
      BY DEF Denials
    <3> QED BY <1>5, <3>1
  <2>4. q.stage \notin {"authenticating", "checking"}
    BY <1>5
  <2> QED BY <1>5, <2>1, <2>2, <2>3, <2>4 DEF Secure, Undisturbed
<1>8. request' = [request EXCEPT ![r] = q]
  BY <1>2 DEF q
<1> QED BY <1>4, <1>6, <1>7, <1>8, RequestKeepsInv DEF Moves

LEMMA AuthenticateKeepsInv ==
  ASSUME IInv, NEW r \in Requests, Authenticate(r)
  PROVE  IInv'
<1> DEFINE q == request[r]
<1> DEFINE given == Credentials(q.header) = "given"
<1>1. q.stage = "arrived" /\ UNCHANGED <<deployment, phase>>
  BY DEF Authenticate
<1>2. Accepts(settings) /\ q.effect = "none" /\ q \in Queries
  BY <1>1, BeforeBackend
<1>3. ASSUME given, ~IsSchemaPath(q) PROVE ~Public(q)
  BY <1>3 DEF Credentials, Public
<1>4. ASSUME IsAdminPath(q) PROVE ~Public(q)
  BY <1>4 DEF Public, IsAdminPath, IsSchemaPath, AdminOperations
<1>5. CASE ~settings.auth.enabled \/ IsSchemaPath(q)
  <2>1. Goes(r, "admitted")
    BY <1>5 DEF Authenticate
  <2>2. q.op \in AdminOperations => MayErase(q)
    BY <1>5 DEF MayErase, IsAdminPath, IsSchemaPath, AdminOperations
  <2> QED BY <1>1, <1>2, <2>1, <2>2, GoesKeepsInv DEF Stages
<1>6. CASE settings.auth.enabled /\ ~IsSchemaPath(q) /\ given /\ settings.auth.mode = "trusted_proxy"
  <2>1. \E valid \in BOOLEAN : Token(r, valid)
    BY <1>6 DEF Authenticate
  <2> QED BY <1>1, <1>3, <1>6, <2>1, TokenKeepsInv
<1>7. CASE settings.auth.enabled /\ ~IsSchemaPath(q) /\ given /\ settings.auth.mode # "trusted_proxy"
  <2>1. HasAuthClient
    BY <1>2, <1>7, AcceptedIsComplete DEF IInv
  <2>2. Goes(r, "authenticating")
    BY <1>7, <2>1 DEF Authenticate
  <2> QED BY <1>1, <1>2, <1>3, <1>7, <2>2, GoesKeepsInv DEF Stages, Waiting
<1>8. CASE settings.auth.enabled /\ ~IsSchemaPath(q) /\ ~given /\ IsAdminPath(q)
  <2>1. Fail(r, "unauthorized", "UNAUTHORIZED")
    BY <1>8 DEF Authenticate
  <2> QED BY <1>1, <1>4, <1>8, <2>1, FailKeepsInv DEF Reasons, Codes
<1>9. CASE settings.auth.enabled /\ ~IsSchemaPath(q) /\ ~given /\ ~IsAdminPath(q)
  <2>1. Goes(r, "admitted")
    BY <1>9 DEF Authenticate
  <2>2. MayErase(q)
    BY <1>9 DEF MayErase
  <2> QED BY <1>1, <1>2, <1>9, <2>1, <2>2, GoesKeepsInv DEF Stages
<1> QED BY <1>5, <1>6, <1>7, <1>8, <1>9

LEMMA AuthOTronAnswersKeepsInv ==
  ASSUME IInv, NEW r \in Requests, AuthOTronAnswers(r)
  PROVE  IInv'
<1>1. request[r].stage = "authenticating" /\ UNCHANGED <<deployment, phase>>
  BY DEF AuthOTronAnswers
<1>2. ~Public(request[r])
  BY <1>1 DEF IInv, Secure, Undisturbed
<1>3. ASSUME NEW valid \in BOOLEAN, Token(r, valid) PROVE IInv'
  BY <1>1, <1>2, <1>3, TokenKeepsInv
<1>4. CASE AuthOTronAnswerWithoutToken(r)
  <2>1. PICK reason \in Reasons, code \in Codes \ {"MISCONFIGURED"} : Fail(r, reason, code)
    BY <1>4 DEF AuthOTronAnswerWithoutToken, Reasons, Codes
  <2> QED BY <1>1, <1>2, <2>1, FailKeepsInv
<1> QED BY <1>3, <1>4 DEF AuthOTronAnswers

\* The statuses and codes of the checks: only stream authorization denies access,
\* and not to what is public.
LEMMA AuthorizationOfPublic ==
  ASSUME NEW q
  PROVE  /\ StreamAuthorization(q) \in {0, 401, 403}
         /\ Public(q) /\ q.op # "schema" => StreamAuthorization(q) = 0
<1>1. StreamAuthorization(q) \in {0, 401, 403}
  BY DEF StreamAuthorization
<1>2. Public(q) /\ q.op # "schema" => ~Required(q.type)
  BY DEF Public, IsSchemaPath, Required
<1> QED BY <1>1, <1>2 DEF StreamAuthorization

\* An answer with one of the statuses that are not about access.
LEMMA PlainStatuses ==
  \A status \in {200, 400, 404, 500} : status \in Statuses /\ status \notin Denials
BY DEF Statuses, Denials

LEMMA OneByOne ==
  /\ 200 \in Statuses \ Denials
  /\ 400 \in Statuses \ Denials
  /\ 404 \in Statuses \ Denials
  /\ 500 \in Statuses \ Denials
BY DEF Statuses, Denials

LEMMA AccessStatuses ==
  ASSUME NEW q, StreamAuthorization(q) # 0
  PROVE  /\ StreamAuthorization(q) \in Statuses
         /\ q.op # "schema" => ~Public(q)
<1>1. StreamAuthorization(q) \in {401, 403}
  BY AuthorizationOfPublic
<1>2. \A n \in {401, 403} : n \in Statuses
  BY DEF Statuses
<1> QED BY <1>1, <1>2, AuthorizationOfPublic

Refusable(q, status, code) ==
  /\ status \in Statuses
  /\ Public(q) => status \notin Denials
  /\ code \in Codes /\ code # "MISCONFIGURED"

LEMMA NotifyRefusals ==
  ASSUME NEW q, q.op # "schema", NEW i \in DOMAIN NotifyChecks(q), NotifyChecks(q)[i].fails
  PROVE  Refusable(q, NotifyChecks(q)[i].status, NotifyChecks(q)[i].code)
<1>1. FieldStatus(q) \in {200, 400, 404, 500}
  BY DEF FieldStatus
<1>2. i \in {1, 2, 3, 4, 5}
  BY AuthorizationIsChecked
<1>3. CASE i = 4
  <2>1. NotifyChecks(q)[4].status = StreamAuthorization(q)
    BY DEF NotifyChecks
  <2>2. NotifyChecks(q)[4].code = "DENIED"
    BY DEF NotifyChecks
  <2>3. NotifyChecks(q)[4].fails
    BY <1>3
  <2>4. StreamAuthorization(q) # 0
    BY <2>3, AuthorizationIsChecked
  <2> QED BY <1>3, <2>1, <2>2, <2>4, AccessStatuses DEF Refusable, Codes
<1>4. CASE i \in {1, 2, 3, 5}
  <2>1. NotifyChecks(q)[i].status \in {200, 400, 404, 500}
    <3>1. /\ NotifyChecks(q)[1].status = 400 /\ NotifyChecks(q)[2].status = 400
          /\ NotifyChecks(q)[3].status = 400 /\ NotifyChecks(q)[5].status = FieldStatus(q)
      BY DEF NotifyChecks
    <3> QED BY <1>1, <1>4, <3>1
  <2>2. NotifyChecks(q)[i].code \in
          {"PARSE", "UNKNOWN_EVENT_TYPE", "INVALID_NOTIFICATION_REQUEST"}
    <3>1. /\ NotifyChecks(q)[1].code = "PARSE" /\ NotifyChecks(q)[2].code = "UNKNOWN_EVENT_TYPE"
          /\ NotifyChecks(q)[3].code = "INVALID_NOTIFICATION_REQUEST"
          /\ NotifyChecks(q)[5].code = "INVALID_NOTIFICATION_REQUEST"
      BY DEF NotifyChecks
    <3> QED BY <1>4, <3>1
  <2>3. NotifyChecks(q)[i].code \in Codes /\ NotifyChecks(q)[i].code # "MISCONFIGURED"
    BY <2>2 DEF Codes
  <2> QED BY <2>1, <2>3, PlainStatuses DEF Refusable
<1> QED BY <1>2, <1>3, <1>4

LEMMA StreamRefusals ==
  ASSUME NEW q, q.op # "schema", NEW i \in DOMAIN StreamChecks(q), StreamChecks(q)[i].fails
  PROVE  Refusable(q, StreamChecks(q)[i].status, StreamChecks(q)[i].code)
<1>1. i \in {1, 2, 3, 4}
  BY AuthorizationIsChecked
<1>2. CASE i = 3
  <2>1. StreamChecks(q)[3].status = StreamAuthorization(q)
    BY DEF StreamChecks
  <2>2. StreamChecks(q)[3].code = "DENIED"
    BY DEF StreamChecks
  <2>3. StreamChecks(q)[3].fails
    BY <1>2
  <2>4. StreamAuthorization(q) # 0
    BY <2>3, AuthorizationIsChecked
  <2> QED BY <1>2, <2>1, <2>2, <2>4, AccessStatuses DEF Refusable, Codes
<1>3. CASE i \in {1, 2, 4}
  <2>1. StreamChecks(q)[i].status \in {200, 400, 404, 500}
    <3>1. /\ StreamChecks(q)[1].status = 400 /\ StreamChecks(q)[2].status = 400
          /\ StreamChecks(q)[4].status = 400
      BY DEF StreamChecks
    <3> QED BY <1>3, <3>1
  <2>2. StreamChecks(q)[i].code \in {"PARSE", "UNKNOWN_EVENT_TYPE", "INVALID_STREAM_REQUEST"}
    <3>1. /\ StreamChecks(q)[1].code = "PARSE" /\ StreamChecks(q)[2].code = "UNKNOWN_EVENT_TYPE"
          /\ StreamChecks(q)[4].code = "INVALID_STREAM_REQUEST"
      BY DEF StreamChecks
    <3> QED BY <1>3, <3>1
  <2>3. StreamChecks(q)[i].code \in Codes /\ StreamChecks(q)[i].code # "MISCONFIGURED"
    BY <2>2 DEF Codes
  <2> QED BY <2>1, <2>3, PlainStatuses DEF Refusable
<1> QED BY <1>1, <1>2, <1>3

LEMMA RefuseKeepsInv ==
  ASSUME IInv, NEW r \in Requests, Refuse(r)
  PROVE  IInv'
<1> DEFINE q == request[r]
<1> DEFINE checks == Checks(q)
<1>1. q.stage = "admitted" /\ UNCHANGED <<deployment, phase>>
  BY DEF Refuse
<1>2. PICK i \in DOMAIN checks : checks[i].fails /\ Answer(r, checks[i].status, checks[i].code)
  BY DEF Refuse, FirstFailing
<1>3. Refusable(q, checks[i].status, checks[i].code)
  <2>1. CASE q.op = "notify"
    <3>1. checks = NotifyChecks(q)
      BY <2>1 DEF Checks
    <3> HIDE DEF checks
    <3> QED BY <1>2, <2>1, <3>1, NotifyRefusals
  <2>2. CASE q.op \in {"watch", "replay"}
    <3>1. checks = StreamChecks(q)
      BY <2>2 DEF Checks
    <3> HIDE DEF checks
    <3> QED BY <1>2, <2>2, <3>1, StreamRefusals
  <2>3. CASE q.op \notin {"notify", "watch", "replay"}
    BY <1>2, <2>3 DEF Checks
  <2> QED BY <2>1, <2>2, <2>3
<1> HIDE DEF checks
<1>4. Accepts(settings) /\ q.effect = "none"
  BY <1>1, BeforeBackend
<1> QED BY <1>1, <1>2, <1>3, <1>4, AnswerKeepsInv DEF Refusable

PlainAnswer(r) ==
  \E status \in Statuses \ Denials, code \in Codes \ {"MISCONFIGURED"} : Answer(r, status, code)

LEMMA PlainAnswers ==
  ASSUME NEW r, Answer(r, 200, "") \/ Answer(r, 400, "") \/ Answer(r, 404, "")
  PROVE  PlainAnswer(r)
<1>1. "" \in Codes \ {"MISCONFIGURED"}
  BY DEF Codes
<1>2. CASE Answer(r, 200, "")
  BY <1>1, OneByOne, <1>2, ZenonT(60) DEF PlainAnswer
<1>3. CASE Answer(r, 400, "")
  BY <1>1, OneByOne, <1>3, ZenonT(60) DEF PlainAnswer
<1>4. CASE Answer(r, 404, "")
  BY <1>1, OneByOne, <1>4, ZenonT(60) DEF PlainAnswer
<1> QED BY <1>2, <1>3, <1>4

LEMMA PlainAnswerKeepsInv ==
  ASSUME IInv, NEW r \in Requests, PlainAnswer(r),
         UNCHANGED <<deployment, phase>>, request[r].stage = "admitted"
  PROVE  IInv'
<1>1. PICK status \in Statuses \ Denials, code \in Codes \ {"MISCONFIGURED"} :
        Answer(r, status, code)
  BY DEF PlainAnswer
<1>2. Accepts(settings) /\ request[r].effect = "none"
  BY BeforeBackend
<1> QED BY <1>1, <1>2, AnswerKeepsInv

LEMMA DescribeSchemaKeepsInv ==
  ASSUME IInv, NEW r \in Requests, DescribeSchema(r)
  PROVE  IInv'
<1>1. /\ request[r].stage = "admitted" /\ UNCHANGED <<deployment, phase>>
      /\ Answer(r, 200, "") \/ Answer(r, 404, "")
  BY DEF DescribeSchema, Passed
<1> QED BY <1>1, PlainAnswers, PlainAnswerKeepsInv

LEMMA NotifyKeepsInv ==
  ASSUME IInv, NEW r \in Requests, Notify(r)
  PROVE  IInv'
<1>1. /\ request[r].stage = "admitted" /\ request[r].op = "notify"
      /\ Goes(r, "storing") /\ UNCHANGED <<deployment, phase>>
  BY DEF Notify, Passed
<1>2. StreamAuthorization(request[r]) = 0
  BY <1>1, PassedIsAuthorized DEF Notify
<1>3. MayStore(request[r])
  BY <1>1, <1>2, BeforeBackend, AuthorizationSuffices DEF IInv, Secure
<1> QED BY <1>1, <1>3, BeforeBackend, GoesKeepsInv DEF Stages, Waiting

LEMMA AdministerKeepsInv ==
  ASSUME IInv, NEW r \in Requests, Administer(r)
  PROVE  IInv'
<1>1. /\ request[r].stage = "admitted" /\ request[r].op \in AdminOperations
      /\ Answer(r, 400, "") \/ Goes(r, "erasing")
      /\ UNCHANGED <<deployment, phase>>
  BY DEF Administer, Passed
<1>2. MayErase(request[r])
  BY <1>1 DEF IInv, Secure, EntitledToStage
<1>3. CASE Answer(r, 400, "")
  BY <1>1, <1>3, PlainAnswers, PlainAnswerKeepsInv
<1>4. CASE Goes(r, "erasing")
  BY <1>1, <1>2, <1>4, BeforeBackend, GoesKeepsInv DEF Stages, Waiting
<1> QED BY <1>1, <1>3, <1>4

LEMMA OpenStreamKeepsInv ==
  ASSUME IInv, NEW r \in Requests, OpenStream(r)
  PROVE  IInv'
<1> DEFINE q == request[r]
<1>1. /\ q.stage = "admitted" /\ q.op \in {"watch", "replay"}
      /\ UNCHANGED <<deployment, phase>>
  BY DEF OpenStream, Passed
<1>2. StreamAuthorization(q) = 0
  BY <1>1, PassedIsAuthorized DEF OpenStream
<1>3. Accepts(settings) /\ q.effect = "none" /\ q \in Queries /\ deployment \in DOMAIN Deployments
  BY <1>1, BeforeBackend DEF IInv
<1>4. MayRead(q) /\ (\A auth \in Protected(q.type) : q.user # {})
  BY <1>1, <1>2, <1>3, AuthorizationSuffices DEF IInv, Secure
<1>5. ASSUME NEW auth \in Protected(q.type), auth.plugins # {}
      PROVE  HasPlugin(q.type) /\ settings.auth.enabled
  BY <1>3, <1>5, ProtectedIsRequired
<1>6. CASE ~HasPlugin(q.type) \/ q.user = {}
  <2>1. PluginPassed(q)
    BY <1>4, <1>5, <1>6 DEF PluginPassed
  <2>2. Goes(r, "opening")
    BY <1>6 DEF OpenStream
  <2> QED BY <1>1, <1>3, <1>4, <2>1, <2>2, GoesKeepsInv DEF Stages, Waiting
<1>7. CASE HasPlugin(q.type) /\ q.user # {} /\ \E user \in q.user : IsAdmin(user)
  <2>1. PluginPassed(q)
    BY <1>3, <1>5, <1>7, AdminIsListed DEF PluginPassed
  <2>2. Goes(r, "opening")
    BY <1>7 DEF OpenStream
  <2> QED BY <1>1, <1>3, <1>4, <2>1, <2>2, GoesKeepsInv DEF Stages, Waiting
<1>8. CASE HasPlugin(q.type) /\ q.user # {} /\ ~(\E user \in q.user : IsAdmin(user))
  <2>1. HasChecker(settings)
    BY <1>3, <1>8, AcceptedIsComplete
  <2>2. Goes(r, "checking")
    BY <1>8, <2>1 DEF OpenStream
  <2>3. ~Public(q)
    BY <1>1, <1>8 DEF Public, IsSchemaPath, HasPlugin
  <2> QED BY <1>1, <1>3, <1>4, <2>2, <2>3, GoesKeepsInv DEF Stages, Waiting
<1> QED BY <1>6, <1>7, <1>8

LEMMA EcpdsAnswersKeepsInv ==
  ASSUME IInv, NEW r \in Requests, EcpdsAnswers(r)
  PROVE  IInv'
<1>1. request[r].stage = "checking" /\ UNCHANGED <<deployment, phase>>
  BY DEF EcpdsAnswers
<1>2. Accepts(settings) /\ request[r].effect = "none" /\ request[r] \in Queries
  BY <1>1, BeforeBackend
<1>3. ~Public(request[r]) /\ MayRead(request[r]) /\ Secure(request[r])
  BY <1>1 DEF IInv, Secure, Undisturbed, EntitledToStage
<1>4. CASE request' = [request EXCEPT ![r].stage = "opening", ![r].granted = TRUE]
  <2> DEFINE q == [request[r] EXCEPT !.stage = "opening", !.granted = TRUE]
  <2>1. q \in Queries
    BY <1>2 DEF Queries, Stages, Waiting
  <2>2. /\ q.stage = "opening" /\ q.user = request[r].user
        /\ q.op = request[r].op /\ q.path = request[r].path
        /\ q.type = request[r].type /\ q.header = request[r].header /\ q.granted
        /\ q.effect = "none" /\ q.status = request[r].status /\ q.code = request[r].code
    BY <1>2 DEF Queries
  <2>3. request' = [request EXCEPT ![r] = q]
    BY <1>4
  <2> HIDE DEF q
  <2>4. MayRead(q) /\ PluginPassed(q) /\ ~Public(q)
    BY <1>3, <2>2 DEF MayRead, PluginPassed, Public, IsSchemaPath, Allowed
  <2>5. Secure(q)
    BY <1>2, <1>3, <2>2, <2>4 DEF Secure, EntitledToStage, EntitledToEffect, Undisturbed
  <2> QED BY <1>1, <2>1, <2>3, <2>5, RequestKeepsInv DEF Moves
<1>5. CASE Answer(r, 403, "FORBIDDEN")
  <2>1. 403 \in Statuses
    BY DEF Statuses
  <2>2. "FORBIDDEN" \in Codes \ {"MISCONFIGURED"}
    BY DEF Codes
  <2>3. PICK status \in Statuses, code \in Codes \ {"MISCONFIGURED"} : Answer(r, status, code)
    BY <1>5, <2>1, <2>2
  <2> QED BY <1>1, <1>2, <1>3, <2>3, AnswerKeepsInv
<1>6. CASE Answer(r, 503, "SERVICE_UNAVAILABLE")
  <2>1. 503 \in Statuses
    BY DEF Statuses
  <2>2. "SERVICE_UNAVAILABLE" \in Codes \ {"MISCONFIGURED"}
    BY DEF Codes
  <2>3. PICK status \in Statuses, code \in Codes \ {"MISCONFIGURED"} : Answer(r, status, code)
    BY <1>6, <2>1, <2>2
  <2> QED BY <1>1, <1>2, <1>3, <2>3, AnswerKeepsInv
<1> QED BY <1>4, <1>5, <1>6 DEF EcpdsAnswers

\* A request leaves the backend with the effect of its stage, or with none.
Finishes(r, stage, status, effect) ==
  request' = [request EXCEPT ![r].stage = stage, ![r].status = status, ![r].effect = effect]

LEMMA FinishKeepsInv ==
  ASSUME IInv, NEW r \in Requests, NEW stage \in {"answered", "gone"}, NEW status \in Statuses,
         NEW effect \in Effects,
         Finishes(r, stage, status, effect),
         UNCHANGED <<deployment, phase>>,
         request[r].stage \notin {"none", "answered", "gone"},
         effect # "none" => /\ request[r].stage \in {"storing", "opening", "erasing"}
                            /\ effect = Effect(request[r].stage),
         Public(request[r]) => status \notin Denials
  PROVE  IInv'
<1> DEFINE p == request[r]
<1> DEFINE q == [p EXCEPT !.stage = stage, !.status = status, !.effect = effect]
<1>1. p \in Queries /\ Accepts(settings) /\ Secure(p)
  BY BeforeBackend DEF IInv
<1>2. q \in Queries
  BY <1>1 DEF Queries, Stages
<1>3. /\ SameRequest(p, q) /\ q.stage = stage /\ q.status = status
      /\ q.effect = effect /\ q.code = p.code
  BY <1>1 DEF Queries, SameRequest
<1>4. request' = [request EXCEPT ![r] = q]
  BY DEF Finishes
<1>5. q.effect = "erased" => MayErase(p)
  BY <1>1, <1>3 DEF Effect, Secure, EntitledToStage
<1>6. q.effect = "stored" => MayStore(p)
  BY <1>1, <1>3 DEF Effect, Secure, EntitledToStage
<1>7. q.effect = "opened" => MayRead(p) /\ PluginPassed(p)
  BY <1>1, <1>3 DEF Effect, Secure, EntitledToStage
<1> HIDE DEF q
<1>8. EntitledToEffect(q)
  BY <1>3, <1>5, <1>6, <1>7, EntitlementsStay DEF EntitledToEffect
<1>9. Undisturbed(q)
  BY <1>3, EntitlementsStay DEF Undisturbed
<1>10. EntitledToStage(q)
  BY <1>1, <1>3 DEF EntitledToStage
<1>11. Secure(q)
  BY <1>1, <1>3, <1>8, <1>9, <1>10 DEF Secure, SameRequest
<1> QED BY <1>2, <1>4, <1>11, RequestKeepsInv DEF Moves

LEMMA EffectIsOne ==
  ASSUME NEW stage \in {"storing", "opening", "erasing"}
  PROVE  Effect(stage) \in Effects
BY DEF Effect, Effects

\* The answer of a backend, whether it is the effect or not.
BackendAnswer(r) ==
  \E status \in Statuses \ Denials, effect \in {"none", Effect(request[r].stage)} :
     Finishes(r, "answered", status, effect)

\* What a failure is answered with.
LEMMA BackendFailsWith ==
  ASSUME NEW r, BackendFails(r)
  PROVE  \E status \in {404, 500}, effect \in {"none", Effect(request[r].stage)} :
           Finishes(r, "answered", status, effect)
<1> DEFINE statuses ==
             IF request[r].stage = "erasing" /\ request[r].op # "wipe_all" THEN {404, 500} ELSE {500}
           effects ==
             IF request[r].stage = "opening" THEN {"none"} ELSE {"none", Effect(request[r].stage)}
<1>1. \E status \in statuses, effect \in effects :
        /\ status = 404 => effect = "none"
        /\ request' = [request EXCEPT ![r].stage = "answered", ![r].status = status,
                                      ![r].effect = effect]
  BY Zenon DEF BackendFails
<1>2. statuses \subseteq {404, 500} /\ effects \subseteq {"none", Effect(request[r].stage)}
  OBVIOUS
<1> HIDE DEF statuses, effects
<1>3. PICK status \in statuses, effect \in effects : Finishes(r, "answered", status, effect)
  BY <1>1, Zenon DEF Finishes
<1> status \in {404, 500} /\ effect \in {"none", Effect(request[r].stage)}
  BY <1>2, <1>3
<1> WITNESS status \in {404, 500}, effect \in {"none", Effect(request[r].stage)}
<1> QED BY <1>3

LEMMA BackendAnswers ==
  ASSUME NEW r, BackendSucceeds(r) \/ BackendFails(r)
  PROVE  BackendAnswer(r)
<1>1. CASE BackendSucceeds(r)
  BY OneByOne, <1>1, Zenon DEF BackendSucceeds, BackendAnswer, Finishes
<1>2. CASE BackendFails(r)
  <2>1. \E status \in {404, 500}, effect \in {"none", Effect(request[r].stage)} :
         Finishes(r, "answered", status, effect)
    BY <1>2, BackendFailsWith
  <2>2. {404, 500} \subseteq Statuses \ Denials
    BY DEF Statuses, Denials
  <2>3. PICK status \in {404, 500}, effect \in {"none", Effect(request[r].stage)} :
               Finishes(r, "answered", status, effect)
    BY <2>1
  <2>4. status \in Statuses \ Denials
    BY <2>2
  <2> QED BY <2>3, <2>4, Zenon DEF BackendAnswer
<1> QED BY <1>1, <1>2

LEMMA BackendAnswersKeepInv ==
  ASSUME IInv, NEW r \in Requests, BackendSucceeds(r) \/ BackendFails(r)
  PROVE  IInv'
<1>1. request[r].stage \in {"storing", "opening", "erasing"} /\ UNCHANGED <<deployment, phase>>
  BY DEF BackendSucceeds, BackendFails
<1>2. PICK status \in Statuses \ Denials, effect \in {"none", Effect(request[r].stage)} :
        Finishes(r, "answered", status, effect)
  BY BackendAnswers DEF BackendAnswer
<1>3. effect \in Effects
  BY <1>1, EffectIsOne DEF Effects
<1>4. /\ request[r].stage \notin {"none", "answered", "gone"}
      /\ effect # "none" => effect = Effect(request[r].stage)
  BY <1>1, <1>2
<1> QED BY <1>1, <1>2, <1>3, <1>4, FinishKeepsInv

LEMMA DisconnectKeepsInv ==
  ASSUME IInv, NEW r \in Requests, Disconnect(r)
  PROVE  IInv'
<1> DEFINE p == request[r]
<1>1. p.stage \in Waiting /\ UNCHANGED <<deployment, phase>>
  BY DEF Disconnect
<1>2. PICK effect : /\ effect # "none" => /\ p.stage \in {"storing", "opening", "erasing"}
                                          /\ effect = Effect(p.stage)
                    /\ request' = [request EXCEPT ![r].stage = "gone", ![r].effect = effect]
  BY DEF Disconnect
<1>3. effect \in Effects
  BY <1>2, EffectIsOne DEF Effects
<1>4. p.stage \notin {"none", "answered", "gone"}
  BY <1>1 DEF Waiting
<1>5. p \in Queries /\ Secure(p) /\ request \in [Requests -> Queries]
  BY DEF IInv
<1>6. PICK status \in Statuses : status = p.status
  BY <1>5 DEF Queries
<1>7. Finishes(r, "gone", status, effect)
  <2>1. [p EXCEPT !.stage = "gone", !.effect = effect]
          = [p EXCEPT !.stage = "gone", !.status = status, !.effect = effect]
    BY <1>5, <1>6 DEF Queries
  <2> QED BY <1>2, <2>1 DEF Finishes
<1>8. Public(p) => status \notin Denials
  BY <1>5, <1>6 DEF Secure, Undisturbed
<1> QED BY <1>1, <1>2, <1>3, <1>4, <1>7, <1>8, FinishKeepsInv

-----------------------------------------------------------------------------
(* The invariant holds.                                                     *)

LEMMA InitEstablishesInv ==
  ASSUME Init
  PROVE  IInv
<1>1. NoRequest \in Queries
  BY DEF NoRequest, Queries, Spellings, Stages, Operations, Headers, Bodies, Effects, Codes, Statuses
<1>2. 0 \notin Denials
  BY DEF Denials
<1>3. Secure(NoRequest)
  BY <1>2 DEF NoRequest, Secure, EntitledToStage, EntitledToEffect, Undisturbed
<1> QED BY <1>1, <1>3 DEF Init, IInv

LEMMA StartKeepsInv ==
  ASSUME IInv, Start
  PROVE  IInv'
<1>1. settings' = settings /\ schemas' = schemas
  BY DEF Start, settings, schemas
<1>2. ASSUME NEW r \in Requests PROVE Secure(request[r])'
  <2>1. ASSUME NEW p, Secure(p) PROVE Secure(p)'
    BY <1>1, <2>1 DEF Secure, EntitledToStage, EntitledToEffect, Undisturbed, MayErase,
       MayStore, MayRead, PluginPassed, Public, Protected, Administrator, Allowed, Listed, HasSchema
  <2>2. request' = request /\ Secure(request[r])
    BY DEF IInv, Start
  <2> QED BY <2>1, <2>2
<1>3. phase' = "serving" => Accepts(settings)
  BY DEF Start
<1> QED BY <1>1, <1>2, <1>3 DEF IInv, Start

LEMMA StutterKeepsInv ==
  ASSUME IInv, UNCHANGED vars
  PROVE  IInv'
<1>1. settings' = settings /\ schemas' = schemas
  BY DEF vars, settings, schemas
<1>2. ASSUME NEW r \in Requests PROVE Secure(request[r])'
  BY <1>1, <1>2 DEF IInv, vars, Secure, EntitledToStage, EntitledToEffect, Undisturbed, MayErase,
     MayStore, MayRead, PluginPassed, Public, Protected, Administrator, Allowed, Listed, HasSchema
<1> QED BY <1>1, <1>2 DEF IInv, vars

LEMMA NextKeepsInv ==
  ASSUME IInv, [Next]_vars
  PROVE  IInv'
BY StartKeepsInv, StutterKeepsInv, ArriveKeepsInv, AuthenticateKeepsInv, AuthOTronAnswersKeepsInv,
   RefuseKeepsInv, DescribeSchemaKeepsInv, NotifyKeepsInv, AdministerKeepsInv, OpenStreamKeepsInv,
   EcpdsAnswersKeepsInv, BackendAnswersKeepInv, DisconnectKeepsInv
DEF Next

LEMMA InvHolds == Spec => []IInv
<1>1. Init => IInv
  BY InitEstablishesInv
<1>2. IInv /\ [Next]_vars => IInv'
  BY NextKeepsInv
<1> QED BY <1>1, <1>2, PTL DEF Spec

\* Nothing is stored, opened or, through a path spelled as documented, erased but for
\* somebody whom the policy of accepted settings allows it: authenticate_user,
\* enforce_stream_auth and the plugin between them leave no way around.  Paths that
\* are spelled otherwise are the subject of AdministratorsErase.
THEOREM Authorized == Spec => []EffectsAreAuthorized
<1>1. IInv => EffectsAreAuthorized
  <2> SUFFICES ASSUME IInv, NEW r \in Requests
               PROVE  LET q == request[r]
                      IN /\ (q.effect = "erased" /\ IsAdminPath(q) /\ settings.auth.enabled) => Allowed(q, {}, FALSE)
                         /\ \A auth \in Protected(q.type) :
                              /\ q.effect = "stored" => Allowed(q, auth.write_roles, FALSE)
                              /\ q.effect = "opened" => Allowed(q, auth.read_roles, TRUE)
                              /\ (q.effect = "opened" /\ auth.plugins # {})
                                   => q.granted \/ Allowed(q, {}, FALSE)
    BY DEF EffectsAreAuthorized, Protected
  <2>1. EntitledToEffect(request[r])
    BY DEF IInv, Secure
  <2> QED BY <2>1 DEF EntitledToEffect, MayErase, MayStore, MayRead, PluginPassed, Administrator
<1> QED BY <1>1, InvHolds, PTL

\* The schema under its documented path, and event types without authorization for
\* those who send no usable credentials, are never refused for the sake of access
\* (process_request of the middleware lets them pass).
THEOREM PublicStaysOpen == Spec => []OpenStreamsStayOpen
<1>1. IInv => OpenStreamsStayOpen
  BY DEF IInv, Secure, Undisturbed, Public, OpenStreamsStayOpen, Denials
<1> QED BY <1>1, InvHolds, PTL

\* Settings that validate_config accepts never make a request fail for something
\* that is missing from them.
THEOREM AcceptedServes == Spec => []AcceptedConfigurationServes
<1>1. IInv => AcceptedConfigurationServes
  BY DEF IInv, Secure, AcceptedConfigurationServes
<1> QED BY <1>1, InvHolds, PTL

-----------------------------------------------------------------------------
(* The counters: each is as high as there are requests that it counts.      *)

Kinds ==
  [metric : {"notification"}, outcome : {"success", "rejected", "error"}]
    \cup [metric : {"auth"}, outcome : {"success"} \cup Reasons]
    \cup [metric : {"access"}, outcome : {"allow"}]

\* Whether a request is one that a counter counts.
Counts(q, kind) ==
  \/ /\ kind.metric = "notification" /\ q.op = "notify"
     /\ ReachedHandler(q) /\ NotificationStatus(q) = kind.outcome
  \/ kind.metric = "auth" /\ kind.outcome = "success" /\ q.user # {}
  \/ /\ kind.metric = "auth" /\ kind.outcome \in Reasons
     /\ q.stage = "answered" /\ q.user = {} /\ q.code \in ByMiddleware
     /\ q.status = FailureStatus(kind.outcome)
  \/ kind.metric = "access" /\ kind.outcome = "allow" /\ q.granted

CountedRequests(kind) == {r \in Requests : Counts(request[r], kind)}

Matches(e, kind) == e.metric = kind.metric /\ e.outcome = kind.outcome

LabelBounded(e) ==
  e.metric = "notification" => e.label \in DOMAIN schemas \cup {"generic", "unknown"}

\* What a request has not been counted for yet, by where it is.
Uncounted(q) ==
  /\ q.stage \in {"none", "arrived", "authenticating"} => q.user = {}
  /\ q.granted => q.stage \in {"opening", "answered", "gone"}
  /\ q.stage # "answered" => q.code = ""
  /\ q.stage = "checking" => q.op # "notify" /\ q.user # {}

\* Only finitely many requests have arrived: the sets that are counted are finite.
CInv ==
  /\ IsABag(counted)
  /\ IsFiniteSet({r \in Requests : request[r].stage # "none"})
  /\ \A kind \in Kinds :
       /\ IsFiniteSet(Increments(kind.metric, kind.outcome))
       /\ Counted(kind.metric, kind.outcome) = Cardinality(CountedRequests(kind))
  /\ \A e \in BagToSet(counted) : LabelBounded(e)
  /\ \A r \in Requests : Uncounted(request[r])

LEMMA OneIncrement ==
  ASSUME NEW metric, NEW outcome, NEW x
  PROVE  x \in Increments(metric, outcome) <=>
           \E e \in DOMAIN counted : \E k \in 1..counted[e] :
             x = <<e, k>> /\ e.metric = metric /\ e.outcome = outcome
BY DEF Increments, BagToSet

\* What counting an entry does to the bag, and to the increments of each counter.
LEMMA CountingOne ==
  ASSUME IsABag(counted), NEW e, Count({e})
  PROVE  /\ IsABag(counted)'
         /\ DOMAIN counted' = DOMAIN counted \cup {e}
         /\ \A metric, outcome :
              IF e.metric = metric /\ e.outcome = outcome
              THEN \E x : /\ x \notin Increments(metric, outcome)
                          /\ Increments(metric, outcome)' = Increments(metric, outcome) \cup {x}
              ELSE Increments(metric, outcome)' = Increments(metric, outcome)
<1> DEFINE before == IF e \in DOMAIN counted THEN counted[e] ELSE 0
<1>1. counted' = [d \in DOMAIN counted \cup {e} |->
                    (IF d \in DOMAIN counted THEN counted[d] ELSE 0) + (IF d \in {e} THEN 1 ELSE 0)]
  BY DEF Count, (+), SetToBag
<1>2. \A d \in DOMAIN counted : counted[d] \in Nat /\ counted[d] > 0
  BY DEF IsABag
<1>3. before \in Nat
  BY <1>2
<1>4. /\ DOMAIN counted' = DOMAIN counted \cup {e}
      /\ counted'[e] = before + 1
      /\ \A d \in DOMAIN counted \ {e} : counted'[d] = counted[d]
  BY <1>1, <1>2
<1>5. IsABag(counted)'
  <2>1. \A d \in DOMAIN counted' : counted'[d] \in {n \in Nat : n > 0}
    BY <1>2, <1>3, <1>4
  <2>2. counted' = [d \in DOMAIN counted' |-> counted'[d]]
    BY <1>1
  <2> QED BY <2>1, <2>2 DEF IsABag
<1>6. ASSUME NEW metric, NEW outcome, NEW x
      PROVE  x \in Increments(metric, outcome)' <=>
               \/ x \in Increments(metric, outcome)
               \/ x = <<e, before + 1>> /\ e.metric = metric /\ e.outcome = outcome
  <2>1. x \in Increments(metric, outcome)' <=>
          \E d \in DOMAIN counted' : \E k \in 1..counted'[d] :
            x = <<d, k>> /\ d.metric = metric /\ d.outcome = outcome
    BY DEF Increments, BagToSet
  <2>2. \A k : k \in 1..(before + 1) <=> k \in 1..before \/ k = before + 1
    BY <1>3
  <2>3. e \notin DOMAIN counted => 1..before = {}
    OBVIOUS
  <2> HIDE DEF before
  <2>4. e \in DOMAIN counted => before = counted[e]
    BY DEF before
  <2>5. ASSUME x \in Increments(metric, outcome)' PROVE 
               \/ x \in Increments(metric, outcome)
               \/ x = <<e, before + 1>> /\ e.metric = metric /\ e.outcome = outcome
    <3>1. PICK d, k : /\ d \in DOMAIN counted' /\ k \in 1..counted'[d]
                      /\ x = <<d, k>> /\ d.metric = metric /\ d.outcome = outcome
      BY <2>1, <2>5
    <3>2. CASE d # e
      BY <1>4, <3>1, <3>2, OneIncrement
    <3>3. CASE d = e /\ k = before + 1
      BY <3>1, <3>3
    <3>4. CASE d = e /\ k \in 1..before
      BY <2>3, <2>4, <3>1, <3>4, OneIncrement
    <3> QED BY <1>4, <2>2, <3>1, <3>2, <3>3, <3>4
  <2>6. ASSUME x \in Increments(metric, outcome) PROVE x \in Increments(metric, outcome)'
    <3>1. PICK d, k : /\ d \in DOMAIN counted /\ k \in 1..counted[d]
                      /\ x = <<d, k>> /\ d.metric = metric /\ d.outcome = outcome
      BY <2>6, OneIncrement
    <3>2. CASE d # e
      BY <1>4, <2>1, <3>1, <3>2
    <3>3. CASE d = e
      <4>1. k \in 1..before
        BY <2>4, <3>1, <3>3
      <4>2. k \in 1..counted'[e]
        BY <1>4, <2>2, <4>1
      <4> QED BY <1>4, <2>1, <3>1, <3>3, <4>2
    <3> QED BY <3>2, <3>3
  <2>7. ASSUME x = <<e, before + 1>>, e.metric = metric, e.outcome = outcome
        PROVE  x \in Increments(metric, outcome)'
    <3>1. e \in DOMAIN counted' /\ before + 1 \in 1..counted'[e]
      BY <1>4, <2>2
    <3> QED BY <2>1, <2>7, <3>1
  <2> QED BY <2>5, <2>6, <2>7
<1>7. ASSUME NEW metric, NEW outcome
      PROVE  <<e, before + 1>> \notin Increments(metric, outcome)
  <2>1. \A k \in 1..before : k # before + 1
    BY <1>3
  <2> QED BY <2>1, OneIncrement
<1> HIDE DEF before
<1>8. ASSUME NEW metric, NEW outcome
      PROVE  IF e.metric = metric /\ e.outcome = outcome
             THEN Increments(metric, outcome)' = Increments(metric, outcome) \cup {<<e, before + 1>>}
             ELSE Increments(metric, outcome)' = Increments(metric, outcome)
  BY <1>6
<1> QED BY <1>4, <1>5, <1>7, <1>8

\* A request moves on and is counted at most once, by the counters that it now
\* belongs to and no others.
CountedOnce(p, q, entries) ==
  \A kind \in Kinds :
    /\ Counts(q, kind) <=> Counts(p, kind) \/ \E e \in entries : Matches(e, kind)
    /\ Counts(p, kind) => \A e \in entries : ~Matches(e, kind)

LEMMA CountedHaveArrived ==
  ASSUME NEW q, NEW kind, Counts(q, kind), Uncounted(q)
  PROVE  q.stage # "none"
BY DEF Counts, Uncounted, ReachedHandler

LEMMA CountKeepsCInv ==
  ASSUME IInv, CInv, NEW r \in Requests, NEW q, request' = [request EXCEPT ![r] = q],
         deployment' = deployment,
         Uncounted(q), q.stage # "none",
         NEW entries,
         \/ entries = {} /\ UNCHANGED counted
         \/ \E e : entries = {e} /\ LabelBounded(e) /\ Count({e}),
         CountedOnce(request[r], q, entries)
  PROVE  CInv'
<1> DEFINE arrived == {d \in Requests : request[d].stage # "none"}
<1>1. /\ request'[r] = q
      /\ \A d \in Requests \ {r} : request'[d] = request[d]
  BY DEF IInv
<1>2. IsFiniteSet(arrived')
  <2>1. arrived' = arrived \cup {r}
    BY <1>1
  <2> QED BY <2>1, FS_AddElement DEF CInv
<1>3. \A d \in Requests : Uncounted(request'[d])
  BY <1>1 DEF CInv
<1>4. ASSUME NEW e, LabelBounded(e) PROVE LabelBounded(e)'
  BY <1>4 DEF LabelBounded, schemas, settings
<1>5. IsABag(counted)' /\ (\A e \in DOMAIN counted' : LabelBounded(e)')
  <2>1. CASE entries = {} /\ UNCHANGED counted
    BY <1>4, <2>1 DEF CInv, BagToSet
  <2>2. ASSUME NEW e, entries = {e} /\ LabelBounded(e) /\ Count({e})
        PROVE  IsABag(counted)' /\ (\A d \in DOMAIN counted' : LabelBounded(d)')
    BY <1>4, <2>2, CountingOne, ZenonT(60) DEF CInv, BagToSet
  <2> QED BY <2>1, <2>2
<1>6. ASSUME NEW kind \in Kinds
      PROVE  /\ IsFiniteSet(Increments(kind.metric, kind.outcome)')
             /\ Cardinality(Increments(kind.metric, kind.outcome)') = Cardinality(CountedRequests(kind)')
  <2> DEFINE I == Increments(kind.metric, kind.outcome)
             C == CountedRequests(kind)
  <2>1. IsFiniteSet(I) /\ Cardinality(I) = Cardinality(C)
    BY DEF CInv, Counted
  <2>2. IsFiniteSet(C)
    <3>1. C \subseteq arrived
      BY CountedHaveArrived DEF CInv, CountedRequests
    <3> QED BY <3>1, FS_Subset DEF CInv
  <2>3. C' = IF Counts(q, kind) THEN C \cup {r} ELSE C \ {r}
    <3>1. \A d \in Requests : Counts(request[d], kind)' <=> Counts(request'[d], kind)
      BY DEF Counts, ReachedHandler, NotificationStatus, FailureStatus
    <3> QED BY <1>1, <3>1 DEF CountedRequests
  <2>4. r \in C <=> Counts(request[r], kind)
    BY DEF CountedRequests
  <2>5. CASE \A e \in entries : ~Matches(e, kind)
    <3>1. I' = I
      <4>1. CASE entries = {} /\ UNCHANGED counted
        BY <4>1 DEF Increments, BagToSet
      <4>2. ASSUME NEW e, entries = {e} /\ Count({e})
            PROVE  I' = I
        BY <2>5, <4>2, CountingOne DEF CInv, Matches
      <4> QED BY <4>1, <4>2
    <3>2. C' = C
      BY <2>3, <2>4, <2>5 DEF CountedOnce
    <3> QED BY <2>1, <3>1, <3>2
  <2>6. ASSUME NEW e \in entries, Matches(e, kind)
        PROVE  IsFiniteSet(I') /\ Cardinality(I') = Cardinality(C')
    <3>1. entries = {e} /\ Count({e})
      BY <2>6
    <3>2. PICK x : x \notin I /\ I' = I \cup {x}
      BY <2>6, <3>1, CountingOne DEF CInv, Matches
    <3>3. r \notin C /\ C' = C \cup {r}
      BY <2>3, <2>4, <2>6 DEF CountedOnce
    <3>4. IsFiniteSet(I \cup {x}) /\ Cardinality(I \cup {x}) = Cardinality(I) + 1
      BY <2>1, <3>2, FS_AddElement
    <3>5. Cardinality(C \cup {r}) = Cardinality(C) + 1
      BY <2>2, <3>3, FS_AddElement
    <3> QED BY <2>1, <3>2, <3>3, <3>4, <3>5
  <2> QED BY <2>5, <2>6
<1> QED BY <1>2, <1>3, <1>5, <1>6 DEF CInv, Counted, BagToSet

-----------------------------------------------------------------------------
(* What a step of a request counts.                                         *)

NoKind(e) == \A kind \in Kinds : ~Matches(e, kind)

\* Before it is answered a request counts for its user and its grant alone.
LEMMA NotAnsweredYet ==
  ASSUME NEW q, q.stage # "answered", NEW kind
  PROVE  Counts(q, kind) <=>
           \/ kind.metric = "auth" /\ kind.outcome = "success" /\ q.user # {}
           \/ kind.metric = "access" /\ kind.outcome = "allow" /\ q.granted
BY DEF Counts, ReachedHandler

LEMMA NowAnswered ==
  ASSUME NEW q, q.stage = "answered", NEW kind
  PROVE  Counts(q, kind) <=>
           \/ /\ kind.metric = "notification" /\ q.op = "notify"
              /\ q.code \notin ByMiddleware /\ NotificationStatus(q) = kind.outcome
           \/ /\ kind.metric = "auth" /\ kind.outcome \in Reasons
              /\ q.user = {} /\ q.code \in ByMiddleware /\ q.status = FailureStatus(kind.outcome)
           \/ kind.metric = "auth" /\ kind.outcome = "success" /\ q.user # {}
           \/ kind.metric = "access" /\ kind.outcome = "allow" /\ q.granted
BY DEF Counts, ReachedHandler

\* The handler answers a notification, which is counted.
LEMMA NotificationCountedOnce ==
  ASSUME NEW p, NEW q, SameRequest(p, q), p.stage # "answered", q.stage = "answered",
         q.op = "notify", q.code \notin ByMiddleware,
         NEW e, e.metric = "notification", e.outcome = NotificationStatus(q)
  PROVE  CountedOnce(p, q, {e})
<1> SUFFICES ASSUME NEW kind \in Kinds
             PROVE  /\ Counts(q, kind) <=> Counts(p, kind) \/ Matches(e, kind)
                    /\ Counts(p, kind) => ~Matches(e, kind)
  BY DEF CountedOnce
<1>1. Matches(e, kind) <=> kind.metric = "notification" /\ NotificationStatus(q) = kind.outcome
  BY DEF Matches
<1> QED BY <1>1, NotAnsweredYet, NowAnswered DEF SameRequest

\* The middleware refuses a request, which is counted under its reason.
LEMMA FailureCountedOnce ==
  ASSUME NEW p, NEW q, SameRequest(p, q), p.stage # "answered", q.stage = "answered",
         q.user = {}, q.code \in ByMiddleware,
         NEW reason \in Reasons, q.status = FailureStatus(reason),
         NEW e, e.metric = "auth", e.outcome = reason
  PROVE  CountedOnce(p, q, {e})
<1> SUFFICES ASSUME NEW kind \in Kinds
             PROVE  /\ Counts(q, kind) <=> Counts(p, kind) \/ Matches(e, kind)
                    /\ Counts(p, kind) => ~Matches(e, kind)
  BY DEF CountedOnce
<1>1. Matches(e, kind) <=> kind.metric = "auth" /\ kind.outcome = reason
  BY DEF Matches
<1>2. \A other \in Reasons : FailureStatus(other) = FailureStatus(reason) <=> other = reason
  BY DEF Reasons, FailureStatus
<1>3. "success" \notin Reasons
  BY DEF Reasons
<1> QED BY <1>1, <1>2, <1>3, NotAnsweredYet, NowAnswered, ZenonT(60) DEF SameRequest

\* Other answers are counted by none of the counters.
LEMMA OtherCountedOnce ==
  ASSUME NEW p, NEW q, SameRequest(p, q), p.stage # "answered", q.stage = "answered",
         q.op # "notify", q.code \notin ByMiddleware \/ q.user # {},
         NEW entries, \A e \in entries : NoKind(e)
  PROVE  CountedOnce(p, q, entries)
<1> SUFFICES ASSUME NEW kind \in Kinds
             PROVE  /\ Counts(q, kind) <=> Counts(p, kind)
                    /\ \A e \in entries : ~Matches(e, kind)
  BY DEF CountedOnce
<1>1. \A e \in entries : ~Matches(e, kind)
  BY DEF NoKind
<1> QED BY <1>1, NotAnsweredYet, NowAnswered DEF SameRequest

LEMMA GoesKeepsCInv ==
  ASSUME IInv, CInv, NEW r \in Requests, NEW stage \in Stages \ {"none", "answered"},
         Goes(r, stage), deployment' = deployment,
         request[r].stage \notin {"none", "answered"},
         stage \in {"arrived", "authenticating"} => request[r].user = {},
         request[r].granted => stage \in {"opening", "gone"},
         stage = "checking" => request[r].op # "notify" /\ request[r].user # {},
         UNCHANGED counted \/ \E e : NoKind(e) /\ LabelBounded(e) /\ Count({e})
  PROVE  CInv'
<1>1. PICK q : /\ Moves(r, q) /\ SameRequest(request[r], q) /\ q.stage = stage
               /\ q.status = request[r].status /\ q.code = request[r].code
               /\ q.effect = request[r].effect
  BY GoesMoves
<1>2. Uncounted(q) /\ q.stage # "none"
  <2>1. Uncounted(request[r])
    BY DEF CInv
  <2> QED BY <1>1, <2>1 DEF Uncounted, SameRequest
<1>3. ASSUME NEW entries, \A e \in entries : NoKind(e)
      PROVE  CountedOnce(request[r], q, entries)
  BY <1>1, <1>3, NotAnsweredYet DEF CountedOnce, SameRequest, NoKind
<1>4. CASE UNCHANGED counted
  <2>1. CountedOnce(request[r], q, {})
    BY <1>3
  <2> QED BY <1>1, <1>2, <1>4, <2>1, CountKeepsCInv DEF Moves
<1>5. ASSUME NEW e, NoKind(e), LabelBounded(e), Count({e}) PROVE CInv'
  <2>1. CountedOnce(request[r], q, {e})
    BY <1>3, <1>5
  <2> QED BY <1>1, <1>2, <1>5, <2>1, CountKeepsCInv DEF Moves
<1> QED BY <1>4, <1>5

\* The request as it is answered, by a check or by the backend.
LEMMA AnswerMoves ==
  ASSUME IInv, NEW r \in Requests, NEW status, NEW code, Answer(r, status, code)
  PROVE  \E q : /\ request' = [request EXCEPT ![r] = q] /\ SameRequest(request[r], q)
                /\ q.stage = "answered" /\ q.status = status /\ q.code = code
<1> DEFINE q == [request[r] EXCEPT !.stage = "answered", !.status = status, !.code = code]
<1>1. request[r] \in Queries
  BY DEF IInv
<1>2. SameRequest(request[r], q) /\ q.stage = "answered" /\ q.status = status /\ q.code = code
  BY <1>1 DEF Queries, SameRequest
<1>3. request' = [request EXCEPT ![r] = q]
  BY DEF Answer
<1> HIDE DEF q
<1> QED BY <1>2, <1>3

LEMMA FinishMoves ==
  ASSUME IInv, NEW r \in Requests, NEW status, NEW effect, Finishes(r, "answered", status, effect)
  PROVE  \E q : /\ request' = [request EXCEPT ![r] = q] /\ SameRequest(request[r], q)
                /\ q.stage = "answered" /\ q.status = status /\ q.code = request[r].code
<1> DEFINE q == [request[r] EXCEPT !.stage = "answered", !.status = status, !.effect = effect]
<1>1. request[r] \in Queries
  BY DEF IInv
<1>2. /\ SameRequest(request[r], q) /\ q.stage = "answered" /\ q.status = status
      /\ q.code = request[r].code
  BY <1>1 DEF Queries, SameRequest
<1>3. request' = [request EXCEPT ![r] = q]
  BY DEF Finishes
<1> HIDE DEF q
<1> QED BY <1>2, <1>3

\* Of an answered request nothing is pending.
LEMMA AnsweredIsUncounted ==
  ASSUME NEW q, q.stage = "answered"
  PROVE  Uncounted(q)
BY DEF Uncounted

LEMMA FailKeepsCInv ==
  ASSUME IInv, CInv, NEW r \in Requests, NEW reason \in Reasons, NEW code \in ByMiddleware,
         Fail(r, reason, code), deployment' = deployment,
         request[r].stage \in {"arrived", "authenticating"}
  PROVE  CInv'
<1>1. PICK q : /\ request' = [request EXCEPT ![r] = q] /\ SameRequest(request[r], q)
               /\ q.stage = "answered" /\ q.status = FailureStatus(reason) /\ q.code = code
  BY AnswerMoves DEF Fail
<1> DEFINE e == AuthCount(reason)
<1>2. e.metric = "auth" /\ e.outcome = reason
  BY DEF AuthCount
<1>3. LabelBounded(e)
  BY <1>2 DEF LabelBounded
<1>4. Count({e})
  BY DEF Fail
<1> HIDE DEF e
<1>5. q.user = {}
  BY <1>1 DEF CInv, Uncounted, SameRequest
<1>6. CountedOnce(request[r], q, {e})
  BY <1>1, <1>2, <1>5, FailureCountedOnce
<1> QED BY <1>1, <1>3, <1>4, <1>6, AnsweredIsUncounted, CountKeepsCInv

LEMMA OtherAnswerKeepsCInv ==
  ASSUME IInv, CInv, NEW r \in Requests, NEW status, NEW code, Answer(r, status, code),
         deployment' = deployment,
         request[r].stage \notin {"none", "answered"}, request[r].op # "notify",
         code \notin ByMiddleware \/ request[r].user # {},
         UNCHANGED counted \/ \E e : NoKind(e) /\ LabelBounded(e) /\ Count({e})
  PROVE  CInv'
<1>1. PICK q : /\ request' = [request EXCEPT ![r] = q] /\ SameRequest(request[r], q)
               /\ q.stage = "answered" /\ q.status = status /\ q.code = code
  BY AnswerMoves
<1>2. ASSUME NEW entries, \A e \in entries : NoKind(e)
      PROVE  CountedOnce(request[r], q, entries)
  BY <1>1, <1>2, OtherCountedOnce DEF SameRequest
<1>3. CASE UNCHANGED counted
  <2>1. CountedOnce(request[r], q, {})
    BY <1>2
  <2> QED BY <1>1, <1>3, <2>1, AnsweredIsUncounted, CountKeepsCInv
<1>4. ASSUME NEW e, NoKind(e), LabelBounded(e), Count({e}) PROVE CInv'
  <2>1. CountedOnce(request[r], q, {e})
    BY <1>2, <1>4
  <2> QED BY <1>1, <1>4, <2>1, AnsweredIsUncounted, CountKeepsCInv
<1> QED BY <1>3, <1>4

LEMMA TokenKeepsCInv ==
  ASSUME IInv, CInv, NEW r \in Requests, NEW valid \in BOOLEAN, Token(r, valid),
         deployment' = deployment, request[r].stage \in {"arrived", "authenticating"}
  PROVE  CInv'
<1>1. CASE Fail(r, "unauthorized", "UNAUTHORIZED")
  BY <1>1, FailKeepsCInv DEF Reasons, ByMiddleware
<1>2. ASSUME NEW user \in request[r].claims, Admit(r, user)
      PROVE  CInv'
  <2>1. CASE IsAdminPath(request[r]) /\ ~IsAdmin(user)
    <3>1. Fail(r, "forbidden", "FORBIDDEN")
      BY <1>2, <2>1 DEF Admit
    <3> QED BY <3>1, FailKeepsCInv DEF Reasons, ByMiddleware
  <2>2. CASE ~(IsAdminPath(request[r]) /\ ~IsAdmin(user))
    <3> DEFINE p == request[r]
               q == [p EXCEPT !.stage = "admitted", !.user = {user}]
               e == AuthCount("success")
    <3>1. p \in Queries /\ Uncounted(p) /\ p.user = {} /\ ~p.granted
      BY DEF IInv, CInv, Uncounted
    <3>2. /\ q.stage = "admitted" /\ q.user = {user} /\ ~q.granted /\ q.code = p.code
      BY <3>1 DEF Queries
    <3>3. request' = [request EXCEPT ![r] = q] /\ Count({e})
      BY <1>2, <2>2 DEF Admit
    <3>4. e.metric = "auth" /\ e.outcome = "success"
      BY DEF AuthCount
    <3> HIDE DEF q, e
    <3>5. LabelBounded(e)
      BY <3>4 DEF LabelBounded
    <3>6. Uncounted(q) /\ q.stage # "none"
      BY <3>1, <3>2 DEF Uncounted
    <3>7. CountedOnce(p, q, {e})
      <4> SUFFICES ASSUME NEW kind \in Kinds
                   PROVE  /\ Counts(q, kind) <=> Counts(p, kind) \/ Matches(e, kind)
                          /\ Counts(p, kind) => ~Matches(e, kind)
        BY DEF CountedOnce
      <4>1. Matches(e, kind) <=> kind.metric = "auth" /\ kind.outcome = "success"
        BY <3>4 DEF Matches
      <4> QED BY <3>1, <3>2, <4>1, NotAnsweredYet
    <3> QED BY <3>3, <3>5, <3>6, <3>7, CountKeepsCInv
  <2> QED BY <2>1, <2>2
<1> QED BY <1>1, <1>2 DEF Token

LEMMA ArriveKeepsCInv ==
  ASSUME IInv, CInv, NEW r \in Requests, Arrive(r)
  PROVE  CInv'
<1>1. PICK op \in Operations, type \in EventTypes, header \in Headers :
        \E body \in BodiesOf(op), path \in Paths(op),
           claims \in IF header \in {"basic", "bearer"} THEN {{}} \cup {{u} : u \in Users} ELSE {{}} :
          request' = [request EXCEPT ![r] =
            [NoRequest EXCEPT !.stage = "arrived", !.op = op, !.path = path, !.type = type,
                              !.header = header, !.claims = claims, !.body = body]]
  BY DEF Arrive
<1>2. PICK body, path, claims :
        request' = [request EXCEPT ![r] =
          [NoRequest EXCEPT !.stage = "arrived", !.op = op, !.path = path, !.type = type,
                            !.header = header, !.claims = claims, !.body = body]]
  BY <1>1
<1> DEFINE q == [NoRequest EXCEPT !.stage = "arrived", !.op = op, !.path = path, !.type = type,
                                  !.header = header, !.claims = claims, !.body = body]
<1>3. q.stage = "arrived" /\ q.user = {} /\ q.code = "" /\ q.granted = FALSE
  BY DEF NoRequest
<1>4. request' = [request EXCEPT ![r] = q]
  BY <1>2
<1> HIDE DEF q
<1>5. request[r].stage = "none" /\ request[r].user = {} /\ ~request[r].granted
  BY DEF Arrive, CInv, Uncounted
<1>6. CountedOnce(request[r], q, {})
  BY <1>3, <1>5, NotAnsweredYet DEF CountedOnce
<1> QED BY <1>3, <1>4, <1>6, CountKeepsCInv DEF Arrive, Uncounted

LEMMA AuthenticateKeepsCInv ==
  ASSUME IInv, CInv, NEW r \in Requests, Authenticate(r)
  PROVE  CInv'
<1>1. request[r].stage = "arrived" /\ deployment' = deployment
  BY DEF Authenticate
<1>2. request[r].user = {} /\ ~request[r].granted
  BY <1>1 DEF CInv, Uncounted
<1>3. \/ Goes(r, "admitted") /\ UNCHANGED counted
      \/ Goes(r, "authenticating") /\ UNCHANGED counted
      \/ \E valid \in BOOLEAN : Token(r, valid)
      \/ Fail(r, "service_unavailable", "MISCONFIGURED")
      \/ Fail(r, "unauthorized", "UNAUTHORIZED")
  BY DEF Authenticate
<1>4. CASE Goes(r, "admitted") /\ UNCHANGED counted
  BY <1>1, <1>2, <1>4, GoesKeepsCInv DEF Stages
<1>5. CASE Goes(r, "authenticating") /\ UNCHANGED counted
  BY <1>1, <1>2, <1>5, GoesKeepsCInv DEF Stages, Waiting
<1>6. CASE \E valid \in BOOLEAN : Token(r, valid)
  BY <1>1, <1>6, TokenKeepsCInv
<1>7. CASE Fail(r, "service_unavailable", "MISCONFIGURED")
  BY <1>1, <1>7, FailKeepsCInv DEF Reasons, ByMiddleware
<1>8. CASE Fail(r, "unauthorized", "UNAUTHORIZED")
  BY <1>1, <1>8, FailKeepsCInv DEF Reasons, ByMiddleware
<1> QED BY <1>3, <1>4, <1>5, <1>6, <1>7, <1>8

LEMMA AuthOTronAnswersKeepsCInv ==
  ASSUME IInv, CInv, NEW r \in Requests, AuthOTronAnswers(r)
  PROVE  CInv'
<1>1. request[r].stage = "authenticating" /\ deployment' = deployment
  BY DEF AuthOTronAnswers
<1>2. ASSUME NEW valid \in BOOLEAN, Token(r, valid) PROVE CInv'
  BY <1>1, <1>2, TokenKeepsCInv
<1>3. CASE AuthOTronAnswerWithoutToken(r)
  <2>1. PICK reason \in Reasons, code \in ByMiddleware : Fail(r, reason, code)
    BY <1>3 DEF AuthOTronAnswerWithoutToken, Reasons, ByMiddleware
  <2> QED BY <1>1, <2>1, FailKeepsCInv
<1> QED BY <1>2, <1>3 DEF AuthOTronAnswers

\* A check of a notification counts it with the status that is answered.
CountsRefusal(check, type) ==
  /\ check.code \notin ByMiddleware /\ check.status \in {400, 401, 403, 500}
  /\ \E e : /\ check.counts = {e} /\ e.metric = "notification"
            /\ e.label \in {"unknown", Label(type)}
            /\ e.outcome = IF check.status \in {401, 403} \/ check.code = "UNKNOWN_EVENT_TYPE"
                           THEN "rejected" ELSE "error"

LEMMA RefusalCounted ==
  ASSUME NEW check, NEW type, NEW label \in {"unknown", Label(type)}, NEW outcome,
         check.counts = {[metric |-> "notification", label |-> label, outcome |-> outcome]},
         \/ /\ check.code \in {"PARSE", "INVALID_NOTIFICATION_REQUEST"}
            /\ check.status \in {400, 500} /\ outcome = "error"
         \/ check.code = "UNKNOWN_EVENT_TYPE" /\ check.status = 400 /\ outcome = "rejected"
         \/ check.code = "DENIED" /\ check.status \in {401, 403} /\ outcome = "rejected"
  PROVE  CountsRefusal(check, type)
<1> DEFINE e == [metric |-> "notification", label |-> label, outcome |-> outcome]
<1>1. e.metric = "notification" /\ e.label = label /\ e.outcome = outcome
  OBVIOUS
<1>2. check.code \notin ByMiddleware /\ check.status \in {400, 401, 403, 500}
  BY DEF ByMiddleware
<1>3. outcome = IF check.status \in {401, 403} \/ check.code = "UNKNOWN_EVENT_TYPE"
                THEN "rejected" ELSE "error"
  OBVIOUS
<1> HIDE DEF e
<1>4. check.counts = {e}
  BY DEF e
<1> QED BY <1>1, <1>2, <1>3, <1>4 DEF CountsRefusal

LEMMA NotifyRefusalsAreCounted ==
  ASSUME NEW q, NEW i \in DOMAIN NotifyChecks(q), NotifyChecks(q)[i].fails
  PROVE  CountsRefusal(NotifyChecks(q)[i], q.type)
<1> DEFINE entry(label, outcome) == [metric |-> "notification", label |-> label, outcome |-> outcome]
<1>1. i \in {1, 2, 3, 4, 5}
  BY AuthorizationIsChecked
<1>2. CASE i = 1
  <2>1. /\ NotifyChecks(q)[1].code = "PARSE" /\ NotifyChecks(q)[1].status = 400
        /\ NotifyChecks(q)[1].counts = {entry("unknown", "error")}
    BY DEF NotifyChecks
  <2> QED BY <1>2, <2>1, RefusalCounted
<1>3. CASE i = 2
  <2>1. /\ NotifyChecks(q)[2].code = "UNKNOWN_EVENT_TYPE" /\ NotifyChecks(q)[2].status = 400
        /\ NotifyChecks(q)[2].counts = {entry("unknown", "rejected")}
    BY DEF NotifyChecks
  <2> QED BY <1>3, <2>1, RefusalCounted
<1>4. CASE i = 3
  <2>1. /\ NotifyChecks(q)[3].code = "INVALID_NOTIFICATION_REQUEST" /\ NotifyChecks(q)[3].status = 400
        /\ NotifyChecks(q)[3].counts = {entry(Label(q.type), "error")}
    BY DEF NotifyChecks
  <2> QED BY <1>4, <2>1, RefusalCounted
<1>5. CASE i = 4
  <2>1. /\ NotifyChecks(q)[4].code = "DENIED"
        /\ NotifyChecks(q)[4].status = StreamAuthorization(q)
        /\ NotifyChecks(q)[4].counts = {entry(Label(q.type), "rejected")}
    BY DEF NotifyChecks
  <2>2. StreamAuthorization(q) # 0
    BY <1>5, AuthorizationIsChecked
  <2>3. StreamAuthorization(q) \in {0, 401, 403}
    BY AuthorizationOfPublic
  <2> QED BY <1>5, <2>1, <2>2, <2>3, RefusalCounted
<1>6. CASE i = 5
  <2>1. /\ NotifyChecks(q)[5].code = "INVALID_NOTIFICATION_REQUEST"
        /\ NotifyChecks(q)[5].status = FieldStatus(q)
        /\ NotifyChecks(q)[5].counts = {entry(Label(q.type), "error")}
    BY DEF NotifyChecks
  <2>2. FieldStatus(q) \in {400, 500}
    BY DEF FieldStatus
  <2> QED BY <1>6, <2>1, <2>2, RefusalCounted
<1> QED BY <1>1, <1>2, <1>3, <1>4, <1>5, <1>6

\* Those of a stream count nothing.
LEMMA StreamRefusalsAreNotCounted ==
  ASSUME NEW q, NEW i \in DOMAIN StreamChecks(q)
  PROVE  StreamChecks(q)[i].code \notin ByMiddleware /\ StreamChecks(q)[i].counts = {}
<1>1. i \in {1, 2, 3, 4}
  BY AuthorizationIsChecked
<1>2. /\ StreamChecks(q)[1].code = "PARSE" /\ StreamChecks(q)[2].code = "UNKNOWN_EVENT_TYPE"
      /\ StreamChecks(q)[3].code = "DENIED" /\ StreamChecks(q)[4].code = "INVALID_STREAM_REQUEST"
  BY DEF StreamChecks
<1>3. /\ StreamChecks(q)[1].counts = {} /\ StreamChecks(q)[2].counts = {}
      /\ StreamChecks(q)[3].counts = {} /\ StreamChecks(q)[4].counts = {}
  BY DEF StreamChecks
<1> QED BY <1>1, <1>2, <1>3 DEF ByMiddleware

LEMMA CountingNothing ==
  ASSUME CInv, Count({})
  PROVE  UNCHANGED counted
<1>1. counted' = [d \in DOMAIN counted |-> counted[d] + 0]
  BY DEF Count, (+), SetToBag
<1>2. \A d \in DOMAIN counted : counted[d] + 0 = counted[d]
  BY DEF CInv, IsABag
<1>3. counted = [d \in DOMAIN counted |-> counted[d]]
  BY DEF CInv, IsABag
<1> QED BY <1>1, <1>2, <1>3

LEMMA LabelIsBounded ==
  ASSUME NEW e, NEW type, e.label \in {"unknown", Label(type)}
  PROVE  LabelBounded(e)
BY DEF LabelBounded, Label, HasSchema

LEMMA RefuseKeepsCInv ==
  ASSUME IInv, CInv, NEW r \in Requests, Refuse(r)
  PROVE  CInv'
<1> DEFINE p == request[r]
           checks == Checks(p)
<1>1. p.stage = "admitted" /\ deployment' = deployment
  BY DEF Refuse
<1>2. PICK i \in DOMAIN checks : /\ checks[i].fails /\ Answer(r, checks[i].status, checks[i].code)
                                 /\ Count(checks[i].counts)
  BY DEF Refuse, FirstFailing
<1>3. CASE p.op = "notify"
  <2>1. checks = NotifyChecks(p)
    BY <1>3 DEF Checks
  <2> HIDE DEF checks
  <2>2. PICK e : /\ checks[i].counts = {e} /\ e.metric = "notification"
                 /\ e.label \in {"unknown", Label(p.type)}
                 /\ e.outcome = IF checks[i].status \in {401, 403} \/ checks[i].code = "UNKNOWN_EVENT_TYPE"
                                THEN "rejected" ELSE "error"
    BY <1>2, <2>1, NotifyRefusalsAreCounted DEF CountsRefusal
  <2>3. checks[i].code \notin ByMiddleware /\ checks[i].status \in {400, 401, 403, 500}
    BY <1>2, <2>1, NotifyRefusalsAreCounted DEF CountsRefusal
  <2>4. PICK q : /\ request' = [request EXCEPT ![r] = q] /\ SameRequest(p, q)
                 /\ q.stage = "answered" /\ q.status = checks[i].status /\ q.code = checks[i].code
    BY <1>2, AnswerMoves
  <2>5. e.outcome = NotificationStatus(q)
    BY <2>2, <2>3, <2>4 DEF NotificationStatus
  <2>6. CountedOnce(p, q, {e})
    BY <1>1, <1>3, <2>2, <2>3, <2>4, <2>5, NotificationCountedOnce DEF SameRequest
  <2>7. LabelBounded(e) /\ Count({e})
    BY <1>2, <2>2, LabelIsBounded
  <2> QED BY <1>1, <2>4, <2>6, <2>7, AnsweredIsUncounted, CountKeepsCInv
<1>4. CASE p.op \in {"watch", "replay"}
  <2>1. checks = StreamChecks(p)
    BY <1>4 DEF Checks
  <2> HIDE DEF checks
  <2>2. checks[i].code \notin ByMiddleware /\ checks[i].counts = {}
    BY <2>1, StreamRefusalsAreNotCounted
  <2>3. UNCHANGED counted
    BY <1>2, <2>2, CountingNothing
  <2> QED BY <1>1, <1>2, <1>4, <2>2, <2>3, OtherAnswerKeepsCInv
<1>5. CASE p.op \notin {"notify", "watch", "replay"}
  BY <1>2, <1>5 DEF Checks
<1> QED BY <1>3, <1>4, <1>5

LEMMA DescribeSchemaKeepsCInv ==
  ASSUME IInv, CInv, NEW r \in Requests, DescribeSchema(r)
  PROVE  CInv'
<1>1. /\ request[r].stage = "admitted" /\ request[r].op # "notify"
      /\ UNCHANGED <<deployment, counted>>
  BY DEF DescribeSchema, Passed
<1>2. \E status : Answer(r, status, "")
  BY DEF DescribeSchema
<1>3. "" \notin ByMiddleware
  BY DEF ByMiddleware
<1> QED BY <1>1, <1>2, <1>3, OtherAnswerKeepsCInv

LEMMA NotifyKeepsCInv ==
  ASSUME IInv, CInv, NEW r \in Requests, Notify(r)
  PROVE  CInv'
<1>1. /\ request[r].stage = "admitted" /\ Goes(r, "storing")
      /\ UNCHANGED <<deployment, counted>>
  BY DEF Notify, Passed
<1>2. ~request[r].granted
  BY <1>1 DEF CInv, Uncounted
<1> QED BY <1>1, <1>2, GoesKeepsCInv DEF Stages, Waiting

LEMMA AdministerKeepsCInv ==
  ASSUME IInv, CInv, NEW r \in Requests, Administer(r)
  PROVE  CInv'
<1>1. /\ request[r].stage = "admitted" /\ request[r].op # "notify"
      /\ Answer(r, 400, "") \/ Goes(r, "erasing")
      /\ UNCHANGED <<deployment, counted>>
  BY DEF Administer, Passed, AdminOperations
<1>2. ~request[r].granted
  BY <1>1 DEF CInv, Uncounted
<1>3. "" \notin ByMiddleware
  BY DEF ByMiddleware
<1>4. CASE Answer(r, 400, "")
  BY <1>1, <1>3, <1>4, OtherAnswerKeepsCInv
<1>5. CASE Goes(r, "erasing")
  BY <1>1, <1>2, <1>5, GoesKeepsCInv DEF Stages, Waiting
<1> QED BY <1>1, <1>4, <1>5

\* Decisions of ECPDS other than a grant belong to no counter of a request.
LEMMA DecisionsOfNoKind ==
  ASSUME NEW outcome, outcome # "allow"
  PROVE  NoKind(Decision(outcome)) /\ LabelBounded(Decision(outcome))
<1>1. Decision(outcome).metric = "access" /\ Decision(outcome).outcome = outcome
  BY DEF Decision
<1>2. \A kind \in Kinds : kind.metric = "access" => kind.outcome = "allow"
  BY DEF Kinds
<1> QED BY <1>1, <1>2 DEF NoKind, Matches, LabelBounded

LEMMA OpenStreamKeepsCInv ==
  ASSUME IInv, CInv, NEW r \in Requests, OpenStream(r)
  PROVE  CInv'
<1> DEFINE p == request[r]
<1>1. /\ p.stage = "admitted" /\ p.op # "notify" /\ deployment' = deployment
  BY DEF OpenStream, Passed
<1>2. ~p.granted
  BY <1>1 DEF CInv, Uncounted
<1>3. \/ Goes(r, "opening") /\ UNCHANGED counted
      \/ Goes(r, "opening") /\ Count({Decision("admin_bypass")})
      \/ /\ ~HasChecker(settings) /\ HasPlugin(p.type) /\ p.user # {}
         /\ Answer(r, 500, "MISCONFIGURED") /\ Count({Decision("error")})
      \/ Goes(r, "checking") /\ UNCHANGED counted /\ p.user # {}
  BY DEF OpenStream
<1>4. CASE Goes(r, "opening") /\ UNCHANGED counted
  BY <1>1, <1>2, <1>4, GoesKeepsCInv DEF Stages, Waiting
<1>5. CASE Goes(r, "opening") /\ Count({Decision("admin_bypass")})
  <2>1. \E e : NoKind(e) /\ LabelBounded(e) /\ Count({e})
    BY <1>5, DecisionsOfNoKind
  <2> QED BY <1>1, <1>2, <1>5, <2>1, GoesKeepsCInv DEF Stages, Waiting
<1>6. CASE /\ p.user # {}
           /\ Answer(r, 500, "MISCONFIGURED") /\ Count({Decision("error")})
  <2>1. \E e : NoKind(e) /\ LabelBounded(e) /\ Count({e})
    BY <1>6, DecisionsOfNoKind
  <2> QED BY <1>1, <1>6, <2>1, OtherAnswerKeepsCInv
<1>7. CASE Goes(r, "checking") /\ UNCHANGED counted /\ p.user # {}
  BY <1>1, <1>2, <1>7, GoesKeepsCInv DEF Stages, Waiting
<1> QED BY <1>3, <1>4, <1>5, <1>6, <1>7

LEMMA EcpdsAnswersKeepsCInv ==
  ASSUME IInv, CInv, NEW r \in Requests, EcpdsAnswers(r)
  PROVE  CInv'
<1> DEFINE p == request[r]
<1>1. p.stage = "checking" /\ deployment' = deployment
  BY DEF EcpdsAnswers
<1>2. p.op # "notify" /\ p.user # {} /\ ~p.granted /\ p.code = "" /\ p \in Queries
  BY <1>1 DEF CInv, Uncounted, IInv
<1>3. CASE /\ request' = [request EXCEPT ![r].stage = "opening", ![r].granted = TRUE]
           /\ Count({Decision("allow")})
  <2> DEFINE q == [p EXCEPT !.stage = "opening", !.granted = TRUE]
             e == Decision("allow")
  <2>1. request' = [request EXCEPT ![r] = q] /\ Count({e})
    BY <1>3
  <2>2. q.stage = "opening" /\ q.granted /\ q.user = p.user /\ q.code = ""
    BY <1>2 DEF Queries
  <2>3. e.metric = "access" /\ e.outcome = "allow"
    BY DEF Decision
  <2> HIDE DEF q, e
  <2>4. Uncounted(q) /\ LabelBounded(e)
    BY <2>2, <2>3 DEF Uncounted, LabelBounded
  <2>5. CountedOnce(p, q, {e})
    <3> SUFFICES ASSUME NEW kind \in Kinds
                 PROVE  /\ Counts(q, kind) <=> Counts(p, kind) \/ Matches(e, kind)
                        /\ Counts(p, kind) => ~Matches(e, kind)
      BY DEF CountedOnce
    <3>1. Matches(e, kind) <=> kind.metric = "access" /\ kind.outcome = "allow"
      BY <2>3 DEF Matches
    <3> QED BY <1>1, <1>2, <2>2, <3>1, NotAnsweredYet
  <2> QED BY <1>1, <2>1, <2>2, <2>4, <2>5, CountKeepsCInv
<1>4. CASE Answer(r, 403, "FORBIDDEN") /\ Count({Decision("deny")})
  <2>1. \E e : NoKind(e) /\ LabelBounded(e) /\ Count({e})
    BY <1>4, DecisionsOfNoKind
  <2> QED BY <1>1, <1>2, <1>4, <2>1, OtherAnswerKeepsCInv
<1>5. CASE Answer(r, 503, "SERVICE_UNAVAILABLE") /\ Count({Decision("unavailable")})
  <2>1. \E e : NoKind(e) /\ LabelBounded(e) /\ Count({e})
    BY <1>5, DecisionsOfNoKind
  <2> QED BY <1>1, <1>2, <1>5, <2>1, OtherAnswerKeepsCInv
<1> QED BY <1>3, <1>4, <1>5 DEF EcpdsAnswers

LEMMA BackendStatuses ==
  /\ \A status \in {404, 500} : status # 200 /\ status \notin {401, 403}
  /\ 200 \notin {401, 403}
OBVIOUS

\* What the backend answers, and what is counted of it.
BackendCounted(r) ==
  \E status, effect, outcome :
    /\ Finishes(r, "answered", status, effect) /\ Outcome(r, outcome)
    /\ \/ status = 200 /\ outcome = "success"
       \/ status \in {404, 500} /\ outcome = "error"

LEMMA BackendAnswersKeepCInv ==
  ASSUME IInv, CInv, NEW r \in Requests, BackendSucceeds(r) \/ BackendFails(r)
  PROVE  CInv'
<1> DEFINE p == request[r]
<1>1. p.stage \in {"storing", "opening", "erasing"} /\ deployment' = deployment
  BY DEF BackendSucceeds, BackendFails
<1>2. BackendCounted(r)
  <2>1. CASE BackendSucceeds(r)
    BY <2>1, ZenonT(60) DEF BackendSucceeds, Finishes, BackendCounted
  <2>2. CASE BackendFails(r)
    <3>1. \E status \in {404, 500}, effect \in {"none", Effect(request[r].stage)} :
           Finishes(r, "answered", status, effect)
      BY <2>2, BackendFailsWith
    <3>2. Outcome(r, "error")
      BY <2>2 DEF BackendFails
    <3>4. ASSUME NEW status, NEW effect, Finishes(r, "answered", status, effect), status \in {404, 500}
          PROVE  BackendCounted(r)
      <4> SUFFICES \E st, ef, outcome :
                     /\ Finishes(r, "answered", st, ef) /\ Outcome(r, outcome)
                     /\ \/ st = 200 /\ outcome = "success"
                        \/ st \in {404, 500} /\ outcome = "error"
        BY DEF BackendCounted
      <4> WITNESS status, effect, "error"
      <4> QED BY <3>2, <3>4
    <3> QED BY <3>1, <3>4, Zenon
  <2> QED BY <2>1, <2>2
<1>3. PICK status, effect, outcome :
        /\ Finishes(r, "answered", status, effect) /\ Outcome(r, outcome)
        /\ \/ status = 200 /\ outcome = "success"
           \/ status \in {404, 500} /\ outcome = "error"
  BY <1>2 DEF BackendCounted
<1>4. PICK q : /\ request' = [request EXCEPT ![r] = q] /\ SameRequest(p, q)
               /\ q.stage = "answered" /\ q.status = status /\ q.code = p.code
  BY <1>3, FinishMoves
<1>5. q.code = "" /\ q.code \notin ByMiddleware
  BY <1>1, <1>4 DEF CInv, Uncounted, ByMiddleware
<1>6. CASE p.op = "notify"
  <2> DEFINE e == [metric |-> "notification", label |-> Label(p.type), outcome |-> outcome]
  <2>1. e.metric = "notification" /\ e.label = Label(p.type) /\ e.outcome = outcome
    OBVIOUS
  <2>2. Count({e})
    BY <1>3, <1>6 DEF Outcome
  <2> HIDE DEF e
  <2>3. e.outcome = NotificationStatus(q)
    <3>1. CASE status = 200 /\ outcome = "success"
      <4>1. q.status = 200
        BY <1>4, <3>1
      <4>2. q.status \notin {401, 403}
        BY <4>1, BackendStatuses
      <4>3. q.code # "UNKNOWN_EVENT_TYPE"
        BY <1>5
      <4>4. NotificationStatus(q) = "success"
        BY <4>1, <4>2, <4>3 DEF NotificationStatus
      <4> QED BY <2>1, <3>1, <4>4
    <3>2. CASE status \in {404, 500} /\ outcome = "error"
      <4>1. q.status # 200 /\ q.status \notin {401, 403}
        BY <1>4, <3>2, BackendStatuses
      <4>2. q.code # "UNKNOWN_EVENT_TYPE"
        BY <1>5
      <4> QED BY <2>1, <3>2, <4>1, <4>2 DEF NotificationStatus
    <3> QED BY <1>3, <3>1, <3>2
  <2>4. CountedOnce(p, q, {e})
    BY <1>1, <1>4, <1>5, <1>6, <2>1, <2>3, NotificationCountedOnce DEF SameRequest
  <2>5. LabelBounded(e)
    BY <2>1, LabelIsBounded
  <2> QED BY <1>1, <1>4, <2>2, <2>4, <2>5, AnsweredIsUncounted, CountKeepsCInv
<1>7. CASE p.op # "notify"
  <2>1. UNCHANGED counted
    BY <1>3, <1>7, CountingNothing DEF Outcome
  <2>2. CountedOnce(p, q, {})
    BY <1>1, <1>4, <1>5, <1>7, OtherCountedOnce DEF SameRequest
  <2> QED BY <1>1, <1>4, <2>1, <2>2, AnsweredIsUncounted, CountKeepsCInv
<1> QED BY <1>6, <1>7

\* Whoever leaves counts for nothing more.
LEMMA DisconnectKeepsCInv ==
  ASSUME IInv, CInv, NEW r \in Requests, Disconnect(r)
  PROVE  CInv'
<1> DEFINE p == request[r]
<1>1. p.stage \in Waiting /\ UNCHANGED <<deployment, counted>>
  BY DEF Disconnect
<1>2. PICK effect : request' = [request EXCEPT ![r].stage = "gone", ![r].effect = effect]
  BY DEF Disconnect
<1> DEFINE q == [p EXCEPT !.stage = "gone", !.effect = effect]
<1>3. p \in Queries /\ p.stage # "answered" /\ p.code = ""
  BY <1>1 DEF IInv, CInv, Uncounted, Waiting
<1>4. q.stage = "gone" /\ q.user = p.user /\ q.granted = p.granted /\ q.code = ""
  BY <1>3 DEF Queries
<1>5. request' = [request EXCEPT ![r] = q]
  BY <1>2
<1> HIDE DEF q
<1>6. Uncounted(q)
  BY <1>4 DEF Uncounted
<1>7. CountedOnce(p, q, {})
  BY <1>3, <1>4, NotAnsweredYet DEF CountedOnce
<1> QED BY <1>1, <1>4, <1>5, <1>6, <1>7, CountKeepsCInv

LEMMA InitEstablishesCInv ==
  ASSUME Init
  PROVE  CInv
<1>1. counted = [e \in {} |-> 1] /\ DOMAIN counted = {}
  BY DEF Init, EmptyBag, SetToBag
<1>2. IsABag(counted)
  BY <1>1 DEF IsABag
<1>3. \A r \in Requests : request[r] = NoRequest
  BY DEF Init
<1>4. Uncounted(NoRequest) /\ NoRequest.stage = "none"
  BY DEF NoRequest, Uncounted
<1>5. ASSUME NEW kind \in Kinds
      PROVE  Increments(kind.metric, kind.outcome) = {} /\ CountedRequests(kind) = {}
  <2>1. Increments(kind.metric, kind.outcome) = {}
    BY <1>1 DEF Increments, BagToSet
  <2>2. CountedRequests(kind) = {}
    BY <1>3, <1>4, CountedHaveArrived DEF CountedRequests
  <2> QED BY <2>1, <2>2
<1>6. {r \in Requests : request[r].stage # "none"} = {}
  BY <1>3, <1>4
<1> QED BY <1>1, <1>2, <1>3, <1>4, <1>5, <1>6, FS_EmptySet DEF CInv, Counted, BagToSet

LEMMA SameKeepsCInv ==
  ASSUME CInv, UNCHANGED <<deployment, request, counted>>
  PROVE  CInv'
<1>1. schemas' = schemas
  BY DEF schemas, settings
<1>2. \A kind \in Kinds : /\ Increments(kind.metric, kind.outcome)' = Increments(kind.metric, kind.outcome)
                         /\ CountedRequests(kind)' = CountedRequests(kind)
  BY DEF Increments, BagToSet, CountedRequests, Counts, ReachedHandler, NotificationStatus, FailureStatus
<1> QED BY <1>1, <1>2 DEF CInv, Counted, BagToSet, LabelBounded, Uncounted

LEMMA NextKeepsCInv ==
  ASSUME IInv, CInv, [Next]_vars
  PROVE  CInv'
<1>1. CASE Start \/ UNCHANGED vars
  BY <1>1, SameKeepsCInv DEF Start, vars
<1>2. ASSUME NEW r \in Requests,
             \/ Arrive(r) \/ Authenticate(r) \/ AuthOTronAnswers(r) \/ Refuse(r)
             \/ DescribeSchema(r) \/ Notify(r) \/ Administer(r) \/ OpenStream(r)
             \/ EcpdsAnswers(r) \/ BackendSucceeds(r) \/ BackendFails(r) \/ Disconnect(r)
      PROVE  CInv'
  BY <1>2, ArriveKeepsCInv, AuthenticateKeepsCInv, AuthOTronAnswersKeepsCInv, RefuseKeepsCInv,
     DescribeSchemaKeepsCInv, NotifyKeepsCInv, AdministerKeepsCInv, OpenStreamKeepsCInv,
     EcpdsAnswersKeepsCInv, BackendAnswersKeepCInv, DisconnectKeepsCInv
<1> QED BY <1>1, <1>2 DEF Next

LEMMA CInvHolds == Spec => []CInv
<1>1. Init => CInv
  BY InitEstablishesCInv
<1>2. IInv /\ CInv /\ [Next]_vars => CInv'
  BY NextKeepsCInv
<1> QED BY <1>1, <1>2, InvHolds, PTL DEF Spec

\* Every answered notification, every user, every refusal of the middleware and every
\* grant of ECPDS is counted exactly once, under the status its client saw and a
\* label of the settings, by any number of requests and however they interleave.
THEOREM CountersAgree == Spec => []RequestsCounted
<1>1. CInv => RequestsCounted
  <2> SUFFICES ASSUME CInv PROVE RequestsCounted
    OBVIOUS
  <2>1. ASSUME NEW metric, NEW outcome, [metric |-> metric, outcome |-> outcome] \in Kinds
        PROVE  Counted(metric, outcome) =
                 Cardinality({r \in Requests : Counts(request[r], [metric |-> metric, outcome |-> outcome])})
    BY <2>1 DEF CInv, CountedRequests
  <2>2. ASSUME NEW outcome \in {"success", "rejected", "error"}
        PROVE  Counted("notification", outcome) =
                 Cardinality({r \in Requests : /\ request[r].op = "notify" /\ ReachedHandler(request[r])
                                               /\ NotificationStatus(request[r]) = outcome})
    <3> DEFINE kind == [metric |-> "notification", outcome |-> outcome]
    <3>1. kind \in Kinds /\ kind.metric = "notification" /\ kind.outcome = outcome
      BY DEF Kinds
    <3>2. \A q : Counts(q, kind) <=> /\ q.op = "notify" /\ ReachedHandler(q)
                                    /\ NotificationStatus(q) = outcome
      BY <3>1 DEF Counts
    <3> QED BY <2>1, <3>1, <3>2
  <2>3. Counted("auth", "success") = Cardinality({r \in Requests : request[r].user # {}})
    <3> DEFINE kind == [metric |-> "auth", outcome |-> "success"]
    <3>1. kind \in Kinds /\ kind.metric = "auth" /\ kind.outcome = "success"
      BY DEF Kinds
    <3>2. \A q : Counts(q, kind) <=> q.user # {}
      BY <3>1 DEF Counts, Reasons
    <3> QED BY <2>1, <3>1, <3>2
  <2>4. ASSUME NEW reason \in Reasons
        PROVE  Counted("auth", reason) =
                 Cardinality({r \in Requests : /\ request[r].stage = "answered" /\ request[r].user = {}
                                               /\ request[r].code \in ByMiddleware
                                               /\ request[r].status = FailureStatus(reason)})
    <3> DEFINE kind == [metric |-> "auth", outcome |-> reason]
    <3>1. kind \in Kinds /\ kind.metric = "auth" /\ kind.outcome = reason /\ reason # "success"
      BY DEF Kinds, Reasons
    <3>2. \A q : Counts(q, kind) <=> /\ q.stage = "answered" /\ q.user = {}
                                    /\ q.code \in ByMiddleware /\ q.status = FailureStatus(reason)
      BY <3>1 DEF Counts
    <3> QED BY <2>1, <3>1, <3>2
  <2>5. Counted("access", "allow") = Cardinality({r \in Requests : request[r].granted})
    <3> DEFINE kind == [metric |-> "access", outcome |-> "allow"]
    <3>1. kind \in Kinds /\ kind.metric = "access" /\ kind.outcome = "allow"
      BY DEF Kinds
    <3>2. \A q : Counts(q, kind) <=> q.granted
      BY <3>1 DEF Counts
    <3> QED BY <2>1, <3>1, <3>2
  <2>6. \A e \in BagToSet(counted) :
          e.metric = "notification" => e.label \in DOMAIN schemas \cup {"generic", "unknown"}
    BY DEF CInv, LabelBounded
  <2> QED BY <2>2, <2>3, <2>4, <2>5, <2>6 DEF RequestsCounted, NumberOf, Reasons
<1> QED BY <1>1, CInvHolds, PTL

\* The type invariant: requests are where Application::build and the handlers put them,
\* with a user at most, and the counters are a bag.
THEOREM TypeCorrect == Spec => []TypeOK
<1> DEFINE PhaseOK == phase \in {"starting", "serving", "refused"}
<1>1. Init => PhaseOK
  BY DEF Init
<1>2. PhaseOK /\ [Next]_vars => PhaseOK'
  <2> SUFFICES ASSUME PhaseOK, [Next]_vars
               PROVE  PhaseOK'
    OBVIOUS
  <2>1. CASE Start
    BY <2>1 DEF Start
  <2>2. CASE ~Start
    <3>1. phase' = phase
      BY <2>2, ZenonT(60) DEF Next, vars, Arrive, Authenticate, AuthOTronAnswers, Refuse, DescribeSchema,
         Notify, Administer, OpenStream, EcpdsAnswers, BackendSucceeds, BackendFails, Disconnect
    <3> QED BY <3>1
  <2> QED BY <2>1, <2>2
<1>3. IInv /\ CInv /\ PhaseOK => TypeOK
  <2> SUFFICES ASSUME IInv, CInv, PhaseOK, NEW r \in Requests
               PROVE  /\ request[r].op \in Operations /\ request[r].path \in Spellings
                      /\ request[r].stage \in {"none", "arrived", "admitted", "answered", "gone"} \cup Waiting
                      /\ request[r].status \in {0, 200, 400, 401, 403, 404, 500, 503}
                      /\ request[r].effect \in {"none", "stored", "opened", "erased"}
                      /\ Cardinality(request[r].user) <= 1
    BY DEF TypeOK, IInv, CInv
  <2>1. request[r] \in Queries
    BY DEF IInv
  <2>2. Cardinality(request[r].user) \in {0, 1}
    <3>1. request[r].user = {} \/ \E user : request[r].user = {user}
      BY DEF IInv, Secure
    <3> QED BY <3>1, FS_EmptySet, FS_Singleton
  <2>3. Cardinality(request[r].user) <= 1
    BY <2>2
  <2> QED BY <2>1, <2>3, ZenonT(60) DEF Queries, Stages, Statuses, Effects
<1> HIDE DEF PhaseOK
<1> QED BY <1>1, <1>2, <1>3, InvHolds, CInvHolds, PTL DEF Spec
=============================================================================
