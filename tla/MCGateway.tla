------------------------------- MODULE MCGateway -------------------------------
(***************************************************************************)
(* Instances of Gateway for TLC: a public event type, one with roles and   *)
(* one that ECPDS guards, under settings that are accepted and copies of   *)
(* them with one setting wrong.                                            *)
(***************************************************************************)
EXTENDS Gateway

MCStreamName == [mars |-> "MARS", obs |-> "OBS", diss |-> "DISS", other |-> "OTHER"]

MCEventTypes == {"mars", "obs", "diss", "other", "not.a.base"}

User(realm, roles) == [realm |-> realm, roles |-> roles]

\* An administrator, somebody of a realm, of a realm with a role, of a realm that
\* nobody lists and of none.
MCUsers ==
  {User({"ecmwf"}, {"admin"}), User({"ecmwf"}, {}), User({"ecmwf"}, {"writer"}),
   User({"guests"}, {"admin"}), User({}, {"admin", "writer"})}

Text == [type |-> "StringHandler", required |-> TRUE, max_length |-> {}]
Area == [type |-> "PolygonHandler", required |-> FALSE]

Schema(base, identifier, auth) ==
  [EventSchema(identifier) EXCEPT
     !.topic = {[base |-> base, key_order |-> <<"name">>]}, !.auth = auth]

Public == [mars |-> [Schema("mars", [name |-> Text, polygon |-> Area], {})
                       EXCEPT !.payload_required = TRUE]]

Roles(required, read, write) ==
  {[StreamAuth(required) EXCEPT !.read_roles = read, !.write_roles = write]}

Obs(auth) == Public @@ [obs |-> Schema("obs", [name |-> Text], auth)]

Diss(required, read, plugins) ==
  Public @@ [diss |-> Schema("diss", [name |-> Text],
    {[StreamAuth(required) EXCEPT !.read_roles = read, !.plugins = {plugins}]})]

NoAuth(schema) == [DefaultSettings EXCEPT !.schema = schema]

Direct(schema) ==
  [NoAuth(schema) EXCEPT
     !.auth = [AuthSettings EXCEPT !.enabled = TRUE, !.auth_o_tron_url = "https",
                                   !.jwt_secret = "secret", !.admin_roles = [ecmwf |-> {"admin"}]]]

Proxy(schema) ==
  [Direct(schema) EXCEPT !.auth.mode = "trusted_proxy", !.auth.auth_o_tron_url = ""]

Ecpds(deployed) == [deployed EXCEPT !.ecpds = {EcpdsSettings("name")}]

Writers == {[ecmwf |-> {"writer"}]}
Everyone == {[ecmwf |-> {"*"}]}

AllDeployments ==
  <<NoAuth(Public),
    [NoAuth(Public) EXCEPT !.strict = {FALSE}],
    Direct(Obs(Roles(TRUE, {}, {}))),
    Direct(Obs(Roles(TRUE, Everyone, Writers))),
    [Proxy(Obs(Roles(TRUE, {}, Everyone))) EXCEPT !.strict = {FALSE}],
    Proxy(Obs(Roles(TRUE, Writers, {}))),
    Ecpds(Direct(Diss(TRUE, {}, {"ecpds"}))),
    Ecpds(Proxy(Diss(TRUE, Everyone, {"ecpds"}))),
    \* Refused.
    NoAuth(Obs(Roles(TRUE, {}, {}))),
    Direct(Obs(Roles(FALSE, Writers, {}))),
    Direct(Obs(Roles(TRUE, {<<>>}, {}))),
    Direct(Obs(Roles(TRUE, {[ecmwf |-> {" "}]}, {}))),
    [Direct(Public) EXCEPT !.auth.auth_o_tron_url = ""],
    [Direct(Public) EXCEPT !.auth.jwt_secret = ""],
    [Direct(Public) EXCEPT !.auth.admin_roles = <<>>],
    [Direct(Public) EXCEPT !.metrics = [enabled |-> TRUE, port |-> {8000}]],
    Ecpds(Direct(Diss(FALSE, {}, {"ecpds"}))),
    Ecpds(Direct(Diss(TRUE, {}, {}))),
    Direct(Diss(TRUE, {}, {"ecpds"}))>>

MCDeployments == AllDeployments
=============================================================================
