------------------------------- MODULE MCRouting -------------------------------
(***************************************************************************)
(* Instances of Routing for TLC.  A scenario is a schema with the          *)
(* spellings that its fields may be published and asked for in; requests   *)
(* leave fields out as well.  Next to the scenarios whose settings are     *)
(* accepted there are copies with one setting wrong.                       *)
(***************************************************************************)
EXTENDS Routing

MCStreamName == [mars |-> "MARS", Mars |-> "MARS", obs |-> "OBS", area |-> "AREA",
                 cloud |-> "CLOUD", diss |-> "DISS", other |-> "OTHER"]
MCFieldOrder == <<"class", "date", "destination", "expver", "level", "name",
                  "point", "point_cloud", "polygon", "step", "time">>
MCNumbers == -30..300
MCPlaces == (0..4) \X (0..4)
MCGranted == {<<"fr">>, <<"d", "*">>}

-----------------------------------------------------------------------------
(* Spellings.                                                               *)

Word(s) == [form |-> "word", text |-> <<s>>, lower |-> <<s>>, json |-> "string"]
Upper(s, l) == [form |-> "word", text |-> <<s>>, lower |-> <<l>>, json |-> "string"]
Atoms(s) == [form |-> "word", text |-> s, lower |-> s, json |-> "string"]
Empty == [form |-> "empty", json |-> "string"]
Digits(sign, n, w) == [form |-> "digits", sign |-> sign, value |-> n, width |-> w, json |-> "string"]
Number(sign, n) ==
  [form |-> "digits", sign |-> sign, value |-> n, width |-> NumberOfDigits(n), json |-> "number"]
Decimal(sign, t, json) == [form |-> "decimal", sign |-> sign, tenths |-> t, json |-> json]
Colon(h, m, w) == [form |-> "colon", hours |-> h, minutes |-> m, width |-> w, json |-> "string"]
Iso(y, m, d) == [form |-> "iso", year |-> y, month |-> m, day |-> d, json |-> "string"]
Ordinal(y, d) == [form |-> "ordinal", year |-> y, day |-> d, json |-> "string"]
Ring(ps) == [form |-> "ring", positions |-> ps, json |-> "array"]
RingText(ps) == [form |-> "ring", positions |-> ps, json |-> "string"]
Point(p) == [form |-> "position", at |-> p, json |-> "array"]
PointText(p) == [form |-> "position", at |-> p, json |-> "string"]
Object(ops) == [form |-> "object", operators |-> ops, json |-> "object"]
One(op, v) == Object(op :> [array |-> FALSE, items |-> <<v>>])
Many(op, vs) == Object(op :> [array |-> TRUE, items |-> vs])

\* All functions that take one of the spellings of each field, on all fields or
\* on some of them.
Spelled(spellings) ==
  {f \in [DOMAIN spellings -> UNION {spellings[k] : k \in DOMAIN spellings}] :
     \A k \in DOMAIN spellings : f[k] \in spellings[k]}
Partial(spellings) ==
  UNION {Spelled([k \in K |-> spellings[k]]) : K \in SUBSET DOMAIN spellings}

Notify(type, identifiers) ==
  {[type |-> type, identifier |-> i, payload |-> TRUE, drawn |-> {}] : i \in identifiers}
Ask(type, identifiers) == {[type |-> type, identifier |-> i] : i \in identifiers}

With(schema) == [DefaultSettings EXCEPT !.schema = schema]
Topic(base, order) == {[base |-> base, key_order |-> order]}
Schema(topic, identifier) == [EventSchema(identifier) EXCEPT !.topic = topic]

Rule(type, required) == [type |-> type, required |-> required]
Ranged(type, required, range) ==
  [type |-> type, required |-> required, range |-> range]

-----------------------------------------------------------------------------
(* Fields of model data: a class, a time and a step.                        *)

MarsFields ==
  [class |-> [type |-> "EnumHandler", required |-> TRUE,
              values |-> {Upper("OD", "od"), Word("rd")}],
   time |-> Rule("TimeHandler", FALSE),
   step |-> Ranged("IntHandler", FALSE, {<<-6, 240>>})]

MarsPublished ==
  [class |-> {Word("od"), Upper("RD", "rd")},
   time |-> {Digits("", 6, 2), Colon(12, 0, 2), Colon(6, 0, 1)},
   step |-> {Number("", 6), Digits("+", 6, 3), Number("-", 6)}]

MarsAsked ==
  [class |-> {Upper("OD", "od"), Word("rd"), Many("in", <<Upper("RD", "rd"), Word("od")>>)},
   time |-> {Number("", 6), Digits("", 600, 4), Colon(6, 0, 1), Digits("", 1200, 4)},
   step |-> {Digits("", 6, 2), One("gt", Number("", 6)),
             Many("between", <<Number("-", 6), Number("", 6)>>),
             Many("in", <<Number("", 6), Number("", 240)>>)}]

\* Refused: values and constraints a handler does not take.
MarsRefused ==
  [class : {Word("ea"), Word("od"), One("gt", Word("od"))},
   time : {Colon(24, 0, 2), Digits("", 600, 3), Digits("", 60, 4)},
   step : {Number("", 241), One("lte", Number("", 241)), Many("in", <<>>),
           Many("between", <<Number("", 6), Number("", 0)>>), Decimal("", 60, "number"),
           One("gt", Digits("", 6, 1))}]

Mars(base, order) == With([mars |-> Schema(Topic(base, order), MarsFields)])

MarsScenario(s) ==
  [settings |-> s, notifications |-> Notify("mars", Spelled(MarsPublished) \cup MarsRefused),
   requests |-> Ask("mars", Partial(MarsAsked) \cup MarsRefused)]

Twice == [mars |-> Schema(Topic("mars", <<"class", "time", "step">>), MarsFields),
          other |-> Schema(Topic("Mars", <<"class", "time", "step">>), MarsFields)]

MarsSettings ==
  <<Mars("mars", <<"class", "time", "step">>),
   Mars("obs", <<"step", "class", "time">>),
   Mars("mars", <<"class", "step">>),               \* the time is not routed on
   Mars("mars", <<"class", "time", "time">>),
   Mars("mars", <<>>),
   Mars("not.a.base", <<"class", "time", "step">>),
   With(Twice)>>

-----------------------------------------------------------------------------
(* Observations: names with reserved characters, levels and experiments.    *)

ObsFields ==
  [name |-> [type |-> "StringHandler", required |-> TRUE, max_length |-> {6}],
   level |-> Ranged("FloatHandler", FALSE, {<<-20, 100>>}),
   expver |-> [type |-> "ExpverHandler", required |-> FALSE, default |-> {Digits("", 1, 1)}]]

ObsNames == {Atoms(<<"a", ".", "b">>), Atoms(<<"a", "%", "2E", "b">>), Word("a"), Atoms(<<"a", ">">>)}

ObsPublished ==
  [name |-> ObsNames \cup {Empty, Word("tooLong")},
   level |-> {Number("", 1), Decimal("", 15, "string"), Decimal("-", 15, "number"),
              Number("", 0), Decimal("-", 0, "number")},
   expver |-> {Empty, Digits("", 1, 4), Digits("", 2, 2), Upper("TEST", "test")}]

ObsAsked ==
  [name |-> ObsNames,
   level |-> {Decimal("", 10, "string"), Decimal("", 15, "number"), Decimal("", 0, "number"),
              Digits("-", 0, 1), One("eq", Number("", 0)), One("lt", Decimal("", 15, "number")),
              Many("between", <<Decimal("-", 15, "number"), Number("", 1)>>)},
   expver |-> {Digits("", 1, 4), Word("test"), Digits("", 2, 1)}]

ObsScenario(base, type, asked) ==
  [settings |->
     With([other |-> Schema(IF base = "" THEN {} ELSE Topic(base, <<"name", "expver", "level">>),
                            ObsFields)]),
   notifications |-> Notify(type, Spelled(ObsPublished)),
   requests |-> Ask(type, Partial(asked))]

-----------------------------------------------------------------------------
(* Areas: polygons, in the topic or not, and dates.                         *)

Square == <<<<0, 0>>, <<0, 2>>, <<2, 2>>, <<2, 0>>, <<0, 0>>>>
Corner == <<<<0, 3>>, <<0, 4>>, <<1, 4>>, <<0, 3>>>>
Slope == <<<<0, 0>>, <<4, 4>>, <<4, 0>>, <<0, 0>>>>
Far == <<<<3, 3>>, <<3, 4>>, <<4, 4>>, <<4, 3>>, <<3, 3>>>>
Open == <<<<0, 0>>, <<0, 2>>, <<2, 2>>, <<2, 0>>>>

AreaFields(required) ==
  [date |-> [type |-> "DateHandler", required |-> TRUE, canonical_format |-> "%Y-%m-%d"],
   polygon |-> Rule("PolygonHandler", required)]

AreaPublished ==
  [date |-> {Iso(2024, 2, 29), Digits("", 20240301, 8), Iso(2023, 2, 29)},
   polygon |-> {Ring(Square), RingText(Slope), Ring(Far), Ring(Open)}]

Dates == {Ordinal(2024, 60), Ordinal(2024, 61), Digits("", 20240229, 8)}

AreaAsked ==
  [date |-> Dates, polygon |-> {Ring(Square), Ring(Corner), RingText(Far), Ring(Open)}]

Points == {Point(<<1, 1>>), Point(<<2, 1>>), Point(<<3, 2>>), Point(<<91, 0>>)}

AreaScenario(order, required) ==
  [settings |-> With([area |-> Schema(Topic("area", order), AreaFields(required))]),
   notifications |-> Notify("area", Spelled(AreaPublished)),
   requests |-> Ask("area", Partial(AreaAsked) \cup
                            Partial([date |-> Dates, point |-> Points]))]

-----------------------------------------------------------------------------
(* Point clouds, filtered by polygons.                                      *)

CloudFields(max_points) ==
  [date |-> [type |-> "DateHandler", required |-> TRUE, canonical_format |-> "%Y%m%d"],
   point_cloud |-> [type |-> "PointCloudHandler", required |-> TRUE, max_points |-> max_points]]

CloudScenario(max_points) ==
  [settings |-> With([cloud |-> Schema(Topic("cloud", <<"date">>), CloudFields(max_points))]),
   notifications |->
     Notify("cloud", Spelled([date |-> Dates,
       point_cloud |-> {Ring(<<<<1, 1>>>>), Ring(<<<<0, 4>>, <<4, 0>>>>), Ring(<<<<3, 3>>, <<0, 4>>>>),
                        Ring(Far), Ring(<<>>)}])),
   requests |->
     Ask("cloud", Spelled([date |-> Dates, polygon |-> {Ring(Square), Ring(Corner), Ring(Far), Ring(Slope)}])
                  \cup Spelled([date |-> Dates])
                  \cup Spelled([date |-> Dates, point |-> {Point(<<1, 1>>)}]))]

-----------------------------------------------------------------------------
(* Dissemination: destinations are checked by ECPDS.                        *)

Destinations == {Word("fr"), Word("de"), Atoms(<<"d", "*">>)}

DestinationField(required) == [type |-> "StringHandler", required |-> required, max_length |-> {}]

DestinationValues ==
  [type |-> "EnumHandler", required |-> TRUE, values |-> {Word("fr"), Upper("DE", "de")}]

DissSettings(type, match_key, rule, plugins) ==
  [With(type :>
     [Schema(Topic("diss", <<"destination", "step">>),
             [destination |-> rule, step |-> Ranged("IntHandler", FALSE, {})]) EXCEPT
        !.auth = {[StreamAuth(TRUE) EXCEPT !.plugins = {plugins}]}])
   EXCEPT !.auth = [AuthSettings EXCEPT !.enabled = TRUE, !.auth_o_tron_url = "https",
                                        !.jwt_secret = "secret", !.admin_roles = [ecmwf |-> {"admin"}]],
          !.ecpds = {EcpdsSettings(match_key)}]

DissScenario(match_key, rule, plugins) ==
  [settings |-> DissSettings("diss", match_key, rule, plugins),
   notifications |->
     Notify("diss", Spelled([destination |-> Destinations \cup {Upper("FR", "fr")},
                             step |-> {Number("", 0), Number("", 24)}])),
   requests |->
     Ask("diss", Partial([destination |-> Destinations \cup {One("eq", Word("fr")), Upper("FR", "fr"),
                                                           Many("in", <<Word("fr"), Word("de")>>)},
                          step |-> {Number("", 24), One("lt", Number("", 24))}]))]

-----------------------------------------------------------------------------
(* Without strict mode event types without a schema are taken as well, and  *)
(* geometry in their fields only as a text.                                 *)

AsText == {Word("x"), RingText(Square), RingText(Far)}

GenericPlaces ==
  Notify("obs", Spelled([polygon |-> AsText \cup {Ring(Square)}]))
    \cup {[n EXCEPT !.drawn = {Square}] : n \in Notify("cloud", Spelled([point |-> {PointText(<<1, 1>>)}]))}

GenericScenario ==
  [settings |-> [Mars("mars", <<"class", "time", "step">>) EXCEPT !.strict = {FALSE}],
   notifications |-> Notify("other", Spelled([class |-> {Word("od"), Word("rd")}, step |-> {Number("", 6)}]))
                     \cup Notify("mars", Spelled(MarsPublished)) \cup GenericPlaces,
   requests |-> Ask("other", Spelled([class |-> {Word("od")}, step |-> {Number("", 6), One("lt", Number("", 7))}]))
                \cup Ask("mars", Spelled([class |-> {Word("od")}]))
                \cup Ask("obs", Spelled([polygon |-> AsText \cup {Ring(Square)}]))
                \cup Ask("area", Spelled([polygon |-> {Word("x")}, point |-> {PointText(<<1, 1>>)}]))
                \cup Ask("cloud", Spelled([point |-> {PointText(<<1, 1>>), Point(<<1, 1>>)}]))]

\* An event type without a schema that has the name of a topic base: its reader
\* needs no destination.
NamesakeScenario ==
  [settings |-> [DissSettings("dissemination", "destination", DestinationField(TRUE), {"ecpds"})
                   EXCEPT !.strict = {FALSE}],
   notifications |-> UNION {Notify(type, Spelled([destination |-> Destinations, step |-> {Number("", 24)}])) :
                            type \in {"dissemination", "diss"}},
   requests |-> Ask("dissemination", Spelled([destination |-> Destinations]))
                \cup Ask("diss", Spelled([destination |-> {Word("fr"), Word("de")}, step |-> {Number("", 24)}]))]

AllScenarios ==
  [i \in DOMAIN MarsSettings |-> MarsScenario(MarsSettings[i])]
    \o <<ObsScenario("obs", "other", ObsAsked), ObsScenario("", "other", ObsAsked),
         ObsScenario("obs", "mars", ObsAsked)>>
    \o <<AreaScenario(<<"date">>, TRUE), AreaScenario(<<"date", "polygon">>, FALSE),
         AreaScenario(<<"polygon", "date">>, TRUE), CloudScenario(0), CloudScenario(3),
         DissScenario("destination", DestinationField(TRUE), {"ecpds"}),
         DissScenario("destination", DestinationValues, {"ecpds"}),
         DissScenario("destination", DestinationField(FALSE), {"ecpds"}),
         DissScenario("polygon", DestinationField(TRUE), {"ecpds"}),
         DissScenario("destination", DestinationField(TRUE), {"opds"}),
         GenericScenario, NamesakeScenario>>

MCScenarios == AllScenarios

\* The conditions of the theorems hold here: they exclude none of these inputs.
ASSUME ConditionsHold ==
  /\ Wildcard \notin Granted
  /\ NoBlankValues /\ CanonicalFaithful /\ AskedFaithful /\ BoxesFaithful
  /\ TopiclessPlain /\ GenericsAlike
=============================================================================
