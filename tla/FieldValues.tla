------------------------------ MODULE FieldValues ------------------------------
(***************************************************************************)
(* Values of identifier fields: what the handlers of aviso-validators make *)
(* of the values clients send, constraint objects, and geometry.  At the   *)
(* end, what a value means, whatever its spelling, as the reference the    *)
(* rest is compared with.                                                  *)
(*                                                                         *)
(* A text is a sequence of atoms: the characters reserved in subjects are  *)
(* atoms of their own, and a run of other characters is one.  A value is a *)
(* record with the form in which a client may write it:                    *)
(*   word     a text, with its lower case                                  *)
(*   empty    the empty string                                             *)
(*   digits   an integer, with a sign and a number of digits               *)
(*   decimal  a number with one decimal                                    *)
(*   colon    hours and minutes with a colon                               *)
(*   iso      a date with hyphens; ordinal: a year and a day of it         *)
(*   ring     a list of positions; position: a pair of coordinates         *)
(*   object   a constraint: operators with their operands                  *)
(* and the JSON type it has where more than one is possible.  Floating     *)
(* point numbers are counted in tenths.  A result is a set of at most one  *)
(* element, empty for an error.                                            *)
(***************************************************************************)
EXTENDS Integers, Sequences, FiniteSets, SequencesExt, TLC

CONSTANTS
  Numbers,     \* the integers and tenths that occur in topics
  Places       \* the positions <<latitude, longitude>> geometry is told apart by

Reserved == {".", "*", ">", "%"}

Wildcard == <<"*">>

When(condition, value) == IF condition THEN {value} ELSE {}

\* What a client can write: words are made of atoms, the rest of numbers.
ScalarForms == {"word", "empty", "digits", "decimal", "colon", "iso", "ordinal"}

\* Geometry may be written as a text as well, which any field can hold.
IsScalar(v) == v.form \in ScalarForms \/ (v.form \in {"ring", "position"} /\ v.json = "string")

ValidValue(v) ==
  /\ v.form \in ScalarForms \cup {"ring", "position", "object"}
  /\ v.form = "word" => v.text \in Seq(STRING) /\ v.lower \in Seq(STRING)

\* Decimal texts.  Rust keeps the sign of a negative zero.
NumberOfDigits(n) ==
  IF n = 0 THEN 1 ELSE CHOOSE w \in 1..9 : 10^(w - 1) <= n /\ n < 10^w

Padded(n, width) ==
  LET zeros == <<"", "0", "00", "000", "0000">>
      missing == width - NumberOfDigits(n)
  IN IF missing <= 0 THEN ToString(n) ELSE zeros[missing + 1] \o ToString(n)

Minus(negative) == IF negative THEN "-" ELSE ""

IntText(n) == <<ToString(n)>>

FloatText(negative, tenths) ==
  LET whole == Minus(negative) \o ToString(tenths \div 10)
  IN IF tenths % 10 = 0 THEN <<whole>> ELSE <<whole, ".", ToString(tenths % 10)>>

-----------------------------------------------------------------------------
(* Scalars, one operator per handler.                                       *)

Text(v) ==
  CASE v.form = "word" -> v.text
    [] v.form = "empty" -> <<>>
    [] v.form = "digits" -> <<v.sign \o Padded(v.value, v.width)>>
    [] v.form = "decimal" ->
         <<v.sign \o ToString(v.tenths \div 10), ".", ToString(v.tenths % 10)>>
    [] v.form = "colon" -> <<Padded(v.hours, v.width) \o ":" \o Padded(v.minutes, 2)>>
    [] v.form = "iso" ->
         <<Padded(v.year, 4) \o "-" \o Padded(v.month, 2) \o "-" \o Padded(v.day, 2)>>
    [] v.form = "ordinal" -> <<Padded(v.year, 4) \o "-" \o Padded(v.day, 3)>>
    [] v.form = "ring" -> <<ToString(v.positions)>>
    [] v.form = "position" -> <<ToString(v.at)>>

Lower(v) == IF v.form = "word" THEN v.lower ELSE Text(v)

Length(text) == FoldLeft(LAMBDA n, atom : n + Len(atom), 0, text)

Signed(v) == IF v.sign = "-" THEN -v.value ELSE v.value

InRange(range, n) == \A r \in range : r[1] <= n /\ n <= r[2]

StringHandler(rule, v) ==
  When(Text(v) # <<>> /\ \A n \in rule.max_length : Length(Text(v)) <= n, Text(v))

EnumHandler(rule, v) ==
  When(\E allowed \in rule.values : Lower(allowed) = Lower(v), Lower(v))

ExpverText(v) ==
  IF v.form = "digits" /\ v.sign # "-" THEN <<Padded(v.value, 4)>> ELSE Lower(v)

ExpverHandler(rule, v) ==
  IF v.form = "empty" THEN {ExpverText(d) : d \in rule.default} ELSE {ExpverText(v)}

IntHandler(rule, v) ==
  When(v.form = "digits" /\ InRange(rule.range, Signed(v)), IntText(Signed(v)))

Tenths(v) == IF v.form = "digits" THEN 10 * v.value ELSE v.tenths

FloatHandler(rule, v) ==
  When(/\ v.form \in {"digits", "decimal"}
       /\ InRange(rule.range, IF v.sign = "-" THEN -Tenths(v) ELSE Tenths(v)),
       FloatText(v.sign = "-", Tenths(v)))

TimeText(hours, minutes) ==
  When(hours <= 23 /\ minutes <= 59, <<Padded(hours, 2) \o Padded(minutes, 2)>>)

\* One or two digits are hours, four are hours and minutes.
TimeHandler(v) ==
  IF v.form = "colon" THEN TimeText(v.hours, v.minutes)
  ELSE IF v.form = "digits" /\ v.sign = "" /\ v.width <= 2 THEN TimeText(v.value, 0)
  ELSE IF v.form = "digits" /\ v.sign = "" /\ v.width = 4
    THEN TimeText(v.value \div 100, v.value % 100)
  ELSE {}

Leap(y) == y % 4 = 0 /\ (y % 100 # 0 \/ y % 400 = 0)

DaysOfMonth(y) ==
  <<31, IF Leap(y) THEN 29 ELSE 28, 31, 30, 31, 30, 31, 31, 30, 31, 30, 31>>

DaysBefore(y) ==
  [m \in 1..13 |-> FoldLeft(LAMBDA total, days : total + days, 0,
                            SubSeq(DaysOfMonth(y), 1, m - 1))]

Date(y, m, d) == When(m \in 1..12 /\ d >= 1 /\ d <= DaysOfMonth(y)[m], <<y, m, d>>)

OrdinalDate(y, day) ==
  {<<y, m, day - DaysBefore(y)[m]>> :
     m \in {k \in 1..12 : DaysBefore(y)[k] < day /\ day <= DaysBefore(y)[k + 1]}}

ParseDate(v) ==
  IF v.form = "iso" THEN Date(v.year, v.month, v.day)
  ELSE IF v.form = "digits" /\ v.sign = "" /\ v.width = 8
    THEN Date(v.value \div 10000, (v.value \div 100) % 100, v.value % 100)
  ELSE IF v.form = "ordinal" THEN OrdinalDate(v.year, v.day)
  ELSE {}

DateText(format, date) ==
  LET separator == IF format = "%Y-%m-%d" THEN "-" ELSE ""
  IN <<Padded(date[1], 4) \o separator \o Padded(date[2], 2) \o separator
       \o Padded(date[3], 2)>>

DateHandler(rule, v) ==
  {DateText(rule.canonical_format, date) :
     date \in IF rule.canonical_format \in {"%Y%m%d", "%Y-%m-%d"} THEN ParseDate(v) ELSE {}}

-----------------------------------------------------------------------------
(* Geometry.                                                                *)

ValidCoordinate(p) == p[1] \in -90..90 /\ p[2] \in -180..180

Positions(v) == ToSet(v.positions)

\* A point is a pair, written as an array or as a string.
PointHandler(v) == When(v.form = "position" /\ ValidCoordinate(v.at), v.at)

PolygonHandler(v) ==
  When(/\ v.form = "ring" /\ \A p \in Positions(v) : ValidCoordinate(p)
       /\ Len(v.positions) >= 4
       /\ v.positions[1] = Last(v.positions),
       v.positions)

\* Clouds are arrays.  The limit of their size as text is left out.
PointCloudHandler(max_points, v) ==
  When(/\ v.form = "ring" /\ v.json = "array"
       /\ v.positions # <<>> /\ Len(v.positions) <= max_points
       /\ \A p \in Positions(v) : ValidCoordinate(p),
       v.positions)

Geometry(rule, v) ==
  IF rule.type = "PolygonHandler" THEN PolygonHandler(v) ELSE PointCloudHandler(rule.max_points, v)

Bounds(S) ==
  [min |-> CHOOSE n \in S : \A k \in S : n <= k, max |-> CHOOSE n \in S : \A k \in S : n >= k]

BoundingBox(positions) ==
  [lat |-> Bounds({p[1] : p \in ToSet(positions)}), lon |-> Bounds({p[2] : p \in ToSet(positions)})]

Overlap(a, b) == a.min <= b.max /\ b.min <= a.max

BoxesIntersect(a, b) == Overlap(a.lat, b.lat) /\ Overlap(a.lon, b.lon)

BoxContains(box, p) ==
  /\ box.lat.min <= p[1] /\ p[1] <= box.lat.max
  /\ box.lon.min <= p[2] /\ p[2] <= box.lon.max

\* The geometry library, for convex rings whose corners are among the places.
Side(a, b, p) == (b[2] - a[2]) * (p[1] - a[1]) - (b[1] - a[1]) * (p[2] - a[2])

Covers(ring, p) ==
  LET side(i) == Side(ring[i], ring[i + 1], p)
  IN \/ \A i \in 1..(Len(ring) - 1) : side(i) >= 0
     \/ \A i \in 1..(Len(ring) - 1) : side(i) <= 0

Inside(ring, p) ==
  Covers(ring, p) /\ \A i \in 1..(Len(ring) - 1) : Side(ring[i], ring[i + 1], p) # 0

RingsIntersect(a, b) == \E p \in Places : Covers(a, p) /\ Covers(b, p)

-----------------------------------------------------------------------------

ScalarHandlers ==
  {"StringHandler", "DateHandler", "EnumHandler", "ExpverHandler", "IntHandler", "FloatHandler",
   "TimeHandler"}

\* The rules of a schema name a handler; a default version is a scalar.
ValidRule(rule) ==
  /\ rule.type \in ScalarHandlers \cup {"PolygonHandler", "PointCloudHandler"}
  /\ rule.type = "ExpverHandler" =>
       \A d \in rule.default : ValidValue(d) /\ d.form \in ScalarForms

\* validate_and_canonicalize_field: the text of a field, {} when it is refused.
\* Arrays and objects are no scalars.
Canonical(rule, v) ==
  IF rule.type \in {"PolygonHandler", "PointCloudHandler"}
    THEN {<<ToString(g)>> : g \in Geometry(rule, v)}
  ELSE IF ~IsScalar(v) THEN {}
  ELSE CASE rule.type = "StringHandler" -> StringHandler(rule, v)
         [] rule.type = "DateHandler" -> DateHandler(rule, v)
         [] rule.type = "EnumHandler" -> EnumHandler(rule, v)
         [] rule.type = "ExpverHandler" -> ExpverHandler(rule, v)
         [] rule.type = "IntHandler" -> IntHandler(rule, v)
         [] rule.type = "FloatHandler" -> FloatHandler(rule, v)
         [] rule.type = "TimeHandler" -> TimeHandler(v)

-----------------------------------------------------------------------------
(* Constraint objects.                                                      *)

Comparisons == {"eq", "gt", "gte", "lt", "lte"}

\* Of one item of an operand: its number, its tenths, or its text in lower case.
Operand(type, item) ==
  CASE type = "IntHandler" -> When(item.json = "number" /\ item.form = "digits", Signed(item))
    [] type = "FloatHandler" ->
         When(item.json = "number", IF item.sign = "-" THEN -Tenths(item) ELSE Tenths(item))
    [] type = "EnumHandler" -> When(item.json = "string", Lower(item))

\* Exactly one operator, its operand of the right shape, and every number in the
\* range of the field, or every text among the values of the enum.
ParseConstraint(rule, v) ==
  LET type == rule.type
      op == CHOOSE o \in DOMAIN v.operators : TRUE
      operand == v.operators[op]
      items == operand.items
      parsed == [i \in DOMAIN items |-> Operand(type, items[i])]
      numbers == [i \in DOMAIN items |-> CHOOSE n \in parsed[i] : TRUE]
      allowed(n) ==
        IF type = "EnumHandler" THEN n \in {Lower(w) : w \in rule.values} ELSE InRange(rule.range, n)
  IN IF /\ type \in {"IntHandler", "FloatHandler", "EnumHandler"}
        /\ Cardinality(DOMAIN v.operators) = 1
        /\ op \in IF type = "EnumHandler" THEN {"eq", "in"} ELSE Comparisons \cup {"in", "between"}
        /\ operand.array <=> op \in {"in", "between"}
        /\ op = "in" => items # <<>>
        /\ op = "between" => Len(items) = 2
        /\ \A i \in DOMAIN items : parsed[i] # {}
     THEN When(/\ \A i \in DOMAIN items : allowed(numbers[i])
               /\ op = "between" => numbers[1] <= numbers[2],
               [type |-> type, op |-> op, operands |-> numbers])
     ELSE {}

Compare(op, n, operands) ==
  CASE op = "eq" -> n = operands[1]
    [] op = "in" -> n \in ToSet(operands)
    [] op = "gt" -> n > operands[1]
    [] op = "gte" -> n >= operands[1]
    [] op = "lt" -> n < operands[1]
    [] op = "lte" -> n <= operands[1]
    [] op = "between" -> operands[1] <= n /\ n <= operands[2]

\* The text of a topic is parsed back for a comparison.  Texts of enums are in
\* lower case already.
ParsedText(type, text) ==
  CASE type = "IntHandler" -> {n \in Numbers : IntText(n) = text}
    [] type = "FloatHandler" ->
         {n \in Numbers : \/ n >= 0 /\ FloatText(FALSE, n) = text
                          \/ n <= 0 /\ FloatText(TRUE, -n) = text}
    [] type = "EnumHandler" -> {text}

MatchesConstraint(constraint, text) ==
  \E n \in ParsedText(constraint.type, text) : Compare(constraint.op, n, constraint.operands)

-----------------------------------------------------------------------------
(* What an accepted value means: the reference.                             *)

DayNumber(date) == date[1] * 366 + DaysBefore(date[1])[date[2]] + date[3]

Meaning(rule, v) ==
  CASE rule.type = "StringHandler" -> Text(v)
    [] rule.type = "EnumHandler" -> Lower(v)
    [] rule.type = "ExpverHandler" ->
         LET w == IF v.form = "empty" THEN CHOOSE d \in rule.default : TRUE ELSE v
         IN IF w.form = "digits" /\ w.sign # "-" THEN <<"number", w.value>>
            ELSE <<"text", Lower(w)>>
    [] rule.type = "IntHandler" -> Signed(v)
    [] rule.type = "FloatHandler" -> IF v.sign = "-" THEN -Tenths(v) ELSE Tenths(v)
    [] rule.type = "TimeHandler" ->
         (CASE v.form = "colon" -> 60 * v.hours + v.minutes
            [] v.form = "digits" ->
                 IF v.width <= 2 THEN 60 * v.value
                 ELSE 60 * (v.value \div 100) + (v.value % 100))
    [] rule.type = "DateHandler" ->
         (CASE v.form = "iso" -> DayNumber(<<v.year, v.month, v.day>>)
            [] v.form = "ordinal" -> v.year * 366 + v.day
            [] v.form = "digits" ->
                 DayNumber(<<v.value \div 10000, (v.value \div 100) % 100, v.value % 100>>))

\* The exception to "as it means, so it is written": zeros keep their sign.
OppositeZeros(rule, v, w) ==
  LET zero(x) == x.form \in {"digits", "decimal"} /\ Tenths(x) = 0
  IN rule.type = "FloatHandler" /\ zero(v) /\ zero(w) /\ (v.sign = "-") # (w.sign = "-")

\* An accepted constraint as a set: the operator applied to what values mean.
Admits(rule, v, meaning) ==
  LET op == CHOOSE o \in DOMAIN v.operators : TRUE
      items == v.operators[op].items
  IN Compare(op, meaning, [i \in DOMAIN items |-> Meaning(rule, items[i])])
=============================================================================
