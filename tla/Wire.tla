-------------------------------- MODULE Wire --------------------------------
(***************************************************************************)
(* A column from its declaration to the bytes a client decodes             *)
(* (column_types.rs, pgwire_handler/encoding.rs, wire_types.rs): the Arrow *)
(* type a declared type is planned as, the PostgreSQL type it is advertised*)
(* as, who writes a cell in each format, and the two values VaireDB spells *)
(* out itself: numeric and interval.                                       *)
(*                                                                         *)
(* A declaration is its words, what its parentheses hold, the words after  *)
(* them and its number of [] suffixes.  A cell's value is small, wide (no  *)
(* int8 holds it), raw (bytes that are no text) or null.                   *)
(***************************************************************************)
EXTENDS Integers, Sequences, FiniteSets

CONSTANTS None, Refused

-----------------------------------------------------------------------------
(* column_types.rs.                                                        *)

\* Declared::parse, array_element and split_parameters.
Declared(decl) ==
  [base |-> decl.words \o decl.trailing, parameters |-> decl.parameters, depth |-> decl.dims]

IsArray(d) == d.depth > 0

\* Declared::length: only a positive number is one.
Length(d) ==
  IF Len(d.parameters) = 1 /\ d.parameters[1] # None /\ d.parameters[1] > 0
  THEN d.parameters[1] ELSE None

Arrow(k) == [k |-> k, scale |-> 0]
Decimal(k, scale) == [k |-> k, scale |-> scale]

\* decimal_type: DECIMAL is the shard's (18,3), DECIMAL(p) has scale 0, and what
\* Arrow cannot hold falls back to the default.
DecimalType(parameters) ==
  CASE parameters = <<>> -> Decimal("Decimal128", 3)
    [] Len(parameters) = 1 /\ parameters[1] \in 1 .. 38 -> Decimal("Decimal128", 0)
    [] Len(parameters) >= 2 /\ parameters[1] \in 1 .. 38 /\ parameters[2] \in 0 .. 38
         /\ parameters[2] <= parameters[1] -> Decimal("Decimal128", parameters[2])
    [] OTHER -> Decimal("Decimal128", 3)

Temporal == {<<"TIMESTAMP">>, <<"TIMESTAMP", "WITHOUT TIME ZONE">>}

\* scalar_data_type.
ScalarDataType(d) ==
  CASE d.base \in {<<"INTEGER">>, <<"INT">>}   -> Arrow("Int32")
    [] d.base = <<"BIGINT">>                   -> Arrow("Int64")
    [] d.base = <<"SMALLINT">>                 -> Arrow("Int16")
    [] d.base = <<"TINYINT">>                  -> Arrow("Int8")
    [] d.base = <<"UINTEGER">>                 -> Arrow("UInt32")
    [] d.base = <<"UBIGINT">>                  -> Decimal("Decimal128", 0)
    [] d.base = <<"BOOLEAN">>                  -> Arrow("Boolean")
    [] d.base = <<"DOUBLE">>                   -> Arrow("Float64")
    [] d.base \in {<<"BLOB">>, <<"VARBINARY">>} -> Arrow("Binary")
    [] d.base \in Temporal                     -> Arrow("Timestamp")
    [] d.base = <<"TIMESTAMP", "WITH TIME ZONE">> -> Arrow("TimestampTz")
    [] d.base = <<"INTERVAL">>                 -> Arrow("Interval")
    [] d.base = <<"DECIMAL">>                  -> DecimalType(d.parameters)
    [] OTHER                                   -> Arrow("Utf8")

\* parse_data_type: one List per suffix.
RECURSIVE ListOf(_, _)
ListOf(type, depth) == IF depth = 0 THEN type ELSE [k |-> "List", of |-> ListOf(type, depth - 1)]

ParseDataType(d) == ListOf(ScalarDataType(d), d.depth)

\* pg_type_of.
PgTypeOf(d) ==
  CASE d.base \in {<<"JSON">>, <<"JSONB">>}     -> "json"
    [] d.base = <<"UUID">>                      -> "uuid"
    [] d.base \in {<<"CHAR">>, <<"BPCHAR">>}    -> "bpchar"
    [] d.base \in {<<"VARCHAR">>, <<"CHAR", "VARYING">>} -> "varchar"
    [] OTHER                                    -> None

VARHDRSZ == 4

\* pg_declared_type, with PostgreSQL's modifier: the length and its header.
PgDeclaredType(d) ==
  IF IsArray(d) \/ PgTypeOf(d) = None THEN None
  ELSE [type   |-> PgTypeOf(d),
        typmod |-> IF PgTypeOf(d) \in {"bpchar", "varchar"} /\ Length(d) # None
                   THEN Length(d) + VARHDRSZ ELSE -1]

\* column_field: the declaration travels as metadata where it says more than
\* the Arrow type.
ColumnField(d) ==
  [type |-> ParseDataType(d), declared |-> IF PgDeclaredType(d) = None THEN None ELSE d]

\* field_declared_type.
FieldDeclaredType(field) == IF field.declared = None THEN None ELSE PgDeclaredType(field.declared)

\* is_declared_text: DuckDB compares it as text.
IsDeclaredText(d) ==
  ~IsArray(d) /\ (PgTypeOf(d) \in {"bpchar", "varchar"} \/ d.base = <<"TEXT">>)

\* unserviceable_type_reason: CREATE TABLE and ADD COLUMN refuse these, and
\* arrays of them.
UnserviceableType(d) ==
  d.base \in {<<"HUGEINT">>, <<"UHUGEINT">>, <<"BIT">>, <<"BIGNUM">>, <<"UNION">>, <<"VARIANT">>,
              <<"MAP">>, <<"TIME", "WITH TIME ZONE">>}

-----------------------------------------------------------------------------
(* Describing and encoding a result.                                       *)

\* wire_type, for a type that cannot be sent as itself.
WireType(type) ==
  CASE type.k = "UInt64" -> Arrow("Int64")
    [] type.k \in {"LargeList", "FixedSizeList"} -> [k |-> "List", of |-> type.of]
    [] OTHER -> type

\* wire_schema: a converted field is a new one, without metadata.
WireField(field) ==
  IF WireType(field.type) = field.type THEN field
  ELSE [type |-> WireType(field.type), declared |-> None]

IsString(type) == type.k \in {"Utf8", "LargeUtf8", "Utf8View"}

\* declared_pg_type: only a string array is what its declaration says.
DeclaredPgType(field) ==
  IF IsString(field.type) /\ FieldDeclaredType(field) # None
  THEN FieldDeclaredType(field).type ELSE None

\* arrow_pg::field_into_pg_type.
ArrowPgType(type) ==
  CASE type.k \in {"Int8", "Int16", "UInt8"} -> "int2"
    [] type.k \in {"Int32", "UInt16"}        -> "int4"
    [] type.k \in {"Int64", "UInt32"}        -> "int8"
    [] type.k \in {"UInt64", "Decimal128"}   -> "numeric"
    [] type.k = "Boolean"                    -> "bool"
    [] type.k = "Float64"                    -> "float8"
    [] type.k = "Binary"                     -> "bytea"
    [] type.k = "Timestamp"                  -> "timestamp"
    [] type.k = "TimestampTz"                -> "timestamptz"
    [] type.k = "Interval"                   -> "interval"
    [] type.k = "List"                       -> "array"
    [] IsString(type)                        -> "text"
    [] OTHER                                 -> "unknown"

\* pg_type.
PgType(field) ==
  CASE field.type.k = "Decimal256"  -> "numeric"
    [] DeclaredPgType(field) # None -> DeclaredPgType(field)
    [] OTHER                        -> ArrowPgType(field.type)


\* own_kind: whose bytes VaireDB writes itself in the binary format.
OwnKind(field) ==
  CASE field.type.k \in {"Decimal128", "Decimal256"} -> "numeric"
    [] DeclaredPgType(field) = "uuid"                -> "uuid"
    [] OTHER                                         -> None

WritesAnyOwnValue(fields) == \E i \in DOMAIN fields : OwnKind(fields[i]) # None

\* coerce_batch_for_wire: the checked cast of a column to its wire type.
CoerceForWire(type, value) ==
  IF WireType(type) # type /\ value = "wide" THEN Refused ELSE value

\* is_null_on_the_wire asks the logical nulls, which a NullArray also has.
IsNullOnTheWire(value) == value = "null"

\* One cell: the format's text, VaireDB's own bytes, or arrow-pg's.
Body(field, value, format, own) ==
  CASE format = "text" /\ field.type.k # "List" ->
         IF IsNullOnTheWire(value) THEN "null" ELSE "text"
    [] own /\ format = "binary" /\ OwnKind(field) # None ->
         IF IsNullOnTheWire(value) THEN "null" ELSE OwnKind(field)
    [] OTHER -> IF value = "null" THEN "null"
                ELSE IF format = "text" THEN "text" ELSE ArrowPgType(field.type)

Sent(wire, value, format, own) ==
  IF value = Refused THEN Refused
  ELSE [oid |-> PgType(wire), body |-> Body(wire, value, format, own)]

\* encode_batches_response, for the cell of one column of a result.
EncodeCell(field, value, format) ==
  Sent(WireField(field), CoerceForWire(field.type, value), format,
       WritesAnyOwnValue(<<WireField(field)>>))

-----------------------------------------------------------------------------
(* PostgreSQL's numeric, from a decimal's unscaled digits and its scale.   *)

GROUP == 4

Zeros(n) == [i \in 1 .. n |-> 0]

Padding(len) == (GROUP - (len % GROUP)) % GROUP
PadStart(digits) == Zeros(Padding(Len(digits))) \o digits
PadEnd(digits) == digits \o Zeros(Padding(Len(digits)))

\* grouped: four decimal digits are one of base 10000.
Grouped(padded) ==
  [g \in 1 .. Len(padded) \div GROUP |->
     1000 * padded[4 * g - 3] + 100 * padded[4 * g - 2] + 10 * padded[4 * g - 1] + padded[4 * g]]

Integral(spelled, scale) ==
  CASE scale <= 0           -> spelled \o Zeros(-scale)
    [] Len(spelled) > scale -> SubSeq(spelled, 1, Len(spelled) - scale)
    [] OTHER                -> <<0>>

Fractional(spelled, scale) ==
  CASE scale <= 0           -> <<>>
    [] Len(spelled) > scale -> SubSeq(spelled, Len(spelled) - scale + 1, Len(spelled))
    [] OTHER                -> Zeros(scale - Len(spelled)) \o spelled

\* How many zero groups a number starts with, and how many it ends with.
LeadingZeros(groups) ==
  CHOOSE n \in 0 .. Len(groups) :
    /\ \A i \in 1 .. n : groups[i] = 0
    /\ n < Len(groups) => groups[n + 1] # 0

TrailingZeros(groups) ==
  CHOOSE n \in 0 .. Len(groups) :
    /\ \A i \in 1 .. n : groups[Len(groups) + 1 - i] = 0
    /\ n < Len(groups) => groups[Len(groups) - n] # 0

PgNumeric(neg, groups, weight, leading, dscale) ==
  IF leading = Len(groups)
  THEN [neg |-> neg, digits |-> <<>>, weight |-> 0, dscale |-> dscale]
  ELSE [neg |-> neg, digits |-> SubSeq(groups, leading + 1, Len(groups) - TrailingZeros(groups)),
        weight |-> weight - leading, dscale |-> dscale]

NumericOf(neg, integral, fractional, dscale) ==
  PgNumeric(neg, integral \o fractional, Len(integral) - 1,
            LeadingZeros(integral \o fractional), dscale)

\* from_unscaled: both sides are grouped from the point outwards.
FromUnscaled(neg, spelled, scale) ==
  NumericOf(neg, Grouped(PadStart(Integral(spelled, scale))),
            Grouped(PadEnd(Fractional(spelled, scale))), IF scale > 0 THEN scale ELSE 0)

\* group_at: zero where the number carries no such group.
GroupAt(n, exponent) ==
  IF n.weight - exponent \in 0 .. Len(n.digits) - 1 THEN n.digits[n.weight - exponent + 1] ELSE 0

Digits(group) == <<group \div 1000, (group \div 100) % 10, (group \div 10) % 10, group % 10>>

DigitsBelow(n, from, count) ==
  [i \in 1 .. 4 * count |-> Digits(GroupAt(n, from - (i - 1) \div 4))[((i - 1) % 4) + 1]]

Bare(digits) == SubSeq(digits, LeadingZeros(digits) + 1, Len(digits))

\* to_text: the sign, the integral digits, and dscale fractional ones.
ToText(n) ==
  [neg  |-> n.neg,
   int  |-> IF n.weight < 0 \/ Bare(DigitsBelow(n, n.weight, n.weight + 1)) = <<>> THEN <<0>>
            ELSE Bare(DigitsBelow(n, n.weight, n.weight + 1)),
   frac |-> SubSeq(DigitsBelow(n, -1, (n.dscale + 3) \div 4), 1, n.dscale)]

-----------------------------------------------------------------------------
(* Intervals: months, days and a time, which is a sign, whole seconds and  *)
(* the nanoseconds below them.                                             *)

\* Rust's integer division and remainder, which truncate.
Quotient(a, b) == IF a >= 0 THEN a \div b ELSE -((-a) \div b)
Remainder(a, b) == a - b * Quotient(a, b)

NoTime == [neg |-> FALSE, secs |-> 0, nanos |-> 0]

\* interval_parts: each of Arrow's layouts as its widest.
IntervalParts(layout, v) ==
  CASE layout = "YearMonth" -> [months |-> v.months, days |-> 0, time |-> NoTime]
    [] layout = "DayTime"   -> [months |-> 0, days |-> v.days, time |-> v.time]
    [] OTHER                -> v

\* interval_sql_literal: what a shard's engine is handed.
IntervalSqlLiteral(p) ==
  [months |-> p.months, days |-> p.days,
   time |-> [p.time EXCEPT !.nanos = (@ \div 1000) * 1000]]

Part(value, unit, afterNegative) ==
  IF value = 0 THEN <<>>
  ELSE <<[value |-> value, unit |-> unit, plus |-> afterNegative /\ value > 0]>>

\* The sign of the last field written decides whether the next needs its own.
AfterNegative(parts) == parts # <<>> /\ parts[Len(parts)].value < 0

Then(parts, value, unit) == parts \o Part(value, unit, AfterNegative(parts))

DateParts(p) ==
  Then(Then(Part(Quotient(p.months, 12), "year", FALSE), Remainder(p.months, 12), "mon"),
       p.days, "day")

TimePart(time, afterNegative) ==
  [neg |-> time.neg, plus |-> ~time.neg /\ afterNegative, hours |-> time.secs \div 3600,
   minutes |-> (time.secs % 3600) \div 60, seconds |-> time.secs % 60,
   micros |-> time.nanos \div 1000]

\* postgres_interval_text.
PostgresIntervalText(p) ==
  [date |-> DateParts(p),
   time |-> IF p.time # NoTime \/ DateParts(p) = <<>>
            THEN TimePart(p.time, AfterNegative(DateParts(p))) ELSE None]
=============================================================================
