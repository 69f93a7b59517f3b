------------------------------- MODULE MCWire -------------------------------
(***************************************************************************)
(* The pure parts between a client's text and its result, each over a      *)
(* small set of inputs: how a query string is parsed (Parsing), how a      *)
(* column is described and encoded (Wire), how a result's columns are      *)
(* named (Labels), how a failure is reported (Errors), what the date       *)
(* functions answer (Calendar), which bytes a text spells (Bytea), what an *)
(* expression is planned as (Expressions).  A behaviour examines one       *)
(* input.                                                                  *)
(***************************************************************************)
EXTENDS Integers, Sequences, FiniteSets, TLC

CONSTANTS None, Refused

VARIABLES part, item, seen

P == INSTANCE Parsing
W == INSTANCE Wire
L == INSTANCE Labels
E == INSTANCE Errors
C == INSTANCE Calendar WITH UsecsPerSec <- 2, NanosPerUsec <- 10, IntSpan <- 128, LongSpan <- 2^22
B == INSTANCE Bytea
X == INSTANCE Expressions

-----------------------------------------------------------------------------
(* Statements.                                                             *)

Statement(kind, collate, null, sub, any, notin, meta, contains, literal, divergent) ==
  [kind |-> kind, collate |-> collate, null |-> null, sub |-> sub, any |-> any, notin |-> notin,
   meta |-> meta, contains |-> contains, literal |-> literal, divergent |-> divergent]

Reads ==
  {Statement(kind, collate, null, sub, any, notin, meta, contains, literal, FALSE) :
     kind \in {"query", "explain"}, collate \in BOOLEAN, null \in BOOLEAN, sub \in {"none", "kept"},
     any \in {"none", "eq_any", "ne_all"}, notin \in {"none", "plain"}, meta \in BOOLEAN,
     contains \in BOOLEAN, literal \in BOOLEAN}

Writes ==
  {Statement(kind, collate, FALSE, sub, any, notin, FALSE, FALSE, FALSE, divergent) :
     kind \in {"insert", "merge", "drop table", "create view", "drop view", "set"},
     collate \in BOOLEAN, sub \in {"none", "kept"}, any \in {"none", "ne_all"},
     notin \in {"none", "plain"}, divergent \in BOOLEAN}

Plain == Statement("query", FALSE, FALSE, "none", "none", "plain", FALSE, FALSE, FALSE, FALSE)

\* A second statement of the same string.
Beside ==
  {Plain, [Plain EXCEPT !.collate = TRUE], [Plain EXCEPT !.literal = TRUE],
   [Plain EXCEPT !.sub = "kept"], [Plain EXCEPT !.any = "ne_all"], [Plain EXCEPT !.kind = "insert"],
   [Plain EXCEPT !.kind = "insert", !.divergent = TRUE]}

Options(args) ==
  {[name |-> name, arg |-> arg] : name \in {"ANALYZE", "VERBOSE", "BUFFERS"}, arg \in args}

Explains ==
  {[alias |-> alias, relation |-> relation, other |-> other, query |-> query, analyze |-> analyze,
    verbose |-> FALSE] :
     alias \in {"explain", "describe"}, relation \in BOOLEAN, other \in BOOLEAN,
     query \in BOOLEAN, analyze \in BOOLEAN}

OptionLists ==
  {<<>>} \cup {<<o>> : o \in Options({"", "off", "maybe"})}
  \cup {<<o, p>> : o \in Options({"", "off"}), p \in Options({"", "off"})}

-----------------------------------------------------------------------------
(* Columns.                                                                *)

Decl(words, parameters, trailing, dims) ==
  [words |-> words, parameters |-> parameters, trailing |-> trailing, dims |-> dims]

Bases ==
  {"INTEGER", "INT", "BIGINT", "SMALLINT", "TINYINT", "UINTEGER", "UBIGINT", "BOOLEAN", "DOUBLE",
   "BLOB", "VARBINARY", "INTERVAL", "JSON", "JSONB", "UUID", "TEXT", "HUGEINT", "UHUGEINT", "BIT",
   "BIGNUM", "MAP"}

Decls ==
  {Decl(<<b>>, <<>>, <<>>, dims) : b \in Bases, dims \in 0 .. 1}
  \cup {Decl(<<b>>, ps, <<>>, dims) : b \in {"CHAR", "VARCHAR"}, ps \in {<<>>, <<0>>, <<64>>, <<None>>},
                                      dims \in 0 .. 1}
  \cup {Decl(<<"CHAR">>, ps, <<"VARYING">>, 0) : ps \in {<<>>, <<64>>}}
  \cup {Decl(<<"DECIMAL">>, ps, <<>>, dims) : ps \in {<<>>, <<10>>, <<10, 2>>, <<2, 10>>, <<39, 0>>},
                                              dims \in 0 .. 2}
  \cup {Decl(<<"TIMESTAMP">>, ps, tail, 0) :
          ps \in {<<>>, <<6>>}, tail \in {<<>>, <<"WITH TIME ZONE">>, <<"WITHOUT TIME ZONE">>}}
  \cup {Decl(<<"TIME">>, ps, <<"WITH TIME ZONE">>, 0) : ps \in {<<>>, <<3>>}}

\* What a shard's engine hands over for a declared type: the Arrow type, and
\* whether it can be read as the type the coordinator planned.
ShardValue(d, value) ==
  CASE value # "wide" /\ value # "raw" -> value
    [] d.base = <<"UBIGINT">> /\ value = "wide" -> "wide"
    [] d.base \in {<<"BLOB">>, <<"VARBINARY">>} /\ value = "raw" -> "raw"
    [] d.base \in {<<"BIT">>, <<"BIGNUM">>} -> "null"
    [] d.base \in {<<"HUGEINT">>, <<"UHUGEINT">>} -> "truncated"
    [] OTHER -> value

\* The values a column of a declared type can hold.
ValuesOf(d) ==
  {"small", "null"}
  \cup (IF d.base \in {<<"UBIGINT">>, <<"HUGEINT">>, <<"UHUGEINT">>} THEN {"wide"} ELSE {})
  \cup (IF d.base \in {<<"BLOB">>, <<"VARBINARY">>, <<"BIT">>, <<"BIGNUM">>} THEN {"raw"} ELSE {})

\* PostgreSQL's name for a declared type it has, or for the nearest one.
Promised(d) ==
  CASE d.depth > 0 -> "array"
    [] d.base \in {<<"INTEGER">>, <<"INT">>} -> "int4"
    [] d.base \in {<<"BIGINT">>, <<"UINTEGER">>} -> "int8"
    [] d.base \in {<<"SMALLINT">>, <<"TINYINT">>} -> "int2"
    [] d.base \in {<<"UBIGINT">>, <<"DECIMAL">>} -> "numeric"
    [] d.base = <<"BOOLEAN">> -> "bool"
    [] d.base = <<"DOUBLE">> -> "float8"
    [] d.base \in {<<"BLOB">>, <<"VARBINARY">>} -> "bytea"
    [] d.base = <<"INTERVAL">> -> "interval"
    [] d.base \in {<<"JSON">>, <<"JSONB">>} -> "json"
    [] d.base = <<"UUID">> -> "uuid"
    [] d.base = <<"CHAR">> -> "bpchar"
    [] d.base \in {<<"VARCHAR">>, <<"CHAR", "VARYING">>} -> "varchar"
    [] d.base \in {<<"TIMESTAMP">>, <<"TIMESTAMP", "WITHOUT TIME ZONE">>} -> "timestamp"
    [] d.base = <<"TIMESTAMP", "WITH TIME ZONE">> -> "timestamptz"
    [] OTHER -> "text"

\* The binary bodies a client told the type can decode.
Decodes(oid, body) ==
  \/ body \in {oid, "null"}
  \/ body = "text" /\ oid \in {"text", "json", "varchar", "bpchar"}

\* Columns an expression computes.
Computed ==
  {[type |-> W!Arrow(k), declared |-> None] :
     k \in {"UInt8", "UInt16", "UInt64", "Decimal256", "Utf8View", "Null"}}
  \cup {[type |-> [k |-> k, of |-> W!Arrow("Int64")], declared |-> None] :
          k \in {"List", "LargeList", "FixedSizeList"}}

-----------------------------------------------------------------------------
(* Numbers and intervals.                                                  *)

Spelled ==
  {<<0>>} \cup {<<d>> \o rest : d \in {1, 9},
                  rest \in {<<>>, <<0>>, <<5>>, <<0, 0, 0>>, <<0, 0, 7>>, <<0, 0, 0, 0>>, <<2, 3, 4, 5, 6>>,
                            <<0, 0, 0, 0, 0, 0, 1>>, <<0, 0, 0, 0, 0, 0, 0, 0>>, <<9, 9, 9, 9, 9, 9, 9>>}}

Scales == -5 .. 10

\* The digit a scaled decimal has at a power of ten.
DigitAt(spelled, scale, power) ==
  IF power + scale \in 0 .. Len(spelled) - 1 THEN spelled[Len(spelled) - (power + scale)] ELSE 0

\* Whole powers of ten of four, without truncation of the negative ones.
PowerOfGroup(power) == IF power >= 0 THEN power \div 4 ELSE -((3 - power) \div 4)

DigitOf(n, power) ==
  W!Digits(W!GroupAt(n, PowerOfGroup(power)))[4 - (power - 4 * PowerOfGroup(power))]

Canonical(n) ==
  IF n.digits = <<>> THEN n.weight = 0
  ELSE n.digits[1] # 0 /\ n.digits[Len(n.digits)] # 0

Times == {[neg |-> neg, secs |-> s, nanos |-> n] :
            neg \in BOOLEAN, s \in {0, 59, 3661, 90000}, n \in {0, 999, 1000, 123456789}}
         \ {[neg |-> TRUE, secs |-> 0, nanos |-> 0]}

Intervals == {[months |-> m, days |-> d, time |-> t] :
                m \in {-25, -12, -1, 0, 1, 11, 13, 24}, d \in {-31, -1, 0, 1, 40}, t \in Times}

Total(date, unit) ==
  LET i == {j \in DOMAIN date : date[j].unit = unit}
  IN IF i = {} THEN 0 ELSE date[CHOOSE j \in i : TRUE].value

\* What PostgreSQL reads an interval's text as.
ReadBack(text) ==
  [months |-> 12 * Total(text.date, "year") + Total(text.date, "mon"),
   days   |-> Total(text.date, "day"),
   time   |-> IF text.time = None THEN W!NoTime
              ELSE [neg |-> text.time.neg,
                    secs |-> 3600 * text.time.hours + 60 * text.time.minutes + text.time.seconds,
                    nanos |-> 1000 * text.time.micros]]

-----------------------------------------------------------------------------
(* Projections.                                                            *)

Expr(k, name, inner) == [k |-> k, name |-> name, inner |-> inner]
Column(name) == Expr("column", name, None)
Call(name) == Expr("call", name, None)
Op == Expr("op", "op", None)

Cores == {Column("a"), Column("sum"), Call("sum"), Call("variance"), Op, Expr("duckdb", "x -> x", None)}

Exprs ==
  Cores \cup {Expr("nested", "()", e) : e \in Cores}
  \cup {Expr("cast", type, e) : type \in {"int", "hugeint", "bytea"}, e \in Cores}
  \cup {Expr("cast", "bytea", Expr("cast", "text", e)) : e \in Cores}
  \cup {Expr("case", "case", e) : e \in {None, Column("a"), Op}}
  \cup {Expr("field", name, Column("a")) : name \in {None, "sum"}}
  \cup {Expr("subquery", None, Call("variance")), Expr("subquery", "sum", Op), Expr("subquery", None, None),
        Call("statement_timestamp")}

Unaliased(e) == [k |-> "expr", expr |-> e]
Aliased(name, lower, e) == [k |-> "aliased", alias |-> name, lower |-> lower, expr |-> e]
Star(columns) == [k |-> "wildcard", columns |-> columns]

Items ==
  {Unaliased(e) : e \in {Column("a"), Call("sum"), Op, Expr("field", None, Column("a")),
                         Expr("cast", "int", Column("a")), Call("variance")}}
  \cup {Aliased("sum", "sum", Op), Aliased("Sum", "sum", Op), Aliased("?column?", "?column?", Call("sum")),
        Star(<<"a">>), Star(<<"a", "b">>)}

RECURSIVE Core(_)
Core(e) == IF e.k \in {"nested", "cast", "case"} /\ e.inner # None THEN Core(e.inner)
           ELSE IF e.k \in {"field", "subquery"} /\ e.name = None /\ e.inner # None THEN Core(e.inner)
           ELSE e

RECURSIVE Outermost(_)
Outermost(e) == IF e.k = "nested" THEN Outermost(e.inner) ELSE e

\* The label by its definition: the name at the heart of the casts, CASEs and
\* subscripts, or else the outermost of the wrappers' own.
Expected(e) ==
  CASE Core(e).k \in {"column", "call"} -> Core(e).name
    [] Core(e).k \in {"field", "subquery"} /\ Core(e).name # None -> Core(e).name
    [] Outermost(e).k = "cast" -> IF Outermost(e).name = "int" THEN "int4" ELSE Outermost(e).name
    [] Outermost(e).k = "case" -> "case"
    [] Core(e).k = "op" -> "?column?"
    [] OTHER -> None

\* The names a client is owed for an item, where PostgreSQL has them.
ExpectedNames(i) ==
  CASE i.k = "aliased" -> <<i.alias>>
    [] i.k = "wildcard" -> i.columns
    [] OTHER -> <<Expected(i.expr)>>

Query(items, view, body) ==
  [items |-> items, view |-> view, body |-> body, from |-> <<>>, joinsUserData |-> FALSE,
   meaningless |-> FALSE, canonical |-> FALSE]

-----------------------------------------------------------------------------
(* Failures.                                                               *)

\* The words a variant is raised with.
Raised ==
  [Plan |-> {"aggregates nested", "window function", "not supported", "no field named", "table",
             "not found", "cannot cast", "type mismatch"},
   Execution |-> {"divide by zero", "overflow", "cannot cast", "string", "error parsing", "hex digit",
                  "nth_value offset"},
   Sql |-> {"unexpected token"}, Schema |-> {"no field named"}, NotImplemented |-> {"window function"},
   ResourcesExhausted |-> {"memory limit"}, Io |-> {"connection", "refused"}, Internal |-> {},
   Configuration |-> {}, ExecutionJoin |-> {}, Substrait |-> {"not supported"}, ParquetError |-> {}]

Text(head, words, tag, refusal, layers) ==
  [head |-> head, words |-> words, tag |-> tag, refusal |-> refusal, layers |-> layers]

Prose(v) == <<[v |-> v, structural |-> FALSE, says |-> {}]>>

Leaf(v, text) == [v |-> v, text |-> text, inner |-> None]

Leaves ==
  UNION {{Leaf(v, Text(None, words, None, None, prose)) :
            words \in {w \in SUBSET Raised[v] : Cardinality(w) <= 2}, prose \in {<<>>, Prose("Plan")}} :
         v \in DOMAIN Raised}
  \cup {Leaf("Arrow", Text(head, {}, None, None, <<>>)) :
          head \in {"DivideByZero", "ArithmeticOverflow", "ParseError", "NotYetImplemented", "SchemaError",
                    "ComputeError"}}
  \cup {Leaf("Arrow", Text("CastError", {"cannot cast", "string"}, None, None, <<>>))}
  \cup {Leaf("Execution", Text(None, words, tag, None, <<>>)) :
          words \in {{}, {"overflow"}}, tag \in {"NumericValueOutOfRange", "DivisionByZero"}}
  \cup {Leaf("NotImplemented", Text(None, {}, None, refusal, <<>>)) :
          refusal \in {"AggregateFunction", "WindowFunction", "Column"}}

Failures == Leaves \cup {[v |-> "Context", text |-> Text(None, {}, None, None, <<>>), inner |-> e] : e \in Leaves}

\* Two scheduler hops put the whole of an error in another's message.
Hops(e, spelling) == {E!Render(e, spelling), E!Render(Leaf("Execution", E!Render(e, "debug")), spelling)}

MessageLayers == {"status", "prefix", "tag", "debug", "signature", "frame", "executor", "address"}

-----------------------------------------------------------------------------
(* Dates and bytes.                                                        *)

Civil(y, m, d, time) == [year |-> y, month |-> m, day |-> d, time |-> time]

Moments ==
  {c \in {Civil(y, m, d, time) : y \in {3, 4}, m \in {1, 2, 3, 4, 12}, d \in {1, 15, 28, 29, 30, 31},
                                time \in {0, 1, C!UsecsPerDay - 1}} :
     C!IsDate(c.year, c.month, c.day)}

Spans ==
  {C!Interval(m, d, time) :
     m \in {-2, -1, 0, 1, 2}, d \in {-61, -31, -30, -29, -1, 0, 1, 29, 30, 31, 61},
     time \in {-C!UsecsPerDay - 1, -C!UsecsPerDay, -1, 0, 1, C!UsecsPerDay, 2 * C!UsecsPerDay + 1}}

\* The days of the years about the era's start, and the dates no year has.
Dates ==
  {[year |-> y, month |-> m, day |-> d] :
     y \in {-2, -1, 0, 1, 4}, m \in {0, 1, 2, 12, 13}, d \in {0, 1, 28, 29, 30, 31, 32}}

Clocks == {[hour |-> h, min |-> m, sec |-> s] :
             h \in {-1, 0, 23, 24, 25}, m \in {-1, 0, 59, 60}, s \in {-2, -1, 0, 1, 119, 120, 121, 122}}

Counts == {-32, -3, -1, 0, 1, 2, 3, 31}

Alphabet == {B!Backslash, B!Space, 48, 52, 97, 120}

Texts == UNION {[1 .. n -> Alphabet] : n \in 0 .. 5}

-----------------------------------------------------------------------------
(* Windows, calls, patterns and subscripts.                                *)

Ident(value, quoted) == [value |-> value, quoted |-> quoted]
Small == Ident("w", FALSE)
Other == Ident("v", FALSE)
References == {Small, Ident("W", FALSE), Ident("W", TRUE), Other}

Specs(named) == {X!Window(n, p, o, f) : n \in named, p \in BOOLEAN, o \in BOOLEAN, f \in BOOLEAN}

Define(name, spec) == [name |-> name, spec |-> spec]

WindowLists ==
  {<<>>} \cup {<<Define(Small, spec)>> : spec \in Specs({None, Small})}
  \cup {<<Define(Small, first), Define(Other, second)>> :
          first \in Specs({None, Other}), second \in Specs({None} \cup References)}

Partitioned == X!Window(None, TRUE, FALSE, FALSE)

Overs ==
  {None, X!Bare(Small), X!Bare(Other), X!Over(Partitioned)}
  \cup {X!Over(X!Window(Small, FALSE, o, f)) : o \in BOOLEAN, f \in BOOLEAN}

FunctionCall(name, qualified, args, distinct, filter, nulls, within, over) ==
  [name |-> name, qualified |-> qualified, args |-> args, distinct |-> distinct, ordered |-> FALSE,
   filter |-> filter, nulls |-> nulls, within |-> within, over |-> over, render |-> FALSE]

Calls ==
  {FunctionCall(name, FALSE, <<X!Column>>, distinct, filter, nulls, FALSE, over) :
     name \in {"count", "sum", "min", "any_value", "array_agg", "json_agg", "last_value"}, distinct \in BOOLEAN,
     filter \in BOOLEAN, nulls \in {"none", "ignore"}, over \in Overs}
  \cup {FunctionCall("count", FALSE, <<X!Star>>, FALSE, filter, "none", FALSE, over) :
          filter \in BOOLEAN, over \in Overs}
  \cup {FunctionCall(name, qualified, args, FALSE, FALSE, "none", within, over) :
          name \in {"rank", "mode", "percentile_cont"}, qualified \in BOOLEAN,
          args \in {<<>>, <<X!Number("0.5")>>, <<X!Number("1.5")>>}, within \in BOOLEAN,
          over \in {None, X!Over(Partitioned)}}

Rows == UNION {[1 .. n -> [g : {1, 2}, x : {None, 1, 2}, p : BOOLEAN]] : n \in 1 .. 2}

PatternCharacters == {"a", "%", "_", "\\", "!"}

Patterns == UNION {[1 .. n -> PatternCharacters] : n \in 0 .. 4}

Subjects == UNION {[1 .. n -> PatternCharacters] : n \in 0 .. 2}

-----------------------------------------------------------------------------
Init ==
  /\ seen = FALSE
  /\ \/ part = "statement" /\ item \in Reads \cup Writes
     \/ part = "explain" /\ item \in Explains
     \/ part = "declaration" /\ item \in Decls
     \/ part = "computed" /\ item \in Computed
     \/ part = "numeric" /\ item \in Spelled
     \/ part = "interval" /\ item \in Intervals
     \/ part = "expression" /\ item \in Exprs
     \/ part = "projection" /\ item \in Items
     \/ part = "failure" /\ item \in Failures
     \/ part = "message" /\ item \in MessageLayers \X MessageLayers
     \/ part = "moment" /\ item \in Moments
     \/ part = "span" /\ item \in Spans
     \/ part = "date" /\ item \in Dates
     \/ part = "counts" /\ item \in Counts
     \/ part = "text" /\ item \in Texts
     \/ part = "windows" /\ item \in WindowLists
     \/ part = "call" /\ item \in Calls
     \/ part = "pattern" /\ item \in Patterns
     \/ part = "subscript" /\ item \in {None} \cup -4 .. 5

Next == ~seen /\ seen' = TRUE /\ UNCHANGED <<part, item>>

Spec == Init /\ [][Next]_<<part, item, seen>>

-----------------------------------------------------------------------------
(* What is checked.                                                        *)

\* A statement means what it means alone.
Alone(s) == P!ParseSql(<<s>>)

\* What a statement of a query string may become: a write its own text, a read
\* of user data nothing folded, mangled or silently stripped.
Faithful(raw, ast) ==
  IF P!WantsVerbatimAst(P!ClassifyStatement(raw.kind)) THEN ast = raw
  ELSE /\ ast.notin # "plain"
       /\ ~raw.collate
       /\ ~raw.meta => ast.sub = raw.sub /\ ast.any \in {"none", "in"}
                       /\ (raw.any = "ne_all" => ast.notin = "safe")

LastOf(options, name, keyword) ==
  LET at == {i \in DOMAIN options : options[i].name = name}
  IN IF at = {} THEN keyword
     ELSE options[CHOOSE i \in at : \A j \in at : j <= i].arg = ""

\* A query string runs as its client wrote it: each statement is prepared the
\* same beside any other, a write as its own text, a read with the subqueries,
\* ANY/ALL and NOT IN PostgreSQL's; an EXPLAIN option is honoured, the last one
\* deciding, or refused; and $n is the n-th parameter described, $10 after $2
\* (parser.rs:126-249, 803-884, introspection.rs:109-236).
ParsedAsWritten ==
  /\ part = "statement" =>
       /\ Alone(item) # Refused => Faithful(item, Alone(item)[1])
       /\ \A other \in Beside :
            IF Refused \in {Alone(item), Alone(other)}
            THEN P!ParseSql(<<item, other>>) = Refused /\ P!ParseSql(<<other, item>>) = Refused
            ELSE /\ P!ParseSql(<<item, other>>) = Alone(item) \o Alone(other)
                 /\ P!ParseSql(<<other, item>>) = Alone(other) \o Alone(item)
  /\ part = "explain" =>
       \A options \in OptionLists : \A asked \in {P!Inspection([options |-> options] @@ item)} :
         (asked # Refused /\ asked # P!Shape) =>
           /\ item.query /\ item.alias = "explain"
           /\ asked.analyze = LastOf(options, "ANALYZE", item.analyze)
           /\ asked.verbose = LastOf(options, "VERBOSE", item.verbose)
  /\ part = "explain" =>
       \A n \in 0 .. 11, planned \in BOOLEAN :
         P!GetParameterTypes([i \in 1 .. n |-> i], planned)
           = [i \in 1 .. n |-> IF planned THEN i ELSE "unknown"]

Formats == {"text", "binary"}

\* A cell arrives: under the type the client was promised, in bytes it decodes
\* as that type, NULL exactly when it is NULL.
Arrives(cell, oid, format, value) ==
  /\ cell # Refused
  /\ cell.oid = oid
  /\ format = "binary" => Decodes(cell.oid, cell.body)
  /\ cell.body = "null" <=> value = "null"

ComputedType(type) ==
  CASE type.k = "UInt8" -> "int2" [] type.k = "UInt16" -> "int4" [] type.k = "UInt64" -> "int8"
    [] type.k = "Decimal256" -> "numeric" [] type.k = "Utf8View" -> "text" [] type.k = "Null" -> "unknown"
    [] OTHER -> "array"

\* Every value of every type CREATE TABLE accepts comes back under the type it
\* was declared as, in both formats, and a computed column is refused only for
\* an unsigned value no bigint holds (column_types.rs, wire_types.rs:91-202,
\* encoding.rs:54-267).
TypesAreKept ==
  /\ part = "declaration" =>
       \A d \in {W!Declared(item)}, format \in Formats :
         ~W!UnserviceableType(d) =>
           /\ \A value \in ValuesOf(d) :
                /\ ShardValue(d, value) = value
                /\ Arrives(W!EncodeCell(W!ColumnField(d), value, format), Promised(d), format, value)
           /\ W!IsDeclaredText(d) => Promised(d) \in {"text", "varchar", "bpchar"}
  /\ part = "computed" =>
       \A value \in IF item.type.k = "Null" THEN {"null"} ELSE {"small", "null", "wide"}, format \in Formats :
         IF value = "wide" /\ item.type.k = "UInt64"
         THEN W!EncodeCell(item, value, format) = Refused
         ELSE value # "wide" =>
                Arrives(W!EncodeCell(item, value, format), ComputedType(item.type), format, value)

\* A numeric on the wire is the decimal it came from, digit by digit, in
\* PostgreSQL's canonical form and with the column's scale; an interval's text
\* reads back as the interval, to the microsecond, whatever its signs
\* (wire_types.rs:322-489, encoding.rs:381-497).
NumbersAreExact ==
  /\ part = "numeric" =>
       \A scale \in Scales, neg \in BOOLEAN : \A n \in {W!FromUnscaled(neg, item, scale)} :
         /\ Canonical(n) /\ n.neg = neg
         /\ \A power \in -12 .. 16 : DigitOf(n, power) = DigitAt(item, scale, power)
         /\ \A text \in {W!ToText(n)} :
              /\ text.int = <<0>> \/ text.int[1] # 0
              /\ Len(text.frac) = IF scale > 0 THEN scale ELSE 0
              /\ \A i \in DOMAIN text.int : text.int[i] = DigitAt(item, scale, Len(text.int) - i)
              /\ \A i \in DOMAIN text.frac : text.frac[i] = DigitAt(item, scale, -i)
  /\ part = "interval" =>
       /\ ReadBack(W!PostgresIntervalText(item)) = W!IntervalSqlLiteral(item)
       /\ \A parts \in {W!PostgresIntervalText(W!IntervalParts("DayTime", item))} :
            ReadBack(parts) = [W!IntervalSqlLiteral(item) EXCEPT !.months = 0]
       /\ \A i \in DOMAIN W!DateParts(item) :
            W!DateParts(item)[i].plus => i > 1 /\ W!DateParts(item)[i - 1].value < 0

WireLabels(i) == [c \in DOMAIN L!PlannedNames(i) |-> L!WireLabel(L!PlannedNames(i)[c])]

Owed(items, prepared) ==
  \A i \in DOMAIN items :
    None \notin {ExpectedNames(items[i])[c] : c \in DOMAIN ExpectedNames(items[i])}
      => WireLabels(prepared[i]) = ExpectedNames(items[i])

\* The planner can tell a labelled column from every other of its list, but for
\* a function named like a column of a wildcard beside it.
Distinct(prepared) ==
  \A i, j \in DOMAIN prepared : \A c \in DOMAIN L!PlannedNames(prepared[j]) :
    (i # j /\ prepared[i].k = "labelled" /\ prepared[j].k # "wildcard")
      => prepared[i].name # L!PlannedNames(prepared[j])[c]

\* A client sees PostgreSQL's label for every column, taken from what it wrote
\* and not from what is planned, in a view's body as in its own list, and the
\* labels repeated in a list stay apart in the plan (column_labels.rs,
\* parser.rs:433-511).
LabelsAreKept ==
  /\ part = "expression" =>
       \A prepared \in {L!Prepare(Query(<<Unaliased(item)>>, TRUE, <<Unaliased(item)>>), FALSE)} :
         Owed(<<Unaliased(item)>>, prepared.items) /\ Owed(<<Unaliased(item)>>, prepared.from)
  /\ part = "projection" =>
       \A second \in Items, third \in Items :
         \A prepared \in {L!Prepare(Query(<<item, second, third>>, FALSE, <<>>), FALSE).items} :
           Owed(<<item, second, third>>, prepared) /\ Distinct(prepared)

Clean(msg) == \A i \in DOMAIN msg : msg[i] \notin {"tag", "status", "signature", "address"}


\* Moments in the order of their fields.
Months(c) == 12 * c.year + c.month
InMonth(c) == (c.day - 1) * C!UsecsPerDay + c.time

\* The whole months from one moment to a later one, and what is left: a month
\* that was not whole is as long as the earlier one's.
WholeMonths(later, earlier) ==
  Months(later) - Months(earlier) - (IF InMonth(later) < InMonth(earlier) THEN 1 ELSE 0)

Left(later, earlier) ==
  InMonth(later) - InMonth(earlier)
  + (IF InMonth(later) < InMonth(earlier) THEN C!LengthOf(earlier.year, earlier.month) * C!UsecsPerDay ELSE 0)

Age(later, earlier) ==
  C!Interval(WholeMonths(later, earlier), Left(later, earlier) \div C!UsecsPerDay,
             Left(later, earlier) % C!UsecsPerDay)

Negated(i) == C!Interval(-i.months, -i.days, -i.time)
TotalOf(i) == (i.months * 30 + i.days) * C!UsecsPerDay + i.time
Magnitude(x) == IF x < 0 THEN -x ELSE x

\* The fields of a date and a time PostgreSQL has.
OnCalendar(d) == d.year # 0 /\ C!IsDate(IF d.year < 0 THEN d.year + 1 ELSE d.year, d.month, d.day)
OnClock(c) == \/ c.hour \in 0 .. 23 /\ c.min \in 0 .. 59 /\ c.sec \in 0 .. 120
              \/ c.hour = 24 /\ c.min = 0 /\ c.sec = 0

\* The pieces a bytea's text may be made of, and the byte of each.
HexCodes == {48, 52, 97}
ValueOf(c) == IF c = 97 THEN 10 ELSE c - 48
HexPieces == {<<<<c, d>>, <<16 * ValueOf(c) + ValueOf(d)>>>> : c \in HexCodes, d \in HexCodes}
             \cup {<<<<B!Space>>, <<>>>>}
EscapePieces ==
  {<<<<c>>, <<c>>>> : c \in Alphabet \ {B!Backslash}}
  \cup {<<<<B!Backslash, B!Backslash>>, <<B!Backslash>>>>}
  \cup {<<<<B!Backslash, 48, c, d>>, <<8 * (c - 48) + d - 48>>>> : c \in {48, 52}, d \in {48, 52}}

RECURSIVE Spells(_, _)
Spells(text, pieces) ==
  IF text = <<>> THEN {<<>>}
  ELSE UNION {{p[2] \o rest : rest \in Spells(SubSeq(text, Len(p[1]) + 1, Len(text)), pieces)} :
                p \in {q \in pieces : B!IsPrefix(q[1], text)}}

\* A date function answers PostgreSQL's calendar and a bytea its bytes: an age
\* counts whole months, and what is left by the earlier month's length, either
\* way round; a justified interval is as long as it was, its parts in range
\* and of one sign; a timestamp is the instant of its fields, the refused ones
\* being those no calendar or clock has; an interval of int4 fields is exact
\* or refused; a text spells what its pieces spell, or is refused
\* (age.rs:118-203, justify.rs:134-186, make_timestamp.rs:125-178,
\* make_interval.rs:96-125, bytea_in.rs:175-255).
ScalarsAreExact ==
  /\ part = "moment" =>
       \A other \in Moments :
         C!AgeOf(item, other) = IF C!Instant(item) < C!Instant(other) THEN Negated(Age(other, item))
                                ELSE Age(item, other)
  /\ part = "span" =>
       /\ \A unit \in {"hours", "days", "interval"} : TotalOf(C!Justify(item, unit)) = TotalOf(item)
       /\ Magnitude(C!Justify(item, "hours").time) < C!UsecsPerDay
       /\ Magnitude(C!Justify(item, "days").days) < 30
       /\ \A i \in {C!Justify(item, "interval")} :
            /\ Magnitude(i.days) < 30 /\ Magnitude(i.time) < C!UsecsPerDay
            /\ {i.months, i.days, i.time} \subseteq 0 .. C!UsecsPerDay
                 \/ {-i.months, -i.days, -i.time} \subseteq 0 .. C!UsecsPerDay
  /\ part = "date" =>
       \A c \in Clocks : \A at \in {C!ToMicros(item @@ c)} :
         /\ at # Refused =>
              /\ OnCalendar(item)
              /\ at[1] = C!Instant(Civil(C!Astronomical(item.year), item.month, item.day,
                                         (c.hour * 60 + c.min) * 120 + c.sec))
         /\ c.sec % 2 = 0 => (at # Refused <=> OnCalendar(item) /\ OnClock(c))
  /\ part = "counts" =>
       \A other \in Counts, n \in 1 .. 7 : \A f \in {C!FieldsAt([i \in 1 .. n |-> IF i % 2 = 1 THEN item ELSE other])} :
         C!IntervalOf(f) =
           IF /\ {f[1] * 12 + f[2], f[3] * 7 + f[4]} \subseteq -64 .. 63
              /\ 10 * (7200 * f[5] + 120 * f[6] + f[7]) \in -(2^21) .. 2^21 - 1
           THEN C!Interval(f[1] * 12 + f[2], f[3] * 7 + f[4], 7200 * f[5] + 120 * f[6] + f[7])
           ELSE Refused
  /\ part = "text" =>
       \A spelled \in {IF Len(item) >= 2 /\ item[1] = B!Backslash /\ item[2] = 120
                       THEN Spells(SubSeq(item, 3, Len(item)), HexPieces) ELSE Spells(item, EscapePieces)} :
         B!Decode(item) = IF spelled = {} THEN Refused ELSE CHOOSE bytes \in spelled : TRUE

\* The windows a specification inherits from, itself the last.
RECURSIVE Inherits(_, _)
Inherits(windows, spec) ==
  IF spec.named = None THEN <<spec>>
  ELSE LET at == {i \in DOMAIN windows : X!Folded(windows[i].name) = X!Folded(spec.named)}
       IN IF at = {} THEN <<None>>
          ELSE LET i == CHOOSE j \in at : TRUE
               IN Append(Inherits(SubSeq(windows, 1, i - 1), windows[i].spec), spec)

\* PostgreSQL's rules: a partition is the first one's, an order is given once,
\* a frame by the last.
Legal(chain) ==
  /\ None \notin {chain[i] : i \in DOMAIN chain}
  /\ \A i \in DOMAIN chain : (i > 1 => ~chain[i].partition) /\ (i < Len(chain) => ~chain[i].frame)
  /\ Cardinality({i \in DOMAIN chain : chain[i].order}) <= 1

Whole(chain) ==
  IF ~Legal(chain) THEN Refused
  ELSE X!Window(None, chain[1].partition, \E i \in DOMAIN chain : chain[i].order, chain[Len(chain)].frame)

LegalList(windows) ==
  \A i \in DOMAIN windows : Legal(Inherits(SubSeq(windows, 1, i - 1), windows[i].spec))

\* The rows a window shows the function at a row, in order.
Shown(rows, at, w) ==
  SelectSeq([i \in DOMAIN rows |-> i],
            LAMBDA i : (w.partition => rows[i].g = rows[at].g) /\ (w.order /\ ~w.frame => i <= at))

Argument(a, row) ==
  IF a.guarded /\ ~row.p THEN None ELSE IF a.k = "column" THEN row.x ELSE 1

Counted(a, row) == IF a = X!Star THEN 1 ELSE Argument(a, row)

NonNull(values) == SelectSeq(values, LAMBDA v : v # None)
Held(values) == {values[i] : i \in DOMAIN values}
Occurrences(values, v) == Cardinality({i \in DOMAIN values : values[i] = v})

\* The answers an aggregate may give, NULL being None.
Answers(name, values) ==
  CASE name = "count" -> {Len(NonNull(values))}
    [] name = "sum" -> {IF NonNull(values) = <<>> THEN None
                        ELSE Occurrences(values, 1) + 2 * Occurrences(values, 2)}
    [] name = "min" -> {IF NonNull(values) = <<>> THEN None
                        ELSE CHOOSE v \in Held(NonNull(values)) : \A u \in Held(NonNull(values)) : v <= u}
    [] name = "any_value" -> IF NonNull(values) = <<>> THEN {None} ELSE Held(NonNull(values))
    [] name \in {"array_agg", "json_agg"} -> {<<values>>}
    [] name = "last_value" -> {IF values = <<>> THEN None ELSE values[Len(values)]}

\* The values PostgreSQL aggregates: of the shown rows, those the FILTER keeps.
PostgresValues(f, w, rows, at) ==
  [i \in DOMAIN SelectSeq(Shown(rows, at, w), LAMBDA j : f.filter => rows[j].p) |->
     Counted(f.args[1], rows[SelectSeq(Shown(rows, at, w), LAMBDA j : f.filter => rows[j].p)[i]])]

\* Those DataFusion does: it drops the FILTER of a window.
PlannedValues(f, w, rows, at) ==
  PostgresValues([f EXCEPT !.filter = f.filter /\ f.over = None], w, rows, at)

\* The one WINDOW list the calls are written under.
Declared == <<Define(Small, Partitioned)>>

\* A call's window, all the rows if it has none.
WindowOf(over) ==
  IF over = None THEN X!Window(None, FALSE, FALSE, FALSE) ELSE Whole(Inherits(Declared, over.spec))

\* The one DataFusion plans: it does not read the window a specification names.
PlannedWindow(over) ==
  IF over = None \/ over.bare THEN WindowOf(over) ELSE [over.spec EXCEPT !.named = None]

\* What a call is, to PostgreSQL and to DataFusion.
Kind(f) == IF f.over # None THEN "window" ELSE IF f.within THEN "ordered set" ELSE "plain"

Aggregated(f) == f.name \notin {"rank", "mode", "percentile_cont"}

\* LIKE by its definition; a pattern its escape ends is none.
RECURSIVE Like(_, _, _)
Like(pattern, escape, text) ==
  IF pattern = <<>> THEN text = <<>>
  ELSE IF escape = <<Head(pattern)>>
       THEN /\ Len(pattern) > 1 /\ text # <<>> /\ pattern[2] = Head(text)
            /\ Like(SubSeq(pattern, 3, Len(pattern)), escape, Tail(text))
  ELSE IF Head(pattern) = "%"
       THEN \E n \in 0 .. Len(text) : Like(Tail(pattern), escape, SubSeq(text, n + 1, Len(text)))
  ELSE /\ text # <<>> /\ (Head(pattern) = "_" \/ Head(pattern) = Head(text))
       /\ Like(Tail(pattern), escape, Tail(text))

\* A pattern that ends in the middle of an escape.
RECURSIVE Dangling(_, _)
Dangling(pattern, escape) ==
  IF pattern = <<>> THEN FALSE
  ELSE IF escape = <<Head(pattern)>>
       THEN Len(pattern) = 1 \/ Dangling(SubSeq(pattern, 3, Len(pattern)), escape)
  ELSE Dangling(Tail(pattern), escape)

\* An engine's subscripts of an array of n: from the end if negative.
FromEnd(i, n) == IF i < 0 THEN n + 1 + i ELSE i
EngineElement(i, n) ==
  IF i = None THEN None ELSE IF FromEnd(i, n) \in 1 .. n THEN FromEnd(i, n) ELSE None
EngineSlice(l, u, n) ==
  IF None \in {l, u} THEN None ELSE {i \in 1 .. n : FromEnd(l, n) <= i /\ i <= FromEnd(u, n)}

\* A read means in DataFusion what it means in PostgreSQL, or is refused: a
\* window that names others has their clauses, and is refused as PostgreSQL
\* refuses it; a function sees the rows its FILTER and its window leave it, a
\* call of a name with two meanings is the one its clauses say; a pattern
\* matches the same texts under its new escape; a subscript outside an array
\* reads nothing (pg_named_windows.rs, pg_operators.rs:76-277, 308-416,
\* 605-823, pg_subscripts.rs:71-140).
MeaningIsKept ==
  /\ part = "windows" =>
       \A scope \in {X!ResolveDefinitions(item)} :
         /\ scope # Refused <=> LegalList(item)
         /\ scope # Refused =>
              \A spec \in Specs({None} \cup References) :
                X!WrittenOut(scope, spec) = IF spec.named = None THEN spec ELSE Whole(Inherits(item, spec))
  /\ (part = "call" /\ Aggregated(item)) =>
       \A planned \in {X!RewriteCall(X!ResolveDefinitions(Declared), item)} :
         IF planned = Refused
         THEN item.nulls = "ignore" \/ (item.filter /\ item.over # None) \/ WindowOf(item.over) = Refused
         ELSE WindowOf(item.over) # Refused =>
                \A rows \in Rows : \A at \in DOMAIN rows :
                  Answers(planned.name, PlannedValues(planned, PlannedWindow(planned.over), rows, at))
                    \subseteq Answers(item.name, PostgresValues(item, WindowOf(item.over), rows, at))
  /\ (part = "call" /\ ~Aggregated(item)) =>
       \A planned \in {X!RewriteCall(X!ResolveDefinitions(Declared), item)} :
         planned # Refused =>
           /\ planned.name # item.name <=> (~item.qualified /\ item.name = "rank" /\ Kind(item) = "ordered set")
           /\ ~item.qualified => (Kind(item) = "plain" => item.name = "rank" /\ item.args = <<>>)
  /\ part = "pattern" =>
       \A escape \in {<<>>, <<"\\">>, <<"!">>, <<"_">>, <<"!", "!">>} :
         \A respelled \in {X!RewriteLikeEscape(item, TRUE, escape)} :
           /\ escape # <<"\\">> => (respelled = Refused <=> Len(escape) > 1 \/ Dangling(item, escape))
           /\ respelled # Refused =>
                \A text \in Subjects : Like(respelled, <<"\\">>, text) = Like(item, escape, text)
  /\ part = "subscript" =>
       \A n \in 0 .. 3 :
         /\ EngineElement(X!ClampIndex(item), n) = IF item \in 1 .. n THEN item ELSE None
         /\ \A u \in {None} \cup -4 .. 5 :
              EngineSlice(X!ClampLowerBound(item), X!ClampUpperBound(u), n)
                = IF None \in {item, u} THEN None ELSE {i \in 1 .. n : item <= i /\ i <= u}

\* A timestamp's second may be sixty and no more, and its last hour's first
\* instant alone is twenty-four (make_timestamp.rs:162-172).
SecondsAreInRange ==
  part = "date" => \A c \in Clocks : C!ToMicros(item @@ c) # Refused => OnClock(c)

\* The same with the wrapper an error raised past the scheduler's gRPC surface
\* arrives under as well (error_enrichment.rs:404-411).
SameSqlState ==
  part = "failure" =>
    \A spelling \in {"debug", "display"}, wrapper \in {"Execution", "Internal", "External"} :
      E!EnrichDatafusionError(E!Arrived(item, spelling, wrapper)) = E!EnrichDatafusionError(item)
=============================================================================
