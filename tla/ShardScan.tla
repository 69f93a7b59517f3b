----------------------------- MODULE ShardScan ------------------------------
(***************************************************************************)
(* What a read asks of each shard and what it makes of the answers: the    *)
(* table provider and its wire form (coordinator/scheduler/scheduler.rs,   *)
(* plan_codec.rs), the predicates pushed down to DuckDB                    *)
(* (filter_pushdown.rs) and the scan a core node runs                      *)
(* (core/table_provider/scan_exec.rs).                                     *)
(*                                                                         *)
(* A predicate is evaluated twice, by DuckDB over what the shard stores    *)
(* and by the coordinator over what it was sent.  The engines differ in    *)
(* the ways the code names: DuckDB has no default LIKE escape, refuses a   *)
(* pattern that ends in one, and converts a literal to the type it stores  *)
(* rather than to text.                                                    *)
(*                                                                         *)
(* The table has a number n, a text s, a UUID u (text to the coordinator)  *)
(* and a date d.  Text is a sequence of characters, a row is told apart by *)
(* its id, and a day of the model has TicksPerDay ticks.                   *)
(***************************************************************************)
EXTENDS Integers, Sequences, FiniteSets, SequencesExt, Predicates

CONSTANTS
  Null, Error,   \* SQL's NULL, and a value that could not be computed
  Reads,         \* Reads: the reads a client may send
  Contents,      \* what the table may hold: the rows of each hash bucket
  Shards,        \* the table's ShardMeta list: [bucket, primary, replicas]
  Encodings      \* which builds' wire forms of a provider are about

\* MILLIS_PER_DAY and the last day of Date32, in the model's ticks and days.
TicksPerDay == 2
LastDate32 == 3

\* The text that is a UUID, and the largest number column n's Arrow type holds.
Uuids == {<<"u">>, <<"v">>}
WidestN == 9

-----------------------------------------------------------------------------
(***************************************************************************)
(* Expressions, and what the two engines make of them                      *)
(***************************************************************************)

\* Three-valued logic; an error is one wherever it occurs.
Not3(a) == IF a \in {Null, Error} THEN a ELSE ~a
And3(a, b) ==
  CASE Error \in {a, b} -> Error
    [] FALSE \in {a, b} -> FALSE
    [] Null \in {a, b} -> Null
    [] OTHER -> TRUE
Or3(a, b) == Not3(And3(Not3(a), Not3(b)))

Compare(o, a, b) ==
  CASE Error \in {a, b} -> Error
    [] Null \in {a, b} -> Null
    [] o = "=" -> a = b
    [] o = "<>" -> a # b
    [] o = "<" -> a < b

\* LIKE: "%" any run, "_" any character, and a character after the escape
\* itself.  An escape with nothing after it is read as itself.
RECURSIVE Matches(_, _, _)
Matches(text, pattern, escape) ==
  CASE pattern = << >> -> text = << >>
    [] pattern # << >> /\ Head(pattern) = escape /\ Len(pattern) > 1 ->
         /\ text # << >> /\ Head(text) = pattern[2]
         /\ Matches(Tail(text), Tail(Tail(pattern)), escape)
    [] pattern # << >> /\ Head(pattern) = "%" /\ escape # "%" ->
         \E n \in 0..Len(text) : Matches(SubSeq(text, n + 1, Len(text)), Tail(pattern), escape)
    [] OTHER ->
         /\ text # << >> /\ Head(pattern) \in {"_", Head(text)}
         /\ Matches(Tail(text), Tail(pattern), escape)

\* ends_with_dangling_escape: an odd run of trailing escapes.
Trailing(pattern, escape) ==
  Cardinality({i \in DOMAIN pattern : \A j \in i..Len(pattern) : pattern[j] = escape})
Dangles(pattern, escape) == Trailing(pattern, escape) % 2 = 1

EndsWithDanglingEscape(pattern) == Dangles(pattern, "\\")

Likes(engine, text, pattern, escape) ==
  CASE Error \in {text, pattern} -> Error
    [] Null \in {text, pattern} -> Null
    [] engine = "duckdb" -> IF escape # Null /\ Dangles(pattern, escape) THEN Error
                            ELSE Matches(text, pattern, escape)
    [] OTHER -> Matches(text, pattern, IF escape = Null THEN "\\" ELSE escape)

IsLiteral(x, kind) == x.op = "literal" /\ x.kind = kind
Opaque(x) == x.op = "column" /\ x.name = "u"

RECURSIVE Eval(_, _, _)
Eval(engine, e, row) ==
  LET V(x) == Eval(engine, x, row)
      Beside(x, y) ==   \* x in a comparison with y
        CASE engine = "duckdb" /\ IsLiteral(x, "text") /\ Opaque(y) /\ V(x) \notin Uuids \cup {Null}
               -> Error
          [] x.op = "column" /\ IsLiteral(y, "date64") /\ V(x) # Null -> V(x) * TicksPerDay
          [] OTHER -> V(x)
      Cmp(o, x, y) == Compare(o, Beside(x, y), Beside(y, x))
  IN CASE e.op = "column" -> row[e.name]
       [] e.op = "literal" -> e.value
       [] e.op = "binary" /\ e.o = "and" -> And3(V(e.l), V(e.r))
       [] e.op = "binary" /\ e.o = "or" -> Or3(V(e.l), V(e.r))
       [] e.op = "binary" /\ e.o \notin {"and", "or"} -> Cmp(e.o, e.l, e.r)
       [] e.op = "unary" /\ e.o = "not" -> Not3(V(e.x))
       [] e.op = "unary" /\ e.o = "is null" -> IF V(e.x) = Error THEN Error ELSE V(e.x) = Null
       [] e.op = "unary" /\ e.o = "is true" -> IF V(e.x) = Error THEN Error ELSE V(e.x) = TRUE
       [] e.op = "unary" /\ e.o = "upper" -> V(e.x)
       [] e.op = "like" -> IF engine = "duckdb" /\ Opaque(e.x) THEN Error
                           ELSE Likes(engine, V(e.x), V(e.pattern), e.escape)
       [] e.op = "in" -> FoldLeft(LAMBDA a, y : Or3(a, Cmp("=", e.x, y)), FALSE, e.list)
       [] e.op = "between" -> And3(Not3(Cmp("<", e.x, e.low)), Not3(Cmp("<", e.high, e.x)))

-----------------------------------------------------------------------------
(***************************************************************************)
(* filter_pushdown.rs                                                      *)
(***************************************************************************)

\* from_declared_types, names and from_names: the columns that are text to the
\* coordinator only, or Null where that is not known.
OpaqueTextColumns == {"u"}
IsTextField(name) == name \in {"s", "u"}

Covers(opaque, name) == IsTextField(name) /\ (opaque = Null \/ name \in opaque)

\* date64_as_date32
HasDate32(ticks) == ticks % TicksPerDay = 0 /\ ticks \div TicksPerDay <= LastDate32

\* (Mutant: any Date64 is taken, and rendered as the day it falls on.)
IsPushableLiteralAnyTime(lit) == lit.kind \in {"number", "text", "date32", "date64", "null"}

\* is_pushable_literal
IsPushableLiteral(lit) ==
  \/ lit.kind \in {"number", "text", "date32", "null"}
  \/ lit.kind = "date64" /\ (lit.value = Null \/ HasDate32(lit.value))

\* is_pushable_pattern
IsPushablePattern(pattern) ==
  IsLiteral(pattern, "text") /\ pattern.value # Null /\ ~EndsWithDanglingEscape(pattern.value)

\* is_pushable
RECURSIVE IsPushable(_, _)
IsPushable(opaque, e) ==
  CASE e.op = "column" -> ~Covers(opaque, e.name)
    [] e.op = "literal" -> IsPushableLiteral(e)
    [] e.op = "binary" -> IsPushable(opaque, e.l) /\ IsPushable(opaque, e.r)
    [] e.op = "unary" /\ e.o = "is null" /\ e.x.op = "column" -> TRUE
    [] e.op = "unary" /\ (e.o # "is null" \/ e.x.op # "column") ->
         e.o \in {"is null", "not", "is true"} /\ IsPushable(opaque, e.x)
    [] e.op = "between" ->
         IsPushable(opaque, e.x) /\ IsPushable(opaque, e.low) /\ IsPushable(opaque, e.high)
    [] e.op = "in" ->
         IsPushable(opaque, e.x) /\ \A i \in DOMAIN e.list : IsPushable(opaque, e.list[i])
    [] e.op = "like" ->
         e.escape = Null /\ IsPushablePattern(e.pattern) /\ IsPushable(opaque, e.x)

\* The escape PostgreSQL has by default, spelled out.
RenderedLike(like) == [like EXCEPT !.escape = "\\"]

\* prepare_for_rendering
RECURSIVE Rendered(_)
Rendered(e) ==
  CASE e.op = "column" -> e
    [] e.op = "literal" ->
         IF e.kind = "date64" /\ e.value # Null THEN Lit("date32", e.value \div TicksPerDay) ELSE e
    [] e.op = "binary" -> [e EXCEPT !.l = Rendered(@), !.r = Rendered(@)]
    [] e.op = "unary" -> [e EXCEPT !.x = Rendered(@)]
    [] e.op = "between" -> [e EXCEPT !.x = Rendered(@), !.low = Rendered(@), !.high = Rendered(@)]
    [] e.op = "in" ->
         [e EXCEPT !.x = Rendered(@), !.list = [i \in DOMAIN @ |-> Rendered(@[i])]]
    [] e.op = "like" -> [RenderedLike(e) EXCEPT !.x = Rendered(@)]

\* duckdb_predicates and duckdb_predicate: what is left of the filters for the
\* shard, each parenthesized.
DuckDbPredicates(opaque, filters) ==
  LET pushed == SelectSeq(filters, LAMBDA e : IsPushable(opaque, e))
  IN [i \in DOMAIN pushed |-> Rendered(pushed[i])]

-----------------------------------------------------------------------------
(***************************************************************************)
(* The provider, its wire form, and its scans                              *)
(***************************************************************************)

Provider == [shards |-> Shards, opaque |-> OpaqueTextColumns]

\* try_encode_table_provider, by this build or one that had fewer fields.
Encode(provider, build) ==
  \* Before buckets were carried, shards were listed in their order.
  LET shards == IF build = "no buckets"
                THEN SortSeq(provider.shards, LAMBDA a, b : a.bucket < b.bucket)
                ELSE provider.shards IN
  [count    |-> Len(shards),
   buckets  |-> IF build = "no buckets" THEN << >>
                ELSE [i \in DOMAIN shards |-> shards[i].bucket],
   primary  |-> [i \in DOMAIN shards |-> shards[i].primary],
   replicas |-> [i \in DOMAIN shards |-> shards[i].replicas],
   opaque   |-> IF build = "now" THEN provider.opaque ELSE Null]

DecodedBucket(encoded, i) == IF i \in DOMAIN encoded.buckets THEN encoded.buckets[i] ELSE i - 1

\* try_decode_table_provider
Decode(encoded) ==
  [shards |-> [i \in 1..encoded.count |->
                 [bucket |-> DecodedBucket(encoded, i), primary |-> encoded.primary[i],
                  replicas |-> encoded.replicas[i]]],
   opaque |-> encoded.opaque]

\* SchedulerTableProvider::scan, and its journey through the physical codecs:
\* the executor's side keeps everything but the targets.  limit is Null, or
\* the limit DataFusion offers when no filter stands between it and the scan.
ScansOf(provider, read) ==
  [i \in DOMAIN provider.shards |->
     [bucket  |-> provider.shards[i].bucket,
      targets |-> {provider.shards[i].primary} \cup provider.shards[i].replicas,
      filters |-> DuckDbPredicates(provider.opaque, read.filters),
      limit   |-> IF read.filters = << >> THEN read.limit ELSE Null]]

-----------------------------------------------------------------------------
(***************************************************************************)
(* The core node's side: scan_exec.rs                                      *)
(***************************************************************************)

\* build_query's WHERE: the fragments joined by AND.
Where(filters) == FoldLeft(LAMBDA a, f : Binary("and", a, f), Head(filters), Tail(filters))

\* The rows the shard's table answers the WHERE with, or an error.
Selected(rows, scan) ==
  IF scan.filters = << >> THEN rows
  ELSE LET where == Where(scan.filters) IN
       IF \E row \in rows : Eval("duckdb", where, row) = Error THEN {Error}
       ELSE {row \in rows : Eval("duckdb", where, row) = TRUE}

\* LIMIT without an order keeps any so many of them.
Limited(rows, limit) ==
  IF limit = Null \/ Cardinality(rows) <= limit THEN {rows}
  ELSE {kept \in SUBSET rows : Cardinality(kept) = limit}

\* coerce_batch_to_schema: a value the advertised type cannot hold fails the scan.
Coerced(row) == IF row.n # Null /\ row.n > WidestN THEN Error ELSE row

\* execute, of build_query or for no columns row_count_query.
ScanAnswers(stored, scan, columns) ==
  IF Error \in Selected(stored, scan) THEN {{Error}}
  ELSE IF columns = "none"
       THEN {{Cardinality(rows)} : rows \in Limited(Selected(stored, scan), scan.limit)}
       ELSE {{Coerced(row) : row \in rows} : rows \in Limited(Selected(stored, scan), scan.limit)}

-----------------------------------------------------------------------------
(***************************************************************************)
(* A read                                                                  *)
(***************************************************************************)

VARIABLES
  table,    \* table[b]: the rows of hash bucket b
  read,     \* the read in progress or answered, or Null
  scans,    \* its scans, one for each shard
  got,      \* got[i]: what scan i answered: rows, a count {n}, or Null for not yet
  answer    \* what the client was sent, or Null

vars == <<table, read, scans, got, answer>>

Init == table \in Contents /\ read = Null /\ scans = << >> /\ got = << >> /\ answer = Null

\* Planned on one side of Ballista's wire form and scanned on the other.
Plan(r, build) ==
  /\ read = Null
  /\ read' = r
  /\ scans' = ScansOf(Decode(Encode(Provider, build)), r)
  /\ got' = [i \in DOMAIN scans' |-> Null]
  /\ UNCHANGED <<table, answer>>

Scan(i) ==
  /\ read # Null /\ answer = Null
  /\ got[i] = Null
  /\ \A j \in 1..(i - 1) : got[j] # Null
  /\ \E a \in ScanAnswers(table[scans[i].bucket], scans[i], read.columns) : got' = [got EXCEPT ![i] = a]
  /\ UNCHANGED <<table, read, scans, answer>>

\* The coordinator's own filter, which no pushed copy replaces.
PassesFilters(row) ==
  \A i \in DOMAIN read.filters : Eval("coordinator", read.filters[i], row) = TRUE

\* The coordinator filters the union of the answers and applies the limit.
Combined ==
  LET all == UNION {got[i] : i \in DOMAIN got} IN
  IF Error \in all THEN {{Error}}
  ELSE Limited({row \in all : PassesFilters(row)}, read.limit)

\* A count stands for that many rows without columns.
CountOf(rows) == CHOOSE n \in rows : TRUE
AtMost(n, limit) == IF limit # Null /\ limit < n THEN limit ELSE n
Total == FoldLeft(LAMBDA n, rows : n + CountOf(rows), 0, got)

Answer ==
  /\ read # Null /\ answer = Null
  /\ \A i \in DOMAIN got : got[i] # Null
  /\ answer' \in IF read.columns = "none"
                 THEN {{AtMost(Total, read.limit)}}
                 ELSE Combined
  /\ scans' = << >> /\ got' = << >>
  /\ UNCHANGED <<table, read>>

Again ==
  /\ answer # Null
  /\ read' = Null /\ answer' = Null
  /\ UNCHANGED <<table, scans, got>>

Next ==
  \/ \E r \in Reads, build \in Encodings : Plan(r, build)
  \/ \E i \in DOMAIN got : Scan(i)
  \/ Answer
  \/ Again

Spec == Init /\ [][Next]_vars

-----------------------------------------------------------------------------
(***************************************************************************)
(* Properties                                                              *)
(***************************************************************************)

AllRows == UNION {table[b] : b \in DOMAIN table}
Wanted == {row \in AllRows : PassesFilters(row)}

\* The answer is the one the query has over the whole table, whatever was
\* pushed to the shards, rendered for them, limited there, counted there or
\* lost from an older build's encoding.
ReadsAreExact ==
  answer \notin {Null, {Error}} =>
    IF read.columns = "none"
    THEN answer = {AtMost(Cardinality(AllRows), read.limit)}
    ELSE answer \in Limited(Wanted, read.limit)

\* Pushing a predicate down fails no read the coordinator alone could answer:
\* a read fails only where a shard holds a value its declared type cannot.
OnlyWideValuesFail ==
  answer = {Error} => \E row \in AllRows : row.n # Null /\ row.n > WidestN

\* A scan of a shard's table is aimed at that shard's nodes, whatever order
\* the shards are listed in and whichever build encoded them.
ScansAimAtTheirShard ==
  \A i \in DOMAIN scans : \E j \in DOMAIN Shards :
    /\ Shards[j].bucket = scans[i].bucket
    /\ scans[i].targets = {Shards[j].primary} \cup Shards[j].replicas
=============================================================================
