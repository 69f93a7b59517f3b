---------------------------- MODULE Expressions -----------------------------
(***************************************************************************)
(* The expressions a read spells as PostgreSQL does and DataFusion plans   *)
(* as something else, rewritten or refused before planning                 *)
(* (pg_operators.rs, pg_named_windows.rs, pg_subscripts.rs): windows that  *)
(* name another, the clauses of a function call, LIKE's escape character,  *)
(* array subscripts.                                                       *)
(*                                                                         *)
(* A window specification says which window it names, if any, and which    *)
(* clauses it has.  A call is the record of its name and clauses.  Left    *)
(* out: casts and operators that become a call of the same operands, and   *)
(* SIMILAR TO.                                                             *)
(***************************************************************************)
EXTENDS Integers, Sequences, SequencesExt

CONSTANTS None, Refused

-----------------------------------------------------------------------------
(* Named windows.                                                          *)

Window(named, partition, order, frame) ==
  [named |-> named, partition |-> partition, order |-> order, frame |-> frame]

\* A window's name, the letters of one of them.
LowerCase(v) == IF v = "W" THEN "w" ELSE v
Folded(name) == IF name.quoted THEN name.value ELSE LowerCase(name.value)

Lookup(scope, name) ==
  LET found == SelectInSeq(scope, LAMBDA d : Folded(d.name) = Folded(name))
  IN IF found = 0 THEN None ELSE scope[found].spec

Merge(base, own) ==
  IF base.frame \/ own.partition \/ (own.order /\ base.order) THEN Refused
  ELSE Window(None, base.partition, base.order \/ own.order, own.frame)

\* A specification written out against the windows it may name.
WrittenOut(scope, spec) ==
  IF spec.named = None THEN spec
  ELSE IF Lookup(scope, spec.named) = None THEN Refused
  ELSE Merge(Lookup(scope, spec.named), spec)

\* Each definition against the ones before it.
RECURSIVE Resolve(_, _)
Resolve(resolved, windows) ==
  IF windows = <<>> THEN resolved
  ELSE IF WrittenOut(resolved, Head(windows).spec) = Refused THEN Refused
  ELSE Resolve(Append(resolved, [Head(windows) EXCEPT !.spec = WrittenOut(resolved, Head(windows).spec)]),
               Tail(windows))

ResolveDefinitions(windows) == Resolve(<<>>, windows)

-----------------------------------------------------------------------------
(* Function calls.  over is None, a bare window name or a specification;   *)
(* an argument is a column, a star, a number or one of those guarded by    *)
(* the call's condition.                                                   *)

Column == [k |-> "column", guarded |-> FALSE]
Star == [k |-> "star", guarded |-> FALSE]
Number(n) == [k |-> n, guarded |-> FALSE]

Bare(name) == [bare |-> TRUE, name |-> name, spec |-> Window(name, FALSE, FALSE, FALSE)]
Over(spec) == [bare |-> FALSE, name |-> None, spec |-> spec]

IgnoresNullArguments ==
  {"count", "sum", "avg", "min", "max", "bool_and", "bool_or", "every", "bit_and", "bit_or", "stddev",
   "stddev_pop", "stddev_samp", "variance", "var_pop", "var_samp"}

\* FILTER beside OVER becomes a CASE about the one argument.
RewriteWindowFilter(f) ==
  IF \/ f.over = None \/ ~f.filter \/ f.qualified
     \/ f.name \notin IgnoresNullArguments
     \/ f.distinct \/ f.ordered \/ Len(f.args) # 1
  THEN f
  ELSE [f EXCEPT !.filter = FALSE,
                 !.args = <<[k |-> IF f.args[1] = Star THEN "one" ELSE f.args[1].k, guarded |-> TRUE]>>]

HasDiscardedClauses(f) ==
  \/ f.filter /\ f.over # None
  \/ f.nulls = "ignore"
  \/ f.over # None /\ ~f.over.bare /\ f.over.spec.named # None

OrderedSet == {"mode", "percentile_cont", "percentile_disc"}

HypotheticalSetUdaf(name) ==
  CASE name = "rank" -> "vaire_hypothetical_rank"
    [] name = "dense_rank" -> "vaire_hypothetical_dense_rank"
    [] name = "percent_rank" -> "vaire_hypothetical_percent_rank"
    [] name = "cume_dist" -> "vaire_hypothetical_cume_dist"
    [] OTHER -> None

LacksWithinGroup(f) ==
  /\ ~f.within /\ f.over = None /\ ~f.qualified
  /\ f.name \in OrderedSet \/ (f.args # <<>> /\ HypotheticalSetUdaf(f.name) # None)

\* A fraction that is a number no percentile has.
FractionOutOfRange(f) ==
  /\ ~f.qualified /\ f.name \in {"percentile_cont", "percentile_disc"}
  /\ f.args # <<>> /\ f.args[1] = Number("1.5")

PostgresAggregateAlias(name) ==
  CASE name = "variance" -> "var_samp"
    [] name = "every" -> "bool_and"
    [] name = "any_value" -> "min"
    [] OTHER -> name

Renamed(f) ==
  IF f.qualified THEN f
  ELSE IF f.within /\ f.over = None /\ HypotheticalSetUdaf(f.name) # None
       THEN [f EXCEPT !.name = HypotheticalSetUdaf(f.name)]
       ELSE [f EXCEPT !.name = PostgresAggregateAlias(f.name)]

\* json_agg is array_agg, rendered.
JsonAggregateCall(f) ==
  IF f.qualified \/ f.name \notin {"json_agg", "jsonb_agg"} THEN f
  ELSE [f EXCEPT !.name = "array_agg", !.render = TRUE]

RewriteFunction(f) ==
  IF HasDiscardedClauses(f) \/ LacksWithinGroup(f) \/ FractionOutOfRange(f) THEN Refused
  ELSE JsonAggregateCall(Renamed(f))

\* A query's WINDOW list and one call of it.
RewriteCall(scope, f) ==
  IF scope = Refused THEN Refused
  ELSE IF f.over = None THEN RewriteFunction(f)
  ELSE IF f.over.bare THEN RewriteFunction(RewriteWindowFilter(f))
  ELSE IF WrittenOut(scope, f.over.spec) = Refused THEN Refused
  ELSE RewriteFunction(RewriteWindowFilter([f EXCEPT !.over.spec = WrittenOut(scope, f.over.spec)]))

-----------------------------------------------------------------------------
(* LIKE ... ESCAPE: the pattern and the escape are sequences of            *)
(* characters.                                                             *)

RECURSIVE WithBackslash(_, _)
WithBackslash(pattern, escape) ==
  IF pattern = <<>> THEN <<>>
  ELSE IF escape = <<Head(pattern)>>
       THEN IF Len(pattern) = 1 \/ WithBackslash(SubSeq(pattern, 3, Len(pattern)), escape) = Refused
            THEN Refused
            ELSE <<"\\", pattern[2]>> \o WithBackslash(SubSeq(pattern, 3, Len(pattern)), escape)
  ELSE IF WithBackslash(Tail(pattern), escape) = Refused THEN Refused
  ELSE (IF Head(pattern) = "\\" THEN <<"\\", "\\">> ELSE <<Head(pattern)>>)
       \o WithBackslash(Tail(pattern), escape)

RewriteLikeEscape(pattern, literal, escape) ==
  CASE Len(escape) > 1    -> Refused
    [] escape = <<"\\">>  -> pattern
    [] Len(escape) <= 1 /\ escape # <<"\\">> ->
         IF literal THEN WithBackslash(pattern, escape) ELSE Refused

-----------------------------------------------------------------------------
(* Subscripts; None is NULL.                                               *)

ClampIndex(i) == IF i = None \/ i <= 0 THEN None ELSE i
ClampLowerBound(l) == IF l = None THEN None ELSE IF l < 1 THEN 1 ELSE l
ClampUpperBound(u) == IF u = None THEN None ELSE IF u < 0 THEN 0 ELSE u
=============================================================================
