------------------------------- MODULE Labels -------------------------------
(***************************************************************************)
(* The names of a result's columns (column_labels.rs), and the order of    *)
(* the passes that ready a query for the planner (parser.rs                *)
(* prepare_select_for_planning), which decides whose spelling a name is    *)
(* taken from.                                                             *)
(*                                                                         *)
(* A projection item is an expression with or without an alias, or a       *)
(* wildcard over named columns.  A name in the plan is a label and the     *)
(* ordinal that keeps its repeats apart (0: none).                         *)
(***************************************************************************)
EXTENDS Integers, Sequences, FiniteSets

CONSTANTS None, Refused

-----------------------------------------------------------------------------
(* PostgreSQL's label for an expression, as pg_label derives it.           *)

Named(name, weak, column) == [name |-> name, weak |-> weak, column |-> column]
FromColumn(name) == Named(name, FALSE, TRUE)
Strong(name) == Named(name, FALSE, FALSE)
Weak(name) == Named(name, TRUE, FALSE)
ANONYMOUS_LABEL == "?column?"
Anonymous == [name |-> ANONYMOUS_LABEL, weak |-> TRUE, column |-> FALSE]

\* A cast's or a CASE's own name loses only to one derived outright.
Outranked(inner, own) == IF inner # None /\ ~inner.weak THEN inner ELSE own

\* pg_type_name: None for a type PostgreSQL does not have; an array's name is
\* its element's.
PgTypeName(type) ==
  CASE type = "int"     -> "int4"
    [] type = "int[]"   -> "int4"
    [] type = "char(2)" -> "bpchar"
    [] type = "hugeint" -> None
    [] OTHER            -> type

WeakType(type) == IF PgTypeName(type) = None THEN None ELSE Weak(PgTypeName(type))

\* pg_label.  "call" is any form PostgreSQL parses as a function call, "op" an
\* operator or a constant, "duckdb" a form PostgreSQL does not have.
RECURSIVE PgLabel(_)
PgLabel(e) ==
  CASE e.k = "column"   -> FromColumn(e.name)
    [] e.k = "field"    -> IF e.name # None THEN FromColumn(e.name) ELSE PgLabel(e.inner)
    [] e.k = "call"     -> Strong(e.name)
    [] e.k = "cast"     -> Outranked(PgLabel(e.inner), WeakType(e.name))
    [] e.k = "case"     -> Outranked(IF e.inner = None THEN None ELSE PgLabel(e.inner), Weak("case"))
    [] e.k = "nested"   -> PgLabel(e.inner)
    [] e.k = "subquery" ->  \* subquery_label
         IF e.name # None THEN Strong(e.name)
         ELSE IF e.inner = None THEN None ELSE PgLabel(e.inner)
    [] e.k = "op"       -> Anonymous
    [] OTHER            -> None

\* already_named_by_datafusion: a plain column, parenthesised or not.
RECURSIVE AlreadyNamed(_)
AlreadyNamed(e) == e.k = "column" \/ (e.k = "nested" /\ AlreadyNamed(e.inner))

-----------------------------------------------------------------------------
(* Labelling one select list.                                              *)

PlanName(label, n) == [label |-> label, n |-> n]

\* LabelScope::of: the names this pass leaves where they are.
Reserved(projection) ==
  {projection[i].lower : i \in {j \in DOMAIN projection : projection[j].k = "aliased"}}
  \cup {PgLabel(projection[i].expr).name :
          i \in {j \in DOMAIN projection :
                   projection[j].k = "expr" /\ AlreadyNamed(projection[j].expr)}}

HasWildcard(projection) == \E i \in DOMAIN projection : projection[i].k = "wildcard"

\* The items that are given a label.
Labelled(item) ==
  item.k = "expr" /\ ~AlreadyNamed(item.expr) /\ PgLabel(item.expr) # None

\* The label has been handed out this many times, counting now.
HandedOut(projection, i) ==
  Cardinality({j \in 1 .. i :
                 Labelled(projection[j])
                 /\ PgLabel(projection[j].expr).name = PgLabel(projection[i].expr).name})

Held(projection, label) ==
  label.name \in Reserved(projection) \/ (HasWildcard(projection) /\ label.column)

Numbered(name, n) == PlanName(name, IF n = 1 THEN 0 ELSE n)

\* hand_out.
HandOut(projection, i, label) ==
  Numbered(label.name, HandedOut(projection, i) + (IF Held(projection, label) THEN 1 ELSE 0))

\* label_select: an unaliased item becomes an aliased one.
LabelItem(projection, i) ==
  IF Labelled(projection[i])
  THEN [k |-> "labelled", expr |-> projection[i].expr,
        name |-> HandOut(projection, i, PgLabel(projection[i].expr))]
  ELSE projection[i]

LabelSelect(projection) == [i \in DOMAIN projection |-> LabelItem(projection, i)]

\* What the planner calls the columns of an item; the last are named after the
\* whole expression.
PlannedNames(item) ==
  CASE item.k = "labelled" -> <<item.name>>
    [] item.k = "aliased"  -> <<PlanName(item.alias, 0)>>
    [] item.k = "wildcard" -> [c \in DOMAIN item.columns |-> PlanName(item.columns[c], 0)]
    [] AlreadyNamed(item.expr) -> <<PlanName(PgLabel(item.expr).name, 0)>>
    [] OTHER -> <<PlanName(item.expr.name, 0)>>

\* wire_label and wire_labels, and without_disambiguators for a plan's text.
WireLabel(name) == name.label

-----------------------------------------------------------------------------
(* prepare_select_for_planning: a query over a relation or a view's body.  *)

\* What pg_operators and pg_clock_functions plan a function as.
RECURSIVE PlannedExpr(_)
PlannedExpr(e) ==
  CASE e.k = "call" /\ e.name = "variance"            -> [e EXCEPT !.name = "var_samp"]
    [] e.k = "call" /\ e.name = "statement_timestamp" -> [e EXCEPT !.name = "now"]
    [] e.k \in {"cast", "nested"}                     -> [e EXCEPT !.inner = PlannedExpr(e.inner)]
    [] e.k = "op"                                     -> [k |-> "call", name |-> "vdb_op"]
    [] OTHER                                          -> e

RewriteSelect(projection) ==
  [i \in DOMAIN projection |->
     IF projection[i].k = "wildcard" THEN projection[i]
     ELSE [projection[i] EXCEPT !.expr = PlannedExpr(projection[i].expr)]]

\* expand_views puts the stored definition where its name was.
ExpandViews(query) == [query EXCEPT !.from = IF query.view THEN query.body ELSE <<>>]

LabelResultColumns(query) ==
  [query EXCEPT !.items = LabelSelect(query.items), !.from = LabelSelect(query.from)]

RewriteExpressions(query) ==
  [query EXCEPT !.items = RewriteSelect(query.items), !.from = RewriteSelect(query.from)]

CanonicalizeRelationNames(query) == [query EXCEPT !.canonical = TRUE]

\* A catalog query keeps its names and labels; a user's is expanded, checked,
\* labelled, rewritten and given its relations' registered names, in that order.
Prepare(query, isCatalog) ==
  CASE isCatalog /\ query.joinsUserData   -> Refused
    [] isCatalog                          -> RewriteExpressions(query)
    [] ExpandViews(query).meaningless     -> Refused
    [] OTHER -> CanonicalizeRelationNames(RewriteExpressions(LabelResultColumns(ExpandViews(query))))
=============================================================================
