----------------------------- MODULE Subqueries -----------------------------
(***************************************************************************)
(* Subquery predicates on the read path: IN, NOT IN, ANY, ALL and EXISTS   *)
(* over a subquery, as PostgreSQL reads them (three-valued) and as         *)
(* VaireDB answers them.  The cluster can only run the joins such a        *)
(* predicate becomes, and those are two-valued, so the coordinator         *)
(* respells the predicate on the AST (compat_rewrite.rs), then lowers or   *)
(* refuses what is left on the plan (pg_not_in_nulls.rs,                   *)
(* pg_quantified_subqueries.rs, pg_projection_subqueries.rs); one clause   *)
(* gets the candidates as a list (not_in.rs).                              *)
(*                                                                         *)
(* A statement holds one subquery predicate, the leaf, at the end of a     *)
(* path of operators from the root of its clause; the other operand of     *)
(* every AND and OR on the path is the truth value p.  It is evaluated for *)
(* one outer row: x is the compared value, cands the set of values the     *)
(* subquery yields for that row.                                           *)
(***************************************************************************)
EXTENDS Integers, Sequences, FiniteSets

CONSTANTS
  Null,         \* SQL's NULL, for values and truth values alike
  Refused       \* the statement is answered with an error

-----------------------------------------------------------------------------
(* SQL's three-valued logic.                                               *)

Not3(a) == IF a = Null THEN Null ELSE ~a

And3(a, b) == CASE a = FALSE \/ b = FALSE -> FALSE
                [] a = Null \/ b = Null   -> Null
                [] OTHER                  -> TRUE

Or3(a, b) == Not3(And3(Not3(a), Not3(b)))

\* A conjunction and a disjunction of a set of truth values.
All3(S) == CASE FALSE \in S -> FALSE
             [] Null \in S  -> Null
             [] OTHER       -> TRUE

Any3(S) == Not3(All3({Not3(a) : a \in S}))

Compare3(a, op, b) ==
  IF Null \in {a, b} THEN Null
  ELSE CASE op = "="  -> a = b
         [] op = "<>" -> a # b
         [] op = "<"  -> a < b

-----------------------------------------------------------------------------
(* The statements.  A leaf is `x [NOT] IN (q)`, `[NOT] EXISTS (q)` or      *)
(* `x op ANY|ALL (q)`; the subquery q is correlated with the outer row or  *)
(* not ("bare": by a column written without its table), projects one       *)
(* column, a wildcard that stands for one, or two columns, and may group.  *)

TruthClauses == {"where", "having", "on"}

IsIn(leaf) == leaf.kind = "in"
IsNotIn(leaf) == IsIn(leaf) /\ leaf.neg

Only(path, ops) == \A i \in DOMAIN path : path[i] \in ops

\* The value of the clause whose leaf has the value v: the operators of the
\* path are applied from the leaf up.
Apply(op, v, p) ==
  CASE op = "not"      -> Not3(v)
    [] op = "and"      -> And3(v, p)
    [] op = "or"       -> Or3(v, p)
    [] op = "case"     -> (v = TRUE)
    [] op = "case_not" -> (v # TRUE)

Clause(path, v, p) ==
  LET from[i \in 0..Len(path)] ==
        IF i = 0 THEN v ELSE Apply(path[Len(path) + 1 - i], from[i - 1], p)
  IN  from[Len(path)]

\* What a clause answers: a predicate keeps the row or drops it, a select
\* list shows the value.
Shown(pos, v) == IF pos \in TruthClauses THEN v = TRUE ELSE v

-----------------------------------------------------------------------------
(* The reference: PostgreSQL's reading of the leaf and of the statement.   *)

Meant(leaf, row) ==
  CASE leaf.kind = "exists" -> IF leaf.neg THEN row.cands = {} ELSE row.cands # {}
    [] leaf.kind = "any"    -> Any3({Compare3(row.x, leaf.op, c) : c \in row.cands})
    [] leaf.kind = "all"    -> All3({Compare3(row.x, leaf.op, c) : c \in row.cands})
    [] leaf.kind = "in"     ->
         IF leaf.neg THEN All3({Compare3(row.x, "<>", c) : c \in row.cands})
         ELSE Any3({Compare3(row.x, "=", c) : c \in row.cands})

Reference(st, row) == Shown(st.pos, Clause(st.path, Meant(st.leaf, row), row.p))

-----------------------------------------------------------------------------
(* The AST passes of parse_sql.  They run for the statements of the read   *)
(* path; a query embedded in a write (INSERT ... SELECT, COPY (query) TO,  *)
(* CREATE TABLE AS) keeps the client's own AST.                            *)

MangledByUpstream(leaf) == \/ leaf.kind = "any" /\ leaf.op = "="
                           \/ leaf.kind = "all" /\ leaf.op = "<>"

\* any_all_subquery_as_in: = ANY is IN and <> ALL is NOT IN.
AsIn(leaf) ==
  IF MangledByUpstream(leaf)
  THEN [leaf EXCEPT !.kind = "in", !.neg = leaf.kind = "all", !.op = "="]
  ELSE leaf

\* subquery_is_self_contained reads qualifiers only: an outer column written
\* without its table passes for a local one.
SelfContained(q) == q.corr \in {"none", "bare"}

ProjectsOneNamedColumn(q) == q.cols = "one"

\* The positions NotInRewriter reaches: a clause that keeps a row when its
\* predicate is true, through AND, OR and parentheses.
TruthValued(st) == st.pos \in TruthClauses /\ Only(st.path, {"and", "or"})

\* null_aware_not_in: the spelling a NOT IN is replaced by.  In HAVING a
\* compared expression that calls a function stays where it is, and the
\* candidates come to it as a list.
Spelling(st, leaf) ==
  CASE ~(IsNotIn(leaf) /\ TruthValued(st)) -> "as_written"
    [] ~(ProjectsOneNamedColumn(leaf.q) /\ SelfContained(leaf.q)) -> "as_written"
    [] leaf.operand = "tuple" -> "as_written"
    [] st.pos = "having" /\ leaf.operand = "call" -> "list"
    [] OTHER -> "spelled_out"

\* The leaf the planner is given, and its spelling.
Parsed(st) ==
  IF st.lane = "embedded" THEN [leaf |-> st.leaf, spelling |-> "as_written"]
  ELSE [leaf |-> AsIn(st.leaf), spelling |-> Spelling(st, AsIn(st.leaf))]

-----------------------------------------------------------------------------
(* The plan passes of apply_read_path_passes, on the leaf as planned.      *)

\* What no planner takes: two columns against one value, a row value, and a
\* respelled NOT IN whose subquery turns out to name an outer column.
Unplannable(leaf, spelling) ==
  \/ leaf.kind # "exists" /\ leaf.q.cols = "two"
  \/ leaf.kind # "exists" /\ leaf.operand = "tuple"
  \/ spelling # "as_written" /\ leaf.q.corr = "bare"

\* check_expr skips a NOT IN directly under a NOT.
Exempt(path) == path # <<>> /\ path[Len(path)] = "not"

\* (Mutant: only the compared value's nullability is looked at.)
NullsArePossibleLeft(row) == row.xNullable

NullsArePossible(row) == row.xNullable \/ row.cNullable

\* reject_null_unaware_not_in.
NullUnaware(st, leaf, row) ==
  /\ st.pos \in TruthClauses
  /\ IsNotIn(leaf)
  /\ ~Exempt(st.path)
  /\ NullsArePossible(row)

Quantified(leaf) == leaf.kind \in {"any", "all"}

\* lower_conjunction and lower_set_comparison: the comparisons that become an
\* EXISTS.
CanLowerQuantified(st, leaf) ==
  /\ st.pos \in TruthClauses
  /\ Only(st.path, {"and"})
  /\ leaf.q.cols \in {"one", "star"}
  /\ leaf.operand # "subquery"
  /\ ~(st.pos = "on" /\ st.aliased)

\* correlation_can_be_lifted: an uncorrelated subquery always, a correlated one
\* when it is a filtered projection correlated by equalities.
CorrelationCanBeLifted(q) == q.corr \in {"none", "bare", "equal"} /\ (q.corr = "none" \/ ~q.grouped)

CanLowerProjection(leaf) ==
  /\ CorrelationCanBeLifted(leaf.q)
  /\ IsIn(leaf) => leaf.q.cols \in {"one", "star"} /\ leaf.operand # "subquery"

\* The two residue checks and the refusals above.
IsRefused(st, leaf, spelling, row) ==
  \/ Unplannable(leaf, spelling)
  \/ spelling = "as_written" /\ NullUnaware(st, leaf, row)
  \/ Quantified(leaf) /\ ~CanLowerQuantified(st, leaf)
  \/ st.pos = "select" /\ ~Quantified(leaf) /\ ~CanLowerProjection(leaf)
  \/ st.pos = "order" /\ ~Quantified(leaf)

-----------------------------------------------------------------------------
(* What the accepted statement answers.                                    *)

Equal(row) == {c \in row.cands : Compare3(row.x, "=", c) = TRUE}
Count(S) == Cardinality(S)

\* The disjunction null_aware_not_in writes out.
SpelledOut(row) ==
  \/ Count(row.cands) = 0
  \/ /\ row.x # Null
     /\ Count({c \in row.cands : c = Null}) = 0
     /\ Equal(row) = {}

\* vaire_not_in's row_answer, over the list array_agg collected (a NULL list
\* when there are no rows).
RowAnswer(row) ==
  CASE row.cands = {}      -> TRUE
    [] row.x = Null        -> Null
    [] Equal(row) # {}     -> FALSE
    [] Null \in row.cands  -> Null
    [] OTHER               -> TRUE

\* EXISTS (... WHERE (x op c) IS TRUE), NOT EXISTS (... IS NOT TRUE).
LoweredQuantified(leaf, row) ==
  IF leaf.kind = "any"
  THEN {c \in row.cands : Compare3(row.x, leaf.op, c) = TRUE} # {}
  ELSE {c \in row.cands : Compare3(row.x, leaf.op, c) # TRUE} = {}

\* lower_in_subquery: the branches nullability leaves reachable.
Unknown(row) == \/ row.cNullable /\ Count({c \in row.cands : c = Null}) > 0
                \/ row.xNullable /\ row.x = Null /\ Count(row.cands) > 0

LoweredIn(leaf, row) ==
  CASE Count(Equal(row)) > 0 -> ~leaf.neg
    [] Unknown(row)          -> Null
    [] OTHER                 -> leaf.neg

\* lower_exists.
LoweredExists(leaf, row) == IF leaf.neg THEN Count(row.cands) = 0 ELSE Count(row.cands) > 0

\* External: the optimizer folds the NOTs above an IN into it and builds a semi,
\* anti or mark join, all of which read a NULL as merely unequal.
Folded(path) ==
  CHOOSE n \in 0..Len(path) :
    /\ \A i \in 1..n : path[Len(path) + 1 - i] = "not"
    /\ n < Len(path) => path[Len(path) - n] # "not"

Joined(leaf, row, nots) ==
  ((Equal(row) # {}) = ((leaf.neg /\ nots % 2 = 1) \/ (~leaf.neg /\ nots % 2 = 0)))

Filtered(st, leaf, spelling, row) ==
  CASE spelling = "spelled_out" -> Clause(st.path, SpelledOut(row), row.p)
    [] spelling = "list"        -> Clause(st.path, RowAnswer(row), row.p)
    [] Quantified(leaf)         -> Clause(st.path, LoweredQuantified(leaf, row), row.p)
    [] leaf.kind = "exists"     -> Clause(st.path, Meant(leaf, row), row.p)
    [] OTHER -> Clause(SubSeq(st.path, 1, Len(st.path) - Folded(st.path)),
                       Joined(leaf, row, Folded(st.path)), row.p)

Selected(st, leaf, row) ==
  Clause(st.path,
         IF leaf.kind = "exists" THEN LoweredExists(leaf, row) ELSE LoweredIn(leaf, row),
         row.p)

Answered(st, leaf, spelling, row) ==
  IF IsRefused(st, leaf, spelling, row) THEN Refused
  ELSE Shown(st.pos, IF st.pos = "select" THEN Selected(st, leaf, row)
                     ELSE Filtered(st, leaf, spelling, row))

\* What the client gets for the statement and the row.
Outcome(st, row) == Answered(st, Parsed(st).leaf, Parsed(st).spelling, row)
=============================================================================
