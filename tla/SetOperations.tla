--------------------------- MODULE SetOperations ---------------------------
(***************************************************************************)
(* UNION, INTERSECT and EXCEPT on the read path.  The planner lowers       *)
(* INTERSECT and EXCEPT, with or without ALL, onto one semi or anti join   *)
(* that ignores how often a row occurs, so an ALL is marked on the AST and *)
(* its join rewritten on the plan to number the duplicates of each branch  *)
(* (pg_set_op_multiplicity.rs).  Branches whose types do not meet in       *)
(* PostgreSQL are refused first (pg_set_op_types.rs).                      *)
(*                                                                         *)
(* A branch's rows are a bag: how often each value occurs.  A planned      *)
(* branch is its bag and whether its top node is a Distinct.               *)
(***************************************************************************)
EXTENDS Integers, Sequences, FiniteSets, FiniteSetsExt

CONSTANTS
  Values,       \* the row values, NULL among them: a set operation equates NULLs
  RefusedOp     \* the statement is answered with an error

Once(bag) == [v \in Values |-> Min({bag[v], 1})]

Branch(bag) == [bag |-> bag, distinct |-> FALSE]

Distinct(b) == [bag |-> Once(b.bag), distinct |-> TRUE]

-----------------------------------------------------------------------------
(* The reference: PostgreSQL's row counts.                                 *)

SetOp(op, quantifier, l, r) ==
  LET counted == [v \in Values |->
        CASE op = "union"     -> l[v] + r[v]
          [] op = "intersect" -> Min({l[v], r[v]})
          [] op = "except"    -> Max({l[v] - r[v], 0})]
      once == [v \in Values |->
        CASE op = "union"     -> Max({Once(l)[v], Once(r)[v]})
          [] op = "intersect" -> Min({Once(l)[v], Once(r)[v]})
          [] op = "except"    -> Max({Once(l)[v] - Once(r)[v], 0})]
  IN  IF quantifier = "distinct" THEN once ELSE counted

-----------------------------------------------------------------------------
(* The pipeline.                                                           *)

CountsDuplicates(op) == op \in {"intersect", "except"}

\* mark_set_expr: the right branch of an ALL is wrapped in the marker relation.
Marked(op, quantifier) == CountsDuplicates(op) /\ quantifier = "all"

\* Which rows of the left branch the planner's join keeps: all of a value's
\* rows or none.
SemiOrAnti(op, l, r) ==
  [v \in Values |-> IF (r[v] > 0) = (op = "intersect") THEN l[v] ELSE 0]

\* (Mutant: the duplicates of the left branch are numbered from zero.)
CountDuplicatesFromZero(op, l, r) ==
  [v \in Values |-> Cardinality({i \in 0..(l[v] - 1) : (i \in 1..r[v]) = (op = "intersect")})]

\* count_duplicates: the i-th copy on the left has a partner when the right
\* branch has an i-th copy.
CountDuplicates(op, l, r) ==
  [v \in Values |-> Cardinality({i \in 1..l[v] : (i \in 1..r[v]) = (op = "intersect")})]

\* What the planner gives the pass: the DISTINCT form wraps its left branch.
LeftInput(quantifier, l) == IF quantifier = "distinct" THEN Distinct(l) ELSE l

\* classify, and what becomes of the join.
Joined(op, marked, l, r) ==
  CASE marked             -> Branch(CountDuplicates(op, l.bag, r.bag))
    [] ~marked /\ ~l.distinct -> RefusedOp
    [] OTHER              -> Branch(SemiOrAnti(op, l.bag, r.bag))

\* One set operation over two planned branches; the pass works bottom-up.
Planned(op, quantifier, l, r) ==
  CASE RefusedOp \in {l, r} -> RefusedOp
    [] CountsDuplicates(op) /\ quantifier = "all_by_name" -> RefusedOp
    [] CountsDuplicates(op) -> Joined(op, Marked(op, quantifier), LeftInput(quantifier, l), r)
    [] quantifier = "distinct" -> Distinct(Branch([v \in Values |-> l.bag[v] + r.bag[v]]))
    [] OTHER -> Branch([v \in Values |-> l.bag[v] + r.bag[v]])

-----------------------------------------------------------------------------
(* The type check.  A branch column is a value of one of the type groups,  *)
(* of a type the check does not judge, or PostgreSQL's unknown: a bare     *)
(* literal of the branch's own select list, through the wrappers of        *)
(* column_is_unknown, but not one of a VALUES list.                        *)

Groups == {"numeric", "text", "binary", "boolean", "datetime", "time", "interval"}

\* group_of, and the literals that have no type of their own.
GroupOf(column) ==
  CASE column \in {"literal", "parameter", "aliased_literal"} -> "unknown"
    [] column \in {"values_literal", "cast_literal"} -> "text"
    [] column = "nested_type" -> "unjudged"
    [] OTHER -> column

Judged(column) == GroupOf(column) \in Groups

\* check_branches: the first judged branch is the candidate, and every later
\* one has to be of its group.
TypesMeet(columns) ==
  LET judged == {i \in DOMAIN columns : Judged(columns[i])}
  IN  \A i \in judged : GroupOf(columns[i]) = GroupOf(columns[Min(judged)])
=============================================================================
