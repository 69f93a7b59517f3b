------------------------------ MODULE MCQuery ------------------------------
(***************************************************************************)
(* What a read computes, in parts that share nothing.  The read path's     *)
(* rewrites: a question is one statement, and the invariants put it to     *)
(* every small row or bag.  The aggregates: a call, the rows of its group  *)
(* on two shards, and the steps of the plan's layout.                      *)
(***************************************************************************)
EXTENDS Aggregates, TLC

CONSTANTS s1, s2

VARIABLE question

SQ == INSTANCE Subqueries
SO == INSTANCE SetOperations WITH Values <- {1, 2}, RefusedOp <- Refused
UJ == INSTANCE UsingJoins WITH NoKey <- Null, RefusedBlock <- Refused

-----------------------------------------------------------------------------
(* Subquery predicates.                                                    *)

Subqs == [corr : {"none", "bare", "equal", "other"}, cols : {"one", "star", "two"}, grouped : {FALSE}]
           \cup [corr : {"equal", "none"}, cols : {"one"}, grouped : {TRUE}]

Leaf(k, n, o, op, q) == [kind |-> k, neg |-> n, operand |-> o, op |-> op, q |-> q]

Leaves ==
  {Leaf("in", n, o, "=", q) : n \in BOOLEAN, o \in {"column", "call", "subquery", "tuple"}, q \in Subqs}
  \cup {Leaf("exists", n, "column", "=", q) : n \in BOOLEAN, q \in Subqs}
  \cup {Leaf(k, FALSE, o, op, q) : k \in {"any", "all"}, o \in {"column", "subquery"},
                                   op \in {"=", "<>", "<"}, q \in Subqs}

Ops == {"not", "and", "or", "case", "case_not"}
Paths == {<<>>} \cup {<<a>> : a \in Ops} \cup {<<a, b>> : a \in Ops, b \in {"not", "and", "or"}}

Rows == {r \in [x : {1, 2, Null}, cands : SUBSET {1, 2, Null}, p : {TRUE, FALSE, Null},
                xNullable : BOOLEAN, cNullable : BOOLEAN] :
           (r.x = Null => r.xNullable) /\ (Null \in r.cands => r.cNullable)}

AskSubquery ==
  /\ question.part = "none"
  /\ \E pos \in {question.clause}, path \in Paths, leaf \in Leaves,
        lane \in {"read", "embedded"}, aliased \in BOOLEAN :
       /\ aliased => pos = "on" /\ path \in {<<>>, <<"and">>} /\ lane = "read"
       /\ question' = [part |-> "subquery", pos |-> pos, path |-> path, leaf |-> leaf,
                       lane |-> lane, aliased |-> aliased]

\* A NOT IN reached by a NOT the rewrite does not descend through.
UnderNot(st) ==
  /\ \E i \in DOMAIN st.path : st.path[i] = "not"
  /\ SQ!IsIn(SQ!AsIn(st.leaf))
  /\ ~(SQ!IsNotIn(SQ!AsIn(st.leaf)) /\ st.path = <<"not">>)

(***************************************************************************)
(* A subquery predicate is answered as PostgreSQL answers it, NULLs and    *)
(* empty subqueries included, or the statement is refused; outside a NOT   *)
(* above an IN, see SubqueriesAreExactUnderNot.                            *)
(***************************************************************************)
SubqueriesAreExact ==
  (question.part = "subquery" /\ ~UnderNot(question)) =>
    \A row \in Rows : SQ!Outcome(question, row) \in {Refused, SQ!Reference(question, row)}

(***************************************************************************)
(* pg_not_in_nulls.rs:23: no NOT IN (subquery) can answer a row            *)
(* PostgreSQL would not, wherever it stands.                               *)
(***************************************************************************)
SubqueriesAreExactUnderNot ==
  question.part = "subquery" =>
    \A row \in Rows : SQ!Outcome(question, row) \in {Refused, SQ!Reference(question, row)}

\* What the module docs say works: a NOT IN over one column of a self-contained
\* subquery in a clause of AND and OR, a NOT IN over columns without NULLs, and
\* a quantified comparison in a conjunction.
Promised(st, leaf, row) ==
  /\ st.lane = "read" /\ st.leaf.q.cols = "one" /\ leaf.operand = "column" /\ ~st.aliased
  /\ \/ SQ!IsNotIn(leaf) /\ st.pos \in SQ!TruthClauses /\ SQ!Only(st.path, {"and", "or"})
          /\ leaf.q.corr = "none"
     \/ SQ!IsNotIn(leaf) /\ st.pos \in SQ!TruthClauses /\ ~SQ!NullsArePossible(row)
          /\ leaf.q.corr # "bare"
     \/ SQ!Quantified(leaf) /\ st.pos \in SQ!TruthClauses /\ SQ!Only(st.path, {"and"})

(***************************************************************************)
(* The forms the rewrites are there for are answered rather than refused:  *)
(* the residue checks never meet what a rewrite could have taken.          *)
(***************************************************************************)
SubqueriesAreAnswered ==
  question.part = "subquery" =>
    \A row \in Rows : Promised(question, SQ!AsIn(question.leaf), row)
                        => SQ!Outcome(question, row) # Refused

(***************************************************************************)
(* A subquery predicate is answered as PostgreSQL answers it, never with a *)
(* row it would not, and what the rewrites are there for is answered       *)
(* rather than refused.                                                    *)
(***************************************************************************)
SubqueriesMeanTheSame == SubqueriesAreExact /\ SubqueriesAreAnswered

-----------------------------------------------------------------------------
(* Set operations: (A op B) op C and A op (B op C), and the types of a     *)
(* column of three branches.                                               *)

Quantifiers == {"distinct", "all", "all_by_name"}
SetOps == {"union", "intersect", "except"}
Columns == {"numeric", "text", "datetime", "literal", "parameter", "aliased_literal",
            "values_literal", "cast_literal", "nested_type"}

AskSetOperation ==
  /\ question.part = "none" /\ question.clause = "select"
  /\ \E o1, o2 \in SetOps, q1, q2 \in Quantifiers, leftDeep \in BOOLEAN :
       question' = [part |-> "set_op", o1 |-> o1, o2 |-> o2, q1 |-> q1, q2 |-> q2,
                    leftDeep |-> leftDeep]

AskTypes ==
  /\ question.part = "none" /\ question.clause = "select"
  /\ \E columns \in [1 .. 2 -> Columns] \cup [1 .. 3 -> Columns] :
       question' = [part |-> "types", columns |-> columns]

Bags == [{1, 2} -> 0 .. 2]

Planned2(s, a, b, c) ==
  IF s.leftDeep THEN SO!Planned(s.o2, s.q2, SO!Planned(s.o1, s.q1, a, b), c)
                ELSE SO!Planned(s.o1, s.q1, a, SO!Planned(s.o2, s.q2, b, c))

Reference2(s, a, b, c) ==
  IF s.leftDeep THEN SO!SetOp(s.o2, s.q2, SO!SetOp(s.o1, s.q1, a, b), c)
                ELSE SO!SetOp(s.o1, s.q1, a, SO!SetOp(s.o2, s.q2, b, c))

CountsAgree(planned, bag) == planned = Refused \/ planned.bag = bag

ByName(s) == \/ s.q1 = "all_by_name" /\ s.o1 # "union"
             \/ s.q2 = "all_by_name" /\ s.o2 # "union"

(***************************************************************************)
(* INTERSECT ALL and EXCEPT ALL keep PostgreSQL's number of copies, at any *)
(* nesting with the other set operations; only BY NAME is refused.         *)
(***************************************************************************)
MultiplicitiesAreKept ==
  question.part = "set_op" =>
    \A a, b, c \in Bags :
      LET planned == Planned2(question, SO!Branch(a), SO!Branch(b), SO!Branch(c))
      IN  /\ CountsAgree(planned, Reference2(question, a, b, c))
          /\ planned = Refused => ByName(question)

\* PostgreSQL resolves a chain pairwise, from the left, and two unknowns to text.
PgPair(t, u) ==
  CASE "clash" \in {t, u}          -> "clash"
    [] t = "unknown" /\ u = "unknown" -> "text"
    [] t = "unknown"               -> u
    [] u = "unknown" \/ t = u      -> t
    [] OTHER                       -> "clash"

PgType(t1, rest) == IF Len(rest) = 1 THEN PgPair(t1, rest[1])
                    ELSE PgPair(PgPair(t1, rest[1]), rest[2])

TypesOf(columns) == [i \in DOMAIN columns |-> SO!GroupOf(columns[i])]

(***************************************************************************)
(* The type check refuses exactly the chains PostgreSQL refuses, among     *)
(* the types it judges; of a chain that opens with two literals it lets    *)
(* more through.                                                           *)
(***************************************************************************)
TypesMeetAsInPostgres ==
  (question.part = "types" /\ "unjudged" \notin Range(TypesOf(question.columns))) =>
    \E types \in {TypesOf(question.columns)} :
      SO!TypesMeet(question.columns) = (PgType(types[1], Tail(types)) # "clash")
        \/ (types[1] = "unknown" /\ types[2] = "unknown" /\ SO!TypesMeet(question.columns))

(***************************************************************************)
(* Both halves of what set operations promise: the rows come as often, and *)
(* the branches' types meet, as in PostgreSQL.                             *)
(***************************************************************************)
SetOperationsAreExact == MultiplicitiesAreKept /\ TypesMeetAsInPostgres

-----------------------------------------------------------------------------
(* Joins by USING and NATURAL.                                             *)

AskUsing ==
  /\ question.part = "none" /\ question.clause = "on"
  /\ \E kind \in UJ!Kinds, then \in UJ!Kinds \cup {"none"}, by \in {"using", "natural"},
        named, tables \in BOOLEAN, select \in SUBSET {"bare", "l", "l_as", "r", "star"},
        where, order \in {"none", "bare", "l", "r"}, subquery \in {"none", "outer_l", "own_l"},
        first \in {"l", "r"} :
       /\ select # {} /\ (then # "none" => "star" \notin select)
       /\ (first = "r" => "star" \in select) /\ (tables => named)
       /\ question' = [part |-> "using", kind |-> kind, then |-> then, by |-> by, named |-> named,
                       tables |-> tables, select |-> select, where |-> where, order |-> order,
                       subquery |-> subquery, first |-> first]

JoinedRows(b) ==
  {r \in [l : {1, Null}, r : {1, Null}, c : {1, Null}] :
     IF b.then = "none" THEN r.c = Null /\ UJ!Side(b.kind, r.l, r.r)
     ELSE /\ UJ!Side(b.kind, r.l, r.r) \/ (r.l = Null /\ r.r = Null)
          /\ UJ!Side(b.then, UJ!Merge(b.kind, r.l, r.r), r.c)}

\* Where the module docs give up PostgreSQL's meaning: a key qualified by a side
\* of a full or right join the split does not take.
Documented(b) ==
  /\ {b.kind, b.then} \cap {"full", "right"} # {} /\ ~UJ!Split(b)
  /\ UJ!QualifiesAKey(b)

\* Two differences the module docs do not list: the wildcard of a left join
\* reports the right key when its qualifier sorts first, and the bare key of a
\* WHERE is the right key of the first join when a full or right join follows.
LeftWildcard(b) == b.kind = "left" /\ "star" \in b.select /\ b.first = "r"
ChainedWhere(b) == b.kind = "right" /\ b.then \in {"full", "right"} /\ b.where = "bare"

(***************************************************************************)
(* On every joined row the merged key and each side's own key read as      *)
(* PostgreSQL's in the select list, WHERE and ORDER BY, or the statement   *)
(* is refused.                                                             *)
(***************************************************************************)
UsingKeysAreExact ==
  /\ question.part = "using"
  /\ ~Documented(question) /\ ~LeftWildcard(question) /\ ~ChainedWhere(question)
  =>
    \A row \in JoinedRows(question) :
      UJ!Answered(question, row) \in {Refused, UJ!Reference(question, row)}

-----------------------------------------------------------------------------
(* Aggregates.                                                             *)

Plain(fn, distinct, scale, type) ==
  [fn |-> fn, distinct |-> distinct, scale |-> scale, type |-> type, arg |-> Null,
   descending |-> FALSE, nullsFirst |-> FALSE, documents |-> FALSE]

Numeric ==
  {Plain(fn, d, sc, "int8") : fn \in Stats, d \in BOOLEAN, sc \in {0, 1}}
    \cup {Plain("avg", d, 0, "int8") : d \in BOOLEAN}
    \cup {Plain("sum", FALSE, 0, t) : t \in {"int4", "int8"}}

Ordered ==
  {[Plain(fn, d, 0, "int8") EXCEPT !.arg = f, !.descending = o] :
      fn \in Percentiles, f \in {<<0, 1>>, <<1, 3>>, <<1, 2>>, <<1, 1>>, <<2, 1>>},
      o \in BOOLEAN, d \in {FALSE}}
    \cup {[Plain("mode", d, 0, "int8") EXCEPT !.descending = o] : o \in BOOLEAN, d \in BOOLEAN}
    \cup {[Plain(fn, FALSE, 0, "int8") EXCEPT !.arg = v, !.descending = o, !.nullsFirst = f] :
           fn \in Ranks, v \in {2, Null}, o \in BOOLEAN, f \in BOOLEAN}
    \cup {[Plain("json_agg", FALSE, 0, "int8") EXCEPT !.documents = b] : b \in BOOLEAN}

GroupRows(n) == UNION {[1 .. k -> {-3, 2, 60, Null}] : k \in 0 .. n}

AskAggregate ==
  /\ call \in Numeric \cup Ordered
  /\ layout \in {"partial", "single", "window"}
  /\ todo \in [Shards -> GroupRows(2)]
  /\ layout # "partial" => todo[s2] = <<>>
  /\ layout = "window" => SupportsRetract(call)
  /\ call.type = "int4" => 60 \notin UNION {ToSet(todo[s]) : s \in Shards}

NoAggregate == call = Plain("avg", FALSE, 0, "int8") /\ layout = "partial" /\ todo = [s \in Shards |-> <<>>]

-----------------------------------------------------------------------------
MCInit ==
  /\ Init
  /\ \/ question = [part |-> "aggregate"] /\ AskAggregate
     \/ question \in [part : {"none"}, clause : SQ!TruthClauses \cup {"select", "order"}] /\ NoAggregate

MCNext ==
  \/ (AskSubquery \/ AskSetOperation \/ AskTypes \/ AskUsing) /\ UNCHANGED vars
  \/ question.part = "aggregate" /\ Next /\ UNCHANGED question

MCSpec == MCInit /\ [][MCNext]_<<vars, question>>
=============================================================================
