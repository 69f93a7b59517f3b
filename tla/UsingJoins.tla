----------------------------- MODULE UsingJoins -----------------------------
(***************************************************************************)
(* The key of a USING or NATURAL join.  PostgreSQL's join has three names  *)
(* for it: the merged `k`, and each side's own `l.k` and `r.k`.  The plan  *)
(* has two fields.  Three passes make up the third name: a block that      *)
(* qualifies a key of a full or right join is respelled with ON and        *)
(* COALESCE (pg_using_join_qualifiers.rs), a bare key in WHERE is          *)
(* qualified (pg_using_join_where_keys.rs), and the plan's two fields are  *)
(* overwritten with the merged value (pg_using_join_merge.rs).             *)
(*                                                                         *)
(* A query block joins l and r, and may join c after them by the same key. *)
(* It is evaluated on one joined row: the key each relation has there, or  *)
(* NULL where the relation has no row.                                     *)
(***************************************************************************)
EXTENDS Integers, FiniteSets

CONSTANTS
  NoKey,        \* the NULL of an absent side
  RefusedBlock  \* the statement is answered with an error

Kinds == {"inner", "left", "right", "full"}

Coalesce(a, b) == IF a # NoKey THEN a ELSE b

\* The joined rows a chain of joins can produce; a key is the same on every side
\* that has it.
Side(kind, l, r) == /\ kind \in {"inner", "left"} => l # NoKey
                    /\ kind \in {"inner", "right"} => r # NoKey
                    /\ Coalesce(l, r) # NoKey

-----------------------------------------------------------------------------
(* The reference: what PostgreSQL's names are worth on a joined row.       *)

Merge(kind, l, r) == IF kind = "right" THEN r ELSE IF kind = "full" THEN Coalesce(l, r) ELSE l

MergedKey(b, row) ==
  IF b.then = "none" THEN Merge(b.kind, row.l, row.r)
  ELSE Merge(b.then, Merge(b.kind, row.l, row.r), row.c)

\* The names of a block: the bare key, a side's key, that key under an alias,
\* and the key as a wildcard reports it.
Means(b, ref, row) ==
  CASE ref \in {"l", "l_as"} -> row.l
    [] ref = "r"             -> row.r
    [] OTHER                 -> MergedKey(b, row)

\* A bare name in ORDER BY is an output column first.
SortKey(b, row) ==
  CASE b.order = "bare" /\ "l" \in b.select -> row.l
    [] b.order = "bare" /\ "r" \in b.select -> row.r
    [] OTHER -> Means(b, b.order, row)

-----------------------------------------------------------------------------
(* split_qualified_using_keys.                                             *)

\* candidate_joins: a full or right USING join of two relations that can be
\* named.
Candidate(b) == b.kind \in {"full", "right"} /\ b.by = "using" /\ b.named

Qualified == {"l", "l_as", "r"}

\* qualifies_a_key: in this block, or in a subquery that does not name a
\* relation of its own after the side.
QualifiesAKey(b) ==
  \/ (b.select \cup {b.where, b.order}) \cap Qualified # {}
  \/ b.subquery = "outer_l"

Split(b) == Candidate(b) /\ QualifiesAKey(b)

\* reject_a_wildcard and reject_a_merged_key_beside_its_own_name.
SplitRefuses(b) ==
  \/ "star" \in b.select
  \/ "bare" \in b.select /\ ((b.select \cap {"l", "r"}) # {} \/ b.order \in {"l", "r"})

-----------------------------------------------------------------------------
(* qualify_using_keys_in_where, on a block the first pass left alone: which *)
(* fields the bare key of the predicate reads.                              *)

WhereKey(b) == CASE b.kind = "full"  -> "coalesce"
                 [] b.kind = "right" -> "r"
                 [] OTHER            -> "l"

\* A NATURAL join's keys come from the catalog, which has none for a view or a
\* derived table.
Resolvable(b) == b.named /\ (b.by = "natural" => b.tables)

-----------------------------------------------------------------------------
(* merge_using_join_keys: the fields of the joined row once the plan's     *)
(* full and right USING joins have been merged.  The second join compares  *)
(* c's key with l's, the first field of that name.                         *)

\* (Mutant: only the left field is overwritten.)
FieldsLeftOnly(b, row) ==
  [row EXCEPT !.l = IF b.kind \in {"full", "right"} /\ ~Split(b) THEN Coalesce(row.l, row.r)
                    ELSE row.l]

Fields(b, row) ==
  LET first == IF b.kind \in {"full", "right"} /\ ~Split(b)
               THEN [row EXCEPT !.l = Coalesce(row.l, row.r), !.r = Coalesce(row.l, row.r)]
               ELSE row
  IN  IF b.then \in {"full", "right"}
      THEN [first EXCEPT !.l = Coalesce(first.l, row.c), !.c = Coalesce(first.l, row.c)]
      ELSE first

\* A wildcard reports whichever of the two fields sorts first, b.first.
Reads(b, ref, fields) ==
  CASE ref \in {"l", "l_as"} -> fields.l
    [] ref = "r"             -> fields.r
    [] ref = "coalesce"      -> Coalesce(fields.l, fields.r)
    [] ref = "star"          -> IF b.first = "l" THEN fields.l ELSE fields.r
    [] OTHER                 -> IF Split(b) THEN Coalesce(fields.l, fields.r) ELSE fields.l

Selects(b, fields) == [ref \in b.select |-> Reads(b, ref, fields)]

\* What the ORDER BY sorts by: a bare key is the output column of that name if
\* there is one (output_labels).
Sorts(b, fields) ==
  CASE b.order = "bare" /\ "l" \in b.select -> fields.l
    [] b.order = "bare" /\ "r" \in b.select -> fields.r
    [] OTHER -> Reads(b, b.order, fields)

Filters(b, fields) ==
  IF b.where = "bare" /\ ~Split(b) THEN Reads(b, WhereKey(b), fields)
  ELSE Reads(b, b.where, fields)

Refuses(b) ==
  \/ Split(b) /\ SplitRefuses(b)
  \/ Split(b) /\ b.then # "none"                 \* the second USING finds two keys
  \/ b.where = "bare" /\ ~Split(b) /\ ~Resolvable(b)

Answer(b, fields) ==
  [select |-> Selects(b, fields), where |-> Filters(b, fields), order |-> Sorts(b, fields)]

Reference(b, row) ==
  [select |-> [ref \in b.select |-> Means(b, ref, row)],
   where  |-> Means(b, b.where, row), order |-> SortKey(b, row)]

Answered(b, row) == IF Refuses(b) THEN RefusedBlock ELSE Answer(b, Fields(b, row))
=============================================================================
