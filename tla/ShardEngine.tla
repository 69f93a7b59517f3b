----------------------------- MODULE ShardEngine -----------------------------
(***************************************************************************)
(* SQL statements, and what one engine does with one of them on the rows   *)
(* it holds (external: DuckDB, used by the shards through the write queue). *)
(***************************************************************************)
EXTENDS RoutingValue, FiniteSets, FiniteSetsExt, Functions

CONSTANT Meta  \* table -> [cols, types, key, buckets, nodes, anonymized]

Tables == DOMAIN Meta
Columns(t) == ToSet(Meta[t].cols)

\* The members of a set in some order.
Listed(S) == FoldSet(LAMBDA x, seq : Append(seq, x), <<>>, S)

(***************************************************************************)
(* A statement, with every part it can have. "form" holds the clauses that *)
(* only matter for being refused.                                          *)
(*   insert  rows or a query over "source" into cols, with a conflict clause *)
(*   copy    a batch of typed rows                                         *)
(*   update, delete  where, and the assignments "set"                      *)
(*   merge   rows (an inline list with columns cols) or the table "source" *)
(***************************************************************************)
Statement(op, t) ==
    [op |-> op, table |-> t, cols |-> <<>>, rows |-> <<>>, limit |-> <<>>,
     conflict |-> [action |-> "none", target |-> "none", set |-> <<>>],
     where |-> <<>>, set |-> <<>>, tuple |-> FALSE, params |-> <<>>, types |-> <<>>,
     source |-> "", on |-> <<>>, clauses |-> <<>>, sets |-> "", reads |-> "", form |-> {}]

(***************************************************************************)
(* The engine of one shard (external: DuckDB). A table is a set of rows    *)
(* with its key unique; a statement is all or nothing.                     *)
(***************************************************************************)
Outcome(ok, rows, n) == [ok |-> ok, rows |-> rows, n |-> n]

\* A WHERE clause in conjunctive form: each conjunct is a set of equalities of
\* which one must hold.
Holds(t, where, params, row) ==
    \A i \in DOMAIN where : \E eq \in where[i] :
        /\ row[eq.col] # NullCell
        /\ row[eq.col] = Stored(Meta[t].types[eq.col], eq.e, params)

\* A row of the VALUES list as the engine stores it, columns not named are NULL.
RowOf(t, cols, exprs, params) ==
    [c \in Columns(t) |->
        IF \E i \in DOMAIN cols : cols[i] = c
        THEN LET i == CHOOSE i \in DOMAIN cols : cols[i] = c
             IN Stored(Meta[t].types[c], exprs[i], params)
        ELSE NullCell]

AsOne(before, end) == IF end.ok THEN end ELSE Outcome(FALSE, before, 0)

NewRows(t, st) == [i \in DOMAIN st.rows |-> RowOf(t, st.cols, st.rows[i], st.params)]
Limited(limit, new) == IF limit = <<>> THEN new ELSE SubSeq(new, 1, Min({limit[1], Len(new)}))

SetOnConflict(t, st, x) ==
    [c \in Columns(t) |-> IF c \in DOMAIN st.conflict.set
                          THEN Stored(Meta[t].types[c], st.conflict.set[c], st.params)
                          ELSE x[c]]

\* The rows with r's key; one command may not update a row it wrote.
Resolve(t, st, before, acc, same) ==
    CASE st.conflict.action = "none"    -> [acc EXCEPT !.ok = FALSE]
      [] st.conflict.action = "nothing" -> acc
      [] same \intersect before = {}     -> [acc EXCEPT !.ok = FALSE]
      [] OTHER -> Outcome(acc.ok, (acc.rows \ same) \union {SetOnConflict(t, st, x) : x \in same},
                          acc.n + 1)

AddRow(t, st, before, acc, r) ==
    IF r[Meta[t].key] = NullCell \/ \E c \in Columns(t) : r[c] = BadCell
    THEN [acc EXCEPT !.ok = FALSE]
    ELSE IF \A x \in acc.rows : x[Meta[t].key] # r[Meta[t].key]
    THEN Outcome(acc.ok, acc.rows \union {r}, acc.n + 1)
    ELSE Resolve(t, st, before, acc, {x \in acc.rows : x[Meta[t].key] = r[Meta[t].key]})

EngineInsert(t, rows, st) ==
    AsOne(rows, FoldLeft(LAMBDA acc, r : AddRow(t, st, rows, acc, r),
                         Outcome(TRUE, rows, 0), Limited(st.limit, NewRows(t, st))))

Hit(t, rows, st) == {r \in rows : Holds(t, st.where, st.params, r)}
Assigned(t, st) == [c \in DOMAIN st.set |-> Stored(Meta[t].types[c], st.set[c], st.params)]

Update(rows, hit, set) ==
    IF hit # {} /\ BadCell \in Range(set) THEN Outcome(FALSE, rows, 0)
    ELSE Outcome(TRUE, (rows \ hit) \union {set @@ r : r \in hit}, Cardinality(hit))

EngineUpdate(t, rows, st) == Update(rows, Hit(t, rows, st), Assigned(t, st))

Delete(rows, hit) == Outcome(TRUE, rows \ hit, Cardinality(hit))
EngineDelete(t, rows, st) == Delete(rows, Hit(t, rows, st))

\* One MERGE of the target's rows with the source's. The clauses are tried in
\* order; a source row inserts at most once and a target row changes at most once.
Joined(st, r, s) == \A i \in DOMAIN st.on : \E eq \in st.on[i] :
                        r[eq.target] # NullCell /\ r[eq.target] = s[eq.source]
ClauseFor(st, when) == SelectSeq(st.clauses, LAMBDA c : c.when = when)
DoesWhen(st, when, what) == \E c \in {ClauseFor(st, when)} : c # <<>> /\ c[1].do = what

Updated(st, source, r) ==
    [r EXCEPT ![st.sets] = (CHOOSE s \in source : Joined(st, r, s))[st.reads]]
Inserted(t, st, s) ==
    [c \in Columns(t) |-> IF c = Meta[t].key THEN s[ClauseFor(st, "not_matched")[1].key]
                          ELSE s[st.reads]]

MergeOutcome(t, before, kept, inserted, changed, new) ==
    IF /\ \A r \in inserted : r[Meta[t].key] # NullCell
       /\ \A r, q \in kept \union inserted : r[Meta[t].key] = q[Meta[t].key] => r = q
       /\ kept \intersect inserted = {}
       /\ Cardinality(inserted) = new
    THEN Outcome(TRUE, kept \union inserted, changed + new)
    ELSE Outcome(FALSE, before, 0)

MergeSets(t, rows, source, st, updated, deleted, added) ==
    MergeOutcome(t, rows,
                 (rows \ (updated \union deleted)) \union {Updated(st, source, r) : r \in updated},
                 {Inserted(t, st, s) : s \in added},
                 Cardinality(updated) + Cardinality(deleted), Cardinality(added))

MergeMatched(t, rows, source, st, matched) ==
    MergeSets(t, rows, source, st,
              {r \in matched : DoesWhen(st, "matched", "update")},
              {r \in rows : DoesWhen(st, IF r \in matched THEN "matched" ELSE "not_matched_by_source",
                                     "delete")},
              {s \in source : /\ DoesWhen(st, "not_matched", "insert")
                              /\ \A r \in rows : ~ Joined(st, r, s)})

EngineMerge(t, rows, source, st) ==
    MergeMatched(t, rows, source, st, {r \in rows : \E s \in source : Joined(st, r, s)})
-----------------------------------------------------------------------------
(***************************************************************************)
(* Rows turned back into literals (write_sql_cl/rows.rs).                  *)
(***************************************************************************)
\* literal_kind and cell_literal: an integer is a bare number, the rest of the
\* spellable types are quoted.
Spellable(type) == type \in {"int", "text", "float"}
CellLiteral(type, e) ==
    IF e.form = "null" THEN e ELSE Expr(IF type = "int" THEN "number" ELSE "quoted", e.body)

Literals(st) ==
    [st EXCEPT !.op = "insert",
               !.rows = [r \in DOMAIN @ |-> [i \in DOMAIN @[r] |-> CellLiteral(st.types[i], @[r][i])]]]

\* A stored cell as the read path renders it: a numeral of at most two digits
\* and a fraction (the bound of this model), or the text.
Rendered(cell) ==
    LET m == IF cell.num < 0 THEN -cell.num ELSE cell.num
        i == TrimStart(<<m \div 10000, (m \div 1000) % 10>>)
    IN CASE cell.kind = "null"   -> NullExpr
         [] cell.kind = "number" ->
              Expr("cell", Body(IF cell.num < 0 THEN "-" ELSE "", IF i = <<>> THEN <<0>> ELSE i,
                                TrimEnd(<<(m \div 100) % 10, (m \div 10) % 10, m % 10>>), <<>>))
         [] OTHER                -> Expr("cell", cell.body)

\* handle_insert_from_query: SELECT * of the source, read to the end first.
Selected(st, contents) ==
    LET rows == Listed(contents)
        cols == Meta[st.source].cols
    IN [st EXCEPT !.rows = [r \in DOMAIN rows |-> [i \in DOMAIN cols |-> Rendered(rows[r][cols[i]])]],
                  !.types = [i \in DOMAIN cols |-> IF Meta[st.source].types[cols[i]] = "number"
                                                   THEN "int" ELSE "text"],
                  !.cols = IF @ = <<>> THEN SubSeq(Meta[st.table].cols, 1, Len(cols)) ELSE @]
-----------------------------------------------------------------------------
\* The answer to a statement: done with a row count, refused with nothing
\* written, failed, or failed after saying how many rows were written.
Answer(tag, n) == [tag |-> tag, rows |-> n]

\* The rows of an inline list a MERGE reads.
ListRows(st) ==
    {[c \in ToSet(st.cols) |->
         LET i == CHOOSE i \in DOMAIN st.cols : st.cols[i] = c
         IN Stored(Meta[st.table].types[c], st.rows[r][i], st.params)] : r \in DOMAIN st.rows}

\* What a statement does to a set of rows of its table; source is what a MERGE
\* from a table reads.
Effect(st, rows, source) ==
    CASE st.op = "insert" -> EngineInsert(st.table, rows, st)
      [] st.op = "update" -> EngineUpdate(st.table, rows, st)
      [] st.op = "delete" -> EngineDelete(st.table, rows, st)
      [] st.op = "merge"  -> EngineMerge(st.table, rows,
                                         IF st.source = "" THEN ListRows(st) ELSE source, st)
==============================================================================
