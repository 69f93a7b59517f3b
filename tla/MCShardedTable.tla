--------------------------- MODULE MCShardedTable ---------------------------
(***************************************************************************)
(* Five small tables, and statements that spell the same keys in many ways. *)
(***************************************************************************)
EXTENDS ShardedTable

Table(key, anonymized) ==
    [cols |-> <<"id", "v">>, types |-> [id |-> "number", v |-> "text"], key |-> key,
     buckets |-> 2, nodes |-> [b \in 0 .. 1 |-> {b}], anonymized |-> anonymized]

MCMeta == [orders |-> Table("id", <<>>),
           inbox  |-> Table("id", <<>>),
           byv    |-> Table("v", <<>>),
           people |-> Table("id", [v |-> "pepper"]),
           staff  |-> Table("id", [v |-> "pepper"])]

\* A hash that depends on every part of a text.
MCHash(text) ==
    (IF text.body.word = "" THEN FoldLeft(LAMBDA n, d : n + d, 0, text.body.int \o text.body.frac)
                                 + Len(text.body.int \o text.body.frac)
     ELSE IF text.body.word = "a" THEN 0 ELSE 1)
    + (IF text.body.sign = "" THEN 0 ELSE 1)
    + (IF text.quote = "E'" THEN 1 ELSE 0)

Digit(d)  == Body("", <<d>>, <<>>, <<>>)
Num(d)    == Expr("number", Digit(d))
Txt(w)    == Expr("quoted", Word(w))

\* The spellings of the keys 1 and 10, with the parameters they need.
Spelled(e)  == [e |-> e, params |-> <<>>]
Bound(s)    == [e |-> Param(1), params |-> <<s>>]
Ones == <<Spelled(Num(1)), Spelled(Expr("quoted", Digit(1))),
         Spelled(Expr("number", Body("", <<0, 1>>, <<0>>, <<>>))),
         Spelled(Expr("number", Body("", <<1, 0>>, <<>>, <<-1>>))),
         Spelled(Expr("quoted", Body("", <<>>, <<0, 1>>, <<2>>))),
         Spelled(Expr("signed", Body("+", <<1>>, <<>>, <<0>>))),
         Bound(Scalar("int", Digit(1), 0)), Bound(Scalar("text", Body("", <<1>>, <<0>>, <<>>), 0)),
         Bound(Scalar("decimal", Body("", <<1, 0>>, <<>>, <<>>), 1))>>
Tens == <<Spelled(Expr("number", Body("", <<1>>, <<>>, <<1>>))),
         Bound(Scalar("decimal", Digit(1), -1))>>
Keys == Ones \o Tens
PlusOne == Spelled(Expr("signed", Body("+", <<1>>, <<>>, <<>>)))

Values(t, cols, rows, params) ==
    [Statement("insert", t) EXCEPT !.cols = cols, !.rows = rows, !.params = params]
OnConflict(st, target, action, set) ==
    [st EXCEPT !.conflict = [action |-> action, target |-> target, set |-> set]]
Eq(c, e) == {[col |-> c, e |-> e, bare |-> TRUE]}
Qualified(c, e) == {[col |-> c, e |-> e, bare |-> FALSE]}
Where(st, cnf, params) == [st EXCEPT !.where = cnf, !.params = params]
Setting(t, set) == [Statement("update", t) EXCEPT !.set = set]

Inserts ==
    [i \in DOMAIN Keys |-> Values("orders", <<"id", "v">>, <<<<Keys[i].e, Txt("a")>>>>, Keys[i].params)]
    \o <<Values("orders", <<>>, <<<<Num(1), Txt("a")>>, <<Num(2), Txt("b")>>>>, <<>>),
            Values("orders", <<"v", "id">>, <<<<Param(3), Num(2)>>, <<Param(1), Param(2)>>>>,
                   <<Scalar("text", Word("b"), 0), Scalar("int", Digit(1), 0), Scalar("text", Word("a"), 0)>>),
            OnConflict(Values("orders", <<"id", "v">>, <<<<Num(1), Txt("b")>>, <<Num(2), Txt("b")>>>>, <<>>),
                       "key", "nothing", <<>>),
            OnConflict(Values("orders", <<"id", "v">>, <<<<Num(2), Txt("a")>>, <<Num(1), Txt("a")>>>>,
                              <<Scalar("text", Word("b"), 0)>>),
                       "none", "update", [v |-> Param(1)]),
            OnConflict(Values("orders", <<"id", "v">>, <<<<Num(1), Txt("a")>>>>, <<>>),
                       "key", "update", [id |-> Num(2)]),
            Values("orders", <<"id", "v">>, <<<<NullExpr, Txt("a")>>>>, <<>>),
            Values("orders", <<"id", "v">>, <<<<Expr("computed", Digit(2)), Txt("a")>>>>, <<>>),
            Values("orders", <<"v">>, <<<<Txt("a")>>>>, <<>>),
            Values("orders", <<"id", "v">>, <<<<Num(1), Expr("prefixed", Word("b"))>>>>, <<>>),
            Values("orders", <<"id", "v">>, <<<<Bound(Scalar("list", Word(""), 0)).e, Txt("a")>>>>,
                   <<Scalar("list", Word(""), 0)>>)>>

Predicates ==
    [i \in DOMAIN Keys |-> Where(Statement("delete", "orders"), <<Eq("id", Keys[i].e)>>, Keys[i].params)]
    \o <<Where(Statement("delete", "orders"), <<Eq("id", Num(1)) \union Eq("id", Num(2))>>, <<>>),
            Where(Statement("delete", "orders"), <<Qualified("id", Num(2)), Eq("v", Txt("a"))>>, <<>>),
            Where(Statement("delete", "orders"), <<Eq("id", NullExpr)>>, <<>>),
            Where(Setting("orders", [v |-> Txt("b")]), <<Eq("v", Txt("a")), Eq("id", Num(1))>>, <<>>),
            Where(Setting("orders", [v |-> Param(2)]), <<Eq("id", Param(1))>>,
                  <<Scalar("int", Digit(2), 0), Scalar("text", Word("b"), 0)>>),
            Where(Setting("orders", [v |-> Txt("a")]), <<Eq("id", Expr("computed", Digit(2)))>>, <<>>),
            Setting("orders", [v |-> NullExpr]),
            Where(Setting("orders", [id |-> Num(2)]), <<Eq("id", Num(1))>>, <<>>),
            Where(Setting("orders", [id |-> NullExpr]), <<Eq("id", Num(1))>>, <<>>)>>

On(target, source) == {[target |-> target, source |-> source, qualified |-> TRUE]}
Clause(when, do, key) == [when |-> when, do |-> do, key |-> key]
MergeFrom(source, on, clauses) ==
    [Statement("merge", "orders") EXCEPT !.source = source, !.on = on, !.clauses = clauses,
                                         !.sets = "v", !.reads = "v"]
MergeList(rows, clauses) ==
    [MergeFrom("", <<On("id", "id")>>, clauses) EXCEPT !.cols = <<"id", "v">>, !.rows = rows]
Upsert == <<Clause("matched", "update", ""), Clause("not_matched", "insert", "id")>>
Mirror == <<Clause("matched", "update", ""), Clause("not_matched", "insert", "id"),
            Clause("not_matched_by_source", "delete", "")>>

Merges ==
    <<MergeFrom("inbox", <<On("id", "id")>>, Mirror),
     MergeFrom("byv", <<On("id", "id")>>, Upsert),
     MergeFrom("inbox", <<On("id", "id") \union On("v", "v")>>, Upsert),
     MergeFrom("inbox", <<On("v", "v")>>, Upsert),
     [MergeFrom("inbox", <<On("id", "id")>>, Upsert) EXCEPT !.sets = "id"],
     MergeList(<<<<Num(2), Txt("b")>>, <<Num(1), Txt("b")>>>>, Upsert),
     MergeList(<<<<Num(1), Txt("a")>>>>, <<Clause("matched", "delete", "")>>),
     MergeList(<<<<Num(1), Txt("a")>>>>, Mirror),
     MergeList(<<<<Num(1), Txt("a")>>, <<Expr("computed", Digit(2)), Txt("a")>>>>, Upsert),
     [MergeFrom("inbox", <<On("id", "id")>>, Upsert) EXCEPT !.form = {"OUTPUT"}]>>

Cells(id, v) == <<IF id = 0 THEN NullExpr ELSE Expr("cell", Digit(id)), Expr("cell", Word(v))>>
Batch(t, types, rows) ==
    [Statement("copy", t) EXCEPT !.cols = <<"id", "v">>, !.types = types, !.rows = rows]

Rows ==
    <<Batch("orders", <<"int", "text">>, <<Cells(2, "b"), Cells(1, "b"), Cells(2, "a")>>),
     Batch("orders", <<"int", "text">>, <<Cells(2, "a"), Cells(1, "a")>>),
     Batch("orders", <<"float", "text">>, <<Cells(1, "a"), Cells(0, "a")>>),
     Batch("orders", <<"int", "binary">>, <<Cells(1, "a")>>),
     Batch("people", <<"int", "text">>, <<Cells(1, "a")>>),
     [Statement("insert", "orders") EXCEPT !.source = "inbox"],
     [Statement("insert", "orders") EXCEPT !.source = "people"],
     [Statement("insert", "staff") EXCEPT !.source = "people"],
     [Statement("insert", "people") EXCEPT !.source = "inbox"]>>

Others ==
    <<Values("inbox", <<"id", "v">>, <<<<Num(1), Txt("b")>>, <<Num(2), Txt("b")>>>>, <<>>),
     Statement("delete", "inbox"),
     Values("byv", <<"id", "v">>, <<<<Num(2), Txt("a")>>>>, <<>>),
     Where(Statement("delete", "byv"), <<Eq("v", Txt("a"))>>, <<>>),
     Values("people", <<>>, <<<<Num(2), Txt("a")>>, <<Num(1), NullExpr>>>>, <<>>),
     Values("people", <<"id", "v">>, <<<<Num(2), Param(1)>>>>, <<Scalar("text", Word("a"), 0)>>),
     Where(Setting("people", [v |-> Txt("b")]), <<Eq("id", Num(1))>>, <<>>),
     [Setting("people", [v |-> Txt("b")]) EXCEPT !.tuple = TRUE],
     Statement("delete", "people")>>

MCSecretWrites == {[form |-> {}, keys |-> [pepper |-> 1]], [form |-> {"algo"}, keys |-> [pepper |-> 2]]}

\* A key with an explicit plus sign.
MCSignedStatements ==
    <<Values("orders", <<"id", "v">>, <<<<PlusOne.e, Txt("a")>>>>, <<>>),
      Where(Statement("delete", "orders"), <<Eq("id", Num(1))>>, <<>>)>>

MCStatements == Inserts \o Predicates \o Merges \o Rows \o Others

=============================================================================
