------------------------------ MODULE MCCatalog ------------------------------
(***************************************************************************)
(* The statements that change the catalog, in three parts that share       *)
(* nothing: tables on their nodes (Ddl, see MCDdl), names (Namespace) and  *)
(* one table's columns, indexes and constraints (TableMeta).  A behaviour  *)
(* belongs to one part; the others stand still.                            *)
(***************************************************************************)
EXTENDS MCDdl, TLC

CONSTANTS
  MaxOnNames,     \* statements on names when none overlap
  MaxRaced        \* and when some do

VARIABLES part, schemas, nsTables, views, stored, built, running, raced, nsSent,
          meta, shard, last

-----------------------------------------------------------------------------
(* Names: two sessions over a catalog that is empty or holds a schema, a   *)
(* table and a view.  raced remembers whether two statements have ever     *)
(* overlapped, nsSent counts the statements.                               *)

NsKeys == {"a", "v", "s_a", "s.a"}
NsSchemaOf == [k \in NsKeys |-> IF k = "s.a" THEN "s" ELSE "public"]
NsPhysicalName == [k \in NsKeys |-> IF k = "s.a" THEN "s_a" ELSE k]

S(kind, name) == [kind |-> kind, name |-> name, to |-> name, on |-> name,
                  body |-> <<>>, cols |-> <<>>, clause |-> "none", ifx |-> FALSE]
NsStatements ==
  {S("create_schema", "s"), S("drop_schema", "s"),
   [S("create_schema", "s") EXCEPT !.ifx = TRUE],
   [S("create_schema", "public") EXCEPT !.ifx = TRUE],
   [S("alter_schema", "s") EXCEPT !.to = "r"]}
  \cup {S("create_table", k) : k \in {"a", "s_a", "s.a"}}
  \cup {S("drop_table", k) : k \in {"a", "s_a"}}
  \cup {[S("create_table", "v") EXCEPT !.ifx = TRUE],
        [S("rename_table", "a") EXCEPT !.to = "s.a"],
        [S("rename_table", "a") EXCEPT !.to = "v"]}
  \cup {[S(kind, "v") EXCEPT !.body = <<k>>] :
           kind \in {"create_view", "replace_view"}, k \in {"a", "s.a"}}
  \cup {[S(kind, "s.a") EXCEPT !.body = <<"v">>] : kind \in {"create_view", "alter_view"}}
  \cup {[S("replace_view", "s.a") EXCEPT !.body = <<"v", "a">>],
        [S("create_view", "s.a") EXCEPT !.body = <<"a">>, !.ifx = TRUE],
        S("drop_view", "v"), [S("drop_view", "s.a") EXCEPT !.ifx = TRUE]}
  \cup {[S("create_index", "s_a") EXCEPT !.on = "a"], S("drop_index", "s_a"),
        [S("add_unique", "v") EXCEPT !.on = "a"],
        [S("drop_unique", "v") EXCEPT !.on = "a"]}
  \cup {S("drop_schema", "public"), [S("drop_schema", "s") EXCEPT !.clause = "CASCADE"],
        [S("replace_view", "v") EXCEPT !.body = <<"a">>, !.cols = <<"x">>]}

NS == INSTANCE Namespace WITH
        Keys <- NsKeys, SchemaOf <- NsSchemaOf, PhysicalName <- NsPhysicalName,
        Schemas <- {"s", "r", "public"}, Statements <- NsStatements, MaxNesting <- 2,
        OwnColumns <- <<"id">>, tables <- nsTables, st <- running

nsvars == <<schemas, nsTables, views, stored, built, running, raced, nsSent>>

WithView ==
  /\ schemas = {"s"}
  /\ nsTables = [k \in NsKeys |-> IF k = "a" THEN NS!NewTable ELSE NS!NoTable]
  /\ views = [k \in NsKeys |-> IF k = "v" THEN [reads |-> <<"a">>, cols |-> <<>>] ELSE NS!NoView]
  /\ stored = {"a"}
  /\ built = [p \in NS!Physicals |-> NS!NotBuilt]
  /\ running = [c \in Clients |-> NS!Idle]

NamesInit == raced = FALSE /\ nsSent = 0 /\ (NS!Init \/ (part = "names" /\ WithView))

NamesNext ==
  \E c \in Clients :
    /\ NS!Step(c)
    /\ raced' = (raced \/ (~NS!IsRunning(c) /\ \E d \in Clients \ {c} : NS!IsRunning(d)))
    /\ nsSent' = IF NS!IsRunning(c) THEN nsSent ELSE nsSent + 1
    /\ nsSent' <= (IF raced' THEN MaxRaced ELSE MaxOnNames)

-----------------------------------------------------------------------------
(* A table of at most four columns, every statement of a small repertoire  *)
(* in any order.                                                           *)

Name(base) == [base |-> base, n |-> 0]
NoName == Name(<<>>)
C(name, type) == [name |-> name, type |-> type, notnull |-> FALSE, collated |-> FALSE]
D(name, kind, cols) == [name |-> name, kind |-> kind, cols |-> cols, deco |-> "none"]
Create(cols, cons) == [form |-> "none", columns |-> cols, key |-> "none", anonymized |-> {},
                       constraints |-> cons]
Abc == <<C("a", "int"), C("b", "text"), C("c", "short")>>

TmCreates ==
  {Create(Abc, <<>>),
   [Create(Abc, <<D(NoName, "primary", <<"a">>), D(NoName, "check", <<"b">>)>>) EXCEPT !.anonymized = {"b"}],
   [Create(Abc, <<D(NoName, "unique", <<"b", "c">>), D(NoName, "unique", <<"b", "c">>)>>) EXCEPT !.key = "b"],
   Create(Abc, <<D(NoName, "check", <<"b">>), D(NoName, "check", <<"b", "c">>)>>),
   Create(Abc, <<D(NoName, "primary", <<"b">>)>>),
   Create(Abc, <<D(NoName, "check", <<"d">>)>>),
   [Create(Abc, <<>>) EXCEPT !.anonymized = {"c"}],
   Create(<<C("a", "map")>>, <<>>), Create(<<C("a", "int"), C("a", "int")>>, <<>>)}

O(op, col) == [op |-> op, col |-> col, to |-> col, def |-> C(col, "text"), ifx |-> FALSE]
TmAlters ==
  {<<O(op, c)>> : op \in {"drop", "retype", "set_not_null", "drop_not_null"}, c \in {"a", "b", "c"}}
  \cup {<<O("add", "d")>>, <<[O("add", "c") EXCEPT !.ifx = TRUE]>>, <<O("default", "c")>>,
        <<[O("add", "d") EXCEPT !.def.type = "map"]>>, <<[O("drop", "d") EXCEPT !.ifx = TRUE]>>}
  \cup {<<[O("rename", r[1]) EXCEPT !.to = r[2]]>> : r \in {<<"a", "d">>, <<"d", "a">>, <<"b", "d">>, <<"c", "b">>}}
  \cup {<<[O("rename", "c") EXCEPT !.to = "d"], O("retype", "d")>>,
        <<O("rename_table", "a"), O("drop", "c")>>, <<O("rename_table", "a")>>, <<O("drop_primary_key", "a")>>}

I(name, cols, unique) == [name |-> Name(<<name>>), cols |-> cols, unique |-> unique, expr |-> FALSE, clause |-> "none"]
TmIndexes == {I("i", <<"c">>, FALSE), I("u", <<"a", "b">>, TRUE), I("i", <<"b">>, TRUE),
              [I("i", <<"a">>, TRUE) EXCEPT !.clause = "WHERE"]}
TmConstraints ==
  {D(Name(<<"u">>), "unique", <<"a">>), D(Name(<<"k">>), "unique", <<"b">>),
   D(NoName, "unique", <<"a">>), D(Name(<<"k">>), "check", <<"c">>), D(Name(<<"primary">>), "unique", <<"a", "c">>)}

TM == INSTANCE TableMeta WITH
        CreateTables <- TmCreates, Alters <- TmAlters, Indexes <- TmIndexes, Constraints <- TmConstraints

tmvars == <<meta, shard, last>>

-----------------------------------------------------------------------------
CatalogInit ==
  /\ part \in {"nodes", "names", "columns"}
  /\ MCInit /\ (part # "nodes" => mode = "serial")
  /\ NamesInit /\ TM!Init

CatalogNext ==
  \/ part = "nodes" /\ MCNext /\ UNCHANGED <<part, nsvars, tmvars>>
  \/ part = "names" /\ NamesNext /\ UNCHANGED <<part, mcVars, tmvars>>
  \/ part = "columns" /\ TM!Next /\ UNCHANGED <<part, mcVars, nsvars>>

CatalogSpec == CatalogInit /\ [][CatalogNext]_<<part, mcVars, nsvars, tmvars>>

Symmetry == Permutations(Clients)

-----------------------------------------------------------------------------

\* What expand_views promises of any catalog, one that two racing redefinitions
\* have made cyclic included: it stops, and expands each view a query reaches
\* once, after the views it reads, or names a real cycle.
ExpansionIsExact == part = "names" => NS!ExpansionIsExact

\* The record of a table describes its shards after any accepted or failed ALTER,
\* CREATE INDEX or ADD CONSTRAINT, and what is accepted is applied there too; no
\* sequence of them makes a table whose uniqueness one shard cannot check, whose
\* anonymized column cannot hold a digest, or with two constraints of one name
\* (apply_alter_operation, into_meta, validate_anonymized_columns).
CatalogMatchesShards ==
  part = "columns" =>
    /\ TM!TypeOK /\ TM!CatalogMatchesShards /\ TM!AcceptedIsApplied
    /\ TM!UniquenessCoversShardKey /\ TM!AnonymizedColumnsHoldDigest /\ TM!ConstraintNamesAreUnique


-----------------------------------------------------------------------------
(* Statements of the code's own comments that do not hold.                 *)

\* A table and its indexes are never left inconsistent (catalog.rs): two
\* statements that index one table at once leave one index unrecorded.
IndexesAreRecorded == part = "names" => NS!IndexesAreRecorded

\* A view's column list renames what its query returns (views.rs): the common
\* table expression a view becomes carries no column list.
ColumnListRenames == part = "names" => NS!ColumnListRenames

\* ADD COLUMN and SET DEFAULT apply while an index exists (ddl.rs): with a unique
\* one the rebuild shipped along fails on the shards.
MetadataOnlyChangesApply == part = "columns" => TM!MetadataOnlyChangesApply
=============================================================================
