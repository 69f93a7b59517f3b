----------------------------- MODULE Namespace ------------------------------
(***************************************************************************)
(* The relation namespace of the coordinator: schemas (schemas.rs), views  *)
(* (views.rs), index names (indexes.rs) and index-backed constraints       *)
(* (constraints.rs) beside the tables, over the metadata catalog.          *)
(*                                                                         *)
(* A statement is a fixed program of steps.  Every step is one catalog     *)
(* transaction or one broadcast to the nodes; nothing serialises the       *)
(* statements of different clients between steps.  What a broadcast does   *)
(* call by call is the subject of Ddl; here a broadcast reaches every node *)
(* or fails part-way.  Columns and the shape of an index are TableMeta's.  *)
(*                                                                         *)
(* A relation is named by its catalog key.  The key's schema is SchemaOf,  *)
(* and PhysicalName folds the schema into one flat name, which is not      *)
(* injective.  A view is the sequence of relations its body reads; its     *)
(* query returns the columns OwnColumns.                                   *)
(***************************************************************************)
EXTENDS Naturals, Sequences, FiniteSets, SequencesExt

CONSTANTS
  Keys,          \* catalog keys of relations, canonical
  SchemaOf,      \* [Keys -> schema names]
  PhysicalName,  \* [Keys -> physical base names]
  Schemas,       \* schema names clients use, the reserved ones included
  Clients,       \* sessions
  Statements,    \* the statements clients may send
  MaxNesting,    \* MAX_VIEW_NESTING
  OwnColumns     \* the names the query of a view gives its columns

DefaultSchema   == "public"
MetadataSchemas == {"pg_catalog", "information_schema", "vairedb_catalog"}
Reserved        == MetadataSchemas \cup {DefaultSchema}

None    == "none"
NoTable == [there |-> FALSE, indexes |-> {}, unique |-> {}]
NewTable == [NoTable EXCEPT !.there = TRUE]
NoView  == [reads |-> <<None>>, cols |-> <<>>]

VARIABLES
  schemas,   \* catalog: the recorded schemas
  tables,    \* catalog: tables[k], with the names of its indexes and constraints
  views,     \* catalog: views[k], what the body reads and the column list, or NoView
  stored,    \* nodes: the physical names of the per-shard tables that exist
  built,     \* nodes: built[p], the physical table index p is on, and on which shards
  st         \* st[c]: the statement client c is running or has run last

vars == <<schemas, tables, views, stored, built, st>>

Physicals == {PhysicalName[k] : k \in Keys}
NotBuilt == [on |-> None, shards |-> "all"]

Idle == [stmt |-> [kind |-> None], todo |-> <<>>, meta |-> NoTable, on |-> None,
         reply |-> "ok"]

Init ==
  /\ schemas = {}
  /\ tables = [k \in Keys |-> NoTable]
  /\ views = [k \in Keys |-> NoView]
  /\ stored = {}
  /\ built = [p \in Physicals |-> NotBuilt]
  /\ st = [c \in Clients |-> Idle]

-----------------------------------------------------------------------------
\* Reading a query that names views.

IsView(k) == views[k] # NoView

\* A walk in progress: the names already settled, the chain being walked, the
\* views in the order they are emitted, and the error that ended it.
Walk(shadowed) == [resolved |-> shadowed, path |-> <<>>, ordered |-> <<>>, err |-> None]

\* (Mutant: a view is emitted before the views it reads.)
RECURSIVE CollectOnePreOrder(_, _)
CollectOnePreOrder(w, name) ==
  IF w.err # None \/ name \in w.resolved THEN w
  ELSE IF ~IsView(name) THEN [w EXCEPT !.resolved = @ \cup {name}]
  ELSE IF Contains(w.path, name) THEN [w EXCEPT !.err = "cycle"]
  ELSE IF Len(w.path) >= MaxNesting THEN [w EXCEPT !.err = "nested"]
  ELSE LET inner == FoldLeft(CollectOnePreOrder,
                             [w EXCEPT !.path = Append(@, name),
                                       !.ordered = Append(@, name)], views[name].reads)
       IN  IF inner.err # None THEN inner
           ELSE [inner EXCEPT !.path = w.path, !.resolved = @ \cup {name}]

\* collect_one_view: the views a name stands for, what they read first.
RECURSIVE CollectOne(_, _)
CollectOne(w, name) ==
  IF w.err # None \/ name \in w.resolved THEN w
  ELSE IF ~IsView(name) THEN [w EXCEPT !.resolved = @ \cup {name}]
  ELSE IF Contains(w.path, name) THEN [w EXCEPT !.err = "cycle"]
  ELSE IF Len(w.path) >= MaxNesting THEN [w EXCEPT !.err = "nested"]
  ELSE LET inner == FoldLeft(CollectOne, [w EXCEPT !.path = Append(@, name)], views[name].reads)
       IN  IF inner.err # None THEN inner
           ELSE [inner EXCEPT !.path = w.path, !.resolved = @ \cup {name},
                              !.ordered = Append(@, name)]

\* collect_view_ctes, the CTEs expand_views puts before a query that reads
\* relations and binds the names in shadowed itself.
CollectViews(relations, shadowed) == FoldLeft(CollectOne, Walk(shadowed), relations)

\* prepend_view_ctes: the CTE a view becomes, and the columns a query sees.
Cte(name) == [alias |-> name, columns |-> <<>>, reads |-> views[name].reads]
ResultColumns(name) == IF Cte(name).columns = <<>> THEN OwnColumns ELSE Cte(name).columns

\* validate_view_definition: the view does not read itself, directly or through
\* other views, and what it reads can be planned: every relation reached is a
\* table or a view.  An explicit column list has a name per column.
DefinitionIsValid(name, body, cols) ==
  LET walk == CollectViews(body, {})
      read == Range(body) \cup UNION {Range(views[k].reads) : k \in Range(walk.ordered)}
  IN  /\ ~Contains(body, name)
      /\ walk.err = None
      /\ ~Contains(walk.ordered, name)
      /\ \A k \in read : tables[k].there \/ IsView(k)
      /\ cols # <<>> => Len(cols) = Len(OwnColumns)

-----------------------------------------------------------------------------
\* Names.

IndexNames(t) == tables[t].indexes \cup tables[t].unique
Owners(k) == {t \in Keys : k \in tables[t].indexes}

\* reject_physical_name_conflict: another table, index or index-backed
\* constraint has the physical name k would have.
PhysicalConflict(k) ==
  \E t \in Keys : /\ tables[t].there
                  /\ \E other \in {t} \cup IndexNames(t) :
                       other # k /\ PhysicalName[other] = PhysicalName[k]

\* relations_in_schema reads the tables, then the views.
TablesIn(s) == {k \in Keys : tables[k].there /\ SchemaOf[k] = s}
ViewsIn(s)  == {k \in Keys : IsView(k) /\ SchemaOf[k] = s}

-----------------------------------------------------------------------------
\* The steps of each statement, in the order the handlers make them.

NameIsTaken == <<"taken_table", "taken_view", "taken_index", "taken_unique">>

CreateSchemaSteps == <<"unreserved", "claim_schema">>
AlterSchemaSteps == <<"recorded", "no_tables", "no_views", "unreserved",
                       "claim_schema", "delete_schema">>
DropSchemaSteps == <<"recorded", "no_tables", "no_views", "delete_schema">>
CreateTableSteps == <<"schema", "physical", "absent", "claim_table", "store">>
DropTableSteps == <<"not_view", "table", "unstore", "delete_table">>
RenameTableSteps == <<"not_view", "table", "unindexed", "schema", "physical",
                       "claim_table", "move", "delete_table">>
CreateViewSteps == <<"schema", "valid">> \o NameIsTaken \o <<"claim_view">>
ReplaceViewSteps == <<"schema", "valid", "not_table", "put_view">>
AlterViewSteps == <<"view", "valid", "put_view">>
DropViewSteps == <<"view", "delete_view">>
CreateIndexSteps == <<"not_view", "table">> \o NameIsTaken
                     \o <<"physical", "build", "record">>
DropIndexSteps == <<"owner", "unbuild", "forget">>
AddUniqueSteps == <<"not_view", "table", "fresh_unique">> \o NameIsTaken
                     \o <<"physical", "build", "record">>
DropUniqueSteps == <<"not_view", "table", "own_unique", "unbuild", "forget">>

Program(kind) ==
  CASE kind = "create_schema" -> CreateSchemaSteps
    [] kind = "alter_schema"  -> AlterSchemaSteps
    [] kind = "drop_schema"   -> DropSchemaSteps
    [] kind = "create_table"  -> CreateTableSteps
    [] kind = "drop_table"    -> DropTableSteps
    [] kind = "rename_table"  -> RenameTableSteps
    [] kind = "create_view"   -> CreateViewSteps
    [] kind = "replace_view"  -> ReplaceViewSteps
    [] kind = "alter_view"    -> AlterViewSteps
    [] kind = "drop_view"     -> DropViewSteps
    [] kind = "create_index"  -> CreateIndexSteps
    [] kind = "drop_index"    -> DropIndexSteps
    [] kind = "add_unique"    -> AddUniqueSteps
    [] kind = "drop_unique"   -> DropUniqueSteps

\* What the plan_ functions refuse before anything is read: a clause that cannot
\* be honoured, and a reserved schema where only a recorded one will do.
CreateSchemaRefuses == {"AUTHORIZATION", "WITH", "OPTIONS", "COLLATE", "CLONE", "qualified"}
AlterSchemaRefuses == {"OWNER", "COLLATE", "ADD REPLICA", "DROP REPLICA", "OPTIONS",
                       "several", "qualified"}
DropSchemaRefuses == {"CASCADE", "several", "qualified"}
CreateViewRefuses == {"MATERIALIZED", "OR ALTER", "SECURE", "TEMPORARY", "NO SCHEMA BINDING",
                      "TO", "CLUSTER BY", "COMMENT", "PARAMS", "WITH", "typed column"}
DropViewRefuses == {"several", "CASCADE", "RESTRICT"}
DropIndexRefuses == {"several", "CASCADE", "RESTRICT", "ON TABLE"}
\* A column list that names a column twice.
ColumnsRepeat(cols) == ~IsInjective(cols)

Refused(s) ==
  \/ s.kind = "create_schema" /\ s.clause \in CreateSchemaRefuses
  \/ s.kind = "alter_schema" /\ (s.clause \in AlterSchemaRefuses \/ s.name \in Reserved)
  \/ s.kind = "drop_schema" /\ (s.clause \in DropSchemaRefuses \/ s.name \in Reserved)
  \/ s.kind \in {"create_view", "replace_view"} /\ s.clause \in CreateViewRefuses
  \/ s.kind \in {"create_view", "replace_view", "alter_view"} /\ ColumnsRepeat(s.cols)
  \/ s.kind = "alter_view" /\ s.clause = "WITH"
  \/ s.kind = "drop_view" /\ s.clause \in DropViewRefuses
  \/ s.kind = "drop_index" /\ s.clause \in DropIndexRefuses

\* The name a statement creates, where it differs from the one it starts from.
Target(s) == IF s.kind \in {"rename_table", "alter_schema"} THEN s.to ELSE s.name

IsRunning(c) == st[c].todo # <<>>
AtStep(c, step) == IsRunning(c) /\ Head(st[c].todo) = step

\* How a client's record changes: on to the next step, or finished.
Ended(r, reply) == [Idle EXCEPT !.reply = reply]
Next1(r) == IF Len(r.todo) = 1 THEN Ended(r, "ok") ELSE [r EXCEPT !.todo = Tail(@)]
EndedUnless(r, ifx) == Ended(r, IF ifx THEN "ok" ELSE "error")

Start(c, s) ==
  /\ ~IsRunning(c)
  /\ st' = [st EXCEPT ![c] = IF Refused(s) THEN Ended(Idle, "error")
       ELSE [Idle EXCEPT !.stmt = s, !.todo = Program(s.kind), !.on = s.on]]
  /\ UNCHANGED <<schemas, tables, views, stored, built>>

-----------------------------------------------------------------------------
\* Steps that read the catalog.  Each goes on or ends the statement.

\* reserved_schema, for the name to be created.
CheckUnreserved(c, s) ==
  IF Target(s) \in Reserved THEN EndedUnless(st[c], s.ifx) ELSE Next1(st[c])

CheckRecorded(c, s) ==
  IF s.name \in schemas THEN Next1(st[c]) ELSE EndedUnless(st[c], s.ifx)

CheckNoTables(c, s) == IF TablesIn(s.name) = {} THEN Next1(st[c]) ELSE Ended(st[c], "error")
CheckNoViews(c, s)  == IF ViewsIn(s.name) = {} THEN Next1(st[c]) ELSE Ended(st[c], "error")

\* require_schema_exists.
CheckSchema(c, s) ==
  IF SchemaOf[Target(s)] = DefaultSchema \/ SchemaOf[Target(s)] \in schemas \ MetadataSchemas
  THEN Next1(st[c]) ELSE Ended(st[c], "error")

CheckPhysical(c, s) ==
  IF PhysicalConflict(Target(s)) THEN Ended(st[c], "error") ELSE Next1(st[c])

\* CREATE TABLE's early refusal of a table of that name.
CheckAbsent(c, s) ==
  IF tables[s.name].there THEN EndedUnless(st[c], s.ifx) ELSE Next1(st[c])

\* The table a statement works on: its metadata is read here, once.
CheckTable(c, s) ==
  IF tables[s.on].there
  THEN Next1([st[c] EXCEPT !.meta = tables[s.on]])
  ELSE EndedUnless(st[c], s.ifx /\ s.kind \in {"drop_table", "rename_table", "drop_unique"})

CheckUnindexed(c, s) ==
  IF st[c].meta.indexes \cup st[c].meta.unique = {}
  THEN Next1(st[c]) ELSE Ended(st[c], "error")

CheckNotTable(c, s) ==
  IF tables[s.name].there THEN Ended(st[c], "error") ELSE Next1(st[c])

\* reject_view_as_table, on the table a statement names.
CheckNotView(c, s) == IF IsView(s.on) THEN Ended(st[c], "error") ELSE Next1(st[c])

CheckView(c, s) ==
  IF IsView(s.name) THEN Next1(st[c])
  ELSE EndedUnless(st[c], s.kind = "drop_view" /\ s.ifx /\ ~tables[s.name].there)

CheckValid(c, s) ==
  IF DefinitionIsValid(s.name, s.body, s.cols) THEN Next1(st[c]) ELSE Ended(st[c], "error")

\* One lookup of name_is_taken.
CheckTaken(c, s) ==
  IF \/ AtStep(c, "taken_table")  /\ tables[s.name].there
     \/ AtStep(c, "taken_view")   /\ IsView(s.name)
     \/ AtStep(c, "taken_index")  /\ Owners(s.name) # {}
     \/ AtStep(c, "taken_unique") /\ \E t \in Keys : s.name \in tables[t].unique
  THEN EndedUnless(st[c], s.ifx) ELSE Next1(st[c])

\* DROP INDEX finds the table by the index; a name of another kind is an error.
CheckOwner(c, s) ==
  IF Owners(s.name) # {}
  THEN LET t == CHOOSE t \in Owners(s.name) : TRUE
       IN  Next1([st[c] EXCEPT !.meta = tables[t], !.on = t])
  ELSE EndedUnless(st[c], /\ s.ifx
                          /\ ~tables[s.name].there /\ ~IsView(s.name)
                          /\ \A t \in Keys : s.name \notin tables[t].unique)

CheckFreshUnique(c, s) ==
  IF s.name \in st[c].meta.unique THEN Ended(st[c], "error") ELSE Next1(st[c])
CheckOwnUnique(c, s) ==
  IF s.name \in st[c].meta.unique THEN Next1(st[c]) ELSE EndedUnless(st[c], s.ifx)

Checked(c, s) ==
  CASE AtStep(c, "unreserved")   -> CheckUnreserved(c, s)
    [] AtStep(c, "recorded")     -> CheckRecorded(c, s)
    [] AtStep(c, "no_tables")    -> CheckNoTables(c, s)
    [] AtStep(c, "no_views")     -> CheckNoViews(c, s)
    [] AtStep(c, "schema")       -> CheckSchema(c, s)
    [] AtStep(c, "physical")     -> CheckPhysical(c, s)
    [] AtStep(c, "absent")       -> CheckAbsent(c, s)
    [] AtStep(c, "table")        -> CheckTable(c, s)
    [] AtStep(c, "unindexed")    -> CheckUnindexed(c, s)
    [] AtStep(c, "not_table")    -> CheckNotTable(c, s)
    [] AtStep(c, "not_view")     -> CheckNotView(c, s)
    [] AtStep(c, "view")         -> CheckView(c, s)
    [] AtStep(c, "valid")        -> CheckValid(c, s)
    [] AtStep(c, "owner")        -> CheckOwner(c, s)
    [] AtStep(c, "fresh_unique") -> CheckFreshUnique(c, s)
    [] AtStep(c, "own_unique")   -> CheckOwnUnique(c, s)
    [] OTHER                     -> CheckTaken(c, s)

Writes == {"claim_schema", "delete_schema", "claim_table", "store", "unstore", "move",
           "delete_table", "release", "claim_view", "put_view", "delete_view", "build", "record",
           "unbuild", "forget"}

Check(c) ==
  /\ IsRunning(c) /\ Head(st[c].todo) \notin Writes
  /\ st' = [st EXCEPT ![c] = Checked(c, st[c].stmt)]
  /\ UNCHANGED <<schemas, tables, views, stored, built>>

-----------------------------------------------------------------------------
\* Steps that write the catalog: one transaction each.

Advance(c) == st' = [st EXCEPT ![c] = Next1(@)]
Finish(c, reply) == st' = [st EXCEPT ![c] = Ended(@, reply)]

\* create_schema_if_absent.  ALTER SCHEMA has no IF NOT EXISTS.
ClaimSchema(c) ==
  LET s == st[c].stmt IN
  /\ AtStep(c, "claim_schema")
  /\ IF Target(s) \in schemas
     THEN /\ Finish(c, IF s.kind = "create_schema" /\ s.ifx THEN "ok" ELSE "error")
          /\ UNCHANGED schemas
     ELSE schemas' = schemas \cup {Target(s)} /\ Advance(c)
  /\ UNCHANGED <<tables, views, stored, built>>

DeleteSchema(c) ==
  /\ AtStep(c, "delete_schema")
  /\ schemas' = schemas \ {st[c].stmt.name}
  /\ Advance(c)
  /\ UNCHANGED <<tables, views, stored, built>>

\* create_table_if_absent, for CREATE TABLE and for the destination of a rename.
ClaimTable(c) ==
  LET s == st[c].stmt
      k == Target(s) IN
  /\ AtStep(c, "claim_table")
  /\ IF tables[k].there \/ IsView(k)
     THEN Finish(c, IF s.kind = "create_table" /\ s.ifx THEN "ok" ELSE "error") /\ UNCHANGED tables
     ELSE tables' = [tables EXCEPT ![k] = NewTable] /\ Advance(c)
  /\ UNCHANGED <<schemas, views, stored, built>>

DeleteTable(c) ==
  /\ AtStep(c, "delete_table")
  /\ tables' = [tables EXCEPT ![st[c].stmt.name] = NoTable]
  /\ Advance(c)
  /\ UNCHANGED <<schemas, views, stored, built>>

\* A CREATE or a rename that failed on the nodes gives the claimed name back.
Release(c) ==
  /\ AtStep(c, "release")
  /\ tables' = [tables EXCEPT ![Target(st[c].stmt)] = NoTable]
  /\ Finish(c, "error")
  /\ UNCHANGED <<schemas, views, stored, built>>

\* The record of a view: its query and the explicit column list.
ViewMeta(s) == [reads |-> s.body, cols |-> s.cols]

\* create_view_if_absent.
ClaimView(c) ==
  LET s == st[c].stmt IN
  /\ AtStep(c, "claim_view")
  /\ IF tables[s.name].there \/ IsView(s.name)
     THEN Finish(c, IF s.ifx THEN "ok" ELSE "error") /\ UNCHANGED views
     ELSE views' = [views EXCEPT ![s.name] = ViewMeta(s)] /\ Advance(c)
  /\ UNCHANGED <<schemas, tables, stored, built>>

\* put_view: an upsert.
PutView(c) ==
  /\ AtStep(c, "put_view")
  /\ views' = [views EXCEPT ![st[c].stmt.name] = ViewMeta(st[c].stmt)]
  /\ Advance(c)
  /\ UNCHANGED <<schemas, tables, stored, built>>

DeleteView(c) ==
  /\ AtStep(c, "delete_view")
  /\ views' = [views EXCEPT ![st[c].stmt.name] = NoView]
  /\ Advance(c)
  /\ UNCHANGED <<schemas, tables, stored, built>>

IsIndex(s) == s.kind \in {"create_index", "drop_index"}

\* put_table of the metadata read earlier, with the index or constraint added.
Record(c) ==
  LET s == st[c].stmt
      meta == IF IsIndex(s) THEN [st[c].meta EXCEPT !.indexes = @ \cup {s.name}]
                            ELSE [st[c].meta EXCEPT !.unique = @ \cup {s.name}] IN
  /\ AtStep(c, "record")
  /\ tables' = [tables EXCEPT ![st[c].on] = meta]
  /\ Advance(c)
  /\ UNCHANGED <<schemas, views, stored, built>>

\* put_table of the metadata read earlier, without the index or constraint.
Forget(c) ==
  LET s == st[c].stmt IN
  /\ AtStep(c, "forget")
  /\ tables' = [tables EXCEPT ![st[c].on] =
       [st[c].meta EXCEPT !.indexes = @ \ {s.name}, !.unique = @ \ {s.name}]]
  /\ Advance(c)
  /\ UNCHANGED <<schemas, views, stored, built>>

-----------------------------------------------------------------------------
\* Broadcasts.  One that does not reach every node ends the statement.

IndexesOn(p) == {i \in Physicals : built[i].on = p}

\* The per-shard tables.  IF NOT EXISTS is sent to the nodes as well.
Store(c) ==
  LET s == st[c].stmt
      p == PhysicalName[s.name] IN
  /\ AtStep(c, "store")
  /\ IF p \in stored /\ ~s.ifx
     THEN st' = [st EXCEPT ![c].todo = <<"release">>] /\ UNCHANGED stored
     ELSE stored' = stored \cup {p} /\ Advance(c)
  /\ UNCHANGED <<schemas, tables, views, built>>

\* DROP TABLE IF EXISTS; the indexes of a table go with it.
Unstore(c) ==
  LET p == PhysicalName[st[c].stmt.name] IN
  /\ AtStep(c, "unstore")
  /\ stored' = stored \ {p}
  /\ built' = [i \in Physicals |-> IF i \in IndexesOn(p) THEN NotBuilt ELSE built[i]]
  /\ Advance(c)
  /\ UNCHANGED <<schemas, tables, views>>

\* A node refuses to rename a table that has an index.
Move(c) ==
  LET from == PhysicalName[st[c].stmt.name]
      to == PhysicalName[st[c].stmt.to] IN
  /\ AtStep(c, "move")
  /\ IF from \in stored /\ to \notin stored /\ IndexesOn(from) = {}
     THEN stored' = (stored \ {from}) \cup {to} /\ Advance(c)
     ELSE st' = [st EXCEPT ![c].todo = <<"release">>] /\ UNCHANGED stored
  /\ UNCHANGED <<schemas, tables, views, built>>

\* CREATE [UNIQUE] INDEX IF NOT EXISTS on every shard: a shard that has an index
\* of the name keeps it, whatever table it is on.
Build(c) ==
  LET i == PhysicalName[st[c].stmt.name]
      p == PhysicalName[st[c].on] IN
  /\ AtStep(c, "build")
  /\ IF p \in stored
     THEN /\ built' = [built EXCEPT ![i] =
               IF @.on \in {None, p} THEN [on |-> p, shards |-> "all"] ELSE @]
          /\ Advance(c)
     ELSE Finish(c, "error") /\ UNCHANGED built
  /\ UNCHANGED <<schemas, tables, views, stored>>

Unbuild(c) ==
  /\ AtStep(c, "unbuild")
  /\ built' = [built EXCEPT ![PhysicalName[st[c].stmt.name]] = NotBuilt]
  /\ Advance(c)
  /\ UNCHANGED <<schemas, tables, views, stored>>

\* fail_if_unreachable.  A table is put back as it was (Ddl has the details), an
\* index stays on the shards that were reached.
BroadcastFails(c) ==
  LET s == st[c].stmt
      i == PhysicalName[s.name] IN
  /\ IsRunning(c) /\ Head(st[c].todo) \in {"store", "unstore", "move", "build", "unbuild"}
  /\ st' = [st EXCEPT ![c] = IF Head(@.todo) \in {"store", "move"}
                             THEN [@ EXCEPT !.todo = <<"release">>] ELSE Ended(@, "error")]
  /\ built' = [built EXCEPT ![i] =
       CASE AtStep(c, "build") /\ @.on = None
              -> [on |-> PhysicalName[st[c].on], shards |-> "building"]
         [] AtStep(c, "unbuild") /\ @.on # None -> [@ EXCEPT !.shards = "dropping"]
         [] OTHER -> @]
  /\ UNCHANGED <<schemas, tables, views, stored>>

-----------------------------------------------------------------------------
Step(c) ==
  \/ \E s \in Statements : Start(c, s)
  \/ Check(c)
  \/ ClaimSchema(c) \/ DeleteSchema(c)
  \/ ClaimTable(c) \/ DeleteTable(c) \/ Release(c)
  \/ ClaimView(c) \/ PutView(c) \/ DeleteView(c)
  \/ Record(c) \/ Forget(c)
  \/ Store(c) \/ Unstore(c) \/ Move(c) \/ Build(c) \/ Unbuild(c)
  \/ BroadcastFails(c)

Next == \E c \in Clients : Step(c)
Spec == Init /\ [][Next]_vars

-----------------------------------------------------------------------------
\* Properties.

TypeOK ==
  /\ schemas \subseteq Schemas \ Reserved
  /\ \A k \in Keys : tables[k].indexes \cup tables[k].unique \subseteq Keys
  /\ \A k \in Keys : IsView(k) => Range(views[k].reads) \subseteq Keys
  /\ stored \subseteq Physicals
  /\ \A p \in Physicals : built[p].on \in Physicals \cup {None}
  /\ \A c \in Clients : st[c].reply \in {"ok", "error"}

\* One namespace (name_is_taken, claim_name, reject_physical_name_conflict): no
\* key is a table and a view, no name is that of two indexes or constraints, and
\* two different names never fold to one physical name on the nodes.
OneNamespace ==
  LET physical == UNION {{t} \cup IndexNames(t) : t \in {k \in Keys : tables[k].there}} IN
  /\ \A k \in Keys : ~(tables[k].there /\ IsView(k))
  /\ \A t \in Keys : tables[t].indexes \cap tables[t].unique = {}
  /\ \A t, u \in Keys : t # u => IndexNames(t) \cap IndexNames(u) = {}
  /\ \A j, k \in physical : PhysicalName[j] = PhysicalName[k] => j = k

\* A relation lives in a schema that exists: require_schema_exists when it is
\* made, the refusal to drop or rename a schema that holds relations afterwards.
RelationsLiveInSchemas ==
  \A k \in Keys : tables[k].there \/ IsView(k) =>
    SchemaOf[k] \in schemas \cup {DefaultSchema}

\* No view reads itself through other views (validate_view_definition).
Reads == {e \in Keys \X Keys : IsView(e[1]) /\ Contains(views[e[1]].reads, e[2])}
RECURSIVE Reach(_, _)
Reach(from, n) ==
  IF n = 0 THEN from ELSE Reach(from \cup {e[2] : e \in {d \in Reads : d[1] \in from}}, n - 1)
ReadBy(k) == Reach(IF IsView(k) THEN Range(views[k].reads) ELSE {}, Cardinality(Keys))
ViewsAreAcyclic == \A k \in Keys : k \notin ReadBy(k)

\* What expand_views promises of any catalog, one with a cycle made by two racing
\* redefinitions included: it stops; an expansion has each view a query reaches
\* once, after the views it reads; a cycle error names a real cycle; and only a
\* cycle or a chain longer than MaxNesting is refused.
ExpansionIsExact ==
  \A k \in {j \in Keys : IsView(j)} : \A reached \in {{k} \cup ReadBy(k)} :
  \A cyclic \in {\E j \in reached : j \in ReadBy(j)} :
  \A shadowed \in {{}} \cup {{j} : j \in reached \ {k}} :
    LET w == CollectViews(<<k>>, shadowed)
        at(j) == CHOOSE n \in DOMAIN w.ordered : w.ordered[n] = j
    IN  /\ w.err = None =>
             /\ ToSet(w.ordered) \cap shadowed = {}
             /\ shadowed = {} => ToSet(w.ordered) = {j \in reached : IsView(j)}
             /\ IsInjective(w.ordered)
             /\ \A n \in DOMAIN w.ordered : \A j \in Range(views[w.ordered[n]].reads) :
                  IsView(j) /\ j \notin shadowed => at(j) < n
        /\ w.err = "cycle" => cyclic
        /\ w.err = "nested" => Cardinality({j \in reached : IsView(j)}) > MaxNesting
        /\ shadowed = {} /\ cyclic => w.err # None

\* The catalog claims an index or an index-backed constraint only when every
\* shard of its table has it, except while a DROP of it has failed part-way
\* (handle_create_index, add_constraint: recorded only after every node has it).
RecordedIndexIsBuilt ==
  \A t \in Keys : \A i \in IndexNames(t) :
    \/ built[PhysicalName[i]].on = PhysicalName[t]
         /\ built[PhysicalName[i]].shards \in {"all", "dropping"}
    \/ \E c \in Clients : AtStep(c, "forget") /\ st[c].stmt.name = i
    \/ \E c \in Clients : AtStep(c, "delete_table") /\ st[c].stmt.name = t

\* The explicit column list of a view renames the columns its query returns
\* (plan_create_view), so a query that reads the view sees those names.
ColumnListRenames ==
  \A k \in Keys : IsView(k) /\ views[k].cols # <<>> => ResultColumns(k) = views[k].cols

\* A table and its indexes are never left inconsistent: with no statement
\* running, an index that is whole on the shards of a table is recorded there.
IndexesAreRecorded ==
  (\A c \in Clients : ~IsRunning(c)) =>
    \A t \in Keys : \A p \in Physicals :
      /\ tables[t].there
      /\ built[p] = [on |-> PhysicalName[t], shards |-> "all"]
      => \E i \in IndexNames(t) : PhysicalName[i] = p
=============================================================================
