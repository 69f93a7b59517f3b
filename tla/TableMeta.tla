------------------------------ MODULE TableMeta ------------------------------
(***************************************************************************)
(* The metadata of one table (TableMeta in the catalog) beside the table   *)
(* its shards really have, under CREATE TABLE, the column forms of ALTER   *)
(* TABLE, indexes and constraints, one statement at a time.  The           *)
(* coordinator decides from the metadata alone, ships a batch to every     *)
(* shard and records the change when the shards took it.  What the shards' *)
(* engine takes is modelled from what this code says of it, and from the   *)
(* measurements pinned in vairedb-core's engine tests: the operators named *)
(* Engine*.  Races and unreachable nodes are the business of Ddl and       *)
(* Namespace.                                                              *)
(*                                                                         *)
(* A column is [name, type, nullable]; a type is "text" (no length, or at  *)
(* least the digest's), "short" (a shorter character type), "int" or "map" *)
(* (one that cannot be read back).  A constraint or index name is a base   *)
(* and the suffix a generated name may carry.                              *)
(***************************************************************************)
EXTENDS SequencesExt, Integers

CONSTANTS
  CreateTables,       \* the CREATE TABLE statements clients send
  Alters,        \* the operation lists of ALTER TABLE
  Indexes,       \* the indexes of CREATE INDEX
  Constraints    \* the constraints of ADD CONSTRAINT

VARIABLES
  meta,          \* the catalog's TableMeta, or NoTable
  shard,         \* the table on every shard, or NoTable
  last           \* the outcome of the last statement, and the ALTER that failed

vars == <<meta, shard, last>>

NoTable == [there |-> FALSE]
None    == "none"

Name(base) == [base |-> base, n |-> 0]
NoName     == Name(<<>>)

ColumnNames(t)  == {c.name : c \in Range(t.columns)}
Position(t, c)  == CHOOSE i \in DOMAIN t.columns : t.columns[i].name = c
ColumnOf(t, c)  == t.columns[Position(t, c)]
Covers(x, c)    == Contains(x.cols, c)
RenameIn(cols, old, new) == [i \in DOMAIN cols |-> IF cols[i] = old THEN new ELSE cols[i]]

-----------------------------------------------------------------------------
(* Constraints.                                                            *)

\* The spellings of a constraint that no shard would enforce as written.
RefusedDecorations(kind) ==
  CASE kind = "unique"  -> {"NULLS NOT DISTINCT", "DEFERRABLE", "USING"}
    [] kind = "primary" -> {"DEFERRABLE", "USING"}
    [] kind = "check"   -> {"NOT ENFORCED"}
    [] OTHER            -> {}

\* declared_from_column_option and declared_from_table_constraint: a foreign key,
\* an index inside the table and USING INDEX have nothing to record.
DeclaredIsValid(d) ==
  /\ d.kind \in {"unique", "primary", "check"}
  /\ d.deco \notin RefusedDecorations(d.kind)

\* The columns of a CHECK are those of the table that its expression mentions.
CoveredColumns(d, names) ==
  IF d.kind = "check" THEN SelectSeq(d.cols, LAMBDA c : c \in names) ELSE d.cols

\* The name of an unnamed constraint: t_pkey, t_col_key, t_col_check, and a number
\* when a constraint of the table has it.
GeneratedName(kind, cols, existing) ==
  LET base  == <<kind>> \o (CASE kind = "primary" -> <<>>
                              [] kind = "unique"  -> cols
                              [] OTHER            -> IF Len(cols) = 1 THEN cols ELSE <<>>)
      taken == {c.name : c \in Range(existing)}
  IN  [base |-> base,
       n |-> CHOOSE n \in 0..Len(existing) :
               /\ [base |-> base, n |-> n] \notin taken
               /\ \A k \in 0..(n - 1) : [base |-> base, n |-> k] \in taken]

\* into_meta: the columns exist, uniqueness covers the shard key, the name is new.
IntoMeta(d, key, names, existing, backed) ==
  LET cols == CoveredColumns(d, names) IN
  [ok   |-> /\ Range(cols) \subseteq names
            /\ d.kind \in {"unique", "primary"} => Contains(cols, key)
            /\ \A c \in Range(existing) : c.name # d.name,
   meta |-> [name |-> IF d.name = NoName THEN GeneratedName(d.kind, cols, existing) ELSE d.name,
             kind |-> d.kind, cols |-> cols, backed |-> backed]]

\* The constraints of a CREATE TABLE, each checked against those before it.
ConstraintsFromCreate(create, key) ==
  FoldLeft(LAMBDA acc, d :
             LET one == IntoMeta(d, key, ColumnNames(create), acc.meta, FALSE)
             IN  IF acc.ok /\ DeclaredIsValid(d) /\ one.ok
                   THEN [acc EXCEPT !.meta = Append(@, one.meta)]
                   ELSE [acc EXCEPT !.ok = FALSE],
           [ok |-> TRUE, meta |-> <<>>], create.constraints)

DeclaredCovering(t, c, kinds) ==
  \E k \in Range(t.constraints) : ~k.backed /\ k.kind \in kinds /\ Covers(k, c)

-----------------------------------------------------------------------------
(* CREATE TABLE.                                                           *)

\* LIKE and CLONE have no column list to take a shard key from; a column whose type
\* or collation the reads cannot honour is refused.
FormIsSupported(create) == create.form = None /\ create.columns # <<>>
ColumnIsServiceable(c) == c.type # "map" /\ ~c.collated

StringTypeHoldsDigest(type) == type = "text"

AnonymizedAreValid(create) ==
  \A a \in create.anonymized :
    a \in ColumnNames(create) /\ StringTypeHoldsDigest(ColumnOf(create, a).type)

\* shard_by, or the first column.
ShardKey(create) == IF create.key = None THEN create.columns[1].name ELSE create.key

\* column_def_from_ast: nullable unless NOT NULL is written.
ColumnDef(c) == [name |-> c.name, type |-> c.type, nullable |-> ~c.notnull]

MetaOf(create) ==
  [there |-> TRUE, key |-> ShardKey(create), anonymized |-> create.anonymized,
   columns |-> [i \in DOMAIN create.columns |-> ColumnDef(create.columns[i])],
   indexes |-> <<>>, constraints |-> ConstraintsFromCreate(create, ShardKey(create)).meta]

CreateIsValid(create) ==
  /\ FormIsSupported(create)
  /\ \A c \in Range(create.columns) : ColumnIsServiceable(c)
  /\ AnonymizedAreValid(create)
  /\ ConstraintsFromCreate(create, ShardKey(create)).ok

-----------------------------------------------------------------------------
(* ALTER TABLE: the metadata's side.                                       *)

\* Every index the shards would have to take off: the table's own, and those that
\* enforce a constraint, which are unique.
BlockingIndexes(t) ==
  {[cols |-> i.cols, unique |-> i.unique] : i \in Range(t.indexes)} \cup
  {[cols |-> k.cols, unique |-> TRUE] : k \in {c \in Range(t.constraints) : c.backed}}

UnrebuildableIndex(t, c, rewrites) ==
  \E b \in BlockingIndexes(t) : b.unique \/ (rewrites /\ Covers(b, c))

Applied(t) == [ok |-> TRUE, meta |-> t]
Refusal(t) == [ok |-> FALSE, meta |-> t]

AddColumn(t, op) ==
  IF op.col \in ColumnNames(t)
    THEN IF op.ifx THEN Applied(t) ELSE Refusal(t)
    ELSE IF ColumnIsServiceable(op.def)
           THEN Applied([t EXCEPT !.columns = Append(@, ColumnDef(op.def))])
           ELSE Refusal(t)

\* A CHECK over the column goes with it; a UNIQUE or a PRIMARY KEY keeps it.
\* (Mutant: the constraints of the table stay as they are.)
ForgetNoConstraints(t, c) == t.constraints
ForgetConstraints(t, c) == SelectSeq(t.constraints, LAMBDA k : k.backed \/ ~Covers(k, c))

DropColumn(t, op) ==
  IF \/ op.col \in t.anonymized
     \/ UnrebuildableIndex(t, op.col, TRUE)
     \/ DeclaredCovering(t, op.col, {"unique", "primary"})
     \/ op.col = t.key
     \/ op.col \notin ColumnNames(t) /\ ~op.ifx
  THEN Refusal(t)
  ELSE Applied([t EXCEPT !.columns = SelectSeq(@, LAMBDA c : c.name # op.col),
                         !.constraints = IF op.col \in ColumnNames(t)
                                           THEN ForgetConstraints(t, op.col) ELSE @])

\* rename_column_in_constraints and rename_column_in_indexes.
RenameInAll(xs, old, new) ==
  [i \in DOMAIN xs |-> [xs[i] EXCEPT !.cols = RenameIn(@, old, new)]]
\* That the new name is free is left to the shards.
RenameColumn(t, op) ==
  IF op.col \in t.anonymized \/ UnrebuildableIndex(t, op.col, FALSE) \/ op.col \notin ColumnNames(t)
  THEN Refusal(t)
  ELSE Applied([t EXCEPT !.columns[Position(t, op.col)].name = op.to,
                         !.key = IF @ = op.col THEN op.to ELSE @,
                         !.constraints = RenameInAll(@, op.col, op.to),
                         !.indexes = RenameInAll(@, op.col, op.to)])

\* ALTER COLUMN: a default is kept with the column and is not looked at here.
AlterColumn(t, op) ==
  IF \/ op.col \in t.anonymized
     \/ op.op # "default" /\ UnrebuildableIndex(t, op.col, op.op = "retype")
     \/ op.op = "retype" /\ \/ op.def.type = "map"
                            \/ DeclaredCovering(t, op.col, {"unique", "primary", "check"})
     \/ op.op = "drop_not_null" /\ DeclaredCovering(t, op.col, {"primary"})
     \/ op.col \notin ColumnNames(t)
  THEN Refusal(t)
  ELSE Applied([t EXCEPT !.columns[Position(t, op.col)] =
         CASE op.op = "retype"        -> [@ EXCEPT !.type = op.def.type]
           [] op.op = "set_not_null"  -> [@ EXCEPT !.nullable = FALSE]
           [] op.op = "drop_not_null" -> [@ EXCEPT !.nullable = TRUE]
           [] OTHER                   -> @])

ColumnChanges == {"retype", "set_not_null", "drop_not_null", "default"}

ApplyAlterOperation(t, op) ==
  CASE op.op = "add"            -> AddColumn(t, op)
    [] op.op = "drop"           -> DropColumn(t, op)
    [] op.op = "rename"         -> RenameColumn(t, op)
    [] op.op \in ColumnChanges  -> AlterColumn(t, op)
    [] OTHER                    -> Refusal(t)

ApplyAll(t, ops) ==
  FoldLeft(LAMBDA acc, op : IF acc.ok THEN ApplyAlterOperation(acc.meta, op) ELSE acc,
           Applied(t), ops)

\* plan_alter: what names a constraint by its kind is refused, and an action that is
\* not a column change has the statement to itself.
AlterIsPlanned(ops) ==
  /\ \A op \in Range(ops) : op.op \notin {"drop_primary_key", "drop_foreign_key", "drop_index"}
  /\ (\E op \in Range(ops) : op.op = "rename_table") => Len(ops) = 1

-----------------------------------------------------------------------------
(* The shards' engine: a transaction of index drops, ALTERs and index      *)
(* builds, all or nothing.  gone holds the indexes this transaction took   *)
(* off.                                                                    *)

EngineColumn(c) == [name |-> c.name, type |-> c.type, mandatory |-> c.notnull]
EngineTable(create) ==
  [there |-> TRUE, columns |-> [i \in DOMAIN create.columns |-> EngineColumn(create.columns[i])],
   indexes |-> {}, constraints |-> {[kind |-> d.kind, cols |-> d.cols] : d \in Range(create.constraints)}]
EngineTakesCreate(create) ==
  /\ IsInjective([i \in DOMAIN create.columns |-> create.columns[i].name])
  /\ \A d \in Range(create.constraints) : Range(d.cols) \subseteq ColumnNames(create)
  /\ \A i, j \in DOMAIN create.constraints :
       create.constraints[i].kind = "primary" /\ create.constraints[j].kind = "primary" => i = j

\* An index is a dependency on the whole table, which only an added column and a
\* default leave alone; dropping or retyping a column also looks at the indexes that
\* this transaction dropped.
EngineTakesAlter(e, op) ==
  LET t == e.table
      constrained(kinds) == \E k \in t.constraints : k.kind \in kinds /\ Contains(k.cols, op.col)
      indexed == \E i \in e.gone : Covers(i, op.col)
  IN  /\ op.op \notin {"add", "default"} => t.indexes = {}
      /\ CASE op.op = "add"    -> op.ifx \/ op.col \notin ColumnNames(t)
           [] op.op = "drop"   -> IF op.col \in ColumnNames(t)
                                    THEN ~indexed /\ ~constrained({"unique", "primary"}) ELSE op.ifx
           [] op.op = "rename" -> op.col \in ColumnNames(t) /\ op.to \notin ColumnNames(t)
           [] op.op = "retype" -> /\ op.col \in ColumnNames(t) /\ ~indexed
                                  /\ ~constrained({"unique", "primary", "check"})
           [] OTHER            -> op.col \in ColumnNames(t)

EngineAlter(t, op) ==
  LET at == Position(t, op.col) IN
  CASE op.op = "add"    -> IF op.col \in ColumnNames(t) THEN t
                             ELSE [t EXCEPT !.columns = Append(@, EngineColumn(op.def))]
    [] op.op = "drop"   -> [t EXCEPT !.columns = SelectSeq(@, LAMBDA c : c.name # op.col),
                                     !.constraints = {k \in @ : ~Contains(k.cols, op.col)}]
    [] op.op = "rename" -> [t EXCEPT !.columns[at].name = op.to,
                                     !.constraints = {[k EXCEPT !.cols = RenameIn(@, op.col, op.to)] : k \in @}]
    [] op.op = "retype" -> [t EXCEPT !.columns[at].type = op.def.type]
    [] op.op = "set_not_null"  -> [t EXCEPT !.columns[at].mandatory = TRUE]
    [] op.op = "drop_not_null" -> [t EXCEPT !.columns[at].mandatory = FALSE]
    [] OTHER            -> t

\* A unique index cannot take its name back in the transaction that dropped it.
EngineTakesIndex(e, i) ==
  /\ Range(i.cols) \subseteq ColumnNames(e.table)
  /\ i.unique => \A g \in e.gone : g.name # i.name

EngineStep(e, s) ==
  IF ~e.ok THEN e ELSE
  CASE s.do = "drop_index" ->
         [e EXCEPT !.gone = @ \cup {i \in e.table.indexes : i.name = s.arg},
                   !.table.indexes = {i \in @ : i.name # s.arg}]
    [] s.do = "create_index" ->
         IF \E i \in e.table.indexes : i.name = s.arg.name THEN e
         ELSE IF EngineTakesIndex(e, s.arg) THEN [e EXCEPT !.table.indexes = @ \cup {s.arg}]
         ELSE [e EXCEPT !.ok = FALSE]
    [] s.do = "alter" ->
         IF EngineTakesAlter(e, s.arg) THEN [e EXCEPT !.table = EngineAlter(@, s.arg)]
         ELSE [e EXCEPT !.ok = FALSE]

EngineRun(t, batch) == FoldLeft(EngineStep, [ok |-> TRUE, table |-> t, gone |-> {}], batch)

Do(what, args) == [i \in DOMAIN args |-> [do |-> what, arg |-> args[i]]]

-----------------------------------------------------------------------------
(* The statements.                                                         *)

Init == meta = NoTable /\ shard = NoTable /\ last = [ops |-> <<>>, out |-> "none"]

Refuse == last' = [ops |-> <<>>, out |-> "refused"] /\ UNCHANGED <<meta, shard>>

\* fail_if_unreachable, and the metadata recorded once the shards took the batch.
Ship(batch, ops, m) ==
  LET e == EngineRun(shard, batch) IN
  IF e.ok THEN /\ meta' = m /\ shard' = e.table /\ last' = [ops |-> <<>>, out |-> "done"]
          ELSE /\ UNCHANGED <<meta, shard>> /\ last' = [ops |-> ops, out |-> "failed"]

CreateTable(create) ==
  /\ ~meta.there
  /\ IF CreateIsValid(create) /\ EngineTakesCreate(create)
       THEN /\ meta' = MetaOf(create) /\ shard' = EngineTable(create)
            /\ last' = [ops |-> <<>>, out |-> "done"]
       ELSE Refuse

\* shard_local_alter_with_index_rebuild: every recorded index off, the change, and the
\* indexes the metadata now records back on.
AlterBatch(before, after, ops) ==
  Do("drop_index", [i \in DOMAIN before |-> before[i].name]) \o Do("alter", ops)
    \o Do("create_index", after)

AlterTable(ops) ==
  /\ meta.there
  /\ LET new == ApplyAll(meta, ops) IN
     IF AlterIsPlanned(ops) /\ new.ok
       THEN Ship(AlterBatch(meta.indexes, new.meta.indexes, ops), ops, new.meta)
       ELSE Refuse

\* The names of the physical indexes of the table.
IndexNames == {i.name : i \in Range(meta.indexes)} \cup
              {k.name : k \in {c \in Range(meta.constraints) : c.backed}}

PlanCreateIndex(i) ==
  /\ i.name # NoName /\ ~i.expr /\ Range(i.cols) \subseteq ColumnNames(meta)
  /\ i.unique => Contains(i.cols, meta.key) /\ i.clause = None

CreateIndex(i) ==
  /\ meta.there
  /\ LET recorded == [name |-> i.name, cols |-> i.cols, unique |-> i.unique] IN
     IF PlanCreateIndex(i) /\ i.name \notin IndexNames
       THEN Ship(Do("create_index", <<recorded>>), <<>>, [meta EXCEPT !.indexes = Append(@, recorded)])
       ELSE Refuse

DropIndex(name) ==
  /\ meta.there
  /\ IF name \in {i.name : i \in Range(meta.indexes)}
       THEN Ship(Do("drop_index", <<name>>), <<>>,
                 [meta EXCEPT !.indexes = SelectSeq(@, LAMBDA i : i.name # name)])
       ELSE Refuse

\* plan_add_constraint: only a named UNIQUE can be added to a table with rows.
PlanAddConstraint(d) ==
  d.kind = "unique" /\ d.deco # "NOT VALID" /\ DeclaredIsValid(d) /\ d.name # NoName

AddConstraint(d) ==
  /\ meta.there
  /\ LET one == IntoMeta(d, meta.key, ColumnNames(meta), meta.constraints, TRUE)
         index == [name |-> d.name, cols |-> d.cols, unique |-> TRUE]
     IN  IF PlanAddConstraint(d) /\ one.ok /\ d.name \notin IndexNames
           THEN Ship(Do("create_index", <<index>>), <<>>,
                     [meta EXCEPT !.constraints = Append(@, one.meta)])
           ELSE Refuse

\* A declared constraint is part of the table and stays.
DropConstraint(name) ==
  /\ meta.there
  /\ IF \E k \in Range(meta.constraints) : k.name = name /\ k.backed
       THEN Ship(Do("drop_index", <<name>>), <<>>,
                 [meta EXCEPT !.constraints = SelectSeq(@, LAMBDA k : k.name # name)])
       ELSE Refuse

Next ==
  \/ \E create \in CreateTables : CreateTable(create)
  \/ \E ops \in Alters : AlterTable(ops)
  \/ \E i \in Indexes : CreateIndex(i)
  \/ \E i \in Indexes : DropIndex(i.name)
  \/ \E d \in Constraints : AddConstraint(d)
  \/ \E d \in Constraints : DropConstraint(d.name)

Spec == Init /\ [][Next]_vars

-----------------------------------------------------------------------------
(* Properties.                                                             *)

Enforced == {[kind |-> k.kind, cols |-> k.cols] : k \in {c \in Range(meta.constraints) : ~c.backed}}
RecordedIndexes ==
  Range(meta.indexes) \cup
  {[name |-> k.name, cols |-> k.cols, unique |-> TRUE] : k \in {c \in Range(meta.constraints) : c.backed}}
Uniqueness == {i.cols : i \in {j \in shard.indexes : j.unique}} \cup
              {k.cols : k \in {c \in shard.constraints : c.kind # "check"}}

\* The metadata describes the table the shards have: the same columns in the same
\* order, of the same types, with the same NOT NULL, the same indexes and constraints
\* (that a PRIMARY KEY makes its columns mandatory is not recorded).  "The
\* coordinator gives the same answer, so the catalog never describes a table the
\* shards do not have" (constraints.rs, keeping constraints and columns consistent).
CatalogMatchesShards ==
  /\ meta.there = shard.there
  /\ meta.there =>
       /\ meta.columns = [i \in DOMAIN shard.columns |->
            [name |-> shard.columns[i].name, type |-> shard.columns[i].type,
             nullable |-> ~shard.columns[i].mandatory]]
       /\ RecordedIndexes = shard.indexes
       /\ {[k EXCEPT !.cols = Range(@)] : k \in Enforced}
            = {[k EXCEPT !.cols = Range(@)] : k \in shard.constraints}

\* Whatever uniqueness a shard enforces covers the shard key, through renames and
\* constraints added later: a shard sees every row that could collide.
UniquenessCoversShardKey == meta.there => \A cols \in Uniqueness : Contains(cols, meta.key)

\* An anonymized column stays a column that holds the digest, so the pseudonym of
\* every later write has a place to go (validate_anonymized_columns, reject_if_anonymized).
AnonymizedColumnsHoldDigest ==
  meta.there => \A a \in meta.anonymized :
    a \in ColumnNames(meta) /\ StringTypeHoldsDigest(ColumnOf(meta, a).type)

\* No two constraints of a table have one name, generated or given, so DROP CONSTRAINT
\* means one of them.
ConstraintNamesAreUnique ==
  meta.there => IsInjective([i \in DOMAIN meta.constraints |-> meta.constraints[i].name])

MetadataOnly(op) == op.op \in {"add", "default"}
HasUniqueIndex == \E i \in Range(meta.indexes) : i.unique

\* What the metadata accepts the shards accept: the guards exist so that no client is
\* told a node could not be reached when the statement was at fault.  A rename onto
\* a column that exists is left to the shards, and a metadata-only change of a table
\* with a unique index is the case of MetadataOnlyChangesApply.
AcceptedIsApplied ==
  last.out = "failed" =>
    \E op \in Range(last.ops) : op.op = "rename" \/ (MetadataOnly(op) /\ HasUniqueIndex)

\* Adding a column and changing a default leave every index valid, so they are applied
\* while an index exists (apply_alter_operation).
MetadataOnlyChangesApply ==
  last.out = "failed" => ~\A op \in Range(last.ops) : MetadataOnly(op)

\* The metadata is that of a table: indexes and constraints are on its columns.
TypeOK ==
  /\ last.out \in {"none", "refused", "failed", "done"}
  /\ meta.there => /\ meta.columns # <<>>
                   /\ \A x \in Range(meta.indexes) \cup Range(meta.constraints) :
                        Range(x.cols) \subseteq ColumnNames(meta)

=============================================================================
