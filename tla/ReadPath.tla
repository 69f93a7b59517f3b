------------------------------ MODULE ReadPath ------------------------------
(***************************************************************************)
(* One connection's reads and session parameters (handler.rs, parser.rs,   *)
(* introspection.rs, session_params.rs, catalog/schema_provider.rs), while *)
(* other connections change the catalog and the rows.  A statement reaches *)
(* the coordinator in a simple query string, whose statements run one      *)
(* after the other, or is planned at Parse, described, and executed any    *)
(* number of times from the plan Parse kept.                               *)
(*                                                                         *)
(* The catalog is a table t, known by how many columns it has (0: it does  *)
(* not exist), and a view v over t, known by its definition (0: none; 2    *)
(* reads t's second column).  data counts the writes t has seen.           *)
(* Transaction blocks are modelled in Session; here a block is only idle,  *)
(* open or failed.                                                         *)
(***************************************************************************)
EXTENDS Integers, Sequences, Settings

CONSTANTS Slots,     \* names of prepared statements
          Nothing,   \* no plan, no description, no reply
          NoPlan     \* planning was refused

VARIABLES catalog, data,         \* the shared state
          initial, overrides,    \* SessionParams
          block,                 \* the transaction block
          prepared, described,   \* per slot: VairePrepared, RowDescription
          batch, responses,      \* the simple query being run
          reply                  \* what the last step sent

vars == <<catalog, data, initial, overrides, block, prepared, described, batch,
          responses, reply>>

Virtual == {"tables", "views", "columns"}

-----------------------------------------------------------------------------
(* Planning.                                                               *)

\* references_catalog_schema: what the local context answers.
IsCatalog(rel) == rel \in Virtual \cup {"pg_settings"}

\* VaireDbCatalogSchema::build_provider: a table materialised from the catalog
\* as it is now.
BuildProvider(name, cat) ==
  CASE name = "tables"  -> IF cat.t = 0 THEN {} ELSE {"t"}
    [] name = "views"   -> IF cat.v = 0 THEN {} ELSE {<<"v", cat.v>>}
    [] name = "columns" -> {<<"t", c>> : c \in 1 .. cat.t}

Resolves(rel, cat) ==
  CASE rel = "t" -> cat.t > 0
    [] rel = "v" -> cat.v > 0 /\ cat.t >= cat.v
    [] OTHER     -> TRUE

\* What the planner binds a query to: the expansion of a view, the columns of a
\* table, the rows of a virtual table.  pg_settings is read when it is scanned.
BoundTo(rel, cat) ==
  [def   |-> IF rel = "v" THEN cat.v ELSE 0,
   shape |-> IF rel \in {"t", "v"} THEN cat.t ELSE 0,
   rows  |-> IF rel \in Virtual THEN BuildProvider(rel, cat) ELSE {}]

\* The types of a plan's columns.  sum over bigint is numeric once
\* apply_read_path_passes has widened it; a rank is DataFusion's UInt64.
PlanTypes(rel, con, bound, passes) ==
  CASE con = "sum"  -> <<IF passes /\ ~IsCatalog(rel) THEN "numeric" ELSE "int8">>
    [] con = "rank" -> <<"uint64">>
    [] rel = "t"    -> [c \in 1 .. bound.shape |-> "int8"]
    [] rel = "v"    -> [c \in 1 .. bound.def |-> "int8"]
    [] OTHER        -> <<"text">>

Plan(rel, con, bound, passes) ==
  [rel |-> rel, con |-> con, bound |-> bound, types |-> PlanTypes(rel, con, bound, passes)]

\* plan_select: prepare_select_for_planning, the planner, the passes.
PlanSelect(stmt, cat) ==
  IF Resolves(stmt.rel, cat) THEN Plan(stmt.rel, stmt.con, BoundTo(stmt.rel, cat), TRUE)
  ELSE NoPlan

\* plan_introspection: the inner query through the same preparation and the
\* planner, but not through the passes; a write has no plan to show.
PlanIntrospection(stmt, cat) ==
  IF stmt.mode # "write" /\ Resolves(stmt.rel, cat)
  THEN Plan(stmt.rel, stmt.con, BoundTo(stmt.rel, cat), FALSE)
  ELSE NoPlan

PlanOf(stmt, cat) ==
  CASE stmt.k = "select"  -> PlanSelect(stmt, cat)
    [] stmt.k = "explain" -> PlanIntrospection(stmt, cat)
    [] OTHER              -> Nothing

-----------------------------------------------------------------------------
(* Answers.                                                                *)

Failure(stmt, code) == [stmt |-> stmt, code |-> code, fields |-> <<>>, rows |-> Nothing]
Answer(stmt, fields, rows) == [stmt |-> stmt, code |-> "ok", fields |-> fields, rows |-> rows]

\* encoding::wire_schema, as far as types go.
WireType(type) == IF type = "uint64" THEN "int8" ELSE type

WireSchema(types) == [i \in DOMAIN types |-> WireType(types[i])]

\* session_params::show_fields, introspection::result_fields and the wire schema
\* of a select's plan: what get_result_schema describes.
ShowFields(target) ==
  IF target = "all" THEN <<"name", "setting", "description">>
  ELSE IF Modelled(target) THEN <<target>> ELSE NoPlan

IntrospectionFields(mode) ==
  IF mode = "describe" THEN <<"column_name", "data_type", "is_nullable">> ELSE <<"QUERY PLAN">>

\* (Mutant: Describe reports the plan's own types.)
GetResultSchemaOfPlan(stmt, plan) ==
  CASE stmt.k = "select"  -> plan.types
    [] stmt.k = "explain" -> IntrospectionFields(stmt.mode)
    [] stmt.k = "show"    -> ShowFields(ShowTarget(stmt.target))
    [] OTHER              -> <<>>

GetResultSchema(stmt, plan) ==
  CASE stmt.k = "select"  -> WireSchema(plan.types)
    [] stmt.k = "explain" -> IntrospectionFields(stmt.mode)
    [] stmt.k = "show"    -> ShowFields(ShowTarget(stmt.target))
    [] OTHER              -> <<>>

\* A scan reads the rows the shards hold when it runs, and fails when they no
\* longer have the columns it was planned with.
Scannable(plan) ==
  plan.rel \in {"t", "v"} => catalog.t > 0 /\ plan.bound.shape <= catalog.t

\* PgSettingsTable::scan reads the settings the connection has at Execute.
RowsRead(plan) ==
  IF plan.rel = "pg_settings" THEN SettingsOf(initial, overrides)
  ELSE [bound |-> plan.bound, data |-> IF IsCatalog(plan.rel) THEN 0 ELSE data]

\* execute_select_plan and handle_select, from a plan.
ExecuteSelect(stmt, plan) ==
  IF Scannable(plan) THEN Answer(stmt, WireSchema(plan.types), RowsRead(plan))
  ELSE Failure(stmt, "XX000")

\* execute_introspection: ANALYZE runs the plan, the others render it.
ExecuteIntrospection(stmt, plan) ==
  IF stmt.mode = "analyze" /\ ~Scannable(plan) THEN Failure(stmt, "XX000")
  ELSE Answer(stmt, IntrospectionFields(stmt.mode), [bound |-> plan.bound, types |-> plan.types])

ShowRows(target) ==
  IF target = "all" THEN ShowAll(initial, overrides) ELSE ValueOf(initial, overrides, target)

Show(stmt) ==
  IF ShowFields(ShowTarget(stmt.target)) = NoPlan THEN Failure(stmt, "42704")
  ELSE Answer(stmt, ShowFields(ShowTarget(stmt.target)), ShowRows(ShowTarget(stmt.target)))

-----------------------------------------------------------------------------
(* One statement, from a plan built now or kept since Parse: the answer,   *)
(* the parameters and the block it leaves.                                 *)

Outcome(answer, over, blk) == [answer |-> answer, overrides |-> over, block |-> blk]

\* note_failure_in_transaction.
Marked(answer, blk) == IF answer.code # "ok" /\ blk = "open" THEN "failed" ELSE blk

Unchanged(answer) == Outcome(answer, overrides, Marked(answer, block))

\* handle_transaction_control, as far as a read sees it.
AfterControl(op, blk) ==
  CASE op = "begin" -> IF blk = "idle" THEN "open" ELSE blk
    [] OTHER        -> "idle"

SetOutcome(stmt, applied) ==
  Outcome(IF applied.code = "ok" THEN Answer(stmt, <<>>, Nothing) ELSE Failure(stmt, applied.code),
          applied.overrides,
          IF applied.code # "ok" /\ block = "open" THEN "failed" ELSE block)

\* execute_one_statement, and the branches of the extended do_query.
Dispatch(stmt, plan) ==
  CASE stmt.k = "control" -> Outcome(Answer(stmt, <<>>, Nothing), overrides,
                                     AfterControl(stmt.op, block))
    [] block = "failed"   -> Unchanged(Failure(stmt, "25P02"))
    [] plan = NoPlan      -> Unchanged(Failure(stmt, "42P01"))
    [] stmt.k = "select"  -> Unchanged(ExecuteSelect(stmt, plan))
    [] stmt.k = "explain" -> Unchanged(ExecuteIntrospection(stmt, plan))
    [] stmt.k = "show"    -> Unchanged(Show(stmt))
    [] stmt.k = "set"     -> SetOutcome(stmt, ApplyTo(stmt.set, overrides))
    [] OTHER              -> Unchanged(Failure(stmt, "0A000"))

Applied(out) ==
  /\ overrides' = out.overrides
  /\ block' = out.block
  /\ UNCHANGED data

-----------------------------------------------------------------------------
Init ==
  /\ catalog \in [t : {0, 1}, v : {0}]
  /\ data = 0
  /\ initial = [p \in DOMAIN Params |->
                 IF p = "timezone" THEN Text("etc/utc") ELSE Unset]
  /\ overrides = <<>>
  /\ block = "idle"
  /\ prepared = [s \in Slots |-> Nothing]
  /\ described = [s \in Slots |-> Nothing]
  /\ batch = <<>>
  /\ responses = <<>>
  /\ reply = Nothing

\* SimpleQueryHandler::do_query parses the whole string, then runs it.
SimpleQuery(stmts) ==
  /\ batch = <<>>
  /\ batch' = stmts
  /\ responses' = <<>>
  /\ reply' = Nothing
  /\ UNCHANGED <<catalog, data, initial, overrides, block, prepared, described>>

\* The next statement of the string: planned against the catalog of this moment.
\* A failure is the whole string's answer, and nothing after it runs.
RunOne(out) ==
  /\ Applied(out)
  /\ IF out.answer.code # "ok" THEN
       /\ batch' = <<>> /\ responses' = <<>>
       /\ reply' = [answers |-> <<out.answer>>, slot |-> Nothing]
     ELSE IF Len(batch) = 1 THEN
       /\ batch' = <<>> /\ responses' = <<>>
       /\ reply' = [answers |-> Append(responses, out.answer), slot |-> Nothing]
     ELSE
       /\ batch' = Tail(batch) /\ responses' = Append(responses, out.answer)
       /\ reply' = Nothing
  /\ UNCHANGED <<catalog, initial, prepared, described>>

RunStatement ==
  /\ batch # <<>>
  /\ \E plan \in {PlanOf(Head(batch), catalog)} :
       \E out \in {Dispatch(Head(batch), plan)} : RunOne(out)

\* VaireQueryParser::parse_sql: the first statement of the string is kept with
\* its plan; a failure keeps nothing, and does not touch the block.
ParseWith(slot, stmt, plan) ==
  /\ prepared' = [prepared EXCEPT ![slot] =
                    IF plan = NoPlan THEN Nothing ELSE [stmt |-> stmt, plan |-> plan]]
  /\ described' = [described EXCEPT ![slot] = Nothing]
  /\ reply' = IF plan = NoPlan THEN [answers |-> <<Failure(stmt, "42P01")>>, slot |-> Nothing]
              ELSE Nothing
  /\ UNCHANGED <<catalog, data, initial, overrides, block, batch, responses>>

Parse(slot, stmts) ==
  /\ batch = <<>>
  /\ ParseWith(slot, stmts[1], PlanOf(stmts[1], catalog))

\* do_describe_statement and do_describe_portal.
Describe(slot) ==
  /\ batch = <<>> /\ prepared[slot] # Nothing
  /\ described' = [described EXCEPT ![slot] =
       GetResultSchema(prepared[slot].stmt, prepared[slot].plan)]
  /\ reply' = Nothing
  /\ UNCHANGED <<catalog, data, initial, overrides, block, prepared, batch, responses>>

\* ExtendedQueryHandler::do_query.
Execute(slot) ==
  /\ batch = <<>> /\ prepared[slot] # Nothing
  /\ \E out \in {Dispatch(prepared[slot].stmt, prepared[slot].plan)} :
       /\ Applied(out)
       /\ reply' = [answers |-> <<out.answer>>, slot |-> slot]
  /\ UNCHANGED <<catalog, initial, prepared, described, batch, responses>>

\* Other connections: DDL on the table and the view, and writes.
ChangeCatalog(cat) ==
  /\ cat # catalog
  /\ catalog' = cat
  /\ reply' = Nothing
  /\ UNCHANGED <<data, initial, overrides, block, prepared, described, batch, responses>>

OtherWrite ==
  /\ catalog.t > 0
  /\ data' = data + 1
  /\ reply' = Nothing
  /\ UNCHANGED <<catalog, initial, overrides, block, prepared, described, batch, responses>>
=============================================================================
