---------------------------- MODULE ShardedTable ----------------------------
(***************************************************************************)
(* How one SQL write becomes writes on shards (pgwire_handler/{dml, merge, *)
(* bulk_insert}.rs, write_sql_cl/, write_router/, anonymization/).         *)
(*                                                                         *)
(* The coordinator reads the shard key out of the statement, sends each    *)
(* shard the part of the statement about its rows, and adds up the counts. *)
(* Each shard runs its part on its own rows only. The table as a whole     *)
(* must nevertheless behave like one table: WholeTable says what that      *)
(* means, and MCShardedTable checks that this module implements it.        *)
(*                                                                         *)
(* Replication and failures of nodes are in Replication; here every shard  *)
(* answers, and a statement can only fail for what it does to the rows.    *)
(***************************************************************************)
EXTENDS ShardEngine

CONSTANTS
    Hash(_),          \* compute_shard_index's hash of a routing text
    Statements,       \* the statements clients send, a sequence
    SecretWrites,     \* the INSERTs into vairedb_catalog.anonymization_secret
    RowsPerStatement, \* ROWS_PER_STATEMENT
    RowsPerPayload    \* the rows that fit MAX_BULK_PAYLOAD_BYTES

VARIABLES
    stored,  \* table -> bucket -> the set of rows of that shard
    secrets, \* secret id -> its key, for the ids in the catalog
    sent,    \* the statement being answered: its number, 0 for none
    reply    \* the answer

vars == <<stored, secrets, sent, reply>>

Buckets(t) == 0 .. Meta[t].buckets - 1
Contents(t) == UNION Range(stored[t])

-----------------------------------------------------------------------------
(***************************************************************************)
(* Shared planning steps.                                                  *)
(***************************************************************************)
\* shard_for_bucket(compute_shard_index(text)): the shard is matched on the
\* bucket its record carries.
Bucket(t, v) == Hash(RoutingText(v)) % Meta[t].buckets

\* materialize_insert_columns: a positional row takes the leading columns.
Arity(st) == Len(st.rows[1])
Positional(t, st) == \A i \in DOMAIN st.rows : Len(st.rows[i]) = Arity(st) /\ Arity(st) <= Len(Meta[t].cols)
Materialized(t, st) ==
    IF st.cols # <<>> \/ st.rows = <<>> THEN st
    ELSE [st EXCEPT !.cols = SubSeq(Meta[t].cols, 1, Arity(st))]

(***************************************************************************)
(* anonymization::anonymize_statement: a value written to an anonymized    *)
(* column is replaced by its digest, or the statement is refused.          *)
(***************************************************************************)
SecretOf(t, c) == Meta[t].anonymized[c]
IsAnonymized(t, c) == c \in DOMAIN Meta[t].anonymized
Hashable(e) == e.form \in {"null", "number", "quoted", "prefixed"}

\* anonymize_expr: the digest is of the literal's text; the text of a prefixed
\* string is its rendering, prefix included.
AnonymizeExpr(t, c, e) ==
    IF e.form = "null" THEN e
    ELSE Expr("quoted", Hmac(secrets[SecretOf(t, c)],
                             [quote |-> IF e.form = "prefixed" THEN "E'" ELSE "", body |-> e.body]))

Written(t, st) ==
    IF st.op = "insert"
    THEN {<<st.cols[i], st.rows[r][i]>> : i \in DOMAIN st.cols, r \in DOMAIN st.rows}
    ELSE {<<c, st.set[c]>> : c \in DOMAIN st.set}

CannotAnonymize(t, st) ==
    \/ \E w \in Written(t, st) : /\ IsAnonymized(t, w[1])
                                 /\ ~ Hashable(w[2]) \/ SecretOf(t, w[1]) \notin DOMAIN secrets
    \/ st.op = "update" /\ st.tuple /\ \E c \in DOMAIN st.set : IsAnonymized(t, c)

Anonymize(t, st) ==
    [st EXCEPT !.rows = [r \in DOMAIN @ |-> [i \in DOMAIN @[r] |->
                            IF st.op = "insert" /\ IsAnonymized(t, st.cols[i])
                            THEN AnonymizeExpr(t, st.cols[i], @[r][i]) ELSE @[r][i]]],
               !.set = [c \in DOMAIN @ |->
                            IF IsAnonymized(t, c) THEN AnonymizeExpr(t, c, @[c]) ELSE @[c]]]

(***************************************************************************)
(* renumber_placeholders and scalar_to_write_param: the shard-local        *)
(* statement binds $1..$k densely, in the order they are met.              *)
(***************************************************************************)
ExprsOf(st) == FlattenSeq(st.rows)
               \o [i \in 1 .. Cardinality(DOMAIN st.set) |-> st.set[Listed(DOMAIN st.set)[i]]]
               \o [i \in 1 .. Cardinality(DOMAIN st.conflict.set) |->
                      st.conflict.set[Listed(DOMAIN st.conflict.set)[i]]]
               \o FlattenSeq([i \in DOMAIN st.where |-> Listed({eq.e : eq \in st.where[i]})])

PlaceholderOrder(st) ==
    FoldLeft(LAMBDA order, e : IF e.form # "param" \/ e.idx \in ToSet(order) THEN order
                               ELSE Append(order, e.idx),
             <<>>, ExprsOf(st))

Renumbered(order, e) ==
    IF e.form = "param" THEN [e EXCEPT !.idx = CHOOSE i \in DOMAIN order : order[i] = e.idx] ELSE e
RenumberedAll(order, f) == [x \in DOMAIN f |-> Renumbered(order, f[x])]

RenumberPlaceholders(order, st) ==
    [st EXCEPT !.rows = [r \in DOMAIN @ |-> RenumberedAll(order, @[r])],
               !.set = RenumberedAll(order, @),
               !.conflict.set = RenumberedAll(order, @),
               !.where = [i \in DOMAIN @ |-> {[eq EXCEPT !.e = Renumbered(order, @)] : eq \in @[i]}],
               !.params = [i \in DOMAIN order |-> @[order[i]]]]

Rebound(st) == RenumberPlaceholders(PlaceholderOrder(st), st)

\* A placeholder the client bound nothing for is shipped as NULL by the code and
\* refused earlier by the protocol; a value with no SQL literal is refused here.
Bindable(st) == \A i \in ToSet(PlaceholderOrder(st)) :
    i \in DOMAIN st.params /\ st.params[i].kind # "list"

\* One shard's part of the statement; its placeholders are renumbered as it is
\* shipped (see ExecutePlan).
Write(b, st) == [bucket |-> b, st |-> st]
-----------------------------------------------------------------------------
(***************************************************************************)
(* INSERT ... VALUES.                                                      *)
(***************************************************************************)
KeyIndex(cols, key) == CHOOSE i \in DOMAIN cols : cols[i] = key
NamesKey(cols, key) == \E i \in DOMAIN cols : cols[i] = key

\* The routing value of a row's key, read from the named column of the list.
RowKey(st, column, r) == ExprRoutingValue(st.rows[r][KeyIndex(st.cols, column)], st.params)
AllRoutable(st, column) ==
    NamesKey(st.cols, column) /\ \A r \in DOMAIN st.rows : RowKey(st, column, r).kind = "value"

\* validate_on_conflict: target "key" is a column list with the shard key in it.
ValidOnConflict(t, st) ==
    \/ st.conflict.action = "none"
    \/ /\ st.conflict.target \in {"none", "key"}
       /\ Meta[t].key \notin DOMAIN st.conflict.set

RowBucket(st, column, r) == Bucket(st.table, RowKey(st, column, r))

\* The rows of a VALUES list that one bucket owns, in the client's order
\* (split_insert_by_rows, split_merge_by_rows).
RowsOf(st, column, b) ==
    LET mine == SelectSeq([r \in DOMAIN st.rows |-> r], LAMBDA r : RowBucket(st, column, r) = b)
    IN [st EXCEPT !.rows = [i \in DOMAIN mine |-> st.rows[mine[i]]]]

\* plan_insert_with_split, plan_merge_by_rows: one write per bucket, in bucket order.
SplitByRows(st, column) ==
    SelectSeq([b \in 1 .. Meta[st.table].buckets |-> Write(b - 1, RowsOf(st, column, b - 1))],
              LAMBDA w : w.st.rows # <<>>)

NoPlan == [ok |-> FALSE, writes |-> <<>>]
Plan(writes) == [ok |-> TRUE, writes |-> writes]

\* plan_dml for an INSERT ... VALUES.
PlanAnonymized(t, st) ==
    IF ~ AllRoutable(st, Meta[t].key) \/ ~ ValidOnConflict(t, st) \/ ~ Bindable(st)
    THEN NoPlan ELSE Plan(SplitByRows(st, Meta[t].key))

PlanMaterialized(t, st) ==
    IF CannotAnonymize(t, st) THEN NoPlan ELSE PlanAnonymized(t, Anonymize(t, st))

PlanInsert(st) ==
    IF st.cols = <<>> /\ ~ Positional(st.table, st) THEN NoPlan
    ELSE PlanMaterialized(st.table, Materialized(st.table, st))
-----------------------------------------------------------------------------
(***************************************************************************)
(* UPDATE and DELETE: routed by the predicate.                             *)
(***************************************************************************)
\* extract_equality_from_where: the first conjunct that equates the bare key
\* column with a value; an OR constrains nothing.
KeyConjuncts(t, st) ==
    SelectSeq(st.where, LAMBDA c : \E eq \in c : c = {eq} /\ eq.col = Meta[t].key /\ eq.bare)

EqualityInWhere(t, st) ==
    ExprRoutingValue((CHOOSE eq \in KeyConjuncts(t, st)[1] : TRUE).e, st.params)

Broadcast(t, st) == [b \in 1 .. Meta[t].buckets |-> Write(b - 1, st)]

\* resolve_target_shards: a NULL key is refused, one that cannot be reduced to a
\* value is left to every shard to evaluate.
RouteBy(t, st, v) ==
    CASE v.kind = "value" -> Plan(<<Write(Bucket(t, v), st)>>)
      [] v.kind = "null"  -> NoPlan
      [] OTHER            -> Plan(Broadcast(t, st))

RoutePredicate(t, st) ==
    IF KeyConjuncts(t, st) = <<>> THEN Plan(Broadcast(t, st))
    ELSE RouteBy(t, st, EqualityInWhere(t, st))

PlanPredicate(t, st) == IF ~ Bindable(st) THEN NoPlan ELSE RoutePredicate(t, st)

PlanUpdate(st) ==
    IF CannotAnonymize(st.table, st) \/ Meta[st.table].key \in DOMAIN st.set THEN NoPlan
    ELSE PlanPredicate(st.table, Anonymize(st.table, st))

PlanDelete(st) == PlanPredicate(st.table, st)
-----------------------------------------------------------------------------
(***************************************************************************)
(* MERGE (pgwire_handler/merge.rs, write_sql_cl/merge.rs).                 *)
(***************************************************************************)
\* Forms no shard could run, or whose rows could not be placed: merge_shape,
\* normalize_merge_column_qualifiers, materialize_merge_insert_columns and the
\* statement-only part of validate_merge.
MergeRefuses ==
    {"target is not a table", "subquery source", "VALUES without column names",
     "VALUES with LIMIT", "writes a column of another relation", "more values than columns",
     "OUTPUT", "UPDATE WHERE", "INSERT WHERE", "INSERT ROW", "several rows", "arity"}

\* merge_key_column: the source column that an AND-ed, fully qualified equality
\* equates with the target's shard key.
MergeKeyConjuncts(st) ==
    SelectSeq(st.on, LAMBDA c : \E eq \in c :
                         c = {eq} /\ eq.target = Meta[st.table].key /\ eq.qualified)
MergeKeyColumn(st) == (CHOOSE eq \in MergeKeyConjuncts(st)[1] : TRUE).source

\* validate_merge: the key is not assigned, and a new row takes its key from the
\* column the ON clause matches.
ValidMerge(st) ==
    /\ st.sets # Meta[st.table].key
    /\ \A i \in DOMAIN st.clauses :
          st.clauses[i].do = "insert" => st.clauses[i].key = MergeKeyColumn(st)

\* (Mutant: the source may be sharded by any column.)
MergesFromAnyKey(t, s, column) == Meta[t].buckets = Meta[s].buckets

\* check_table_source: same shard count, the source placed by the matched
\* column, and every holder of a target shard holds the source shard too.
MergesFrom(t, s, column) ==
    /\ Meta[t].buckets = Meta[s].buckets
    /\ column = Meta[s].key
    /\ \A b \in Buckets(t) : Meta[t].nodes[b] \subseteq Meta[s].nodes[b]

BySource(st) == \E i \in DOMAIN st.clauses : st.clauses[i].when = "not_matched_by_source"

\* merge_row_shard_keys, then plan_merge_by_rows.
PlanMergeValues(st) ==
    IF BySource(st) \/ ~ AllRoutable(st, MergeKeyColumn(st)) \/ ~ Bindable(st)
    THEN NoPlan ELSE Plan(SplitByRows(st, MergeKeyColumn(st)))

\* handle_merge
PlanMerge(st) ==
    IF \/ st.form \intersect MergeRefuses # {}
       \/ DOMAIN Meta[st.table].anonymized # {}
       \/ MergeKeyConjuncts(st) = <<>>
       \/ ~ ValidMerge(st)
    THEN NoPlan
    ELSE IF st.source = "" THEN PlanMergeValues(st)
    ELSE IF ~ MergesFrom(st.table, st.source, MergeKeyColumn(st)) THEN NoPlan
    ELSE Plan(Broadcast(st.table, st))
-----------------------------------------------------------------------------
(***************************************************************************)
(* Rows the client did not spell out: INSERT ... SELECT, and the batches   *)
(* of a COPY. They become literals (rows.rs), or travel as data (bulk).    *)
(***************************************************************************)
Pieces(rows, size) ==
    [k \in 1 .. (Len(rows) + size - 1) \div size |->
        SubSeq(rows, (k - 1) * size + 1, Min({k * size, Len(rows)}))]

\* insert_statements_from_batches, planned chunk by chunk before any is shipped.
LiteralPlans(st) ==
    [k \in 1 .. Len(Pieces(st.rows, RowsPerStatement)) |->
        PlanInsert([Literals(st) EXCEPT !.rows = Pieces(@, RowsPerStatement)[k]])]

\* plan_bulk_insert: a payload of one shard's rows is a plan of its own.
TakesBulkLane(st) ==
    DOMAIN Meta[st.table].anonymized = {} /\ AllRoutable(Literals(st), Meta[st.table].key)


Payloads(w) ==
    [k \in 1 .. Len(Pieces(w.st.rows, RowsPerPayload)) |->
        Plan(<<[w EXCEPT !.st.rows = Pieces(@, RowsPerPayload)[k]]>>)]

BulkPlans(st) ==
    FlattenSeq([i \in DOMAIN SplitByRows(Literals(st), Meta[st.table].key) |->
                  Payloads(SplitByRows(Literals(st), Meta[st.table].key)[i])])


\* reject_hashing_a_digest
HashesADigest(st) ==
    DOMAIN Meta[st.table].anonymized # {} /\ DOMAIN Meta[st.source].anonymized # {}
-----------------------------------------------------------------------------
(***************************************************************************)
(* Shipping (execute_plan, ship_row_plans).                                *)
(***************************************************************************)
\* The source rows a MERGE's statement finds on one shard.
SourceOn(st, b) == IF st.op = "merge" /\ st.source # "" THEN stored[st.source][b] ELSE {}

\* The writes of a plan go out one after the other; the first to fail ends it
\* and leaves the earlier ones applied.
AddWrite(a, w, r) == Outcome(r.ok, [a.rows EXCEPT ![w.bucket] = r.rows], a.n + r.n)

ExecutePlan(acc, plan) ==
    FoldLeft(LAMBDA a, w :
               IF ~ a.ok THEN a
               ELSE AddWrite(a, w, Effect(Rebound(w.st), a.rows[w.bucket], SourceOn(w.st, w.bucket))),
             acc, plan.writes)

\* The count of a partial failure is that of the plans before the failing one.
AddPlan(a, e) == [ok |-> e.ok, rows |-> e.rows, done |-> a.done + 1,
                  n |-> IF e.ok THEN a.n + e.n ELSE a.n]

ShipRowPlans(rows, plans) ==
    FoldLeft(LAMBDA a, p : IF ~ a.ok THEN a
                           ELSE AddPlan(a, ExecutePlan(Outcome(TRUE, a.rows, 0), p)),
             [ok |-> TRUE, rows |-> rows, done |-> 0, n |-> 0], plans)

Refuse == stored' = stored /\ reply' = Answer("refused", 0)

\* A statement of one plan is execute_plan alone: it is never partly done.
Ship(t, plans) ==
    \E end \in {ShipRowPlans(stored[t], plans)} :
        /\ stored' = [stored EXCEPT ![t] = end.rows]
        /\ reply' = IF end.ok THEN Answer("done", end.n)
                    ELSE IF end.done > 1 THEN Answer("partial", end.n)
                    ELSE Answer("failed", 0)
-----------------------------------------------------------------------------
Init ==
    /\ stored = [t \in Tables |-> [b \in Buckets(t) |-> {}]]
    /\ secrets = <<>>
    /\ sent = 0
    /\ reply = Answer("done", 0)

\* handle_insert_from_query
InsertFromQuery(st, rows) ==
    IF HashesADigest(st) \/ Len(rows.cols) # Len(Meta[st.source].cols) THEN <<NoPlan>>
    ELSE LiteralPlans(rows)

\* write_row_batch, for one batch of a COPY
Copy(st) ==
    IF \E i \in DOMAIN st.types : ~ Spellable(st.types[i]) THEN <<NoPlan>>
    ELSE IF TakesBulkLane(st) THEN BulkPlans(st) ELSE LiteralPlans(st)

\* The plans of a statement; all are made before any is shipped.
PlansOf(st) ==
    CASE st.op = "insert" /\ st.source = "" -> <<PlanInsert(st)>>
      [] st.op = "insert" /\ st.source # "" ->
            InsertFromQuery(st, Selected(st, Contents(st.source)))
      [] st.op = "update" -> <<PlanUpdate(st)>>
      [] st.op = "delete" -> <<PlanDelete(st)>>
      [] st.op = "merge"  -> <<PlanMerge(st)>>
      [] st.op = "copy"   -> Copy(st)

\* handle_anonymization_secret_insert: the rows are checked before any is put.
PutSecret(w) ==
    /\ UNCHANGED stored
    /\ IF w.form = {} THEN secrets' = w.keys @@ secrets /\ reply' = Answer("done", Cardinality(DOMAIN w.keys))
       ELSE reply' = Answer("refused", 0) /\ UNCHANGED secrets

\* One statement is answered before the session sends the next.
Execute(n) ==
    /\ sent = 0 /\ sent' = n
    /\ \E plans \in {PlansOf(Statements[n])} :
          IF \A k \in DOMAIN plans : plans[k].ok THEN Ship(Statements[n].table, plans) ELSE Refuse
    /\ UNCHANGED secrets

WriteSecret(w) == sent = 0 /\ sent' = -1 /\ PutSecret(w)

Answered == sent # 0 /\ sent' = 0 /\ reply' = Answer("done", 0) /\ UNCHANGED <<stored, secrets>>

Next == \/ \E n \in DOMAIN Statements : Execute(n)
        \/ \E w \in SecretWrites : WriteSecret(w)
        \/ Answered

Spec == Init /\ [][Next]_vars
-----------------------------------------------------------------------------
(***************************************************************************)
(* Properties.                                                             *)
(***************************************************************************)
\* Every shard holds rows of its table, and the secrets in the catalog are keys.
TypeOK ==
    /\ \A t \in Tables : /\ DOMAIN stored[t] = Buckets(t)
                         /\ \A r \in Contents(t) : DOMAIN r = Columns(t)
    /\ \A t \in Tables : \A r \in Contents(t) : r[Meta[t].key].kind \in {"number", "text"}
    /\ reply.tag \in {"done", "refused", "failed", "partial"}

\* The routing text of a key as it is stored.
HomeOf(t, row) ==
    LET e == CellLiteral(IF Meta[t].types[Meta[t].key] = "number" THEN "int" ELSE "text",
                         Rendered(row[Meta[t].key]))
    IN Bucket(t, ExprRoutingValue(e, <<>>))

\* A row is on the shard its stored key hashes to, however the statement that
\* wrote it spelled the key and whichever path it took: literal, parameter,
\* positional, split, merged, selected or copied (shard_for_bucket's contract).
RowsAreHome ==
    \A t \in Tables : \A b \in Buckets(t) : \A r \in stored[t][b] : HomeOf(t, r) = b

\* The key is unique across the shards although each shard only checks its own
\* rows (validate_on_conflict, validate_merge, the refusal to update a key).
KeysAreUnique ==
    \A t \in Tables : \A b, d \in Buckets(t) : \A r \in stored[t][b], q \in stored[t][d] :
        r[Meta[t].key] = q[Meta[t].key] => b = d /\ r = q



\* The sharded tables behave like whole ones: see WholeTable.
Whole == INSTANCE WholeTable WITH rows <- [t \in Tables |-> Contents(t)]
WholeSpec == Whole!Spec
=============================================================================
