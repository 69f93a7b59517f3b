------------------------------ MODULE Session -------------------------------
(***************************************************************************)
(* One client connection of the coordinator: the transaction block that    *)
(* buffers writes (session.rs), the statements that open, mark, undo and   *)
(* commit it (transaction.rs), the statements that write (dml.rs,          *)
(* bulk_insert.rs), and COPY ... FROM STDIN, which stays in progress       *)
(* between messages (copy.rs, copy_stream.rs).                             *)
(*                                                                         *)
(* A connection handles one message at a time, so a handler is one step.   *)
(* A write is a record of the shard it goes to and an id; what the nodes   *)
(* do with a batch is the replication manager's answer: acknowledged by a  *)
(* quorum or an error.                                                     *)
(***************************************************************************)
EXTENDS Integers, Sequences, FiniteSets

CONSTANTS
  Shards,          \* shards of all tables
  TableOf,         \* TableOf[s]: the table of shard s
  GroupOf,         \* GroupOf[s]: its node set (node_set_key)
  Plans,           \* the shard sequences one INSERT or COPY batch can have
  Names,           \* savepoint names
  Kinds,           \* the kinds of statement the client sends
  MaxWrites,       \* bound on the writes planned
  MaxSavepoints    \* bound on the savepoints set at a time

ASSUME ShardAssumption == Plans \subseteq Seq(Shards) /\ << >> \notin Plans
ASSUME BoundAssumption == MaxWrites \in Nat /\ MaxSavepoints \in Nat

VARIABLES
  crossShard,  \* the setting allow_cross_shard_transactions
  status,      \* TransactionStatus
  writes,      \* the block's buffered writes
  savepoints,  \* its savepoints: [name, mark]
  readOnly,    \* BEGIN READ ONLY
  copy,        \* the COPY in progress: [on, ids], the ids of the rows it counts
  flushed,     \* the writes the last COMMIT shipped, in order
  sent,        \* ids of the writes sent to nodes
  acked,       \* ids of the writes a quorum acknowledged
  undone,      \* ids of the writes given up before they were sent
  count,       \* ids given so far
  broken,      \* history: savepoints there were when a statement of the block failed
  reply        \* the last reply to the client

vars == <<crossShard, status, writes, savepoints, readOnly, copy, flushed, sent, acked, undone,
          count, broken, reply>>

NoCopy == [on |-> FALSE, ids |-> {}]
Whole == -1      \* no statement of the block has failed

Tables == {TableOf[s] : s \in Shards}
IsOpen == status # "idle"
Ids(ws) == {ws[i].id : i \in DOMAIN ws}
Planned(p) == [i \in DOMAIN p |-> [id |-> count + i, shard |-> p[i]]]
BufferedTables == {TableOf[writes[i].shard] : i \in DOMAIN writes}

\* A reply: to which statement, its outcome, the writes it was to ship, those of
\* them a quorum has, and the buffered tables it read from.
Answer(to, tag, wanted, done, missed) ==
  [to |-> to, tag |-> tag, wanted |-> wanted, done |-> done, missed |-> missed]
Reply(to, tag) == reply' = Answer(to, tag, {}, {}, {})

Init ==
  /\ crossShard \in BOOLEAN
  /\ status = "idle" /\ writes = << >> /\ savepoints = << >> /\ readOnly = FALSE
  /\ copy = NoCopy
  /\ flushed = << >> /\ sent = {} /\ acked = {} /\ undone = {}
  /\ count = 0 /\ broken = Whole
  /\ reply = Answer("none", "ok", {}, {}, {})

\* Transaction::end
End ==
  /\ status' = "idle" /\ writes' = << >> /\ savepoints' = << >> /\ readOnly' = FALSE
  /\ broken' = Whole

\* note_failure_in_transaction, and the history of it.
Failed(to, tag) ==
  /\ status' = IF status = "active" THEN "failed" ELSE status
  /\ broken' = IF IsOpen /\ broken = Whole THEN Len(savepoints) ELSE broken
  /\ Reply(to, tag)

\* The statements of a connection come when no COPY is in progress.
Ready(kind) == kind \in Kinds /\ copy = NoCopy

-----------------------------------------------------------------------------
(***************************************************************************)
(* Transaction control                                                     *)
(***************************************************************************)

\* (Mutant: BEGIN inside a block starts over.)
BeginAgain(ro) ==
  /\ Ready("block")
  /\ status' = "active" /\ writes' = << >> /\ savepoints' = << >> /\ readOnly' = ro
  /\ Reply("begin", "ok")
  /\ UNCHANGED <<copy, flushed, sent, acked, undone, count, broken>>

\* begin_transaction: no effect inside a block.
Begin(ro) ==
  /\ Ready("block")
  /\ IF IsOpen THEN UNCHANGED <<status, writes, savepoints, readOnly>>
     ELSE /\ status' = "active" /\ writes' = << >> /\ savepoints' = << >>
          /\ readOnly' = ro
  /\ Reply("begin", "ok")
  /\ UNCHANGED <<copy, flushed, sent, acked, undone, count, broken>>

\* group_by_node_set: the node sets of the buffered writes, ordered by the first
\* write to each.
Groups == {GroupOf[writes[i].shard] : i \in DOMAIN writes}
FirstWrite(g) ==
  CHOOSE i \in DOMAIN writes :
    /\ GroupOf[writes[i].shard] = g
    /\ \A j \in DOMAIN writes : GroupOf[writes[j].shard] = g => i <= j
Before(g) == {h \in Groups : FirstWrite(h) < FirstWrite(g)}
IdsOf(G) == {writes[i].id : i \in {j \in DOMAIN writes : GroupOf[writes[j].shard] \in G}}

\* COMMIT outside a block, or of a failed one, ships nothing.
CommitNothing ==
  /\ Ready("block") /\ status # "active"
  /\ undone' = undone \cup Ids(writes)
  /\ End
  /\ Reply("commit", IF status = "failed" THEN "rollback" ELSE "ok")
  /\ UNCHANGED <<copy, flushed, sent, acked, count>>

\* flush_transaction refuses a block over several node sets.
CommitRefused ==
  /\ Ready("block") /\ status = "active"
  /\ Cardinality(Groups) > 1 /\ ~crossShard
  /\ undone' = undone \cup Ids(writes)
  /\ End
  /\ reply' = Answer("commit", "error", Ids(writes), {}, {})
  /\ UNCHANGED <<copy, flushed, sent, acked, count>>

\* flush_transaction ships the groups one after the other.
Flushes ==
  /\ Ready("block") /\ status = "active"
  /\ Cardinality(Groups) <= 1 \/ crossShard

CommitOk ==
  /\ Flushes
  /\ flushed' = writes
  /\ sent' = sent \cup Ids(writes)
  /\ acked' = acked \cup Ids(writes)
  /\ End
  /\ reply' = Answer("commit", "ok", Ids(writes), Ids(writes), {})
  /\ UNCHANGED <<copy, undone, count>>

\* (Mutant: the error of a later group is passed on as it is.)
CommitFailsPlainly(g) ==
  /\ Flushes /\ g \in Groups
  /\ flushed' = writes
  /\ sent' = sent \cup IdsOf(Before(g) \cup {g})
  /\ acked' = acked \cup IdsOf(Before(g))
  /\ undone' = undone \cup (Ids(writes) \ IdsOf(Before(g) \cup {g}))
  /\ End
  /\ reply' = Answer("commit", "error", Ids(writes), IdsOf(Before(g)), {})
  /\ UNCHANGED <<copy, count>>

\* Group g has no quorum: the groups before it are applied, the later ones are
\* not sent.
CommitFails(g) ==
  /\ Flushes /\ g \in Groups
  /\ flushed' = writes
  /\ sent' = sent \cup IdsOf(Before(g) \cup {g})
  /\ acked' = acked \cup IdsOf(Before(g))
  /\ undone' = undone \cup (Ids(writes) \ IdsOf(Before(g) \cup {g}))
  /\ End
  /\ reply' = Answer("commit", IF Before(g) = {} THEN "error" ELSE "partial",
                     Ids(writes), IdsOf(Before(g)), {})
  /\ UNCHANGED <<copy, count>>

Rollback ==
  /\ Ready("block")
  /\ undone' = undone \cup Ids(writes)
  /\ End
  /\ Reply("rollback", "ok")
  /\ UNCHANGED <<copy, flushed, sent, acked, count>>

\* (Mutant: the first savepoint of the name is found.)
FindFirst(s) ==
  IF \E i \in DOMAIN savepoints : savepoints[i].name = s
  THEN CHOOSE i \in DOMAIN savepoints :
         /\ savepoints[i].name = s
         /\ \A j \in DOMAIN savepoints : j < i => savepoints[j].name # s
  ELSE 0

\* find_savepoint: the last savepoint of the name, 0 if there is none.
Find(s) ==
  IF \E i \in DOMAIN savepoints : savepoints[i].name = s
  THEN CHOOSE i \in DOMAIN savepoints :
         /\ savepoints[i].name = s
         /\ \A j \in DOMAIN savepoints : j > i => savepoints[j].name # s
  ELSE 0

\* No block is open, or the savepoint does not exist.
NoSavepoint(s) ==
  /\ Ready("savepoint") /\ (~IsOpen \/ Find(s) = 0)
  /\ Failed("savepoint", "error")
  /\ UNCHANGED <<writes, savepoints, readOnly, copy, flushed, sent, acked, undone, count>>

RollbackTo(s) ==
  /\ Ready("savepoint") /\ IsOpen /\ Find(s) # 0
  /\ LET mark == savepoints[Find(s)].mark
     IN /\ writes' = SubSeq(writes, 1, mark)
        /\ undone' = undone \cup Ids(SubSeq(writes, mark + 1, Len(writes)))
  /\ savepoints' = SubSeq(savepoints, 1, Find(s))
  /\ status' = "active"
  /\ broken' = IF Find(s) <= broken THEN Whole ELSE broken
  /\ Reply("savepoint", "ok")
  /\ UNCHANGED <<readOnly, copy, flushed, sent, acked, count>>

Savepoint(s) ==
  /\ Ready("savepoint") /\ IsOpen
  /\ Len(savepoints) < MaxSavepoints
  /\ savepoints' = Append(savepoints, [name |-> s, mark |-> Len(writes)])
  /\ Reply("savepoint", "ok")
  /\ UNCHANGED <<status, writes, readOnly, copy, flushed, sent, acked, undone, count, broken>>

Release(s) ==
  /\ Ready("savepoint") /\ IsOpen /\ Find(s) # 0
  /\ savepoints' = SubSeq(savepoints, 1, Find(s) - 1)
  /\ broken' = IF broken # Whole /\ Len(savepoints') < broken THEN Len(savepoints') ELSE broken
  /\ Reply("savepoint", "ok")
  /\ UNCHANGED <<status, writes, readOnly, copy, flushed, sent, acked, undone, count>>

-----------------------------------------------------------------------------
(***************************************************************************)
(* Statements that write, read or fail                                     *)
(***************************************************************************)

\* check_transaction_allows refuses the statement; the block is failed.
Refused(to) ==
  /\ Failed(to, "error")
  /\ UNCHANGED <<writes, savepoints, readOnly, copy, flushed, sent, acked, undone, count>>

\* buffer_plan_rows
Buffered(p) ==
  /\ writes' = writes \o Planned(p)
  /\ count' = count + Len(p)
  /\ UNCHANGED <<status, savepoints, readOnly, flushed, sent, acked, undone, broken>>

\* execute_plan: the shards one after the other; k of them have a quorum and the
\* next, if any, has none.
Executed(p, k) ==
  /\ sent' = sent \cup {count + i : i \in {j \in DOMAIN p : j <= k + 1}}
  /\ acked' = acked \cup {count + i : i \in 1..k}
  /\ undone' = undone \cup {count + i : i \in {j \in DOMAIN p : j > k + 1}}
  /\ count' = count + Len(p)
  /\ UNCHANGED <<status, writes, savepoints, readOnly, flushed, broken>>

\* An INSERT of VALUES (T empty) or of a query over the tables T.
InsertRefused(T) ==
  /\ Ready("insert") /\ IsOpen
  /\ status = "failed" \/ readOnly \/ T \cap BufferedTables # {}
  /\ Refused("insert")

\* (Mutant: the block buffers what a read-only or failed block is sent.)
InsertBufferedAlways(p, T) ==
  /\ Ready("insert") /\ IsOpen /\ count + Len(p) <= MaxWrites
  /\ Buffered(p)
  /\ Reply("insert", "ok")
  /\ UNCHANGED copy

InsertBuffered(p, T) ==
  /\ Ready("insert") /\ status = "active" /\ ~readOnly
  /\ T \cap BufferedTables = {} /\ count + Len(p) <= MaxWrites
  /\ Buffered(p)
  /\ Reply("insert", "ok")
  /\ UNCHANGED copy

InsertExecuted(p, k) ==
  /\ Ready("insert") /\ ~IsOpen /\ count + Len(p) <= MaxWrites
  /\ Executed(p, k)
  /\ reply' = Answer("insert", IF k = Len(p) THEN "ok" ELSE "error",
                     {count + i : i \in DOMAIN p}, {count + i : i \in 1..k}, {})
  /\ UNCHANGED copy

\* A statement that reads the tables T, of which reject_buffered_reads is shown
\* the set seen.
Read(seen, T) ==
  /\ copy = NoCopy /\ status # "failed" /\ seen \cap BufferedTables = {}
  /\ reply' = Answer("read", "ok", {}, {}, T \cap BufferedTables)
  /\ UNCHANGED <<status, writes, savepoints, readOnly, copy, flushed, sent, acked,
                 undone, count, broken>>

ReadRefused(seen) ==
  /\ copy = NoCopy /\ (status = "failed" \/ seen \cap BufferedTables # {})
  /\ Refused("read")

\* extract_select_table_name: the first relation of the FROM clause, or none for a
\* set operation or a derived table.  COPY ... TO shows every relation of its query
\* (copy_source_tables).
Select(T) ==
  /\ "select" \in Kinds
  /\ \E seen \in {{}} \cup {{t} : t \in T} : Read(seen, T) \/ ReadRefused(seen)
CopyTo(T) == "export" \in Kinds /\ (Read(T, T) \/ ReadRefused(T))

\* A statement a block does not take (UPDATE, DELETE, MERGE, DDL), or one that
\* fails in planning.
StatementFails ==
  /\ Ready("failing")
  /\ Refused("other")

\* A statement refused while it is parsed does not reach the block.
ParseFails ==
  /\ Ready("syntax")
  /\ broken' = IF IsOpen /\ broken = Whole THEN Len(savepoints) ELSE broken
  /\ Reply("other", "error")
  /\ UNCHANGED <<status, writes, savepoints, readOnly, copy, flushed, sent, acked,
                 undone, count>>

-----------------------------------------------------------------------------
(***************************************************************************)
(* COPY ... FROM STDIN: its sink is kept between messages                  *)
(***************************************************************************)
CopyBegin ==
  /\ Ready("copy") /\ status # "failed" /\ ~readOnly
  /\ copy' = [on |-> TRUE, ids |-> {}]
  /\ Reply("copy", "ok")
  /\ UNCHANGED <<status, writes, savepoints, readOnly, flushed, sent, acked, undone,
                 count, broken>>

CopyRefused ==
  /\ Ready("copy") /\ (status = "failed" \/ readOnly)
  /\ Refused("copy")

\* partial_copy_error, for a copy that counts the rows of ids and wrote, with the
\* batch it fails in, those of all.
CopyError(ids, all) ==
  /\ copy' = NoCopy
  /\ reply' = Answer("copy", IF ids = {} THEN "error" ELSE "partial", all, acked' \cap all, {})

\* A batch of rows is complete (write_row_batch).
CopyBatchBuffered(p) ==
  /\ copy.on /\ IsOpen /\ count + Len(p) <= MaxWrites
  /\ Buffered(p)
  /\ copy' = [copy EXCEPT !.ids = @ \cup Ids(Planned(p))]
  /\ UNCHANGED reply

CopyBatchExecuted(p, k) ==
  /\ copy.on /\ ~IsOpen /\ count + Len(p) <= MaxWrites
  /\ Executed(p, k)
  /\ IF k = Len(p)
     THEN /\ copy' = [copy EXCEPT !.ids = @ \cup Ids(Planned(p))]
          /\ UNCHANGED reply
     ELSE CopyError(copy.ids, copy.ids \cup Ids(Planned(p)))

\* The rows do not decode, or the client gives up (on_copy_fail).  The block is
\* not failed.
CopyFails ==
  /\ copy.on
  /\ broken' = IF IsOpen /\ broken = Whole THEN Len(savepoints) ELSE broken
  /\ UNCHANGED <<status, writes, savepoints, readOnly, flushed, sent, acked, undone, count>>
  /\ CopyError(copy.ids, copy.ids)

\* on_copy_done, after the last batch.
CopyDone ==
  /\ copy.on
  /\ copy' = NoCopy
  /\ reply' = Answer("copy", "ok", copy.ids, acked \cap copy.ids, {})
  /\ UNCHANGED <<status, writes, savepoints, readOnly, flushed, sent, acked, undone,
                 count, broken>>

\* The connection closes: its session state is dropped, and the next connection
\* starts with a new one.
Disconnect ==
  /\ "disconnect" \in Kinds
  /\ undone' = undone \cup Ids(writes)
  /\ End
  /\ copy' = NoCopy
  /\ Reply("none", "ok")
  /\ UNCHANGED <<flushed, sent, acked, count>>

-----------------------------------------------------------------------------
Control ==
  \/ \E ro \in BOOLEAN : Begin(ro)
  \/ CommitNothing \/ CommitRefused \/ CommitOk \/ Rollback
  \/ \E g \in Groups : CommitFails(g)
  \/ \E s \in Names : NoSavepoint(s) \/ RollbackTo(s) \/ Savepoint(s) \/ Release(s)

Statements ==
  \/ \E T \in SUBSET Tables :
       \/ InsertRefused(T) \/ CopyTo(T) \/ Select(T)
       \/ \E p \in Plans : InsertBuffered(p, T)
  \/ \E p \in Plans : \E k \in 0..Len(p) : InsertExecuted(p, k)
  \/ StatementFails \/ ParseFails

Copies ==
  \/ CopyBegin \/ CopyRefused \/ CopyFails \/ CopyDone
  \/ \E p \in Plans : CopyBatchBuffered(p) \/ \E k \in 0..Len(p) : CopyBatchExecuted(p, k)

Next == (Control \/ Statements \/ Copies \/ Disconnect) /\ UNCHANGED crossShard

Spec == Init /\ [][Next]_vars

-----------------------------------------------------------------------------
(***************************************************************************)
(* Properties                                                              *)
(***************************************************************************)
WriteRecords == [id : 1..MaxWrites, shard : Shards]
Tags == {"ok", "error", "partial", "rollback"}

\* Type correctness of the session state; a failed statement outside a block leaves
\* the connection idle (Transaction::mark_failed).
TypeOK ==
  /\ crossShard \in BOOLEAN
  /\ status \in {"idle", "active", "failed"}
  /\ writes \in Seq(WriteRecords) /\ flushed \in Seq(WriteRecords)
  /\ savepoints \in Seq([name : Names, mark : 0..MaxWrites])
  /\ readOnly \in BOOLEAN
  /\ copy \in [on : BOOLEAN, ids : SUBSET (1..MaxWrites)]
  /\ count \in 0..MaxWrites
  /\ sent \subseteq 1..count /\ acked \subseteq sent /\ undone \subseteq 1..count
  /\ broken \in Whole..MaxSavepoints
  /\ reply.tag \in Tags
  /\ status = "idle" => writes = << >> /\ savepoints = << >> /\ ~readOnly

\* Every write the coordinator planned has one fate: it is still buffered, in the
\* order of the statements, or given up, or sent.  None is lost, sent twice, or sent
\* after it was rolled back (commit_transaction, flush_transaction, execute_plan).
OneFate ==
  /\ Ids(writes) \cup undone \cup sent = 1..count
  /\ Ids(writes) \cap (undone \cup sent) = {}
  /\ undone \cap sent = {}
  /\ \A i, j \in DOMAIN writes : i < j => writes[i].id < writes[j].id

\* What COMMIT answers is what happened: "COMMIT" when a quorum has every write, a
\* plain error when none of them has been acknowledged, the partial-commit error
\* exactly in between (flush_transaction).
CommitReplyIsTrue ==
  reply.to = "commit" =>
    CASE reply.tag = "ok" -> reply.done = reply.wanted
      [] reply.tag = "partial" -> reply.done # {} /\ reply.done # reply.wanted
      [] OTHER -> reply.done = {}

\* Without allow_cross_shard_transactions a COMMIT is all or nothing: all of the
\* block's writes are acknowledged, or none of them is.
CommitIsAtomic ==
  reply.to = "commit" /\ ~crossShard => reply.done \in {{}, reply.wanted}

\* A failed or a read-only block never gains a write, through INSERT or COPY
\* (check_transaction_allows, and a COPY begun before the failure).
FrozenBlockDoesNotGrow ==
  [][(status = "failed" \/ readOnly) => Ids(writes') \subseteq Ids(writes)]_vars

\* The block as a stack of frames: the buffer cut at the marks.
Cut(i) ==
  IF i = 0 THEN 0 ELSE IF i <= Len(savepoints) THEN savepoints[i].mark ELSE Len(writes)
Frames ==
  IF ~IsOpen THEN << >>
  ELSE [i \in 1..(Len(savepoints) + 1) |->
          [name |-> IF i = 1 THEN "" ELSE savepoints[i - 1].name,
           writes |-> SubSeq(writes, Cut(i - 1) + 1, Cut(i))]]
Stack == INSTANCE SavepointStack WITH frames <- Frames, shipped <- flushed

\* The flat buffer with marks is a stack of savepoint frames: shadowed names,
\* ROLLBACK TO, RELEASE and COMMIT do what nested frames do (Transaction).
RefinesSavepointStack == Stack!StackSpec

\* "Further statements are refused with `25P02` until the client ends the block (or
\* rolls back to a savepoint)" (session.rs): a block one of whose statements failed
\* ships nothing, unless it was rolled back to a savepoint set before the failure.
FailedBlockShipsNothing ==
  [][IsOpen /\ broken # Whole /\ status' = "idle" => sent' = sent]_vars

\* "a read of a table the block has already written" is refused (transaction.rs):
\* no statement answers from a table with buffered writes.
ReadsMissNothing == reply.missed = {}
=============================================================================
