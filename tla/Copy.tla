-------------------------------- MODULE Copy --------------------------------
(***************************************************************************)
(* COPY (coordinator/pgwire_handler/copy.rs, copy_stream.rs,               *)
(* copy_parquet.rs): what a statement asks for, the sink that makes rows   *)
(* of bytes cut anywhere, and the copy sub-protocol of a connection.       *)
(*                                                                         *)
(* A row maps every column of the table to a text or Null.  How a batch of *)
(* rows is routed and stored is ShardedTable's; what a copy means inside a *)
(* transaction block is Session's.  pgwire's dispatch and the driver at    *)
(* the other end are external, from what copy.rs and copy_stream.rs say of *)
(* them.                                                                   *)
(***************************************************************************)
EXTENDS Csv, FiniteSetsExt

CONSTANTS
  Refused,         \* what cannot be done
  TableColumns,    \* the table's columns, in order
  ShardKey,        \* the one rows are placed by
  Statements,      \* the COPY statements of clients
  Uploads,         \* texts a client may upload
  ParquetFiles,    \* Parquet files on the coordinator: [fields, batches]
  Contents,        \* rows the table may hold when it is exported
  RowsPerBatch,    \* ROWS_PER_BATCH
  FileChunkBytes,  \* FILE_CHUNK_BYTES
  MaxFirstRecordBytes,
  MaxInFlight      \* bound: messages a client has under way at once

-----------------------------------------------------------------------------
(***************************************************************************)
(* plan_copy                                                               *)
(***************************************************************************)

CsvDialect == [header |-> FALSE, delimiter |-> ",", quote |-> "\""]

\* single_byte
IsAscii(c) == c # "e'"

\* One option of either spelling, applied to what the ones before it made.
\* A legacy CSV carries its own HEADER and QUOTE.
WithOption(made, o) ==
  CASE made = Refused -> Refused
    [] made # Refused /\ o.name = "format" -> [made EXCEPT !.named = o.value]
    [] made # Refused /\ o.name = "header" ->
         [made EXCEPT !.dialect.header = o.value, !.csvOnly = TRUE]
    [] made # Refused /\ o.name \in {"delimiter", "quote"} ->
         IF IsAscii(o.value) THEN [made EXCEPT !.dialect[o.name] = o.value, !.csvOnly = TRUE]
         ELSE Refused
    [] made # Refused /\ o.name = "legacy csv" ->
         [made EXCEPT !.named = "csv", !.dialect.header = @ \/ o.value]
    [] OTHER -> Refused

Parquet == [parquet |-> TRUE]

\* copy_format
FormatOf(made) ==
  CASE made = Refused -> Refused
    [] made # Refused /\ made.named = "csv" -> made.dialect
    [] made # Refused /\ made.named = "parquet" /\ ~made.csvOnly -> Parquet
    [] OTHER -> Refused

CopyFormat(options) ==
  FormatOf(FoldLeft(WithOption, [named |-> Null, dialect |-> CsvDialect, csvOnly |-> FALSE], options))

\* A plan is the statement with its format, or Refused.
PlanAs(stmt, format) ==
  IF \/ stmt.endpoint = "program"
     \/ format = Refused
     \/ format = Parquet /\ stmt.endpoint = "client"
     \/ stmt.inline
     \/ ~stmt.to /\ stmt.source = "query"
  THEN Refused
  ELSE [to |-> stmt.to, columns |-> stmt.columns, endpoint |-> stmt.endpoint, format |-> format]

PlanCopy(stmt) == PlanAs(stmt, CopyFormat(stmt.options))

-----------------------------------------------------------------------------
(***************************************************************************)
(* Which columns the fields of the data are                                *)
(***************************************************************************)

\* canonicalize_ident_str: a name read from the data folds.
Canonical(name) == [i \in DOMAIN name |-> IF name[i] = "V" THEN "v" ELSE name[i]]

\* target_columns, or Refused for another number of fields.
FieldColumns(stated, fields, header) ==
  CASE stated # << >> -> stated
    [] stated = << >> /\ header -> [i \in DOMAIN fields |-> Canonical(fields[i])]
    [] OTHER -> SubSeq(TableColumns, 1, Min({Len(fields), Len(TableColumns)}))

TargetColumns(stated, fields, header) ==
  IF Len(FieldColumns(stated, fields, header)) = Len(fields)
  THEN FieldColumns(stated, fields, header) ELSE Refused

\* validate_target_columns
ValidTarget(columns) ==
  /\ columns # Refused
  /\ Range(columns) \subseteq Range(TableColumns)
  /\ ShardKey \in Range(columns)

Row(columns, values) ==
  [c \in Range(TableColumns) |->
     IF c \in Range(columns) THEN values[CHOOSE i \in DOMAIN columns : columns[i] = c] ELSE Null]

-----------------------------------------------------------------------------
(***************************************************************************)
(* CsvRows                                                                 *)
(***************************************************************************)

\* body is the settled column list, or Null; held is what the decoder has
\* taken and not yet given back as a batch.
OpenSink(plan) ==
  IF plan.columns # << >> /\ ~ValidTarget(plan.columns) THEN Refused
  ELSE [stated |-> plan.columns, dialect |-> plan.format, head |-> << >>, body |-> Null,
        held |-> << >>, input |-> << >>, newline |-> TRUE, ended |-> FALSE, rows |-> 0]

Accept(sink, bytes) ==
  [sink EXCEPT !.newline = IF bytes = << >> THEN @ ELSE Last(bytes) = Newline,
               !.input = @ \o bytes]


End(sink) ==
  [sink EXCEPT !.input = IF sink.newline THEN @ ELSE Append(@, Newline),
               !.newline = TRUE, !.ended = TRUE]

\* settle
SettleOn(sink, columns, consumed) ==
  IF ~ValidTarget(columns) THEN Refused
  ELSE [sink EXCEPT !.body = columns, !.head = << >>,
                    !.input = IF sink.dialect.header
                              THEN SubSeq(sink.head, consumed + 1, Len(sink.head))
                              ELSE sink.head]

Settle(sink, first) ==
  SettleOn(sink, TargetColumns(sink.stated, first.fields, sink.dialect.header), first.consumed)

\* The decoder takes input until it holds a full batch, and gives the records
\* it holds when it is full or the data is over.
Batch(columns, records) ==
  [i \in DOMAIN records |-> Row(columns, [f \in DOMAIN columns |-> Value(records[i][f])])]

DecodeTo(sink, all, got) ==
  CASE \E i \in DOMAIN got.rows : Len(got.rows[i]) # Len(sink.body) -> [failed |-> TRUE]
    [] \/ Len(got.rows) = RowsPerBatch /\ got.taken < Len(all)
       \/ sink.ended /\ got.rows # << >> ->
         [sink |-> [sink EXCEPT !.held = << >>, !.input = SubSeq(all, got.taken + 1, Len(all))],
          batch |-> Batch(sink.body, got.rows)]
    [] OTHER -> [sink |-> [sink EXCEPT !.held = all, !.input = << >>], batch |-> Null]

DecodeAll(sink, all) == DecodeTo(sink, all, Records(all, RowsPerBatch, sink.dialect))

Decode(sink) == IF sink = Refused THEN [failed |-> TRUE] ELSE DecodeAll(sink, sink.held \o sink.input)

\* next_batch: a batch and the sink after it, none yet, or a failure.
AfterFirst(sink, first) ==
  CASE sink.body # Null -> sink
    [] sink.body = Null /\ first # Null -> Settle(sink, first)
    [] OTHER -> Null

NextOf(sink, settled) ==
  CASE settled # Null -> Decode(settled)
    [] settled = Null /\ Len(sink.head) > MaxFirstRecordBytes -> [failed |-> TRUE]
    [] OTHER -> [sink |-> sink, batch |-> Null]

Waiting(sink) ==
  IF sink.body # Null THEN sink ELSE [sink EXCEPT !.head = @ \o sink.input, !.input = << >>]

NextFrom(sink) == NextOf(sink, AfterFirst(sink, FirstRecord(sink.head, sink.dialect)))
NextBatch(sink) == NextFrom(Waiting(sink))

\* write_ready_batches, up to the store of each batch: the batches that are
\* ready, the sink after them, and whether the data then failed.
RECURSIVE ReadyBatches(_, _)
RECURSIVE ReadyAfter(_, _, _)
ReadyAfter(sink, batches, next) ==
  CASE "failed" \in DOMAIN next -> [sink |-> sink, batches |-> batches, failed |-> TRUE]
    [] "failed" \notin DOMAIN next /\ next.batch = Null ->
         [sink |-> next.sink, batches |-> batches, failed |-> FALSE]
    [] OTHER -> ReadyBatches(next.sink, Append(batches, next.batch))
ReadyBatches(sink, batches) == ReadyAfter(sink, batches, NextBatch(sink))

\* No copy of the model has more batches.
MaxBatches == 3

-----------------------------------------------------------------------------
(***************************************************************************)
(* Exports                                                                 *)
(***************************************************************************)

Labels(plan) == IF plan.columns = << >> THEN TableColumns ELSE plan.columns
HeaderLine(plan) == WrittenLine(Labels(plan), plan.format)
Exported(plan, row) == [i \in DOMAIN Labels(plan) |-> row[Labels(plan)[i]]]

\* csv_row_messages: a message for each row, the header with the first of
\* them, or alone where there is none.
Lines(plan, rows) == [i \in DOMAIN rows |-> WrittenLine(Exported(plan, rows[i]), plan.format)]
CsvRowMessages(plan, rows) ==
  CASE ~plan.format.header -> Lines(plan, rows)
    [] plan.format.header /\ rows = << >> -> <<HeaderLine(plan)>>
    [] OTHER -> [Lines(plan, rows) EXCEPT ![1] = HeaderLine(plan) \o @]

\* write_csv_file: the writer puts the header before the first batch it is
\* handed, and an empty result may come in no batch at all.
CsvFile(plan, rows, batched) ==
  (IF plan.format.header /\ batched THEN HeaderLine(plan) ELSE << >>) \o FlattenSeq(Lines(plan, rows))

-----------------------------------------------------------------------------
(***************************************************************************)
(* A connection                                                            *)
(***************************************************************************)

VARIABLES
  exists,   \* whether the table is in the catalog
  block,    \* the session's transaction block: none, read only or failed
  conn,     \* pgwire's state: ready, copy, or await sync
  sink,     \* session.copy_in: the sink of the copy in progress, or Null
  inbox,    \* messages on their way to the coordinator
  request,  \* the client's last request: [stmt, data, extended] and its plan, or Null
  phase,    \* what the client does about it, or idle
  unsent,   \* what it has not uploaded yet
  stored,   \* the rows the request has stored
  out,      \* what it has exported
  answer,   \* how it ended: COPY n, an error, or an error with n rows stored
  why,      \* what Execute refused the last one for that messages are left of
  astray    \* a ReadyForQuery came that belongs to no request

vars == <<exists, block, conn, sink, inbox, request, phase, unsent, stored, out, answer, why, astray>>
client == <<request, phase, unsent, astray>>

Init ==
  /\ exists = TRUE /\ block = "none"
  /\ conn = "ready" /\ sink = Null /\ inbox = << >>
  /\ request = Null /\ phase = "idle" /\ unsent = << >>
  /\ stored = << >> /\ out = Null /\ answer = Null /\ why = Null /\ astray = FALSE

Message(m) == [m |-> m]
Is(m) == inbox # << >> /\ Head(inbox).m = m
Plan == request.plan

\* partial_copy_error, and copy_tag.
Failure(rows) == IF rows = 0 THEN [is |-> "error"] ELSE [is |-> "partial", rows |-> rows]
CopyTag(rows) == [is |-> "copy", rows |-> rows]

\* ReadyForQuery reaches the client, with rest still on its way to the server.
\* It answers a request the server has seen; the one for a statement that was
\* prepared makes the driver execute it.
Ready(rest) ==
  IF phase = "idle" \/ \E i \in DOMAIN rest : rest[i].m \in {"parse", "query"}
  THEN astray' = TRUE /\ inbox' = rest /\ UNCHANGED <<request, phase, unsent>>
  ELSE IF phase = "parsing" /\ answer' = Null
  THEN /\ phase' = "executing"
       /\ inbox' = rest \o <<Message("execute"), Message("sync")>>
       /\ UNCHANGED <<request, unsent, astray>>
  ELSE phase' = "idle" /\ inbox' = rest /\ unsent' = << >> /\ UNCHANGED <<request, astray>>

\* The driver aborts what it takes to be a copy in progress.
Abort ==
  IF phase \in {"executing", "streaming"} /\ ~request.stmt.to /\ request.stmt.endpoint = "client"
  THEN <<Message("fail"), Message("sync")>>
  ELSE << >>

\* pgwire reports how a message was answered: after an error of the extended
\* protocol it waits for Sync, and on the simple one it is ready at once.
Report(error) ==
  /\ answer' = error
  /\ IF request.extended
     THEN /\ conn' = "await sync" /\ inbox' = Tail(inbox) \o Abort
          /\ phase' = IF phase = "parsing" THEN phase ELSE "ending"
          /\ UNCHANGED <<request, unsent, astray>>
     ELSE conn' = "ready" /\ Ready(Tail(inbox))

\* on_copy_done sets the connection's state itself.
LeaveCopyMode == conn' = "ready"

Complete(tag) ==
  /\ answer' = tag
  /\ LeaveCopyMode
  /\ IF request.extended
     THEN inbox' = Tail(inbox) /\ phase' = "ending" /\ UNCHANGED <<request, unsent, astray>>
     ELSE Ready(Tail(inbox))

-----------------------------------------------------------------------------
(***************************************************************************)
(* The client                                                              *)
(***************************************************************************)

Ask(stmt, data, extended) ==
  /\ phase = "idle" /\ ~astray
  /\ request' = [stmt |-> stmt, data |-> data, extended |-> extended, plan |-> PlanCopy(stmt)]
  /\ phase' = IF extended THEN "parsing" ELSE "executing"
  /\ inbox' = inbox \o IF extended THEN <<Message("parse"), Message("sync")>> ELSE <<Message("query")>>
  /\ unsent' = IF stmt.to \/ stmt.endpoint # "client" THEN << >> ELSE data
  /\ stored' = << >> /\ out' = Null /\ answer' = Null
  /\ why' = IF inbox = << >> THEN Null ELSE why
  /\ UNCHANGED <<exists, block, conn, sink, astray>>

Upload(n) ==
  /\ phase = "streaming" /\ n \in 1..Len(unsent) /\ Len(inbox) < MaxInFlight
  /\ inbox' = Append(inbox, [m |-> "data", bytes |-> SubSeq(unsent, 1, n)])
  /\ unsent' = SubSeq(unsent, n + 1, Len(unsent))
  /\ UNCHANGED <<exists, block, conn, sink, request, phase, stored, out, answer, why, astray>>

Finish(m) ==
  /\ phase = "streaming"
  /\ m = "done" => unsent = << >>
  /\ inbox' = inbox \o IF request.extended THEN <<Message(m), Message("sync")>> ELSE <<Message(m)>>
  /\ phase' = "ending"
  /\ UNCHANGED <<exists, block, conn, sink, request, unsent, stored, out, answer, why, astray>>

\* BEGIN READ ONLY, and the end of a block.
Block(b) ==
  /\ phase = "idle" /\ inbox = << >>
  /\ b \in IF block = "none" THEN {"read only"} ELSE {"none"}
  /\ block' = b
  /\ UNCHANGED <<exists, conn, sink, inbox, client, stored, out, answer, why>>

\* The session goes with its connection, and the sink with the session.
Disconnect ==
  /\ phase # "idle" \/ astray
  /\ block' = "none" /\ conn' = "ready" /\ sink' = Null /\ inbox' = << >>
  /\ request' = Null /\ phase' = "idle" /\ unsent' = << >> /\ astray' = FALSE
  /\ stored' = << >> /\ out' = Null /\ answer' = Null /\ why' = Null
  /\ UNCHANGED exists

\* Another session drops the table, and creates it again.
Redefine ==
  /\ exists' = ~exists
  /\ UNCHANGED <<block, conn, sink, inbox, client, stored, out, answer, why>>

-----------------------------------------------------------------------------
(***************************************************************************)
(* The coordinator                                                         *)
(***************************************************************************)

\* precheck_copy_from_stdin: plan_copy runs for every COPY.
CouldWork ==
  /\ Plan # Refused
  /\ (~Plan.to /\ Plan.endpoint = "client") => exists /\ OpenSink(Plan) # Refused

Parse ==
  /\ conn = "ready" /\ Is("parse")
  /\ IF CouldWork
     THEN inbox' = Tail(inbox) /\ UNCHANGED <<conn, answer, client>>
     ELSE Report(Failure(0))
  /\ UNCHANGED <<exists, block, sink, stored, out, why>>

\* check_transaction_allows, for COPY.
Allowed == block # "failed" /\ (block = "read only" => request.stmt.to)

\* Execute, or a simple Query, up to the transfer itself.
Running == conn = "ready" /\ (Is("execute") \/ Is("query"))

\* What is wrong with a copy before any row of it is read.
Fault ==
  CASE ~Allowed -> "block"
    [] Allowed /\ Plan = Refused -> "statement"
    [] Allowed /\ Plan # Refused /\ ~exists /\ ~(Plan.to /\ request.stmt.source = "query") -> "dropped"
    [] Allowed /\ Plan # Refused /\ ~Plan.to /\ Plan.format # Parquet /\ OpenSink(Plan) = Refused ->
         "columns"
    [] OTHER -> "none"

\* note_failure_in_transaction
FailBlock == block' = IF block = "none" THEN "none" ELSE "failed"

Refuse ==
  /\ Running /\ Fault # "none"
  /\ why' = IF astray THEN why ELSE Fault
  /\ Report(Failure(0))
  /\ FailBlock
  /\ UNCHANGED <<exists, sink, stored, out>>

\* begin_copy_from_client
BeginCopyFromClient ==
  /\ Running /\ Fault = "none" /\ ~Plan.to /\ Plan.endpoint = "client"
  /\ sink' = OpenSink(Plan)
  /\ conn' = "copy" /\ inbox' = Tail(inbox) /\ phase' = "streaming"
  /\ UNCHANGED <<exists, block, request, unsent, stored, out, answer, why, astray>>

\* The batches that are ready are stored in order, and all of them or the
\* first k.  The store of one may fail, and does for a table that is gone.
StoredOf(ready, k) == FlattenSeq(SubSeq(ready.batches, 1, k))
Storable(ready, k) == k \in 0..Len(ready.batches) /\ (~exists => k = 0)
Whole(ready, k) == k = Len(ready.batches) /\ ~ready.failed

\* on_copy_data
OnCopyData(k) ==
  /\ conn = "copy" /\ Is("data")
  /\ \E ready \in {ReadyBatches(Accept(sink, Head(inbox).bytes), << >>)} :
        /\ Storable(ready, k)
        /\ stored' = stored \o StoredOf(ready, k)
        /\ IF Whole(ready, k)
           THEN /\ sink' = [ready.sink EXCEPT !.rows = @ + Len(StoredOf(ready, k))]
                /\ inbox' = Tail(inbox) /\ UNCHANGED <<conn, answer, client>>
           ELSE sink' = Null /\ Report(Failure(sink.rows + Len(StoredOf(ready, k))))
  /\ UNCHANGED <<exists, block, out, why>>

\* on_copy_done
OnCopyDone(k) ==
  /\ conn = "copy" /\ Is("done")
  /\ sink' = Null
  /\ \E ready \in {ReadyBatches(End(sink), << >>)} :
        /\ Storable(ready, k)
        /\ stored' = stored \o StoredOf(ready, k)
        /\ \E rows \in {sink.rows + Len(StoredOf(ready, k))} :
              IF Whole(ready, k) THEN Complete(CopyTag(rows)) ELSE Report(Failure(rows))
  /\ UNCHANGED <<exists, block, out, why>>

\* (Mutant: the sink is looked at and not taken.)
OnCopyFailBorrowing ==
  /\ conn = "copy" /\ Is("fail")
  /\ Report(Failure(sink.rows))
  /\ UNCHANGED <<exists, block, sink, stored, out, why>>

\* on_copy_fail
OnCopyFail ==
  /\ conn = "copy" /\ Is("fail")
  /\ sink' = Null
  /\ Report(Failure(sink.rows))
  /\ UNCHANGED <<exists, block, stored, out, why>>

\* pgwire answers Sync when no copy is in progress, and drops what a state has
\* no use for.
Sync ==
  /\ Is("sync") /\ conn # "copy"
  /\ conn' = "ready"
  /\ UNCHANGED <<exists, block, sink, stored, out, answer, why>>
  /\ Ready(Tail(inbox))

Drop ==
  /\ inbox # << >>
  /\ Head(inbox).m \notin CASE conn = "copy" -> {"data", "done", "fail"}
                            [] conn = "await sync" -> {"sync"}
                            [] conn = "ready" -> {"parse", "execute", "query", "sync"}
  /\ inbox' = Tail(inbox)
  /\ UNCHANGED <<exists, block, conn, sink, client, stored, out, answer, why>>

\* copy_from_file: the file is pushed in chunks and then finished.  A file
\* that cannot be read is Null.
Chunks(bytes) ==
  [i \in 1..((Len(bytes) + FileChunkBytes - 1) \div FileChunkBytes) |->
     SubSeq(bytes, (i - 1) * FileChunkBytes + 1,
            IF i * FileChunkBytes < Len(bytes) THEN i * FileChunkBytes ELSE Len(bytes))]

Finished(fed) == IF fed.failed THEN fed ELSE ReadyBatches(End(fed.sink), fed.batches)
FromFile(plan, bytes) ==
  Finished(FoldLeft(LAMBDA fed, chunk : IF fed.failed THEN fed
                                        ELSE ReadyBatches(Accept(fed.sink, chunk), fed.batches),
                    [sink |-> OpenSink(plan), batches |-> << >>, failed |-> FALSE], Chunks(bytes)))

\* copy_from_parquet_file: the mapping is settled from the file's own names,
\* and a batch that does not decode ends the import.
Readable(batches) == Max({n \in 0..Len(batches) : \A i \in 1..n : batches[i] # Null})
ParquetRows(columns, batches, n) ==
  IF ~ValidTarget(columns) THEN [batches |-> << >>, failed |-> TRUE]
  ELSE [batches |-> [b \in 1..n |-> [i \in DOMAIN batches[b] |-> Row(columns, batches[b][i])]],
        failed |-> n < Len(batches)]
FromParquet(plan, file) ==
  ParquetRows(TargetColumns(plan.columns, file.fields, TRUE), file.batches, Readable(file.batches))

Import(plan, data) ==
  CASE data = Null -> [batches |-> << >>, failed |-> TRUE]
    [] data # Null /\ plan.format = Parquet -> FromParquet(plan, data)
    [] OTHER -> FromFile(plan, data)

CopyFromFile(k) ==
  /\ Running /\ Fault = "none" /\ ~Plan.to /\ Plan.endpoint = "file"
  /\ \E ready \in {Import(Plan, request.data)} :
        /\ Storable(ready, k)
        /\ stored' = StoredOf(ready, k)
        /\ IF Whole(ready, k)
           THEN Complete(CopyTag(Len(stored'))) /\ UNCHANGED block
           ELSE Report(Failure(Len(stored'))) /\ FailBlock
  /\ UNCHANGED <<exists, sink, out, why>>

\* copy_out: what the client or the file receives, and the count of the tag,
\* which pgwire makes of the messages it sends.
ExportOf(rows, text, count) == [text |-> text, rows |-> rows, count |-> count]
Export(plan, rows, batched) ==
  CASE plan.endpoint = "client" ->
         ExportOf(rows, FlattenSeq(CsvRowMessages(plan, rows)),
                  IF plan.format.header THEN Max({Len(rows), 1}) ELSE Len(rows))
    [] plan.endpoint # "client" /\ plan.format = Parquet ->
         ExportOf(rows, [fields |-> Labels(plan),
                         batches |-> <<[i \in DOMAIN rows |-> Exported(plan, rows[i])]>>], Len(rows))
    [] OTHER -> ExportOf(rows, CsvFile(plan, rows, batched), Len(rows))

CopyOut(rows, batched) ==
  /\ Running /\ Fault = "none" /\ Plan.to
  /\ rows # << >> => batched
  /\ out' = Export(Plan, rows, batched)
  /\ Complete(CopyTag(out'.count))
  /\ UNCHANGED <<exists, block, sink, stored, why>>

\* What a request may bring, or the file it names may hold.
Offered(stmt) ==
  CASE stmt.to -> {<< >>}
    [] ~stmt.to /\ stmt.endpoint = "file" ->
         {Null} \cup IF CopyFormat(stmt.options) = Parquet THEN ParquetFiles ELSE Uploads
    [] OTHER -> Uploads

Next ==
  \/ \E stmt \in Statements, extended \in BOOLEAN :
       \E data \in Offered(stmt) : Ask(stmt, data, extended)
  \/ \E n \in 1..Len(unsent) : Upload(n)
  \/ \E m \in {"done", "fail"} : Finish(m)
  \/ \E b \in {"none", "read only"} : Block(b)
  \/ Disconnect
  \/ Redefine
  \/ Parse
  \/ Refuse
  \/ BeginCopyFromClient
  \/ \E k \in 0..MaxBatches : OnCopyData(k) \/ OnCopyDone(k) \/ CopyFromFile(k)
  \/ OnCopyFail
  \/ Sync
  \/ Drop
  \/ \E rows \in Contents, batched \in BOOLEAN : CopyOut(rows, batched)

Spec == Init /\ [][Next]_vars

-----------------------------------------------------------------------------
(***************************************************************************)
(* Properties                                                              *)
(***************************************************************************)

\* What a file's text holds for a COPY FROM: the rows after the header, in the
\* columns the statement, the header or the table's order gives them, or
\* Refused.
Terminated(text) == IF text = << >> \/ Last(text) = Newline THEN text ELSE Append(text, Newline)
HeldAs(names, rows) ==
  IF ~ValidTarget(names) \/ \E i \in DOMAIN rows : Len(rows[i]) # Len(names) THEN Refused
  ELSE Batch(names, rows)
HeldIn(plan, records) ==
  IF records = << >> THEN << >>
  ELSE HeldAs(TargetColumns(plan.columns, records[1], plan.format.header),
              IF plan.format.header THEN Tail(records) ELSE records)
Held(plan, text) == HeldIn(plan, Records(Terminated(text), Len(text) + 1, plan.format).rows)

Imported == answer # Null /\ request.data # Null /\ ~request.stmt.to /\ Plan # Refused /\ Plan.format # Parquet

\* Wherever the client's messages end, and whatever batches the rows are cut
\* into, a copy that succeeds has stored exactly the rows of the file, in
\* order and with their columns, and its tag counts them.
ImportsTheFile ==
  (Imported /\ answer.is = "copy") => stored = Held(Plan, request.data) /\ answer.rows = Len(stored)

\* A copy that fails, whether its data, a shard or the client ends it, tells
\* how many rows it stored, and they are the first of the file's.
FailuresAreCounted ==
  (Imported /\ answer.is # "copy") =>
    /\ IF answer.is = "partial" THEN answer.rows = Len(stored) ELSE stored = << >>
    /\ \A file \in {Held(Plan, request.data)} \ {Refused} : IsPrefix(stored, file)

\* A copy is in progress in the session exactly while pgwire takes its data
\* from the wire: no sink is left for the next COPY to inherit.
SinkIsThePhase == (sink # Null) <=> (conn = "copy")

\* The connection never waits for a client that waits for it: a request the
\* client has finished has its answer on the way, or a message that brings it.
NothingIsSwallowed == (phase \in {"parsing", "executing", "ending"}) => inbox # << >>

\* A driver is sent one ReadyForQuery for each of its requests, unless a
\* COPY FROM STDIN that could work when it was parsed is refused when it is
\* executed: for the session's block, or for a table that was dropped between.
OnlyChangesLeadAstray == astray => why \in {"block", "dropped"}

\* Without that exception: a COPY FROM STDIN is refused while it is parsed, so
\* that no copy is begun for a driver to abort (precheck_copy_from_stdin).
StaysInStep == ~astray

\* What COPY TO writes, COPY FROM with the same options reads back identically
\* (CsvDialect, and the module documentation of copy_parquet.rs).
ReadsBack ==
  (out # Null /\ request.stmt.source = "table" /\ request.stmt.columns = << >>) =>
    \E ready \in {Import([Plan EXCEPT !.to = FALSE], out.text)} :
      ~ready.failed /\ FlattenSeq(ready.batches) = out.rows
=============================================================================
