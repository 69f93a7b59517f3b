------------------------------ MODULE CoreNode ------------------------------
(***************************************************************************)
(* The write path inside one core node: concurrent execute_write handlers  *)
(* (core/write_service), the bounded channel to the single writer thread   *)
(* and the DuckDB transactions that thread runs (core/write_queue).        *)
(*                                                                         *)
(* A call carries a write id, which determines its statements and whether  *)
(* they are one transaction.  Statements are numbers; what a statement does *)
(* is abstracted to whether DuckDB accepts it, which may differ from one   *)
(* execution to the next.                                                  *)
(***************************************************************************)
EXTENDS DedupCache, Integers, FiniteSets

CONSTANTS
  Calls,          \* execute_write requests, each handled once
  Ids,            \* write ids
  NoId,           \* the empty write id
  IdOf,           \* IdOf[c]: the id call c carries
  Atomic,         \* the calls that ask for one transaction
  Size,           \* Size[c]: the number of statements of c
  Malformed,      \* Malformed[c]: its statements that cannot be decoded
  QueueCapacity,  \* capacity of the channel
  DedupCapacity

ASSUME CallsAssumption == IsFiniteSet(Calls) /\ Atomic \subseteq Calls
ASSUME IdAssumption == NoId \notin Ids /\ IdOf \in [Calls -> Ids \cup {NoId}]
ASSUME SizeAssumption == Size \in [Calls -> Nat] /\ Malformed \in [Calls -> SUBSET (Nat \ {0})]
ASSUME BoundsAssumption == QueueCapacity \in Nat \ {0} /\ DedupCapacity \in Nat \ {0}

VARIABLES
  pc,       \* pc[c]: where the handler of c is
  results,  \* results[c]: the results it has collected
  queue,    \* entries in the channel: [call, first, last] statement ranges
  entry,    \* the entry the writer thread works on, or NoEntry
  tx,       \* executed and uncommitted statements of its transaction, or NoTx
  db,       \* the statements in the DuckDB file, in commit order
  cache,    \* the dedup cache, whose [id, ok] records hold whole results here
  up,       \* the process runs
  sent      \* history: statements in the order they entered the channel

vars == <<pc, results, queue, entry, tx, db, cache, up, sent>>

NoEntry == [call |-> "none"]
NoTx    == << [call |-> "none"] >>

Span(c, i, j) == [k \in 1..(j - i + 1) |-> [call |-> c, stmt |-> i + k - 1]]
All(c) == Span(c, 1, Size[c])

Init ==
  /\ pc = [c \in Calls |-> "new"]
  /\ results = [c \in Calls |-> << >>]
  /\ queue = << >>
  /\ entry = NoEntry
  /\ tx = NoTx
  /\ db = << >>
  /\ cache = << >>
  /\ up = TRUE
  /\ sent = << >>

\* The next thing a handler does with the results it has: send its next
\* statement to the writer thread, or record.
AfterResult(c, res) == IF Len(res) < Size[c] THEN "send" ELSE "record"

-----------------------------------------------------------------------------
\* execute_write up to its first await.  A cached id is answered at once.  An
\* atomic batch with a statement that cannot be decoded fails as a whole.
Start(c) ==
  /\ up /\ pc[c] = "new"
  /\ \/ /\ IdOf[c] # NoId /\ IdOf[c] \in CachedIds(cache)
        /\ results' = [results EXCEPT ![c] = CachedResult(cache, IdOf[c])]
        /\ pc' = [pc EXCEPT ![c] = "done"]
     \/ /\ IdOf[c] = NoId \/ IdOf[c] \notin CachedIds(cache)
        /\ \/ /\ c \in Atomic /\ Malformed[c] \cap 1..Size[c] # {}
              /\ results' = [results EXCEPT ![c] = << FALSE >>]
              /\ pc' = [pc EXCEPT ![c] = "record"]
           \/ /\ c \in Atomic /\ Malformed[c] \cap 1..Size[c] = {}
              /\ pc' = [pc EXCEPT ![c] = "send"]
              /\ UNCHANGED results
           \/ /\ c \notin Atomic
              /\ pc' = [pc EXCEPT ![c] = AfterResult(c, << >>)]
              /\ UNCHANGED results
  /\ UNCHANGED <<queue, entry, tx, db, cache, up, sent>>

\* apply_one_by_one: a statement that cannot be decoded fails by itself.
DecodeFails(c) ==
  /\ up /\ pc[c] = "send" /\ c \notin Atomic
  /\ Len(results[c]) + 1 \in Malformed[c]
  /\ results' = [results EXCEPT ![c] = Append(@, FALSE)]
  /\ pc' = [pc EXCEPT ![c] = AfterResult(c, results'[c])]
  /\ UNCHANGED <<queue, entry, tx, db, cache, up, sent>>

\* submit: the entry enters the channel once there is room.
Send(c) ==
  /\ up /\ pc[c] = "send"
  /\ Len(queue) < QueueCapacity
  /\ LET k == Len(results[c]) + 1
         e == IF c \in Atomic THEN [call |-> c, first |-> 1, last |-> Size[c]]
              ELSE [call |-> c, first |-> k, last |-> k]
     IN /\ c \notin Atomic => k \notin Malformed[c]
        /\ queue' = Append(queue, e)
        /\ sent' = sent \o Span(c, e.first, e.last)
  /\ pc' = [pc EXCEPT ![c] = "wait"]
  /\ UNCHANGED <<results, entry, tx, db, cache, up>>

\* execute_write after its last await: record the results and reply.
Record(c) ==
  /\ up /\ pc[c] = "record"
  /\ cache' = IF IdOf[c] = NoId THEN cache
              ELSE CacheInsert(cache, IdOf[c], results[c], DedupCapacity)
  /\ pc' = [pc EXCEPT ![c] = "done"]
  /\ UNCHANGED <<results, queue, entry, tx, db, up, sent>>

-----------------------------------------------------------------------------
(***************************************************************************)
(* The writer thread                                                       *)
(***************************************************************************)

\* (Mutant: the newest entry first.)
TakeNewest ==
  /\ up /\ entry = NoEntry /\ queue # << >>
  /\ entry' = queue[Len(queue)]
  /\ queue' = SubSeq(queue, 1, Len(queue) - 1)
  /\ UNCHANGED <<pc, results, tx, db, cache, up, sent>>

\* blocking_recv
Take ==
  /\ up /\ entry = NoEntry /\ queue # << >>
  /\ entry' = Head(queue)
  /\ queue' = Tail(queue)
  /\ UNCHANGED <<pc, results, tx, db, cache, up, sent>>

\* The writer replies on the entry's channel and turns to the next entry.  The
\* reply to a handler that is gone is discarded.
Respond(res) ==
  LET c == entry.call
  IN /\ entry' = NoEntry
     /\ IF pc[c] # "wait" THEN UNCHANGED <<pc, results>>
        ELSE /\ results' = [results EXCEPT ![c] = @ \o res]
             /\ pc' = [pc EXCEPT ![c] = IF c \in Atomic THEN "record"
                                        ELSE AfterResult(c, results'[c])]

IsBatch == entry # NoEntry /\ entry.call \in Atomic

\* execute_single: a statement on its own is its own transaction, and so are the
\* rows of a bulk insert.
ExecuteSingle(ok) ==
  /\ up /\ entry # NoEntry /\ ~IsBatch
  /\ db' = IF ok THEN db \o Span(entry.call, entry.first, entry.last) ELSE db
  /\ Respond(<< ok >>)
  /\ UNCHANGED <<queue, tx, cache, up, sent>>

\* (Mutant: a failed BEGIN ends the entry without a reply.)
BeginBatchSilent(ok) ==
  /\ up /\ IsBatch /\ tx = NoTx
  /\ \/ /\ Size[entry.call] = 0
        /\ Respond(<< >>)
        /\ UNCHANGED tx
     \/ /\ Size[entry.call] > 0
        /\ tx' = IF ok THEN << >> ELSE tx
        /\ entry' = IF ok THEN entry ELSE NoEntry
        /\ UNCHANGED <<pc, results>>
  /\ UNCHANGED <<queue, db, cache, up, sent>>

\* execute_atomically: nothing to do for an empty batch, otherwise BEGIN.
BeginBatch(ok) ==
  /\ up /\ IsBatch /\ tx = NoTx
  /\ \/ /\ Size[entry.call] = 0
        /\ Respond(<< >>)
        /\ UNCHANGED tx
     \/ /\ Size[entry.call] > 0 /\ ok
        /\ tx' = << >>
        /\ UNCHANGED <<pc, results, entry>>
     \/ /\ Size[entry.call] > 0 /\ ~ok
        /\ Respond(<< FALSE >>)
        /\ UNCHANGED tx
  /\ UNCHANGED <<queue, db, cache, up, sent>>


\* execute_one in the open transaction; the first failure rolls it back.
ExecuteInBatch(ok) ==
  /\ up /\ IsBatch /\ tx # NoTx /\ Len(tx) < Size[entry.call]
  /\ \/ /\ ok
        /\ tx' = Append(tx, [call |-> entry.call, stmt |-> Len(tx) + 1])
        /\ UNCHANGED <<pc, results, entry>>
     \/ /\ ~ok
        /\ tx' = NoTx
        /\ Respond(<< FALSE >>)
  /\ UNCHANGED <<queue, db, cache, up, sent>>

\* COMMIT, which makes the statements part of the file or fails as a whole.
CommitBatch(ok) ==
  /\ up /\ IsBatch /\ tx # NoTx /\ Len(tx) = Size[entry.call]
  /\ db' = IF ok THEN db \o tx ELSE db
  /\ tx' = NoTx
  /\ Respond(IF ok THEN [i \in 1..Len(tx) |-> TRUE] ELSE << FALSE >>)
  /\ UNCHANGED <<queue, cache, up, sent>>

-----------------------------------------------------------------------------
(***************************************************************************)
(* Faults                                                                  *)
(***************************************************************************)

\* The caller goes away and the server drops the handler at an await.
Cancel(c) ==
  /\ up /\ pc[c] \in {"send", "wait", "record"}
  /\ pc' = [pc EXCEPT ![c] = "gone"]
  /\ UNCHANGED <<results, queue, entry, tx, db, cache, up, sent>>

\* The process stops: DuckDB keeps what was committed, nothing else survives.
Crash ==
  /\ up
  /\ up' = FALSE
  /\ pc' = [c \in Calls |-> IF pc[c] \in {"send", "wait", "record"} THEN "gone" ELSE pc[c]]
  /\ queue' = << >>
  /\ entry' = NoEntry
  /\ tx' = NoTx
  /\ cache' = << >>
  /\ UNCHANGED <<results, db, sent>>

Restart ==
  /\ ~up
  /\ up' = TRUE
  /\ UNCHANGED <<pc, results, queue, entry, tx, db, cache, sent>>

-----------------------------------------------------------------------------
Handler(c) == DecodeFails(c) \/ Send(c) \/ Record(c)
Writer(ok) == ExecuteSingle(ok) \/ BeginBatch(ok) \/ ExecuteInBatch(ok) \/ CommitBatch(ok)

\* What the handlers and the writer thread do once calls have arrived.
Work ==
  \/ \E c \in Calls : Handler(c)
  \/ Take
  \/ \E ok \in BOOLEAN : Writer(ok)

Next ==
  \/ \E c \in Calls : Start(c) \/ Cancel(c)
  \/ Work
  \/ Crash
  \/ Restart

Spec == Init /\ [][Next]_vars

-----------------------------------------------------------------------------
(***************************************************************************)
(* Properties                                                              *)
(***************************************************************************)

Entries == [call : Calls, first : Nat, last : Nat]
Statements == [call : Calls, stmt : Nat \ {0}]

\* Every variable has its type; the channel and the dedup cache stay within
\* their capacities (write_queue.rs start, dedup_cache.rs insert).
TypeOK ==
  /\ pc \in [Calls -> {"new", "send", "wait", "record", "done", "gone"}]
  /\ results \in [Calls -> Seq(BOOLEAN)]
  /\ queue \in Seq(Entries) /\ Len(queue) <= QueueCapacity
  /\ entry \in Entries \cup {NoEntry}
  /\ tx = NoTx \/ tx \in Seq(Statements)
  /\ db \in Seq(Statements)
  /\ cache \in Seq([id : Ids, ok : Seq(BOOLEAN)]) /\ Len(cache) <= DedupCapacity
  /\ up \in BOOLEAN
  /\ sent \in Seq(Statements)

\* The statements of c in the file, in order.
AppliedOf(c) == SelectSeq(db, LAMBDA s : s.call = c)

\* The results res are what really happened to the statements of d.
Explains(d, res) ==
  IF d \in Atomic
  THEN \/ res = [k \in 1..Size[d] |-> TRUE] /\ AppliedOf(d) = All(d)
       \/ res = << FALSE >> /\ AppliedOf(d) = << >>
  ELSE /\ Len(res) = Size[d]
       /\ AppliedOf(d) = SelectSeq(All(d), LAMBDA s : res[s.stmt])

\* Every reply, and every result kept for a repeated id, says statement by
\* statement what is in the file: the result of the call itself or of another
\* call with its id (execute_write, apply_one_by_one, apply_atomically).
RepliesAreExact ==
  /\ \A c \in Calls : pc[c] = "done" =>
       \E d \in Calls : /\ IdOf[d] = IdOf[c]
                        /\ IdOf[c] = NoId => d = c
                        /\ Explains(d, results[c])
  /\ \A i \in DOMAIN cache : \E d \in Calls : IdOf[d] = cache[i].id /\ Explains(d, cache[i].ok)

\* An atomic batch is in the file as a whole, with no other statement between
\* its own, or not at all, crashes included (execute_atomically; "no other
\* caller's statement is interleaved between them").
AllOrNothing ==
  \A c \in Atomic :
    \/ AppliedOf(c) = << >>
    \/ \E i \in 0..(Len(db) - Size[c]) : SubSeq(db, i + 1, i + Size[c]) = All(c) /\ AppliedOf(c) = All(c)

\* The statements in the file are in the order in which they were handed to the
\* channel ("one dedicated thread keeps writes ordered").
QueueOrder ==
  \A i, j \in DOMAIN db : i < j =>
    \E k, l \in DOMAIN sent : k < l /\ sent[k] = db[i] /\ sent[l] = db[j]

\* Where no handler and no writer step is left, every call that arrived has ended
\* with a reply or because its caller left, and nothing waits in the channel.  All
\* work ends, so no handler waits forever, however small the channel (submit awaits
\* room and then the response).
NobodyIsStuck ==
  up /\ ~ENABLED Work =>
    /\ \A c \in Calls : pc[c] \in {"new", "done", "gone"}
    /\ queue = << >> /\ entry = NoEntry /\ tx = NoTx
=============================================================================
