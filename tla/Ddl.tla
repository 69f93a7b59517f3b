-------------------------------- MODULE Ddl ---------------------------------
(***************************************************************************)
(* Table DDL on the coordinator (pgwire_handler/ddl.rs) over the metadata  *)
(* catalog (catalog/catalog.rs) and the core nodes.                        *)
(*                                                                         *)
(* A statement reads and writes the catalog in separate redb transactions, *)
(* sends shard-local SQL to the nodes one call after the other, and ends   *)
(* by bringing the query engine's table registry up to date.  Nothing      *)
(* serialises statements: each transaction and each call is a step, and    *)
(* the statements of all clients interleave between them.                  *)
(*                                                                         *)
(* A table's metadata is its set of columns.  A node executes a shard-     *)
(* local statement at once (its write queue has a single writer; see       *)
(* CoreNode).  Catalog storage errors, views, schemas and indexes are left *)
(* out.  Both DataFusion sessions are updated alike and are one registry.  *)
(* Every node named by a shard record has an address: node records are     *)
(* never deleted.                                                          *)
(***************************************************************************)
EXTENDS Naturals, Sequences, FiniteSets

CONSTANTS
  NodeCount,    \* nodes are 1..NodeCount, in the catalog's key order
  ShardCount,   \* shards per table
  Names,        \* table names
  Columns,      \* column names
  Clients,      \* sessions
  Statements    \* the statements clients may send

ASSUME CountAssumption == NodeCount \in Nat \ {0} /\ ShardCount \in Nat \ {0}

Nodes   == 1..NodeCount
Buckets == 1..ShardCount
NoTable == [cols |-> {}]
NoShards == [b \in Buckets |-> <<>>]
NoCopy  == [cols |-> {}, rows |-> FALSE]

VARIABLES
  tables,       \* catalog: tables[t], NoTable if there is no record
  shards,       \* catalog: shards[t][b], the nodes of a shard, primary first
  alive,        \* catalog: the nodes in state Alive
  copies,       \* copies[n][<<t, b>>]: the shard table on node n, or NoCopy
  registry,     \* the query engine's tables: what is registered for a name
  st,           \* st[c]: the statement client c is running or has run last
  untidy        \* names some failure has left in a state the code does not undo

vars == <<tables, shards, alive, copies, registry, st, untidy>>

Phases == {"idle", "claim", "place", "put", "read", "send", "undo", "unshard",
           "untable", "persist", "deregister", "list", "register", "fill", "done"}

Unregistered == [cols |-> {}, layout |-> NoShards]

Idle == [pc |-> "idle", stmt |-> [kind |-> "none"], cols |-> {}, layout |-> NoShards,
         todo |-> {}, written |-> {}, applied |-> {}, failed |-> FALSE, claimed |-> FALSE,
         listed |-> {}, reply |-> "ok"]

Init ==
  /\ tables = [t \in Names |-> NoTable]
  /\ shards = [t \in Names |-> NoShards]
  /\ alive = Nodes
  /\ copies = [n \in Nodes |-> [p \in Names \X Buckets |-> NoCopy]]
  /\ registry = [t \in Names |-> Unregistered]
  /\ st = [c \in Clients |-> Idle]
  /\ untidy = {}

-----------------------------------------------------------------------------
\* Shard placement.

\* The i-th of the alive nodes in key order, counting from 0.
AliveNode(i) == CHOOSE n \in alive : Cardinality({m \in alive : m < n}) = i

\* Primaries go round the alive nodes; replicas follow the primary, and one
\* that would be the primary again is left out.
RoundRobin(rf) ==
  LET count == Cardinality(alive)
      Primary(b) == (b - 1) % count
      Kept(b) == {r \in 0..(rf - 1) : r = 0 \/ (Primary(b) + r) % count # Primary(b)}
      Nth(b, i) == CHOOSE r \in Kept(b) : Cardinality({q \in Kept(b) : q < r}) = i - 1
  IN  [b \in Buckets |->
        [i \in 1..Cardinality(Kept(b)) |-> AliveNode((Primary(b) + Nth(b, i)) % count)]]

\* The nodes of a shard record, and the calls a broadcast over a layout makes.
TargetNodes(layout, b) == {layout[b][i] : i \in DOMAIN layout[b]}
Calls(layout) == {<<b, n>> \in Buckets \X Nodes : n \in TargetNodes(layout, b)}

\* Calls are made shard by shard.
First(calls) == CHOOSE x \in calls : \A y \in calls :
  x[1] < y[1] \/ (x[1] = y[1] /\ x[2] <= y[2])

-----------------------------------------------------------------------------
\* What a node does with a shard-local statement.  p is the node's copies.

\* The shard-local form of statement s for bucket b, and the one that undoes it.
ShardSql(s, b) ==
  [verb |-> IF s.kind = "ctas" THEN "create" ELSE s.kind,
   at |-> <<s.name, b>>, to |-> <<s.to, b>>, ifx |-> s.ifx, cols |-> s.cols]
UndoSql(s, b) ==
  IF s.kind = "rename"
  THEN [ShardSql(s, b) EXCEPT !.at = <<s.to, b>>, !.to = <<s.name, b>>]
  ELSE [ShardSql(s, b) EXCEPT !.verb = "drop"]

Accepts(p, q) ==
  \/ q.verb = "create" /\ (p[q.at] = NoCopy \/ q.ifx)
  \/ q.verb = "drop"
  \/ q.verb = "truncate" /\ p[q.at] # NoCopy
  \/ q.verb = "add" /\ p[q.at] # NoCopy /\ (q.ifx \/ q.cols \cap p[q.at].cols = {})
  \/ q.verb = "dropcol" /\ p[q.at] # NoCopy /\ (q.ifx \/ q.cols \subseteq p[q.at].cols)
  \/ q.verb = "rename" /\ p[q.at] # NoCopy /\ p[q.to] = NoCopy

Executed(p, q) ==
  CASE ~Accepts(p, q)      -> p
    [] q.verb = "create"   -> [p EXCEPT ![q.at] = IF @ = NoCopy
                                 THEN [cols |-> q.cols, rows |-> FALSE] ELSE @]
    [] q.verb = "drop"     -> [p EXCEPT ![q.at] = NoCopy]
    [] q.verb = "truncate" -> [p EXCEPT ![q.at].rows = FALSE]
    [] q.verb = "add"      -> [p EXCEPT ![q.at].cols = @ \cup q.cols]
    [] q.verb = "dropcol"  -> [p EXCEPT ![q.at].cols = @ \ q.cols]
    [] q.verb = "rename"   -> [p EXCEPT ![q.to] = p[q.at], ![q.at] = NoCopy]

-----------------------------------------------------------------------------
\* Steps of a statement.

Goto(c, pc) == st' = [st EXCEPT ![c].pc = pc]
Finish(c, reply) == st' = [st EXCEPT ![c].pc = "done", ![c].reply = reply]

Creates(s) == s.kind \in {"create", "ctas"}

\* The name a CREATE or a rename claims.
Claimed(s) == IF s.kind = "rename" THEN s.to ELSE s.name

\* CREATE TABLE [AS]: the fast refusal of an existing name and the check of the
\* replication factor, before anything is written.
StartCreate(c, s) ==
  /\ st[c].pc \in {"idle", "done"}
  /\ Creates(s)
  /\ LET begun == [Idle EXCEPT !.stmt = s, !.cols = s.cols] IN
     st' = [st EXCEPT ![c] =
       IF tables[s.name] # NoTable
       THEN [begun EXCEPT !.pc = "done", !.reply = IF s.ifx THEN "ok" ELSE "error"]
       ELSE IF s.rf > Cardinality(alive)
       THEN [begun EXCEPT !.pc = "done", !.reply = "error"]
       ELSE [begun EXCEPT !.pc = "claim"]]
  /\ UNCHANGED <<tables, shards, alive, copies, registry, untidy>>

\* The columns an ALTER leaves, from the metadata it has read.
AlteredColumns(s) ==
  CASE s.kind = "add"     -> tables[s.name].cols \cup s.cols
    [] s.kind = "dropcol" -> tables[s.name].cols \ s.cols
    [] OTHER              -> tables[s.name].cols

\* apply_alter_operation refuses what the metadata contradicts.
Refuses(s) ==
  \/ s.kind = "add" /\ ~s.ifx /\ s.cols \cap tables[s.name].cols # {}
  \/ s.kind = "dropcol" /\ ~s.ifx /\ ~(s.cols \subseteq tables[s.name].cols)

\* DROP, TRUNCATE, ALTER and RENAME read the table's metadata first.
StartOther(c, s) ==
  /\ st[c].pc \in {"idle", "done"}
  /\ ~Creates(s)
  /\ LET begun == [Idle EXCEPT !.stmt = s, !.cols = AlteredColumns(s)] IN
     st' = [st EXCEPT ![c] =
       IF tables[s.name] = NoTable
       THEN [begun EXCEPT !.pc = "done", !.reply = IF s.ifx THEN "ok" ELSE "error"]
       ELSE IF Refuses(s)
       THEN [begun EXCEPT !.pc = "done", !.reply = "error"]
       ELSE [begun EXCEPT !.pc = "read"]]
  /\ UNCHANGED <<tables, shards, alive, copies, registry, untidy>>

\* shards_for_table: the layout the statement works with from here on.  The
\* DROP of a failed CREATE TABLE AS has got this far without the metadata.
ReadShards(c) ==
  /\ st[c].pc = "read"
  /\ LET layout == shards[st[c].stmt.name] IN
     st' = [st EXCEPT ![c].layout = layout,
              ![c].todo = Calls(layout),
              ![c].pc = IF st[c].stmt.kind = "rename" THEN "claim" ELSE "send"]
  /\ UNCHANGED <<tables, shards, alive, copies, registry, untidy>>


\* create_table_if_absent: the check and the write are one transaction.  CREATE
\* TABLE IF NOT EXISTS is content with a name that has been taken meanwhile, and
\* CREATE TABLE IF NOT EXISTS ... AS goes on to write its rows there.
Claim(c) ==
  LET t == Claimed(st[c].stmt) IN
  /\ st[c].pc = "claim"
  /\ IF tables[t] # NoTable
     THEN /\ CASE st[c].stmt.kind = "rename" \/ ~st[c].stmt.ifx -> Finish(c, "error")
               [] st[c].stmt.kind = "create" -> Finish(c, "ok")
               [] OTHER -> Goto(c, "fill")
          /\ UNCHANGED tables
     ELSE /\ tables' = [tables EXCEPT ![t] = [cols |-> st[c].cols]]
          /\ st' = [st EXCEPT ![c].pc = IF Creates(st[c].stmt) THEN "place" ELSE "put",
                              ![c].claimed = TRUE]
  /\ untidy' = IF st[c].stmt.name \in untidy THEN untidy \cup {t} ELSE untidy
  /\ UNCHANGED <<shards, alive, copies, registry>>

\* assign_shards_round_robin.  If every node has died since the check, the
\* statement fails and the name stays claimed.
Place(c) ==
  /\ st[c].pc = "place"
  /\ IF alive = {}
     THEN Finish(c, "error") /\ untidy' = untidy \cup {st[c].stmt.name}
     ELSE /\ LET layout == RoundRobin(st[c].stmt.rf) IN
             st' = [st EXCEPT ![c].layout = layout, ![c].todo = Calls(layout),
                              ![c].pc = "put"]
          /\ UNCHANGED untidy
  /\ UNCHANGED <<tables, shards, alive, copies, registry>>

\* put_shard, one record after the other, under the claimed name.
PutShard(c) ==
  LET t == Claimed(st[c].stmt)
      written == st[c].written IN
  /\ st[c].pc = "put"
  /\ IF \E b \in Buckets \ written : st[c].layout[b] # <<>>
     THEN LET b == CHOOSE b \in Buckets \ written : \A d \in Buckets \ written : b <= d IN
          /\ shards' = [shards EXCEPT ![t][b] = st[c].layout[b]]
          /\ st' = [st EXCEPT ![c].written = written \cup {b}]
     ELSE Goto(c, "send") /\ UNCHANGED shards
  /\ UNCHANGED <<tables, alive, copies, registry, untidy>>

-----------------------------------------------------------------------------
\* The broadcast.  A call is answered, or it does not reach the node, or the
\* node executes it and the answer is lost.

\* A CREATE stops at the first call that fails; the others go on and remember
\* the failure.
AfterFailure(s, pc) == IF Creates(s) THEN "undo" ELSE pc

CallAnswered(c) ==
  LET call == First(st[c].todo)
      q == ShardSql(st[c].stmt, call[1])
      p == copies[call[2]] IN
  /\ st[c].pc = "send" /\ st[c].todo # {}
  /\ copies' = [copies EXCEPT ![call[2]] = Executed(p, q)]
  /\ st' = IF Accepts(p, q)
           THEN [st EXCEPT ![c].todo = @ \ {call}, ![c].applied = @ \cup {call}]
           ELSE [st EXCEPT ![c].todo = @ \ {call}, ![c].failed = TRUE,
                           ![c].pc = AfterFailure(st[c].stmt, @)]
  /\ UNCHANGED <<tables, shards, alive, registry, untidy>>

CallFails(c) ==
  LET call == First(st[c].todo) IN
  /\ st[c].pc = "send" /\ st[c].todo # {}
  /\ st' = [st EXCEPT ![c].todo = @ \ {call}, ![c].failed = TRUE,
                      ![c].pc = AfterFailure(st[c].stmt, @)]
  /\ UNCHANGED <<tables, shards, alive, copies, registry, untidy>>

AnswerLost(c) ==
  LET call == First(st[c].todo)
      s == st[c].stmt IN
  /\ st[c].pc = "send" /\ st[c].todo # {}
  /\ copies' = [copies EXCEPT ![call[2]] = Executed(@, ShardSql(s, call[1]))]
  /\ st' = [st EXCEPT ![c].todo = @ \ {call}, ![c].failed = TRUE,
                      ![c].pc = AfterFailure(s, @)]
  /\ untidy' = untidy \cup {s.name, s.to}
  /\ UNCHANGED <<tables, shards, alive, registry>>

\* (Mutant: failed calls are forgotten.)
BroadcastEndsUnchecked(c) ==
  LET s == st[c].stmt IN
  /\ st[c].pc = "send" /\ st[c].todo = {}
  /\ st' = [st EXCEPT ![c].failed = FALSE,
              ![c].pc = CASE Creates(s) -> "list" [] s.kind = "truncate" -> "done"
                          [] s.kind \in {"drop", "rename"} -> "unshard" [] OTHER -> "persist"]
  /\ UNCHANGED <<tables, shards, alive, copies, registry, untidy>>

\* The broadcast is over.  fail_if_unreachable turns a failed call into the
\* statement's error; a rename undoes what it did first.
BroadcastEnds(c) ==
  LET s == st[c].stmt IN
  /\ st[c].pc = "send" /\ st[c].todo = {}
  /\ IF st[c].failed
     THEN IF s.kind = "rename"
          THEN Goto(c, "undo") /\ UNCHANGED untidy
          ELSE Finish(c, "error") /\ untidy' = untidy \cup {s.name}
     ELSE /\ CASE Creates(s) -> Goto(c, "list")
               [] s.kind = "truncate" -> Finish(c, st[c].reply)
               [] s.kind \in {"drop", "rename"} -> Goto(c, "unshard")
               [] OTHER -> Goto(c, "persist")
          /\ UNCHANGED untidy
  /\ UNCHANGED <<tables, shards, alive, copies, registry>>

-----------------------------------------------------------------------------
\* Undoing a CREATE or a rename, and removing names.

\* send_compensating_ddl: only to the nodes that acknowledged, best effort.
Compensate(c) ==
  LET call == First(st[c].applied) IN
  /\ st[c].pc = "undo" /\ st[c].applied # {}
  /\ copies' = [copies EXCEPT ![call[2]] = Executed(@, UndoSql(st[c].stmt, call[1]))]
  /\ st' = [st EXCEPT ![c].applied = @ \ {call}]
  /\ UNCHANGED <<tables, shards, alive, registry, untidy>>

CompensationFails(c) ==
  /\ st[c].pc = "undo" /\ st[c].applied # {}
  /\ st' = [st EXCEPT ![c].applied = @ \ {First(@)}]
  /\ untidy' = untidy \cup {st[c].stmt.name, st[c].stmt.to}
  /\ UNCHANGED <<tables, shards, alive, copies, registry>>

\* (Mutant: only the catalog is rolled back.)
UndoEndsCatalogOnly(c) ==
  /\ st[c].pc = "undo"
  /\ Goto(c, "unshard")
  /\ UNCHANGED <<tables, shards, alive, copies, registry, untidy>>

\* rollback_partial_create and release_claimed_name turn to the catalog.
UndoEnds(c) ==
  /\ st[c].pc = "undo" /\ st[c].applied = {}
  /\ Goto(c, "unshard")
  /\ UNCHANGED <<tables, shards, alive, copies, registry, untidy>>

\* The name whose catalog records go: the claimed one when the statement is
\* being undone, otherwise the one that was dropped or renamed.
Victim(c) == IF st[c].failed THEN Claimed(st[c].stmt) ELSE st[c].stmt.name

DeleteShards(c) ==
  /\ st[c].pc = "unshard"
  /\ shards' = [shards EXCEPT ![Victim(c)] = NoShards]
  /\ Goto(c, "untable")
  /\ UNCHANGED <<tables, alive, copies, registry, untidy>>

DeleteTable(c) ==
  /\ st[c].pc = "untable"
  /\ tables' = [tables EXCEPT ![Victim(c)] = NoTable]
  /\ IF st[c].failed THEN Finish(c, "error") ELSE Goto(c, "deregister")
  /\ UNCHANGED <<shards, alive, copies, registry, untidy>>

\* ALTER writes back the metadata it read before the broadcast, changed.
Persist(c) ==
  /\ st[c].pc = "persist"
  /\ tables' = [tables EXCEPT ![st[c].stmt.name] = [cols |-> st[c].cols]]
  /\ Goto(c, "deregister")
  /\ UNCHANGED <<shards, alive, copies, registry, untidy>>

-----------------------------------------------------------------------------
\* The registry.

Registered(t) == [cols |-> tables[t].cols, layout |-> shards[t]]

\* deregister_table_after_ddl; a rename takes out both names.
Deregister(c) ==
  LET s == st[c].stmt
      out == IF s.kind = "rename" THEN {s.name, s.to} ELSE {s.name} IN
  /\ st[c].pc = "deregister"
  /\ registry' = [t \in Names |-> IF t \in out THEN Unregistered ELSE registry[t]]
  /\ Goto(c, "list")
  /\ UNCHANGED <<tables, shards, alive, copies, untidy>>

\* refresh_catalog_tables lists the tables with their columns ...
ListTables(c) ==
  /\ st[c].pc = "list"
  /\ st' = [st EXCEPT ![c].pc = "register",
              ![c].listed = {<<t, tables[t].cols>> : t \in {u \in Names : tables[u] # NoTable}}]
  /\ UNCHANGED <<tables, shards, alive, copies, registry, untidy>>

\* ... and registers each that is not registered, with the shards it then has.
\* Existing registrations are left alone.
Register(c) ==
  /\ st[c].pc = "register"
  /\ IF st[c].listed # {}
     THEN \E entry \in st[c].listed :
            /\ registry' = [registry EXCEPT ![entry[1]] =
                 IF @ = Unregistered THEN [cols |-> entry[2], layout |-> shards[entry[1]]] ELSE @]
            /\ st' = [st EXCEPT ![c].listed = @ \ {entry}]
     ELSE /\ IF st[c].stmt.kind = "ctas" THEN Goto(c, "fill") ELSE Finish(c, st[c].reply)
          /\ UNCHANGED registry
  /\ UNCHANGED <<tables, shards, alive, copies, untidy>>

-----------------------------------------------------------------------------
\* CREATE TABLE AS: the rows follow the table.

WithRows(t, W) ==
  [n \in Nodes |-> [p \in Names \X Buckets |->
    IF p[1] = t /\ <<p[2], n>> \in W /\ copies[n][p] # NoCopy
    THEN [copies[n][p] EXCEPT !.rows = TRUE] ELSE copies[n][p]]]

Fill(c) ==
  LET t == st[c].stmt.name IN
  /\ st[c].pc = "fill" /\ tables[t] # NoTable
  /\ copies' = WithRows(t, Calls(shards[t]))
  /\ Finish(c, "ok")
  /\ UNCHANGED <<tables, shards, alive, registry, untidy>>

\* The rows cannot all be written: the table is dropped again by name, the way
\* a client's DROP TABLE IF EXISTS drops it, and the client gets the error.
FillFails(c) ==
  LET t == st[c].stmt.name
      drop == [st[c].stmt EXCEPT !.kind = "drop", !.ifx = TRUE]
      begun == [Idle EXCEPT !.stmt = drop, !.reply = "error"] IN
  /\ st[c].pc = "fill"
  /\ \E W \in SUBSET Calls(shards[t]) : copies' = WithRows(t, W)
  /\ st' = [st EXCEPT ![c] = [begun EXCEPT !.pc = IF tables[t] = NoTable THEN "done" ELSE "read"]]
  /\ UNCHANGED <<tables, shards, alive, registry, untidy>>

-----------------------------------------------------------------------------
\* What happens around the statements.

\* Heartbeats and the failure detector change the nodes' states (Membership).
AliveChanges(n) ==
  /\ alive' = IF n \in alive THEN alive \ {n} ELSE alive \cup {n}
  /\ UNCHANGED <<tables, shards, copies, registry, st, untidy>>

\* The coordinator stops and starts: the statements are gone, the catalog and
\* the nodes keep what they have, the registry is filled from the catalog.
Crash ==
  /\ st' = [c \in Clients |-> Idle]
  /\ registry' = [t \in Names |-> IF tables[t] = NoTable THEN Unregistered ELSE Registered(t)]
  /\ untidy' = untidy \cup UNION {{st[c].stmt.name, st[c].stmt.to} :
                                  c \in {d \in Clients : st[d].pc \notin {"idle", "done"}}}
  /\ UNCHANGED <<tables, shards, alive, copies>>

Step(c) ==
  \/ ReadShards(c) \/ Claim(c) \/ Place(c) \/ PutShard(c)
  \/ CallAnswered(c) \/ BroadcastEnds(c)
  \/ Compensate(c) \/ UndoEnds(c) \/ DeleteShards(c) \/ DeleteTable(c)
  \/ Persist(c) \/ Deregister(c) \/ ListTables(c) \/ Register(c)
  \/ Fill(c) \/ FillFails(c)
Fault(c) == CallFails(c) \/ AnswerLost(c) \/ CompensationFails(c)

Next ==
  \/ \E c \in Clients, s \in Statements : StartCreate(c, s) \/ StartOther(c, s)
  \/ \E c \in Clients : Step(c) \/ Fault(c)
  \/ \E n \in Nodes : AliveChanges(n)
  \/ Crash

Spec == Init /\ [][Next]_vars

-----------------------------------------------------------------------------
\* Properties.

Layouts == [Buckets -> Seq(Nodes)]
MaxReplicas == 3

\* Every variable has its type; in particular no shard record names a node
\* twice (assign_shards_round_robin), although the nodes may have changed since
\* the replication factor was checked.  Factors up to MaxReplicas are covered.
TypeOK ==
  /\ \A t \in Names : tables[t].cols \subseteq Columns
  /\ \A t \in Names, b \in Buckets :
       LET targets == shards[t][b] IN
       /\ targets \in Seq(Nodes) /\ Len(targets) <= MaxReplicas
       /\ \A i, j \in DOMAIN targets : targets[i] = targets[j] => i = j
  /\ alive \subseteq Nodes
  /\ copies \in [Nodes -> [Names \X Buckets -> [cols : SUBSET Columns, rows : BOOLEAN]]]
  /\ \A t \in Names : registry[t].cols \subseteq Columns /\ registry[t].layout \in Layouts
  /\ \A c \in Clients :
       /\ st[c].pc \in Phases /\ st[c].reply \in {"ok", "error"}
       /\ st[c].todo \subseteq Buckets \X Nodes /\ st[c].applied \subseteq Buckets \X Nodes
  /\ untidy \subseteq Names

Resting(c) == st[c].pc \in {"idle", "done"}
Quiet == \A c \in Clients : Resting(c)
Acknowledged(c) == st[c].pc = "done" /\ st[c].reply = "ok"

\* No other client has a statement that changes or removes table t.
Undisturbed(c, t) ==
  \A d \in Clients \ {c} : st[d].pc = "idle" \/ Creates(st[d].stmt) \/ st[d].stmt.name # t

\* Every shard of t is recorded and every node recorded for it has its copy, with
\* the catalog's columns unless a failure has touched the table.
Served(t) ==
  /\ tables[t] # NoTable
  /\ \A b \in Buckets :
       /\ shards[t][b] # <<>>
       /\ \A n \in TargetNodes(shards[t], b) :
            /\ copies[n][<<t, b>>] # NoCopy
            /\ t \notin untidy => copies[n][<<t, b>>].cols = tables[t].cols

\* A CREATE, a rename or an ALTER that was answered with success has left a table
\* all of whose shards are on all of their nodes, and it stays so while others
\* compete for the name, fail and roll back: a rollback removes only what its own
\* statement claimed (claim_name, rollback_partial_create, release_claimed_name).
AcknowledgedIsServed ==
  \A c \in Clients :
    LET s == st[c].stmt IN
    /\ Acknowledged(c)
    /\ \/ Creates(s) /\ st[c].claimed
       \/ s.kind = "rename" /\ st[c].claimed /\ s.name \notin untidy
       \/ s.kind \in {"add", "dropcol"} /\ st[c].layout # NoShards /\ s.name \notin untidy
    /\ Undisturbed(c, Claimed(s))
    => Served(Claimed(s))

\* A DROP that was answered with success leaves no record of the table and no
\* copy on the nodes that were recorded for it, and a TRUNCATE no row there,
\* whatever earlier statements, lost answers and coordinator restarts have left
\* behind (handle_drop_table, handle_truncate: the records stay until every node
\* has answered, so repeating the statement converges).
RemovalIsComplete ==
  \A c \in Clients :
    LET t == st[c].stmt.name IN
    Acknowledged(c) /\ st[c].layout # NoShards /\ Undisturbed(c, t) =>
      /\ st[c].stmt.kind = "drop" =>
           /\ tables[t] = NoTable /\ shards[t] = NoShards
           /\ \A call \in Calls(st[c].layout) : copies[call[2]][<<t, call[1]>>] = NoCopy
      /\ st[c].stmt.kind = "truncate" =>
           \A call \in Calls(st[c].layout) : ~copies[call[2]][<<t, call[1]>>].rows

\* When no statement is running, the catalog and the nodes agree on every table
\* that no lost answer, failed undo, failed broadcast of a DROP, TRUNCATE or
\* ALTER, or restart has touched: a CREATE or a rename that fails because a call
\* does not reach its node is undone completely (rollback_partial_create,
\* send_compensating_ddl).
FailureIsUndone ==
  Quiet => \A t \in Names \ untidy :
    /\ tables[t] # NoTable => Served(t)
    /\ \A n \in Nodes, b \in Buckets :
         copies[n][<<t, b>>] # NoCopy => n \in TargetNodes(shards[t], b)
    /\ tables[t] = NoTable => shards[t] = NoShards

\* When no statement is running, what the query engine has registered is what the
\* catalog records: the tables, their columns and the shards a scan reads
\* (refresh_catalog_after_ddl, deregister_table_after_ddl).
RegistryIsCurrent ==
  Quiet => \A t \in Names :
    registry[t] = IF tables[t] = NoTable THEN Unregistered ELSE Registered(t)
=============================================================================
