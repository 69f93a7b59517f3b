---------------------------- MODULE Replication -----------------------------
(***************************************************************************)
(* The replicated writes of one shard: the coordinator's replication       *)
(* manager (coordinator/replication/replication.rs) composed with the core *)
(* nodes that hold the shard (core/write_service, core/write_queue).       *)
(*                                                                         *)
(* A write is one shard-local batch with its own write_id.  The manager    *)
(* fans it out to the shard's nodes, waits for all of them, answers the    *)
(* client, and hands the nodes that failed to per-node retry queues that a *)
(* background loop drains.  A node answers a repeated write_id from its    *)
(* cache; any other goes through the queue of its single writer thread.    *)
(*                                                                         *)
(* Faults: a connection breaks at any point of a call, a statement fails   *)
(* on a node, a node crashes and restarts (DuckDB's contents survive, the  *)
(* queue and the cache do not), the coordinator crashes and restarts.      *)
(***************************************************************************)
EXTENDS DedupCache, Naturals, Sequences, FiniteSets

CONSTANTS
  Nodes,          \* the shard's primary and replicas
  Primary,        \* ShardMeta.primary_node_id
  Writes,         \* write ids
  RF,             \* the table's replication factor
  AddressMaps,    \* the sets of nodes the catalog may have an address for
  MaxPending,     \* MAX_PENDING_RETRIES
  DedupCapacity   \* DEFAULT_DEDUP_CAPACITY

ASSUME PrimaryAssumption == Primary \in Nodes
ASSUME NodesAssumption == IsFiniteSet(Nodes)
ASSUME RFAssumption == RF \in Nat \ {0}
ASSUME AddressAssumption == AddressMaps \subseteq SUBSET Nodes
ASSUME CapacityAssumption == MaxPending \in Nat \ {0} /\ DedupCapacity \in Nat \ {0}

\* compute_quorum_size
QuorumSize == RF \div 2 + 1

VARIABLES
  \* --- the coordinator
  fan,        \* fan[w]: how far the fan-out of w has come, or how it ended
  targets,    \* targets[w]: the nodes w was sent to
  outcome,    \* outcome[w][n]: what n's task of the fan-out returned
  pending,    \* pending[n]: queue of writes awaiting re-delivery to n
  resend,     \* resend[n]: writes popped from it, with a task sleeping or sending
  dead,       \* dead[n]: the catalog has n in state Dead
  \* --- the calls between them
  rpc,        \* rpc[n][w]: the coordinator's call for w to n
  \* --- the core nodes
  up,         \* up[n]: n's process runs
  queue,      \* queue[n]: entries waiting for n's writer thread
  finishing,  \* finishing[n]: handlers whose write was executed, not yet cached
  cache,      \* cache[n]: DedupCache
  applied,    \* applied[n]: the writes in n's DuckDB file, in execution order
  \* --- history
  forgotten   \* forgotten[n]: writes that left n's retry queue undelivered

coordVars == <<fan, targets, outcome, pending, resend, dead, forgotten>>
nodeVars  == <<up, queue, finishing, cache, applied>>
vars      == <<coordVars, rpc, nodeVars>>

FanStates == {"idle", "waiting", "acked", "noPrimary", "noQuorum", "unavailable",
              "interrupted"}
RpcStates == {"none", "request", "serving", "ok", "err"}

\* Whether a queued write still has a handler, and the handler a caller.
Modes   == {"heard", "unheard", "dropped"}
Entries == [write : Writes, mode : Modes]
Handled == [write : Writes, ok : BOOLEAN, mode : {"heard", "unheard"}]
Cached  == [id : Writes, ok : BOOLEAN]

\* The pieces of state have the types the code's structs give them.
TypeOK ==
  /\ fan \in [Writes -> FanStates]
  /\ targets \in [Writes -> SUBSET Nodes]
  /\ outcome \in [Writes -> [Nodes -> {"none", "ok", "err"}]]
  /\ pending \in [Nodes -> Seq(Writes)]
  /\ resend \in [Nodes -> SUBSET Writes]
  /\ dead \in [Nodes -> BOOLEAN]
  /\ rpc \in [Nodes -> [Writes -> RpcStates]]
  /\ up \in [Nodes -> BOOLEAN]
  /\ queue \in [Nodes -> Seq(Entries)]
  /\ finishing \in [Nodes -> SUBSET Handled]
  /\ cache \in [Nodes -> Seq(Cached)]
  /\ applied \in [Nodes -> Seq(Writes)]
  /\ forgotten \in [Nodes -> SUBSET Writes]

Init ==
  /\ fan = [w \in Writes |-> "idle"]
  /\ targets = [w \in Writes |-> {}]
  /\ outcome = [w \in Writes |-> [n \in Nodes |-> "none"]]
  /\ pending = [n \in Nodes |-> << >>]
  /\ resend = [n \in Nodes |-> {}]
  /\ dead = [n \in Nodes |-> FALSE]
  /\ rpc = [n \in Nodes |-> [w \in Writes |-> "none"]]
  /\ up = [n \in Nodes |-> TRUE]
  /\ queue = [n \in Nodes |-> << >>]
  /\ finishing = [n \in Nodes |-> {}]
  /\ cache = [n \in Nodes |-> << >>]
  /\ applied = [n \in Nodes |-> << >>]
  /\ forgotten = [n \in Nodes |-> {}]

\* Node n's DuckDB file contains write w.
Holds(n, w) == \E i \in 1..Len(applied[n]) : applied[n][i] = w

\* n's cache answers w with a failure.
KeepsFailure(n, w) == \E i \in 1..Len(cache[n]) : cache[n][i].id = w /\ ~cache[n][i].ok

\* w waits in n's retry queue.
Queued(n, w) == \E i \in 1..Len(pending[n]) : pending[n][i] = w

-----------------------------------------------------------------------------
(***************************************************************************)
(* The coordinator                                                         *)
(***************************************************************************)

\* fan_out, up to the spawned tasks: read the address map, refuse the write if
\* the primary has no address, otherwise call every addressed node of the shard.
FanOut(w) ==
  /\ fan[w] = "idle"
  /\ \E addressed \in AddressMaps :
       \/ /\ Primary \notin addressed
          /\ fan' = [fan EXCEPT ![w] = "unavailable"]
          /\ UNCHANGED <<targets, rpc>>
       \/ /\ Primary \in addressed
          /\ fan' = [fan EXCEPT ![w] = "waiting"]
          /\ targets' = [targets EXCEPT ![w] = addressed]
          /\ rpc' = [n \in Nodes |->
                       IF n \in addressed THEN [rpc[n] EXCEPT ![w] = "request"] ELSE rpc[n]]
  /\ UNCHANGED <<outcome, pending, resend, dead, forgotten, nodeVars>>

\* (Mutant: a failed call is not collected.)
CollectSuccesses(n, w) ==
  /\ fan[w] = "waiting"
  /\ rpc[n][w] = "ok"
  /\ outcome' = [outcome EXCEPT ![w][n] = "ok"]
  /\ rpc' = [rpc EXCEPT ![n][w] = "none"]
  /\ UNCHANGED <<fan, targets, pending, resend, dead, forgotten, nodeVars>>

\* A fan-out task returns what its call returned.
Collect(n, w) ==
  /\ fan[w] = "waiting"
  /\ rpc[n][w] \in {"ok", "err"}
  /\ outcome' = [outcome EXCEPT ![w][n] = rpc[n][w]]
  /\ rpc' = [rpc EXCEPT ![n][w] = "none"]
  /\ UNCHANGED <<fan, targets, pending, resend, dead, forgotten, nodeVars>>

\* (Mutant: every answer counts as an ack.)
AcksAnyAnswer(w) == {n \in targets[w] : outcome[w][n] # "none"}

Acks(w) == {n \in targets[w] : outcome[w][n] = "ok"}


Lagging(w) == {n \in targets[w] : outcome[w][n] = "err"}

\* push_pending_retry: w joins the queue of each node of S, or is dropped there
\* when that queue is full.
PushPending(S, w) ==
  /\ pending' = [n \in Nodes |->
                   IF n \in S /\ Len(pending[n]) < MaxPending
                   THEN Append(pending[n], w) ELSE pending[n]]
  /\ forgotten' = [n \in Nodes |->
                     IF n \in S /\ ~(Len(pending[n]) < MaxPending)
                     THEN forgotten[n] \cup {w} ELSE forgotten[n]]

\* (Mutant: a quorum without the primary is enough.)
DecideAnyQuorum(w) ==
  /\ fan[w] = "waiting"
  /\ \A n \in targets[w] : outcome[w][n] # "none"
  /\ \/ /\ Cardinality(Acks(w)) < QuorumSize
        /\ fan' = [fan EXCEPT ![w] = "noQuorum"]
        /\ UNCHANGED <<pending, forgotten>>
     \/ /\ Cardinality(Acks(w)) >= QuorumSize
        /\ fan' = [fan EXCEPT ![w] = "acked"]
        /\ PushPending(Lagging(w), w)
  /\ UNCHANGED <<targets, outcome, resend, dead, rpc, nodeVars>>

\* fan_out, once every task has returned: the client is answered, and only a
\* write reported as committed is queued for the nodes that failed.
Decide(w) ==
  /\ fan[w] = "waiting"
  /\ \A n \in targets[w] : outcome[w][n] # "none"
  /\ \/ /\ Primary \notin Acks(w)
        /\ fan' = [fan EXCEPT ![w] = "noPrimary"]
        /\ UNCHANGED <<pending, forgotten>>
     \/ /\ Primary \in Acks(w)
        /\ Cardinality(Acks(w)) < QuorumSize
        /\ fan' = [fan EXCEPT ![w] = "noQuorum"]
        /\ UNCHANGED <<pending, forgotten>>
     \/ /\ Primary \in Acks(w)
        /\ Cardinality(Acks(w)) >= QuorumSize
        /\ fan' = [fan EXCEPT ![w] = "acked"]
        /\ PushPending(Lagging(w), w)
  /\ UNCHANGED <<targets, outcome, resend, dead, rpc, nodeVars>>

\* One pass of the retry loop, under the lock: pop the oldest entry of every
\* queue whose node is not Dead and spawn a task for it.
Popped(n) == ~dead[n] /\ pending[n] # << >>

RetryTick ==
  /\ \E n \in Nodes : Popped(n)
  /\ pending' = [n \in Nodes |-> IF Popped(n) THEN Tail(pending[n]) ELSE pending[n]]
  /\ resend' = [n \in Nodes |->
                  IF Popped(n) THEN resend[n] \cup {Head(pending[n])} ELSE resend[n]]
  /\ UNCHANGED <<fan, targets, outcome, dead, forgotten, rpc, nodeVars>>

\* The task wakes after its backoff and sends.
Resend(n, w) ==
  /\ w \in resend[n]
  /\ rpc[n][w] = "none"
  /\ rpc' = [rpc EXCEPT ![n][w] = "request"]
  /\ UNCHANGED <<coordVars, nodeVars>>

\* (Mutant: a retry that failed is not queued again.)
ResendDoneNoRequeue(n, w) ==
  /\ w \in resend[n]
  /\ rpc[n][w] \in {"ok", "err"}
  /\ resend' = [resend EXCEPT ![n] = @ \ {w}]
  /\ rpc' = [rpc EXCEPT ![n][w] = "none"]
  /\ UNCHANGED <<fan, targets, outcome, pending, forgotten, dead, nodeVars>>

\* The task ends: done on success, back to the queue otherwise.
ResendDone(n, w) ==
  /\ w \in resend[n]
  /\ resend' = [resend EXCEPT ![n] = @ \ {w}]
  /\ rpc' = [rpc EXCEPT ![n][w] = "none"]
  /\ \/ /\ rpc[n][w] = "ok"
        /\ UNCHANGED <<pending, forgotten>>
     \/ /\ rpc[n][w] = "err"
        /\ PushPending({n}, w)
  /\ UNCHANGED <<fan, targets, outcome, dead, nodeVars>>

\* What the retry loop sees of the failure detector: a node that does not run
\* may be found Dead; one that runs heartbeats and is set Alive again.
MarkDead(n) ==
  /\ ~up[n] /\ ~dead[n]
  /\ dead' = [dead EXCEPT ![n] = TRUE]
  /\ UNCHANGED <<fan, targets, outcome, pending, resend, forgotten, rpc, nodeVars>>

MarkAlive(n) ==
  /\ up[n] /\ dead[n]
  /\ dead' = [dead EXCEPT ![n] = FALSE]
  /\ UNCHANGED <<fan, targets, outcome, pending, resend, forgotten, rpc, nodeVars>>

-----------------------------------------------------------------------------
(***************************************************************************)
(* The core nodes                                                          *)
(***************************************************************************)

\* execute_write up to its first await: a known id is answered from the cache,
\* any other is handed to the writer thread.
Receive(n, w) ==
  /\ up[n]
  /\ rpc[n][w] = "request"
  /\ \/ /\ w \in CachedIds(cache[n])
        /\ rpc' = [rpc EXCEPT ![n][w] = IF CachedResult(cache[n], w) THEN "ok" ELSE "err"]
        /\ UNCHANGED queue
     \/ /\ w \notin CachedIds(cache[n])
        /\ rpc' = [rpc EXCEPT ![n][w] = "serving"]
        /\ queue' = [queue EXCEPT ![n] = Append(@, [write |-> w, mode |-> "heard"])]
  /\ UNCHANGED <<coordVars, up, finishing, cache, applied>>

\* writer_loop: the writer thread executes the oldest entry, with or without a
\* handler left to hear of it.  ok is whether DuckDB accepted the batch.
Execute(n, ok) ==
  /\ up[n]
  /\ queue[n] # << >>
  /\ LET e == Head(queue[n])
     IN /\ applied' = [applied EXCEPT ![n] = IF ok THEN Append(@, e.write) ELSE @]
        /\ finishing' = [finishing EXCEPT ![n] =
             IF e.mode = "dropped" THEN @
             ELSE @ \cup {[write |-> e.write, ok |-> ok, mode |-> e.mode]}]
  /\ queue' = [queue EXCEPT ![n] = Tail(@)]
  /\ UNCHANGED <<coordVars, rpc, up, cache>>

\* (Mutant: the result is not recorded.)
FinishUncached(n, h) ==
  /\ up[n]
  /\ h \in finishing[n]
  /\ finishing' = [finishing EXCEPT ![n] = @ \ {h}]
  /\ rpc' = [rpc EXCEPT ![n][h.write] =
               IF h.mode # "heard" THEN @ ELSE IF h.ok THEN "ok" ELSE "err"]
  /\ UNCHANGED <<coordVars, up, queue, cache, applied>>

\* execute_write after the await: the handler records the result, a failure no
\* less than a success, and replies if its caller is still there.
Finish(n, h) ==
  /\ up[n]
  /\ h \in finishing[n]
  /\ finishing' = [finishing EXCEPT ![n] = @ \ {h}]
  /\ cache' = [cache EXCEPT ![n] = CacheInsert(@, h.write, h.ok, DedupCapacity)]
  /\ rpc' = [rpc EXCEPT ![n][h.write] =
               IF h.mode # "heard" THEN @ ELSE IF h.ok THEN "ok" ELSE "err"]
  /\ UNCHANGED <<coordVars, up, queue, applied>>

-----------------------------------------------------------------------------
(***************************************************************************)
(* Faults                                                                  *)
(***************************************************************************)

\* The calls of the writes W lose their callers.  The handlers run on unaware
\* of it ("unheard"), or the server drops them ("dropped"): an entry already
\* queued is executed all the same, a result not yet cached never is.
QueueWithout(q, W, mode) ==
  [i \in 1..Len(q) |->
     IF q[i].write \in W /\ q[i].mode = "heard"
     THEN [write |-> q[i].write, mode |-> mode] ELSE q[i]]

FinishingWithout(F, W, mode) ==
  LET left == {h \in F : h.write \in W /\ h.mode = "heard"}
      kept == IF mode = "dropped" THEN {}
              ELSE {[write |-> h.write, ok |-> h.ok, mode |-> "unheard"] : h \in left}
  IN (F \ left) \cup kept

\* The connection of one call breaks: before the request arrives, while the
\* node serves it, or before the reply arrives.
Break(n, w, stage) ==
  /\ stage \in {"request", "serving", "ok"}
  /\ rpc[n][w] = stage
  /\ rpc' = [rpc EXCEPT ![n][w] = "err"]
  /\ \E mode \in {"unheard", "dropped"} :
       /\ queue' = [queue EXCEPT ![n] = QueueWithout(@, {w}, mode)]
       /\ finishing' = [finishing EXCEPT ![n] = FinishingWithout(@, {w}, mode)]
  /\ UNCHANGED <<coordVars, up, cache, applied>>

\* The process of node n ends; its callers see the connection reset.
NodeCrash(n) ==
  /\ up[n]
  /\ up' = [up EXCEPT ![n] = FALSE]
  /\ queue' = [queue EXCEPT ![n] = << >>]
  /\ finishing' = [finishing EXCEPT ![n] = {}]
  /\ cache' = [cache EXCEPT ![n] = << >>]
  /\ rpc' = [rpc EXCEPT ![n] =
               [w \in Writes |-> IF rpc[n][w] \in {"request", "serving", "ok"}
                                 THEN "err" ELSE rpc[n][w]]]
  /\ UNCHANGED <<coordVars, applied>>

\* A call to a node that does not run is refused.
Refuse(n, w) ==
  /\ ~up[n]
  /\ rpc[n][w] = "request"
  /\ rpc' = [rpc EXCEPT ![n][w] = "err"]
  /\ UNCHANGED <<coordVars, nodeVars>>

NodeRestart(n) ==
  /\ ~up[n]
  /\ up' = [up EXCEPT ![n] = TRUE]
  /\ UNCHANGED <<coordVars, rpc, queue, finishing, cache, applied>>

\* The coordinator's process ends and comes back: the retry queues and the
\* fan-outs it was waiting for are memory only.  No caller is left on any node.
CoordinatorCrash ==
  /\ fan' = [w \in Writes |-> IF fan[w] = "waiting" THEN "interrupted" ELSE fan[w]]
  /\ pending' = [n \in Nodes |-> << >>]
  /\ resend' = [n \in Nodes |-> {}]
  /\ forgotten' = [n \in Nodes |->
       forgotten[n] \cup resend[n] \cup {pending[n][i] : i \in 1..Len(pending[n])}]
  /\ rpc' = [n \in Nodes |-> [w \in Writes |-> "none"]]
  /\ \E mode \in {"unheard", "dropped"} :
       /\ queue' = [n \in Nodes |-> QueueWithout(queue[n], Writes, mode)]
       /\ finishing' = [n \in Nodes |-> FinishingWithout(finishing[n], Writes, mode)]
  /\ UNCHANGED <<targets, outcome, dead, up, cache, applied>>

-----------------------------------------------------------------------------
\* What the program does by itself.
Step ==
  \/ \E w \in Writes : FanOut(w) \/ Decide(w)
  \/ RetryTick
  \/ \E n \in Nodes : MarkDead(n) \/ MarkAlive(n) \/ NodeRestart(n) \/ Execute(n, TRUE)
  \/ \E n \in Nodes, w \in Writes :
       \/ Collect(n, w) \/ Resend(n, w) \/ ResendDone(n, w)
       \/ Receive(n, w) \/ Refuse(n, w)
  \/ \E n \in Nodes : \E h \in finishing[n] : Finish(n, h)

\* What is done to it: a call breaks at some stage, a statement fails, a node or
\* the coordinator crashes.
FaultKinds == {"request", "serving", "ok", "statement", "node", "coordinator"}

Fault(kind) ==
  \/ \E n \in Nodes, w \in Writes : Break(n, w, kind)
  \/ kind = "statement" /\ \E n \in Nodes : Execute(n, FALSE)
  \/ kind = "node" /\ \E n \in Nodes : NodeCrash(n)
  \/ kind = "coordinator" /\ CoordinatorCrash

Next == Step \/ \E kind \in FaultKinds : Fault(kind)

Spec == Init /\ [][Next]_vars

\* The coordinator's tasks run on an executor that starves none of them.
CoordinatorFairness ==
  /\ WF_vars(RetryTick)
  /\ \A w \in Writes : WF_vars(Decide(w))
  /\ \A n \in Nodes, w \in Writes :
       WF_vars(Collect(n, w)) /\ WF_vars(Resend(n, w)) /\ WF_vars(ResendDone(n, w))

\* So do a node's; a request reaches a node that runs or is refused by one that
\* does not, a crashed node is started again, and its heartbeats are heard.
NodeFairness(n) ==
  /\ WF_vars(NodeRestart(n)) /\ WF_vars(MarkAlive(n)) /\ WF_vars(Execute(n, TRUE))
  /\ \A w \in Writes : WF_vars(Receive(n, w)) /\ WF_vars(Refuse(n, w))
  /\ \A h \in Handled : WF_vars(Finish(n, h))

-----------------------------------------------------------------------------
(***************************************************************************)
(* Properties                                                              *)
(***************************************************************************)

\* A write the client was told is committed is in the DuckDB file of the primary
\* and of a quorum of the shard's nodes, whatever happened to the calls, caches
\* and processes since (fan_out's two checks before Ok).
AckedIsDurable ==
  \A w \in Writes : fan[w] = "acked" =>
    /\ Holds(Primary, w)
    /\ Cardinality({n \in Nodes : Holds(n, w)}) >= QuorumSize

\* A committed write that a target still lacks is not lost track of: it is in
\* that node's retry queue or in the hands of a retry task, unless the queue's
\* cap or a coordinator crash is what removed it (enqueue_retries, the retry
\* loop's push back).
TailIsTracked ==
  \A w \in Writes : fan[w] = "acked" =>
    \A n \in targets[w] :
      Holds(n, w) \/ Queued(n, w) \/ w \in resend[n] \/ w \in forgotten[n]

\* The retry machinery only ever re-sends writes reported as committed: a write
\* the client was told has failed is not pushed to further nodes afterwards.
OnlyAckedIsTailed ==
  \A n \in Nodes, w \in Writes :
    Queued(n, w) \/ w \in resend[n] => fan[w] = "acked" /\ n \in targets[w]

\* A success reported anywhere is true: a reply on the wire, a result about to be
\* cached or cached, and an ack the fan-out counted all stand for a write that is
\* in that node's file, across lost replies, cached answers and restarts.
RepliesAreTrue ==
  /\ \A n \in Nodes, w \in Writes : rpc[n][w] = "ok" => Holds(n, w)
  /\ \A n \in Nodes : \A h \in finishing[n] : h.ok => Holds(n, h.write)
  /\ \A n \in Nodes : \A i \in 1..Len(cache[n]) :
       cache[n][i].ok => Holds(n, cache[n][i].id)
  /\ \A n \in Nodes, w \in Writes : outcome[w][n] = "ok" => Holds(n, w)

\* A committed write was counted as such from the answers of all its targets.
AckedHasQuorum ==
  \A w \in Writes : fan[w] = "acked" =>
    /\ Primary \in Acks(w)
    /\ Cardinality(Acks(w)) >= QuorumSize

\* The file of a node contains no write twice (the purpose of the dedup cache).
AtMostOnce ==
  \A n \in Nodes : \A i, j \in 1..Len(applied[n]) :
    applied[n][i] = applied[n][j] => i = j


\* A committed write eventually reaches every node it was sent to while neither the
\* queue's cap nor a crash of the coordinator interferes, also after its statement
\* failed there once ("retries the same shard-local SQL statement against lagging
\* nodes").
RetriesSucceed ==
  \A w \in Writes, n \in Nodes :
    (fan[w] = "acked" /\ n \in targets[w]) ~> (Holds(n, w) \/ w \in forgotten[n])

\* Every fan-out ends: no call, task or lock keeps a client waiting forever, as
\* long as nodes and tasks are not starved (fan_out awaits every task).
EveryWriteIsAnswered ==
  \A w \in Writes : fan[w] = "waiting" ~> fan[w] # "waiting"

\* The client is answered once the primary and a quorum have acknowledged.
QuorumIsAnswered ==
  \A w \in Writes :
    (/\ fan[w] = "waiting"
     /\ Primary \in Acks(w)
     /\ Cardinality(Acks(w)) >= QuorumSize) ~> fan[w] = "acked"

\* The inductive invariant behind AckedIsDurable and TailIsTracked.
IInv ==
  /\ TypeOK
  /\ RepliesAreTrue
  /\ AckedHasQuorum
  /\ OnlyAckedIsTailed
  /\ TailIsTracked

\* The client's view refines the abstract store: copies are what the files hold,
\* and a fan-out that ended without Ok is a write answered with a failure.
answerOf == [w \in Writes |->
  IF fan[w] \in {"idle", "waiting"} THEN "open"
  ELSE IF fan[w] = "acked" THEN "committed" ELSE "failed"]
copiesOf == [w \in Writes |-> {n \in Nodes : Holds(n, w)}]
PrimaryQuorums ==
  {Q \in SUBSET Nodes : Primary \in Q /\ Cardinality(Q) >= QuorumSize}

Store == INSTANCE QuorumStore WITH
           Quorums <- PrimaryQuorums, copies <- copiesOf, answer <- answerOf

\* Every step of the replication of a shard is a step of the abstract store, or
\* changes nothing a client or a reader of the files could see.
RefinesQuorumStore == Store!StoreSpec
=============================================================================
