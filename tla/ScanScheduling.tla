--------------------------- MODULE ScanScheduling ---------------------------
(***************************************************************************)
(* Which core node runs which part of a distributed read: the shard        *)
(* affinity policy of the embedded Ballista scheduler                      *)
(* (coordinator/scheduler/affinity_policy.rs) over the plans the table     *)
(* provider builds (scheduler.rs), and the executors that poll it          *)
(* (core/ballista_exec/executor.rs).                                       *)
(*                                                                         *)
(* A job is a sequence of stages; a stage is a physical plan of which each *)
(* output partition is one task.  An executor polls for work, the policy   *)
(* binds tasks to that one executor, the executor runs them.  Ballista     *)
(* itself is external: which stages run, what it does with a lost          *)
(* executor, when a job is done.                                           *)
(***************************************************************************)
EXTENDS Integers, Sequences, FiniteSets, TLC, SequencesExt

CONSTANTS
  Executors,   \* core nodes; the executor id is the node id
  Placement,   \* Placement[s]: [primary, replicas] of shard s, as the provider has it
  Holders,     \* Holders[s]: the nodes whose DuckDB has shard s's table
  Slots,       \* task slots of an executor
  Jobs         \* Jobs[j]: the stages of job j, each with its plan and its input stages

ASSUME SlotsAssumption == Slots \in Nat \ {0}

\* A table without shards is scanned under its bare name, with no target.
NoShard == "no shard"
\* An encoding without primaries decodes to an empty primary id.
NoNode == "no node"

-----------------------------------------------------------------------------
(***************************************************************************)
(* Plans                                                                   *)
(***************************************************************************)

ScanOf(s) == [kind |-> "scan", shard |-> s]

\* SchedulerTableProvider::scan: one scan per shard, unioned when several.
TableScan(shards) ==
  CASE Len(shards) = 0 -> ScanOf(NoShard)
    [] Len(shards) = 1 -> ScanOf(shards[1])
    [] OTHER -> [kind |-> "union",
                 children |-> [i \in DOMAIN shards |-> ScanOf(shards[i])]]

\* Any other operator, with its output partition count, and the reader of
\* another stage's output, which starts a stage.
Operator(parts, children) == [kind |-> "other", parts |-> parts, children |-> children]
Reader(parts) == Operator(parts, << >>)

RECURSIVE Partitions(_)
Partitions(node) ==
  CASE node.kind = "scan" -> 1
    [] node.kind = "union" ->
         FoldLeft(LAMBDA n, child : n + Partitions(child), 0, node.children)
    [] OTHER -> node.parts

\* The shards the task of partition p scans: a union's partitions are its
\* children's in order, another operator's partition p runs p of its inputs.
RECURSIVE Scans(_, _)
Scans(node, p) ==
  CASE node.kind = "scan" -> IF p = 0 THEN {node.shard} ELSE {}
    [] node.kind = "union" ->
         LET before[i \in 0..Len(node.children)] ==
               IF i = 0 THEN 0 ELSE before[i - 1] + Partitions(node.children[i])
         IN UNION {Scans(node.children[i], p - before[i - 1]) :
                     i \in {i \in DOMAIN node.children :
                              before[i - 1] <= p /\ p < before[i]}}
    [] OTHER -> UNION {Scans(node.children[i], p) : i \in DOMAIN node.children}

\* (Mutant: a union is walked like any other operator.)
RECURSIVE WalkUnionFlat(_, _)
WalkUnionFlat(node, offset) ==
  IF node.kind = "scan"
  THEN [map |-> IF node.shard = NoShard THEN << >> ELSE offset :> node.shard, count |-> 1]
  ELSE [map |-> FoldLeft(LAMBDA m, child : WalkUnionFlat(child, offset).map @@ m,
                         << >>, node.children),
        count |-> Partitions(node)]

\* walk_plan_for_affinity: a scan claims the partition it is reached with, and
\* the last scan to claim one keeps it.
RECURSIVE Walk(_, _)
Walk(node, offset) ==
  CASE node.kind = "scan" ->
         [map |-> IF node.shard = NoShard THEN << >> ELSE offset :> node.shard, count |-> 1]
    [] node.kind = "union" ->
         LET all == FoldLeft(LAMBDA acc, child :
                      LET w == Walk(child, offset + acc.count)
                      IN [map |-> w.map @@ acc.map, count |-> acc.count + w.count],
                      [map |-> << >>, count |-> 0], node.children)
         IN all
    [] OTHER ->
         [map |-> FoldLeft(LAMBDA m, child : Walk(child, offset).map @@ m,
                           << >>, node.children),
          count |-> Partitions(node)]

\* extract_affinity_map
Affinity(plan) == Walk(plan, 0).map

-----------------------------------------------------------------------------
(***************************************************************************)
(* The scheduler's state                                                   *)
(***************************************************************************)

VARIABLES
  up,      \* up[e]: the executor runs
  known,   \* known[e]: the scheduler counts e among its executors
  status,  \* status[j]: "queued", "running" or "done"
  task     \* task[j][k][p]: what task_infos has for partition p of stage k of job j

vars == <<up, known, status, task>>

Free == [state |-> "none"]
Stages(j) == DOMAIN Jobs[j]
TasksOf == [j \in DOMAIN Jobs |-> [k \in Stages(j) |-> 0..(Partitions(Jobs[j][k].plan) - 1)]]
Tasks(j, k) == TasksOf[j][k]
AllTasks ==
  UNION {UNION {{j} \X {k} \X Tasks(j, k) : k \in Stages(j)} : j \in DOMAIN Jobs}
Unbound(j) == [k \in Stages(j) |-> [p \in Tasks(j, k) |-> Free]]
Bound(e, state) == [state |-> state, on |-> e]
RunsOn(e) == {t \in AllTasks : task[t[1]][t[2]][t[3]] = Bound(e, "running")}

\* The pieces of state have the types the scheduler's structs give them.
TypeOK ==
  /\ up \in [Executors -> BOOLEAN]
  /\ known \in [Executors -> BOOLEAN]
  /\ status \in [DOMAIN Jobs -> {"queued", "running", "done"}]
  /\ \A t \in AllTasks :
       task[t[1]][t[2]][t[3]] \in
         {Free} \cup {Bound(e, state) : e \in Executors, state \in {"running", "done"}}

Init ==
  /\ up = [e \in Executors |-> TRUE]
  /\ known = [e \in Executors |-> TRUE]
  /\ status = [j \in DOMAIN Jobs |-> "queued"]
  /\ task = [j \in DOMAIN Jobs |-> Unbound(j)]

Finished(j, k) == \A p \in Tasks(j, k) : task[j][k][p].state = "done"

\* Ballista: a stage runs once its inputs are finished and until it is.
RunningStages ==
  {s \in UNION {{j} \X Stages(j) : j \in DOMAIN Jobs} :
     /\ status[s[1]] = "running"
     /\ \A i \in Jobs[s[1]][s[2]].inputs : Finished(s[1], i)
     /\ ~Finished(s[1], s[2])}

AffinityOf == [j \in DOMAIN Jobs |-> [k \in Stages(j) |-> Affinity(Jobs[j][k].plan)]]

\* (Mutant: only the primary may run a scan.)
ServesAsReplicaNever(e, s) == FALSE

ServesAsReplica(e, s) == e \in Placement[s].replicas

\* How an executor may take a free task: as the shard's primary, as which any
\* executor counts when there is no hint, as one of its replicas, or not.
TaskClass(e, t) ==
  LET target == AffinityOf[t[1]][t[2]] IN
  CASE t[3] \notin DOMAIN target -> "primary"
    [] Placement[target[t[3]]].primary \in {NoNode, e} -> "primary"
    [] ServesAsReplica(e, target[t[3]]) -> "replica"
    [] OTHER -> "not here"

\* bind_tasks goes through a stage's own partitions first, in their order.
TakenBefore(e, t, u) ==
  \/ TaskClass(e, t) = "primary" /\ TaskClass(e, u) = "replica"
  \/ TaskClass(e, t) = TaskClass(e, u) /\ t[3] < u[3]

CountBound(e, eligible) ==
  Min({Cardinality(eligible), Slots - Cardinality(RunsOn(e))})

\* bind_tasks, for the one executor that polled.  It takes jobs and stages in
\* the order it meets them, which may be any, and each of them whole before
\* the next while slots last; a stage that bound something is fetched again
\* and then has nothing left for this executor.
Bindings(e) ==
  LET eligible == {t \in AllTasks : /\ <<t[1], t[2]>> \in RunningStages
                                     /\ task[t[1]][t[2]][t[3]] = Free
                                     /\ TaskClass(e, t) # "not here"}
      OfJob(j) == {t \in eligible : t[1] = j}
      OfStage(s) == {t \in eligible : <<t[1], t[2]>> = s}
      Partly(S, bound) == S \cap bound # {} /\ ~(S \subseteq bound)
  IN {bound \in SUBSET eligible :
        /\ Cardinality(bound) = CountBound(e, eligible)
        /\ \A j, i \in DOMAIN Jobs :
             Partly(OfJob(j), bound) /\ Partly(OfJob(i), bound) => i = j
        /\ \A s, r \in RunningStages :
             Partly(OfStage(s), bound) /\ Partly(OfStage(r), bound) => r = s
        /\ \A t \in eligible \ bound, u \in bound :
             <<t[1], t[2]>> = <<u[1], u[2]>> => ~TakenBefore(e, t, u)}

-----------------------------------------------------------------------------
(***************************************************************************)
(* Steps                                                                   *)
(***************************************************************************)

\* A read is submitted.
Submit(j) ==
  /\ status[j] = "queued"
  /\ status' = [status EXCEPT ![j] = "running"]
  /\ UNCHANGED <<up, known, task>>

\* An executor with free slots polls for work.
Poll(e) ==
  /\ up[e] /\ known[e]
  /\ Cardinality(RunsOn(e)) < Slots
  /\ \E bound \in Bindings(e) :
       task' = [j \in DOMAIN Jobs |-> [k \in Stages(j) |-> [p \in Tasks(j, k) |->
                  IF <<j, k, p>> \in bound THEN Bound(e, "running") ELSE task[j][k][p]]]]
  /\ UNCHANGED <<up, known, status>>

\* The executor has run a task and reports it with its next poll.
Report(t) ==
  LET info == task[t[1]][t[2]][t[3]] IN
  /\ info.state = "running"
  /\ up[info.on]
  /\ task' = [task EXCEPT ![t[1]][t[2]][t[3]] = Bound(info.on, "done")]
  /\ UNCHANGED <<up, known, status>>

\* Ballista: the job is done when its last stage is.
Complete(j) ==
  /\ status[j] = "running"
  /\ Finished(j, Len(Jobs[j]))
  /\ status' = [status EXCEPT ![j] = "done"]
  /\ UNCHANGED <<up, known, task>>

\* The node's process ends, and takes the outputs it had written with it.
Crash(e) ==
  /\ up[e]
  /\ up' = [up EXCEPT ![e] = FALSE]
  /\ UNCHANGED <<known, status, task>>

\* Ballista: an executor not heard from is dropped.  Its tasks become free
\* again, finished ones too, and the stages that read them start over.
Lost(j, e) == {k \in Stages(j) : \E p \in Tasks(j, k) : task[j][k][p] \in
                 {Bound(e, "running"), Bound(e, "done")}}
StartsOver(j, e, k) == Jobs[j][k].inputs \cap Lost(j, e) # {}

Expire(e) ==
  /\ ~up[e] /\ known[e]
  /\ known' = [known EXCEPT ![e] = FALSE]
  /\ task' = [j \in DOMAIN Jobs |->
                IF status[j] # "running" THEN task[j]
                ELSE [k \in Stages(j) |-> [p \in Tasks(j, k) |->
                  IF \/ task[j][k][p] \in {Bound(e, "running"), Bound(e, "done")}
                     \/ StartsOver(j, e, k)
                  THEN Free ELSE task[j][k][p]]]]
  /\ UNCHANGED <<up, status>>

\* start_executor: the node comes back and registers.
Restart(e) ==
  /\ ~up[e] /\ ~known[e]
  /\ up' = [up EXCEPT ![e] = TRUE]
  /\ known' = [known EXCEPT ![e] = TRUE]
  /\ UNCHANGED <<status, task>>

\* What the scheduler and the executors that run do of themselves.
Work ==
  \/ \E e \in Executors : Poll(e) \/ Expire(e)
  \/ \E t \in AllTasks : Report(t)
  \/ \E j \in DOMAIN Jobs : Complete(j)

Next ==
  \/ \E j \in DOMAIN Jobs : Submit(j)
  \/ Work
  \/ \E e \in Executors : Crash(e) \/ Restart(e)

\* Executors poll in a loop, run what they were given and report it, and the
\* scheduler drops one that has stopped: while any of that can happen,
\* something of it does.  Nothing makes a node crash or come back.
Fairness == WF_vars(Work)

Spec == Init /\ [][Next]_vars /\ Fairness

-----------------------------------------------------------------------------
(***************************************************************************)
(* Properties                                                              *)
(***************************************************************************)

\* A task that scans a shard runs where that shard's table is: through unions,
\* stages, lost executors and re-binding, bind_tasks never hands a scan to a
\* node whose DuckDB has no such table.
ScansRunWhereTheShardIs ==
  \A t \in AllTasks : LET info == task[t[1]][t[2]][t[3]] IN
    info # Free =>
      \A s \in Scans(Jobs[t[1]][t[2]].plan, t[3]) \ {NoShard} : info.on \in Holders[s]

\* However the stages of several reads are met in one poll, an executor is
\* never given more tasks than it has slots.
SlotsAreKept == \A e \in Executors : Cardinality(RunsOn(e)) <= Slots

\* A submitted read is answered, for every shard keeps a holder that runs:
\* each of its tasks is eventually bound to one, whoever polls first and
\* whatever the crashed node had taken or finished.
ReadsAreAnswered ==
  \A j \in DOMAIN Jobs : (status[j] = "running") ~> (status[j] = "done")

\* A scan is assigned to the primary's executor whenever it has capacity, and
\* to a replica's only when it has not.
HasCapacity(e) == up[e] /\ known[e] /\ Cardinality(RunsOn(e)) < Slots
PrimaryPreferred ==
  [][\A t \in AllTasks :
       (task[t[1]][t[2]][t[3]] = Free /\ task'[t[1]][t[2]][t[3]] # Free) =>
         \A s \in Scans(Jobs[t[1]][t[2]].plan, t[3]) \ {NoShard} :
           \/ task'[t[1]][t[2]][t[3]].on = Placement[s].primary
           \/ ~HasCapacity(Placement[s].primary)]_vars

=============================================================================
