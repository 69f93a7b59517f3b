----------------------------- MODULE Membership -----------------------------
(***************************************************************************)
(* How the coordinator learns which core nodes exist, are alive and can be *)
(* reached: registration, the heartbeat stream and failure reports         *)
(* (node_service.rs), the failure detector (failure_detector.rs), the node *)
(* records of the catalog (catalog.rs) and the node's side of the stream   *)
(* (core heartbeat.rs).                                                    *)
(*                                                                         *)
(* Every change of a record other than a registration is modify_node: read *)
(* the record in one redb transaction, change it, write all of it back in  *)
(* another.  The handlers and the detector run on different threads, so    *)
(* these two transactions are two steps here.                              *)
(*                                                                         *)
(* A timestamp is modelled as its age in whole seconds, which stops at     *)
(* Timeout because the detector makes no difference beyond it.             *)
(***************************************************************************)
EXTENDS Integers, FiniteSets

CONSTANTS
  Nodes,      \* node ids
  Addrs,      \* advertised addresses
  Timeout     \* heartbeat_timeout_secs

\* The configuration refuses a timeout of zero.
ASSUME TimeoutAssumption == Timeout \in Nat \ {0}

VARIABLES
  rec,      \* rec[n]: the catalog's record of node n, or NoRecord
  pending,  \* pending[w][n]: the record writer w has read, changed, not yet put
  verdict,  \* verdict[n]: the state the running scan will give n, or "keep"
  client,   \* client[n]: the node's reconnect loop: "loop", "session" or "down"
  needs,    \* needs[n]: needs_register
  addr,     \* addr[n]: the address the node advertises
  beat,     \* beat[n]: a heartbeat is under way to the coordinator
  ack       \* ack[n]: the answer under way to the node

vars == <<rec, pending, verdict, client, needs, addr, beat, ack>>
nodeVars == <<client, needs, addr, beat, ack>>

NoRecord == [state |-> "none"]
Records == [state : {"alive", "suspect", "dead"}, addr : Addrs, age : 0..Timeout]
Writers == {"heartbeat", "report", "detector"}

\* A third of the timeout, at least one second.
SuspectAfter == IF Timeout \div 3 > 1 THEN Timeout \div 3 ELSE 1

Init ==
  /\ rec = [n \in Nodes |-> NoRecord]
  /\ pending = [w \in Writers |-> [n \in Nodes |-> NoRecord]]
  /\ verdict = [n \in Nodes |-> "keep"]
  /\ client = [n \in Nodes |-> "down"]
  /\ needs = [n \in Nodes |-> TRUE]
  /\ addr \in [Nodes -> Addrs]
  /\ beat = [n \in Nodes |-> FALSE]
  /\ ack = [n \in Nodes |-> "none"]

-----------------------------------------------------------------------------
(***************************************************************************)
(* Writers of the catalog                                                  *)
(***************************************************************************)

\* get_node and the change, in memory.
ReadNode(w, n, changed) ==
  /\ pending[w][n] = NoRecord
  /\ pending' = [pending EXCEPT ![w][n] = changed]

\* put_node of the changed record.
PutNode(w, n) ==
  /\ pending[w][n] # NoRecord
  /\ rec' = [rec EXCEPT ![n] = pending[w][n]]
  /\ pending' = [pending EXCEPT ![w][n] = NoRecord]

\* (Mutant: a heartbeat refreshes the time only.)
HeardFromTimeOnly(r) == [r EXCEPT !.age = 0]

\* update_node_heartbeat
HeardFrom(r) == [r EXCEPT !.state = "alive", !.age = 0]

\* The stream task receives a heartbeat.  A node without a record is asked to
\* register, if its stream still exists.
HeartbeatRead(n) ==
  /\ beat[n]
  /\ beat' = [beat EXCEPT ![n] = FALSE]
  /\ \/ /\ rec[n] = NoRecord
        /\ ack' = [ack EXCEPT ![n] = IF client[n] = "session" THEN "register" ELSE @]
        /\ UNCHANGED pending
     \/ /\ rec[n] # NoRecord
        /\ ReadNode("heartbeat", n, HeardFrom(rec[n]))
        /\ UNCHANGED ack
  /\ UNCHANGED <<rec, verdict, client, needs, addr>>

HeartbeatPut(n) ==
  /\ PutNode("heartbeat", n)
  /\ UNCHANGED <<verdict, nodeVars>>

\* report_failure: Suspect, whatever the state was; nothing for an unknown node.
ReportRead(n) ==
  /\ client[n] # "down" /\ rec[n] # NoRecord
  /\ ReadNode("report", n, [rec[n] EXCEPT !.state = "suspect"])
  /\ UNCHANGED <<rec, verdict, nodeVars>>

ReportPut(n) ==
  /\ PutNode("report", n)
  /\ UNCHANGED <<verdict, nodeVars>>

\* (Mutant: a silence one second short of the threshold counts.)
JudgeEarly(r) ==
  CASE r = NoRecord \/ r.state = "dead" -> "keep"
    [] r.age >= Timeout -> "dead"
    [] r.age + 1 >= SuspectAfter /\ r.state = "alive" -> "suspect"
    [] OTHER -> "keep"

\* What check_nodes decides about a record of its snapshot.
Judge(r) ==
  CASE r = NoRecord \/ r.state = "dead" -> "keep"
    [] r.age >= Timeout -> "dead"
    [] r.age >= SuspectAfter /\ r.state = "alive" -> "suspect"
    [] OTHER -> "keep"

\* check_nodes: all records are read once, and then changed one by one.
Scan ==
  /\ \A n \in Nodes : verdict[n] = "keep" /\ pending["detector"][n] = NoRecord
  /\ \E n \in Nodes : Judge(rec[n]) # "keep"
  /\ verdict' = [n \in Nodes |-> Judge(rec[n])]
  /\ UNCHANGED <<rec, pending, nodeVars>>

DemoteRead(n) ==
  /\ verdict[n] # "keep"
  /\ \A m \in Nodes : pending["detector"][m] = NoRecord
  /\ ReadNode("detector", n, [rec[n] EXCEPT !.state = verdict[n]])
  /\ verdict' = [verdict EXCEPT ![n] = "keep"]
  /\ UNCHANGED <<rec, nodeVars>>

DemotePut(n) ==
  /\ PutNode("detector", n)
  /\ UNCHANGED <<verdict, nodeVars>>

\* A second passes.
Older(r) == IF r = NoRecord \/ r.age = Timeout THEN r ELSE [r EXCEPT !.age = @ + 1]

Tick ==
  /\ rec' = [n \in Nodes |-> Older(rec[n])]
  /\ pending' = [w \in Writers |-> [n \in Nodes |-> Older(pending[w][n])]]
  /\ UNCHANGED <<verdict, nodeVars>>

-----------------------------------------------------------------------------
(***************************************************************************)
(* The node's reconnect loop                                               *)
(***************************************************************************)

\* put_node by the register handler.
PutRegistration(n) ==
  /\ client[n] = "loop" /\ needs[n]
  /\ rec' = [rec EXCEPT ![n] = [state |-> "alive", addr |-> addr[n], age |-> 0]]
  /\ UNCHANGED <<pending, verdict, client, addr, beat, ack>>

\* register_remembered_shards succeeds.
Register(n) ==
  /\ PutRegistration(n)
  /\ needs' = [needs EXCEPT ![n] = FALSE]

\* The coordinator registers the node and the reply is lost: the loop backs off
\* and registers again.
RegisterUnanswered(n) == PutRegistration(n) /\ UNCHANGED needs

\* establish_session succeeds: a new stream.
Attach(n) ==
  /\ client[n] = "loop" /\ ~needs[n]
  /\ client' = [client EXCEPT ![n] = "session"]
  /\ beat' = [beat EXCEPT ![n] = FALSE]
  /\ UNCHANGED <<rec, pending, verdict, needs, addr, ack>>

SendHeartbeat(n) ==
  /\ client[n] = "session" /\ ~beat[n]
  /\ beat' = [beat EXCEPT ![n] = TRUE]
  /\ UNCHANGED <<rec, pending, verdict, client, needs, addr, ack>>

\* The session is over for whatever reason: the next attach registers first.
\* A heartbeat already sent is lost, or handled late.
EndSession(n, next) ==
  /\ client' = [client EXCEPT ![n] = next]
  /\ needs' = [needs EXCEPT ![n] = TRUE]
  /\ \E late \in {FALSE, beat[n]} : beat' = [beat EXCEPT ![n] = late]
  /\ ack' = [ack EXCEPT ![n] = "none"]

RegisterRequested(n) ==
  /\ client[n] = "session" /\ ack[n] = "register"
  /\ EndSession(n, "loop")
  /\ UNCHANGED <<rec, pending, verdict, addr>>

\* The stream closes, or no answer comes within three intervals.
StreamEnds(n) ==
  /\ client[n] = "session"
  /\ EndSession(n, "loop")
  /\ UNCHANGED <<rec, pending, verdict, addr>>

NodeStops(n) ==
  /\ client[n] # "down"
  /\ EndSession(n, "down")
  /\ UNCHANGED <<rec, pending, verdict, addr>>

\* The process starts, possibly somewhere else.
NodeStarts(n) ==
  /\ client[n] = "down"
  /\ client' = [client EXCEPT ![n] = "loop"]
  /\ \E a \in Addrs : addr' = [addr EXCEPT ![n] = a]
  /\ UNCHANGED <<rec, pending, verdict, needs, beat, ack>>

\* The coordinator is replaced, with its catalog or with an empty one.  Its
\* tasks are gone and every stream with them; a node that had just registered
\* and not yet attached does not notice.
CoordinatorRestarts(fresh) ==
  /\ rec' = IF fresh THEN [n \in Nodes |-> NoRecord] ELSE rec
  /\ pending' = [w \in Writers |-> [n \in Nodes |-> NoRecord]]
  /\ verdict' = [n \in Nodes |-> "keep"]
  /\ client' = [n \in Nodes |-> IF client[n] = "session" THEN "loop" ELSE client[n]]
  /\ needs' = [n \in Nodes |-> needs[n] \/ client[n] = "session"]
  /\ beat' = [n \in Nodes |-> FALSE]
  /\ ack' = [n \in Nodes |-> "none"]
  /\ UNCHANGED addr

-----------------------------------------------------------------------------
Coordinator(n) ==
  HeartbeatRead(n) \/ HeartbeatPut(n) \/ ReportPut(n) \/ DemoteRead(n) \/ DemotePut(n)

Client(n) == Register(n) \/ Attach(n) \/ SendHeartbeat(n) \/ RegisterRequested(n)

Step == Scan \/ Tick \/ \E n \in Nodes : Coordinator(n) \/ Client(n)

Fault ==
  \/ \E n \in Nodes : StreamEnds(n) \/ NodeStops(n) \/ RegisterUnanswered(n) \/ ReportRead(n)
  \/ \E fresh \in BOOLEAN : CoordinatorRestarts(fresh)

Next == Step \/ Fault \/ \E n \in Nodes : NodeStarts(n)

Spec == Init /\ [][Next]_vars

\* The detector's loop and the clock go on, a task that has read a record puts
\* it, and a node keeps registering, attaching and sending.
Progress ==
  /\ WF_vars(Scan) /\ WF_vars(Tick)
  /\ \A n \in Nodes :
       /\ WF_vars(HeartbeatRead(n)) /\ WF_vars(HeartbeatPut(n)) /\ WF_vars(ReportPut(n))
       /\ WF_vars(DemoteRead(n)) /\ WF_vars(DemotePut(n))
       /\ WF_vars(Register(n)) /\ WF_vars(Attach(n))
       /\ WF_vars(SendHeartbeat(n)) /\ WF_vars(RegisterRequested(n))

-----------------------------------------------------------------------------
(***************************************************************************)
(* Properties                                                              *)
(***************************************************************************)

\* Every variable has its type; only the detector's scan gives verdicts, and
\* only to nodes with a record.
TypeOK ==
  /\ rec \in [Nodes -> Records \cup {NoRecord}]
  /\ pending \in [Writers -> [Nodes -> Records \cup {NoRecord}]]
  /\ verdict \in [Nodes -> {"keep", "suspect", "dead"}]
  /\ client \in [Nodes -> {"loop", "session", "down"}]
  /\ needs \in [Nodes -> BOOLEAN]
  /\ addr \in [Nodes -> Addrs]
  /\ beat \in [Nodes -> BOOLEAN]
  /\ ack \in [Nodes -> {"none", "register"}]
  /\ \A n \in Nodes : rec[n] = NoRecord => verdict[n] = "keep" /\ \A w \in Writers : pending[w][n] = NoRecord

IsAlive(n) == rec[n] # NoRecord /\ rec[n].state = "alive"

\* A node that runs is eventually in the catalog for good, also when the
\* coordinator comes back with an empty catalog between the node's registration
\* and its stream (heartbeat answers REGISTER, reconnect_loop).
RunningIsKnown ==
  \A n \in Nodes : <>[](client[n] # "down") => <>[](rec[n] # NoRecord)

\* A node whose stream stays up is Alive again and again, whatever was written
\* about it before ("any node that resumes heartbeating is restored to alive").
HeartbeatingIsRestored ==
  \A n \in Nodes : <>[](client[n] = "session") => []<>IsAlive(n)

\* A node that stays down is eventually declared dead and stays so
\* (check_nodes), despite late failure reports and heartbeats.
DownIsDetected ==
  \A n \in Nodes :
    <>[](client[n] = "down") => <>[](rec[n] = NoRecord \/ rec[n].state = "dead")

\* A node with a stream that is heard from at intervals shorter than the suspect
\* threshold stays Alive (check_nodes, FailureDetector::new).
HealthyStaysAlive == \A n \in Nodes : client[n] = "session" => IsAlive(n)

\* An attached node is reached at the address it advertises, once no task is
\* about to write its record ("Address other components use to reach this
\* node").
AttachedIsReachable ==
  \A n \in Nodes :
    client[n] = "session" /\ rec[n] # NoRecord /\ (\A w \in Writers : pending[w][n] = NoRecord)
      => rec[n].addr = addr[n]
=============================================================================
