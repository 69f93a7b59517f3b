------------------------------- MODULE MCDdl --------------------------------
(***************************************************************************)
(* Ddl for TLC.  In mode "serial" one client sends any sequence of up to   *)
(* MaxStatements statements, with up to MaxFaults failed calls, lost       *)
(* answers, failed undo calls and restarts.  In mode "racing" every client *)
(* sends one statement that claims a name, at the same time, with up to    *)
(* MaxFaults calls that fail and one node changing its state.              *)
(***************************************************************************)
EXTENDS Ddl

CONSTANTS Modes, MaxStatements, MaxFaults, MaxFlips

VARIABLES mode, sent, faults, flips
mcVars == <<vars, mode, sent, faults, flips>>

Make(kind, name, to, cols, ifx, rf) ==
  [kind |-> kind, name |-> name, to |-> to, cols |-> cols, ifx |-> ifx, rf |-> rf]

SerialStatements ==
  {Make("create", "t", "t", {"k"}, FALSE, 2), Make("create", "u", "u", {"k", "x"}, TRUE, 1),
   Make("ctas", "t", "t", {"k"}, FALSE, 1), Make("drop", "t", "t", {}, FALSE, 1),
   Make("drop", "u", "u", {}, TRUE, 1), Make("truncate", "t", "t", {}, FALSE, 1),
   Make("add", "t", "t", {"x"}, FALSE, 1), Make("add", "t", "t", {"x"}, TRUE, 1),
   Make("dropcol", "t", "t", {"x"}, FALSE, 1), Make("rename", "t", "u", {}, FALSE, 1)}

RacingStatements ==
  {Make("create", "t", "t", {"k"}, FALSE, 2), Make("create", "t", "t", {"k"}, TRUE, 1),
   Make("create", "u", "u", {"k", "x"}, FALSE, 1), Make("ctas", "t", "t", {"k"}, FALSE, 1),
   Make("rename", "s", "t", {}, FALSE, 1)}

MCStatements == SerialStatements \cup RacingStatements

\* Table s exists from the start, placed on all nodes.
WithTable ==
  /\ tables = [t \in Names |-> IF t = "s" THEN [cols |-> {"k"}] ELSE NoTable]
  /\ shards = [t \in Names |-> IF t = "s" THEN [b \in Buckets |-> <<1, 2>>] ELSE NoShards]
  /\ alive = Nodes
  /\ copies = [n \in Nodes |-> [p \in Names \X Buckets |->
       IF p[1] = "s" THEN [cols |-> {"k"}, rows |-> TRUE] ELSE NoCopy]]
  /\ registry = [t \in Names |->
       IF t = "s" THEN [cols |-> {"k"}, layout |-> [b \in Buckets |-> <<1, 2>>]]
       ELSE Unregistered]
  /\ st = [c \in Clients |-> Idle]
  /\ untidy = {}

MCInit ==
  /\ mode \in Modes
  /\ IF mode = "serial" THEN Init ELSE WithTable
  /\ sent = 0 /\ faults = 0 /\ flips = 0

MCStart(c, s) ==
  /\ IF mode = "serial"
     THEN /\ \A d \in Clients \ {c} : st[d].pc = "idle"
          /\ sent < MaxStatements /\ s \in SerialStatements
     ELSE st[c].pc = "idle" /\ s \in RacingStatements
  /\ StartCreate(c, s) \/ StartOther(c, s)
  /\ sent' = IF mode = "serial" THEN sent + 1 ELSE sent
  /\ UNCHANGED <<mode, faults, flips>>

MCFault ==
  /\ faults < MaxFaults
  /\ \/ \E c \in Clients : CallFails(c)
     \/ \E c \in Clients : mode = "serial" /\ (AnswerLost(c) \/ CompensationFails(c))
     \/ mode = "serial" /\ Crash /\ ~Quiet
  /\ faults' = faults + 1
  /\ UNCHANGED <<mode, sent, flips>>

MCFlip ==
  /\ mode = "racing" /\ flips < MaxFlips
  /\ \E n \in Nodes : AliveChanges(n)
  /\ flips' = flips + 1
  /\ UNCHANGED <<mode, sent, faults>>

MCNext ==
  \/ \E c \in Clients, s \in Statements : MCStart(c, s)
  \/ (\E c \in Clients : Step(c)) /\ UNCHANGED <<mode, sent, faults, flips>>
  \/ MCFault
  \/ MCFlip

MCSpec == MCInit /\ [][MCNext]_mcVars

\* With one client at a time the registry always follows the catalog
\* (refresh_catalog_after_ddl at the end of every successful statement).
SerialRegistryIsCurrent == mode = "serial" => RegistryIsCurrent
=============================================================================
