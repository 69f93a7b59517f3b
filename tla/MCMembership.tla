---------------------------- MODULE MCMembership ----------------------------
(***************************************************************************)
(* Instances of Membership for TLC.  In a faulty run up to MaxFaults       *)
(* things go wrong; in a timely one nothing does and heartbeats keep their *)
(* interval.                                                               *)
(***************************************************************************)
EXTENDS Membership

CONSTANTS MaxFaults, Interval

VARIABLES
  timely,  \* whether this is a timely run
  faults,  \* faults so far
  since    \* since[n]: in a timely run, seconds since n sent a heartbeat

mcVars == <<vars, timely, faults, since>>

MCInit == Init /\ timely \in BOOLEAN /\ faults = 0 /\ since = [n \in Nodes |-> 0]

FaultyNext ==
  /\ ~timely
  /\ UNCHANGED <<timely, since>>
  /\ \/ (Step \/ \E n \in Nodes : NodeStarts(n)) /\ UNCHANGED faults
     \/ faults < MaxFaults /\ Fault /\ faults' = faults + 1

\* A heartbeat is handled within the second it is sent in, and a node with a
\* stream sends one every Interval seconds.
OnTime(n) ==
  /\ ~beat[n] /\ \A w \in Writers : pending[w][n] = NoRecord
  /\ client[n] = "session" => since[n] < Interval
  /\ client[n] # "loop"

TimelyNext ==
  /\ timely
  /\ UNCHANGED <<timely, faults>>
  /\ \/ /\ \A n \in Nodes : OnTime(n)
        /\ Tick
        /\ since' = [n \in Nodes |-> IF client[n] = "session" THEN since[n] + 1 ELSE 0]
     \/ \E n \in Nodes : SendHeartbeat(n) /\ since' = [since EXCEPT ![n] = 0]
     \/ /\ Scan \/ \E n \in Nodes : Coordinator(n) \/ Register(n) \/ Attach(n)
                                     \/ RegisterRequested(n) \/ NodeStarts(n)
        /\ UNCHANGED since

MCNext == FaultyNext \/ TimelyNext

MCSpec == MCInit /\ [][MCNext]_mcVars
FairSpec == MCSpec /\ Progress

\* In the timely runs the detector never demotes a node whose heartbeats keep their
\* interval (failure_thresholds, check_and_update_statuses; HealthyStaysAlive);
\* in every run it has verdicts only for nodes with a record (TypeOK).
TimelyStaysAlive == TypeOK /\ (timely => HealthyStaysAlive)

\* After the last fault the catalog follows the nodes: one that runs is known for
\* good (RunningIsKnown), one whose stream stays up is Alive again and again
\* (HeartbeatingIsRestored), one that stays down is declared dead for good
\* (DownIsDetected).
CatalogFollowsNodes == RunningIsKnown /\ HeartbeatingIsRestored /\ DownIsDetected
=============================================================================
