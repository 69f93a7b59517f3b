--------------------------- MODULE MCReplication ----------------------------
(***************************************************************************)
(* Replication with a bounded number of faults of chosen kinds, so that    *)
(* TLC's state space is finite and, for the liveness runs, the faults end. *)
(***************************************************************************)
EXTENDS Replication, TLC

CONSTANTS
  Kinds,      \* the kinds of faults of this run, a subset of FaultKinds
  MaxFaults,  \* how many of them may happen
  Slow        \* nodes whose handlers and writer thread may stall forever

ASSUME Kinds \subseteq FaultKinds

VARIABLES
  faults,  \* faults so far
  used     \* their kinds

\* The replicas are interchangeable, and so are the writes.
Symmetry == Permutations(Nodes \ {Primary}) \cup Permutations(Writes)

mcVars == <<vars, faults, used>>

MCInit == Init /\ faults = 0 /\ used = {}

FaultStep ==
  /\ faults < MaxFaults
  /\ faults' = faults + 1
  /\ \E kind \in Kinds : Fault(kind) /\ used' = used \cup {kind}

MCNext ==
  \/ Step /\ UNCHANGED <<faults, used>>
  \/ FaultStep

MCSpec == MCInit /\ [][MCNext]_mcVars

FairSpec ==
  /\ MCSpec
  /\ CoordinatorFairness
  /\ \A n \in Nodes \ Slow : NodeFairness(n)

\* The dedup cache keeps every write to one execution per node when calls are lost
\* on the way or their replies are, and when statements fail; only a process that
\* ends, a handler that is dropped, or an evicted entry can make it run again
\* (execute_write, DedupCache).
DedupHolds ==
  used \subseteq {"request", "ok", "statement"} /\ Cardinality(Writes) <= DedupCapacity
    => AtMostOnce
=============================================================================
