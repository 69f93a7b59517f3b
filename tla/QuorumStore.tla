---------------------------- MODULE QuorumStore -----------------------------
(***************************************************************************)
(* What one shard's replicated writes promise a client, with the fan-out,  *)
(* the retries, the caches and the faults left out: copies of a write only *)
(* accumulate, and a write is reported committed only in a state where a   *)
(* quorum has copies of it.  A write reported as failed may still have     *)
(* copies, and may still gain some: the store promises nothing about it,   *)
(* which is exactly what the code can promise.                             *)
(***************************************************************************)
CONSTANTS
  Nodes,      \* the nodes that hold the shard
  Quorums,    \* the sets of nodes whose copies make a write durable
  Writes      \* write ids

VARIABLES
  copies,     \* copies[w]: the nodes that hold write w
  answer      \* answer[w]: what the client has been told

storeVars == <<copies, answer>>

StoreInit ==
  /\ copies = [w \in Writes |-> {}]
  /\ answer = [w \in Writes |-> "open"]

\* A copy of w appears on one node.
Land(w, n) ==
  /\ copies' = [copies EXCEPT ![w] = @ \cup {n}]
  /\ UNCHANGED answer

\* The client is told w is committed.
Commit(w) ==
  /\ answer[w] = "open"
  /\ \E Q \in Quorums : Q \subseteq copies[w]
  /\ answer' = [answer EXCEPT ![w] = "committed"]
  /\ UNCHANGED copies

\* The client is told w failed, or never hears.  Several writes fail together
\* when the coordinator stops.
Abort(W) ==
  /\ \A w \in W : answer[w] = "open"
  /\ answer' = [w \in Writes |-> IF w \in W THEN "failed" ELSE answer[w]]
  /\ UNCHANGED copies

StoreNext ==
  \/ \E w \in Writes : Commit(w) \/ \E n \in Nodes : Land(w, n)
  \/ \E W \in SUBSET Writes : Abort(W)

StoreSpec == StoreInit /\ [][StoreNext]_storeVars
=============================================================================
