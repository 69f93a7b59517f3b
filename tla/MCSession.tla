----------------------------- MODULE MCSession ------------------------------
(***************************************************************************)
(* Two tables over two node sets: t1 has shards a and b, on different      *)
(* nodes, and t2 has shard c, on the nodes of a.                           *)
(***************************************************************************)
EXTENDS Session

TwoTables == [s \in {"a", "b", "c"} |-> IF s = "c" THEN "t2" ELSE "t1"]
TwoGroups == [s \in {"a", "b", "c"} |-> IF s = "b" THEN "nodes2" ELSE "nodes1"]
SomePlans == {<<"c">>, <<"a", "b">>}

\* What COMMIT answers is what happened to the block's writes, and without
\* allow_cross_shard_transactions that is all or nothing (flush_transaction;
\* CommitReplyIsTrue, CommitIsAtomic); a failed statement outside a block leaves
\* the connection idle (TypeOK).
CommitIsTrue == TypeOK /\ CommitReplyIsTrue /\ CommitIsAtomic
=============================================================================
