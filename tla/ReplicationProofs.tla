------------------------- MODULE ReplicationProofs --------------------------
(***************************************************************************)
(* Proofs about Replication, for any number of nodes, writes and faults.   *)
(***************************************************************************)
EXTENDS Replication, FiniteSetTheorems, TLAPS

USE DEF coordVars, nodeVars, vars

\* Marking the callers of some entries as gone leaves a queue of the same type.
LEMMA QueueWithoutType ==
  ASSUME NEW q \in Seq(Entries), NEW W, NEW mode \in {"unheard", "dropped"}
  PROVE  QueueWithout(q, W, mode) \in Seq(Entries)
<1>1. Len(q) \in Nat
  OBVIOUS
<1>2. \A i \in 1..Len(q) : QueueWithout(q, W, mode)[i] \in Entries
  <2> SUFFICES ASSUME NEW i \in 1..Len(q) PROVE QueueWithout(q, W, mode)[i] \in Entries
    OBVIOUS
  <2>1. q[i] \in Entries
    OBVIOUS
  <2> QED
    BY <2>1 DEF QueueWithout, Entries, Modes
<1>3. QueueWithout(q, W, mode) \in [1..Len(q) -> Entries]
  BY <1>2 DEF QueueWithout
<1> QED
  BY <1>1, <1>3

\* The same for the handlers that wait to record their result.
LEMMA FinishingWithoutType ==
  ASSUME NEW F \in SUBSET Handled, NEW W, NEW mode \in {"unheard", "dropped"}
  PROVE  FinishingWithout(F, W, mode) \in SUBSET Handled
BY DEF FinishingWithout, Handled

\* The cache's insert keeps its entries well formed.
LEMMA CacheInsertType ==
  ASSUME NEW c \in Seq(Cached), NEW id \in Writes, NEW ok \in BOOLEAN
  PROVE  CacheInsert(c, id, ok, DedupCapacity) \in Seq(Cached)
<1> DEFINE kept == IF Len(c) >= DedupCapacity /\ c # << >> THEN Tail(c) ELSE c
<1>1. [id |-> id, ok |-> ok] \in Cached
  BY DEF Cached
<1>2. kept \in Seq(Cached)
  OBVIOUS
<1>3. Append(kept, [id |-> id, ok |-> ok]) \in Seq(Cached)
  BY <1>1, <1>2
<1>4. CacheInsert(c, id, ok, DedupCapacity) \in {c, Append(kept, [id |-> id, ok |-> ok])}
  BY DEF CacheInsert
<1> QED
  BY <1>3, <1>4

\* push_pending_retry keeps the queues and the record of dropped writes typed.
LEMMA PushPendingType ==
  ASSUME TypeOK, NEW S, NEW w \in Writes, PushPending(S, w)
  PROVE  pending' \in [Nodes -> Seq(Writes)] /\ forgotten' \in [Nodes -> SUBSET Writes]
<1>1. \A n \in Nodes : pending[n] \in Seq(Writes) /\ Append(pending[n], w) \in Seq(Writes)
  BY DEF TypeOK
<1>2. pending' \in [Nodes -> Seq(Writes)]
  BY <1>1 DEF PushPending
<1>3. forgotten' \in [Nodes -> SUBSET Writes]
  BY DEF PushPending, TypeOK
<1> QED
  BY <1>2, <1>3

\* Each action keeps every variable within its type.
LEMMA TypeStep == TypeOK /\ [Next]_vars => TypeOK'
<1> SUFFICES ASSUME TypeOK, [Next]_vars PROVE TypeOK'
  OBVIOUS
<1> USE DEF TypeOK, FanStates, RpcStates
<1>1. ASSUME NEW w \in Writes, FanOut(w) PROVE TypeOK'
  <2> PICK addressed \in AddressMaps :
        \/ fan' = [fan EXCEPT ![w] = "unavailable"] /\ UNCHANGED <<targets, rpc>>
        \/ /\ fan' = [fan EXCEPT ![w] = "waiting"]
           /\ targets' = [targets EXCEPT ![w] = addressed]
           /\ rpc' = [n \in Nodes |-> IF n \in addressed
                        THEN [rpc[n] EXCEPT ![w] = "request"] ELSE rpc[n]]
    BY Zenon, <1>1 DEF FanOut
  <2>1. addressed \subseteq Nodes
    BY AddressAssumption
  <2>2. \A n \in Nodes : [rpc[n] EXCEPT ![w] = "request"] \in [Writes -> RpcStates]
    OBVIOUS
  <2>3. fan' \in [Writes -> FanStates] /\ targets' \in [Writes -> SUBSET Nodes]
    BY ZenonT(30), <2>1
  <2>4. rpc' \in [Nodes -> [Writes -> RpcStates]]
    <3> DEFINE sent(n) == IF n \in addressed THEN [rpc[n] EXCEPT ![w] = "request"]
                          ELSE rpc[n]
    <3>1. \A n \in Nodes : sent(n) \in [Writes -> RpcStates]
      BY <2>2
    <3>2. rpc' = [n \in Nodes |-> sent(n)] \/ rpc' = rpc
      OBVIOUS
    <3> HIDE DEF sent, RpcStates
    <3> QED
      BY <3>1, <3>2
  <2> QED
    BY <1>1, <2>3, <2>4 DEF FanOut
<1>2. ASSUME NEW w \in Writes, Decide(w) PROVE TypeOK'
  <2>1. pending' \in [Nodes -> Seq(Writes)] /\ forgotten' \in [Nodes -> SUBSET Writes]
    BY <1>2, PushPendingType DEF Decide
  <2>2. fan' \in [Writes -> FanStates]
    BY Zenon, <1>2 DEF Decide
  <2> QED
    BY <1>2, <2>1, <2>2 DEF Decide
<1>3. ASSUME RetryTick PROVE TypeOK'
  BY <1>3 DEF RetryTick, Popped
<1>4. ASSUME NEW n \in Nodes, NEW w \in Writes, Collect(n, w) PROVE TypeOK'
  BY <1>4 DEF Collect
<1>5. ASSUME NEW n \in Nodes, NEW w \in Writes, Resend(n, w) PROVE TypeOK'
  BY <1>5 DEF Resend
<1>6. ASSUME NEW n \in Nodes, NEW w \in Writes, ResendDone(n, w) PROVE TypeOK'
  <2>1. pending' \in [Nodes -> Seq(Writes)] /\ forgotten' \in [Nodes -> SUBSET Writes]
    BY <1>6, PushPendingType DEF ResendDone
  <2>2. resend' \in [Nodes -> SUBSET Writes] /\ rpc' \in [Nodes -> [Writes -> RpcStates]]
    BY <1>6 DEF ResendDone
  <2> QED
    BY <1>6, <2>1, <2>2 DEF ResendDone
<1>7. ASSUME NEW n \in Nodes, MarkDead(n) \/ MarkAlive(n) \/ NodeRestart(n)
      PROVE  TypeOK'
  BY Zenon, <1>7 DEF MarkDead, MarkAlive, NodeRestart
<1>8. ASSUME NEW n \in Nodes, NEW w \in Writes, Receive(n, w) PROVE TypeOK'
  <2>1. [write |-> w, mode |-> "heard"] \in Entries
    BY DEF Entries, Modes
  <2>2. queue' \in [Nodes -> Seq(Entries)]
    <3>1. Append(queue[n], [write |-> w, mode |-> "heard"]) \in Seq(Entries)
      BY <2>1
    <3> QED
      BY Zenon, <1>8, <3>1 DEF Receive
  <2>3. rpc' \in [Nodes -> [Writes -> RpcStates]]
    <3>1. PICK r \in RpcStates : rpc' = [rpc EXCEPT ![n][w] = r]
      BY <1>8 DEF Receive
    <3> QED
      BY <3>1
  <2> QED
    BY <1>8, <2>2, <2>3 DEF Receive
<1>9. ASSUME NEW n \in Nodes, NEW ok \in BOOLEAN, Execute(n, ok) PROVE TypeOK'
  <2> DEFINE e == Head(queue[n])
  <2>1. e \in Entries /\ Tail(queue[n]) \in Seq(Entries)
    BY <1>9 DEF Execute
  <2>2. e.write \in Writes /\ e.mode \in Modes
    BY <2>1 DEF Entries
  <2> HIDE DEF e
  <2>3. applied' \in [Nodes -> Seq(Writes)]
    <3>1. Append(applied[n], e.write) \in Seq(Writes)
      BY <2>2
    <3> QED
      BY <1>9, <3>1 DEF Execute, e
  <2>4. finishing' \in [Nodes -> SUBSET Handled]
    <3>1. e.mode # "dropped" => [write |-> e.write, ok |-> ok, mode |-> e.mode] \in Handled
      BY <2>2 DEF Handled, Modes
    <3> QED
      BY <1>9, <3>1 DEF Execute, e
  <2>5. queue' \in [Nodes -> Seq(Entries)]
    BY <1>9, <2>1 DEF Execute
  <2> QED
    BY <1>9, <2>3, <2>4, <2>5 DEF Execute
<1>10. ASSUME NEW n \in Nodes, NEW h \in finishing[n], Finish(n, h) PROVE TypeOK'
  <2>1. h.write \in Writes /\ h.ok \in BOOLEAN
    BY DEF Handled
  <2>2. CacheInsert(cache[n], h.write, h.ok, DedupCapacity) \in Seq(Cached)
    BY Zenon, <2>1, CacheInsertType
  <2>3. cache' \in [Nodes -> Seq(Cached)]
    BY <1>10, <2>2 DEF Finish
  <2>4. rpc' \in [Nodes -> [Writes -> RpcStates]]
    BY <1>10, <2>1 DEF Finish
  <2> QED
    BY <1>10, <2>3, <2>4 DEF Finish
<1>11. ASSUME NEW n \in Nodes, NEW w \in Writes, Refuse(n, w) PROVE TypeOK'
  BY <1>11 DEF Refuse
<1>12. ASSUME NEW n \in Nodes, NEW w \in Writes, NEW stage, Break(n, w, stage)
       PROVE  TypeOK'
  <2> PICK mode \in {"unheard", "dropped"} :
        /\ queue' = [queue EXCEPT ![n] = QueueWithout(@, {w}, mode)]
        /\ finishing' = [finishing EXCEPT ![n] = FinishingWithout(@, {w}, mode)]
    BY Zenon, <1>12 DEF Break
  <2>1. queue' \in [Nodes -> Seq(Entries)]
    BY QueueWithoutType
  <2>2. finishing' \in [Nodes -> SUBSET Handled]
    BY Zenon, FinishingWithoutType
  <2> QED
    BY Zenon, <1>12, <2>1, <2>2 DEF Break
<1>13. ASSUME NEW n \in Nodes, NodeCrash(n) PROVE TypeOK'
  BY <1>13 DEF NodeCrash
<1>14. ASSUME CoordinatorCrash PROVE TypeOK'
  <2> PICK mode \in {"unheard", "dropped"} :
        /\ queue' = [n \in Nodes |-> QueueWithout(queue[n], Writes, mode)]
        /\ finishing' = [n \in Nodes |-> FinishingWithout(finishing[n], Writes, mode)]
    BY <1>14 DEF CoordinatorCrash
  <2>1. queue' \in [Nodes -> Seq(Entries)]
    BY QueueWithoutType
  <2>2. finishing' \in [Nodes -> SUBSET Handled]
    BY Zenon, FinishingWithoutType
  <2>3. forgotten' \in [Nodes -> SUBSET Writes]
    BY <1>14 DEF CoordinatorCrash
  <2>4. fan' \in [Writes -> FanStates] /\ rpc' \in [Nodes -> [Writes -> RpcStates]]
    BY <1>14 DEF CoordinatorCrash
  <2>5. pending' \in [Nodes -> Seq(Writes)] /\ resend' \in [Nodes -> SUBSET Writes]
    BY <1>14 DEF CoordinatorCrash
  <2> QED
    BY <1>14, <2>1, <2>2, <2>3, <2>4, <2>5 DEF CoordinatorCrash
<1>15. CASE UNCHANGED vars
  BY <1>15
<1> QED
  BY Zenon, <1>1, <1>2, <1>3, <1>4, <1>5, <1>6, <1>7, <1>8, <1>9, <1>10, <1>11, <1>12,
     <1>13, <1>14, <1>15 DEF Next, Step, Fault

\* Every state of every behaviour is well typed: no handler, retry or fault
\* leaves a piece of the program's state outside what its type allows.
THEOREM TypeCorrect == Spec => []TypeOK
<1>1. Init => TypeOK
  BY DEF Init, TypeOK, FanStates, RpcStates
<1> QED
  BY <1>1, TypeStep, PTL DEF Spec

-----------------------------------------------------------------------------
\* Only the writer thread changes a node's file.
LEMMA AppliedFrame ==
  ASSUME [Next]_vars
  PROVE  UNCHANGED applied \/ \E m \in Nodes, ok \in BOOLEAN : Execute(m, ok)
BY ZenonT(30) DEF Next, Step, Fault, FanOut, Decide, RetryTick, Collect, Resend, ResendDone,
       MarkDead, MarkAlive, NodeRestart, Receive, Finish, Refuse, Break, NodeCrash,
       CoordinatorCrash

\* No step takes a write out of a node's file.
LEMMA HoldsIsStable ==
  ASSUME TypeOK, [Next]_vars, NEW n \in Nodes, NEW w \in Writes, Holds(n, w)
  PROVE  Holds(n, w)'
<1>1. ASSUME NEW m \in Nodes, NEW ok \in BOOLEAN, Execute(m, ok) PROVE Holds(n, w)'
  <2>1. applied[n] \in Seq(Writes)
    BY DEF TypeOK
  <2>2. applied'[n] = applied[n] \/ applied'[n] = Append(applied[n], Head(queue[n]).write)
    BY <1>1 DEF Execute, TypeOK
  <2>3. PICK i \in 1..Len(applied[n]) : applied[n][i] = w
    BY DEF Holds
  <2>4. i \in 1..Len(applied'[n]) /\ applied'[n][i] = applied[n][i]
    BY <2>1, <2>2
  <2> QED
    BY <2>3, <2>4 DEF Holds
<1>2. CASE UNCHANGED applied
  BY <1>2 DEF Holds
<1> QED
  BY <1>1, <1>2, AppliedFrame

\* Which actions change a node's handlers, its cache, and the fan-out's results.
LEMMA Frames ==
  ASSUME [Next]_vars
  PROVE  /\ \/ UNCHANGED finishing
            \/ \E m \in Nodes, ok \in BOOLEAN : Execute(m, ok)
            \/ \E m \in Nodes : \E h \in finishing[m] : Finish(m, h)
            \/ \E m \in Nodes, v \in Writes, kind \in FaultKinds : Break(m, v, kind)
            \/ \E m \in Nodes : NodeCrash(m)
            \/ CoordinatorCrash
         /\ \/ UNCHANGED cache
            \/ \E m \in Nodes : \E h \in finishing[m] : Finish(m, h)
            \/ \E m \in Nodes : NodeCrash(m)
         /\ \/ UNCHANGED outcome
            \/ \E m \in Nodes, v \in Writes : Collect(m, v)
<1>1. ASSUME NEW w \in Writes, FanOut(w) \/ Decide(w) PROVE UNCHANGED <<finishing, cache, outcome>>
  BY <1>1 DEF FanOut, Decide
<1>2. ASSUME RetryTick PROVE UNCHANGED <<finishing, cache, outcome>>
  BY <1>2 DEF RetryTick
<1>3. ASSUME NEW n \in Nodes, MarkDead(n) \/ MarkAlive(n) \/ NodeRestart(n)
      PROVE  UNCHANGED <<finishing, cache, outcome>>
  BY <1>3 DEF MarkDead, MarkAlive, NodeRestart
<1>4. ASSUME NEW n \in Nodes, NEW w \in Writes,
             Resend(n, w) \/ ResendDone(n, w) \/ Receive(n, w) \/ Refuse(n, w)
      PROVE  UNCHANGED <<finishing, cache, outcome>>
  BY <1>4 DEF Resend, ResendDone, Receive, Refuse
<1>5. ASSUME NEW n \in Nodes, NEW w \in Writes, Collect(n, w)
      PROVE  UNCHANGED <<finishing, cache>>
  BY <1>5 DEF Collect
<1>6. ASSUME NEW n \in Nodes, NEW ok \in BOOLEAN, Execute(n, ok)
      PROVE  UNCHANGED <<cache, outcome>>
  BY <1>6 DEF Execute
<1>7. ASSUME NEW n \in Nodes, NEW w \in Writes, NEW kind, Break(n, w, kind)
      PROVE  UNCHANGED <<cache, outcome>>
  BY <1>7 DEF Break
<1>8. ASSUME CoordinatorCrash PROVE UNCHANGED <<cache, outcome>>
  BY <1>8 DEF CoordinatorCrash
<1>9. ASSUME NEW n \in Nodes, NodeCrash(n) \/ \E h \in finishing[n] : Finish(n, h)
      PROVE  UNCHANGED outcome
  BY <1>9 DEF NodeCrash, Finish
<1>10. CASE Step
  BY Zenon, <1>10, <1>1, <1>2, <1>3, <1>4, <1>5, <1>6, <1>9 DEF Step
<1>11. ASSUME NEW kind \in FaultKinds, Fault(kind)
       PROVE  \/ \E m \in Nodes, v \in Writes : Break(m, v, kind)
              \/ \E m \in Nodes : Execute(m, FALSE) \/ NodeCrash(m)
              \/ CoordinatorCrash
  BY Zenon, <1>11 DEF Fault
<1>12. CASE \E kind \in FaultKinds : Fault(kind)
  BY Zenon, <1>12, <1>11, <1>6, <1>7, <1>8, <1>9
<1>13. CASE UNCHANGED vars
  BY <1>13
<1> QED
  BY <1>10, <1>12, <1>13 DEF Next

\* What a handler without a caller is about to record is what it was before.
LEMMA FinishingWithoutKeeps ==
  ASSUME NEW F \in SUBSET Handled, NEW W, NEW mode, NEW h \in FinishingWithout(F, W, mode)
  PROVE  \E g \in F : g.write = h.write /\ g.ok = h.ok
BY DEF FinishingWithout

\* An answer from the cache is the result of one of its entries for that id.
LEMMA CachedResultIsEntry ==
  ASSUME NEW c \in Seq(Cached), NEW w \in CachedIds(c)
  PROVE  \E i \in 1..Len(c) : c[i].id = w /\ c[i].ok = CachedResult(c, w)
<1> DEFINE found == CHOOSE i \in DOMAIN c : c[i].id = w
<1>1. \E i \in DOMAIN c : c[i].id = w
  BY DEF CachedIds
<1>2. found \in DOMAIN c /\ c[found].id = w
  BY <1>1
<1>3. DOMAIN c = 1..Len(c)
  OBVIOUS
<1>4. CachedResult(c, w) = c[found].ok
  BY DEF CachedResult
<1> HIDE DEF found
<1> QED
  BY <1>2, <1>3, <1>4

\* An insert adds at most the new entry.
LEMMA CacheInsertEntries ==
  ASSUME NEW c \in Seq(Cached), NEW id \in Writes, NEW ok \in BOOLEAN,
         NEW i \in 1..Len(CacheInsert(c, id, ok, DedupCapacity))
  PROVE  LET e == CacheInsert(c, id, ok, DedupCapacity)[i]
         IN e = [id |-> id, ok |-> ok] \/ \E j \in 1..Len(c) : e = c[j]
<1> DEFINE kept == IF Len(c) >= DedupCapacity /\ c # << >> THEN Tail(c) ELSE c
           new == [id |-> id, ok |-> ok]
<1>1. new \in Cached /\ kept \in Seq(Cached)
  BY DEF Cached
<1>2. \A j \in 1..Len(kept) : \E k \in 1..Len(c) : kept[j] = c[k]
  OBVIOUS
<1>3. CacheInsert(c, id, ok, DedupCapacity) \in {c, Append(kept, new)}
  BY DEF CacheInsert
<1> HIDE DEF kept, new
<1>4. \A j \in 1..Len(Append(kept, new)) :
        Append(kept, new)[j] = new \/ \E k \in 1..Len(c) : Append(kept, new)[j] = c[k]
  BY <1>1, <1>2
<1> QED
  BY <1>3, <1>4 DEF new

\* Every action keeps the reported successes true.
LEMMA RepliesStep ==
  ASSUME TypeOK, RepliesAreTrue, [Next]_vars
  PROVE  RepliesAreTrue'
<1> DEFINE OnWire    == \A n \in Nodes, w \in Writes : rpc[n][w] = "ok" => Holds(n, w)
           ToCache   == \A n \in Nodes : \A h \in finishing[n] : h.ok => Holds(n, h.write)
           InCache   == \A n \in Nodes : \A i \in 1..Len(cache[n]) :
                          cache[n][i].ok => Holds(n, cache[n][i].id)
           Collected == \A n \in Nodes, w \in Writes : outcome[w][n] = "ok" => Holds(n, w)
<1>0. OnWire /\ ToCache /\ InCache /\ Collected
  BY DEF RepliesAreTrue
<1>a. TypeOK'
  BY TypeStep
<1>b. \A n \in Nodes : \A h \in finishing[n] : h.write \in Writes /\ h.ok \in BOOLEAN
  BY DEF TypeOK, Handled
<1>1. OnWire'
  <2> SUFFICES ASSUME NEW n \in Nodes, NEW w \in Writes, rpc'[n][w] = "ok"
               PROVE  Holds(n, w)'
    OBVIOUS
  <2>1. CASE rpc[n][w] = "ok"
    BY <2>1, <1>0, HoldsIsStable
  <2>2. CASE rpc[n][w] # "ok"
    <3>1. Receive(n, w) \/ \E h \in finishing[n] : Finish(n, h)
      <4>1. ASSUME NEW m \in Nodes, NEW v \in Writes, NEW r,
                   rpc' = [rpc EXCEPT ![m][v] = r], r # "ok"
            PROVE  FALSE
        BY <2>2, <4>1 DEF TypeOK
      <4>2. ~\E v \in Writes : FanOut(v)
        <5> SUFFICES ASSUME NEW v \in Writes, FanOut(v) PROVE FALSE
          OBVIOUS
        <5>1. rpc'[n] \in {rpc[n], [rpc[n] EXCEPT ![v] = "request"]}
          BY DEF FanOut
        <5> QED
          BY <2>2, <5>1 DEF TypeOK
      <4>3. ~\E m \in Nodes, v \in Writes : \/ Collect(m, v) \/ Resend(m, v) \/ Refuse(m, v)
                                            \/ ResendDone(m, v)
                                            \/ \E kind \in FaultKinds : Break(m, v, kind)
        <5> SUFFICES ASSUME NEW m \in Nodes, NEW v \in Writes,
                            \/ Collect(m, v) \/ Resend(m, v) \/ Refuse(m, v)
                            \/ ResendDone(m, v) \/ \E kind \in FaultKinds : Break(m, v, kind)
                     PROVE  FALSE
          OBVIOUS
        <5>1. \E r \in {"none", "request", "err"} : rpc' = [rpc EXCEPT ![m][v] = r]
          BY DEF Collect, Resend, ResendDone, Refuse, Break
        <5> QED
          BY Zenon, <4>1, <5>1
      <4>4. ~CoordinatorCrash /\ ~\E m \in Nodes : NodeCrash(m)
        <5>1. ~CoordinatorCrash
          BY DEF CoordinatorCrash
        <5>2. ASSUME NEW m \in Nodes, NodeCrash(m) PROVE FALSE
          <6>1. m # n => rpc'[n] = rpc[n]
            BY <5>2 DEF NodeCrash, TypeOK
          <6>2. m = n => rpc'[n][w] \in {"err", rpc[n][w]}
            BY <5>2 DEF NodeCrash, TypeOK
          <6> QED
            BY <2>2, <6>1, <6>2
        <5> QED
          BY <5>1, <5>2
      <4>5. rpc' # rpc
        BY <2>2
      <4>6. \E m \in Nodes : \/ \E v \in Writes : Receive(m, v)
                             \/ \E h \in finishing[m] : Finish(m, h)
        <5>1. ~\E v \in Writes : Decide(v)
          BY <4>5 DEF Decide
        <5>2. ~RetryTick
          BY <4>5 DEF RetryTick
        <5>3. ~\E m \in Nodes : MarkDead(m) \/ MarkAlive(m) \/ NodeRestart(m)
          BY <4>5 DEF MarkDead, MarkAlive, NodeRestart
        <5>4. ~\E m \in Nodes, ok \in BOOLEAN : Execute(m, ok)
          BY <4>5 DEF Execute
        <5>5. Next
          BY <4>5
        <5>6. ~\E kind \in FaultKinds : Fault(kind)
          BY Zenon, <4>3, <4>4, <5>4 DEF Fault
        <5> QED
          BY ZenonT(30), <4>2, <4>3, <5>1, <5>2, <5>3, <5>4, <5>5, <5>6 DEF Next, Step
      <4>7. ASSUME NEW m \in Nodes, NEW v \in Writes, Receive(m, v) PROVE m = n /\ v = w
        <5>1. \E r : rpc' = [rpc EXCEPT ![m][v] = r]
          BY <4>7 DEF Receive
        <5> QED
          BY <2>2, <5>1 DEF TypeOK
      <4>8. ASSUME NEW m \in Nodes, NEW h \in finishing[m], Finish(m, h) PROVE m = n
        <5>1. \E r : rpc' = [rpc EXCEPT ![m][h.write] = r]
          BY Zenon, <4>8 DEF Finish
        <5> QED
          BY <2>2, <5>1, <1>b DEF TypeOK
      <4> QED
        BY <4>6, <4>7, <4>8
    <3>2. CASE Receive(n, w)
      <4>1. w \in CachedIds(cache[n]) /\ CachedResult(cache[n], w) = TRUE
        BY <2>2, <3>2 DEF Receive, TypeOK
      <4>2. cache[n] \in Seq(Cached)
        BY DEF TypeOK
      <4>3. PICK i \in 1..Len(cache[n]) : cache[n][i].id = w /\ cache[n][i].ok = TRUE
        BY <4>1, <4>2, CachedResultIsEntry
      <4>4. Holds(n, w)
        BY <4>3, <1>0
      <4> QED
        BY <4>4, HoldsIsStable
    <3>3. ASSUME NEW h \in finishing[n], Finish(n, h) PROVE Holds(n, w)'
      <4>1. h.write = w /\ h.ok
        BY <2>2, <3>3, <1>b DEF Finish, TypeOK
      <4> QED
        BY <4>1, <1>0, HoldsIsStable
    <3> QED
      BY <3>1, <3>2, <3>3
  <2> QED
    BY <2>1, <2>2
<1>2. ToCache'
  <2> SUFFICES ASSUME NEW n \in Nodes, NEW h \in finishing'[n] PROVE h.ok => Holds(n, h.write)'
    OBVIOUS
  <2>1. h.write \in Writes
    BY <1>a DEF TypeOK, Handled
  <2>2. ASSUME NEW g \in finishing[n], g.write = h.write, g.ok = h.ok
        PROVE  h.ok => Holds(n, h.write)'
    BY Zenon, <2>1, <2>2, <1>0, HoldsIsStable
  <2>3. ASSUME NEW m \in Nodes, NEW ok \in BOOLEAN, Execute(m, ok), h \notin finishing[n]
        PROVE  h.ok => Holds(n, h.write)'
    <3> DEFINE e == Head(queue[n])
    <3>1. m = n /\ h = [write |-> e.write, ok |-> ok, mode |-> e.mode]
      BY SMTT(30), <2>3 DEF Execute, TypeOK
    <3>2. h.ok => applied'[n] = Append(applied[n], h.write)
      BY <2>3, <3>1 DEF Execute, TypeOK
    <3>3. applied[n] \in Seq(Writes)
      BY DEF TypeOK
    <3> QED
      BY <2>1, <3>2, <3>3 DEF Holds
  <2>4. ASSUME NEW m \in Nodes, NEW v \in Writes, NEW kind \in FaultKinds, Break(m, v, kind)
        PROVE  h.ok => Holds(n, h.write)'
    <3>1. PICK mode :
            finishing' = [finishing EXCEPT ![m] = FinishingWithout(finishing[m], {v}, mode)]
      BY Zenon, <2>4 DEF Break
    <3>2. finishing[n] \in SUBSET Handled /\ finishing \in [Nodes -> SUBSET Handled]
      BY DEF TypeOK
    <3>3. h \in finishing[n] \/ h \in FinishingWithout(finishing[n], {v}, mode)
      BY <3>1, <3>2
    <3>4. \E g \in finishing[n] : g.write = h.write /\ g.ok = h.ok
      BY <3>2, <3>3, FinishingWithoutKeeps
    <3> QED
      BY Zenon, <3>4, <2>2
  <2>5. ASSUME CoordinatorCrash PROVE h.ok => Holds(n, h.write)'
    <3>1. PICK mode : h \in FinishingWithout(finishing[n], Writes, mode)
      BY <2>5 DEF CoordinatorCrash
    <3>2. finishing[n] \in SUBSET Handled
      BY DEF TypeOK
    <3>3. \E g \in finishing[n] : g.write = h.write /\ g.ok = h.ok
      BY <3>1, <3>2, FinishingWithoutKeeps
    <3> QED
      BY Zenon, <3>3, <2>2
  <2>6. ASSUME NEW m \in Nodes, NodeCrash(m) PROVE h \in finishing[n]
    BY <2>6 DEF NodeCrash, TypeOK
  <2>7. ASSUME NEW m \in Nodes, NEW g \in finishing[m], Finish(m, g) PROVE h \in finishing[n]
    BY <2>7 DEF Finish, TypeOK
  <2> QED
    BY ZenonT(30), <2>2, <2>3, <2>4, <2>5, <2>6, <2>7, Frames
<1>3. InCache'
  <2> SUFFICES ASSUME NEW n \in Nodes, NEW i \in 1..Len(cache'[n]), NEW e \in Cached,
                      cache'[n][i] = e, e.ok
               PROVE  Holds(n, e.id)'
    <3>1. \A n \in Nodes : cache'[n] \in Seq(Cached)
      BY <1>a DEF TypeOK
    <3> QED
      BY <3>1
  <2>1. e.id \in Writes /\ cache[n] \in Seq(Cached)
    BY Zenon DEF TypeOK, Cached
  <2>2. SUFFICES Holds(n, e.id)
    BY <2>1, HoldsIsStable
  <2>3. CASE cache'[n] = cache[n]
    BY <2>3, <1>0
  <2>4. CASE cache'[n] = << >>
    BY <2>4
  <2>5. ASSUME NEW h \in finishing[n],
               cache'[n] = CacheInsert(cache[n], h.write, h.ok, DedupCapacity)
        PROVE  Holds(n, e.id)
    <3>1. e = [id |-> h.write, ok |-> h.ok] \/ \E j \in 1..Len(cache[n]) : e = cache[n][j]
      <4> DEFINE c == CacheInsert(cache[n], h.write, h.ok, DedupCapacity)
      <4>1. i \in 1..Len(c) /\ e = c[i]
        BY <2>5
      <4>2. c[i] = [id |-> h.write, ok |-> h.ok] \/ \E j \in 1..Len(cache[n]) : c[i] = cache[n][j]
        BY <2>1, <4>1, <1>b, CacheInsertEntries
      <4> QED
        BY <4>1, <4>2
    <3> QED
      BY <3>1, <1>0
  <2>6. ASSUME NEW m \in Nodes, NodeCrash(m) PROVE cache'[n] \in {cache[n], << >>}
    BY SMTT(30), <2>6 DEF NodeCrash, TypeOK
  <2>7. ASSUME NEW m \in Nodes, NEW h \in finishing[m], Finish(m, h), cache'[n] # cache[n]
        PROVE  m = n /\ cache'[n] = CacheInsert(cache[n], h.write, h.ok, DedupCapacity)
    BY <2>7 DEF Finish, TypeOK
  <2> QED
    BY <2>3, <2>4, <2>5, <2>6, <2>7, Frames
<1>4. Collected'
  <2> SUFFICES ASSUME NEW n \in Nodes, NEW w \in Writes, outcome'[w][n] = "ok"
               PROVE  Holds(n, w)'
    OBVIOUS
  <2>1. outcome[w][n] = "ok" \/ rpc[n][w] = "ok"
    <3>1. ASSUME NEW m \in Nodes, NEW v \in Writes, Collect(m, v)
          PROVE  outcome'[w][n] \in {outcome[w][n], rpc[n][w]}
      BY <3>1 DEF Collect, TypeOK
    <3> QED
      BY <3>1, Frames
  <2> QED
    BY <2>1, <1>0, HoldsIsStable
<1> QED
  BY <1>1, <1>2, <1>3, <1>4 DEF RepliesAreTrue

-----------------------------------------------------------------------------
\* Which actions change the answers, the retry queues and the retry tasks.
LEMMA CoordinatorFrames ==
  ASSUME [Next]_vars
  PROVE  \/ UNCHANGED <<fan, targets, pending, resend, forgotten>>
         \/ \E v \in Writes : FanOut(v) \/ Decide(v)
         \/ RetryTick
         \/ \E m \in Nodes, v \in Writes : ResendDone(m, v)
         \/ CoordinatorCrash
<1>1. ASSUME NEW n \in Nodes, MarkDead(n) \/ MarkAlive(n) \/ NodeRestart(n) \/ NodeCrash(n)
      PROVE  UNCHANGED <<fan, targets, pending, resend, forgotten>>
  BY <1>1 DEF MarkDead, MarkAlive, NodeRestart, NodeCrash
<1>2. ASSUME NEW n \in Nodes, NEW w \in Writes,
             Resend(n, w) \/ Receive(n, w) \/ Refuse(n, w) \/ Collect(n, w)
      PROVE  UNCHANGED <<fan, targets, pending, resend, forgotten>>
  BY <1>2 DEF Resend, Receive, Refuse, Collect
<1>3. ASSUME NEW n \in Nodes, NEW ok \in BOOLEAN, Execute(n, ok)
      PROVE  UNCHANGED <<fan, targets, pending, resend, forgotten>>
  BY <1>3 DEF Execute
<1>4. ASSUME NEW n \in Nodes, NEW w \in Writes, NEW kind, Break(n, w, kind)
      PROVE  UNCHANGED <<fan, targets, pending, resend, forgotten>>
  BY <1>4 DEF Break
<1>5. ASSUME NEW n \in Nodes, NEW h \in finishing[n], Finish(n, h)
      PROVE  UNCHANGED <<fan, targets, pending, resend, forgotten>>
  BY <1>5 DEF Finish
<1>6. CASE Step
  BY Zenon, <1>6, <1>1, <1>2, <1>3, <1>5 DEF Step
<1>7. ASSUME NEW kind \in FaultKinds, Fault(kind)
      PROVE  \/ \E m \in Nodes, v \in Writes : Break(m, v, kind)
             \/ \E m \in Nodes : Execute(m, FALSE) \/ NodeCrash(m)
             \/ CoordinatorCrash
  BY Zenon, <1>7 DEF Fault
<1>8. CASE \E kind \in FaultKinds : Fault(kind)
  BY Zenon, <1>8, <1>7, <1>1, <1>3, <1>4
<1>9. CASE UNCHANGED vars
  BY SMTT(30), <1>9
<1> QED
  BY <1>6, <1>8, <1>9 DEF Next

\* A committed write stays committed, with the targets and acks it had.
LEMMA AckedIsStable ==
  ASSUME TypeOK, [Next]_vars, NEW w \in Writes, fan[w] = "acked"
  PROVE  fan'[w] = "acked" /\ targets'[w] = targets[w] /\ outcome'[w] = outcome[w]
<1>1. fan'[w] = "acked" /\ targets'[w] = targets[w]
  <2>1. ASSUME NEW v \in Writes, FanOut(v)
        PROVE  fan'[w] = "acked" /\ targets'[w] = targets[w]
    BY <2>1 DEF FanOut, TypeOK
  <2>2. ASSUME NEW v \in Writes, Decide(v)
        PROVE  fan'[w] = "acked" /\ targets'[w] = targets[w]
    BY <2>2 DEF Decide, TypeOK
  <2>3. CASE RetryTick
    BY Zenon, <2>3 DEF RetryTick
  <2>4. ASSUME NEW m \in Nodes, NEW v \in Writes, ResendDone(m, v)
        PROVE  fan'[w] = "acked" /\ targets'[w] = targets[w]
    BY SMTT(30), <2>4 DEF ResendDone
  <2>5. CASE CoordinatorCrash
    BY <2>5 DEF CoordinatorCrash
  <2> QED
    BY <2>1, <2>2, <2>3, <2>4, <2>5, CoordinatorFrames
<1>2. outcome'[w] = outcome[w]
  <2>1. ASSUME NEW m \in Nodes, NEW v \in Writes, Collect(m, v) PROVE outcome'[w] = outcome[w]
    <3>1. v # w
      BY <2>1 DEF Collect
    <3> QED
      BY <2>1, <3>1 DEF Collect, TypeOK
  <2> QED
    BY <2>1, Frames
<1> QED
  BY <1>1, <1>2

\* The only way to become committed is fan_out's decision.
LEMMA AckedByDecide ==
  ASSUME TypeOK, [Next]_vars, NEW w \in Writes, fan[w] # "acked", fan'[w] = "acked"
  PROVE  /\ Decide(w)
         /\ Primary \in Acks(w) /\ Cardinality(Acks(w)) >= QuorumSize
         /\ PushPending(Lagging(w), w)
<1>1. \E v \in Writes : Decide(v)
  <2>1. ~\E v \in Writes : FanOut(v)
    BY DEF FanOut, TypeOK
  <2>2. ~RetryTick
    BY DEF RetryTick
  <2>3. ~\E m \in Nodes, v \in Writes : ResendDone(m, v)
    BY Zenon DEF ResendDone
  <2>4. ~CoordinatorCrash
    BY DEF CoordinatorCrash
  <2> QED
    BY <2>1, <2>2, <2>3, <2>4, CoordinatorFrames
<1>2. PICK v \in Writes : Decide(v)
  BY <1>1
<1>3. v = w
  BY <1>2 DEF Decide, TypeOK
<1> QED
  BY <1>2, <1>3 DEF Decide, TypeOK

\* A write stays in a retry queue that another write joins, and joins it itself
\* unless it is dropped.
LEMMA PushKeepsQueued ==
  ASSUME TypeOK, NEW S, NEW v \in Writes, PushPending(S, v),
         NEW n \in Nodes, NEW w \in Writes
  PROVE  /\ Queued(n, w) => Queued(n, w)'
         /\ Queued(n, w)' => Queued(n, w) \/ (w = v /\ n \in S)
         /\ n \in S => Queued(n, v)' \/ v \in forgotten'[n]
         /\ w \in forgotten[n] => w \in forgotten'[n]
<1>1. pending[n] \in Seq(Writes)
  BY DEF TypeOK
<1>2. \/ pending'[n] = pending[n] /\ (n \in S => v \in forgotten'[n])
      \/ pending'[n] = Append(pending[n], v) /\ n \in S
  BY DEF PushPending
<1>3. w \in forgotten[n] => w \in forgotten'[n]
  BY DEF PushPending
<1>4. CASE pending'[n] = pending[n] /\ (n \in S => v \in forgotten'[n])
  BY Zenon, <1>3, <1>4 DEF Queued
<1>5. CASE pending'[n] = Append(pending[n], v) /\ n \in S
  <2>1. Queued(n, w) => Queued(n, w)'
    BY <1>1, <1>5 DEF Queued
  <2>2. Queued(n, w)' => Queued(n, w) \/ w = v
    BY <1>1, <1>5 DEF Queued
  <2>3. Queued(n, v)'
    BY <1>1, <1>5 DEF Queued
  <2> QED
    BY <1>3, <1>5, <2>1, <2>2, <2>3
<1> QED
  BY <1>2, <1>4, <1>5

\* A queue that is left alone holds what it held.
LEMMA SameQueued ==
  ASSUME pending' = pending, NEW n \in Nodes, NEW w \in Writes
  PROVE  Queued(n, w)' = Queued(n, w)
BY DEF Queued

\* A pass of the retry loop moves writes from a queue to a task, and no others.
LEMMA TickKeepsTracked ==
  ASSUME TypeOK, RetryTick, NEW n \in Nodes, NEW w \in Writes
  PROVE  (Queued(n, w) \/ w \in resend[n]) <=> (Queued(n, w)' \/ w \in resend'[n])
<1>1. pending[n] \in Seq(Writes) /\ resend[n] \subseteq Writes
  BY DEF TypeOK
<1>2. CASE ~Popped(n)
  <2>1. pending'[n] = pending[n] /\ resend'[n] = resend[n]
    BY <1>2 DEF RetryTick
  <2> QED
    BY <2>1 DEF Queued
<1>3. CASE Popped(n)
  <2>1. pending'[n] = Tail(pending[n]) /\ resend'[n] = resend[n] \cup {Head(pending[n])}
    BY <1>3 DEF RetryTick
  <2>2. pending[n] # << >>
    BY <1>3 DEF Popped
  <2>3. Queued(n, w) => Queued(n, w)' \/ w = Head(pending[n])
    <3> SUFFICES ASSUME NEW i \in 1..Len(pending[n]), pending[n][i] = w, i # 1
                 PROVE  Queued(n, w)'
      BY <1>1, <2>2 DEF Queued
    <3>1. i - 1 \in 1..Len(Tail(pending[n])) /\ Tail(pending[n])[i - 1] = w
      BY <1>1, <2>2
    <3> QED
      BY <2>1, <3>1 DEF Queued
  <2>4. Queued(n, w)' => Queued(n, w)
    <3> SUFFICES ASSUME NEW i \in 1..Len(Tail(pending[n])), Tail(pending[n])[i] = w
                 PROVE  Queued(n, w)
      BY <2>1 DEF Queued
    <3>1. i + 1 \in 1..Len(pending[n]) /\ pending[n][i + 1] = w
      BY <1>1, <2>2
    <3> QED
      BY <3>1 DEF Queued
  <2>5. w = Head(pending[n]) => Queued(n, w)
    <3>1. 1 \in 1..Len(pending[n]) /\ Head(pending[n]) = pending[n][1]
      BY <1>1, <2>2
    <3> QED
      BY <3>1 DEF Queued
  <2> QED
    BY <2>1, <2>3, <2>4, <2>5
<1> QED
  BY <1>2, <1>3

\* The acks behind a committed write stay what they were when it was decided.
LEMMA QuorumStep ==
  ASSUME TypeOK, AckedHasQuorum, [Next]_vars
  PROVE  AckedHasQuorum'
<1> SUFFICES ASSUME NEW w \in Writes, fan'[w] = "acked"
             PROVE  Primary \in Acks(w)' /\ Cardinality(Acks(w)') >= QuorumSize
  BY DEF AckedHasQuorum
<1>1. CASE fan[w] = "acked"
  <2>1. Acks(w)' = Acks(w)
    BY <1>1, AckedIsStable DEF Acks
  <2> QED
    BY <1>1, <2>1 DEF AckedHasQuorum
<1>2. CASE fan[w] # "acked"
  <2>1. Decide(w) /\ Primary \in Acks(w) /\ Cardinality(Acks(w)) >= QuorumSize
    BY <1>2, AckedByDecide
  <2>2. Acks(w)' = Acks(w)
    BY SMTT(30), <2>1 DEF Decide, Acks
  <2> QED
    BY <2>1, <2>2
<1> QED
  BY <1>1, <1>2

\* Only decisions that commit feed the retry queues.
LEMMA OnlyAckedStep ==
  ASSUME TypeOK, OnlyAckedIsTailed, [Next]_vars
  PROVE  OnlyAckedIsTailed'
<1> SUFFICES ASSUME NEW n \in Nodes, NEW w \in Writes, Queued(n, w)' \/ w \in resend'[n]
             PROVE  fan'[w] = "acked" /\ n \in targets'[w]
  BY DEF OnlyAckedIsTailed
<1>1. CASE Queued(n, w) \/ w \in resend[n]
  BY <1>1, AckedIsStable DEF OnlyAckedIsTailed
<1>2. ASSUME NEW v \in Writes, Decide(v), ~Queued(n, w), w \notin resend[n]
      PROVE  fan'[w] = "acked" /\ n \in targets'[w]
  <2>1. Queued(n, w)'
    BY <1>2 DEF Decide
  <2>2. ~(pending' = pending)
    BY SMTT(30), <1>2, <2>1 DEF Queued
  <2>3. fan' = [fan EXCEPT ![v] = "acked"] /\ PushPending(Lagging(v), v)
    BY SMTT(30), <1>2, <2>2 DEF Decide
  <2>4. w = v /\ n \in Lagging(v)
    BY <1>2, <2>1, <2>3, PushKeepsQueued
  <2> QED
    BY SMTT(30), <1>2, <2>3, <2>4 DEF Decide, Lagging, TypeOK
<1>3. ASSUME NEW m \in Nodes, NEW v \in Writes, ResendDone(m, v)
      PROVE  Queued(n, w) \/ w \in resend[n]
  <2>1. resend'[n] \subseteq resend[n] /\ v \in resend[m]
    BY <1>3 DEF ResendDone, TypeOK
  <2>2. pending' = pending \/ PushPending({m}, v)
    BY <1>3 DEF ResendDone
  <2>3. Queued(n, w)' => Queued(n, w) \/ (w = v /\ n = m)
    <3>1. CASE pending' = pending
      BY Zenon, <3>1, SameQueued
    <3>2. CASE PushPending({m}, v)
      <4>1. Queued(n, w)' => Queued(n, w) \/ (w = v /\ n \in {m})
        BY ZenonT(30), <3>2, PushKeepsQueued
      <4> QED
        BY Zenon, <4>1
    <3> QED
      BY ZenonT(30), <2>2, <3>1, <3>2
  <2> QED
    BY <2>1, <2>3
<1>4. ASSUME CoordinatorCrash PROVE FALSE
  BY <1>4 DEF CoordinatorCrash, Queued
<1>5. ASSUME RetryTick PROVE Queued(n, w) \/ w \in resend[n]
  BY <1>5, TickKeepsTracked
<1>6. ASSUME NEW v \in Writes, FanOut(v) PROVE Queued(n, w) \/ w \in resend[n]
  BY <1>6 DEF FanOut, Queued
<1>7. CASE UNCHANGED <<fan, targets, pending, resend, forgotten>>
  BY <1>1, <1>7 DEF Queued
<1> QED
  BY SMTT(30), <1>1, <1>2, <1>3, <1>4, <1>5, <1>6, <1>7, CoordinatorFrames

\* No step loses track of a committed write that a target lacks.
LEMMA TailStep ==
  ASSUME TypeOK, RepliesAreTrue, TailIsTracked, [Next]_vars
  PROVE  TailIsTracked'
<1> DEFINE Tracked(n, w) ==
      Holds(n, w) \/ Queued(n, w) \/ w \in resend[n] \/ w \in forgotten[n]
<1> SUFFICES ASSUME NEW w \in Writes, fan'[w] = "acked", NEW n \in Nodes, n \in targets'[w]
             PROVE  Tracked(n, w)'
  BY TypeStep DEF TailIsTracked, TypeOK
<1>1. CASE fan[w] # "acked"
  <2>1. Decide(w) /\ PushPending(Lagging(w), w) /\ n \in targets[w]
    BY <1>1, AckedByDecide DEF Decide
  <2>2. outcome[w][n] = "ok" \/ n \in Lagging(w)
    BY <2>1 DEF Decide, Lagging, TypeOK
  <2>3. CASE outcome[w][n] = "ok"
    BY SMTT(30), <2>3, HoldsIsStable DEF RepliesAreTrue
  <2>4. CASE n \in Lagging(w)
    BY SMTT(30), <2>1, <2>4, PushKeepsQueued
  <2> QED
    BY ZenonT(30), <2>2, <2>3, <2>4
<1>2. CASE fan[w] = "acked"
  <2>1. Tracked(n, w)
    BY SMTT(30), <1>2, AckedIsStable DEF TailIsTracked
  <2>2. CASE Holds(n, w)
    BY SMTT(30), <2>2, HoldsIsStable
  <2>3. ASSUME NEW v \in Writes, Decide(v) PROVE Tracked(n, w)'
    <3>1. UNCHANGED resend /\ (UNCHANGED <<pending, forgotten>> \/ PushPending(Lagging(v), v))
      BY SMTT(30), <2>3 DEF Decide
    <3>2. Queued(n, w) => Queued(n, w)'
      BY <3>1, PushKeepsQueued, SameQueued
    <3>3. w \in forgotten[n] => w \in forgotten'[n]
      BY <3>1, PushKeepsQueued
    <3> QED
      BY SMTT(30), <2>1, <2>2, <3>1, <3>2, <3>3
  <2>4. ASSUME NEW m \in Nodes, NEW v \in Writes, ResendDone(m, v) PROVE Tracked(n, w)'
    <3>1. (UNCHANGED <<pending, forgotten>> /\ rpc[m][v] = "ok") \/ PushPending({m}, v)
      BY <2>4 DEF ResendDone
    <3>2. Queued(n, w) => Queued(n, w)'
      BY <3>1, PushKeepsQueued, SameQueued
    <3>3. w \in forgotten[n] => w \in forgotten'[n]
      BY <3>1, PushKeepsQueued
    <3>4. CASE w \in resend[n] /\ (m # n \/ v # w)
      BY <2>4, <3>4 DEF ResendDone, TypeOK
    <3>5. CASE m = n /\ v = w /\ rpc[n][w] = "ok"
      BY ZenonT(30), <3>5, HoldsIsStable DEF RepliesAreTrue
    <3>6. CASE m = n /\ v = w /\ PushPending({n}, w)
      BY Zenon, <3>6, PushKeepsQueued
    <3> QED
      BY ZenonT(30), <2>1, <2>2, <3>1, <3>2, <3>3, <3>4, <3>5, <3>6
  <2>5. CASE CoordinatorCrash
    <3>1. forgotten'[n] = forgotten[n] \cup resend[n] \cup
                            {pending[n][i] : i \in 1..Len(pending[n])}
      BY ZenonT(30), <2>5 DEF CoordinatorCrash
    <3>2. Queued(n, w) => w \in forgotten'[n]
      BY ZenonT(30), <3>1 DEF Queued
    <3> QED
      BY <2>1, <2>2, <3>1, <3>2
  <2>6. CASE RetryTick
    BY <2>1, <2>2, <2>6, TickKeepsTracked DEF RetryTick
  <2>7. ASSUME NEW v \in Writes, FanOut(v) PROVE Tracked(n, w)'
    BY <2>1, <2>2, <2>7 DEF FanOut, Queued
  <2>8. CASE UNCHANGED <<fan, targets, pending, resend, forgotten>>
    BY <2>1, <2>2, <2>8 DEF Queued
  <2> QED
    BY <2>3, <2>4, <2>5, <2>6, <2>7, <2>8, CoordinatorFrames
<1> QED
  BY <1>1, <1>2

-----------------------------------------------------------------------------
\* IInv holds in every state of every behaviour.
LEMMA Inductive == Spec => []IInv
<1>1. Init => IInv
  <2> SUFFICES ASSUME Init PROVE IInv
    OBVIOUS
  <2>1. TypeOK
    BY DEF Init, TypeOK, FanStates, RpcStates
  <2>2. RepliesAreTrue
    BY DEF Init, RepliesAreTrue
  <2>3. AckedHasQuorum /\ TailIsTracked
    BY DEF Init, AckedHasQuorum, TailIsTracked
  <2>4. OnlyAckedIsTailed
    BY DEF Init, OnlyAckedIsTailed, Queued
  <2> QED
    BY <2>1, <2>2, <2>3, <2>4 DEF IInv
<1>2. IInv /\ [Next]_vars => IInv'
  BY TypeStep, RepliesStep, QuorumStep, OnlyAckedStep, TailStep DEF IInv
<1> QED
  BY <1>1, <1>2, PTL DEF Spec

\* Nodes whose acks were counted hold the write, so a quorum of acks is a quorum
\* of copies.
LEMMA DurableFromAcks ==
  ASSUME IInv, NEW w \in Writes, Primary \in Acks(w), Cardinality(Acks(w)) >= QuorumSize
  PROVE  /\ Primary \in {n \in Nodes : Holds(n, w)}
         /\ Cardinality({n \in Nodes : Holds(n, w)}) >= QuorumSize
<1> DEFINE H == {n \in Nodes : Holds(n, w)}
<1>1. Acks(w) \subseteq H
  BY Zenon DEF IInv, TypeOK, RepliesAreTrue, Acks
<1>2. IsFiniteSet(H) /\ H \subseteq Nodes
  BY NodesAssumption, FS_Subset
<1>3. IsFiniteSet(Acks(w)) /\ Cardinality(Acks(w)) <= Cardinality(H)
  BY <1>1, <1>2, FS_Subset
<1>4. Cardinality(H) \in Nat /\ Cardinality(Acks(w)) \in Nat
  BY <1>2, <1>3, FS_CardinalityType
<1>5. QuorumSize \in Nat
  BY RFAssumption DEF QuorumSize
<1> HIDE DEF H
<1>6. Primary \in H /\ Cardinality(H) >= QuorumSize
  BY <1>1, <1>3, <1>4, <1>5
<1> QED
  BY <1>6 DEF H

\* A write reported as committed is in the primary's file and in those of a
\* quorum, for any shard size, replication factor and sequence of faults.
THEOREM Durability == Spec => []AckedIsDurable
<1>1. IInv => AckedIsDurable
  BY DurableFromAcks DEF AckedIsDurable, IInv, AckedHasQuorum
<1> QED
  BY <1>1, Inductive, PTL

\* A committed write that a target lacks is queued for it or being re-sent,
\* unless the queue's cap or a coordinator crash dropped it.
THEOREM Tracking == Spec => []TailIsTracked
<1>1. IInv => TailIsTracked
  BY DEF IInv
<1> QED
  BY <1>1, Inductive, PTL

\* A success reported by a node, its cache or the fan-out is never false.
THEOREM Truthful == Spec => []RepliesAreTrue
<1>1. IInv => RepliesAreTrue
  BY DEF IInv
<1> QED
  BY <1>1, Inductive, PTL

-----------------------------------------------------------------------------
\* A statement executed on a node makes at most that write's copy appear there.
LEMMA ExecuteLands ==
  ASSUME TypeOK, NEW n \in Nodes, NEW ok \in BOOLEAN, Execute(n, ok)
  PROVE  copiesOf' = copiesOf \/ \E w \in Writes :
                                   copiesOf' = [copiesOf EXCEPT ![w] = @ \cup {n}]
<1>1. CASE ~ok
  <2>1. applied' = applied
    BY <1>1 DEF Execute, TypeOK
  <2> QED
    BY <2>1 DEF copiesOf, Holds
<1>2. CASE ok
  <2>1. PICK w \in Writes : applied' = [applied EXCEPT ![n] = Append(applied[n], w)]
    <3>1. Head(queue[n]) \in Entries
      BY DEF Execute, TypeOK
    <3>2. Head(queue[n]).write \in Writes
      BY <3>1 DEF Entries
    <3> QED
      BY Zenon, <1>2, <3>2 DEF Execute
  <2>2. \A m \in Nodes, v \in Writes : Holds(m, v)' <=> Holds(m, v) \/ (m = n /\ v = w)
    <3> SUFFICES ASSUME NEW m \in Nodes, NEW v \in Writes
                 PROVE  Holds(m, v)' <=> Holds(m, v) \/ (m = n /\ v = w)
      OBVIOUS
    <3>1. applied[m] \in Seq(Writes)
      BY DEF TypeOK
    <3>2. CASE m # n
      <4>1. applied'[m] = applied[m]
        BY <2>1, <3>2 DEF TypeOK
      <4> QED
        BY <3>2, <4>1 DEF Holds
    <3>3. CASE m = n
      <4>1. applied'[m] = Append(applied[m], w)
        BY <2>1, <3>3 DEF TypeOK
      <4> QED
        BY <3>1, <3>3, <4>1 DEF Holds
    <3> QED
      BY <3>2, <3>3
  <2>3. \A v \in Writes : {m \in Nodes : Holds(m, v)'} =
          IF v = w THEN {m \in Nodes : Holds(m, v)} \cup {n} ELSE {m \in Nodes : Holds(m, v)}
    BY <2>2
  <2>4. copiesOf' = [copiesOf EXCEPT ![w] = @ \cup {n}]
    BY Zenon, <2>3 DEF copiesOf
  <2> QED
    BY Zenon, <2>4
<1> QED
  BY <1>1, <1>2

\* Only the coordinator's decisions and its crash change what a client was told.
LEMMA AnswerFrames ==
  ASSUME [Next]_vars
  PROVE  \/ UNCHANGED answerOf
         \/ \E v \in Writes : FanOut(v) \/ Decide(v)
         \/ CoordinatorCrash
<1>1. CASE RetryTick
  BY <1>1 DEF RetryTick, answerOf
<1>2. ASSUME NEW m \in Nodes, NEW v \in Writes, ResendDone(m, v) PROVE UNCHANGED answerOf
  BY <1>2 DEF ResendDone, answerOf
<1>3. CASE UNCHANGED fan
  BY <1>3 DEF answerOf
<1> QED
  BY <1>1, <1>2, <1>3, CoordinatorFrames

\* Every step of the replicated shard is a step of the abstract store or leaves
\* the files and the answers as they are.
LEMMA StoreStep ==
  ASSUME IInv, [Next]_vars
  PROVE  [Store!StoreNext]_(Store!storeVars)
<1>0. TypeOK
  BY DEF IInv
<1>1. ASSUME NEW n \in Nodes, NEW ok \in BOOLEAN, Execute(n, ok)
      PROVE  [Store!StoreNext]_(Store!storeVars)
  <2>1. UNCHANGED answerOf
    BY <1>1 DEF Execute, answerOf
  <2> QED
    BY <2>1, <1>0, <1>1, ExecuteLands DEF Store!StoreNext, Store!Land, Store!storeVars
<1>2. ASSUME NEW w \in Writes, FanOut(w) PROVE [Store!StoreNext]_(Store!storeVars)
  <2>1. UNCHANGED copiesOf
    BY <1>2 DEF FanOut, copiesOf, Holds
  <2>2. answerOf[w] = "open"
    BY <1>2 DEF FanOut, answerOf
  <2>3. CASE fan' = [fan EXCEPT ![w] = "waiting"]
    <3>1. UNCHANGED answerOf
      BY <1>0, <1>2, <2>3 DEF FanOut, answerOf, TypeOK
    <3> QED
      BY <2>1, <3>1 DEF Store!storeVars
  <2>4. CASE fan' = [fan EXCEPT ![w] = "unavailable"]
    <3>1. answerOf' = [v \in Writes |-> IF v \in {w} THEN "failed" ELSE answerOf[v]]
      BY <1>0, <2>4 DEF answerOf, TypeOK
    <3>2. Store!Abort({w})
      BY <2>1, <2>2, <3>1 DEF Store!Abort
    <3> QED
      BY <3>2 DEF Store!StoreNext
  <2> QED
    BY <1>2, <2>3, <2>4 DEF FanOut
<1>3. ASSUME NEW w \in Writes, Decide(w) PROVE [Store!StoreNext]_(Store!storeVars)
  <2>1. UNCHANGED copiesOf
    BY <1>3 DEF Decide, copiesOf, Holds
  <2>2. answerOf[w] = "open"
    BY <1>3 DEF Decide, answerOf
  <2>3. CASE fan' = [fan EXCEPT ![w] = "acked"]
    <3>1. answerOf' = [answerOf EXCEPT ![w] = "committed"]
      BY ZenonT(30), <1>0, <2>3 DEF answerOf, TypeOK
    <3>2. fan[w] # "acked" /\ fan'[w] = "acked"
      BY <1>0, <1>3, <2>3 DEF Decide, TypeOK
    <3>3. Primary \in Acks(w) /\ Cardinality(Acks(w)) >= QuorumSize
      BY <1>0, <3>2, AckedByDecide
    <3>4. Acks(w) \in PrimaryQuorums
      BY <1>0, <3>3 DEF PrimaryQuorums, Acks, TypeOK
    <3>5. Acks(w) \subseteq copiesOf[w]
      BY ZenonT(30), <1>0 DEF IInv, RepliesAreTrue, Acks, TypeOK, copiesOf
    <3>6. Store!Commit(w)
      BY <2>1, <2>2, <3>1, <3>4, <3>5 DEF Store!Commit
    <3> QED
      BY <3>6 DEF Store!StoreNext
  <2>4. CASE fan' = [fan EXCEPT ![w] = "noPrimary"] \/ fan' = [fan EXCEPT ![w] = "noQuorum"]
    <3>1. answerOf' = [v \in Writes |-> IF v \in {w} THEN "failed" ELSE answerOf[v]]
      BY <1>0, <2>4 DEF answerOf, TypeOK
    <3>2. Store!Abort({w})
      BY <2>1, <2>2, <3>1 DEF Store!Abort
    <3> QED
      BY <3>2 DEF Store!StoreNext
  <2> QED
    BY SMTT(30), <1>3, <2>3, <2>4 DEF Decide
<1>4. CASE CoordinatorCrash
  <2> DEFINE W == {w \in Writes : fan[w] = "waiting"}
  <2>1. UNCHANGED copiesOf
    BY <1>4 DEF CoordinatorCrash, copiesOf, Holds
  <2>2. \A w \in W : answerOf[w] = "open"
    BY DEF answerOf
  <2>3. answerOf' = [v \in Writes |-> IF v \in W THEN "failed" ELSE answerOf[v]]
    BY <1>4 DEF CoordinatorCrash, answerOf
  <2> QED
    BY ZenonT(30), <2>1, <2>2, <2>3 DEF Store!StoreNext, Store!Abort
<1>5. CASE UNCHANGED answerOf /\ UNCHANGED applied
  BY <1>5 DEF copiesOf, Holds, Store!storeVars
<1>6. UNCHANGED applied \/ \E m \in Nodes, ok \in BOOLEAN : Execute(m, ok)
  BY AppliedFrame
<1> QED
  BY <1>1, <1>2, <1>3, <1>4, <1>5, <1>6, AnswerFrames

\* The replication of a shard implements the abstract quorum store.
THEOREM Refinement == Spec => RefinesQuorumStore
<1>1. Init => Store!StoreInit
  BY DEF Init, Store!StoreInit, copiesOf, answerOf, Holds
<1>2. IInv /\ [Next]_vars => [Store!StoreNext]_(Store!storeVars)
  BY StoreStep
<1> QED
  BY <1>1, <1>2, Inductive, PTL DEF Spec, RefinesQuorumStore, Store!StoreSpec
=============================================================================
