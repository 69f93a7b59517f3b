----------------------------- MODULE DedupCache -----------------------------
(***************************************************************************)
(* The bounded result cache a core node keeps to recognise a repeated      *)
(* write_id (core/write_service/dedup_cache.rs).  The code holds a map and *)
(* an insertion order with the same keys; here the two are one sequence of *)
(* [id, ok] records, oldest first.  Where a write is a unit, as in         *)
(* Replication, ok says whether every statement of it succeeded, which is  *)
(* all its caller distinguishes (replication.rs, send_write); in CoreNode  *)
(* it is the list of results itself.                                       *)
(***************************************************************************)
EXTENDS Naturals, Sequences

\* The ids the cache holds a result for.
CachedIds(cache) == {cache[i].id : i \in DOMAIN cache}

\* The cached outcome of an id; meaningful when id \in CachedIds(cache).
CachedResult(cache, id) ==
  cache[CHOOSE i \in DOMAIN cache : cache[i].id = id].ok

\* (Mutant: the result is recorded as a success whatever it was.)
CacheInsertAsOk(cache, id, ok, capacity) ==
  Append(IF Len(cache) >= capacity /\ cache # << >> THEN Tail(cache) ELSE cache,
         [id |-> id, ok |-> TRUE])

\* An id already present is left unchanged, in place; at capacity the oldest
\* entry makes room.
CacheInsert(cache, id, ok, capacity) ==
  IF id \in CachedIds(cache)
  THEN cache
  ELSE Append(IF Len(cache) >= capacity /\ cache # << >> THEN Tail(cache) ELSE cache,
              [id |-> id, ok |-> ok])
=============================================================================
