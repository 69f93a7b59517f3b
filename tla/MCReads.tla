------------------------------ MODULE MCReads -------------------------------
(***************************************************************************)
(* Distributed reads for TLC, in two parts that share nothing: on which    *)
(* node each scan runs (ScanScheduling), and what a scan asks of its shard *)
(* (ShardScan).  A behaviour belongs to one part; the other stands still.  *)
(***************************************************************************)
EXTENDS ScanScheduling, Predicates

CONSTANTS n1, n2, n3, MaxCrashes, Null, Error

VARIABLES part, crashes, table, read, scans, got, answer

-----------------------------------------------------------------------------
(* Placement: three nodes and two reads, up to MaxCrashes crashes.         *)

SomeExecutors == {n1, n2, n3}

\* Two shards of one table, one of another.
SomePlacement ==
  [s \in {"a0", "a1", "b0"} |->
     CASE s = "a0" -> [primary |-> n1, replicas |-> {n2}]
       [] s = "a1" -> [primary |-> n2, replicas |-> {n3}]
       [] s = "b0" -> [primary |-> n3, replicas |-> {n1}]]
SomeHolders == [s \in DOMAIN SomePlacement |->
                {SomePlacement[s].primary} \cup SomePlacement[s].replicas]

\* An aggregate of one table in two stages; a union of the other with a table
\* that has no shards.
SomeJobs ==
  <<<<[plan |-> Operator(2, <<TableScan(<<"a0", "a1">>)>>), inputs |-> {}],
      [plan |-> Operator(1, <<Reader(1)>>), inputs |-> {1}]>>,
    <<[plan |-> [kind |-> "union",
                 children |-> <<TableScan(<<"b0">>), TableScan(<< >>)>>], inputs |-> {}]>>>>

PlacementNext ==
  \/ (\E j \in DOMAIN Jobs : Submit(j)) /\ UNCHANGED crashes
  \/ Work /\ UNCHANGED crashes
  \/ (\E e \in Executors : Restart(e)) /\ UNCHANGED crashes
  \/ \E e \in Executors : Crash(e) /\ crashes < MaxCrashes /\ crashes' = crashes + 1

-----------------------------------------------------------------------------
(* Scans: every small filter over three contents of two shards.            *)

Row(id, n, s, u, d) == [id |-> id, n |-> n, s |-> s, u |-> u, d |-> d]
SomeContents ==
  LET plain == {Row(1, 1, <<"a">>, <<"u">>, 1), Row(2, 2, <<"\\">>, Null, 2)}
      other == {Row(3, 1, <<"%">>, <<"v">>, Null), Row(4, Null, <<"a", "\\">>, <<"u">>, 3),
                Row(5, 3, Null, Null, 1)}
      wide  == {Row(6, 10, <<"a">>, Null, 1)}
  IN {<<>> @@ (0 :> plain) @@ (1 :> other), (0 :> plain) @@ (1 :> {}), (0 :> wide) @@ (1 :> plain)}

SomeShards == <<[bucket |-> 1, primary |-> n1, replicas |-> {n2}],
              [bucket |-> 0, primary |-> n2, replicas |-> {}]>>

Num(v) == Lit("number", v)
Text(v) == Lit("text", v)

Patterns == {<<"%">>, <<"a", "%">>, <<"_">>, <<"\\", "%">>, <<"\\">>, <<"%", "\\">>,
             <<"\\", "\\">>, <<"a", "\\", "\\">>, <<"\\", "a">>}
Dates == {Lit("date32", v) : v \in {1, 2}} \cup {Lit("date64", v) : v \in {2, 3, 4, 8, Null}}

Atoms ==
  {Binary(o, Col("n"), Num(v)) : o \in {"=", "<>", "<"}, v \in {1, 2, Null}}
  \cup {Binary(o, Col(c), Text(v)) : o \in {"=", "<>"}, c \in {"s", "u"}, v \in {<<"a">>, <<"u">>}}
  \cup {Binary(o, Col("d"), d) : o \in {"=", "<"}, d \in Dates}
  \cup {Binary("<", d, Col("d")) : d \in Dates}
  \cup {Like(Col("s"), Text(p), Null) : p \in Patterns}
  \cup {Like(Col("s"), Text(p), "a") : p \in Patterns}
  \cup {Like(Col("u"), Text(<<"%">>), Null), Like(Text(<<"a">>), Col("s"), Null)}
  \cup {Unary("is null", Col(c)) : c \in {"n", "s", "u"}}
  \cup {InList(Col(c), <<Text(<<"a">>), Text(<<"u">>)>>) : c \in {"s", "u"}}
  \cup {InList(Col("n"), <<Num(1), Num(Null)>>), Between(Col("n"), Num(1), Num(2)),
         Between(Col("d"), Lit("date64", 2), Lit("date64", 3)),
         Binary("=", Unary("upper", Col("s")), Text(<<"a">>))}

Basic == {Binary("=", Col("n"), Num(1)), Binary("<", Col("n"), Num(2)),
          Unary("is null", Col("s")), Binary("=", Col("u"), Text(<<"a">>)),
          Like(Col("s"), Text(<<"\\", "%">>), Null)}
Pairs == {Binary(o, a, b) : o \in {"and", "or"}, a \in Basic, b \in Basic}

Filters ==
  {<<a>> : a \in Atoms} \cup {<<Unary("not", a)>> : a \in Atoms}
  \cup {<<p>> : p \in Pairs} \cup {<<p, a>> : p \in Pairs, a \in Basic}
  \cup {<<Unary("is true", p), q>> : p \in Basic, q \in Basic}

Ask(f, l, c) == [filters |-> f, limit |-> l, columns |-> c]
SomeReads ==
  {Ask(f, Null, "all") : f \in Filters}
  \cup {Ask(<<a>>, 1, "all") : a \in Basic}
  \cup {Ask(<< >>, l, c) : l \in {Null, 0, 1, 3}, c \in {"all", "none"}}

SS == INSTANCE ShardScan WITH
        Reads <- SomeReads, Contents <- SomeContents, Shards <- SomeShards,
        Encodings <- {"now", "no opaque", "no buckets"}

scanvars == <<table, read, scans, got, answer>>

-----------------------------------------------------------------------------
MCInit ==
  /\ Init /\ crashes = 0 /\ SS!Init
  /\ part \in {"placement", "scans"}
  /\ part = "placement" => table[1] = {}

MCNext ==
  \/ part = "placement" /\ PlacementNext /\ UNCHANGED <<part, scanvars>>
  \/ part = "scans" /\ SS!Next /\ UNCHANGED <<part, vars, crashes>>

MCSpec == MCInit /\ [][MCNext]_<<part, vars, crashes, scanvars>> /\ Fairness

-----------------------------------------------------------------------------
\* The answer is the one the query has over the whole table, whatever was
\* pushed to the shards, rendered for them, limited or counted there or lost
\* from an older build's encoding; and pushing down fails no read that the
\* coordinator alone could answer.
ReadsAreExact == SS!ReadsAreExact /\ SS!OnlyWideValuesFail

=============================================================================
