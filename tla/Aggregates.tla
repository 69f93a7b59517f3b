----------------------------- MODULE Aggregates -----------------------------
(***************************************************************************)
(* The aggregates VaireDB computes itself: the exact variances and         *)
(* deviations (stats_udaf.rs), the exact integer average (avg_udaf.rs),    *)
(* the widened sum (pg_aggregate_widening.rs), the ordered-set and         *)
(* hypothetical-set aggregates (within_group/), and json_agg's rendering   *)
(* (json_agg.rs).  One group is aggregated: each shard's partial           *)
(* accumulator takes its rows one at a time, its state crosses the wire,   *)
(* and a final accumulator merges the states in whatever order they come.  *)
(* A group on one shard may also be evaluated where it was accumulated,    *)
(* and a window frame slides over the rows of one shard.                   *)
(*                                                                         *)
(* Numbers keep the code's shape at a small size: a decimal is an unscaled *)
(* integer, the ceilings 10^38, 10^76 and 2^255 are constants, and every   *)
(* checked operation that passes its ceiling refuses the statement.        *)
(***************************************************************************)
EXTENDS Integers, SequencesExt

CONSTANTS Shards,           \* the partitions a group's rows lie on
          Null,             \* SQL NULL
          Refused,          \* the statement failed (22003, 22023, 0A000)
          Waiting,          \* no answer yet
          ResultScale,      \* RESULT_SCALE: the decimals of an exact answer
          Decimal128Ceiling,
          Decimal256Ceiling,
          WideCeiling,      \* what an i128 or an i256 holds
          BigintCeiling     \* what an i64 holds

VARIABLES call,     \* the aggregate call: [fn, distinct, scale, ...]
          layout,   \* "partial", "single" or "window"
          todo,     \* per shard, the rows not accumulated yet
          acc,      \* per shard, its accumulator
          stage,    \* per shard: scanning, state sent, state merged
          final,    \* the accumulator of the final aggregate
          frame,    \* the rows the answer is about
          answer

vars == <<call, layout, todo, acc, stage, final, frame, answer>>

Magnitude(n) == IF n < 0 THEN -n ELSE n

Pow10(k) == 10^k

Stats == {"var_samp", "var_pop", "stddev_samp", "stddev_pop"}
Deviations == {"stddev_samp", "stddev_pop"}
Ranks == {"rank", "dense_rank", "percent_rank", "cume_dist"}
Percentiles == {"percentile_disc", "percentile_cont"}
WithinGroup == Ranks \cup Percentiles \cup {"mode"}

(***************************************************************************)
(* What a call is planned as: sum over a bigint accumulates in a decimal,  *)
(* sum over a narrower integer in a bigint, avg over an integer is the     *)
(* exact average.                                                          *)
(***************************************************************************)
SumCeiling(type) == IF type = "int8" THEN WideCeiling ELSE BigintCeiling

\* Two's complement arithmetic of the engine's own sum.
Wrapped(n, ceiling) == ((n + ceiling) % (2 * ceiling)) - ceiling

Empty == [count |-> 0, sum |-> 0, squares |-> 0, seen |-> {}, list |-> <<>>]

Fits(n) == Magnitude(n) < WideCeiling

\* A checked change of the totals: None is a refusal.
Checked(a, ok) == IF ok THEN a ELSE Refused

Summed(c, a, n, s, q) ==
  [a EXCEPT !.count = @ + n,
            !.sum = IF c.fn = "sum" THEN Wrapped(@ + s, SumCeiling(c.type)) ELSE @ + s,
            !.squares = @ + q]

\* Totals::add and Totals::merge of the two accumulators, with the ceiling
\* each of them checks.
Within(c, a) ==
  CASE c.fn \in Stats -> Fits(a.sum) /\ Fits(a.squares)
    [] c.fn = "avg"   -> Magnitude(a.sum) < Decimal128Ceiling
    [] OTHER          -> TRUE

Total(c, a) == Checked(a, Within(c, a))

KeepsRows(c) == c.fn \in WithinGroup \cup {"json_agg"}

(***************************************************************************)
(* update_batch, for one row.  NULLs are skipped by everything but the     *)
(* aggregates that keep the rows themselves.                               *)
(***************************************************************************)
Update(c, a, v) ==
  CASE KeepsRows(c) -> [a EXCEPT !.list = Append(@, v)]
    [] v = Null     -> a
    [] c.distinct   -> [a EXCEPT !.seen = @ \cup {v}]
    [] OTHER        -> Total(c, Summed(c, a, 1, v, v * v))

\* retract_batch: a frame's leading row leaves the totals.
Retract(c, a, v) ==
  IF v = Null THEN a
  ELSE [a EXCEPT !.count = @ - 1, !.sum = @ - v, !.squares = @ - v * v]

SupportsRetract(c) == c.fn \in Stats \cup {"avg"} /\ ~c.distinct

\* state: the totals of a statistic must fit the decimals they travel in.
State(c, a) ==
  Checked(a, (c.fn \in Stats /\ ~c.distinct)
               => /\ Magnitude(a.sum) < Decimal256Ceiling
                  /\ a.squares < Decimal256Ceiling)

\* merge_batch.
\* (Mutant: a partial's distinct values are counted, not united.)
MergeDistinctCounts(c, a, b) ==
  CASE KeepsRows(c) -> [a EXCEPT !.list = @ \o b.list]
    [] c.distinct   -> [a EXCEPT !.count = @ + Cardinality(b.seen), !.seen = @ \cup b.seen]
    [] OTHER        -> Total(c, Summed(c, a, b.count, b.sum, b.squares))

Merge(c, a, b) ==
  CASE KeepsRows(c) -> [a EXCEPT !.list = @ \o b.list]
    [] c.distinct   -> [a EXCEPT !.seen = @ \cup b.seen]
    [] OTHER        -> Total(c, Summed(c, a, b.count, b.sum, b.squares))

\* The totals an answer is computed from; DISTINCT's are summed at the end.
AddTo(c, v, t) == IF t = Refused THEN t ELSE Total(c, Summed(c, t, 1, v, v * v))

Totals(c, a) ==
  IF c.distinct
  THEN FoldSet(LAMBDA v, t : AddTo(c, v, t), a, a.seen)
  ELSE a

(***************************************************************************)
(* Exact division: long division digit by digit, rounded half up; the      *)
(* square root by Newton's method in integers.                             *)
(***************************************************************************)
ScaledDiv(value, den, power) ==
  LET step[k \in 0 .. power] ==
        IF k = 0 THEN <<value \div den, value % den>>
        ELSE LET d == step[k - 1]
             IN  IF d = Refused \/ ~Fits(d[1] * 10) \/ ~Fits(d[2] * 10) THEN Refused
                 ELSE <<d[1] * 10 + (d[2] * 10) \div den, (d[2] * 10) % den>>
  IN  step[power]

Rounded(d, den) == IF d[2] >= den - d[2] THEN d[1] + 1 ELSE d[1]

BitLength(n) == CHOOSE b \in 1 .. 31 : 2^(b - 1) <= n /\ (b = 31 \/ n < 2^b)

IntegerSqrt(value) ==
  LET newton[root \in Nat] ==
        LET next == (root + value \div root) \div 2
        IN  IF next >= root THEN root ELSE newton[next]
  IN  IF value <= 1 THEN value ELSE newton[2^((BitLength(value) + 1) \div 2)]

RoundedRoot(d, den, root) ==
  IF 4 * (den * (d[1] - root * root - root) + d[2]) >= den THEN root + 1 ELSE root

MinimumRows(fn) == IF fn \in {"var_samp", "stddev_samp"} THEN 2 ELSE 1

Denominator(fn, n) == IF fn \in {"var_samp", "stddev_samp"} THEN n * (n - 1) ELSE n * n

ScalePower(fn) == IF fn \in Deviations THEN 2 * ResultScale ELSE ResultScale

\* of_ratio: the quotient, or its root for a deviation.
OfRatio(fn, d, den) ==
  CASE d = Refused        -> Refused
    [] fn \in Deviations  -> RoundedRoot(d, den, IntegerSqrt(d[1]))
    [] OTHER              -> Rounded(d, den)

InRange(n) == IF n # Refused /\ Magnitude(n) >= Decimal128Ceiling THEN Refused ELSE n

\* fold_input_scale puts 10^2s on the side of the division that needs it.
FoldedDiv(fn, num, den, twice) ==
  IF ScalePower(fn) >= twice
  THEN OfRatio(fn, ScaledDiv(num, den, ScalePower(fn) - twice), den)
  ELSE LET wide == den * Pow10(twice - ScalePower(fn))
       IN  IF Fits(wide) THEN OfRatio(fn, ScaledDiv(num, wide, 0), wide) ELSE Refused

ExactStatistic(fn, t, scale) ==
  CASE t.count < MinimumRows(fn) -> Null
    [] ~Fits(t.sum * t.sum) \/ ~Fits(t.count * t.squares) -> Refused
    [] OTHER -> InRange(FoldedDiv(fn, Max({0, t.count * t.squares - t.sum * t.sum}),
                                  Denominator(fn, t.count), 2 * scale))

\* exact_average: the magnitude is divided and rounded, the sign put back.
Signed(n, sum) == IF n = Refused THEN n ELSE IF sum < 0 THEN -n ELSE n

RoundedQuotient(magnitude, n, scaled) ==
  Rounded(<<(magnitude \div n) * Pow10(ResultScale) + scaled \div n, scaled % n>>, n)

ExactAverage(t) ==
  IF t.count = 0 THEN Null
  ELSE Signed(InRange(RoundedQuotient(Magnitude(t.sum), t.count,
                        (Magnitude(t.sum) % t.count) * Pow10(ResultScale))), t.sum)

(***************************************************************************)
(* The aggregates over the whole distribution.  Position answers ignore    *)
(* NULLs; the hypothetical-set ones order and count them.                  *)
(***************************************************************************)
Sorted(c, list) ==
  SortSeq(SelectSeq(list, LAMBDA v : v # Null),
          LAMBDA x, y : IF c.descending THEN x > y ELSE x < y)

\* The fraction is p/q; an answer is kept as a multiple of 1/q.
CeilDiv(n, d) == (n + d - 1) \div d

Discrete(f, s) == f[2] * s[Max({1, Min({CeilDiv(f[1] * Len(s), f[2]), Len(s)})})]

Interpolated(f, low, high, weight) == f[2] * low + (high - low) * weight

Continuous(f, s, steps) ==
  Interpolated(f, s[steps \div f[2] + 1], s[CeilDiv(steps, f[2]) + 1], steps % f[2])

\* mode_of: the longest run, the first of them on a tie.
ModeOf(s) ==
  LET run[i \in 1 .. Len(s)] == IF i > 1 /\ s[i] = s[i - 1] THEN run[i - 1] + 1 ELSE 1
  IN  s[CHOOSE i \in 1 .. Len(s) :
          /\ \A j \in 1 .. Len(s) : run[j] <= run[i]
          /\ \A j \in 1 .. i - 1 : run[j] < run[i]]

\* The row encoding orders NULLs where the clause says.
Before(c, v, w) ==
  CASE v = w    -> FALSE
    [] v = Null -> c.nullsFirst
    [] w = Null -> ~c.nullsFirst
    [] OTHER    -> IF c.descending THEN v > w ELSE v < w

CountsAgainst(c, list, ahead) ==
  [rows |-> Len(list), before |-> Len(ahead), distinct |-> Cardinality(ToSet(ahead)),
   peers |-> Len(SelectSeq(list, LAMBDA v : v = c.arg))]

\* A fraction is a pair, so the quotients need no rounding.
RankAnswer(fn, n) ==
  CASE fn = "rank"         -> <<n.before + 1, 1>>
    [] fn = "dense_rank"   -> <<n.distinct + 1, 1>>
    [] fn = "percent_rank" -> IF n.rows = 0 THEN <<0, 1>> ELSE <<n.before, n.rows>>
    [] OTHER               -> <<n.before + n.peers + 1, n.rows + 1>>

PercentileOf(c, s) ==
  CASE s = <<>> -> Null
    [] c.fn = "percentile_disc" -> Discrete(c.arg, s)
    [] c.fn = "percentile_cont" -> Continuous(c.arg, s, c.arg[1] * (Len(s) - 1))
    [] OTHER -> ModeOf(s)

\* json_agg: a document is spliced in, any other element encoded; a NULL
\* element is the JSON null and an empty group no array at all.
Element(c, v) == <<IF v = Null THEN "null" ELSE IF c.documents THEN "spliced" ELSE "quoted", v>>

Rendered(c, list) ==
  IF list = <<>> THEN Null ELSE [i \in DOMAIN list |-> Element(c, list[i])]

Evaluate(c, a, t) ==
  CASE t = Refused       -> Refused
    [] c.fn \in Stats    -> ExactStatistic(c.fn, t, c.scale)
    [] c.fn = "avg"      -> ExactAverage(t)
    [] c.fn = "sum"      -> IF t.count = 0 THEN Null ELSE t.sum
    [] c.fn \in Ranks    -> RankAnswer(c.fn, CountsAgainst(c, a.list,
                              SelectSeq(a.list, LAMBDA v : Before(c, v, c.arg))))
    [] c.fn = "json_agg" -> Rendered(c, a.list)
    [] OTHER             -> PercentileOf(c, Sorted(c, a.list))

\* What the accumulator's construction refuses: DISTINCT within a group, a
\* fraction outside 0 .. 1.
FractionInRange(f) == 0 <= f[1] /\ f[1] <= f[2]

Accepts(c) ==
  /\ c.fn \in WithinGroup => ~c.distinct
  /\ c.fn \in Percentiles => FractionInRange(c.arg)

-----------------------------------------------------------------------------
Init ==
  /\ acc = [s \in Shards |-> Empty]
  /\ stage = [s \in Shards |-> "scan"]
  /\ final = Empty
  /\ frame = <<>>
  /\ answer = Waiting

\* A refused statement has failed; a window goes on to its next row.
Running == answer # Refused /\ (layout = "window" \/ answer = Waiting) /\ Accepts(call)

\* A refusal anywhere fails the statement.
Fails(a) == answer' = IF a = Refused THEN Refused ELSE Waiting

Refuse ==
  /\ ~Accepts(call) /\ answer = Waiting
  /\ answer' = Refused
  /\ UNCHANGED <<call, layout, todo, acc, stage, final, frame>>

UpdateBatch(s) ==
  /\ Running /\ todo[s] # <<>>
  /\ \E a \in {Update(call, acc[s], Head(todo[s]))} :
       acc' = [acc EXCEPT ![s] = a] /\ Fails(a)
  /\ todo' = [todo EXCEPT ![s] = Tail(@)]
  /\ frame' = Append(frame, Head(todo[s]))
  /\ UNCHANGED <<call, layout, stage, final>>

\* The frame's first row leaves it.
RetractBatch(s) ==
  /\ Running /\ layout = "window" /\ SupportsRetract(call) /\ acc[s] # Empty /\ Len(frame) > 1
  /\ acc' = [acc EXCEPT ![s] = Retract(call, @, Head(frame))]
  /\ frame' = Tail(frame)
  /\ answer' = Waiting
  /\ UNCHANGED <<call, layout, todo, stage, final>>

\* A partial aggregate's state leaves for the final one.
ShipState(s) ==
  /\ Running /\ layout = "partial" /\ todo[s] = <<>> /\ stage[s] = "scan"
  /\ \E a \in {State(call, acc[s])} :
       acc' = [acc EXCEPT ![s] = a] /\ Fails(a)
  /\ stage' = [stage EXCEPT ![s] = "sent"]
  /\ UNCHANGED <<call, layout, todo, final, frame>>

MergeBatch(s) ==
  /\ Running /\ stage[s] = "sent"
  /\ \E a \in {Merge(call, final, acc[s])} : final' = a /\ Fails(a)
  /\ stage' = [stage EXCEPT ![s] = "merged"]
  /\ UNCHANGED <<call, layout, todo, acc, frame>>

Answer(a) ==
  /\ Running /\ answer = Waiting
  /\ answer' = Evaluate(call, a, Totals(call, a))
  /\ UNCHANGED <<call, layout, todo, acc, stage, final, frame>>

\* The final aggregate answers once every partial has been merged.
EvaluateFinal == (\A s \in Shards : stage[s] = "merged") /\ Answer(final)

\* A group that lies on one shard is answered by the accumulator it is in;
\* so is a window frame, at every row it reaches.
EvaluateInPlace(s) ==
  /\ \A t \in Shards \ {s} : acc[t] = Empty
  /\ \/ layout = "single" /\ \A t \in Shards : todo[t] = <<>>
     \/ layout = "window" /\ frame # <<>>
  /\ Answer(acc[s])

Next ==
  \/ Refuse \/ EvaluateFinal
  \/ \E s \in Shards :
       UpdateBatch(s) \/ RetractBatch(s) \/ ShipState(s) \/ MergeBatch(s) \/ EvaluateInPlace(s)

-----------------------------------------------------------------------------
(***************************************************************************)
(* PostgreSQL's answers, by definition rather than by algorithm, over the  *)
(* rows of the group.                                                      *)
(***************************************************************************)
\* The positions an aggregate looks at: no NULL, and each value once if
\* DISTINCT.
Seen(c, rows) ==
  {i \in DOMAIN rows : rows[i] # Null
     /\ (c.distinct => \A j \in 1 .. i - 1 : rows[j] # rows[i])}

Sum(rows, is) == MapThenSumSet(LAMBDA i : rows[i], is)
Squares(rows, is) == MapThenSumSet(LAMBDA i : rows[i] * rows[i], is)
Deviation(rows, is, n, sum) ==
  MapThenSumSet(LAMBDA i : (n * rows[i] - sum) * (n * rows[i] - sum), is)

\* r is num / den rounded half up; r is its square root rounded half up.
Nearest(r, num, den) == (2 * r - 1) * den <= 2 * num /\ 2 * num < (2 * r + 1) * den
NearestRoot(r, num, den) ==
  /\ r > 0 => (2 * r - 1) * (2 * r - 1) * den <= 4 * num
  /\ 4 * num < (2 * r + 1) * (2 * r + 1) * den

IsStatistic(r, fn, dev, n, scale) ==
  IF fn \in Deviations
  THEN NearestRoot(r, dev * Pow10(2 * ResultScale), Denominator(fn, n) * n * Pow10(2 * scale))
  ELSE Nearest(r, dev * Pow10(ResultScale), Denominator(fn, n) * n * Pow10(2 * scale))

IsAverage(r, sum, n) ==
  IF sum < 0 THEN Nearest(-r, -sum * Pow10(ResultScale), n)
             ELSE Nearest(r, sum * Pow10(ResultScale), n)

\* v is the k-th of the values at is, in the clause's order.
InOrder(c, v, w) == v = w \/ (IF c.descending THEN v > w ELSE v < w)
IsKth(c, rows, is, v, k) ==
  /\ Cardinality({i \in is : InOrder(c, rows[i], v)}) >= k
  /\ Cardinality({i \in is : rows[i] # v /\ InOrder(c, rows[i], v)}) < k
Kth(c, rows, is, k) == CHOOSE v \in {rows[i] : i \in is} : IsKth(c, rows, is, v, k)

Times(rows, v) == Cardinality({i \in DOMAIN rows : rows[i] = v})

IsMode(c, rows, v) ==
  /\ v # Null /\ v \in ToSet(rows)
  /\ \A w \in ToSet(rows) \ {Null} :
       Times(rows, w) < Times(rows, v) \/ (Times(rows, w) = Times(rows, v) /\ InOrder(c, v, w))

\* The hypothetical row, ranked as the window function would rank it.
IsRank(c, rows, ahead, r) ==
  CASE c.fn = "rank"         -> r = <<Cardinality(ahead) + 1, 1>>
    [] c.fn = "dense_rank"   -> r = <<Cardinality({rows[i] : i \in ahead}) + 1, 1>>
    [] c.fn = "percent_rank" -> r[1] * Max({1, Len(rows)}) = Cardinality(ahead) * r[2]
    [] OTHER                 -> r[1] * (Len(rows) + 1)
                                  = (Cardinality(ahead) + Times(rows, c.arg) + 1) * r[2]

IsArray(c, rows, r) ==
  /\ Len(r) = Len(rows)
  /\ \A v \in ToSet(rows) : Times(r, Element(c, v)) = Times(rows, v)

\* The totals of the group: [n, sum, squares, dev].
Exact(c, rows, is, n, r) ==
  CASE c.fn \in Stats -> IF n < MinimumRows(c.fn) THEN r = Null
                         ELSE r # Null /\ IsStatistic(r, c.fn, Deviation(rows, is, n, Sum(rows, is)),
                                                     n, c.scale)
    [] c.fn = "avg"   -> IF n = 0 THEN r = Null ELSE r # Null /\ IsAverage(r, Sum(rows, is), n)
    [] c.fn = "sum"   -> r = IF n = 0 THEN Null ELSE Sum(rows, is)
    [] c.fn \in Ranks -> IsRank(c, rows, {i \in DOMAIN rows : Before(c, rows[i], c.arg)}, r)
    [] c.fn = "json_agg" -> IF rows = <<>> THEN r = Null ELSE r # Null /\ IsArray(c, rows, r)
    [] n = 0          -> r = Null
    [] c.fn = "mode"  -> IsMode(c, rows, r)
    [] c.fn = "percentile_disc" ->
         r = c.arg[2] * Kth(c, rows, is, Max({1, CeilDiv(c.arg[1] * n, c.arg[2])}))
    [] OTHER ->
         r = Interpolated(c.arg, Kth(c, rows, is, (c.arg[1] * (n - 1)) \div c.arg[2] + 1),
                          Kth(c, rows, is, CeilDiv(c.arg[1] * (n - 1), c.arg[2]) + 1),
                          (c.arg[1] * (n - 1)) % c.arg[2])

\* Numbers past the widths the code declares, which it refuses.
OutOfReach(c, rows, is, n) ==
  \/ c.fn \in Stats /\ Squares(rows, is) >= Decimal256Ceiling
  \/ c.fn = "avg" /\ MapThenSumSet(LAMBDA i : Magnitude(rows[i]), is) >= Decimal128Ceiling
  \/ ~\E r \in 1 - Decimal128Ceiling .. Decimal128Ceiling - 1 : Exact(c, rows, is, n, r)

(***************************************************************************)
(* Whatever shards the rows lay on and in whatever order the partial       *)
(* states were merged, an aggregate answers what PostgreSQL answers over   *)
(* the whole group (or the frame, after any slide); it refuses only what   *)
(* its accumulator does not accept, or numbers past the widths it          *)
(* declares.                                                               *)
(***************************************************************************)
Decided(c, rows, is) ==
  IF answer = Refused
  THEN ~Accepts(c) \/ OutOfReach(c, rows, is, Cardinality(is))
  ELSE Accepts(c) /\ Exact(c, rows, is, Cardinality(is), answer)

AggregatesAreExact == answer # Waiting => Decided(call, frame, Seen(call, frame))
=============================================================================
