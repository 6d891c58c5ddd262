----------------------------- MODULE Optimizer ------------------------------
(***************************************************************************)
(* The optimizer (cendb-optimizer): rewriting of plans, and the statistics *)
(* that its cost model reads.                                              *)
(***************************************************************************)
EXTENDS Integers, Sequences, SequencesExt, FiniteSetsExt

(***************************************************************************)
(* The optimizer (cendb-optimizer/src/plan.rs and cost.rs): logical plans, *)
(* filter pushdown, the choice of operators, row estimates and costs.      *)
(* A predicate is a sequence of words: comparisons, "and" and "or".  Words *)
(* and their tables are constants; a row maps the tables in it to a value. *)
(* A cost is counted in thousandths.                                       *)
(***************************************************************************)
CONSTANTS Table, Data,           \* Data[t]: the values of t's rows, in order
          RowCount,              \* the row_count of the statistics; absent tables count 1000
          Predicates, Conditions,
          Refs(_), Meaning(_, _),\* of a comparison: the tables it names, its truth on a row
          IsEqui(_),             \* is_equi_join: of a condition
          Indexed,               \* comparisons that name an indexed column of their table
          Small,                 \* 100 rows
          MaxNodes               \* bound: steps to build a plan

VARIABLE plan
Nothing == <<>>                  \* no predicate

Scan(t, p) == [op |-> "Scan", table |-> t, predicate |-> p]
Filter(in, p) == [op |-> "Filter", input |-> in, predicate |-> p]
Unary(op, in, arg) == [op |-> op, input |-> in, arg |-> arg]    \* Project, Sort, Aggregate
Limit(in, n) == [op |-> "Limit", input |-> in, count |-> n]
JoinOf(l, r, c) == [op |-> "Join", left |-> l, right |-> r, condition |-> c]

RECURSIVE TableNames(_), Nodes(_)
TableNames(p) == IF p.op = "Scan" THEN {p.table}
                 ELSE IF p.op = "Join" THEN TableNames(p.left) \cup TableNames(p.right) ELSE TableNames(p.input)
Nodes(p) == IF p.op = "Scan" THEN 1 ELSE 1 + Nodes(IF p.op = "Join" THEN p.left ELSE p.input)     \* steps it took

\* split_and and join_and: conjuncts are what stands between two "and"
SplitAnd(p) == SelectSeq(FoldLeft(LAMBDA acc, w : IF w = "and" THEN Append(acc, <<>>)
                                                  ELSE IF acc = <<>> THEN <<<<w>>>> ELSE ReplaceAt(acc, Len(acc), Append(Last(acc), w)),
                                  <<>>, p), LAMBDA c : c # <<>>)
JoinAnd(cs) == FlattenSeq([i \in DOMAIN cs |-> IF i = 1 THEN cs[i] ELSE <<"and">> \o cs[i]])

RefsOf(c) == UNION {Refs(w) : w \in ToSet(c) \ {"and", "or"}}

\* A mutant: a conjunct that names the left side goes left.
ConjunctSideLeft(c, ls, rs) ==
    IF RefsOf(c) \cap ls # {} THEN "left" ELSE IF RefsOf(c) \cap rs # {} THEN "right" ELSE "top"

\* conjunct_side: the side whose tables it names; both or neither stay on top
ConjunctSide(c, ls, rs) ==
    LET left == RefsOf(c) \cap ls # {}  right == RefsOf(c) \cap rs # {}
    IN  IF left /\ ~right THEN "left" ELSE IF right /\ ~left THEN "right" ELSE "top"

RECURSIVE PushDownFilters(_), PushFilterInto(_, _)
PushDownFilters(p) ==
    CASE p.op = "Scan" -> p
      [] p.op = "Filter" -> PushFilterInto(PushDownFilters(p.input), p.predicate)
      [] p.op = "Join" -> JoinOf(PushDownFilters(p.left), PushDownFilters(p.right), p.condition)
      [] OTHER -> [p EXCEPT !.input = PushDownFilters(p.input)]

PushFilterInto(p, pred) ==
    CASE p.op = "Join" ->
           LET side(s) == SelectSeq(SplitAnd(pred), LAMBDA c : ConjunctSide(c, TableNames(p.left), TableNames(p.right)) = s)
               into(in, cs) == IF cs = <<>> THEN PushDownFilters(in) ELSE PushFilterInto(PushDownFilters(in), JoinAnd(cs))
               joined == JoinOf(into(p.left, side("left")), into(p.right, side("right")), p.condition)
           IN  IF side("top") = <<>> THEN joined ELSE Filter(joined, JoinAnd(side("top")))
      [] p.op = "Filter" -> PushFilterInto(p.input, p.predicate \o <<"and">> \o pred)
      [] OTHER -> Filter(p, pred)

-----------------------------------------------------------------------------
(* Estimates, operators and costs *)

Rows(t) == IF t \in DOMAIN RowCount THEN RowCount[t] ELSE 1000
Least(a, b) == IF a < b THEN a ELSE b
Sqrt(n) == CHOOSE r \in 0..n : r * r <= n /\ (r + 1) * (r + 1) > n

RECURSIVE EstimateRows(_)
EstimateRows(p) ==
    CASE p.op = "Scan" -> IF p.predicate = Nothing THEN Rows(p.table) ELSE Rows(p.table) \div 10
      [] p.op = "Filter" -> EstimateRows(p.input) \div 10
      [] p.op \in {"Project", "Sort"} -> EstimateRows(p.input)
      [] p.op = "Join" -> (EstimateRows(p.left) * EstimateRows(p.right)) \div 100
      [] p.op = "Aggregate" -> Sqrt(EstimateRows(p.input))
      [] p.op = "Limit" -> Least(EstimateRows(p.input), p.count)

\* Optimizer::optimize: rows as above, by way of the children's plans; the join
\* method by their sizes
ChooseJoinMethod(l, r) == IF l.rows < Small \/ r.rows < Small THEN "NestedLoop" ELSE "Hash"
RECURSIVE Optimize(_)
Optimize(p) ==
    IF p.op = "Scan" THEN [op |-> "SeqScan", rows |-> EstimateRows(p)]
    ELSE IF p.op = "Join"
         THEN LET l == Optimize(p.left)  r == Optimize(p.right)
              IN  [op |-> ChooseJoinMethod(l, r), rows |-> (l.rows * r.rows) \div 100, left |-> l, right |-> r]
         ELSE LET in == Optimize(p.input)
              IN  [op |-> p.op, input |-> in,
                   rows |-> CASE p.op = "Filter" -> in.rows \div 10 [] p.op = "Aggregate" -> Sqrt(in.rows)
                              [] p.op = "Limit" -> Least(in.rows, p.count) [] OTHER -> in.rows]

IsSortNode(p) == p.op = "Sort"
ChooseJoinMethodSpec(l, r, c) == IF ~IsEqui(c) THEN "NestedLoop" ELSE IF IsSortNode(l) /\ IsSortNode(r) THEN "Merge" ELSE "Hash"

\* choose_scan_op: an index scan keeps the column, not the comparison
ChooseScanOp(t, pred) == IF \E w \in ToSet(pred) : w \in Indexed /\ t \in Refs(w) THEN "IndexScan" ELSE "SeqScan"

\* The costs of cost.rs, in thousandths; a sort is charged at most its rows
\* times their number of bits
JoinCost(method, l, r) == IF method = "NestedLoop" THEN l * r * 10 ELSE (l + r) * 1000
SortCost(n) == 10 * n * Cardinality({k \in 0..20 : 2^k < n})

\* build_physical
RECURSIVE BuildPhysical(_)
BuildPhysical(p) ==
    IF p.op = "Scan"
    THEN LET op == ChooseScanOp(p.table, p.predicate)
         IN  [op |-> op, table |-> p.table, rows |-> IF op = "IndexScan" THEN 1 ELSE Rows(p.table),
              predicate |-> IF op = "IndexScan" THEN Nothing ELSE p.predicate,
              cost |-> IF op = "IndexScan" THEN 1000 ELSE Rows(p.table) * 10]
    ELSE IF p.op = "Join"
    THEN LET l == BuildPhysical(p.left)  r == BuildPhysical(p.right)
             method == ChooseJoinMethodSpec(p.left, p.right, p.condition)
         IN  [op |-> method, left |-> l, right |-> r, condition |-> p.condition,
              rows |-> (l.rows * r.rows) \div 100, cost |-> l.cost + r.cost + JoinCost(method, l.rows, r.rows)]
    ELSE LET in == BuildPhysical(p.input)
         IN  [op |-> p.op, input |-> in, logical |-> p,
              rows |-> CASE p.op = "Filter" -> in.rows \div 10 [] p.op = "Aggregate" -> Sqrt(in.rows)
                         [] p.op = "Limit" -> Least(in.rows, p.count) [] OTHER -> in.rows,
              cost |-> in.cost + CASE p.op = "Filter" -> in.rows [] p.op = "Aggregate" -> in.rows * 20
                                   [] p.op = "Sort" -> SortCost(in.rows) [] p.op = "Project" -> in.rows [] OTHER -> 0]
PhysicalPlan(p) == BuildPhysical(PushDownFilters(p))

-----------------------------------------------------------------------------
(* Plans grow from scans *)

PlanInit == \E t \in Table, p \in Predicates \cup {Nothing} : (p = Nothing \/ RefsOf(p) \subseteq {t}) /\ plan = Scan(t, p)
AddFilter(p) == plan' = Filter(plan, p)
AddUnary(op, t) == plan' = Unary(op, plan, t)
AddLimit(n) == plan' = Limit(plan, n)
AddJoin(t, sorted, c) == /\ t \notin TableNames(plan)
                         /\ plan' = JoinOf(plan, IF sorted THEN Unary("Sort", Scan(t, Nothing), t) ELSE Scan(t, Nothing), c)
PlanNext == /\ Nodes(plan) < MaxNodes
            /\ \/ \E p \in Predicates : AddFilter(p)
               \/ \E op \in {"Project", "Sort", "Aggregate"}, t \in Table : AddUnary(op, t)
               \/ AddLimit(1)
               \/ \E t \in Table, sorted \in BOOLEAN, c \in Conditions : AddJoin(t, sorted, c)
PlanSpec == PlanInit /\ [][PlanNext]_plan

-----------------------------------------------------------------------------
(* What a plan means *)

\* "and" binds tighter than "or"
Clauses(p) == FoldLeft(LAMBDA acc, w : IF w = "or" THEN Append(acc, {}) ELSE IF w = "and" THEN acc
                                       ELSE ReplaceAt(acc, Len(acc), Last(acc) \cup {w}), <<{}>>, p)
Truth(p, row) == p = Nothing \/ \E c \in ToSet(Clauses(p)) : \A w \in c : Refs(w) \subseteq DOMAIN row /\ Meaning(w, row)
Only(row, ts) == [t \in DOMAIN row \cap ts |-> row[t]]

SortOn(rows, t) ==
    LET key(i) == IF t \in DOMAIN rows[i] THEN rows[i][t] ELSE 0
        place(i) == 1 + Cardinality({j \in DOMAIN rows : key(j) < key(i) \/ (key(j) = key(i) /\ j < i)})
    IN  [n \in DOMAIN rows |-> rows[CHOOSE i \in DOMAIN rows : place(i) = n]]
Groups(rows, t) == FoldLeft(LAMBDA acc, row : IF Contains(acc, Only(row, {t})) THEN acc ELSE Append(acc, Only(row, {t})), <<>>, rows)

RECURSIVE Eval(_)
Eval(p) ==
    CASE p.op = "Scan" -> SelectSeq([i \in DOMAIN Data[p.table] |-> [t \in {p.table} |-> Data[p.table][i]]], LAMBDA row : Truth(p.predicate, row))
      [] p.op = "Filter" -> SelectSeq(Eval(p.input), LAMBDA row : Truth(p.predicate, row))
      [] p.op = "Project" -> [i \in DOMAIN Eval(p.input) |-> Only(Eval(p.input)[i], {p.arg})]
      [] p.op = "Sort" -> SortOn(Eval(p.input), p.arg)
      [] p.op = "Aggregate" -> Groups(Eval(p.input), p.arg)
      [] p.op = "Limit" -> SubSeq(Eval(p.input), 1, Least(p.count, Len(Eval(p.input))))
      [] p.op = "Join" ->
           LET l == Eval(p.left)  r == Eval(p.right)
           IN  FlattenSeq([i \in DOMAIN l |->
                 LET m == SelectSeq(r, LAMBDA row : Truth(p.condition, [t \in DOMAIN l[i] \cup DOMAIN row |-> IF t \in DOMAIN row THEN row[t] ELSE l[i][t]]))
                 IN  [j \in DOMAIN m |-> [t \in DOMAIN l[i] \cup DOMAIN m[j] |-> IF t \in DOMAIN m[j] THEN m[j][t] ELSE l[i][t]]]])

RECURSIVE Predicated(_)
Predicated(p) == (IF "predicate" \in DOMAIN p THEN {p.predicate} ELSE {}) \cup
                 (IF p.op = "Scan" THEN {} ELSE IF p.op = "Join" THEN Predicated(p.left) \cup Predicated(p.right) ELSE Predicated(p.input))
NoOr == \A p \in Predicated(plan) : ~Contains(p, "or")

\* Pushing filters down does not change the rows a plan gives, nor their
\* order, through joins, limits, aggregates, projections and merged filters,
\* as long as no predicate holds an "or": split_and cuts at every "and".
PushdownSound == NoOr => Eval(PushDownFilters(plan)) = Eval(plan)

\* Afterwards no filter stands on a filter, none that stands on a join has a
\* conjunct about one side only, and pushing again changes nothing.
RECURSIVE Settled(_)
Settled(p) ==
    IF p.op = "Scan" THEN TRUE ELSE IF p.op = "Join" THEN Settled(p.left) /\ Settled(p.right)
    ELSE /\ Settled(p.input)
         /\ p.op = "Filter" => /\ p.input.op # "Filter"
                               /\ p.input.op = "Join" => \A c \in ToSet(SplitAnd(p.predicate)) :
                                    (RefsOf(c) \cap TableNames(p.input.left) # {}) = (RefsOf(c) \cap TableNames(p.input.right) # {})
PushdownComplete == /\ Settled(PushDownFilters(plan))
                    /\ PushDownFilters(PushDownFilters(plan)) = PushDownFilters(plan)

\* The two ways to estimate rows agree on every plan; the cost of a physical
\* plan is at least that of each of its inputs; a merge join is chosen for
\* equality conditions over two sorts only.
RECURSIVE CostsGrow(_)
CostsGrow(p) == IF "left" \in DOMAIN p THEN p.cost >= p.left.cost + p.right.cost /\ CostsGrow(p.left) /\ CostsGrow(p.right)
                                            /\ (p.op = "Merge" => IsEqui(p.condition) /\ p.left.op = "Sort" /\ p.right.op = "Sort")
                ELSE "input" \in DOMAIN p => p.cost >= p.input.cost /\ CostsGrow(p.input)
EstimatesAgree == Optimize(plan).rows = EstimateRows(plan) /\ CostsGrow(PhysicalPlan(plan))

QueryPlanSafe == PushdownSound /\ PushdownComplete /\ EstimatesAgree

-----------------------------------------------------------------------------
(***************************************************************************)
(* Statistics of the optimizer (cendb-optimizer/src/stats.rs): equi-depth  *)
(* histograms over sorted values, HyperLogLog sketches of a stream that is *)
(* split over two sketches, and range selectivity from the extremes.       *)
(* A selectivity is a pair of numerator and denominator.                   *)
(***************************************************************************)
CONSTANTS ColumnValue, MaxValues, BucketCounts,
          HashBits, Precision,   \* 64 and 4..20
          Hash, MaxHashes

VARIABLES sorted,                \* the values of the column
          sketches, seen         \* two register files; the hashes each was given
vars == <<sorted, sketches, seen>>

Registers == 0..(2^Precision - 1)

StatInit == sorted = <<>> /\ sketches = [s \in 1..2 |-> [i \in Registers |-> 0]] /\ seen = [s \in 1..2 |-> <<>>]
AddValue(v) == /\ Len(sorted) < MaxValues /\ (IF sorted = <<>> THEN TRUE ELSE v >= Last(sorted))
               /\ sorted' = Append(sorted, v) /\ UNCHANGED <<sketches, seen>>

\* The register is named by the first bits; the rank is that of the first one
\* bit among the rest
Rho(h) == LET w == h % 2^(HashBits - Precision)
          IN  IF w = 0 THEN HashBits - Precision + 1
              ELSE 1 + (HashBits - Precision) - (CHOOSE b \in 1..HashBits : 2^(b - 1) <= w /\ w < 2^b)
AddHash(s, h) ==
    /\ Len(seen[1]) + Len(seen[2]) < MaxHashes
    /\ LET idx == h \div 2^(HashBits - Precision) IN
       sketches' = [sketches EXCEPT ![s][idx] = IF Rho(h) > @ THEN Rho(h) ELSE @]
    /\ seen' = [seen EXCEPT ![s] = Append(@, h)] /\ UNCHANGED sorted

\* A mutant: the registers are added.
MergeSum(a, b) == [i \in DOMAIN a |-> a[i] + b[i]]
Merge(a, b) == [i \in DOMAIN a |-> IF b[i] > a[i] THEN b[i] ELSE a[i]]

StatNext == \/ \E v \in ColumnValue : seen = [s \in 1..2 |-> <<>>] /\ AddValue(v)
            \/ \E s \in 1..2, h \in Hash : sorted = <<>> /\ AddHash(s, h)
StatSpec == StatInit /\ [][StatNext]_vars

\* Histogram::build; a count is closed when a value reaches the next boundary,
\* one boundary for each value
Build(vs, buckets) ==
    LET size == Len(vs) \div (IF buckets = 0 THEN 1 ELSE buckets)
        inner == SelectSeq([i \in 1..(IF buckets = 0 THEN 0 ELSE buckets - 1) |-> i * size], LAMBDA k : k < Len(vs))
        bounds == <<Head(vs)>> \o [i \in DOMAIN inner |-> vs[inner[i] + 1]] \o <<Last(vs)>>
        step(st, v) == IF st.bucket + 1 <= Len(bounds) /\ v >= bounds[st.bucket + 1]
                       THEN [bucket |-> st.bucket + 1, count |-> 1, counts |-> Append(st.counts, st.count)]
                       ELSE [st EXCEPT !.count = @ + 1]
        done == FoldLeft(step, [bucket |-> 1, count |-> 0, counts |-> <<>>], vs)
    IN  IF vs = <<>> THEN [bounds |-> <<>>, counts |-> <<>>, total |-> 0]
        ELSE [bounds |-> bounds, counts |-> Append(done.counts, done.count), total |-> Len(vs)]

Total(s) == FoldLeft(+, 0, s)
SelectivityGe(h, val) ==
    IF h.total = 0 THEN <<333, 1000>>
    ELSE IF val <= h.bounds[1] THEN <<1, 1>>
    ELSE IF val > Last(h.bounds) THEN <<0, 1>>
    ELSE LET hits == {i \in DOMAIN h.counts : i + 1 <= Len(h.bounds) /\ val < h.bounds[i + 1]}
             i == Min(hits)
             width == h.bounds[i + 1] - h.bounds[i]
             after == Total(SubSeq(h.counts, i + 1, Len(h.counts)))
         IN  IF hits = {} THEN <<0, 1>>
             ELSE IF width = 0 THEN <<h.counts[i] + after, h.total>>
             ELSE <<h.counts[i] * (h.bounds[i + 1] - val) + after * width, h.total * width>>

\* selectivity_range from the least and the greatest value
SelectivityRange(min, max, val, greater) ==
    IF min = max THEN <<0, 1>>
    ELSE <<IF greater THEN (IF max > val THEN max - val ELSE 0) ELSE (IF val > min THEN val - min ELSE 0), max - min>>

-----------------------------------------------------------------------------
AtMost(p, q) == p[1] * q[2] <= q[1] * p[2]
Distinct == \A i, j \in DOMAIN sorted : sorted[i] = sorted[j] => i = j
AtLeast(val) == Cardinality({i \in DOMAIN sorted : sorted[i] >= val})

\* The counts of the buckets are those of all rows, and an estimate is a share
\* that never grows with the value, for every number of buckets, also when
\* there are more buckets than values.  When no value occurs twice, it is
\* exact at the inner boundaries and off by less than a bucket between them;
\* at the greatest value it is zero, though a row has it.
HistogramSound == \A buckets \in BucketCounts :
    LET h == Build(sorted, buckets) IN
    /\ Total(h.counts) = Len(sorted)
    /\ \A v, w \in ColumnValue : /\ AtMost(<<0, 1>>, SelectivityGe(h, v)) /\ AtMost(SelectivityGe(h, v), <<1, 1>>)
                                 /\ v <= w => AtMost(SelectivityGe(h, w), SelectivityGe(h, v))
    /\ (Distinct /\ Len(sorted) >= buckets /\ buckets > 0) => \A v \in ColumnValue :
         /\ (v # Last(sorted) /\ v \in ToSet(h.bounds)) => SelectivityGe(h, v)[1] * h.total = AtLeast(v) * SelectivityGe(h, v)[2]
         /\ LET bucket == Max(ToSet(h.counts)) IN
            /\ SelectivityGe(h, v)[1] * h.total <= (AtLeast(v) + bucket) * SelectivityGe(h, v)[2]
            /\ (AtLeast(v) - bucket) * SelectivityGe(h, v)[2] <= SelectivityGe(h, v)[1] * h.total

Sketch(hs) == [i \in Registers |-> Max({0} \cup {Rho(h) : h \in {g \in hs : g \div 2^(HashBits - Precision) = i}})]

\* A sketch depends on the set of hashes alone, and merging two sketches gives
\* the sketch of the union: order, repetition and split do not matter.
SketchesMerge == /\ \A s \in 1..2 : sketches[s] = Sketch(ToSet(seen[s]))
                 /\ Merge(sketches[1], sketches[2]) = Sketch(ToSet(seen[1]) \cup ToSet(seen[2]))

\* The share above and the share below a value between the extremes are the whole.
RangeShares == \A v \in ColumnValue : (sorted # <<>> /\ Head(sorted) < Last(sorted) /\ v \in Head(sorted)..Last(sorted)) =>
    LET up == SelectivityRange(Head(sorted), Last(sorted), v, TRUE)  down == SelectivityRange(Head(sorted), Last(sorted), v, FALSE)
    IN  up[1] + down[1] = up[2]

StatisticsSound == HistogramSound /\ SketchesMerge /\ RangeShares
=============================================================================
