------------------------------ MODULE Executor ------------------------------
(***************************************************************************)
(* The executor (cendb-executor): values, joins, operators that spill,     *)
(* vectorized operators and the stages of a pipeline.                      *)
(***************************************************************************)
EXTENDS Integers, Sequences, FiniteSets, SequencesExt, FiniteSetsExt

(***************************************************************************)
(* The values of the executor (cendb-core Value) with the equality and the *)
(* order that cendb-executor/src/join.rs and subquery.rs define on them: a *)
(* value is its kind's tag and a number.                                   *)
(***************************************************************************)
Value(kind, n) == [kind |-> kind, n |-> n]
Null == Value(0, 0)
Bool(b) == Value(1, IF b THEN 1 ELSE 0)
I64(n) == Value(2, n)
U64(n) == Value(3, n)

IsNull(v) == v.kind = 0

\* value_eq: NULL equals nothing, and values of two kinds differ
ValueEq(a, b) == ~IsNull(a) /\ ~IsNull(b) /\ a = b

\* value_cmp: NULL first, then by kind, then by value
ValueLess(a, b) == a.kind < b.kind \/ (a.kind = b.kind /\ ~IsNull(a) /\ a.n < b.n)

\* row.get(col): NULL for a row without the column
Get(row, col) == IF col \in DOMAIN row THEN row[col] ELSE Null

Occurrences(s, x) == Cardinality({i \in DOMAIN s : s[i] = x})
SameRows(s, t) == /\ Len(s) = Len(t)
                  /\ \A i \in DOMAIN s : Occurrences(s, s[i]) = Occurrences(t, s[i])

-----------------------------------------------------------------------------
(***************************************************************************)
(* The join algorithms of cendb-executor/src/join.rs on two inputs that    *)
(* grow row by row: hash join, nested loops and merge join.                *)
(***************************************************************************)
CONSTANTS JoinRow,       \* rows; the join column is LeftCol or RightCol
          LeftCol, RightCol,
          HashOf(_),     \* value_hash; two values may share a hash
          SmallRows,     \* bound under which auto_select_method takes the hash join
          MaxLeft, MaxRight

VARIABLES left, right
join_vars == <<left, right>>

JoinInit == left = <<>> /\ right = <<>>
JoinNext == \/ Len(left) < MaxLeft /\ right = <<>> /\ \E r \in JoinRow : left' = Append(left, r) /\ UNCHANGED right
            \/ Len(right) < MaxRight /\ \E r \in JoinRow : right' = Append(right, r) /\ UNCHANGED left
JoinSpec == JoinInit /\ [][JoinNext]_join_vars

\* hash_join: rows of the build side under their hash, in order; the probe
\* side asks for its hash and compares the keys
HashJoin(l, r) ==
    LET leftBuilds == Len(l) <= Len(r)
        build == IF leftBuilds THEN l ELSE r
        probe == IF leftBuilds THEN r ELSE l
        bcol  == IF leftBuilds THEN LeftCol ELSE RightCol
        pcol  == IF leftBuilds THEN RightCol ELSE LeftCol
        bucket(h) == SelectSeq(build, LAMBDA row : ~IsNull(Get(row, bcol)) /\ HashOf(Get(row, bcol)) = h)
        matching(row) == IF IsNull(Get(row, pcol)) THEN <<>>
                         ELSE SelectSeq(bucket(HashOf(Get(row, pcol))), LAMBDA b : ValueEq(Get(b, bcol), Get(row, pcol)))
        out(row) == [i \in DOMAIN matching(row) |-> IF leftBuilds THEN matching(row)[i] \o row ELSE row \o matching(row)[i]]
    IN  FlattenSeq([i \in DOMAIN probe |-> out(probe[i])])

NestedLoopJoin(l, r) ==
    FlattenSeq([i \in DOMAIN l |->
        LET matching == SelectSeq(r, LAMBDA row : ValueEq(Get(l[i], LeftCol), Get(row, RightCol)))
        IN  [j \in DOMAIN matching |-> l[i] \o matching[j]]])

RunEnd(s, col, i) == CHOOSE e \in i..Len(s) : /\ \A k \in i..e : Get(s[k], col) = Get(s[i], col)
                                              /\ e = Len(s) \/ Get(s[e + 1], col) # Get(s[i], col)

\* A mutant: a run on the right is passed row by row.
RECURSIVE MergeFromOneByOne(_, _, _, _)
MergeFromOneByOne(l, r, i, j) ==
    IF i > Len(l) \/ j > Len(r) THEN <<>>
    ELSE LET a == Get(l[i], LeftCol)  b == Get(r[j], RightCol)
         IN  IF IsNull(a) THEN MergeFromOneByOne(l, r, i + 1, j)
             ELSE IF IsNull(b) THEN MergeFromOneByOne(l, r, i, j + 1)
             ELSE IF ValueLess(a, b) THEN MergeFromOneByOne(l, r, i + 1, j)
             ELSE IF ValueLess(b, a) THEN MergeFromOneByOne(l, r, i, j + 1)
             ELSE <<l[i] \o r[j]>> \o MergeFromOneByOne(l, r, i, j + 1)

\* merge_join from rows i and j on: NULL keys are passed, a run of equal keys
\* on each side gives the product of the two
RECURSIVE MergeFrom(_, _, _, _)
MergeFrom(l, r, i, j) ==
    IF i > Len(l) \/ j > Len(r) THEN <<>>
    ELSE LET a == Get(l[i], LeftCol)  b == Get(r[j], RightCol)
         IN  IF IsNull(a) THEN MergeFrom(l, r, i + 1, j)
             ELSE IF IsNull(b) THEN MergeFrom(l, r, i, j + 1)
             ELSE IF ValueLess(a, b) THEN MergeFrom(l, r, i + 1, j)
             ELSE IF ValueLess(b, a) THEN MergeFrom(l, r, i, j + 1)
             ELSE LET li == RunEnd(l, LeftCol, i)  rj == RunEnd(r, RightCol, j)
                  IN  FlattenSeq([n \in 1..(li - i + 1) |-> [m \in 1..(rj - j + 1) |-> l[i + n - 1] \o r[j + m - 1]]])
                        \o MergeFrom(l, r, li + 1, rj + 1)
MergeJoin(l, r) == MergeFrom(l, r, 1, 1)

Join(l, r, method) == CASE method = "Hash" -> HashJoin(l, r)
                        [] method = "NestedLoop" -> NestedLoopJoin(l, r)
                        [] method = "Merge" -> MergeJoin(l, r)
AutoSelectMethod(leftSorted, rightSorted, l, r) ==
    IF leftSorted /\ rightSorted THEN "Merge"
    ELSE IF l < SmallRows \/ r < SmallRows THEN "Hash" ELSE "NestedLoop"
AutoJoin(l, r, leftSorted, rightSorted) == Join(l, r, AutoSelectMethod(leftSorted, rightSorted, Len(l), Len(r)))

-----------------------------------------------------------------------------
Sorted(s, col) == \A i \in 1..(Len(s) - 1) : ~ValueLess(Get(s[i + 1], col), Get(s[i], col))

\* Whatever method is chosen, a join gives the pairs of rows with equal keys,
\* each as often as it occurs, left before right: with NULL keys, rows that
\* lack the column, keys of two kinds, runs on both sides, hashes that
\* collide, either side the smaller.  The merge join needs sorted inputs only.
JoinsExact ==
    LET pairs == FlattenSeq([i \in DOMAIN left |-> [j \in DOMAIN right |-> <<left[i], right[j]>>]])
        equal == SelectSeq(pairs, LAMBDA p : Get(p[1], LeftCol) = Get(p[2], RightCol) /\ Get(p[1], LeftCol) # Null)
        expected == [i \in DOMAIN equal |-> equal[i][1] \o equal[i][2]]
    IN  \A ls, rs \in BOOLEAN : (ls => Sorted(left, LeftCol)) /\ (rs => Sorted(right, RightCol))
                                  => SameRows(AutoJoin(left, right, ls, rs), expected)

-----------------------------------------------------------------------------
(***************************************************************************)
(* The external merge sort and the hybrid hash join of                     *)
(* cendb-executor/src/morsel.rs, fed with interleaved pushes.              *)
(***************************************************************************)
CONSTANTS SortValue, RunSize, MaxPushed,
          JoinKey, PartitionCount, PartitionOf(_),   \* hash_partition
          MaxTuples

VARIABLES buffer, runs, pushed,                \* the sort; pushed: the values in order
          buildParts, probeParts, built, probed,
          results, executed
sortVars == <<buffer, runs, pushed>>
joinVars == <<buildParts, probeParts, built, probed, results, executed>>
ooc_vars == <<sortVars, joinVars>>

SortedSeq(s) == SortSeq(s, <)

OocInit == /\ buffer = <<>> /\ runs = <<>> /\ pushed = <<>>
           /\ buildParts = [p \in 1..PartitionCount |-> <<>>] /\ probeParts = buildParts
           /\ built = <<>> /\ probed = <<>> /\ results = <<>> /\ executed = FALSE

\* A run, sorted, and the empty buffer; nothing when the buffer is empty
Spill(b, rs) == IF b = <<>> THEN rs ELSE Append(rs, SortedSeq(b))

Push(v) == /\ Len(pushed) < MaxPushed
           /\ pushed' = Append(pushed, v)
           /\ LET b == Append(buffer, v) IN
              IF Len(b) >= RunSize THEN runs' = Spill(b, runs) /\ buffer' = <<>> ELSE buffer' = b /\ UNCHANGED runs
           /\ UNCHANGED joinVars

\* The heap holds one element of each run that is not used up; the least
\* value, then the least run, comes first
Merged(rs) ==
    LET total == FoldLeft(LAMBDA n, r : n + Len(r), 0, rs)
        take(st, n) == LET heap == {i \in DOMAIN rs : st.at[i] <= Len(rs[i])}
                           least == CHOOSE i \in heap : \A k \in heap : \/ rs[i][st.at[i]] < rs[k][st.at[k]]
                                                                        \/ rs[i][st.at[i]] = rs[k][st.at[k]] /\ i <= k
                       IN  [at |-> [st.at EXCEPT ![least] = @ + 1], out |-> Append(st.out, rs[least][st.at[least]])]
    IN  FoldLeft(take, [at |-> [i \in DOMAIN rs |-> 1], out |-> <<>>], [n \in 1..total |-> n]).out

\* A mutant: what is left in the buffer is not spilled.
FinishSpilledOnly == IF runs = <<>> THEN <<>> ELSE Merged(runs)

Finish == LET rs == Spill(buffer, runs)
          IN  IF rs = <<>> THEN <<>> ELSE IF Len(rs) = 1 THEN rs[1] ELSE Merged(rs)

AddBuild(t) == /\ Len(built) < MaxTuples /\ built' = Append(built, t)
               /\ buildParts' = [buildParts EXCEPT ![PartitionOf(t[1])] = Append(@, t)]
               /\ UNCHANGED <<sortVars, probeParts, probed, results, executed>>
AddProbe(t) == /\ Len(probed) < MaxTuples /\ probed' = Append(probed, t)
               /\ probeParts' = [probeParts EXCEPT ![PartitionOf(t[1])] = Append(@, t)]
               /\ UNCHANGED <<sortVars, buildParts, built, results, executed>>

\* execute takes the partitions: what it joined is gone for a later call
Execute ==
    LET ofPartition(p) == FlattenSeq([i \in DOMAIN probeParts[p] |->
          LET t == probeParts[p][i]
              bs == SelectSeq(buildParts[p], LAMBDA b : b[1] = t[1])
          IN  [k \in DOMAIN bs |-> <<bs[k][2], t[2]>>]])
    IN  /\ results' = results \o FlattenSeq([p \in 1..PartitionCount |-> ofPartition(p)])
        /\ buildParts' = [p \in 1..PartitionCount |-> <<>>] /\ probeParts' = buildParts'
        /\ executed' = TRUE
        /\ UNCHANGED <<sortVars, built, probed>>

OocNext == \/ built = <<>> /\ probed = <<>> /\ ~executed /\ \E v \in SortValue : Push(v)
           \/ pushed = <<>> /\ ~executed /\ \E k \in JoinKey :
                AddBuild(<<k, 10 + Len(built)>>) \/ AddProbe(<<k, 20 + Len(probed)>>)
           \/ pushed = <<>> /\ Execute
OocSpec == OocInit /\ [][OocNext]_ooc_vars

-----------------------------------------------------------------------------
Count(s, x) == Cardinality({i \in DOMAIN s : s[i] = x})

\* At every point of the pushes, finishing gives all values pushed so far, in
\* order: full runs, a part of a run, no run.
SortExact == /\ Len(Finish) = Len(pushed) /\ \A v \in SortValue : Count(Finish, v) = Count(pushed, v)
             /\ \A i \in 1..(Len(Finish) - 1) : Finish[i] <= Finish[i + 1]
             /\ \A r \in ToSet(runs) : Len(r) = RunSize

\* The partitioned join gives each pair of tuples with equal keys once, and a
\* second call gives nothing again.
PartitionedExact == executed =>
    LET pairs == {<<built[x[1]][2], probed[x[2]][2]>> :
                    x \in {y \in (DOMAIN built) \X (DOMAIN probed) : built[y[1]][1] = probed[y[2]][1]}}
    IN  ToSet(results) = pairs /\ Len(results) = Cardinality(pairs)

OutOfCoreExact == SortExact /\ PartitionedExact

-----------------------------------------------------------------------------
(***************************************************************************)
(* Vectorized filters and aggregates (cendb-executor/src/vector.rs), the   *)
(* morsels they run on (morsel.rs) and the compiled filters of             *)
(* cendb-jit/src/lib.rs.  A column holds bit patterns; FloatOf gives the   *)
(* number a pattern means, Nan for no number: two patterns may mean the    *)
(* same number.  Integers are words of W bits.                             *)
(***************************************************************************)
CONSTANTS Pattern, FloatOf(_), Nan,
          Batch,          \* 8: elements handled at once
          W, MorselSize, MaxRows

VARIABLES morsels,        \* the full ones
          open            \* the one being filled
vec_vars == <<morsels, open>>

VecInit == morsels = <<>> /\ open = <<>>
\* push_row; a full morsel is handed on
PushRow(v) == /\ Len(FlattenSeq(morsels)) + Len(open) < MaxRows
              /\ LET m == Append(open, v) IN
                 IF Len(m) >= MorselSize THEN morsels' = Append(morsels, m) /\ open' = <<>> ELSE open' = m /\ UNCHANGED morsels
VecNext == \E v \in Pattern : PushRow(v)
VecSpec == VecInit /\ [][VecNext]_vec_vars

Wrap(n) == ((n + 2^(W - 1)) % 2^W) - 2^(W - 1)
Holds(op, a, b) == CASE op = "Eq" -> a = b [] op = "Ne" -> a # b [] op = "Gt" -> a > b
                     [] op = "Ge" -> a >= b [] op = "Lt" -> a < b [] op = "Le" -> a <= b
Ops == {"Eq", "Ne", "Gt", "Ge", "Lt", "Le"}

\* filter_i64_*: the positions, from 0, that pass
FilterI64(col, op, val) == SelectSeq([i \in DOMAIN col |-> i - 1], LAMBDA i : Holds(op, col[i + 1], val))

FloatHolds(op, bits, threshold) == FloatOf(bits) # Nan /\ FloatOf(threshold) # Nan /\ Holds(op, FloatOf(bits), FloatOf(threshold))

\* A mutant: the remainder is counted from the start of the column.
FilterF64BaseLost(col, op, threshold) ==
    LET whole == (Len(col) \div Batch) * Batch
        batch(b) == SelectSeq([j \in 1..Batch |-> (b - 1) * Batch + j], LAMBDA i : FloatHolds(op, col[i], threshold))
        chunks == FlattenSeq([b \in 1..(Len(col) \div Batch) |-> batch(b)])
        rest == SelectSeq([j \in 1..(Len(col) - whole) |-> j], LAMBDA j : FloatHolds(op, col[whole + j], threshold))
    IN  [i \in DOMAIN (chunks \o rest) |-> (chunks \o rest)[i] - 1]

\* filter_f64_gt, lt, ge, le: batches, then the remainder from base on;
\* filter_f64_eq compares bit patterns
FilterF64(col, op, threshold) ==
    LET whole == (Len(col) \div Batch) * Batch
        batch(b) == SelectSeq([j \in 1..Batch |-> (b - 1) * Batch + j], LAMBDA i : FloatHolds(op, col[i], threshold))
        chunks == FlattenSeq([b \in 1..(Len(col) \div Batch) |-> batch(b)])
        rest == SelectSeq([j \in 1..(Len(col) - whole) |-> whole + j], LAMBDA i : FloatHolds(op, col[i], threshold))
    IN  IF op = "Eq" THEN FilterI64(col, "Eq", threshold)
        ELSE [i \in DOMAIN (chunks \o rest) |-> (chunks \o rest)[i] - 1]

\* sum_i64; sum_f64 with one accumulator per place in the batch
SumI64(col) == FoldLeft(LAMBDA a, b : Wrap(a + b), 0, col)
SumF64(col) ==
    LET whole == (Len(col) \div Batch) * Batch
        lane(k) == FoldLeft(LAMBDA a, i : a + FloatOf(col[i]), 0, SelectSeq([i \in 1..whole |-> i], LAMBDA i : i % Batch = k % Batch))
        total == FoldLeft(LAMBDA a, k : a + lane(k), 0, [k \in 1..Batch |-> k])
    IN  FoldLeft(LAMBDA a, i : a + FloatOf(col[i]), total, [i \in 1..(Len(col) - whole) |-> whole + i])

GatherI64(col, sel) == [i \in DOMAIN sel |-> col[sel[i] + 1]]

\* The loop compile_filter emits: i and count in variables, out written at count
CompiledFilter(col, op, val) ==
    LET step(st, i) == IF Holds(op, col[i + 1], val) THEN [count |-> st.count + 1, out |-> [st.out EXCEPT ![st.count + 1] = i]] ELSE st
        done == FoldLeft(step, [count |-> 0, out |-> [i \in DOMAIN col |-> 0]], [i \in DOMAIN col |-> i - 1])
    IN  SubSeq(done.out, 1, done.count)

\* JitPlan::execute: the positions that pass every filter
JitPlan(col, filters) ==
    FoldLeft(LAMBDA sel, f : SelectSeq(sel, LAMBDA i : i \in ToSet(CompiledFilter(col, f[1], f[2]))),
             [i \in DOMAIN col |-> i - 1], filters)

-----------------------------------------------------------------------------
Column == FlattenSeq(Append(morsels, open))
Numbers == \A i \in DOMAIN Column : FloatOf(Column[i]) # Nan
OneZero == \A v, w \in ToSet(Column) \cup Pattern : FloatOf(v) = FloatOf(w) => v = w \/ v \notin ToSet(Column)

\* Batching and compiling select the positions a plain scan selects, in order,
\* for every length around the size of a batch; equality is that of bits, so it
\* agrees with >= and <= only while no number has two patterns and none is NaN.
FiltersExact == \A op \in Ops, val \in Pattern :
    LET plain(P(_)) == SelectSeq([i \in DOMAIN Column |-> i - 1], LAMBDA i : P(Column[i + 1])) IN
    /\ CompiledFilter(Column, op, val) = FilterI64(Column, op, val)
    /\ op \in {"Gt", "Lt", "Ge", "Le"} => FilterF64(Column, op, val) = plain(LAMBDA v : FloatHolds(op, v, val))
    /\ (Numbers /\ OneZero /\ FloatOf(val) # Nan)
         => ToSet(FilterF64(Column, "Eq", val)) = ToSet(FilterF64(Column, "Ge", val)) \cap ToSet(FilterF64(Column, "Le", val))
    /\ \A op2 \in {"Gt", "Ne"} : GatherI64(Column, JitPlan(Column, <<<<op, val>>, <<op2, 0>>>>))
                                    = SelectSeq(Column, LAMBDA v : Holds(op, v, val) /\ Holds(op2, v, 0))

\* Sums do not depend on how the rows were cut into morsels or batches.
SumsExact == /\ SumI64(Column) = Wrap(FoldLeft(LAMBDA n, m : n + SumI64(m), 0, Append(morsels, open)))
             /\ SumI64(Column) = Wrap(FoldLeft(+, 0, Column))
             /\ Numbers => SumF64(Column) = FoldLeft(LAMBDA n, v : n + FloatOf(v), 0, Column)
             /\ \A m \in ToSet(morsels) : Len(m) = MorselSize
VectorOpsExact == FiltersExact /\ SumsExact

-----------------------------------------------------------------------------
(***************************************************************************)
(* Pipelines (cendb-executor/src/subquery.rs): stages applied one after    *)
(* the other to materialised rows with their column names, expressions,    *)
(* FROM and IN subqueries.  A name is a qualifier, possibly "", and a bare *)
(* name.  Err stands for an error result.  A pipeline grows stage by stage.*)
(***************************************************************************)
CONSTANTS Tables,        \* name -> [rows, cols]: the provider; cols = Unknown without metadata
          Stages,        \* the stages a pipeline may be extended with
          MaxStages

VARIABLE pipeline        \* sequence of stages

Unknown == <<[q |-> "?", b |-> "?"]>>       \* no column metadata
Err == [rows |-> <<>>, cols |-> Unknown, ok |-> FALSE]
Result(rows, cols) == [rows |-> rows, cols |-> cols, ok |-> TRUE]

\* A mutant: a name that is not a column is no error and no column.
ColumnOfStrict(cols, name, default) ==
    IF cols = Unknown THEN default
    ELSE LET hits == {i \in DOMAIN cols : cols[i] = name}
         IN  IF hits = {} THEN 1 ELSE CHOOSE i \in hits : \A k \in hits : i <= k

\* The first column with the name or the bare name; the first when there is none
ColumnOf(cols, name, default) ==
    IF cols = Unknown THEN default
    ELSE LET hits == {i \in DOMAIN cols : cols[i] = name \/ cols[i].b = name.b}
         IN  IF hits = {} THEN 1 ELSE CHOOSE i \in hits : \A k \in hits : i <= k

Toward0(a, b) == IF a < 0 THEN -((-a) \div b) ELSE a \div b     \* for b > 0

\* eval_arith on I64, far from its bounds; anything else is NULL, and so is division by zero
Arith(op, l, r) == IF l.kind # 2 \/ r.kind # 2 \/ (op = "Div" /\ r.n = 0) THEN Null
                   ELSE I64(CASE op = "Add" -> l.n + r.n [] op = "Sub" -> l.n - r.n [] op = "Mul" -> l.n * r.n
                              [] op = "Div" -> IF r.n < 0 THEN Toward0(-l.n, -r.n) ELSE Toward0(l.n, r.n))
IsTrue(v) == v = Bool(TRUE)

\* eval_binary: NULL makes comparisons and connectives false, arithmetic NULL
EvalBinary(op, l, r) ==
    IF op \in {"Add", "Sub", "Mul", "Div"} THEN Arith(op, l, r)
    ELSE IF IsNull(l) \/ IsNull(r) THEN Bool(FALSE)
    ELSE Bool(CASE op = "Eq" -> ValueEq(l, r) [] op = "Ne" -> ~ValueEq(l, r)
                [] op = "Lt" -> ValueLess(l, r) [] op = "Ge" -> ~ValueLess(l, r)
                [] op = "Gt" -> ValueLess(r, l) [] op = "Le" -> ~ValueLess(r, l)
                [] op = "And" -> IsTrue(l) /\ IsTrue(r) [] op = "Or" -> IsTrue(l) \/ IsTrue(r))

Bad == Value(99, 0)      \* the error result of an expression

RECURSIVE EvalExpr(_, _, _), Run(_)
EvalExpr(e, row, cols) ==
    CASE e.op = "Column" -> Get(row, ColumnOf(cols, e.name, 1))
      [] e.op = "Const" -> e.value
      [] e.op = "Binary" -> LET l == EvalExpr(e.lhs, row, cols)  r == EvalExpr(e.rhs, row, cols)
                            IN  IF Bad \in {l, r} THEN Bad ELSE EvalBinary(e.bin, l, r)
      [] e.op = "Call" -> Bad
      [] e.op = "In" -> LET sub == Run(e.subquery)
                            set == {Get(sub.rows[i], 1) : i \in DOMAIN sub.rows} \ {Null}
                            probe == EvalExpr(e.value, row, cols)
                        IN  IF ~sub.ok \/ probe = Bad THEN Bad ELSE Bool(probe \in set)

\* A sort is stable
StableSort(rows, idx, desc) ==
    LET before(i, j) == LET a == Get(rows[i], idx)  b == Get(rows[j], idx)
                        IN  IF desc THEN ValueLess(b, a) \/ (~ValueLess(a, b) /\ i < j)
                                    ELSE ValueLess(a, b) \/ (~ValueLess(b, a) /\ i < j)
        place(i) == 1 + Cardinality({j \in DOMAIN rows : before(j, i)})
    IN  [n \in DOMAIN rows |-> rows[CHOOSE i \in DOMAIN rows : place(i) = n]]

ExecuteStage(stage, in) ==
    CASE stage.op = "From" -> IF stage.table \in DOMAIN Tables THEN Result(Tables[stage.table].rows, Tables[stage.table].cols) ELSE Err
      [] stage.op = "FromSubquery" -> Run(stage.pipeline)
      [] stage.op = "Filter" ->
           LET v(i) == EvalExpr(stage.expr, in.rows[i], in.cols)
           IN  IF \E i \in DOMAIN in.rows : v(i) = Bad THEN Err
               ELSE Result(SelectSeq(in.rows, LAMBDA row : IsTrue(EvalExpr(stage.expr, row, in.cols))), in.cols)
      [] stage.op = "Select" ->
           LET idx == [k \in DOMAIN stage.columns |-> ColumnOf(in.cols, stage.columns[k], k)]
           IN  Result([i \in DOMAIN in.rows |-> [k \in DOMAIN idx |-> Get(in.rows[i], idx[k])]], stage.columns)
      [] stage.op = "Sort" -> Result(StableSort(in.rows, ColumnOf(in.cols, stage.column, 1), stage.desc), in.cols)
      [] stage.op = "Take" -> Result(SubSeq(in.rows, 1, IF stage.n < Len(in.rows) THEN stage.n ELSE Len(in.rows)), in.cols)
      [] stage.op = "Other" -> Err     \* join, group_by, window, match, return

Run(stages) == FoldLeft(LAMBDA in, stage : IF in.ok THEN ExecuteStage(stage, in) ELSE Err, Result(<<>>, Unknown), stages)

PipeInit == pipeline = <<>>
AddStage(stage) == /\ Len(pipeline) < MaxStages
                   /\ (pipeline = <<>>) = (stage.op \in {"From", "FromSubquery"})
                   /\ pipeline' = Append(pipeline, stage)
PipeNext == \E stage \in Stages : AddStage(stage)
PipeSpec == PipeInit /\ [][PipeNext]_pipeline

-----------------------------------------------------------------------------
Out == Run(pipeline)
WithStage(s) == Run(Append(pipeline, s))
Then(s, t) == Run(pipeline \o <<s, t>>)
Of(op) == {s \in Stages : s.op = op}

\* Filters commute with each other and with sorts, and a cut to n rows is what
\* the longer cut begins with: stages have no effect but on their own rows.
StagesCommute == Out.ok =>
    \A f, g \in Of("Filter") : /\ Then(f, g) = Then(g, f) \/ ~Then(f, g).ok \/ ~Then(g, f).ok
                               /\ \A s \in Of("Sort") : Then(f, s).rows = Then(s, f).rows
                               /\ \A t \in Of("Take") : IsPrefix(WithStage(t).rows, Out.rows)

\* A sort orders the rows by the column, NULLs first when ascending and last
\* when descending, loses none and keeps the order of equal rows.
SortsRight == Out.ok => \A s \in Of("Sort") :
    LET r == WithStage(s).rows
        key(row) == Get(row, ColumnOf(Out.cols, s.column, 1))
    IN  /\ SameRows(r, Out.rows)
        /\ \A i, j \in DOMAIN r : i < j => ~ValueLess(IF s.desc THEN key(r[i]) ELSE key(r[j]), IF s.desc THEN key(r[j]) ELSE key(r[i]))
        /\ \A v \in {key(row) : row \in ToSet(r)} :
             SelectSeq(r, LAMBDA row : key(row) = v) = SelectSeq(Out.rows, LAMBDA row : key(row) = v)

\* x in (subquery) keeps the rows that an equality join with the first column
\* of the subquery keeps: a NULL on either side matches nothing.
InIsSemijoin == Out.ok => \A f \in {s \in Of("Filter") : s.expr.op = "In"} :
    LET sub == Run(f.expr.subquery) IN
    (sub.ok /\ WithStage(f).ok) => WithStage(f).rows = SelectSeq(Out.rows, LAMBDA row :
        \E i \in DOMAIN sub.rows : ValueEq(EvalExpr(f.expr.value, row, Out.cols), Get(sub.rows[i], 1)))

\* A pipeline that only scans, filters, sorts and cuts gives rows of its
\* table; after a select, each value comes from the column of that bare name,
\* when no two columns share one and every name is a column.
SelectsNamed == (Out.ok /\ Out.cols # Unknown) => \A s \in Of("Select") :
    (/\ \A i, j \in DOMAIN Out.cols : Out.cols[i].b = Out.cols[j].b => i = j
     /\ \A k \in DOMAIN s.columns : \E i \in DOMAIN Out.cols : Out.cols[i].b = s.columns[k].b)
    => LET r == WithStage(s) IN
       /\ r.ok /\ Len(r.rows) = Len(Out.rows) /\ r.cols = s.columns
       /\ \A i \in DOMAIN r.rows : \A k \in DOMAIN s.columns : \A c \in DOMAIN Out.cols :
            Out.cols[c].b = s.columns[k].b => r.rows[i][k] = Get(Out.rows[i], c)

PipelineSafe == StagesCommute /\ SortsRight /\ InIsSemijoin /\ SelectsNamed
=============================================================================
