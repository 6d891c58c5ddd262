------------------------------- MODULE MCQuery -------------------------------
(***************************************************************************)
(* The buffer pool, the CenQL parser, the executor, the optimizer, the RDF *)
(* store and the spatial functions for TLC.  They share no state in this   *)
(* code base, so a behaviour is one of any of them: part says of which, the*)
(* others stand still in one of their initial states.                      *)
(***************************************************************************)
EXTENDS BufferPool, TLC

VARIABLES part,
          left, right,
          buffer, runs, pushed, buildParts, probeParts, built, probed, results, executed,
          morsels, open,
          pipeline,
          plan,
          sorted, sketches, seen,
          triples, idx, query, input, damage,
          entries, probe, pts,
          stmt, text, harm, lost

join_vars == <<left, right>>
outofcore_vars == <<buffer, runs, pushed, buildParts, probeParts, built, probed, results, executed>>
vector_vars == <<morsels, open>>
statistics_vars == <<sorted, sketches, seen>>
rdf_vars == <<triples, idx, query, input, damage>>
spatial_vars == <<entries, probe, pts>>
cenql_vars == <<stmt, text, harm, lost>>

-----------------------------------------------------------------------------
(* Rows, stages and expressions of the executor. *)
I64(n) == [kind |-> 2, n |-> n]
U64(n) == [kind |-> 3, n |-> n]
Null == [kind |-> 0, n |-> 0]

\* Rows with and without the join column, a NULL, and 1 as two kinds of value
MCRows == {<<I64(1), I64(7)>>, <<I64(2)>>, <<U64(1)>>, <<Null>>, <<>>, <<I64(1)>>}
MCHashOf(v) == v.n % 2
MCFloatOf(v) == CASE v = 3 -> 100 [] v = -2 -> 0 [] OTHER -> v    \* 3 is a NaN and -2 is -0.0
MCPartitionOf(k) == (k % 2) + 1

Name(q, n) == [q |-> q, b |-> n]
A == Name("", "a")
B == Name("t", "b")
Row(x, y) == <<I64(x), y>>
MCTables ==
    [t \in {"t", "u"} |->
        IF t = "t" THEN [rows |-> <<Row(1, I64(3)), Row(2, Null), Row(1, I64(-1)), <<Null, I64(2)>>>>,
                         cols |-> <<Name("t", "a"), Name("t", "b")>>]
        ELSE [rows |-> <<Row(2, I64(5)), <<Null>>, Row(3, I64(1))>>, cols |-> <<Name("?", "?")>>]]

Column(n) == [op |-> "Column", name |-> n]
Const(v) == [op |-> "Const", value |-> v]
Binary(bin, l, r) == [op |-> "Binary", bin |-> bin, lhs |-> l, rhs |-> r]
From(t) == [op |-> "From", table |-> t]
Filter(e) == [op |-> "Filter", expr |-> e]
Select(cs) == [op |-> "Select", columns |-> cs]
SortBy(n, d) == [op |-> "Sort", column |-> n, desc |-> d]
Take(n) == [op |-> "Take", n |-> n]
Number(n) == Const(I64(n))
MCStages ==
    {From("t"), From("u"), From("missing"), [op |-> "FromSubquery", pipeline |-> <<From("t"), Select(<<B, A>>)>>],
     Filter(Binary("Gt", Column(A), Number(1))),
     Filter(Binary("Or", Binary("Ne", Column(A), Number(1)), Binary("Le", Binary("Add", Column(A), Column(B)), Number(4)))),
     Filter([op |-> "In", value |-> Column(A), subquery |-> <<From("t"), Filter(Binary("Ge", Column(B), Number(0)))>>]),
     Filter([op |-> "In", value |-> Column(B), subquery |-> <<From("missing")>>]),
     Filter(Binary("Eq", Binary("Div", Column(A), Number(0)), Number(0))),
     Filter([op |-> "Call"]),
     Select(<<B, A>>), Select(<<B>>),
     SortBy(A, FALSE), SortBy(B, TRUE), Take(2), Take(9), [op |-> "Other"]}

Exec == INSTANCE Executor WITH JoinRow <- MCRows, LeftCol <- 1, RightCol <- 1, HashOf <- MCHashOf,
                               SmallRows <- 3, MaxLeft <- 3, MaxRight <- 3,
                               SortValue <- 1..3, RunSize <- 2, MaxPushed <- 5, JoinKey <- 1..3,
                               PartitionCount <- 2, PartitionOf <- MCPartitionOf, MaxTuples <- 2,
                               Pattern <- {-2, 0, 1, 2, 3}, FloatOf <- MCFloatOf, Nan <- 100, Batch <- 2, W <- 3,
                               MorselSize <- 2, MaxRows <- 4,
                               Tables <- MCTables, Stages <- MCStages, MaxStages <- 3

-----------------------------------------------------------------------------
(* Tables and predicates of the optimizer, columns of its statistics. *)
MCData == [t \in {"a", "b", "c"} |-> CASE t = "a" -> <<2, 1, 2>> [] t = "b" -> <<1, 2>> [] t = "c" -> <<1>>]
MCRefs(w) == CASE w = "a=2" -> {"a"} [] w = "b=1" -> {"b"} [] w = "a=b" -> {"a", "b"} [] w = "true" -> {}
MCMeaning(w, row) == CASE w = "a=2" -> row["a"] = 2 [] w = "b=1" -> row["b"] = 1
                       [] w = "a=b" -> row["a"] = row["b"] [] w = "true" -> TRUE
MCIsEqui(w) == w = <<"a=b">>

Opt == INSTANCE Optimizer WITH Table <- {"a", "b", "c"}, Data <- MCData, RowCount <- ("a" :> 200),
                               Predicates <- {<<"a=2">>, <<"a=b", "and", "b=1">>, <<"a=2", "or", "b=1">>},
                               Conditions <- {<<"a=b">>, <<"true">>}, Refs <- MCRefs, Meaning <- MCMeaning,
                               IsEqui <- MCIsEqui, Indexed <- {"a=2"}, Small <- 100, MaxNodes <- 4,
                               ColumnValue <- {1, 2, 4, 5, 6}, MaxValues <- 5, BucketCounts <- {0, 1, 2, 3, 7},
                               HashBits <- 4, Precision <- 1, Hash <- {0, 1, 2, 5, 8, 11}, MaxHashes <- 3

-----------------------------------------------------------------------------
(* Triples and queries: a term is a kind, a name and, of a literal, a number. *)
NoNum == -99
NoLimit == 99
Term(kind, lex, num) == [kind |-> kind, lex |-> lex, num |-> num]
Uri(n) == Term("uri", n, NoNum)
Var(n) == Term("var", n, NoNum)
Blank(n) == Term("blank", n, NoNum)
Literal(n, v) == Term("literal", n, v)
Op(n) == Term("op", n, NoNum)
Num(n) == Term("number", 0, n)
MCTriples == {<<Uri(1), Uri(2), Uri(1)>>, <<Uri(1), Uri(2), Uri(3)>>, <<Uri(3), Uri(2), Blank(1)>>,
              <<Uri(3), Uri(4), Literal(5, 4)>>, <<Blank(1), Uri(4), Literal(6, 7)>>}
SelectAll(patterns, filters, limit) ==
    [select |-> <<>>, all |-> TRUE, patterns |-> patterns, filters |-> filters, limit |-> limit]
SelectVars(vs, patterns, filters, limit) ==
    [select |-> vs, all |-> FALSE, patterns |-> patterns, filters |-> filters, limit |-> limit]
MCQueries ==
    {SelectAll(<<<<Var(1), Uri(2), Var(1)>>>>, <<>>, NoLimit),
     SelectVars(<<Var(1), Var(3)>>, <<<<Var(1), Uri(2), Var(2)>>, <<Var(2), Var(4), Var(3)>>>>, <<>>, NoLimit),
     SelectVars(<<Var(3)>>, <<<<Var(2), Uri(4), Var(3)>>, <<Var(1), Uri(2), Var(2)>>>>, <<<<Var(3), Op(3), Num(7)>>>>, 1),
     SelectVars(<<Var(2)>>, <<<<Var(1), Var(2), Var(3)>>>>,
                <<<<Var(3), Op(2), Term("iri", 3, NoNum)>>, <<Var(1), Op(5), Literal(2, NoNum)>>>>, NoLimit),
     SelectAll(<<<<Var(1), Var(2), Var(3)>>, <<Var(3), Var(2), Var(1)>>>>, <<<<Var(3), Op(1), Num(7)>>>>, 2),
     SelectVars(<<Var(1), Var(1)>>, <<<<Uri(1), Uri(2), Var(1)>>, <<Var(1), Var(2), Blank(1)>>>>, <<>>, 1),
     SelectVars(<<Var(5)>>, <<<<Uri(1), Uri(2), Uri(3)>>>>, <<>>, 0)}

Sparql == INSTANCE Rdf WITH Triples <- MCTriples, Queries <- MCQueries

-----------------------------------------------------------------------------
(* Geometries that touch, cross, lie in one another or apart. *)
Geometry(kind, ps, holes, parts) == [kind |-> kind, pts |-> ps, holes |-> holes, parts |-> parts]
Point(x, y) == Geometry("point", <<<<x, y>>>>, <<>>, <<>>)
Line(ps) == Geometry("line", ps, <<>>, <<>>)
Polygon(ps) == Geometry("polygon", ps, <<>>, <<>>)
Square(lo, hi) == <<<<lo, lo>>, <<hi, lo>>, <<hi, hi>>, <<lo, hi>>, <<lo, lo>>>>
MCGeometries ==
    {Point(0, 0), Point(2, 4),
     Line(<<<<0, 0>>, <<4, 4>>>>), Line(<<<<0, 4>>, <<4, 0>>>>), Line(<<<<4, 4>>, <<0, 0>>>>), Line(<<<<2, 2>>, <<6, 6>>>>),
     Line(<<<<2, 2>>, <<2, 4>>, <<8, 4>>>>), Line(<<>>),
     Polygon(Square(0, 6)), Polygon(Square(2, 4)), Polygon(<<<<2, -2>>, <<4, -2>>, <<4, 8>>, <<2, 8>>, <<2, -2>>>>),
     Geometry("polygon", Square(0, 6), <<Square(2, 4)>>, <<>>),
     Geometry("multipoint", <<>>, <<>>, <<Point(0, 0), Point(8, 8)>>),
     Geometry("multipolygon", <<>>, <<>>, <<Polygon(Square(0, 6)), Polygon(Square(6, 8))>>),
     Geometry("collection", <<>>, <<>>, <<Point(2, 2), Polygon(Square(4, 6))>>),
     Geometry("collection", <<>>, <<>>, <<>>)}

Space == INSTANCE Spatial WITH Grid <- {0, 2, 4} \X {0, 2, 4}, Geometries <- MCGeometries, Boxes <- {<<0, 0, 2, 2>>},
                               MaxEntries <- 2, MaxPoints <- 4, Radii <- {0, 2, 5}

-----------------------------------------------------------------------------
(* Statements of CenQL: every stage and pair of stages, nested operators. *)
Col(p) == [e |-> "Column", path |-> p]
Lit(k, t) == [e |-> "Literal", tok |-> [k |-> k, t |-> t]]
Bin(op, l, r) == [e |-> "Binary", op |-> op, lhs |-> l, rhs |-> r]
Fun(n, as) == [e |-> "Call", name |-> n, args |-> as]
ColA == Col(<<"a">>)
One == Lit("I64", "1")
Nested == {ColA, One} \cup {Bin(op, ColA, r) : op \in {"Or", "Eq", "Sub", "Mul"}, r \in {ColA, One}}
MCExprs == {Bin(op, l, r) : op \in {"Or", "And", "Lt", "Sub", "Div"}, l \in Nested, r \in Nested}
Source(n) == [s |-> "From", name |-> n]
Where(e) == [s |-> "Filter", expr |-> e]
OrderBy(path, dir) == [s |-> "Sort", column |-> path, dir |-> dir]
JoinOn(kind, e) == [s |-> "Join", kind |-> kind, source |-> "u", on |-> e]
Agg(n, f, as) == [name |-> n, func |-> f, args |-> as]
Windowed(kind, ds) == [s |-> "Window", kind |-> kind, durations |-> ds, on |-> <<"a">>, aggs |-> <<Agg("n", "count", <<>>)>>]
Match(label, type, hops, out) ==
    [s |-> "Match", start |-> [var |-> "n", label |-> label], out |-> out,
     edge |-> [type |-> type, hops |-> hops], end |-> [var |-> "m", label |-> <<>>]]
MCCenqlStages ==
    {Where(e) : e \in {ColA, Fun("f", <<>>), Bin("Ge", Fun("f", <<One, ColA>>), Col(<<"a", "b">>)),
                       Lit("F64", "2.0"), Lit("F64", "2.5"), Lit("Str", "x")}}
    \cup {[s |-> "Select", columns |-> <<<<"a">>, <<"a", "b">>>>], OrderBy(<<"a">>, "Asc"), OrderBy(<<"a", "b">>, "Desc"),
          [s |-> "Take", n |-> "2"], [s |-> "Take", n |-> "big"],
          JoinOn("Inner", Bin("Eq", ColA, One)), JoinOn("Left", ColA),
          [s |-> "GroupBy", key |-> <<"a">>, aggs |-> <<Agg("n", "count", <<>>), Agg("m", "sum", <<ColA>>)>>],
          Windowed("Tumbling", <<"5m">>), Windowed("Hopping", <<"5m", "1m">>),
          Match(<<>>, <<>>, <<"1", "1">>, TRUE), Match(<<"L">>, <<"T">>, <<"1", "2">>, FALSE),
          Match(<<"L">>, <<"T">>, <<"0", "0">>, TRUE)}
    \cup {[s |-> "Return", distinct |-> d, columns |-> <<<<"a">>, <<"b">>>>] : d \in BOOLEAN}
Pipelines == {<<Source(n)>> : n \in {<<"t">>, <<"t", "g">>}} \cup {<<Source(<<"t">>), Where(e)>> : e \in MCExprs}
             \cup {<<Source(<<"t">>), x>> : x \in MCCenqlStages}
             \cup {<<Source(<<"t">>), x, y>> : x \in MCCenqlStages, y \in MCCenqlStages}
SetOf(op, all) == [s |-> op, stages |-> <<Source(<<"t">>)>>, right |-> <<Source(<<"u">>), Where(ColA)>>, all |-> all]
Defined(n, type, nullable) == [name |-> n, type |-> type, nullable |-> nullable]
MCWheres == {<<>>, <<ColA>>, <<Bin("Eq", ColA, One)>>}
MCStatements ==
    {[s |-> "Query", stages |-> p] : p \in Pipelines}
    \cup {SetOf("union", FALSE), SetOf("union", TRUE), SetOf("intersect", FALSE), SetOf("except", FALSE),
          [s |-> "Distinct", stages |-> <<Source(<<"t", "g">>)>>],
          [s |-> "WithCte", name |-> "x", stages |-> <<Source(<<"t">>), Where(ColA)>>, right |-> <<Source(<<"x">>)>>],
          [s |-> "CreateView", name |-> "v", stages |-> <<Source(<<"t">>), OrderBy(<<"a">>, "Desc")>>],
          [s |-> "CreateTable", name |-> "t", columns |-> <<Defined("a", "i64", FALSE), Defined("b", "str", TRUE)>>, key |-> <<"a">>],
          [s |-> "CreateTable", name |-> "t", columns |-> <<Defined("a", "json", FALSE)>>, key |-> <<>>],
          [s |-> "CreateIndex", name |-> "i", table |-> "t", column |-> "a"],
          [s |-> "insert", table |-> "t", values |-> <<<<"a", One>>, <<"b", Bin("Mul", Bin("Add", One, One), ColA)>>>>],
          [s |-> "upsert", table |-> "t", values |-> <<<<"a", One>>>>]}
    \cup {[s |-> "Drop", what |-> w, name |-> "t"] : w \in {"table", "index", "view"}}
    \cup {[s |-> w] : w \in {"begin", "commit", "rollback"}}
    \cup {[s |-> "Update", table |-> "t", values |-> vs, where |-> w] :
              vs \in {<<<<"a", One>>>>, <<<<"a", ColA>>, <<"b", One>>>>}, w \in MCWheres}
    \cup {[s |-> "Delete", table |-> "t", where |-> w] : w \in MCWheres}
MCBits == [t \in {"0", "1", "2", "big"} |-> IF t = "big" THEN 64 ELSE 2]
MCRounded == [t \in {"2.0", "2.5"} |-> IF t = "2.0" THEN "2" ELSE ""]

Cenql == INSTANCE CenqlParser WITH Statements <- MCStatements, Bits <- MCBits, Rounded <- MCRounded,
                                   input <- text, damage <- harm

-----------------------------------------------------------------------------
SumInit == /\ part \in {"pool", "join", "outofcore", "vector", "pipeline", "plan", "statistics", "rdf", "spatial", "cenql"}
           /\ Init /\ Exec!JoinInit /\ Exec!OocInit /\ Exec!VecInit /\ Exec!PipeInit /\ Opt!StatInit
           /\ Opt!PlanInit /\ (part # "plan" => plan = Opt!Scan("a", Opt!Nothing))
           /\ Sparql!Init /\ (part # "rdf" => query = CHOOSE q \in MCQueries : TRUE)
           /\ (part # "rdf" => input = Sparql!Render(query, TRUE, TRUE))
           /\ Space!Init /\ (part # "spatial" => probe = Point(0, 0))
           /\ stmt \in IF part = "cenql" THEN MCStatements ELSE {[s |-> "begin"]}
           /\ Cenql!Init

SumNext ==
    /\ part' = part
    /\ IF part = "pool" THEN TRUE ELSE UNCHANGED vars
    /\ IF part = "join" THEN TRUE ELSE UNCHANGED join_vars
    /\ IF part = "outofcore" THEN TRUE ELSE UNCHANGED outofcore_vars
    /\ IF part = "vector" THEN TRUE ELSE UNCHANGED vector_vars
    /\ IF part = "pipeline" THEN TRUE ELSE UNCHANGED pipeline
    /\ IF part = "plan" THEN TRUE ELSE UNCHANGED plan
    /\ IF part = "statistics" THEN TRUE ELSE UNCHANGED statistics_vars
    /\ IF part = "rdf" THEN TRUE ELSE UNCHANGED rdf_vars
    /\ IF part = "spatial" THEN TRUE ELSE UNCHANGED spatial_vars
    /\ IF part = "cenql" THEN TRUE ELSE UNCHANGED cenql_vars
    /\ \/ part = "pool" /\ Next
       \/ part = "join" /\ Exec!JoinNext
       \/ part = "outofcore" /\ Exec!OocNext
       \/ part = "vector" /\ Exec!VecNext
       \/ part = "pipeline" /\ Exec!PipeNext
       \/ part = "plan" /\ Opt!PlanNext
       \/ part = "statistics" /\ Opt!StatNext
       \/ part = "rdf" /\ Sparql!Next
       \/ part = "spatial" /\ Space!Next
       \/ part = "cenql" /\ Cenql!Next

SumSpec == SumInit /\ [][SumNext]_<<part, vars, join_vars, outofcore_vars, vector_vars, pipeline, plan,
                                    statistics_vars, rdf_vars, spatial_vars, cenql_vars>>

\* Joins, the out-of-core sort and join, the batched filters and sums and the
\* stages of a pipeline give what their definitions over whole inputs give.
ExecutorSafe == /\ part = "join" => Exec!JoinsExact
                /\ part = "outofcore" => Exec!OutOfCoreExact
                /\ part = "vector" => Exec!VectorOpsExact
                /\ part = "pipeline" => Exec!PipelineSafe

\* Rewriting a plan keeps its rows, sketches and histograms stay sound when
\* merged, queries of triples return the solutions; the geometric algorithms
\* agree with their definitions, the spatial index loses no match, and the
\* predicates agree with each other.  A statement of CenQL comes back from its
\* text, and what is parsed from a damaged text is what the text says.  What the
\* plans run on is as exact: ExecutorSafe.
QuerySafe == /\ ExecutorSafe
             /\ part = "plan" => Opt!QueryPlanSafe
             /\ part = "statistics" => Opt!StatisticsSound
             /\ part = "rdf" => Sparql!RdfSafe
             /\ part = "spatial" => Space!SpatialSafe
             /\ part = "cenql" => Cenql!CenqlSafe
=============================================================================
