----------------------------- MODULE CenqlParser -----------------------------
(***************************************************************************)
(* The recursive-descent parser of CenQL (cendb-cenql/src/parser.rs) on    *)
(* the tokens of src/lexer.rs, and the Display of src/ast.rs.  A token is  *)
(* its kind and, of identifiers and literals, its text; the lexer's        *)
(* characters are left out, and so are upper-case spellings of keywords.   *)
(* A behaviour takes a statement, writes it down, and loses tokens of it.  *)
(***************************************************************************)
EXTENDS Integers, Sequences, SequencesExt, FiniteSetsExt

CONSTANTS Statements,    \* the statements that are written
          Bits,          \* of the text of an integer: the bits it takes
          Rounded        \* of the text of a float: the integer Display prints for it, or ""

VARIABLES stmt,          \* the statement
          input,         \* its tokens; Eof is the one after the last
          damage,        \* "none", "shown": written by Display, "cut", "drop"
          lost           \* the place of the token that was dropped, or 0
vars == <<stmt, input, damage, lost>>

Token(k, t) == [k |-> k, t |-> t]
Id(t) == Token("Ident", t)
P(k) == Token(k, "")

\* The syntax tree.  An absent name is <<>>, a present one <<name>>.
Column(path) == [e |-> "Column", path |-> path]
Literal(tok) == [e |-> "Literal", tok |-> tok]
Binary(op, l, r) == [e |-> "Binary", op |-> op, lhs |-> l, rhs |-> r]
Call(name, args) == [e |-> "Call", name |-> name, args |-> args]
BinaryOp == [Or |-> "Or", And |-> "And", EqEq |-> "Eq", NotEq |-> "Ne", Lt |-> "Lt", Le |-> "Le", Gt |-> "Gt", Ge |-> "Ge",
             Plus |-> "Add", Minus |-> "Sub", Star |-> "Mul", Slash |-> "Div"]
Comparisons == {"EqEq", "NotEq", "Lt", "Le", "Gt", "Ge"}
Query(stages) == [s |-> "Query", stages |-> stages]

-----------------------------------------------------------------------------
(* A parsing function takes a position and returns the next one with what  *)
(* it read, or Fail: the ? of the code is Then.                            *)
Ok(p, v) == [ok |-> TRUE, pos |-> p, val |-> v]
Fail == [ok |-> FALSE, pos |-> 0, val |-> <<>>]
Then(r, next(_, _)) == IF r.ok THEN next(r.pos, r.val) ELSE Fail

Kind(p) == IF p <= Len(input) THEN input[p].k ELSE "Eof"
IsWord(p, w) == Kind(p) = "Ident" /\ input[p].t = w
IsOneOf(p, ws) == Kind(p) = "Ident" /\ input[p].t \in ws
Advance(p) == IF p <= Len(input) THEN p + 1 ELSE p

Expect(p, kind) == IF Kind(p) = kind THEN Ok(Advance(p), input[p].t) ELSE Fail
ExpectIdent(p) == Expect(p, "Ident")
Word(p, w) == IF IsWord(p, w) THEN Ok(Advance(p), w) ELSE Fail      \* expect_ident, compared with a word
Optional(p, kind, parse(_)) == IF Kind(p) = kind
                               THEN Then(parse(Advance(p)), LAMBDA q, v : Ok(q, <<v>>)) ELSE Ok(p, <<>>)
Separated(p, sep, parse(_)) ==
    LET RECURSIVE rest(_, _)
        rest(q, vs) == Then(parse(q), LAMBDA r, v : IF Kind(r) = sep THEN rest(Advance(r), Append(vs, v))
                                                    ELSE Ok(r, Append(vs, v)))
    IN  rest(p, <<>>)
Between(p, open, parse(_), close) ==
    Then(Expect(p, open), LAMBDA q, o : Then(parse(q), LAMBDA r, v : Then(Expect(r, close), LAMBDA s, c : Ok(s, v))))
ExpectIdentOrPath(p) == Separated(p, "Dot", ExpectIdent)
\* text.parse: an integer of at most so many bits
ParseInteger(p, bits) == IF Kind(p) = "I64" /\ Bits[input[p].t] <= bits THEN Ok(Advance(p), input[p].t) ELSE Fail

-----------------------------------------------------------------------------
(* Expressions, by precedence. *)
LeftAssociative(p, ops, operand(_)) ==
    LET RECURSIVE more(_)
        more(r) == IF r.ok /\ Kind(r.pos) \in ops
                   THEN more(Then(operand(Advance(r.pos)), LAMBDA q, v : Ok(q, Binary(BinaryOp[Kind(r.pos)], r.val, v)))) ELSE r
    IN  more(operand(p))

\* A mutant: the right operand of an operator takes all that follows.
RightAssociative(p, ops, operand(_)) ==
    LET RECURSIVE from(_)
        from(q) == Then(operand(q), LAMBDA r, v : IF Kind(r) \in ops
                        THEN Then(from(Advance(r)), LAMBDA s, w : Ok(s, Binary(BinaryOp[Kind(r)], v, w))) ELSE Ok(r, v))
    IN  from(p)

RECURSIVE ParseExpr(_)
ParseArgs(p) == IF Kind(p) = "RParen" THEN Ok(p, <<>>) ELSE Separated(p, "Comma", ParseExpr)
ParsePrimary(p) ==
    CASE Kind(p) \in {"F64", "Str"} -> Ok(Advance(p), Literal(input[p]))
      [] Kind(p) = "I64" -> Then(ParseInteger(p, 63), LAMBDA q, v : Ok(q, Literal(input[p])))
      [] Kind(p) = "Ident" -> IF Kind(p + 1) = "LParen"
                              THEN Then(Between(p + 1, "LParen", ParseArgs, "RParen"), LAMBDA q, v : Ok(q, Call(input[p].t, v)))
                              ELSE Then(ExpectIdentOrPath(p), LAMBDA q, v : Ok(q, Column(v)))
      [] Kind(p) = "LParen" -> Between(p, "LParen", ParseExpr, "RParen")
      [] OTHER -> Fail
ParseMultiplicative(p) == LeftAssociative(p, {"Star", "Slash"}, ParsePrimary)
\* A mutant: minus groups to the right.
ParseAdditiveRight(p) == RightAssociative(p, {"Plus", "Minus"}, ParseMultiplicative)
ParseAdditive(p) == LeftAssociative(p, {"Plus", "Minus"}, ParseMultiplicative)
ParseComparison(p) ==
    Then(ParseAdditive(p), LAMBDA q, l : IF Kind(q) \notin Comparisons THEN Ok(q, l)
         ELSE Then(ParseAdditive(Advance(q)), LAMBDA r, v : Ok(r, Binary(BinaryOp[Kind(q)], l, v))))
ParseAnd(p) == LeftAssociative(p, {"And"}, ParseComparison)
ParseOr(p) == LeftAssociative(p, {"Or"}, ParseAnd)
ParseExpr(p) == ParseOr(p)

-----------------------------------------------------------------------------
(* Stages. *)
\* The second word of a source name, unless it is a set operation
ParseFrom(p) ==
    Then(Expect(p, "From"), LAMBDA q, k : Then(ExpectIdent(q), LAMBDA r, n :
         IF Kind(r) = "Ident" /\ ~IsOneOf(r, {"union", "intersect", "except"})
         THEN Ok(Advance(r), [s |-> "From", name |-> <<n, input[r].t>>])
         ELSE Ok(r, [s |-> "From", name |-> <<n>>])))

ParseAgg(p) == Then(ExpectIdent(p), LAMBDA q, n : Then(Expect(q, "Colon"), LAMBDA r, c :
               Then(ExpectIdent(r), LAMBDA s, f : Then(Between(s, "LParen", ParseArgs, "RParen"), LAMBDA t, as :
               Ok(t, [name |-> n, func |-> f, args |-> as])))))
ParseAggs(p) == Between(p, "LBrace", LAMBDA q : Separated(q, "Comma", ParseAgg), "RBrace")

ParseSort(p) == Then(ExpectIdentOrPath(p), LAMBDA q, c :
    Ok(IF Kind(q) \in {"Asc", "Desc"} THEN Advance(q) ELSE q,
       [s |-> "Sort", column |-> c, dir |-> IF Kind(q) = "Desc" THEN "Desc" ELSE "Asc"]))
JoinKinds == {"Inner", "Left", "Right", "Full"}
ParseJoin(p) ==
    LET given == Kind(p) \in JoinKinds IN
    Then(ExpectIdent(IF given THEN Advance(p) ELSE p), LAMBDA q, src : Then(Expect(q, "On"), LAMBDA r, o :
    Then(ParseExpr(r), LAMBDA t, on :
    Ok(t, [s |-> "Join", kind |-> IF given THEN Kind(p) ELSE "Inner", source |-> src, on |-> on]))))
ParseGroupBy(p) == Then(ExpectIdentOrPath(p), LAMBDA q, key : Then(ParseAggs(q), LAMBDA r, aggs :
                   Ok(r, [s |-> "GroupBy", key |-> key, aggs |-> aggs])))
\* Hopping takes two durations, the others one
Durations(p, n) == Between(p, "LParen", LAMBDA q : Then(Expect(q, "Duration"), LAMBDA r, d :
    IF n = 1 THEN Ok(r, <<d>>)
    ELSE Then(Expect(r, "Comma"), LAMBDA s, c : Then(Expect(s, "Duration"), LAMBDA t, e : Ok(t, <<d, e>>)))), "RParen")
ParseWindow(p) ==
    IF Kind(p) \notin {"Tumbling", "Hopping", "Session"} THEN Fail
    ELSE Then(Durations(Advance(p), IF Kind(p) = "Hopping" THEN 2 ELSE 1), LAMBDA q, ds : Then(Expect(q, "On"), LAMBDA r, o :
         Then(ExpectIdentOrPath(r), LAMBDA t, on : Then(ParseAggs(t), LAMBDA u, aggs :
         Ok(u, [s |-> "Window", kind |-> Kind(p), durations |-> ds, on |-> on, aggs |-> aggs])))))

\* (var:Label): an optional part is a colon and a name
ParseNode(p) == Between(p, "LParen", LAMBDA q : Then(ExpectIdent(q), LAMBDA r, v :
                Then(Optional(r, "Colon", ExpectIdent), LAMBDA t, l : Ok(t, [var |-> v, label |-> l]))), "RParen")
\* *, *min, *min.max or *min..max; a bound that is not given is 1
ParseHops(p) ==
    IF Kind(p) # "Star" THEN Ok(p, <<"1", "1">>)
    ELSE IF Kind(p + 1) # "I64" THEN Ok(p + 1, <<"1", "1">>)
    ELSE Then(ParseInteger(p + 1, 32), LAMBDA q, min : IF Kind(q) # "Dot" THEN Ok(q, <<min, "1">>)
         ELSE Then(ParseInteger(IF Kind(q + 1) = "Dot" THEN q + 2 ELSE q + 1, 32), LAMBDA r, max : Ok(r, <<min, max>>)))
ParseMatch(p) ==
    Then(ParseNode(p), LAMBDA q, start : IF Kind(q) \notin {"Minus", "BackArrow"} THEN Fail ELSE
    Then(Between(Advance(q), "LBracket", LAMBDA r : Then(Optional(r, "Colon", ExpectIdent), LAMBDA t, type :
         Then(ParseHops(t), LAMBDA u, hops : Ok(u, [type |-> type, hops |-> hops]))), "RBracket"), LAMBDA r, edge :
    Then(Expect(r, IF Kind(q) = "Minus" THEN "Arrow" ELSE "Minus"), LAMBDA t, a : Then(ParseNode(t), LAMBDA u, end :
    Ok(u, [s |-> "Match", start |-> start, out |-> Kind(q) = "Minus", edge |-> edge, end |-> end])))))
ParseReturn(p) == Then(Separated(IF Kind(p) = "Distinct" THEN Advance(p) ELSE p, "Comma", ExpectIdentOrPath), LAMBDA q, cs :
                  Ok(q, [s |-> "Return", distinct |-> Kind(p) = "Distinct", columns |-> cs]))

\* The keyword has been seen
ParseStage(p) ==
    LET q == Advance(p) IN
    CASE Kind(p) = "Filter" -> Then(ParseExpr(q), LAMBDA r, e : Ok(r, [s |-> "Filter", expr |-> e]))
      [] Kind(p) = "Select" -> Then(Between(q, "LBrace", LAMBDA r : Separated(r, "Comma", ExpectIdentOrPath), "RBrace"),
                                    LAMBDA r, cs : Ok(r, [s |-> "Select", columns |-> cs]))
      [] Kind(p) = "Sort" -> ParseSort(q)
      [] Kind(p) = "Take" -> Then(ParseInteger(q, 64), LAMBDA r, n : Ok(r, [s |-> "Take", n |-> n]))
      [] Kind(p) = "Join" -> ParseJoin(q)
      [] Kind(p) = "GroupBy" -> ParseGroupBy(q)
      [] Kind(p) = "Window" -> ParseWindow(q)
      [] Kind(p) = "Match" -> ParseMatch(q)
      [] Kind(p) = "Return" -> ParseReturn(q)
      [] OTHER -> Fail
ParsePipeline(p) == Then(ParseFrom(p), LAMBDA q, f : IF Kind(q) # "Pipe" THEN Ok(q, <<f>>)
                    ELSE Then(Separated(Advance(q), "Pipe", ParseStage), LAMBDA r, ss : Ok(r, <<f>> \o ss)))
-----------------------------------------------------------------------------
(* Statements.  The keywords of statements are identifiers. *)
ParsePair(p, sep) == Then(ExpectIdent(p), LAMBDA q, c : Then(Expect(q, sep), LAMBDA r, k :
                     Then(ParseExpr(r), LAMBDA t, v : Ok(t, <<c, v>>))))
SkipBrace(p) == IF Kind(p) = "RBrace" THEN Advance(p) ELSE p
\* insert and upsert, after the word; the closing brace may be missing
ParseValues(p, s) ==
    Then(Word(p, "into"), LAMBDA q, w : Then(ExpectIdent(q), LAMBDA r, t : Then(Expect(r, "LBrace"), LAMBDA u, b :
    Then(Separated(u, "Comma", LAMBDA x : ParsePair(x, "Colon")), LAMBDA y, vs :
    Ok(SkipBrace(y), [s |-> s, table |-> t, values |-> vs])))))
ParseWhere(p) == IF IsWord(p, "where") THEN Then(ParseExpr(Advance(p)), LAMBDA q, e : Ok(q, <<e>>)) ELSE Ok(p, <<>>)
ParseUpdate(p) ==
    Then(ExpectIdent(p), LAMBDA q, t : Then(Word(q, "set"), LAMBDA r, w :
    Then(Separated(r, "Comma", LAMBDA x : ParsePair(x, "Assign")), LAMBDA u, as : Then(ParseWhere(u), LAMBDA y, e :
    Ok(y, [s |-> "Update", table |-> t, values |-> as, where |-> e])))))
ParseDelete(p) ==
    Then(Expect(p, "From"), LAMBDA q, k : Then(ExpectIdent(q), LAMBDA r, t : Then(ParseWhere(r), LAMBDA u, e :
    Ok(u, [s |-> "Delete", table |-> t, where |-> e]))))

ColumnTypes == {"i64", "f64", "str", "bool", "bytes", "timestamp", "json"}     \* an unknown type is str
ParseColumn(p) ==
    Then(ExpectIdent(p), LAMBDA q, n : Then(Expect(q, "Colon"), LAMBDA r, c : Then(ExpectIdent(r), LAMBDA t, type :
    Ok(IF Kind(t) # "Not" THEN t ELSE IF IsWord(Advance(t), "null") THEN Advance(Advance(t)) ELSE Advance(t),
       [name |-> n, type |-> IF type \in ColumnTypes THEN type ELSE "str",
        nullable |-> ~(Kind(t) = "Not" /\ IsWord(Advance(t), "null"))]))))
\* A column named primary_key names the key instead
ParsePrimaryKey(p) == Then(Expect(p + 1, "Colon"), LAMBDA q, c : Then(ExpectIdent(q), LAMBDA r, n :
                      Ok(r, [name |-> "primary_key", type |-> n, nullable |-> TRUE])))
ParseCreateTable(p) ==
    Then(ExpectIdent(p), LAMBDA q, n : Then(Expect(q, "LBrace"), LAMBDA r, b :
    Then(Separated(r, "Comma", LAMBDA x : IF IsWord(x, "primary_key") THEN ParsePrimaryKey(x) ELSE ParseColumn(x)), LAMBDA t, cs :
    LET keys == SelectSeq(cs, LAMBDA c : c.name = "primary_key") IN
    Ok(SkipBrace(t), [s |-> "CreateTable", name |-> n, columns |-> SelectSeq(cs, LAMBDA c : c.name # "primary_key"),
                      key |-> IF keys = <<>> THEN <<>> ELSE <<Last(keys).type>>]))))
ParseCreateIndex(p) ==
    Then(ExpectIdent(p), LAMBDA q, n : Then(Expect(q, "On"), LAMBDA r, o : Then(ExpectIdent(r), LAMBDA t, tab :
    Then(Between(t, "LParen", ExpectIdent, "RParen"), LAMBDA u, c :
    Ok(u, [s |-> "CreateIndex", name |-> n, table |-> tab, column |-> c])))))
ParseCreateView(p) ==
    Then(ExpectIdent(p), LAMBDA q, n : Then(Word(q, "as"), LAMBDA r, a : Then(ParsePipeline(r), LAMBDA t, stages :
    Ok(t, [s |-> "CreateView", name |-> n, stages |-> stages]))))
ParseDrop(p) == IF ~IsOneOf(p, {"table", "index", "view"}) THEN Fail
                ELSE Then(ExpectIdent(Advance(p)), LAMBDA q, n : Ok(q, [s |-> "Drop", what |-> input[p].t, name |-> n]))
ParseCreate(p) == CASE IsWord(p, "table") -> ParseCreateTable(p + 1)
                    [] IsWord(p, "index") -> ParseCreateIndex(p + 1)
                    [] IsWord(p, "view") -> ParseCreateView(p + 1)
                    [] OTHER -> Fail
ParseCte(p) ==
    Then(ExpectIdent(p), LAMBDA q, n : Then(Word(q, "as"), LAMBDA r, a :
    Then(Between(r, "LParen", ParsePipeline, "RParen"), LAMBDA t, cte : Then(ParsePipeline(t), LAMBDA u, main :
    Ok(u, [s |-> "WithCte", name |-> n, stages |-> cte, right |-> main])))))
CheckSetOperations(p, left) ==
    IF ~IsOneOf(p, {"union", "intersect", "except"}) THEN Ok(p, Query(left))
    ELSE LET all == IsWord(p, "union") /\ IsWord(Advance(p), "all")
         IN  Then(ParsePipeline(IF all THEN p + 2 ELSE p + 1), LAMBDA q, right :
             Ok(q, [s |-> input[p].t, stages |-> left, right |-> right, all |-> all]))

\* parse_top_level; what follows the statement is not looked at
ParseStatement ==
    LET w == IF Kind(1) = "Ident" THEN input[1].t ELSE "" IN
    CASE w = "create" -> ParseCreate(2)
      [] w = "drop" -> ParseDrop(2)
      [] w \in {"insert", "upsert"} -> ParseValues(2, w)
      [] w = "update" -> ParseUpdate(2)
      [] w = "delete" -> ParseDelete(2)
      [] w \in {"begin", "commit", "rollback"} -> Ok(2, [s |-> w])
      [] w = "with" -> ParseCte(2)
      [] Kind(1) = "Distinct" -> Then(ParsePipeline(2), LAMBDA q, p : Ok(q, [s |-> "Distinct", stages |-> p]))
      [] OTHER -> Then(ParsePipeline(1), CheckSetOperations)
\* parse: one pipeline up to the end
Parse == Then(ParsePipeline(1), LAMBDA q, p : IF Kind(q) = "Eof" THEN Ok(q, p) ELSE Fail)
-----------------------------------------------------------------------------
(* The text of a statement: as the grammar has it, with no more            *)
(* parentheses than needed, or as Display shows it, which prints operators,*)
(* directions, kinds of joins and windows by their Rust names.             *)
Join(texts, sep) == FlattenSeq([i \in DOMAIN texts |-> IF i = 1 THEN texts[i] ELSE sep \o texts[i]])
Listed(texts) == Join(texts, <<P("Comma")>>)
Path(path) == Join([i \in DOMAIN path |-> <<Id(path[i])>>], <<P("Dot")>>)
In(open, text, close) == <<P(open)>> \o text \o <<P(close)>>
Named(name, shown) == <<IF shown THEN Id(name) ELSE P(name)>>
TokenOf(op) == CHOOSE k \in DOMAIN BinaryOp : BinaryOp[k] = op
Level(op) == CASE op = "Or" -> 1 [] op = "And" -> 2 [] op \in {"Add", "Sub"} -> 4 [] op \in {"Mul", "Div"} -> 5 [] OTHER -> 3

RECURSIVE ExprText(_, _, _)
ExprText(e, level, shown) ==
    CASE e.e = "Column" -> Path(e.path)
      [] e.e = "Literal" -> <<IF shown /\ e.tok.k = "F64" /\ Rounded[e.tok.t] # "" THEN Token("I64", Rounded[e.tok.t]) ELSE e.tok>>
      [] e.e = "Call" -> <<Id(e.name)>> \o In("LParen", Listed([i \in DOMAIN e.args |-> ExprText(e.args[i], 1, shown)]), "RParen")
      [] e.e = "Binary" ->
           LET n == Level(e.op)
               text == ExprText(e.lhs, IF n = 3 THEN 4 ELSE n, shown)
                       \o Named(IF shown THEN e.op ELSE TokenOf(e.op), shown) \o ExprText(e.rhs, n + 1, shown)
           IN  IF shown \/ n < level THEN In("LParen", text, "RParen") ELSE text
AggsText(aggs, shown) ==
    In("LBrace", Listed([i \in DOMAIN aggs |-> <<Id(aggs[i].name), P("Colon"), Id(aggs[i].func)>>
        \o In("LParen", Listed([j \in DOMAIN aggs[i].args |-> ExprText(aggs[i].args[j], 1, shown)]), "RParen")]), "RBrace")
LabelText(label) == IF label = <<>> THEN <<>> ELSE <<P("Colon"), Id(label[1])>>
NodeText(node) == In("LParen", <<Id(node.var)>> \o LabelText(node.label), "RParen")
HopsText(hops, shown) == IF hops = (IF shown THEN <<"0", "0">> ELSE <<"1", "1">>) THEN <<>>
                         ELSE <<P("Star"), Token("I64", hops[1]), P("Dot"), P("Dot"), Token("I64", hops[2])>>
\* A hopping window shows the fields of its record
DurationsText(ds, shown) ==
    LET duration(i) == Token(IF shown THEN "Str" ELSE "Duration", ds[i]) IN
    IF shown /\ Len(ds) = 2
    THEN In("LBrace", <<Id("size"), P("Colon"), duration(1), P("Comma"), Id("slide"), P("Colon"), duration(2)>>, "RBrace")
    ELSE In("LParen", Listed([i \in DOMAIN ds |-> <<duration(i)>>]), "RParen")
Columns(cs) == Listed([i \in DOMAIN cs |-> Path(cs[i])])
StageText(stage, shown) ==
    CASE stage.s = "From" -> <<P("From")>> \o [i \in DOMAIN stage.name |-> Id(stage.name[i])]
      [] stage.s = "Filter" -> <<P("Filter")>> \o ExprText(stage.expr, 1, shown)
      [] stage.s = "Select" -> <<P("Select")>> \o In("LBrace", Columns(stage.columns), "RBrace")
      [] stage.s = "Sort" -> <<P("Sort")>> \o Path(stage.column) \o (IF shown \/ stage.dir = "Desc" THEN Named(stage.dir, shown) ELSE <<>>)
      [] stage.s = "Take" -> <<P("Take"), Token("I64", stage.n)>>
      [] stage.s = "Join" -> <<P("Join")>> \o (IF shown \/ stage.kind # "Inner" THEN Named(stage.kind, shown) ELSE <<>>)
                             \o <<Id(stage.source), P("On")>> \o ExprText(stage.on, 1, shown)
      [] stage.s = "GroupBy" -> <<P("GroupBy")>> \o Path(stage.key) \o AggsText(stage.aggs, shown)
      [] stage.s = "Window" -> <<P("Window")>> \o Named(stage.kind, shown) \o DurationsText(stage.durations, shown)
                               \o <<P("On")>> \o Path(stage.on) \o AggsText(stage.aggs, shown)
      [] stage.s = "Match" -> <<P("Match")>> \o NodeText(stage.start) \o <<P(IF stage.out THEN "Minus" ELSE "BackArrow")>>
                              \o In("LBracket", LabelText(stage.edge.type) \o HopsText(stage.edge.hops, shown), "RBracket")
                              \o <<P(IF stage.out THEN "Arrow" ELSE "Minus")>> \o NodeText(stage.end)
      [] stage.s = "Return" -> <<P("Return")>> \o (IF stage.distinct THEN <<P("Distinct")>> ELSE <<>>) \o Columns(stage.columns)
PipelineText(stages, shown) == Join([i \in DOMAIN stages |-> StageText(stages[i], shown)], <<P("Pipe")>>)
PairsText(pairs, sep, shown) == Listed([i \in DOMAIN pairs |-> <<Id(pairs[i][1]), P(sep)>> \o ExprText(pairs[i][2], 1, shown)])
WhereText(where, shown) == IF where = <<>> THEN <<>> ELSE <<Id("where")>> \o ExprText(where[1], 1, shown)
ColumnText(c) == <<Id(c.name), P("Colon"), Id(c.type)>> \o (IF c.nullable THEN <<>> ELSE <<P("Not"), Id("null")>>)
KeyText(key) == IF key = <<>> THEN <<>> ELSE <<P("Comma"), Id("primary_key"), P("Colon"), Id(key[1])>>
Text(st, shown) ==
    CASE st.s = "Query" -> PipelineText(st.stages, shown)
      [] st.s = "Distinct" -> <<P("Distinct")>> \o PipelineText(st.stages, shown)
      [] st.s \in {"union", "intersect", "except"} ->
           PipelineText(st.stages, shown) \o <<Id(st.s)>> \o (IF st.all THEN <<Id("all")>> ELSE <<>>) \o PipelineText(st.right, shown)
      [] st.s = "WithCte" -> <<Id("with"), Id(st.name), Id("as")>> \o In("LParen", PipelineText(st.stages, shown), "RParen")
                             \o PipelineText(st.right, shown)
      [] st.s = "CreateView" -> <<Id("create"), Id("view"), Id(st.name), Id("as")>> \o PipelineText(st.stages, shown)
      [] st.s = "CreateTable" -> <<Id("create"), Id("table"), Id(st.name)>>
           \o In("LBrace", Listed([i \in DOMAIN st.columns |-> ColumnText(st.columns[i])]) \o KeyText(st.key), "RBrace")
      [] st.s = "CreateIndex" -> <<Id("create"), Id("index"), Id(st.name), P("On"), Id(st.table), P("LParen"), Id(st.column), P("RParen")>>
      [] st.s = "Drop" -> <<Id("drop"), Id(st.what), Id(st.name)>>
      [] st.s \in {"insert", "upsert"} -> <<Id(st.s), Id("into"), Id(st.table)>> \o In("LBrace", PairsText(st.values, "Colon", shown), "RBrace")
      [] st.s = "Update" -> <<Id("update"), Id(st.table), Id("set")>> \o PairsText(st.values, "Assign", shown) \o WhereText(st.where, shown)
      [] st.s = "Delete" -> <<Id("delete"), P("From"), Id(st.table)>> \o WhereText(st.where, shown)
      [] OTHER -> <<Id(st.s)>>      \* begin, commit, rollback

-----------------------------------------------------------------------------
Init == stmt \in Statements /\ input = Text(stmt, FALSE) /\ damage = "none" /\ lost = 0
Show == damage = "none" /\ damage' = "shown" /\ input' = Text(stmt, TRUE) /\ UNCHANGED <<stmt, lost>>
Cut == damage \in {"none", "cut"} /\ input # <<>> /\ damage' = "cut" /\ input' = Front(input) /\ UNCHANGED <<stmt, lost>>
Drop(i) == damage = "none" /\ damage' = "drop" /\ input' = RemoveAt(input, i) /\ lost' = i /\ UNCHANGED stmt
Next == Show \/ Cut \/ \E i \in DOMAIN input : Drop(i)
Spec == Init /\ [][Next]_vars

-----------------------------------------------------------------------------
Ended(p) == p = Len(input) + 1
IsQuery == stmt.s = "Query"

\* A statement comes back from its text with its grouping, to the last token:
\* s is what parse_statement makes of the text, p what parse does.
ParsesBack(s, p) == damage = "none" =>
    /\ s.ok /\ s.val = stmt /\ Ended(s.pos)
    /\ p.ok = IsQuery /\ (IsQuery => p.val = stmt.stages)

\* Whatever is lost, the statement accepted is the one whose text was read,
\* token by token, but for parentheses, dots of hop ranges and the optional
\* tokens: a closing brace and a not without null.  parse reads all of it.
Essential(text) == SelectSeq(text, LAMBDA t : t.k \notin {"LParen", "RParen", "Dot", "RBrace", "Not"})
ReadsWhatIsThere(s, p) == damage # "shown" =>
    /\ s.ok => Essential(Text(s.val, FALSE)) = Essential(SubSeq(input, 1, s.pos - 1))
    /\ p.ok => Essential(Text(Query(p.val), FALSE)) = Essential(input)

\* An update or a delete loses its where clause with one token only if that is
\* the word where, the token before it or a comma: the rest is ignored then.
\* whole is the undamaged text.
WhereKept(s, whole) ==
    (damage = "drop" /\ stmt.s \in {"Update", "Delete"} /\ s.ok /\ s.val.s = stmt.s) =>
    \/ stmt.where = <<>>
    \/ s.val.where # <<>>
    \/ whole[lost] \in {Id("where"), P("Comma")} \/ whole[lost + 1] = Id("where")

\* What Display shows is read back as the same statement, unless it holds a
\* Rust name: of an operator, a direction, a join or a window.  parse refuses
\* those: it takes a shown pipeline for another only if a float was printed
\* as an integer or hops of 0..0 were left out.
RustNames == {BinaryOp[k] : k \in DOMAIN BinaryOp} \cup JoinKinds \cup {"Asc", "Desc", "Tumbling", "Hopping", "Session"}
Changed(whole) ==
    \E i \in DOMAIN whole : \/ whole[i].k = "F64" /\ Rounded[whole[i].t] # ""
                            \/ whole[i].k = "Star" /\ whole[i + 1].t = "0" /\ whole[i + 4].t = "0"
ShownIsRead(s, p, whole) == (damage = "shown" /\ ~Changed(whole)) =>
    /\ (\A i \in DOMAIN input : input[i] \notin {Id(n) : n \in RustNames})
         => s.ok /\ s.val = stmt /\ Ended(s.pos)
    /\ p.ok => IsQuery /\ p.val = stmt.stages

CenqlSafe == \A s \in {ParseStatement}, p \in {Parse}, whole \in {Text(stmt, FALSE)} :
    ParsesBack(s, p) /\ ReadsWhatIsThere(s, p) /\ WhereKept(s, whole) /\ ShownIsRead(s, p, whole)
=============================================================================
