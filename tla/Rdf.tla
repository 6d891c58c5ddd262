-------------------------------- MODULE Rdf --------------------------------
(***************************************************************************)
(* The RDF store of cendb-rdf: the triples and their three index lists     *)
(* (src/lib.rs), the parser of SPARQL SELECT queries from tokens and their *)
(* evaluation (src/sparql.rs).                                             *)
(*                                                                         *)
(* A token and a term are [kind, lex, num]: lex is the rank of the text    *)
(* among the texts, num twice the number the text spells (NoNum when it    *)
(* spells none).  Triples are inserted and removed; a query text is a       *)
(* rendering of a query, whole, cut short or with a token missing.         *)
(***************************************************************************)
EXTENDS Integers, Sequences, SequencesExt, FiniteSets, FiniteSetsExt, Functions

CONSTANTS Triples,      \* the triples that are inserted
          Queries,      \* [select, all, patterns, filters, limit]
          NoNum, NoLimit

VARIABLES triples, idx, \* idx[1..3]: by subject, predicate and object
          query, input, \* the query that was rendered and its text
          damage        \* "none", "cut", "drop"
vars == <<triples, idx, query, input, damage>>

Tok(kind) == [kind |-> kind, lex |-> 0, num |-> NoNum]
IsVar(t) == t.kind = "var"

-----------------------------------------------------------------------------
(* TripleStore *)
ListOf(n, term) == IF term \in DOMAIN idx[n] THEN idx[n][term] ELSE <<>>
Put(f, k, v) == [x \in DOMAIN f \cup {k} |-> IF x = k THEN v ELSE f[x]]

Insert(t) == /\ triples' = triples \cup {t}
             /\ idx' = IF t \in triples THEN idx
                       ELSE [n \in 1..3 |-> Put(idx[n], t[n], Append(ListOf(n, t[n]), t))]
             /\ UNCHANGED <<query, input, damage>>

\* A mutant: the list of the predicate is not visited.
RemoveTripleNotByPredicate(t) ==
    /\ triples' = triples \ {t}
    /\ idx' = IF t \notin triples THEN idx
              ELSE [n \in 1..3 |-> IF n = 2 THEN idx[n]
                                   ELSE Put(idx[n], t[n], SelectSeq(ListOf(n, t[n]), LAMBDA u : u # t))]
    /\ UNCHANGED <<query, input, damage>>
RemoveTriple(t) ==
    /\ triples' = triples \ {t}
    /\ idx' = IF t \notin triples THEN idx
              ELSE [n \in 1..3 |-> Put(idx[n], t[n], SelectSeq(ListOf(n, t[n]), LAMBDA u : u # t))]
    /\ UNCHANGED <<query, input, damage>>

\* A wildcard is an empty sequence, a bound position the sequence of its term.
\* The first bound position names the list; the others filter it.
MatchPattern(want) ==
    LET bound == {n \in 1..3 : want[n] # <<>>}
        candidates == IF bound = {} THEN FoldSet(LAMBDA t, s : Append(s, t), <<>>, triples)
                      ELSE ListOf(Min(bound), Head(want[Min(bound)]))
    IN  SelectSeq(candidates, LAMBDA t : \A n \in bound : n > Min(bound) => t[n] = Head(want[n]))

-----------------------------------------------------------------------------
(* The parser: a result is [ok, at, val], at being the next token *)
Failed == [ok |-> FALSE, at |-> 0, val |-> <<>>]
Kind(ts, i) == IF i <= Len(ts) THEN ts[i].kind ELSE "eof"

PatternTerm(t) == IF t.kind \in {"iri", "bareword"} THEN [t EXCEPT !.kind = "uri"] ELSE t
IsTerm(ts, i) == Kind(ts, i) \in {"var", "iri", "literal", "blank", "bareword"}
ParseTriplePattern(ts, i) ==
    IF \A k \in 0..2 : IsTerm(ts, i + k)
    THEN [ok |-> TRUE, at |-> i + 3, val |-> [k \in 1..3 |-> PatternTerm(ts[i + k - 1])]]
    ELSE Failed
ParseFilter(ts, i) ==
    IF /\ Kind(ts, i) = "(" /\ Kind(ts, i + 1) = "var" /\ Kind(ts, i + 2) = "op"
       /\ Kind(ts, i + 3) \in {"number", "literal", "iri"} /\ Kind(ts, i + 4) = ")"
    THEN [ok |-> TRUE, at |-> i + 5, val |-> <<ts[i + 1], ts[i + 2], ts[i + 3]>>]
    ELSE Failed
AfterDot(ts, i) == IF Kind(ts, i) = "." THEN i + 1 ELSE i

\* The loop between the braces
RECURSIVE ParseBody(_, _, _, _)
ParseBody(ts, i, patterns, filters) ==
    CASE Kind(ts, i) = "eof" -> Failed
      [] Kind(ts, i) = "}" -> [ok |-> TRUE, at |-> i + 1, val |-> <<patterns, filters>>]
      [] Kind(ts, i) = "filter" ->
           LET f == ParseFilter(ts, i + 1) IN
           IF f.ok THEN ParseBody(ts, AfterDot(ts, f.at), patterns, Append(filters, f.val)) ELSE Failed
      [] Kind(ts, i) = "." -> ParseBody(ts, i + 1, patterns, filters)
      [] OTHER ->
           LET p == ParseTriplePattern(ts, i) IN
           IF p.ok THEN ParseBody(ts, AfterDot(ts, p.at), Append(patterns, p.val), filters) ELSE Failed

\* LIMIT may be repeated; the last one counts.  The number is read as a usize.
RECURSIVE ParseLimit(_, _, _)
ParseLimit(ts, i, limit) ==
    CASE Kind(ts, i) = "eof" -> [ok |-> TRUE, at |-> i, val |-> limit]
      [] Kind(ts, i) = "limit" /\ Kind(ts, i + 1) = "number" /\ ts[i + 1].lex = 0 /\ ts[i + 1].num >= 0 ->
           ParseLimit(ts, i + 2, ts[i + 1].num \div 2)
      [] OTHER -> Failed

ParseSparql(ts) ==
    LET all == Kind(ts, 2) = "star"
        vs == IF all THEN 0 ELSE Min({n \in 0..Len(ts) : Kind(ts, 2 + n) # "var"})
        open == LET i == IF all THEN 3 ELSE 2 + vs IN IF Kind(ts, i) = "where" THEN i + 1 ELSE i
        body == ParseBody(ts, open + 1, <<>>, <<>>)
        limit == ParseLimit(ts, body.at, NoLimit)
    IN  IF \/ Kind(ts, 1) # "select" \/ (~all /\ vs = 0) \/ Kind(ts, open) # "{"
        THEN Failed
        ELSE IF ~body.ok \/ (IF body.ok THEN body.val[1] = <<>> ELSE TRUE) THEN Failed
        ELSE IF ~limit.ok THEN Failed
        ELSE [ok |-> TRUE, at |-> Len(ts) + 1,
              val |-> [select |-> SubSeq(ts, 2, 1 + vs), all |-> all, patterns |-> body.val[1],
                       filters |-> body.val[2], limit |-> limit.val]]

-----------------------------------------------------------------------------
(* The evaluator *)
Lookup(t, b) == IF IsVar(t) THEN (IF t \in DOMAIN b THEN <<b[t]>> ELSE <<>>) ELSE <<t>>

\* The variables a triple binds beyond b, or nothing when they disagree
\* A mutant: a variable that occurs twice in the pattern is not compared.
BindTripleLast(pat, t, b) ==
    LET new == {n \in 1..3 : IsVar(pat[n]) /\ pat[n] \notin DOMAIN b}
    IN  <<[v \in {pat[n] : n \in new} |-> t[Max({n \in new : pat[n] = v})]]>>
BindTriple(pat, t, b) ==
    LET named == {n \in 1..3 : IsVar(pat[n])}
        new == {n \in named : pat[n] \notin DOMAIN b}
    IN  IF /\ \A n \in named \ new : b[pat[n]] = t[n]
           /\ \A n, m \in new : pat[n] = pat[m] => t[n] = t[m]
        THEN <<[v \in {pat[n] : n \in new} |-> t[Min({n \in new : pat[n] = v})]]>>
        ELSE <<>>

EvaluatePattern(pat, b) ==
    LET matches == MatchPattern([n \in 1..3 |-> Lookup(pat[n], b)])
    IN  FlattenSeq([i \in DOMAIN matches |-> BindTriple(pat, matches[i], b)])
Merged(b, m) == [v \in DOMAIN b \cup DOMAIN m |-> IF v \in DOMAIN m THEN m[v] ELSE b[v]]
Join(bindings, pat) ==
    FlattenSeq([i \in DOMAIN bindings |->
                  LET ms == EvaluatePattern(pat, bindings[i])
                  IN  [j \in DOMAIN ms |-> Merged(bindings[i], ms[j])]])

Compare(op, a, b) == CASE op.lex = 1 -> a = b [] op.lex = 2 -> a # b [] op.lex = 3 -> a < b
                       [] op.lex = 4 -> a > b [] op.lex = 5 -> a <= b [] op.lex = 6 -> a >= b
\* A filter is <<variable, operator, value>>; numbers are compared with the
\* literals that spell one, texts with every term, IRIs for equality alone
EvalFilter(f, b) ==
    /\ f[1] \in DOMAIN b
    /\ LET term == b[f[1]] IN
       CASE f[3].kind = "number" -> term.kind = "literal" /\ term.num # NoNum /\ Compare(f[2], term.num, f[3].num)
         [] f[3].kind = "literal" -> Compare(f[2], term.lex, f[3].lex)
         [] f[3].kind = "iri" -> term.kind = "uri" /\ f[2].lex \in 1..2 /\ Compare(f[2], term.lex, f[3].lex)

PatternVars(q) == UNION {{q.patterns[i][n] : n \in {m \in 1..3 : IsVar(q.patterns[i][m])}} : i \in DOMAIN q.patterns}
\* The rows asked for, of all the bindings that were joined
Answer(q, joined) ==
    LET kept == SelectSeq(joined, LAMBDA b : \A i \in DOMAIN q.filters : EvalFilter(q.filters[i], b))
        names == IF q.all THEN PatternVars(q) ELSE ToSet(q.select)
        limit == IF q.limit = NoLimit \/ q.limit >= Len(kept) THEN Len(kept) ELSE q.limit
    IN  [i \in 1..limit |-> IF names = {} THEN kept[i] ELSE Restrict(kept[i], DOMAIN kept[i] \cap names)]
Evaluate(q) == Answer(q, FoldLeft(Join, <<<<>>>>, q.patterns))

-----------------------------------------------------------------------------
(* Renderings: with or without WHERE, dots between the patterns, filters
   after them *)
Unparse(t) == IF t.kind = "uri" THEN [t EXCEPT !.kind = "iri"] ELSE t
Render(q, where, dots) ==
    LET pats == FlattenSeq([i \in DOMAIN q.patterns |->
                              [n \in 1..3 |-> Unparse(q.patterns[i][n])] \o (IF dots THEN <<Tok(".")>> ELSE <<>>)])
        fs == FlattenSeq([i \in DOMAIN q.filters |-> <<Tok("filter"), Tok("(")>> \o q.filters[i] \o <<Tok(")")>>])
    IN  <<Tok("select")>> \o (IF q.all THEN <<Tok("star")>> ELSE q.select)
        \o (IF where THEN <<Tok("where")>> ELSE <<>>) \o <<Tok("{")>> \o pats \o fs \o <<Tok("}")>>
        \o (IF q.limit = NoLimit THEN <<>>
            ELSE <<Tok("limit"), [kind |-> "number", lex |-> 0, num |-> 2 * q.limit]>>)

Empty == [n \in 1..3 |-> <<>>]
Init == /\ triples = {} /\ idx = Empty
        /\ query \in Queries /\ \E where, dots \in BOOLEAN : input = Render(query, where, dots)
        /\ damage = "none"
Cut == /\ damage # "drop" /\ Len(input) > 0 /\ input' = Front(input) /\ damage' = "cut"
       /\ UNCHANGED <<triples, idx, query>>
Drop(i) == /\ damage = "none" /\ input' = RemoveAt(input, i) /\ damage' = "drop"
           /\ UNCHANGED <<triples, idx, query>>
\* The text is damaged only over the empty store: the two do not interact
Next == \/ \E t \in Triples : damage = "none" /\ (Insert(t) \/ RemoveTriple(t))
        \/ triples = {} /\ idx = Empty /\ (Cut \/ \E i \in DOMAIN input : Drop(i))
Spec == Init /\ [][Next]_vars

-----------------------------------------------------------------------------
\* Whatever was inserted and removed in whatever order, each list holds exactly
\* the triples with that term, once: a removed triple is never found again
\* through another position.
IndexesAgree == \A n \in 1..3, x \in UNION {DOMAIN idx[m] : m \in 1..3} :
    /\ ToSet(ListOf(n, x)) = {t \in triples : t[n] = x}
    /\ Len(ListOf(n, x)) = Cardinality(ToSet(ListOf(n, x)))

Terms == UNION {{t[n] : n \in 1..3} : t \in triples}
Instance(pat, b) == [n \in 1..3 |-> IF IsVar(pat[n]) THEN b[pat[n]] ELSE pat[n]]
Solutions(q) == {b \in [PatternVars(q) -> Terms] :
                   /\ \A i \in DOMAIN q.patterns : Instance(q.patterns[i], b) \in triples
                   /\ \A i \in DOMAIN q.filters : EvalFilter(q.filters[i], b)}
Projected(q, b) == LET names == IF q.all THEN PatternVars(q) ELSE ToSet(q.select) IN Restrict(b, DOMAIN b \cap names)

\* The join pattern by pattern through the lists yields one row for each
\* assignment of the variables that makes every pattern a stored triple and
\* satisfies the filters, no matter in which order the patterns are written, a
\* variable occurring twice in a pattern included; LIMIT keeps the first rows.
RowsAreSolutions == \A rows \in {Evaluate(query)}, solutions \in {Solutions(query)} :
    LET found(r) == Cardinality({i \in DOMAIN rows : rows[i] = r})
        asked(r) == Cardinality({b \in solutions : Projected(query, b) = r})
    IN  IF query.limit = NoLimit
        THEN /\ Len(rows) = Cardinality(solutions)
             /\ \A i \in DOMAIN rows : found(rows[i]) = asked(rows[i])
        ELSE /\ Len(rows) = Min({query.limit, Cardinality(solutions)})
             /\ \A i \in DOMAIN rows : found(rows[i]) <= asked(rows[i])

\* Parsing a rendering gives the query back; a text cut short is refused unless
\* it ends with the closing brace; a text that lacks a token is refused or
\* is the same query, but for a variable less to select.
ParsesBack == \A p \in {ParseSparql(input)} :
    /\ damage = "none" => p.ok /\ p.val = query
    /\ (damage = "cut" /\ p.ok) => Last(input).kind = "}" /\ p.val = [query EXCEPT !.limit = NoLimit]
    /\ (damage = "drop" /\ p.ok) => [p.val EXCEPT !.select = query.select] = query

RdfSafe == IndexesAgree /\ RowsAreSolutions /\ ParsesBack
=============================================================================
