------------------------------- MODULE Search -------------------------------
(***************************************************************************)
(* Searching (cendb-search): the inverted index, snippets of found texts   *)
(* and versioned secondary indexes.                                        *)
(***************************************************************************)
EXTENDS Integers, Sequences, SequencesExt, FiniteSetsExt, FiniteSets

(***************************************************************************)
(* The inverted index (cendb-search/src/fts.rs) with the tokenizer, fuzzy  *)
(* matching and the statistics of the BM25 scorer.  A text is a sequence   *)
(* of words; a word is a sequence of characters, already in lower case;    *)
(* StopWords and Stem stand for the word list and the Porter stemmer.      *)
(* Scores are left out: a document is in a result or not.  BM25 scores are *)
(* positive exactly when the document has a term of the query.             *)
(***************************************************************************)
CONSTANTS Doc, Text, StopWords, Stem(_),
          MaxAdds            \* bound: documents added

VARIABLES inverted,          \* term -> sequence of postings
          df, docCount,      \* of the TF-IDF scorer; the index counts documents likewise
          documents,         \* doc -> its text
          added              \* the texts added, in order, with their documents

fts_vars == <<inverted, df, docCount, documents, added>>

With(f, x, y) == [z \in DOMAIN f \cup {x} |-> IF z = x THEN y ELSE f[z]]

\* tokenize: stop words count as positions but give no token
Tokenize(text) ==
    LET kept == SelectSeq([i \in DOMAIN text |-> i], LAMBDA i : text[i] \notin StopWords)
    IN  [n \in DOMAIN kept |-> [term |-> Stem(text[kept[n]]), position |-> kept[n] - 1]]
Terms(text) == {t.term : t \in ToSet(Tokenize(text))}

Posting(doc, text, term) ==
    LET positions == [n \in DOMAIN SelectSeq(Tokenize(text), LAMBDA t : t.term = term) |->
                        SelectSeq(Tokenize(text), LAMBDA t : t.term = term)[n].position]
    IN  [doc |-> doc, tf |-> Len(positions), positions |-> positions]

FtsInit == inverted = <<>> /\ df = <<>> /\ docCount = 0 /\ documents = <<>> /\ added = <<>>

\* A document added again gets postings again; the earlier ones stay
AddDocument(doc, text) ==
    LET at(f, t, none) == IF t \in DOMAIN f THEN f[t] ELSE none
        terms == Terms(text)
    IN  /\ Len(added) < MaxAdds
        /\ documents' = With(documents, doc, text)
        /\ docCount' = docCount + 1
        /\ df' = [t \in DOMAIN df \cup terms |-> at(df, t, 0) + IF t \in terms THEN 1 ELSE 0]
        /\ inverted' = [t \in DOMAIN inverted \cup terms |->
                       at(inverted, t, <<>>) \o IF t \in terms THEN <<Posting(doc, text, t)>> ELSE <<>>]
        /\ added' = Append(added, [doc |-> doc, text |-> text])

PostingsOf(term) == IF term \in DOMAIN inverted THEN inverted[term] ELSE <<>>
DocsOf(term) == {p.doc : p \in ToSet(PostingsOf(term))}

\* A mutant: a document need only have one posting for each distinct term.
SearchDistinct(query) ==
    LET q == Tokenize(query)
        hits(d) == Cardinality({i \in DOMAIN q : d \in DocsOf(q[i].term)})
    IN  IF \E i \in DOMAIN q : q[i].term \notin DOMAIN inverted THEN {}
        ELSE {d \in DOMAIN documents : q # <<>> /\ hits(d) = Cardinality(Terms(query))}

\* search: the documents with as many postings as the query has tokens
Search(query) ==
    LET q == Tokenize(query)
        hits(d) == MapThenSumSet(LAMBDA i : Cardinality({n \in DOMAIN PostingsOf(q[i].term) : PostingsOf(q[i].term)[n].doc = d}), DOMAIN q)
    IN  IF \E i \in DOMAIN q : q[i].term \notin DOMAIN inverted THEN {}
        ELSE {d \in DOMAIN documents : q # <<>> /\ hits(d) = Len(q)}

SearchOr(query) == UNION {DocsOf(t) : t \in Terms(query)}

\* levenshtein: row by row
Levenshtein(a, b) ==
    LET d[i \in 0..Len(a), j \in 0..Len(b)] ==
          IF i = 0 THEN j ELSE IF j = 0 THEN i
          ELSE Min({d[i - 1, j] + 1, d[i, j - 1] + 1, d[i - 1, j - 1] + IF a[i] = b[j] THEN 0 ELSE 1})
    IN  d[Len(a), Len(b)]
FuzzySearch(term, max) == {t \in DOMAIN inverted : Levenshtein(term, t) <= max}
FuzzyQuery(term, max) == UNION {DocsOf(t) : t \in FuzzySearch(term, max)}

\* search_ranked: exact matches and, with a distance, fuzzy ones
SearchRanked(query, max) ==
    UNION {DocsOf(t) : t \in (Terms(query) \cup UNION {FuzzySearch(q, max) : q \in IF max > 0 THEN Terms(query) ELSE {}})}

\* bm25_scorer: per document the frequency of its last posting for each term
ScorerTf(doc) == [t \in {u \in DOMAIN inverted : doc \in DocsOf(u)} |->
                    Last(SelectSeq(inverted[t], LAMBDA p : p.doc = doc)).tf]
ScorerDocs == UNION {DocsOf(t) : t \in DOMAIN inverted}
ScorerDf(term) == Cardinality({d \in ScorerDocs : term \in DOMAIN ScorerTf(d)})

FtsNext == \E doc \in Doc, text \in Text : AddDocument(doc, text)
FtsSpec == FtsInit /\ [][FtsNext]_fts_vars

-----------------------------------------------------------------------------
Once == \A i, j \in DOMAIN added : added[i].doc = added[j].doc => i = j
Count(text, term) == Cardinality({i \in DOMAIN text : text[i] \notin StopWords /\ Stem(text[i]) = term})

\* While no document is added twice, search gives the documents that have all
\* words of the query but its stop words, search_or those with any, whether
\* or not words repeat, and a query of stop words finds nothing.
SearchExact == Once => \A query \in Text :
    LET having(ts) == {d \in DOMAIN documents : ts \subseteq Terms(documents[d])}
    IN  /\ Search(query) = IF Terms(query) = {} THEN {} ELSE having(Terms(query))
        /\ SearchOr(query) = UNION {having({t}) : t \in Terms(query)}
        /\ Search(query) \subseteq SearchRanked(query, 1) /\ SearchRanked(query, 0) = SearchOr(query)

\* A document added again is still found by search_or through its new words;
\* the count of documents counts it twice, and no document frequency exceeds it.
ReaddedFound == /\ \A d \in DOMAIN documents : \A t \in Terms(documents[d]) : d \in DocsOf(t)
                /\ docCount = Len(added) /\ \A t \in DOMAIN df : df[t] \in 1..docCount /\ df[t] = Len(inverted[t])

\* The statistics of the scorer built from the index are those of the texts.
ScorerExact == Once =>
    /\ \A d \in ScorerDocs : \A t \in DOMAIN ScorerTf(d) : ScorerTf(d)[t] = Count(documents[d], t)
    /\ \A t \in DOMAIN inverted : ScorerDf(t) = df[t]
    /\ ScorerDocs = {d \in DOMAIN documents : Terms(documents[d]) # {}}

\* The words that k edits reach from a word, within the words of the texts
Words == UNION {ToSet(text) : text \in Text}
Edits(w) == LET chars == UNION {ToSet(v) : v \in Words} IN
    {RemoveAt(w, i) : i \in DOMAIN w} \cup {ReplaceAt(w, i, c) : i \in DOMAIN w, c \in chars}
      \cup {InsertAt(w, i, c) : i \in 1..(Len(w) + 1), c \in chars}
Ball[k \in 0..2, w \in Words] == IF k = 0 THEN {w} ELSE Ball[k - 1, w] \cup UNION {Edits(v) : v \in Ball[k - 1, w]}

\* The distance is the least number of edits: fuzzy matching finds exactly the
\* terms that many edits away.
FuzzyExact == \A w \in Words : \A k \in 0..2 : FuzzySearch(w, k) = DOMAIN inverted \cap Ball[k, w]

FullTextSafe == SearchExact /\ ReaddedFound /\ ScorerExact /\ FuzzyExact

-----------------------------------------------------------------------------
(***************************************************************************)
(* Snippets (cendb-search/src/snippet.rs).  A text is a sequence of        *)
(* characters; Gap is the one that is not alphanumeric.                    *)
(***************************************************************************)
CONSTANTS Char, Gap, Needles, MaxText
ASSUME SnippetAssumption == Needles \subseteq Seq(Char) /\ Gap \notin Char /\ MaxText \in Nat

VARIABLE text

\* find_matches: the whole words that are one of the needles, from s to e - 1
Matches == {m \in (DOMAIN text) \X (2..(Len(text) + 1)) :
              /\ m[1] < m[2] /\ SubSeq(text, m[1], m[2] - 1) \in Needles
              /\ m[1] = 1 \/ text[m[1] - 1] = Gap
              /\ m[2] = Len(text) + 1 \/ text[m[2]] = Gap}
Starts == {m[1] : m \in Matches}
InWindow(start, max) == Cardinality({s \in Starts : s >= start /\ s < start + max})

\* A mutant: the window is the last of the best, not the first.
BestStartLast(max) == LET best == Max({InWindow(s, max) : s \in Starts})
                      IN  1 + Max({s \in Starts : InWindow(s, max) = best})

\* The first match start with the most starts in its window, unless the
\* window at the beginning has more
BestStart(max) == LET best == Max({InWindow(s, max) : s \in Starts})
                  IN  IF InWindow(1, max) > best THEN 1 ELSE Min({s \in Starts : InWindow(s, max) = best})

\* generate_snippet: the window and the marked ranges, cut at its end; Nothing
\* when there is no match or no room
Nothing == [from |-> 0, to |-> 0, marked |-> {}]
GenerateSnippet(maxLength) ==
    LET max  == IF maxLength < Len(text) THEN maxLength ELSE Len(text)
        from == BestStart(max)
        to   == IF from + max <= Len(text) + 1 THEN from + max ELSE Len(text) + 1
    IN  IF text = <<>> \/ maxLength = 0 \/ Matches = {} THEN Nothing
        ELSE [from |-> from, to |-> to,
              marked |-> {<<m[1], IF m[2] < to THEN m[2] ELSE to>> : m \in {n \in Matches : n[1] >= from /\ n[1] < to}}]

SnipInit == text = <<>>
SnipNext == Len(text) < MaxText /\ \E c \in Char \cup {Gap} : text' = Append(text, c)
SnipSpec == SnipInit /\ [][SnipNext]_text

-----------------------------------------------------------------------------
\* A snippet is a piece of the text no longer than asked that shows as many
\* match starts as any piece of that length; each mark begins at a match and
\* covers it unless the piece ends first, and no two marks overlap.
SnippetSafe == \A max \in 0..(MaxText + 1) :
    LET s == GenerateSnippet(max) IN
    IF s = Nothing THEN max = 0 \/ Matches = {}
    ELSE /\ s.to - s.from \in 1..max /\ s.to <= Len(text) + 1
         /\ \A from \in DOMAIN text : InWindow(from, max) <= Cardinality(s.marked)
         /\ s.marked # {}
         /\ \A m \in s.marked : \E n \in Matches : n[1] = m[1] /\ m[2] = IF n[2] < s.to THEN n[2] ELSE s.to
         /\ \A m, n \in s.marked : m[1] < n[1] => m[2] <= n[1]

-----------------------------------------------------------------------------
(***************************************************************************)
(* Secondary indexes (cendb-search/src/secondary.rs): versioned entries    *)
(* from column values to row locators, kept by the caller as the module's  *)
(* comment says: an update supersedes the entry of the old value and       *)
(* inserts one for the new value at the commit timestamp.                  *)
(***************************************************************************)
CONSTANTS Row, Value, MaxCommits,
          Slot    \* RowLocators: <<segment, place>>, a place being a block id and a slot id
ASSUME SecondaryAssumption == Value \subseteq Int /\ MaxCommits \in Nat

VARIABLES entries,     \* set of [value, slot, begin, end]: chains without their order
          ts,          \* last commit timestamp
          history,     \* ts -> row -> [value, slot, begin]: the table as of each commit
          cutoff,      \* the largest argument of gc so far
          shared,      \* some transaction gave one value to two rows
          strayed      \* a compaction took along an entry of the same place in another segment

sec_vars == <<entries, ts, history, cutoff, shared, strayed>>

Never == MaxCommits + 1    \* u64::MAX

\* insert, once for each of the versions
InsertAll(es, versions) ==
    es \cup {[value |-> w.value, slot |-> w.slot, begin |-> w.begin, end |-> Never] : w \in versions}

\* A mutant: the entry looked for is the live one, whatever its begin.
SupersedeAny(es, old, newEnd) ==
    {IF \E w \in old : e.value = w.value THEN [e EXCEPT !.end = newEnd] ELSE e : e \in es}

\* supersede, once for each of the old versions: every entry of the value with
\* that begin, the row is not asked for
Supersede(es, old, newEnd) ==
    {IF \E w \in old : e.value = w.value /\ e.begin = w.begin THEN [e EXCEPT !.end = newEnd] ELSE e : e \in es}

Visible(e, read_ts) == e.begin <= read_ts /\ e.end > read_ts
Lookup(v, read_ts) == {e.slot : e \in {f \in entries : f.value = v /\ Visible(f, read_ts)}}
LookupRange(lo, hi, read_ts) == {e.slot : e \in {f \in entries : f.value >= lo /\ f.value <= hi /\ Visible(f, read_ts)}}

SecInit == /\ entries = {} /\ ts = 0 /\ history = [t \in {0} |-> <<>>]
           /\ cutoff = 0 /\ shared = FALSE /\ strayed = FALSE

Table == history[ts]
FreeSlots == Slot \ {e.slot : e \in entries}

\* A transaction writes the rows of writes: new versions in new slots
Commit(writes) ==
    LET new == [r \in DOMAIN writes |-> [value |-> writes[r].value, slot |-> writes[r].slot, begin |-> ts + 1]]
        old == {Table[r] : r \in DOMAIN Table \cap DOMAIN writes}
    IN  /\ ts < MaxCommits /\ ts' = ts + 1
        /\ entries' = InsertAll(Supersede(entries, old, ts + 1), {new[r] : r \in DOMAIN writes})
        /\ history' = [t \in 0..(ts + 1) |->
                         IF t <= ts THEN history[t]
                         ELSE [r \in DOMAIN Table \cup DOMAIN writes |-> IF r \in DOMAIN writes THEN new[r] ELSE Table[r]]]
        /\ shared' = (shared \/ \E r, q \in DOMAIN writes : r # q /\ writes[r].value = writes[q].value)
        /\ UNCHANGED <<cutoff, strayed>>

\* gc: an entry stays while its end is at or after min
Gc(min) == /\ min > cutoff /\ cutoff' = min
           /\ entries' = {e \in entries : e.end >= min \/ e.end = Never}
           /\ UNCHANGED <<ts, history, shared, strayed>>

\* relocate: compaction moved the row at old.  The entry is looked for by its
\* block and slot; ids of blocks are unique in their segment only.
SamePlace(slot, old) == slot[2] = old[2]
Redirected(e, old, new) == IF SamePlace(e.slot, old) THEN [e EXCEPT !.slot = new] ELSE e
Moved(version, old, new) == IF version.slot = old THEN [version EXCEPT !.slot = new] ELSE version
Relocate(old, new) == /\ new \in FreeSlots
                      /\ entries' = {Redirected(e, old, new) : e \in entries}
                      /\ history' = [t \in 0..ts |-> [r \in DOMAIN history[t] |-> Moved(history[t][r], old, new)]]
                      /\ strayed' = (strayed \/ \E e \in entries : SamePlace(e.slot, old) /\ e.slot # old)
                      /\ UNCHANGED <<ts, cutoff, shared>>

SecNext == \/ \E rs \in (SUBSET Row) \ {{}} : \E vs \in [rs -> Value], ss \in [rs -> FreeSlots] :
                (\A r, q \in rs : r # q => ss[r] # ss[q]) /\ Commit([r \in rs |-> [value |-> vs[r], slot |-> ss[r]]])
           \/ \E min \in 1..ts : Gc(min)
           \/ \E old \in {e.slot : e \in entries}, new \in FreeSlots : Relocate(old, new)

-----------------------------------------------------------------------------
\* A lookup as of any commit since the gc cutoff finds one entry for each row
\* that had the value then, through updates, gc and compaction, as long as no
\* transaction gave the same value to two rows: supersede would end both.  The
\* locators it gives are where these rows are, unless a compaction moved a row
\* while another segment had a row at the same block and slot.
SecondaryExact == ~shared => \A t \in cutoff..ts :
    LET having(vs) == {history[t][r] : r \in {q \in DOMAIN history[t] : history[t][q].value \in vs}}
        found(vs)  == {e \in entries : e.value \in vs /\ Visible(e, t)}
        slots(vs)  == {w.slot : w \in having(vs)}
    IN  /\ \A v \in Value : {e.begin : e \in found({v})} = {w.begin : w \in having({v})}
        /\ ~strayed => /\ \A v \in Value : Lookup(v, t) = slots({v})
                       /\ \A lo, hi \in Value : LookupRange(lo, hi, t) = slots(lo..hi)

\* Snippets and secondary indexes side by side.
SearchNext == \/ SnipNext /\ UNCHANGED sec_vars
              \/ SecNext /\ UNCHANGED text

SearchSpec == SnipInit /\ SecInit /\ [][SearchNext]_<<text, sec_vars>>

\* A snippet shows as many matches as any piece of its length, and a secondary
\* index gives the rows that had the value at the time asked for.
SearchSafe == SnippetSafe /\ SecondaryExact
=============================================================================
