---------------------------- MODULE Projections -----------------------------
(***************************************************************************)
(* The relational, time-series and graph projections, which keep rows in   *)
(* blocks and the newest ones pending in memory.                           *)
(***************************************************************************)
EXTENDS PaxLayout, FiniteSets, Integers, Sequences, SequencesExt, FiniteSetsExt

(***************************************************************************)
(* A relational table (cendb-projection/src/relational.rs): rows wait in   *)
(* pending, a flush turns all of them into one PAX block and indexes them  *)
(* by primary key.  A row is <<key, payload>>, the key column being I64 or *)
(* U64.  Each row is tagged with the number of its insert.                 *)
(***************************************************************************)
CONSTANTS Keys, Payloads,       \* the values rows are made of
          RelPendingCapacity,      \* pending_capacity
          RowsPerBlock,         \* rows a block has room for: a set of choices
          MaxInserts

VARIABLES key_kind, room,       \* the schema's key column; rows per block
          rel_blocks, index, rel_pending,
          inserts,              \* calls of insert so far
          accepted              \* rows taken and not lost by a failed flush, in order

rel_vars == <<key_kind, room, rel_blocks, index, rel_pending, inserts, accepted>>

RelInit == /\ key_kind \in {"I64", "U64"} /\ room \in RowsPerBlock
           /\ rel_blocks = <<>> /\ index = [k \in {} |-> <<0, 0>>] /\ rel_pending = <<>>
           /\ inserts = 0 /\ accepted = <<>>

\* The key under which flush_pending indexes a row
PkVal(row) == IF row.key.k \in {"I64", "U64"} THEN row.key.v ELSE 0

Stored(row) == [row EXCEPT !.key = ReadBack(key_kind, @), !.payload = ReadBack("I64", @)]

FlushOk(p) == Len(p) <= room /\ \A i \in DOMAIN p : Storable(key_kind, p[i].key) /\ Storable("I64", p[i].payload)

\* A mutant: the first of several rows with one key is indexed.
FlushedFirst(p) ==
    LET id == Len(rel_blocks) + 1
    IN  /\ rel_blocks' = Append(rel_blocks, [i \in DOMAIN p |-> Stored(p[i])])
        /\ index' = [k \in DOMAIN index \cup {PkVal(p[i]) : i \in DOMAIN p} |->
                       LET slots == {i \in DOMAIN p : PkVal(p[i]) = k}
                       IN  IF slots = {} THEN index[k] ELSE <<id, Min(slots)>>]

\* The block gets the next number; a later row of the same key replaces the
\* earlier one in the index.
Flushed(p) ==
    LET id == Len(rel_blocks) + 1
    IN  /\ rel_blocks' = Append(rel_blocks, [i \in DOMAIN p |-> Stored(p[i])])
        /\ index' = [k \in DOMAIN index \cup {PkVal(p[i]) : i \in DOMAIN p} |->
                       LET slots == {i \in DOMAIN p : PkVal(p[i]) = k}
                       IN  IF slots = {} THEN index[k] ELSE <<id, Max(slots)>>]

\* flush_pending drains pending as it goes: an error drops all of it.
RelFlushPending(p, new) ==
    /\ rel_pending' = <<>>
    /\ IF FlushOk(p) THEN Flushed(p) /\ accepted' = accepted \o new
       ELSE /\ accepted' = SubSeq(accepted, 1, Len(accepted) - Len(rel_pending))
            /\ UNCHANGED <<rel_blocks, index>>

Insert(row) ==
    /\ inserts < MaxInserts /\ inserts' = inserts + 1
    /\ IF Len(rel_pending) + 1 >= RelPendingCapacity THEN RelFlushPending(Append(rel_pending, row), <<row>>)
       ELSE /\ rel_pending' = Append(rel_pending, row) /\ accepted' = Append(accepted, row)
            /\ UNCHANGED <<rel_blocks, index>>
    /\ UNCHANGED <<key_kind, room>>

RelFlush == rel_pending # <<>> /\ RelFlushPending(rel_pending, <<>>) /\ UNCHANGED <<key_kind, room, inserts>>

\* find_by_pk: the newest pending row, of I64 keys only, then the index
FindByPk(pk) ==
    LET waiting == {i \in DOMAIN rel_pending : rel_pending[i].key = Val("I64", pk)}
    IN  IF waiting # {} THEN {rel_pending[Max(waiting)]}
        ELSE IF pk \in DOMAIN index THEN {rel_blocks[index[pk][1]][index[pk][2]]}
        ELSE {}

\* RelationalIter: pending first, then the blocks
Iter == rel_pending \o FlattenSeq(rel_blocks)

\* scan_column_i64 over the payload: the blocks, then pending rows of a number
ScanPayload == [i \in DOMAIN FlattenSeq(rel_blocks) |-> FlattenSeq(rel_blocks)[i].payload.v]
               \o [i \in DOMAIN SelectSeq(rel_pending, LAMBDA r : r.payload.k # "Null") |->
                     SelectSeq(rel_pending, LAMBDA r : r.payload.k # "Null")[i].payload.v]

RowCount == Len(rel_pending) + Len(FlattenSeq(rel_blocks))

RelNext == RelFlush \/ \E k \in Keys, p \in Payloads : Insert([n |-> inserts + 1, key |-> k, payload |-> p])

RelSpec == RelInit /\ [][RelNext]_rel_vars

-----------------------------------------------------------------------------
\* A lookup returns the row of the last insert with that key which no failed
\* flush has dropped, waiting or flushed, in a table whose key column is I64.
FindsNewest ==
    key_kind = "I64" => \A pk \in {k.v : k \in Keys} :
        LET mine == {i \in DOMAIN accepted : accepted[i].key = Val("I64", pk)}
            zero == {i \in DOMAIN accepted : pk = 0 /\ accepted[i].key = Null}
        IN  zero = {} => {r.n : r \in FindByPk(pk)} = IF mine = {} THEN {} ELSE {accepted[Max(mine)].n}

\* An iteration meets every accepted row once, as do the counts; the values
\* are what was inserted, a Null that was flushed as zero.
IterExact ==
    /\ RowCount = Len(accepted) /\ Len(Iter) = Len(accepted)
    /\ \A i \in DOMAIN accepted : \E j \in DOMAIN Iter :
          /\ Iter[j].n = accepted[i].n
          /\ Iter[j] \in {accepted[i], Stored(accepted[i])}

\* FindsNewest and IterExact together.
RelationalSafe == FindsNewest /\ IterExact

-----------------------------------------------------------------------------
(***************************************************************************)
(* The time-series store (cendb-projection/src/timeseries.rs): readings    *)
(* wait in pending; a flush sorts them by series and time, cuts them into  *)
(* blocks and notes the range of each, which scans use to skip blocks.     *)
(* The value of a reading is the number of its append.                     *)
(***************************************************************************)
CONSTANTS Time, Series, TsPendingCapacity,
          RowsPerChunk,    \* rows that fit into usable bytes, at least one
          MaxAppends, MaxFailures

VARIABLES ts_blocks, summaries, ts_pending, appended,
          failures         \* flushes in which a block could not be built

ts_vars == <<ts_blocks, summaries, ts_pending, appended, failures>>

TsInit == ts_blocks = <<>> /\ summaries = <<>> /\ ts_pending = <<>> /\ appended = <<>> /\ failures = 0

\* sort_by_key (series, time), which keeps the order of equals
Before(a, b) == \/ a.sid < b.sid
                \/ a.sid = b.sid /\ a.ts < b.ts
                \/ a.sid = b.sid /\ a.ts = b.ts /\ a.n < b.n
TsSorted(p) == SortSeq(p, Before)

\* Full chunks of the sorted rows, the last one shorter
Chunks(p) == [c \in 1..((Len(p) + RowsPerChunk - 1) \div RowsPerChunk) |->
                SubSeq(p, (c - 1) * RowsPerChunk + 1, Min({c * RowsPerChunk, Len(p)}))]

Summary(b) == LET ts == {b[i].ts : i \in DOMAIN b}
                  sid == {b[i].sid : i \in DOMAIN b}
              IN  [min_ts |-> Min(ts), max_ts |-> Max(ts), min_series |-> Min(sid), max_series |-> Max(sid)]

\* Blocks are added as they are built.  If one cannot be built the call fails,
\* with those before it in place and pending, now sorted, as a whole.
TsFlushPending(p) ==
    LET chunks == Chunks(TsSorted(p))
    IN  \E built \in 0..Len(chunks) :
          /\ ts_blocks' = ts_blocks \o SubSeq(chunks, 1, built)
          /\ summaries' = summaries \o [c \in 1..built |-> Summary(chunks[c])]
          /\ IF built = Len(chunks) THEN ts_pending' = <<>> /\ UNCHANGED failures
             ELSE failures < MaxFailures /\ failures' = failures + 1 /\ ts_pending' = TsSorted(p)

AppendReading(ts, sid) ==
    LET reading == [ts |-> ts, sid |-> sid, n |-> Len(appended) + 1]
        p == Append(ts_pending, reading)
    IN  /\ Len(appended) < MaxAppends /\ appended' = Append(appended, reading)
        /\ IF Len(p) >= TsPendingCapacity THEN TsFlushPending(p)
           ELSE ts_pending' = p /\ UNCHANGED <<ts_blocks, summaries, failures>>

\* flush_pending, seal, and persist_to_segment before it writes the blocks out
TsFlush == ts_pending # <<>> /\ TsFlushPending(ts_pending) /\ UNCHANGED appended

InRange(r, lo, hi) == r.ts >= lo /\ r.ts <= hi
\* A mutant: a block that ends at the lower bound is skipped.
TimeOverlapsStrict(s, lo, hi) == ~(s.max_ts <= lo \/ s.min_ts > hi)
TimeOverlaps(s, lo, hi) == ~(s.max_ts < lo \/ s.min_ts > hi)

Touched(lo, hi) == {i \in DOMAIN summaries : TimeOverlaps(summaries[i], lo, hi)}
TouchedForSeries(sid, lo, hi) == {i \in Touched(lo, hi) : sid >= summaries[i].min_series
                                                      /\ sid <= summaries[i].max_series}

RangeScan(lo, hi) ==
    SelectSeq(FlattenSeq([i \in DOMAIN ts_blocks |-> IF i \in Touched(lo, hi) THEN ts_blocks[i] ELSE <<>>])
              \o ts_pending, LAMBDA r : InRange(r, lo, hi))

RangeScanForSeries(sid, lo, hi) ==
    SelectSeq(FlattenSeq([i \in DOMAIN ts_blocks |-> IF i \in TouchedForSeries(sid, lo, hi) THEN ts_blocks[i] ELSE <<>>])
              \o ts_pending, LAMBDA r : InRange(r, lo, hi) /\ r.sid = sid)

TsNext == TsFlush \/ \E ts \in Time, sid \in Series : AppendReading(ts, sid)

TsSpec == TsInit /\ [][TsNext]_ts_vars

-----------------------------------------------------------------------------
Numbers(rs) == {rs[i].n : i \in DOMAIN rs}

\* A scan finds every reading of its range, whatever blocks it skips, and
\* nothing else; exactly once, unless a flush had failed halfway.
ScansExact ==
    \A lo, hi \in Time :
       LET wanted == {r \in ToSet(appended) : InRange(r, lo, hi)}
           found == RangeScan(lo, hi)
       IN  /\ Numbers(found) = {r.n : r \in wanted}
           /\ failures = 0 => Len(found) = Cardinality(wanted)
           /\ \A sid \in Series : LET s == RangeScanForSeries(sid, lo, hi) IN
                /\ Numbers(s) = {r.n : r \in {w \in wanted : w.sid = sid}}
                /\ failures = 0 => Len(s) = Cardinality(Numbers(s))

-----------------------------------------------------------------------------
(***************************************************************************)
(* The graph projection (cendb-projection/src/graph.rs): pending nodes and *)
(* edges, the blocks a flush makes of them, and the compressed-sparse-row  *)
(* overlay built from the edges block, which neighbours, two_hop and bfs   *)
(* read.  An edge is <<source, destination, type>>.                        *)
(***************************************************************************)
CONSTANTS Vertex, NodeIds, EdgeTypes, MaxEdges,   \* Vertex: a set of naturals
          EdgesPerBlock                           \* edges that fit into a block

VARIABLES nodes_block, edges_block,   \* the rows of each block, <<>> if there is none
          csr,                        \* the overlay, <<>> if there is none
          pending_nodes, pending_edges,
          added, flushes,             \* how many edges were added; flushes that wrote edges
          lost                        \* edges a failed flush dropped

graph_vars == <<nodes_block, edges_block, csr, pending_nodes, pending_edges, added, flushes, lost>>

GraphInit == /\ nodes_block = <<>> /\ edges_block = <<>> /\ csr = <<>>
             /\ pending_nodes = <<>> /\ pending_edges = <<>> /\ added = 0 /\ flushes = 0 /\ lost = 0

AddNode(n) == /\ Len(pending_nodes) = 0 /\ pending_nodes' = Append(pending_nodes, n) /\ csr' = <<>>
              /\ UNCHANGED <<nodes_block, edges_block, pending_edges, added, flushes, lost>>

AddEdge(s, d, t) == /\ added < MaxEdges
                    /\ pending_edges' = Append(pending_edges, <<s, d, t>>) /\ csr' = <<>>
                    /\ added' = added + 1
                    /\ UNCHANGED <<nodes_block, edges_block, pending_nodes, flushes, lost>>

\* Edges by source, then type, otherwise in the order they were added
GraphSorted(es) ==
    LET tagged == [i \in DOMAIN es |-> <<es[i], i>>]
        EdgeBefore(a, b) == \/ a[1][1] < b[1][1]
                            \/ a[1][1] = b[1][1] /\ a[1][3] < b[1][3]
                            \/ a[1][1] = b[1][1] /\ a[1][3] = b[1][3] /\ a[2] < b[2]
        s == SortSeq(tagged, EdgeBefore)
    IN  [i \in DOMAIN s |-> s[i][1]]

\* A block takes the place of the one before it; the overlay stays.  The rows
\* are drained first: if they do not fit, the call fails without them.
GraphFlush == LET fits == Len(pending_edges) <= EdgesPerBlock
                  writes == pending_edges # <<>> /\ fits
              IN  /\ pending_nodes # <<>> \/ pending_edges # <<>>
                  /\ nodes_block' = IF pending_nodes = <<>> THEN nodes_block ELSE pending_nodes
                  /\ edges_block' = IF writes THEN GraphSorted(pending_edges) ELSE edges_block
                  /\ flushes' = IF writes THEN flushes + 1 ELSE flushes
                  /\ lost' = IF fits THEN lost ELSE lost + Len(pending_edges)
                  /\ pending_nodes' = <<>> /\ pending_edges' = <<>>
                  /\ UNCHANGED <<csr, added>>

\* The labels do not fit into a block: the call fails without the nodes, and
\* before it comes to the edges.
GraphFlushFails == /\ pending_nodes # <<>> /\ pending_nodes' = <<>>
                   /\ UNCHANGED <<nodes_block, edges_block, csr, pending_edges, added, flushes, lost>>

\* CsrOverlay::build.  Positions and nodes are counted from zero, as in the
\* code: offsets[n] is the number of edges whose source is below n.
CsrBuild(es) ==
    LET byS     == SortSeq([i \in DOMAIN es |-> <<es[i][1], es[i][2], i>>],
                           LAMBDA a, b : a[1] < b[1] \/ (a[1] = b[1] /\ a[3] < b[3]))
        last    == Max({0} \cup UNION {{es[i][1], es[i][2]} : i \in DOMAIN es})
        offsets == [n \in 0..(last + 1) |-> Cardinality({i \in DOMAIN es : es[i][1] < n})]
        Cursor(i) == Cardinality({j \in 1..(i - 1) : byS[j][1] = byS[i][1]})
        pos     == [i \in DOMAIN byS |-> offsets[byS[i][1]] + Cursor(i) + 1]
    IN  [of |-> es,   \* the edges it was built from, which the code does not keep
         offsets |-> offsets,
         adjacency |-> [p \in DOMAIN byS |-> byS[CHOOSE i \in DOMAIN byS : pos[i] = p][2]],
         edge_refs |-> [p \in DOMAIN byS |-> byS[CHOOSE i \in DOMAIN byS : pos[i] = p][3]]]

BuildCsr == /\ csr = <<>> /\ edges_block # <<>>
            /\ csr' = CsrBuild(edges_block)
            /\ UNCHANGED <<nodes_block, edges_block, pending_nodes, pending_edges, added, flushes, lost>>

\* A mutant: the node with the highest number has no neighbours.
NeighborsButLast(n) == IF n + 2 \notin DOMAIN csr.offsets THEN <<>>
                       ELSE SubSeq(csr.adjacency, csr.offsets[n] + 1, csr.offsets[n + 1])
Neighbors(n) == IF n + 1 \notin DOMAIN csr.offsets THEN <<>>
                ELSE SubSeq(csr.adjacency, csr.offsets[n] + 1, csr.offsets[n + 1])

\* two_hop sorts and drops duplicates: a set
TwoHop(start) == UNION {ToSet(Neighbors(n)) : n \in ToSet(Neighbors(start))} \ {start}

\* Breadth first: the nodes of each depth not met before, up to max_depth
Bfs(start, max_depth) ==
    LET levels[d \in 0..max_depth] ==
          IF d = 0 THEN [visited |-> {start}, frontier |-> {start}]
          ELSE LET next == UNION {ToSet(Neighbors(n)) : n \in levels[d - 1].frontier} \ levels[d - 1].visited
               IN  [visited |-> levels[d - 1].visited \cup next, frontier |-> next]
    IN  {<<d, n>> : d \in 0..max_depth, n \in Vertex} \cap UNION {{d} \X levels[d].frontier : d \in 0..max_depth}

NodeCount == IF nodes_block # <<>> THEN Len(nodes_block) ELSE Len(pending_nodes)
EdgeCount == IF edges_block # <<>> THEN Len(edges_block) ELSE Len(pending_edges)

GraphNext == \/ GraphFlush \/ GraphFlushFails \/ BuildCsr
             \/ \E n \in NodeIds : AddNode(n)
             \/ \E s, d \in Vertex, t \in EdgeTypes : AddEdge(s, d, t)

GraphSpec == GraphInit /\ [][GraphNext]_graph_vars

-----------------------------------------------------------------------------
Edge(s, d) == \E i \in DOMAIN csr.of : csr.of[i][1] = s /\ csr.of[i][2] = d

\* The ends of the walks of k edges
Walks(k) == {<<path[0], path[k]>> : path \in {p \in [0..k -> Vertex] : \A i \in 0..(k - 1) : Edge(p[i], p[i + 1])}}

\* The overlay holds the edges it was built from: the neighbours of a node with
\* their multiplicity, parallel edges included, and references that point back
\* at the edge; two_hop and bfs are reachability and distance in it.
OverlayExact ==
    csr # <<>> =>
      /\ \A n \in Vertex : \A to \in {Neighbors(n)} : \A d \in Vertex :
            Cardinality({p \in DOMAIN to : to[p] = d})
              = Cardinality({i \in DOMAIN csr.of : csr.of[i][1] = n /\ csr.of[i][2] = d})
      /\ \A p \in DOMAIN csr.adjacency : csr.of[csr.edge_refs[p]][2] = csr.adjacency[p]
      /\ \A walks \in {[k \in 0..2 |-> Walks(k)]} : \A n \in Vertex :
           /\ TwoHop(n) = {d \in Vertex \ {n} : <<n, d>> \in walks[2]}
           /\ Bfs(n, 2) = {<<k, d>> \in (0..2) \X Vertex :
                             <<n, d>> \in walks[k] /\ \A j \in 0..(k - 1) : <<n, d>> \notin walks[j]}

\* Until a second flush every edge that was added is in the block or waiting,
\* or was dropped by a flush that failed, and the overlay is of that block.
NothingReplaced == flushes <= 1 => /\ Len(edges_block) + Len(pending_edges) + lost = added
                                   /\ csr # <<>> => csr.of = edges_block

GraphSafe == OverlayExact /\ NothingReplaced
=============================================================================
