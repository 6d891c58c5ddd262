------------------------------ MODULE MCStorage ------------------------------
(***************************************************************************)
(* The blob store, the column codecs, the radix tree, the search indexes,  *)
(* the relational table, the time-series store and the graph for TLC.      *)
(* They share no state in this code base, so a behaviour is one of any of  *)
(* them: part says of which, the others stand still.                       *)
(***************************************************************************)
EXTENDS BlobStore, Search

VARIABLES part,
          vals,
          root, len, map, nested, collapsed,
          nodes, entryPoint, maxLevel, pruned, vectors, panicked,
          key_kind, room, rel_blocks, rel_index, rel_pending, inserts, accepted,
          ts_blocks, summaries, ts_pending, appended, failures,
          nodes_block, edges_block, csr, pending_nodes, pending_edges, edges_added, flushes, lost

codec_vars == vals
art_vars == <<root, len, map, nested, collapsed>>
hnsw_vars == <<nodes, entryPoint, maxLevel, pruned, vectors, panicked>>
rel_vars == <<key_kind, room, rel_blocks, rel_index, rel_pending, inserts, accepted>>
ts_vars == <<ts_blocks, summaries, ts_pending, appended, failures>>
graph_vars == <<nodes_block, edges_block, csr, pending_nodes, pending_edges, edges_added, flushes, lost>>

\* Words of one letter, of two, and one that is stemmed
a == <<"a">>
ab == <<"a", "b">>
bc == <<"b", "c">>
Stopped == <<"z">>
MCStopWords == {Stopped}
MCStem(w) == IF w = bc THEN <<"b">> ELSE w
MCText == {<<>>, <<a>>, <<ab, a>>, <<bc, <<"b">>, a>>, <<Stopped, ab>>, <<a, a>>, <<Stopped>>}

\* Two places in each of two segments
MCSlot == {1, 2} \X {1, 2}

MCNeedles == {<<"x">>, <<"x", "y">>}

\* Keys that share prefixes, begin with one another, and fill the small nodes
MCKeys == {<<0, 0, 0>>, <<0, 0, 1>>, <<1, 0>>, <<2>>, <<3>>, <<4>>, <<5>>, <<1>>}
MCPairs == {<<k, 1>> : k \in MCKeys} \cup {<<<<0, 0, 0>>, 2>>}

Codecs == INSTANCE Codec WITH W <- 8, B <- 2, FieldBits <- 2, SmallBits <- 2, WideBits <- 4, DictMax <- 5, DictShare <- 3,
                              MostlyPercent <- 66, Sample <- {-128, -100, -1, 0, 1, 2, 7, 127}, MaxVals <- 4
Art == INSTANCE ArtTree WITH Byte <- 0..5, Cap4 <- 2, Cap16 <- 3, Cap48 <- 5, Pairs <- MCPairs
\* The index of the blob store is such a tree.  The removal of the first hash
\* leaves the other two below a node that has moved up.
MCHash == {<<0, 0>>, <<1, 2>>, <<1, 3>>}
MCNewIndex == Art!None
MCIndexGet(tree, h) == LET found == Art!Find(tree, h, 0) IN IF found = <<>> THEN 0 ELSE found[1]
MCIndexInsert(tree, h, count) == Art!InsertRec(tree, h, 0, count).node
MCIndexRemove(tree, h) == Art!RemoveRec(tree, h, 0).node
MCCollapses(tree, h) == Art!RemoveRec(tree, h, 0).collapsed
MCIndexIter(tree) == Art!Leaves(tree)

Vectors == INSTANCE Hnsw WITH Point <- {0, 1, 5, 12}, M <- 1, EfSearch <- 4, EfConstruction <- 2, TopLevel <- 1, MaxInserts <- 4, inserts <- vectors

L == INSTANCE PaxLayout
\* Rows: key and payload of the right kind, a Null key, a key of another kind
MCRowKeys == {L!Val("I64", 1), L!Val("U64", 1), L!Null}
MCPayloads == {L!Val("I64", 5), L!Null}
Proj == INSTANCE Projections WITH index <- rel_index, Keys <- MCRowKeys, Payloads <- MCPayloads, RowsPerBlock <- {1, 3},
                                  RelPendingCapacity <- 3, MaxInserts <- 4,
                                  Time <- {0, 1, 2}, Series <- {1, 2}, RowsPerChunk <- 2, TsPendingCapacity <- 3,
                                  MaxAppends <- 4, MaxFailures <- 1,
                                  Vertex <- {0, 1, 2}, NodeIds <- {0}, EdgeTypes <- {1, 2}, MaxEdges <- 3,
                                  EdgesPerBlock <- 2, added <- edges_added

SumInit == /\ part \in {"blob", "codec", "art", "fulltext", "snippet", "secondary", "hnsw", "rel", "ts", "graph"}
           /\ Init /\ Codecs!Init /\ Art!Init /\ FtsInit /\ SnipInit /\ SecInit /\ Vectors!Init
           /\ Proj!TsInit /\ Proj!GraphInit
           /\ Proj!RelInit /\ (part # "rel" => key_kind = "I64" /\ room = 1)

\* Bound: the references to all blobs that tables hold at once
MaxHeld == 3
Held == FoldFunction(LAMBDA n, m : n + m, 0, refs)

\* The blob store stops once a cut index has been loaded, as nothing is claimed
\* of it any more; compaction stops once it has led an entry astray.
SumNext ==
    /\ part' = part
    /\ IF part = "blob" THEN TRUE ELSE UNCHANGED vars
    /\ IF part = "codec" THEN TRUE ELSE UNCHANGED codec_vars
    /\ IF part = "art" THEN TRUE ELSE UNCHANGED art_vars
    /\ IF part = "fulltext" THEN TRUE ELSE UNCHANGED fts_vars
    /\ IF part = "snippet" THEN TRUE ELSE UNCHANGED text
    /\ IF part = "secondary" THEN TRUE ELSE UNCHANGED sec_vars
    /\ IF part = "hnsw" THEN TRUE ELSE UNCHANGED hnsw_vars
    /\ IF part = "rel" THEN TRUE ELSE UNCHANGED rel_vars
    /\ IF part = "ts" THEN TRUE ELSE UNCHANGED ts_vars
    /\ IF part = "graph" THEN TRUE ELSE UNCHANGED graph_vars
    /\ \/ part = "blob" /\ ~index_cut /\ Next /\ Held' <= MaxHeld
       \/ part = "codec" /\ Codecs!Next
       \/ part = "art" /\ Art!Next
       \/ part = "fulltext" /\ FtsNext
       \/ part = "snippet" /\ SnipNext
       \/ part = "secondary" /\ SecNext /\ (strayed => <<ts, cutoff>>' # <<ts, cutoff>>)
       \/ part = "hnsw" /\ Vectors!Next
       \/ part = "rel" /\ Proj!RelNext
       \/ part = "ts" /\ Proj!TsNext
       \/ part = "graph" /\ Proj!GraphNext

SumSpec == SumInit /\ [][SumNext]_<<part, vars, codec_vars, art_vars, fts_vars, text,
                                    sec_vars, hnsw_vars, rel_vars, ts_vars, graph_vars>>

\* Every codec that accepts a column returns it unchanged.
CodecsExact == part = "codec" => Codecs!CodecsExact

\* Indexes find what was added: the radix tree is the map of its inserts and
\* removes, as long as no key begins with another and no inner node has taken
\* its parent's place, and the index of the blob store is right again when the
\* store is opened anew; the inverted index and HNSW return what the documents
\* and the vectors say.
IndexesExact == /\ part = "blob" => IndexFaithful
                /\ part = "fulltext" => FullTextSafe
                /\ part = "hnsw" => Vectors!HnswSafe
                /\ part = "art" => Art!ArtExact

\* A lookup in a relational table finds the newest row of its key, and an
\* iteration every row once, across flushes that fail and lose what waited.
\* Scans of the time-series store find every reading of their range, once
\* unless a flush had failed halfway, whatever blocks they skip.  The graph's
\* overlay is the edges it was built from, with reachability and distance;
\* before a second flush it is of all the edges.
ProjectionsExact == /\ part = "rel" => Proj!RelationalSafe
                    /\ part = "ts" => Proj!ScansExact
                    /\ part = "graph" => Proj!GraphSafe
=============================================================================
