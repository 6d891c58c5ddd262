-------------------------------- MODULE Hnsw --------------------------------
(***************************************************************************)
(* The HNSW vector index (cendb-vector/src/lib.rs).  A vector is its       *)
(* direction, a point on a line: the cosine distance grows with the        *)
(* difference of two directions.  Points are chosen so that no two         *)
(* distances from a point are equal.  The level drawn for a node is any    *)
(* level.                                                                  *)
(***************************************************************************)
EXTENDS Integers, Sequences, SequencesExt, FiniteSetsExt

CONSTANTS Point,         \* the directions, integers
          M,             \* config.m
          EfSearch, EfConstruction,
          TopLevel,      \* bound: the largest level drawn
          MaxInserts     \* bound: inserts

None == 0                \* no id; a VectorId is a positive integer, a fresh one the next

VARIABLES nodes,         \* id -> [vector, layers: sequence of sequences of ids]
          entryPoint, maxLevel,
          pruned,        \* some list of layer 0 was cut
          inserts,       \* number of inserts
          panicked       \* an index was out of bounds

vars == <<nodes, entryPoint, maxLevel, pruned, inserts, panicked>>

Abs(x) == IF x < 0 THEN -x ELSE x
Dist(ns, q, id) == Abs(q - ns[id].vector)
Nearest(ns, q, ids) == CHOOSE a \in ids : \A b \in ids : Dist(ns, q, a) <= Dist(ns, q, b)
Farthest(ns, q, ids) == CHOOSE a \in ids : \A b \in ids : Dist(ns, q, a) >= Dist(ns, q, b)
ByDistance(ns, q, ids) ==
    LET sorted[s \in SUBSET ids] ==
          IF s = {} THEN <<>> ELSE LET a == Nearest(ns, q, s) IN <<a>> \o sorted[s \ {a}]
    IN  sorted[ids]

\* One neighbour of the node taken from the candidates
Visit(ns, q, ef, st, nb) ==
    IF nb \in st.visited THEN st
    ELSE LET better == \/ Dist(ns, q, nb) < Dist(ns, q, Farthest(ns, q, st.found))
                       \/ Cardinality(st.found) < ef
             grown  == st.found \cup {nb}
         IN  [visited    |-> st.visited \cup {nb},
              candidates |-> IF better THEN st.candidates \cup {nb} ELSE st.candidates,
              found      |-> IF ~better THEN st.found
                             ELSE IF Cardinality(grown) > ef THEN grown \ {Farthest(ns, q, grown)} ELSE grown]

\* A mutant: the search stops at the first candidate that is not nearer than
\* the nearest found.
RECURSIVE ExploreGreedy(_, _, _, _, _)
ExploreGreedy(ns, q, ef, level, st) ==
    IF st.candidates = {} THEN st.found
    ELSE LET c == Nearest(ns, q, st.candidates)
             nbs == IF level < Len(ns[c].layers) THEN ns[c].layers[level + 1] ELSE <<>>
         IN  IF Dist(ns, q, c) > Dist(ns, q, Nearest(ns, q, st.found)) THEN st.found
             ELSE ExploreGreedy(ns, q, ef, level,
                    FoldLeft(LAMBDA s, nb : Visit(ns, q, ef, s, nb), [st EXCEPT !.candidates = @ \ {c}], nbs))

\* The loop of search_layer: until the nearest candidate is farther than the
\* farthest found
RECURSIVE Explore(_, _, _, _, _)
Explore(ns, q, ef, level, st) ==
    IF st.candidates = {} THEN st.found
    ELSE LET c == Nearest(ns, q, st.candidates)
             nbs == IF level < Len(ns[c].layers) THEN ns[c].layers[level + 1] ELSE <<>>
         IN  IF Dist(ns, q, c) > Dist(ns, q, Farthest(ns, q, st.found)) THEN st.found
             ELSE Explore(ns, q, ef, level,
                    FoldLeft(LAMBDA s, nb : Visit(ns, q, ef, s, nb), [st EXCEPT !.candidates = @ \ {c}], nbs))

SearchLayer(q, enter, ef, level) ==
    LET start == ToSet(enter)
    IN  ByDistance(nodes, q, Explore(nodes, q, ef, level, [visited |-> start, candidates |-> start, found |-> start]))

\* The greedy descent from the top to above a level
Descend(q, level) ==
    LET at[l \in level..maxLevel] ==
          IF l = maxLevel THEN <<entryPoint>> ELSE <<Head(SearchLayer(q, at[l + 1], 1, l + 1))>>
    IN  IF level >= maxLevel THEN <<entryPoint>> ELSE at[level]

MConn(level) == IF level = 0 THEN M * 2 ELSE M
Take(s, n) == SubSeq(s, 1, IF n < Len(s) THEN n ELSE Len(s))

Init == /\ nodes = <<>> /\ entryPoint = None /\ maxLevel = 0
        /\ pruned = FALSE /\ inserts = 0 /\ panicked = FALSE

Node(v, layers) == [vector |-> v, layers |-> layers]
With(f, x, y) == [z \in DOMAIN f \cup {x} |-> IF z = x THEN y ELSE f[z]]
Empties(level) == [l \in 1..(level + 1) |-> <<>>]

\* The neighbours chosen on each level, from the level of the node down
Connections(v, level) ==
    LET top == IF level < maxLevel THEN level ELSE maxLevel
        chosen[l \in 0..top] ==
          Take(SearchLayer(v, IF l = top THEN Descend(v, level) ELSE chosen[l + 1], EfConstruction, l), MConn(l))
    IN  chosen

\* Connecting back: nb lists id on the level; a list over twice its bound is
\* cut to the nearest
ConnectBack(st, id, l, nb) ==
    IF st.panicked \/ l >= Len(st.nodes[nb].layers) THEN [st EXCEPT !.panicked = TRUE]
    ELSE LET list == Append(st.nodes[nb].layers[l + 1], id)
             over == Len(list) > MConn(l) * 2
             \* the list may name an id twice; both stay
             order == SortSeq(list, LAMBDA a, b : Dist(st.nodes, st.nodes[nb].vector, a) < Dist(st.nodes, st.nodes[nb].vector, b))
         IN  [nodes    |-> [st.nodes EXCEPT ![nb].layers[l + 1] = IF over THEN Take(order, MConn(l)) ELSE list],
              pruned   |-> st.pruned \/ (over /\ l = 0),
              panicked |-> FALSE]

Insert(id, v, level) ==
    /\ ~panicked
    /\ inserts < MaxInserts /\ inserts' = inserts + 1
    /\ IF DOMAIN nodes = {}
       THEN /\ nodes' = With(nodes, id, Node(v, Empties(level)))
            /\ entryPoint' = id /\ maxLevel' = level
            /\ UNCHANGED <<pruned, panicked>>
       ELSE LET chosen == Connections(v, level)
                layers == [l \in 1..(level + 1) |-> IF l - 1 \in DOMAIN chosen THEN chosen[l - 1] ELSE <<>>]
                placed == [nodes |-> With(nodes, id, Node(v, layers)), pruned |-> pruned, panicked |-> FALSE]
                onLevel(st, l) == FoldLeft(LAMBDA s, nb : ConnectBack(s, id, l, nb), st, chosen[l])
                done == FoldLeft(onLevel, placed, [i \in 1..Cardinality(DOMAIN chosen) |-> i - 1])
            IN  /\ nodes' = done.nodes /\ pruned' = done.pruned /\ panicked' = done.panicked
                /\ IF level > maxLevel /\ ~done.panicked
                   THEN maxLevel' = level /\ entryPoint' = id
                   ELSE UNCHANGED <<maxLevel, entryPoint>>

Search(q, k) ==
    IF DOMAIN nodes = {} THEN <<>>
    ELSE Take(SearchLayer(q, Descend(q, 0), IF EfSearch > k THEN EfSearch ELSE k, 0), k)

Next == \E id \in 1..(Cardinality(DOMAIN nodes) + 1), v \in Point, level \in 0..TopLevel :
             (\A other \in DOMAIN nodes : nodes[other].vector # v) /\ Insert(id, v, level)
Spec == Init /\ [][Next]_vars

-----------------------------------------------------------------------------
Replaced == inserts # Cardinality(DOMAIN nodes)

\* While ids are fresh, no insert indexes past a node's layers, each link goes
\* to another node that has the layer, no list has an entry twice or more than
\* twice its bound, and the entry point is on the top level.
LinksSound == ~Replaced =>
    /\ ~panicked
    /\ DOMAIN nodes # {} => Len(nodes[entryPoint].layers) = maxLevel + 1
    /\ \A a \in DOMAIN nodes : \A l \in DOMAIN nodes[a].layers :
         LET list == nodes[a].layers[l] IN
         /\ Len(nodes[a].layers) <= maxLevel + 1 /\ Len(list) <= 2 * MConn(l - 1) /\ IsInjective(list)
         /\ \A b \in ToSet(list) : b # a /\ b \in DOMAIN nodes /\ l <= Len(nodes[b].layers)

\* The answer names each node once, nearest first; while ids are fresh and no
\* list of the ground layer was cut, a search that may keep every node finds
\* the k nearest exactly, whatever levels were drawn and whichever entry it
\* came down from.
SearchNearest == ~panicked => \A q \in Point : \A k \in 1..2 :
    LET r == Search(q, k) IN
    /\ IsInjective(r) /\ \A i, j \in DOMAIN r : i < j => Dist(nodes, q, r[i]) <= Dist(nodes, q, r[j])
    /\ (~Replaced /\ ~pruned /\ Cardinality(DOMAIN nodes) <= (IF EfSearch > k THEN EfSearch ELSE k))
         => r = Take(ByDistance(nodes, q, DOMAIN nodes), k)

HnswSafe == LinksSound /\ SearchNearest
=============================================================================
