------------------------------- MODULE ArtTree -------------------------------
(***************************************************************************)
(* The adaptive radix tree (cendb-index/src/art.rs).  A key is a sequence  *)
(* of bytes.  A node has one of four layouts, by how many children it has  *)
(* room for: Node4 and Node16 keep sorted keys beside their children,      *)
(* Node48 an index from bytes into slots, Node256 a slot for each byte.    *)
(***************************************************************************)
EXTENDS Integers, Sequences, FiniteSets, SequencesExt, FiniteSetsExt

CONSTANTS Byte,                   \* 0..255
          Cap4, Cap16, Cap48,     \* 4, 16, 48
          Pairs                   \* the keys with the values considered

VARIABLES root, len,
          map,         \* the pairs the calls so far amount to
          nested,      \* a key was inserted beside one that begins with it, or it with that
          collapsed    \* a remove has put an inner node in the place of its parent

Keys == {p[1] : p \in Pairs}

vars == <<root, len, map, nested, collapsed>>

None == [kind |-> "None"]
Leaf(key, value) == [kind |-> "Leaf", key |-> key, value |-> value]
Node(kind, prefix, keys, children) == [kind |-> kind, prefix |-> prefix, keys |-> keys, children |-> children]
NewNode4(prefix) == Node("Node4", prefix, <<>>, <<>>)
Inner(node) == node.kind \notin {"None", "Leaf"}

\* keys holds the bytes of Node4 and Node16, and of Node48 the index: for each
\* byte, counted from one, the slot of its child or 0.
NoIndex == [b \in 1..Cardinality(Byte) |-> 0]
Listed(node) == node.kind \in {"Node4", "Node16"}

ChildCount(node) == IF Listed(node) THEN Len(node.keys)
                    ELSE Cardinality({i \in DOMAIN node.children : node.children[i] # None})

FindChild(node, byte) ==
    CASE Listed(node) -> IF Contains(node.keys, byte) THEN node.children[SelectInSeq(node.keys, LAMBDA k : k = byte)] ELSE None
      [] node.kind = "Node48" -> IF node.keys[byte + 1] = 0 THEN None ELSE node.children[node.keys[byte + 1]]
      [] node.kind = "Node256" -> node.children[byte + 1]

\* iter_children: <<byte, child>> in the order of the bytes
IterChildren(node) ==
    LET bytes == SelectSeq([b \in DOMAIN NoIndex |-> b - 1], LAMBDA b : FindChild(node, b) # None)
    IN  [i \in DOMAIN bytes |-> <<bytes[i], FindChild(node, bytes[i])>>]

-----------------------------------------------------------------------------
\* Node16 into Node48, Node48 into Node256: every child keeps its byte
Grow(node) ==
    CASE node.kind = "Node4" -> [node EXCEPT !.kind = "Node16"]
      [] node.kind = "Node16" ->
           [node EXCEPT !.kind = "Node48", !.keys = [b \in DOMAIN NoIndex |-> SelectInSeq(node.keys, LAMBDA k : k = b - 1)]]
      [] node.kind = "Node48" ->
           Node("Node256", node.prefix, <<>>, [b \in DOMAIN NoIndex |-> FindChild(node, b - 1)])

Room(node) == CASE node.kind = "Node4" -> ChildCount(node) < Cap4   [] node.kind = "Node16" -> ChildCount(node) < Cap16
                [] node.kind = "Node48" -> ChildCount(node) < Cap48 [] node.kind = "Node256" -> TRUE

RECURSIVE InsertChild(_, _, _)
InsertChild(node, byte, child) ==
    IF ~Room(node) THEN InsertChild(Grow(node), byte, child)
    ELSE CASE Listed(node) ->
                LET pos == Cardinality({i \in DOMAIN node.keys : node.keys[i] <= byte}) + 1
                IN  [node EXCEPT !.keys = InsertAt(@, pos, byte), !.children = InsertAt(@, pos, child)]
           [] node.kind = "Node48" ->
                LET free == {i \in DOMAIN node.children : node.children[i] = None}
                    slot == IF free = {} THEN Len(node.children) + 1 ELSE Min(free)
                IN  [node EXCEPT !.keys[byte + 1] = slot,
                                 !.children = IF free = {} THEN Append(@, child) ELSE [@ EXCEPT ![slot] = child]]
           [] node.kind = "Node256" -> [node EXCEPT !.children[byte + 1] = child]

\* The smaller layout once few enough children are left; Node16 waits for one.
Shrunk(node, kids) ==
    LET bytes == [i \in DOMAIN kids |-> kids[i][1]]
        nodes == [i \in DOMAIN kids |-> kids[i][2]]
    IN  CASE node.kind = "Node16" /\ ChildCount(node) <= 1 -> [node EXCEPT !.kind = "Node4"]
          [] node.kind = "Node48" /\ ChildCount(node) <= Cap16 -> Node("Node16", node.prefix, bytes, nodes)
          [] node.kind = "Node256" /\ ChildCount(node) <= Cap48 ->
               Node("Node48", node.prefix, [b \in DOMAIN NoIndex |-> SelectInSeq(bytes, LAMBDA k : k = b - 1)], nodes)
          [] OTHER -> node
Shrink(node) == Shrunk(node, IterChildren(node))

\* A mutant: the index of Node48 keeps pointing at the slot that was emptied.
RemoveChildKeepsIndex(node, byte) ==
    CASE Listed(node) -> LET pos == SelectInSeq(node.keys, LAMBDA k : k = byte)
                         IN  Shrink([node EXCEPT !.keys = RemoveAt(@, pos), !.children = RemoveAt(@, pos)])
      [] node.kind = "Node48" -> Shrink([node EXCEPT !.children[node.keys[byte + 1]] = None])
      [] node.kind = "Node256" -> Shrink([node EXCEPT !.children[byte + 1] = None])
\* remove_child of a byte that has a child
RemoveChild(node, byte) ==
    CASE Listed(node) -> LET pos == SelectInSeq(node.keys, LAMBDA k : k = byte)
                         IN  Shrink([node EXCEPT !.keys = RemoveAt(@, pos), !.children = RemoveAt(@, pos)])
      [] node.kind = "Node48" -> Shrink([node EXCEPT !.children[node.keys[byte + 1]] = None, !.keys[byte + 1] = 0])
      [] node.kind = "Node256" -> Shrink([node EXCEPT !.children[byte + 1] = None])

-----------------------------------------------------------------------------
\* The number of bytes two sequences have in common at their start
Common(a, b) == Cardinality({n \in 1..Min({Len(a), Len(b)}) : \A i \in 1..n : a[i] = b[i]})

\* A leaf becomes a node with both keys below it.  A key that ends where they
\* part has no byte to be put under, and is left out.
PutLeaf(node, at, leaf) == IF at <= Len(leaf.key) THEN InsertChild(node, leaf.key[at], leaf) ELSE node
\* The keys may end together, when they differ before depth: below a node that
\* a collapse has moved up.  The leaf then stays and the new key is dropped.
SplitLeaf(leaf, key, depth, value) ==
    LET common == Common(SubSeq(key, depth + 1, Len(key)), SubSeq(leaf.key, depth + 1, Len(leaf.key)))
        at     == depth + common + 1
    IN  IF at > Len(key) /\ at > Len(leaf.key) THEN leaf
        ELSE PutLeaf(PutLeaf(NewNode4(SubSeq(key, depth + 1, depth + common)), at, leaf), at, Leaf(key, value))

\* A node whose prefix the key leaves gets a parent, which holds what of the
\* prefix they share.
SplitPrefix(node, key, depth, value, match) ==
    LET trimmed == [node EXCEPT !.prefix = SubSeq(@, match + 2, Len(@))]
    IN  PutLeaf(InsertChild(NewNode4(SubSeq(node.prefix, 1, match)), node.prefix[match + 1], trimmed),
                depth + match + 1, Leaf(key, value))

\* What came of the child goes where the child was
Replaced(node, byte, sub) == [node |-> InsertChild(RemoveChild(node, byte), byte, sub.node), old |-> sub.old]

\* insert_recursive: [node, old], old being <<>> or the value replaced
RECURSIVE InsertRec(_, _, _, _)
InsertRec(node, key, depth, value) ==
    CASE node = None -> [node |-> Leaf(key, value), old |-> <<>>]
      [] node.kind = "Leaf" -> IF node.key = key THEN [node |-> Leaf(key, value), old |-> <<node.value>>]
                               ELSE [node |-> SplitLeaf(node, key, depth, value), old |-> <<>>]
      [] OTHER ->
         LET match == Common(node.prefix, SubSeq(key, depth + 1, Len(key)))
             at    == depth + match + 1
         IN  IF match < Len(node.prefix) THEN [node |-> SplitPrefix(node, key, depth, value, match), old |-> <<>>]
             ELSE IF at > Len(key) THEN [node |-> node, old |-> <<>>]
             ELSE LET child == FindChild(node, key[at])
                  IN  IF child = None THEN [node |-> InsertChild(node, key[at], Leaf(key, value)), old |-> <<>>]
                      ELSE Replaced(node, key[at], InsertRec(child, key, at, value))

\* A node left with one child gives its place to it; the child keeps its own
\* prefix.
Settled(left, sub) ==
    LET one  == ChildCount(left) = 1 /\ sub.old # <<>>
        only == IterChildren(left)[1][2]
    IN  [node |-> IF one THEN only ELSE left, old |-> sub.old, collapsed |-> sub.collapsed \/ (one /\ Inner(only))]
PutBack(taken, byte, child) == IF child = None THEN taken ELSE InsertChild(taken, byte, child)
RemoveBelow(node, byte, sub) == Settled(PutBack(RemoveChild(node, byte), byte, sub.node), sub)

\* remove_recursive: [node, old, collapsed]
RECURSIVE RemoveRec(_, _, _)
RemoveRec(node, key, depth) ==
    LET same == [node |-> node, old |-> <<>>, collapsed |-> FALSE]
        at   == depth + Len(node.prefix) + 1
    IN  CASE node = None -> same
          [] node.kind = "Leaf" -> IF node.key = key THEN [node |-> None, old |-> <<node.value>>, collapsed |-> FALSE] ELSE same
          [] OTHER ->
             IF ~IsPrefix(node.prefix, SubSeq(key, depth + 1, Len(key))) \/ at > Len(key)
                \/ FindChild(node, key[at]) = None THEN same
             ELSE RemoveBelow(node, key[at], RemoveRec(FindChild(node, key[at]), key, at))

\* get: <<>> or <<value>>
RECURSIVE Find(_, _, _)
Find(node, key, depth) ==
    CASE node = None -> <<>>
      [] node.kind = "Leaf" -> IF node.key = key THEN <<node.value>> ELSE <<>>
      [] OTHER -> LET at == depth + Len(node.prefix) + 1
                  IN  IF ~IsPrefix(node.prefix, SubSeq(key, depth + 1, Len(key))) \/ at > Len(key) THEN <<>>
                      ELSE Find(FindChild(node, key[at]), key, at)
Get(key) == Find(root, key, 0)

\* ArtIter: the leaves from left to right
RECURSIVE Leaves(_)
Leaves(node) == CASE node = None -> <<>>
                  [] node.kind = "Leaf" -> <<<<node.key, node.value>>>>
                  [] OTHER -> LET kids == IterChildren(node) IN FlattenSeq([i \in DOMAIN kids |-> Leaves(kids[i][2])])
Iter == Leaves(root)

Less(a, b) == \E n \in 0..Len(a) : /\ n < Len(b) /\ \A i \in 1..n : a[i] = b[i]
                                   /\ n = Len(a) \/ (n < Len(a) /\ a[n + 1] < b[n + 1])

-----------------------------------------------------------------------------
Init == root = None /\ len = 0 /\ map = [k \in {} |-> 0] /\ nested = FALSE /\ collapsed = FALSE

Insert(key, value) ==
    \E r \in {InsertRec(root, key, 0, value)} :
        /\ root' = r.node /\ len' = IF r.old = <<>> THEN len + 1 ELSE len
        /\ map' = [k \in DOMAIN map \cup {key} |-> IF k = key THEN value ELSE map[k]]
        /\ nested' = (nested \/ \E k \in DOMAIN map : k # key /\ (IsPrefix(k, key) \/ IsPrefix(key, k)))
        /\ UNCHANGED collapsed

RemoveKey(key) ==
    \E r \in {RemoveRec(root, key, 0)} :
        /\ root' = r.node /\ len' = IF r.old = <<>> THEN len ELSE len - 1
        /\ map' = [k \in DOMAIN map \ {key} |-> map[k]]
        /\ collapsed' = (collapsed \/ r.collapsed) /\ UNCHANGED nested

\* Beyond a key that another one begins with, or a collapse, nothing is claimed.
Sound == ~collapsed /\ ~nested

Next == /\ Sound
        /\ \E p \in Pairs : Insert(p[1], p[2]) \/ RemoveKey(p[1])

Spec == Init /\ [][Next]_vars

-----------------------------------------------------------------------------
\* An iteration meets the pairs of the map, each once, in the order of keys.
InOrder == \A met \in {Iter} :
    /\ ToSet(met) = {<<k, map[k]>> : k \in DOMAIN map}
    /\ \A i \in 2..Len(met) : Less(met[i - 1][1], met[i][1])

\* As long as no key is the beginning of another and no remove has collapsed
\* an inner node, the tree is the map the calls amount to: lookups, the order
\* of an iteration, ranges and the length, through growing and shrinking.
IsTheMap ==
    Sound => /\ \A k \in Keys : Get(k) = IF k \in DOMAIN map THEN <<map[k]>> ELSE <<>>
             /\ InOrder
             /\ len = Cardinality(DOMAIN map)

\* A remove that collapses an inner node loses no leaf: an iteration still
\* meets every key in order, though lookups may miss some.
CollapseKeepsLeaves == ~nested => InOrder

ArtExact == IsTheMap /\ CollapseKeepsLeaves

=============================================================================
