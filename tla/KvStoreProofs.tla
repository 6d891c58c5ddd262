---------------------------- MODULE KvStoreProofs ----------------------------
(***************************************************************************)
(* Proofs about KvStore: the index, the pending writes and the sealed rows *)
(* agree, the store is a map with a saved copy (KvMap), and a compaction   *)
(* leaves one row of every live key and nothing else, for any keys,        *)
(* values, block and buffer sizes and any number of calls and restarts.    *)
(***************************************************************************)
EXTENDS KvStore, FiniteSetTheorems, SequenceTheorems, TLAPS

(* Numbers. *)

\* A nonempty set of natural numbers has a least element.
LEMMA LeastNat ==
    ASSUME NEW T \in SUBSET Nat, T # {}
    PROVE  \E x \in T : \A y \in T : x <= y
<1> DEFINE R == {ss \in Nat \X Nat : ss[1] < ss[2]}
<1>1. IsWellFoundedOn(R, Nat)
  BY NatLessThanWellFounded DEF OpToRel
<1>2. \A x, y \in Nat : x < y => <<x, y>> \in R
  OBVIOUS
<1> HIDE DEF R
<1>3. PICK x \in T : \A y \in T : ~ (<<y, x>> \in R)
  BY <1>1, WFMin, Zenon
<1>4. \A y \in T : x \in Nat /\ y \in Nat /\ ~ (y < x)
  BY <1>2, <1>3
<1>5. \A y \in T : x <= y
  BY <1>4
<1> QED BY <1>5

\* Min of a nonempty set of natural numbers is the least of them.
LEMMA MinIsLeast ==
    ASSUME NEW T \in SUBSET Nat, T # {}
    PROVE  /\ Min(T) \in T
           /\ \A y \in T : Min(T) <= y
<1>1. \E x \in T : \A y \in T : x <= y
  BY LeastNat
<1> QED BY <1>1 DEF Min

\* Max of a nonempty set of natural numbers that are at most n.
LEMMA MaxIsGreatest ==
    ASSUME NEW T \in SUBSET Nat, T # {}, NEW n \in Nat, \A y \in T : y <= n
    PROVE  /\ Max(T) \in T
           /\ \A y \in T : Max(T) >= y
<1> DEFINE U == {m \in Nat : \E y \in T : m = n - y}
<1>1. U \in SUBSET Nat /\ U # {}
  <2>1. PICK y \in T : TRUE
    OBVIOUS
  <2>2. n - y \in U
    BY <2>1
  <2> QED BY <2>2
<1>2. PICK m \in U : \A k \in U : m <= k
  <2> HIDE DEF U
  <2> QED BY <1>1, LeastNat
<1>3. PICK x \in T : m = n - x
  BY <1>2
<1>4. \A y \in T : n - y \in U
  OBVIOUS
<1>5. \A y \in T : x >= y
  BY <1>2, <1>3, <1>4
<1>6. \E z \in T : \A y \in T : z >= y
  BY <1>5
<1> QED BY <1>6 DEF Max

-----------------------------------------------------------------------------
(* Recursion and sorting. *)

\* What holds for 0 and passes from i - 1 to i holds up to n.
LEMMA UpTo ==
    ASSUME NEW n \in Nat, NEW T, 0 \in T, \A i \in 1..n : i - 1 \in T => i \in T
    PROVE  \A i \in 0..n : i \in T
<1> DEFINE U == {i \in 0..n : i \notin T}
<1>1. SUFFICES ASSUME U # {} PROVE FALSE
  OBVIOUS
<1>2. PICK m \in U : \A j \in U : m <= j
  <2>1. U \in SUBSET Nat
    OBVIOUS
  <2> HIDE DEF U
  <2> QED  BY <1>1, <2>1, LeastNat
<1>3. m \in 1..n
  BY <1>2
<1>4. m - 1 \notin U
  BY <1>2, <1>3
<1>5. m - 1 \in 0..n
  BY <1>3
<1> QED  BY <1>2, <1>3, <1>4, <1>5

Recursion(A, b, n, F) ==
    \E f \in [0..n -> A] : f[0] = b /\ \A i \in 1..n : f[i] = F[i][f[i - 1]]

\* A function defined step by step from its value at 0 exists.
LEMMA StepByStep ==
    ASSUME NEW A, NEW b \in A, NEW n \in Nat, NEW F \in [1..n -> [A -> A]]
    PROVE  Recursion(A, b, n, F)
<1> DEFINE Goes(f, m) == f \in [0..m -> A] /\ f[0] = b /\ \A i \in 1..m : f[i] = F[i][f[i - 1]]
           T == {m \in Nat : \E f : Goes(f, m)}
<1>1. 0 \in T
  <2>1. Goes([i \in 0..0 |-> b], 0)
    OBVIOUS
  <2> QED  BY <2>1
<1>2. \A m \in 1..n : m - 1 \in T => m \in T
  <2> SUFFICES ASSUME NEW m \in 1..n, m - 1 \in T PROVE m \in T
    OBVIOUS
  <2>1. PICK f : Goes(f, m - 1)
    OBVIOUS
  <2> DEFINE x == F[m][f[m - 1]]
             g == [i \in 0..m |-> IF i = m THEN x ELSE f[i]]
  <2>2. m - 1 \in Nat /\ m \in Nat /\ x \in A
    <3>1. m - 1 \in 0..(m - 1)
      OBVIOUS
    <3>2. f[m - 1] \in A
      BY <2>1, <3>1
    <3> QED  BY <3>2
  <2>3. \A i \in 0..(m - 1) : g[i] = f[i] /\ f[i] \in A
    <3> HIDE DEF x
    <3> QED  BY <2>1
  <2>4. g[m] = x
    BY <2>2
  <2>5. g \in [0..m -> A]
    <3> HIDE DEF x
    <3> QED  BY <2>1, <2>2
  <2>6. \A i \in 1..m : g[i] = F[i][g[i - 1]]
    <3> SUFFICES ASSUME NEW i \in 1..m PROVE g[i] = F[i][g[i - 1]]
      OBVIOUS
    <3>1. i - 1 \in 0..(m - 1) /\ (i = m \/ i \in 1..(m - 1))
      OBVIOUS
    <3>2. g[i - 1] = f[i - 1]
      BY <2>3, <3>1
    <3>3. CASE i = m
      <4> HIDE DEF g
      <4> QED  BY <2>4, <3>2, <3>3
    <3>4. CASE i \in 1..(m - 1)
      <4>1. g[i] = f[i] /\ f[i] = F[i][f[i - 1]]
        <5> HIDE DEF g
        <5> QED  BY <2>1, <2>3, <3>4
      <4> HIDE DEF g
      <4> QED  BY <3>2, <4>1
    <3> QED  BY <3>1, <3>3, <3>4
  <2>7. g[0] = b
    <3>1. g[0] = f[0]
      <4> HIDE DEF g
      <4> QED  BY <2>3, <2>2
    <3> QED  BY <2>1, <3>1
  <2>8. Goes(g, m)
    <3> HIDE DEF g
    <3> QED  BY <2>5, <2>6, <2>7
  <2> QED  BY <2>8, <2>2
<1>3. n \in T
  <2> HIDE DEF T
  <2>1. \A i \in 0..n : i \in T
    BY <1>1, <1>2, UpTo
  <2> QED  BY <2>1
<1> QED  BY <1>3 DEF Recursion

\* A finite set of integers can be listed in ascending order: the place of an
\* element is the number of those that are not above it.
LEMMA AscendingExists ==
    ASSUME NEW S \in SUBSET Int, IsFiniteSet(S)
    PROVE  /\ Cardinality(S) \in Nat
           /\ Ascending(S) \in [1..Cardinality(S) -> S]
           /\ \A i, j \in 1..Cardinality(S) : i < j => Ascending(S)[i] < Ascending(S)[j]
           /\ \A x \in S : \E i \in 1..Cardinality(S) : Ascending(S)[i] = x
<1> DEFINE n == Cardinality(S)
           Below(x) == {y \in S : y <= x}
           r == [x \in S |-> Cardinality(Below(x))]
<1>1. n \in Nat
  BY FS_CardinalityType
<1>2. \A x \in S : IsFiniteSet(Below(x)) /\ Cardinality(Below(x)) \in 1..n
  <2> SUFFICES ASSUME NEW x \in S
               PROVE  IsFiniteSet(Below(x)) /\ Cardinality(Below(x)) \in 1..n
    OBVIOUS
  <2>1. IsFiniteSet(Below(x)) /\ Cardinality(Below(x)) <= n
    <3>1. Below(x) \in SUBSET S
      OBVIOUS
    <3> HIDE DEF Below
    <3> QED  BY <3>1, FS_Subset
  <2>2. Cardinality(Below(x)) \in Nat
    <3> HIDE DEF Below
    <3> QED  BY <2>1, FS_CardinalityType
  <2>3. Cardinality(Below(x)) # 0
    <3>1. x \in Below(x)
      OBVIOUS
    <3> HIDE DEF Below
    <3> QED  BY <2>1, <3>1, FS_EmptySet
  <2> HIDE DEF Below
  <2> QED  BY <1>1, <2>1, <2>2, <2>3
<1>3. \A x, y \in S : x < y => r[x] < r[y]
  <2> SUFFICES ASSUME NEW x \in S, NEW y \in S, x < y
               PROVE  Cardinality(Below(x)) < Cardinality(Below(y))
    OBVIOUS
  <2>1. Below(x) \in SUBSET Below(y) /\ Below(x) # Below(y)
    <3>1. y \in Below(y) /\ y \notin Below(x)
      OBVIOUS
    <3>2. \A z \in Below(x) : z \in Below(y)
      OBVIOUS
    <3> HIDE DEF Below
    <3> QED  BY <3>1, <3>2
  <2> HIDE DEF Below
  <2>2. Cardinality(Below(x)) <= Cardinality(Below(y))
        /\ Cardinality(Below(x)) # Cardinality(Below(y))
    BY <1>2, <2>1, FS_Subset, Zenon
  <2> QED  BY <1>2, <2>2
<1>4. r \in Injection(S, 1..n)
  <2>1. r \in [S -> 1..n]
    <3> HIDE DEF Below
    <3> QED  BY <1>2
  <2>2. \A x, y \in S : x # y => r[x] # r[y]
    <3> SUFFICES ASSUME NEW x \in S, NEW y \in S, x # y PROVE r[x] # r[y]
      OBVIOUS
    <3>1. x \in Int /\ y \in Int /\ (x < y \/ y < x)
      OBVIOUS
    <3>2. r[x] \in 1..n /\ r[y] \in 1..n
      <4> HIDE DEF r, n
      <4> QED  BY <2>1
    <3> HIDE DEF r
    <3> QED  BY <1>3, <3>1, <3>2
  <2> HIDE DEF r
  <2> QED  BY <2>1, <2>2, Zenon DEF Injection, IsInjective
<1>5. r \in Surjection(S, 1..n)
  <2>1. IsFiniteSet(1..n) /\ Cardinality(1..n) = n
    BY <1>1, FS_Interval
  <2> HIDE DEF r
  <2> QED  BY <1>4, <2>1, FS_Injection
<1> DEFINE q == [i \in 1..n |-> CHOOSE x \in S : r[x] = i]
<1>6. \A i \in 1..n : q[i] \in S /\ r[q[i]] = i
  <2> SUFFICES ASSUME NEW i \in 1..n PROVE q[i] \in S /\ r[q[i]] = i
    OBVIOUS
  <2>1. \E x \in S : r[x] = i
    <3> HIDE DEF r
    <3> QED  BY <1>5 DEF Surjection
  <2> HIDE DEF r
  <2> QED  BY <2>1
<1>7. q \in [1..n -> S]
  <2> HIDE DEF r
  <2> QED  BY <1>6
<1>8. \A i, j \in 1..n : i < j => q[i] < q[j]
  <2> SUFFICES ASSUME NEW i \in 1..n, NEW j \in 1..n, i < j PROVE q[i] < q[j]
    OBVIOUS
  <2> HIDE DEF q, r
  <2>1. q[i] \in S /\ q[j] \in S /\ r[q[i]] = i /\ r[q[j]] = j
    BY <1>6
  <2>2. q[j] < q[i] => j < i
    BY <1>3, <2>1
  <2>3. q[i] # q[j]
    BY <2>1
  <2>4. q[i] \in Int /\ q[j] \in Int
    BY <2>1
  <2> QED  BY <2>2, <2>3, <2>4
<1>9. Ascending(S) \in [1..n -> S]
      /\ \A i, j \in 1..n : i < j => Ascending(S)[i] < Ascending(S)[j]
  <2> HIDE DEF q
  <2> QED  BY <1>7, <1>8, Zenon DEF Ascending
<1>10. \A x \in S : \E i \in 1..n : Ascending(S)[i] = x
  <2> DEFINE a == Ascending(S)
  <2>1. a \in Injection(1..n, S)
    <3>1. \A i, j \in 1..n : i # j => a[i] # a[j]
      <4> SUFFICES ASSUME NEW i \in 1..n, NEW j \in 1..n, i # j PROVE a[i] # a[j]
        OBVIOUS
      <4> HIDE DEF a
      <4>1. i < j \/ j < i
        BY <1>1
      <4>2. a[i] \in Int /\ a[j] \in Int
        BY <1>9 DEF a
      <4> QED  BY <1>9, <4>1, <4>2 DEF a
    <3> HIDE DEF a
    <3> QED  BY <1>9, <3>1, Zenon DEF Injection, IsInjective, a
  <2>2. IsFiniteSet(1..n) /\ Cardinality(1..n) = n
    BY <1>1, FS_Interval
  <2>3. a \in Surjection(1..n, S)
    <3> HIDE DEF a
    <3> QED  BY <2>1, <2>2, FS_Injection
  <2> HIDE DEF a
  <2> QED  BY <2>3, Zenon DEF Surjection, a
<1> HIDE DEF q, r
<1> QED  BY <1>1, <1>9, <1>10
-----------------------------------------------------------------------------
(* Blocks and the places of rows in them. *)

\* Row i of block c exists and is of key k.
At(blocks, c, i, k) ==
    c \in 1..Len(blocks) /\ i \in 1..Len(blocks[c]) /\ blocks[c][i].key = k

\* No key is twice in a block.
Distinct(block) == \A i, j \in 1..Len(block) : block[i].key = block[j].key => i = j

AllSealed(blocks) ==
    /\ blocks \in Seq(Seq(Row))
    /\ \A c \in 1..Len(blocks) : Fits(blocks[c]) /\ Distinct(blocks[c])

\* The rows of a concatenation.
LEMMA Joined ==
    ASSUME NEW a \in Seq(Seq(Row)), NEW b \in Seq(Seq(Row))
    PROVE  /\ a \o b \in Seq(Seq(Row)) /\ Len(a \o b) = Len(a) + Len(b)
           /\ \A c \in 1..Len(a) : (a \o b)[c] = a[c]
           /\ \A c \in 1..Len(b) : (a \o b)[Len(a) + c] = b[c]
OBVIOUS

LEMMA JoinedRows ==
    ASSUME NEW a \in Seq(Seq(Row)), NEW b \in Seq(Seq(Row)), NEW k
    PROVE  /\ \A c, i : At(a, c, i, k) => At(a \o b, c, i, k) /\ (a \o b)[c] = a[c]
           /\ \A c, i : At(b, c, i, k) => At(a \o b, Len(a) + c, i, k) /\ (a \o b)[Len(a) + c] = b[c]
           /\ \A c, i : At(a \o b, c, i, k) =>
                  At(a, c, i, k) \/ (c > Len(a) /\ At(b, c - Len(a), i, k))
<1>1. Len(a) \in Nat /\ Len(b) \in Nat
  OBVIOUS
<1>2. /\ Len(a \o b) = Len(a) + Len(b)
      /\ \A c \in 1..Len(a) : (a \o b)[c] = a[c]
      /\ \A c \in 1..Len(b) : (a \o b)[Len(a) + c] = b[c]
  BY Joined
<1>3. ASSUME NEW c, NEW i, At(a, c, i, k) PROVE At(a \o b, c, i, k) /\ (a \o b)[c] = a[c]
  <2>1. c \in 1..Len(a) /\ c \in 1..Len(a \o b) /\ (a \o b)[c] = a[c]
    BY <1>1, <1>2, <1>3 DEF At
  <2> QED  BY <1>3, <2>1 DEF At
<1>4. ASSUME NEW c, NEW i, At(b, c, i, k)
      PROVE  At(a \o b, Len(a) + c, i, k) /\ (a \o b)[Len(a) + c] = b[c]
  <2>1. c \in 1..Len(b) /\ Len(a) + c \in 1..Len(a \o b) /\ (a \o b)[Len(a) + c] = b[c]
    BY <1>1, <1>2, <1>4 DEF At
  <2> QED  BY <1>4, <2>1 DEF At
<1>5. ASSUME NEW c, NEW i, At(a \o b, c, i, k)
      PROVE  At(a, c, i, k) \/ (c > Len(a) /\ At(b, c - Len(a), i, k))
  <2>1. c \in 1..(Len(a) + Len(b))
    BY <1>2, <1>5 DEF At
  <2>2. CASE c <= Len(a)
    <3>1. c \in 1..Len(a) /\ (a \o b)[c] = a[c]
      BY <1>1, <1>2, <2>1, <2>2
    <3> QED  BY <1>5, <3>1 DEF At
  <2>3. CASE c > Len(a)
    <3> DEFINE d == c - Len(a)
    <3>1. d \in 1..Len(b) /\ c = Len(a) + d
      BY <1>1, <2>1, <2>3
    <3>2. (a \o b)[c] = b[d]
      <4> HIDE DEF d
      <4> QED  BY <1>2, <3>1
    <3>3. At(b, d, i, k)
      <4> HIDE DEF d
      <4> QED  BY <1>5, <3>1, <3>2 DEF At
    <3> QED  BY <2>3, <3>3
  <2> QED  BY <1>1, <2>1, <2>2, <2>3
<1> QED  BY <1>3, <1>4, <1>5

LEMMA JoinedSealed ==
    ASSUME NEW a, NEW b, AllSealed(a), AllSealed(b)
    PROVE  AllSealed(a \o b)
<1>1. a \in Seq(Seq(Row)) /\ b \in Seq(Seq(Row)) /\ Len(a) \in Nat /\ Len(b) \in Nat
  BY DEF AllSealed
<1>2. /\ a \o b \in Seq(Seq(Row)) /\ Len(a \o b) = Len(a) + Len(b)
      /\ \A c \in 1..Len(a) : (a \o b)[c] = a[c]
      /\ \A c \in 1..Len(b) : (a \o b)[Len(a) + c] = b[c]
  BY <1>1, Joined
<1>3. ASSUME NEW c \in 1..Len(a \o b)
      PROVE  Fits((a \o b)[c]) /\ Distinct((a \o b)[c])
  <2>1. CASE c <= Len(a)
    <3>1. c \in 1..Len(a) /\ (a \o b)[c] = a[c]
      BY <1>1, <1>2, <2>1
    <3> QED  BY <3>1 DEF AllSealed
  <2>2. CASE c > Len(a)
    <3> DEFINE d == c - Len(a)
    <3>1. d \in 1..Len(b) /\ c = Len(a) + d
      BY <1>1, <1>2, <2>2
    <3> HIDE DEF d
    <3>2. (a \o b)[c] = b[d]
      BY <1>2, <3>1
    <3> QED  BY <3>1, <3>2 DEF AllSealed
  <2>3. c <= Len(a) \/ c > Len(a)
    BY <1>1, <1>2
  <2> QED  BY <2>1, <2>2, <2>3
<1> QED  BY <1>2, <1>3 DEF AllSealed

\* A row of a sealed block has a slot that the store can read.
LEMMA RowTypes ==
    ASSUME NEW blocks, AllSealed(blocks), NEW c \in 1..Len(blocks), NEW i \in 1..Len(blocks[c])
    PROVE  /\ blocks[c] \in Seq(Row) /\ blocks[c][i] \in Row
           /\ Len(blocks[c]) <= RowsPerBlock /\ Len(blocks[c]) \in Nat
           /\ blocks[c][i].value \in Value \cup {Empty} /\ blocks[c][i].value # Huge
           /\ blocks[c][i].key \in Key
<1>1. blocks[c] \in Seq(Row)
  BY DEF AllSealed
<1>2. blocks[c][i] \in Row
  BY <1>1
<1>3. Fits(blocks[c])
  BY DEF AllSealed
<1> QED  BY <1>1, <1>2, <1>3 DEF Fits, Row

-----------------------------------------------------------------------------
(* Sealing. *)

Place == Nat \X Nat

Store == [blocks : Seq(Seq(Row)), index : [Key -> Place],
          pending : [Key -> Value \cup {Empty, Absent}], pending_order : Seq(Key)]

\* The chunks with a row of k.
Holding(chunks, k) == {c \in 1..Len(chunks) : SlotsOf(chunks[c], k) # {}}

SealedIndex(s, chunks) ==
    [k \in Key |->
        IF Holding(chunks, k) = {} THEN s.index[k]
        ELSE <<Len(s.blocks) + Max(Holding(chunks, k)),
               Max(SlotsOf(chunks[Max(Holding(chunks, k))], k))>>]

LEMMA SealAllForm ==
    ASSUME NEW s, NEW chunks
    PROVE  SealAll(s, chunks) =
               [s EXCEPT !.blocks = @ \o chunks, !.index = SealedIndex(s, chunks)]
BY Zenon DEF SealAll, SealedIndex, Holding

LEMMA LastRow ==
    ASSUME NEW chunks \in Seq(Seq(Row)), NEW k
    PROVE  IF Holding(chunks, k) = {}
           THEN \A c, i : ~ At(chunks, c, i, k)
           ELSE LET c == Max(Holding(chunks, k))
                    i == Max(SlotsOf(chunks[c], k))
                IN /\ At(chunks, c, i, k)
                   /\ c \in Nat /\ i \in Nat /\ c > 0
                   /\ \A d, j : At(chunks, d, j, k) => d <= c
<1> DEFINE H == Holding(chunks, k)
<1>1. Len(chunks) \in Nat
  OBVIOUS
<1>2. \A d, j : At(chunks, d, j, k) => d \in H
  BY DEF Holding, SlotsOf, At
<1>3. CASE H = {}
  BY <1>2, <1>3
<1>4. CASE H # {}
  <2> DEFINE c == Max(H)
             S == SlotsOf(chunks[c], k)
             i == Max(S)
  <2>1. H \in SUBSET Nat /\ \A y \in H : y <= Len(chunks)
    BY <1>1 DEF Holding
  <2>2. c \in H /\ \A y \in H : c >= y
    <3> HIDE DEF H
    <3> QED  BY <1>1, <1>4, <2>1, MaxIsGreatest
  <2>3. c \in 1..Len(chunks) /\ S # {}
    <3> HIDE DEF c
    <3> QED  BY <2>2 DEF Holding
  <2>4. chunks[c] \in Seq(Row) /\ Len(chunks[c]) \in Nat
    <3>1. chunks[c] \in Seq(Row)
      <4> HIDE DEF c
      <4> QED  BY <2>3
    <3> HIDE DEF c
    <3> QED  BY <3>1
  <2>5. S \in SUBSET Nat /\ \A y \in S : y <= Len(chunks[c])
    <3> HIDE DEF c
    <3> QED  BY <2>4 DEF SlotsOf
  <2>6. i \in S
    <3> HIDE DEF S, c
    <3> QED  BY <2>3, <2>4, <2>5, MaxIsGreatest
  <2>7. At(chunks, c, i, k) /\ i \in Nat
    <3> HIDE DEF i, c
    <3> QED  BY <2>3, <2>4, <2>6 DEF At, SlotsOf
  <2>8. \A d, j : At(chunks, d, j, k) => d <= c
    <3> SUFFICES ASSUME NEW d, NEW j, At(chunks, d, j, k) PROVE d <= c
      OBVIOUS
    <3>1. d \in H /\ d \in Nat /\ c \in Nat
      BY <1>2, <2>1, <2>2
    <3> HIDE DEF c, H
    <3> QED  BY <2>2, <3>1
  <2>9. c \in Nat /\ c > 0
    <3> HIDE DEF c
    <3> QED  BY <2>3
  <2> HIDE DEF c, i, S
  <2>10. At(chunks, c, i, k) /\ c \in Nat /\ i \in Nat /\ c > 0
    BY <2>7, <2>9
  <2> QED  BY <1>4, <2>8, <2>10 DEF c, i, S
<1> QED  BY <1>3, <1>4

\* What sealing does to the fields of the store.
LEMMA SealAllEffect ==
    ASSUME NEW s \in Store, NEW chunks \in Seq(Seq(Row)), NEW t, t = SealAll(s, chunks)
    PROVE  /\ t \in Store
           /\ t.blocks = s.blocks \o chunks
           /\ t.pending = s.pending /\ t.pending_order = s.pending_order
           /\ \A k \in Key :
                 \/ t.index[k] = s.index[k] /\ \A c, i : ~ At(chunks, c, i, k)
                 \/ \E c, i : /\ At(chunks, c, i, k)
                              /\ t.index[k] = <<Len(s.blocks) + c, i>>
                              /\ \A d, j : At(chunks, d, j, k) => d <= c
<1> DEFINE b == s.blocks \o chunks
           x == SealedIndex(s, chunks)
<1>1. t = [s EXCEPT !.blocks = b, !.index = x]
  BY SealAllForm, Zenon
<1>2. \A k \in Key :
         \/ x[k] = s.index[k] /\ \A c, i : ~ At(chunks, c, i, k)
         \/ \E c, i : /\ At(chunks, c, i, k) /\ c \in Nat /\ i \in Nat
                      /\ x[k] = <<Len(s.blocks) + c, i>>
                      /\ \A d, j : At(chunks, d, j, k) => d <= c
  <2> SUFFICES ASSUME NEW k \in Key
               PROVE  \/ x[k] = s.index[k] /\ \A c, i : ~ At(chunks, c, i, k)
                      \/ \E c, i : /\ At(chunks, c, i, k) /\ c \in Nat /\ i \in Nat
                                   /\ x[k] = <<Len(s.blocks) + c, i>>
                                   /\ \A d, j : At(chunks, d, j, k) => d <= c
    OBVIOUS
  <2>1. x[k] = IF Holding(chunks, k) = {} THEN s.index[k]
               ELSE <<Len(s.blocks) + Max(Holding(chunks, k)),
                      Max(SlotsOf(chunks[Max(Holding(chunks, k))], k))>>
    BY DEF SealedIndex
  <2> HIDE DEF x
  <2>2. CASE Holding(chunks, k) = {}
    BY <2>1, <2>2, LastRow
  <2>3. CASE Holding(chunks, k) # {}
    <3> DEFINE c == Max(Holding(chunks, k))
               i == Max(SlotsOf(chunks[c], k))
    <3>1. /\ At(chunks, c, i, k) /\ c \in Nat /\ i \in Nat
          /\ \A d, j : At(chunks, d, j, k) => d <= c
      BY <2>3, LastRow
    <3>2. x[k] = <<Len(s.blocks) + c, i>>
      BY <2>1, <2>3
    <3> HIDE DEF c, i
    <3> QED  BY <3>1, <3>2
  <2> QED  BY <2>2, <2>3
<1>3. b \in Seq(Seq(Row)) /\ Len(s.blocks) \in Nat
  <2>1. s.blocks \in Seq(Seq(Row))
    BY DEF Store
  <2> QED  BY <2>1
<1>4. x \in [Key -> Place]
  <2>1. x = [k \in Key |-> x[k]]
    BY DEF SealedIndex
  <2>2. \A k \in Key : x[k] \in Place
    <3> SUFFICES ASSUME NEW k \in Key PROVE x[k] \in Place
      OBVIOUS
    <3>1. s.index[k] \in Place
      BY DEF Store
    <3>2. x[k] = s.index[k] \/ \E c \in Nat, i \in Nat : x[k] = <<Len(s.blocks) + c, i>>
      <4> HIDE DEF x
      <4> QED  BY <1>2
    <3> HIDE DEF x
    <3>3. ASSUME NEW c \in Nat, NEW i \in Nat, x[k] = <<Len(s.blocks) + c, i>>
          PROVE  x[k] \in Place
      BY <1>3, <3>3 DEF Place
    <3> QED  BY <3>1, <3>2, <3>3
  <2> HIDE DEF x
  <2> QED  BY <2>1, <2>2
<1> HIDE DEF b, x
<1>5. t \in Store /\ t.blocks = b /\ t.index = x
      /\ t.pending = s.pending /\ t.pending_order = s.pending_order
  BY <1>1, <1>3, <1>4 DEF Store
<1> QED  BY <1>2, <1>5 DEF b

-----------------------------------------------------------------------------
(* The invariant of the store. *)

\* An index entry of k leads to a row of k in the last block that has one.
Indexed(blocks, place, k) ==
    place # NoPlace => /\ At(blocks, place[1], place[2], k)
                       /\ \A c, i : At(blocks, c, i, k) => c <= place[1]

\* Sealed rows of k that the index does not know.
Orphan(s, k) == s.index[k] = NoPlace /\ \E c, i : At(s.blocks, c, i, k)

Sound(s) == /\ s \in Store
            /\ AllSealed(s.blocks)
            /\ \A k \in Key : Indexed(s.blocks, s.index[k], k)

\* pending_order lists the pending keys once each.
Ordered(s) ==
    /\ \A i, j \in 1..Len(s.pending_order) : s.pending_order[i] = s.pending_order[j] => i = j
    /\ \A k \in Key : k \in Pending(s) <=> \E i \in 1..Len(s.pending_order) : s.pending_order[i] = k

\* Only keys of X may have orphans without a pending write, which hides them.
StoreOK(s, X) == /\ Sound(s)
                 /\ Ordered(s)
                 /\ \A k \in Key : Orphan(s, k) => k \in Pending(s) \cup X

SealedValue(s, k) == IF s.index[k] = NoPlace THEN Absent ELSE RowAt(s, s.index[k]).value

\* Sealing keeps the index right; of a key with a row in the chunks it leads to
\* one of them, of any other key to the row that it led to.
LEMMA SealingOfKey ==
    ASSUME NEW s, Sound(s), NEW chunks, AllSealed(chunks), NEW t, t = SealAll(s, chunks),
           NEW k \in Key
    PROVE  /\ Indexed(t.blocks, t.index[k], k)
           /\ Orphan(t, k) => Orphan(s, k) /\ \A c, i : ~ At(chunks, c, i, k)
           /\ \/ SealedValue(t, k) = SealedValue(s, k) /\ \A c, i : ~ At(chunks, c, i, k)
              \/ \E c, i : At(chunks, c, i, k) /\ SealedValue(t, k) = chunks[c][i].value
<1> DEFINE n == Len(s.blocks)
<1>1. s \in Store /\ s.blocks \in Seq(Seq(Row)) /\ chunks \in Seq(Seq(Row)) /\ n \in Nat
  BY DEF Sound, AllSealed
<1>2. /\ t.blocks = s.blocks \o chunks
      /\ \/ t.index[k] = s.index[k] /\ \A c, i : ~ At(chunks, c, i, k)
         \/ \E c, i : /\ At(chunks, c, i, k)
                      /\ t.index[k] = <<n + c, i>>
                      /\ \A d, j : At(chunks, d, j, k) => d <= c
  BY <1>1, SealAllEffect
<1>3. /\ \A c, i : At(s.blocks, c, i, k) => At(t.blocks, c, i, k) /\ t.blocks[c] = s.blocks[c]
      /\ \A c, i : At(chunks, c, i, k) => At(t.blocks, n + c, i, k) /\ t.blocks[n + c] = chunks[c]
      /\ \A c, i : At(t.blocks, c, i, k) =>
            At(s.blocks, c, i, k) \/ (c > n /\ At(chunks, c - n, i, k))
  <2> DEFINE u == s.blocks \o chunks
  <2>1. /\ \A c, i : At(s.blocks, c, i, k) => At(u, c, i, k) /\ u[c] = s.blocks[c]
        /\ \A c, i : At(chunks, c, i, k) => At(u, n + c, i, k) /\ u[n + c] = chunks[c]
        /\ \A c, i : At(u, c, i, k) =>
              At(s.blocks, c, i, k) \/ (c > n /\ At(chunks, c - n, i, k))
    BY <1>1, JoinedRows, Zenon
  <2>2. t.blocks = u
    BY <1>2
  <2> HIDE DEF u, n
  <2> QED  BY <2>1, <2>2, Zenon
<1> HIDE DEF n
<1>6. CASE t.index[k] = s.index[k] /\ \A c, i : ~ At(chunks, c, i, k)
  <2>1. \A c, i : At(t.blocks, c, i, k) => At(s.blocks, c, i, k)
    BY <1>3, <1>6
  <2>2. Orphan(t, k) => Orphan(s, k)
    BY <1>6, <2>1 DEF Orphan
  <2>3. Indexed(s.blocks, s.index[k], k)
    BY DEF Sound
  <2>4. Indexed(t.blocks, t.index[k], k)
    BY <1>3, <1>6, <2>1, <2>3 DEF Indexed
  <2>5. SealedValue(t, k) = SealedValue(s, k)
    <3>1. CASE s.index[k] = NoPlace
      BY <1>6, <3>1 DEF SealedValue
    <3>2. CASE s.index[k] # NoPlace
      <4>1. At(s.blocks, s.index[k][1], s.index[k][2], k)
        BY <2>3, <3>2 DEF Indexed
      <4>2. t.blocks[s.index[k][1]] = s.blocks[s.index[k][1]]
        BY <1>3, <4>1
      <4> QED  BY <1>6, <3>2, <4>2 DEF SealedValue, RowAt
    <3> QED  BY <3>1, <3>2
  <2> QED  BY <1>6, <2>2, <2>4, <2>5
<1>7. ASSUME NEW c, NEW i, At(chunks, c, i, k), t.index[k] = <<n + c, i>>,
             \A d, j : At(chunks, d, j, k) => d <= c
      PROVE  /\ Indexed(t.blocks, t.index[k], k) /\ ~ Orphan(t, k)
             /\ SealedValue(t, k) = chunks[c][i].value
  <2>1. c \in Nat /\ c > 0
    BY <1>1, <1>7 DEF At
  <2>2. t.index[k] # NoPlace /\ t.index[k][1] = n + c /\ t.index[k][2] = i
    BY <1>1, <1>7, <2>1 DEF NoPlace
  <2>3. At(t.blocks, n + c, i, k) /\ t.blocks[n + c] = chunks[c]
    BY <1>3, <1>7
  <2>4. ASSUME NEW d, NEW j, At(t.blocks, d, j, k) PROVE d <= n + c
    <3>1. CASE At(s.blocks, d, j, k)
      <4>1. d \in 1..n
        BY <3>1 DEF At, n
      <4> QED  BY <1>1, <2>1, <4>1
    <3>2. CASE d > n /\ At(chunks, d - n, j, k)
      <4>1. d - n <= c
        BY <1>7, <3>2
      <4>2. Len(t.blocks) \in Nat
        BY <1>1, <1>2, Joined
      <4>3. d \in Int
        BY <2>4, <4>2 DEF At
      <4> QED  BY <1>1, <2>1, <4>1, <4>3
    <3> QED  BY <1>3, <2>4, <3>1, <3>2
  <2>5. Indexed(t.blocks, t.index[k], k)
    BY <2>2, <2>3, <2>4 DEF Indexed
  <2>6. SealedValue(t, k) = chunks[c][i].value
    BY <2>2, <2>3 DEF SealedValue, RowAt
  <2> QED  BY <2>2, <2>5, <2>6 DEF Orphan
<1> QED  BY <1>2, <1>6, <1>7

LEMMA SealingSound ==
    ASSUME NEW s, Sound(s), NEW chunks, AllSealed(chunks), NEW t, t = SealAll(s, chunks)
    PROVE  /\ Sound(t) /\ t.blocks = s.blocks \o chunks
           /\ t.pending = s.pending /\ t.pending_order = s.pending_order
<1>1. s \in Store /\ AllSealed(s.blocks) /\ chunks \in Seq(Seq(Row))
  BY DEF Sound, AllSealed
<1>2. /\ t \in Store /\ t.blocks = s.blocks \o chunks
      /\ t.pending = s.pending /\ t.pending_order = s.pending_order
  BY <1>1, SealAllEffect
<1>3. AllSealed(t.blocks)
  BY <1>1, <1>2, JoinedSealed
<1>4. \A k \in Key : Indexed(t.blocks, t.index[k], k)
  BY SealingOfKey
<1> QED  BY <1>2, <1>3, <1>4 DEF Sound

-----------------------------------------------------------------------------
(* Dividing the pending rows into chunks. *)

In(chunks, c, i) == c \in 1..Len(chunks) /\ i \in 1..Len(chunks[c])

\* A chunk that overflows its block has a row that no block holds.
Packed(chunk) == Fits(chunk) \/ \E i \in 1..Len(chunk) : chunk[i].value = Huge

\* The chunks hold the first n rows, each in one place.
Divided(chunks, rows, n) ==
    /\ chunks \in Seq(Seq(Row))
    /\ \A c \in 1..Len(chunks) : Packed(chunks[c])
    /\ \A c, i : In(chunks, c, i) => \E j \in 1..n : chunks[c][i] = rows[j]
    /\ \A j \in 1..n : \E c, i : In(chunks, c, i) /\ chunks[c][i] = rows[j]
    /\ \A c, i, d, j : In(chunks, c, i) /\ In(chunks, d, j) /\ chunks[c][i].key = chunks[d][j].key
                          => c = d /\ i = j

Extended(chunks, row, t) ==
    /\ t \in Seq(Seq(Row))
    /\ (\A c \in 1..Len(chunks) : Packed(chunks[c])) => \A c \in 1..Len(t) : Packed(t[c])
    /\ \E c, i : /\ ~ In(chunks, c, i) /\ In(t, c, i) /\ t[c][i] = row
                 /\ \A d, j : In(t, d, j) => In(chunks, d, j) \/ (d = c /\ j = i)
    /\ \A d, j : In(chunks, d, j) => In(t, d, j) /\ t[d][j] = chunks[d][j]

\* A row more is one place more.
LEMMA OneMore ==
    ASSUME NEW chunks \in Seq(Seq(Row)), NEW row \in Row, NEW t, t = AddToChunks(chunks, row)
    PROVE  Extended(chunks, row, t)
<1> DEFINE n == Len(chunks)
<1>1. n \in Nat
  OBVIOUS
<1>2. CASE chunks # << >> /\ Fits(Append(chunks[n], row))
  <2> DEFINE l == chunks[n]
             m == Append(l, row)
  <2>1. n \in 1..n /\ l \in Seq(Row) /\ Len(l) \in Nat
    BY <1>1, <1>2
  <2>2. t = [chunks EXCEPT ![n] = m]
    BY <1>2 DEF AddToChunks
  <2>3. /\ m \in Seq(Row) /\ Len(m) = Len(l) + 1 /\ m[Len(l) + 1] = row
        /\ \A j \in 1..Len(l) : m[j] = l[j]
    <3> HIDE DEF l
    <3> QED  BY <2>1
  <2> HIDE DEF m
  <2>4. /\ t \in Seq(Seq(Row)) /\ Len(t) = n
        /\ t[n] = m /\ \A d \in 1..n : d # n => t[d] = chunks[d]
    BY <1>1, <2>1, <2>2, <2>3
  <2>8. (\A c \in 1..n : Packed(chunks[c])) => \A c \in 1..n : Packed(t[c])
    <3>1. Packed(m)
      BY <1>2 DEF Packed, m
    <3> HIDE DEF l, n
    <3> QED  BY <2>4, <3>1
  <2>9. (\A c \in 1..Len(chunks) : Packed(chunks[c])) => \A c \in 1..Len(t) : Packed(t[c])
    <3>1. Len(t) = n /\ n = Len(chunks)
      BY <2>4
    <3> HIDE DEF n
    <3> QED  BY <2>8, <3>1
  <2> HIDE DEF l, n
  <2>5. ~ In(chunks, n, Len(l) + 1) /\ In(t, n, Len(l) + 1) /\ t[n][Len(l) + 1] = row
    BY <2>1, <2>3, <2>4 DEF In, l, n
  <2>6. \A d, j : In(t, d, j) => In(chunks, d, j) \/ (d = n /\ j = Len(l) + 1)
    <3> SUFFICES ASSUME NEW d, NEW j, In(t, d, j), ~ (d = n /\ j = Len(l) + 1)
                 PROVE  In(chunks, d, j)
      OBVIOUS
    <3>1. CASE d = n
      <4>1. j \in 1..(Len(l) + 1) /\ j # Len(l) + 1
        BY <2>3, <2>4, <3>1 DEF In
      <4> DEFINE x == Len(l)
      <4>2. j \in 1..x
        <5>1. x \in Nat /\ j \in 1..(x + 1) /\ j # x + 1
          BY <2>1, <4>1
        <5> HIDE DEF x
        <5> QED  BY <5>1
      <4> QED  BY <2>1, <3>1, <4>2 DEF In, l, n
    <3>2. CASE d # n
      BY <2>4, <3>2 DEF In, n
    <3> QED  BY <3>1, <3>2
  <2>7. \A d, j : In(chunks, d, j) => In(t, d, j) /\ t[d][j] = chunks[d][j]
    <3> SUFFICES ASSUME NEW d, NEW j, In(chunks, d, j) PROVE In(t, d, j) /\ t[d][j] = chunks[d][j]
      OBVIOUS
    <3>1. CASE d = n
      <4>1. j \in 1..Len(l)
        BY <3>1 DEF In, l
      <4>2. j \in 1..(Len(l) + 1)
        BY <2>1, <4>1
      <4> QED  BY <2>1, <2>3, <2>4, <3>1, <4>1, <4>2 DEF In, l
    <3>2. CASE d # n
      BY <2>4, <3>2 DEF In, n
    <3> QED  BY <3>1, <3>2
  <2> QED  BY <2>4, <2>5, <2>6, <2>7, <2>9 DEF Extended
<1>3. CASE ~ (chunks # << >> /\ Fits(Append(chunks[n], row)))
  <2>1. t = Append(chunks, <<row>>)
    BY <1>3 DEF AddToChunks
  <2> DEFINE o == <<row>>
  <2>2. o \in Seq(Row) /\ Len(o) = 1 /\ o[1] = row
    OBVIOUS
  <2>7. Packed(o)
    <3>1. Fits(o) \/ o[1].value = Huge
      BY <2>2, KvStoreAssumption DEF Fits
    <3> QED  BY <2>2, <3>1 DEF Packed
  <2> HIDE DEF o
  <2>3. /\ t \in Seq(Seq(Row)) /\ Len(t) = n + 1 /\ t[n + 1] = o
        /\ \A d \in 1..n : t[d] = chunks[d]
    BY <1>1, <2>1, <2>2 DEF o
  <2>8. (\A c \in 1..Len(chunks) : Packed(chunks[c])) => \A c \in 1..Len(t) : Packed(t[c])
    <3>1. \A c \in 1..(n + 1) : c \in 1..n \/ c = n + 1
      BY <1>1
    <3>2. Len(t) = n + 1 /\ n = Len(chunks)
      BY <2>3
    <3> HIDE DEF n
    <3> QED  BY <2>3, <2>7, <3>1, <3>2
  <2> HIDE DEF n
  <2>4. ~ In(chunks, n + 1, 1) /\ In(t, n + 1, 1) /\ t[n + 1][1] = row
    <3>1. ~ (n + 1 \in 1..n) /\ n + 1 \in 1..(n + 1) /\ 1 \in 1..1
      BY <1>1
    <3>2. ~ In(chunks, n + 1, 1)
      BY <3>1 DEF In, n
    <3> QED  BY <2>2, <2>3, <3>1, <3>2 DEF In
  <2>5. \A d, j : In(t, d, j) => In(chunks, d, j) \/ (d = n + 1 /\ j = 1)
    <3> SUFFICES ASSUME NEW d, NEW j, In(t, d, j), ~ (d = n + 1 /\ j = 1)
                 PROVE  In(chunks, d, j)
      OBVIOUS
    <3>1. d # n + 1
      <4> SUFFICES ASSUME d = n + 1 PROVE j = 1
        OBVIOUS
      <4>1. j \in 1..1
        BY <2>2, <2>3 DEF In
      <4> QED  BY <4>1
    <3>2. d \in 1..n
      BY <1>1, <2>3, <3>1 DEF In
    <3> QED  BY <2>3, <3>2 DEF In, n
  <2>6. \A d, j : In(chunks, d, j) => In(t, d, j) /\ t[d][j] = chunks[d][j]
    <3> SUFFICES ASSUME NEW d, NEW j, In(chunks, d, j) PROVE In(t, d, j) /\ t[d][j] = chunks[d][j]
      OBVIOUS
    <3>1. d \in 1..n /\ d \in 1..(n + 1)
      BY <1>1 DEF In, n
    <3> QED  BY <2>3, <3>1 DEF In
  <2> QED  BY <2>3, <2>4, <2>5, <2>6, <2>8 DEF Extended
<1> QED  BY <1>2, <1>3

LEMMA OneMoreDivided ==
    ASSUME NEW rows, NEW n \in Nat, NEW chunks, Divided(chunks, rows, n),
           rows[n + 1] \in Row, \A j \in 1..n : rows[j].key # rows[n + 1].key
    PROVE  Divided(AddToChunks(chunks, rows[n + 1]), rows, n + 1)
<1> DEFINE row == rows[n + 1]
           t == AddToChunks(chunks, row)
<1>1. chunks \in Seq(Seq(Row))
  BY DEF Divided
<1>2. /\ t \in Seq(Seq(Row))
      /\ (\A c \in 1..Len(chunks) : Packed(chunks[c])) => \A c \in 1..Len(t) : Packed(t[c])
      /\ \E c, i : /\ ~ In(chunks, c, i) /\ In(t, c, i) /\ t[c][i] = row
                   /\ \A d, j : In(t, d, j) => In(chunks, d, j) \/ (d = c /\ j = i)
      /\ \A d, j : In(chunks, d, j) => In(t, d, j) /\ t[d][j] = chunks[d][j]
  <2>1. Extended(chunks, row, t)
    BY <1>1, OneMore, Zenon
  <2> HIDE DEF row, t
  <2> QED  BY <2>1, Zenon DEF Extended
<1>3. PICK c, i : /\ ~ In(chunks, c, i) /\ In(t, c, i) /\ t[c][i] = row
                  /\ \A d, j : In(t, d, j) => In(chunks, d, j) \/ (d = c /\ j = i)
  BY <1>2, Zenon
<1> HIDE DEF t
<1>4. \A d, j : In(chunks, d, j) => \E m \in 1..n : chunks[d][j] = rows[m]
  BY DEF Divided
<1>5. \A d, j : In(chunks, d, j) => chunks[d][j].key # row.key
  BY <1>4
<1>6. \A m \in 1..(n + 1) : m \in 1..n \/ m = n + 1
  OBVIOUS
<1>7. n + 1 \in 1..(n + 1) /\ 1..n \subseteq 1..(n + 1)
  OBVIOUS
<1>8. \A d, j : In(t, d, j) => \E m \in 1..(n + 1) : t[d][j] = rows[m]
  BY <1>2, <1>3, <1>4, <1>7
<1>9. \A m \in 1..(n + 1) : \E d, j : In(t, d, j) /\ t[d][j] = rows[m]
  <2> SUFFICES ASSUME NEW m \in 1..(n + 1) PROVE \E d, j : In(t, d, j) /\ t[d][j] = rows[m]
    OBVIOUS
  <2>1. CASE m = n + 1
    BY <1>3, <2>1
  <2>2. CASE m \in 1..n
    <3>1. PICK d, j : In(chunks, d, j) /\ chunks[d][j] = rows[m]
      BY <2>2 DEF Divided
    <3> QED  BY <1>2, <3>1
  <2> QED  BY <1>6, <2>1, <2>2
<1>10. \A d, j, e, m : In(t, d, j) /\ In(t, e, m) /\ t[d][j].key = t[e][m].key => d = e /\ j = m
  <2> SUFFICES ASSUME NEW d, NEW j, NEW e, NEW m, In(t, d, j), In(t, e, m),
                      t[d][j].key = t[e][m].key
               PROVE  d = e /\ j = m
    OBVIOUS
  <2>1. CASE In(chunks, d, j) /\ In(chunks, e, m)
    <3>1. chunks[d][j].key = chunks[e][m].key
      BY <1>2, <2>1
    <3> QED  BY <2>1, <3>1 DEF Divided
  <2>2. CASE ~ In(chunks, d, j) /\ ~ In(chunks, e, m)
    BY <1>3, <2>2
  <2>3. CASE In(chunks, d, j) /\ ~ In(chunks, e, m)
    <3>1. t[d][j] = chunks[d][j] /\ t[e][m] = row
      BY <1>2, <1>3, <2>3
    <3> HIDE DEF row
    <3> QED  BY <1>5, <2>3, <3>1
  <2>4. CASE ~ In(chunks, d, j) /\ In(chunks, e, m)
    <3>1. t[e][m] = chunks[e][m] /\ t[d][j] = row
      BY <1>2, <1>3, <2>4
    <3> HIDE DEF row
    <3> QED  BY <1>5, <2>4, <3>1
  <2> QED  BY <2>1, <2>2, <2>3, <2>4
<1>11. t \in Seq(Seq(Row))
  BY <1>2
<1>12. \A d \in 1..Len(t) : Packed(t[d])
  BY <1>2 DEF Divided
<1>13. Divided(t, rows, n + 1)
  BY <1>8, <1>9, <1>10, <1>11, <1>12 DEF Divided
<1> QED  BY <1>13 DEF t

IsChunking(f, rows) ==
    f = [i \in 0..Len(rows) |-> IF i = 0 THEN << >> ELSE AddToChunks(f[i - 1], rows[i])]

LEMMA ChunksForm ==
    ASSUME NEW rows
    PROVE  Chunks(rows) = (CHOOSE f : IsChunking(f, rows))[Len(rows)]
BY DEF Chunks, IsChunking

\* Every row is in one place of one chunk.
LEMMA ChunksDivided ==
    ASSUME NEW rows \in Seq(Row),
           \A i, j \in 1..Len(rows) : rows[i].key = rows[j].key => i = j
    PROVE  Divided(Chunks(rows), rows, Len(rows))
<1> DEFINE n == Len(rows)
           A == Seq(Seq(Row))
           F == [i \in 1..n |-> [c \in A |-> AddToChunks(c, rows[i])]]
<1>1. n \in Nat /\ \A i \in 1..n : rows[i] \in Row
  OBVIOUS
<1>2. \A i \in 1..n : \A c \in A : AddToChunks(c, rows[i]) \in A
  BY <1>1, OneMore, Zenon DEF Extended
<1>3. F \in [1..n -> [A -> A]]
  <2>1. \A i \in 1..n : [c \in A |-> AddToChunks(c, rows[i])] \in [A -> A]
    <3> HIDE DEF A, n
    <3> QED  BY <1>2
  <2> HIDE DEF A, n
  <2> QED  BY <2>1
<1>4. << >> \in A
  OBVIOUS
<1>5. \E f \in [0..n -> A] : f[0] = << >> /\ \A i \in 1..n : f[i] = F[i][f[i - 1]]
  <2> DEFINE e == << >>
  <2>1. e \in A /\ n \in Nat
    BY <1>1, <1>4
  <2> HIDE DEF A, n, F, e
  <2>2. Recursion(A, e, n, F)
    BY <1>3, <2>1, StepByStep, Zenon
  <2> QED  BY <2>2, Zenon DEF e, Recursion
<1>6. PICK f \in [0..n -> A] : f[0] = << >> /\ \A i \in 1..n : f[i] = F[i][f[i - 1]]
  BY <1>5
<1>7. \A i \in 1..n : f[i] = AddToChunks(f[i - 1], rows[i])
  <2> SUFFICES ASSUME NEW i \in 1..n PROVE f[i] = AddToChunks(f[i - 1], rows[i])
    OBVIOUS
  <2>1. i - 1 \in 0..n
    BY <1>1
  <2>2. f[i - 1] \in A
    BY <1>6, <2>1
  <2>3. F[i][f[i - 1]] = AddToChunks(f[i - 1], rows[i])
    <3> HIDE DEF A, n
    <3> QED  BY <2>2
  <2> HIDE DEF F
  <2> QED  BY <1>6, <2>3
<1> HIDE DEF F, A
<1>8. IsChunking(f, rows)
  <2> DEFINE g(i) == IF i = 0 THEN << >> ELSE AddToChunks(f[i - 1], rows[i])
  <2>1. \A i \in 0..n : f[i] = g(i)
    <3> SUFFICES ASSUME NEW i \in 0..n PROVE f[i] = g(i)
      OBVIOUS
    <3>1. i = 0 \/ i \in 1..n
      BY <1>1
    <3> QED  BY <1>6, <1>7, <3>1
  <2>2. f = [i \in 0..n |-> f[i]]
    BY <1>6
  <2>3. f = [i \in 0..n |-> g(i)]
    <3> HIDE DEF g
    <3> QED  BY <2>1, <2>2
  <2> QED  BY <2>3 DEF IsChunking
<1> DEFINE h == CHOOSE x : IsChunking(x, rows)
<1>9. IsChunking(h, rows)
  BY <1>8
<1>10. \A i \in 0..n : h[i] = IF i = 0 THEN << >> ELSE AddToChunks(h[i - 1], rows[i])
  <2> HIDE DEF h
  <2> QED  BY <1>9 DEF IsChunking
<1> HIDE DEF h
<1> DEFINE T == {i \in 0..n : Divided(h[i], rows, i)}
<1>11. 0 \in T
  <2>1. h[0] = << >> /\ 0 \in 0..n
    BY <1>1, <1>10
  <2>2. Divided(<< >>, rows, 0)
    <3>1. << >> \in Seq(Seq(Row)) /\ \A c, i : ~ In(<< >>, c, i)
      BY DEF In
    <3>2. 1..0 = {}
      OBVIOUS
    <3> QED  BY <3>1, <3>2 DEF Divided
  <2> QED  BY <2>1, <2>2
<1>12. \A i \in 1..n : i - 1 \in T => i \in T
  <2> SUFFICES ASSUME NEW i \in 1..n, i - 1 \in T PROVE i \in T
    OBVIOUS
  <2>1. i \in 0..n /\ i # 0 /\ i - 1 \in Nat /\ (i - 1) + 1 = i
    BY <1>1
  <2>2. h[i] = AddToChunks(h[i - 1], rows[i])
    BY <1>10, <2>1
  <2>3. Divided(h[i - 1], rows, i - 1) /\ rows[i] \in Row
    BY <1>1
  <2>4. \A j \in 1..(i - 1) : rows[j].key # rows[i].key
    BY <1>1
  <2>5. Divided(AddToChunks(h[i - 1], rows[i]), rows, i)
    BY <2>1, <2>3, <2>4, OneMoreDivided
  <2> QED  BY <2>1, <2>2, <2>5
<1>13. n \in T
  <2>1. \A i \in 0..n : i \in T
    <3> HIDE DEF T
    <3> QED  BY <1>1, <1>11, <1>12, UpTo
  <2> HIDE DEF T
  <2> QED  BY <1>1, <2>1
<1>14. Chunks(rows) = h[n]
  BY ChunksForm DEF h
<1> QED  BY <1>13, <1>14

-----------------------------------------------------------------------------
(* Flushing. *)

\* What get makes of the value it finds.
Clean(v) == IF v = Empty THEN Absent ELSE v

LEMMA GetForm ==
    ASSUME NEW s, NEW k
    PROVE  Get(s, k) = Clean(IF s.pending[k] # Absent THEN s.pending[k] ELSE SealedValue(s, k))
BY DEF Get, Clean, SealedValue

\* The pending writes are rows of different keys, one for each pending key.
LEMMA PendingRowsOf ==
    ASSUME NEW s \in Store, Ordered(s), NEW rows, rows = PendingRows(s)
    PROVE  /\ rows \in Seq(Row)
           /\ \A i, j \in 1..Len(rows) : rows[i].key = rows[j].key => i = j
           /\ \A i \in 1..Len(rows) : rows[i].key \in Pending(s)
                                      /\ rows[i].value = s.pending[rows[i].key]
           /\ \A k \in Pending(s) : \E i \in 1..Len(rows) : rows[i].key = k
<1> DEFINE o == s.pending_order
           row(i) == [key |-> o[i], value |-> s.pending[o[i]]]
<1>1. o \in Seq(Key) /\ Len(o) \in Nat /\ \A i \in 1..Len(o) : o[i] \in Key
  BY DEF Store
<1>2. \A i \in 1..Len(o) : o[i] \in Pending(s)
  BY <1>1 DEF Ordered
<1>3. \A i \in 1..Len(o) : row(i) \in Row
  <2> SUFFICES ASSUME NEW i \in 1..Len(o) PROVE row(i) \in Row
    OBVIOUS
  <2>1. o[i] \in Key /\ s.pending[o[i]] # Absent
    BY <1>1, <1>2 DEF Pending
  <2>2. s.pending[o[i]] \in Value \cup {Empty}
    BY <2>1 DEF Store
  <2> QED  BY <2>1, <2>2 DEF Row
<1>4. rows = [i \in 1..Len(o) |-> row(i)]
  BY Zenon DEF PendingRows
<1>5. \A i \in 1..Len(o) : row(i).key = o[i] /\ row(i).value = s.pending[o[i]]
  OBVIOUS
<1>6. \A i, j \in 1..Len(o) : o[i] = o[j] => i = j
  BY DEF Ordered
<1>7. \A k \in Pending(s) : \E i \in 1..Len(o) : o[i] = k
  BY DEF Ordered, Pending
<1> HIDE DEF o, row
<1>8. rows \in Seq(Row) /\ Len(rows) = Len(o) /\ \A i \in 1..Len(o) : rows[i] = row(i)
  BY <1>1, <1>3, <1>4
<1> QED  BY <1>2, <1>5, <1>6, <1>7, <1>8

\* The chunks of the pending writes hold the pending value of every pending key.
LEMMA PendingChunks ==
    ASSUME NEW s \in Store, Ordered(s), NEW chunks, chunks = Chunks(PendingRows(s))
    PROVE  /\ chunks \in Seq(Seq(Row)) /\ Len(chunks) \in Nat
           /\ \A c \in 1..Len(chunks) : Distinct(chunks[c])
           /\ \A c, i, k : At(chunks, c, i, k) =>
                 k \in Pending(s) /\ chunks[c][i].value = s.pending[k]
           /\ \A k \in Pending(s) : \E c, i : At(chunks, c, i, k)
           /\ \A c, i, d, j, k : At(chunks, c, i, k) /\ At(chunks, d, j, k) => c = d /\ i = j
           /\ \A c \in 1..Len(chunks) : Packed(chunks[c])
<1> DEFINE rows == PendingRows(s)
<1>1. /\ rows \in Seq(Row)
      /\ \A i, j \in 1..Len(rows) : rows[i].key = rows[j].key => i = j
      /\ \A i \in 1..Len(rows) : rows[i].key \in Pending(s)
                                 /\ rows[i].value = s.pending[rows[i].key]
      /\ \A k \in Pending(s) : \E i \in 1..Len(rows) : rows[i].key = k
  BY PendingRowsOf
<1> HIDE DEF rows
<1>2. Divided(chunks, rows, Len(rows))
  BY <1>1, ChunksDivided, Zenon DEF rows
<1>3. chunks \in Seq(Seq(Row)) /\ Len(chunks) \in Nat
  BY <1>2 DEF Divided
<1>4. ASSUME NEW c \in 1..Len(chunks) PROVE Distinct(chunks[c])
  <2> SUFFICES ASSUME NEW i \in 1..Len(chunks[c]), NEW j \in 1..Len(chunks[c]),
                      chunks[c][i].key = chunks[c][j].key
               PROVE  i = j
    BY DEF Distinct
  <2>1. In(chunks, c, i) /\ In(chunks, c, j)
    BY DEF In
  <2> QED  BY <1>2, <2>1 DEF Divided
<1>5. ASSUME NEW c, NEW i, NEW k, At(chunks, c, i, k)
      PROVE  k \in Pending(s) /\ chunks[c][i].value = s.pending[k]
  <2>1. In(chunks, c, i) /\ chunks[c][i].key = k
    BY <1>5 DEF At, In
  <2>2. PICK j \in 1..Len(rows) : chunks[c][i] = rows[j]
    BY <1>2, <2>1 DEF Divided
  <2> QED  BY <1>1, <2>1, <2>2
<1>6. ASSUME NEW k \in Pending(s) PROVE \E c, i : At(chunks, c, i, k)
  <2>1. PICK j \in 1..Len(rows) : rows[j].key = k
    BY <1>1
  <2>2. PICK c, i : In(chunks, c, i) /\ chunks[c][i] = rows[j]
    BY <1>2 DEF Divided
  <2> QED  BY <2>1, <2>2 DEF At, In
<1>7. ASSUME NEW c, NEW i, NEW d, NEW j, NEW k, At(chunks, c, i, k), At(chunks, d, j, k)
      PROVE  c = d /\ i = j
  <2>1. In(chunks, c, i) /\ In(chunks, d, j) /\ chunks[c][i].key = chunks[d][j].key
    BY <1>7 DEF At, In
  <2> QED  BY <1>2, <2>1 DEF Divided
<1>8. \A c \in 1..Len(chunks) : Packed(chunks[c])
  BY <1>2 DEF Divided
<1> QED  BY <1>3, <1>4, <1>5, <1>6, <1>7, <1>8

NothingPending == [k \in Key |-> Absent]

LEMMA EmptyStore ==
    /\ New = [blocks |-> << >>, index |-> [k \in Key |-> NoPlace],
              pending |-> NothingPending, pending_order |-> << >>]
    /\ New.blocks = << >> /\ New.pending = NothingPending /\ New.pending_order = << >>
    /\ \A k \in Key : New.index[k] = NoPlace
    /\ NothingPending \in [Key -> Value \cup {Empty, Absent}]
    /\ New \in Store
<1>1. New = [blocks |-> << >>, index |-> [k \in Key |-> NoPlace],
              pending |-> NothingPending, pending_order |-> << >>]
  BY Zenon DEF New, NothingPending
<1>2. NothingPending \in [Key -> Value \cup {Empty, Absent}]
  BY DEF NothingPending
<1> DEFINE x == [k \in Key |-> NoPlace]
<1>3. x \in [Key -> Place] /\ \A k \in Key : x[k] = NoPlace
  BY DEF Place, NoPlace
<1>4. << >> \in Seq(Seq(Row)) /\ << >> \in Seq(Key)
  OBVIOUS
<1> HIDE DEF x
<1>5. New = [blocks |-> << >>, index |-> x, pending |-> NothingPending, pending_order |-> << >>]
  BY <1>1 DEF x
<1>6. New \in Store
  BY <1>2, <1>3, <1>4, <1>5 DEF Store
<1> QED  BY <1>1, <1>2, <1>3, <1>5, <1>6

\* Nothing is pending any more.
Cleared(s) == [s EXCEPT !.pending = NothingPending, !.pending_order = << >>]

LEMMA ClearedFields ==
    ASSUME NEW s \in Store
    PROVE  /\ Cleared(s) \in Store
           /\ Cleared(s).blocks = s.blocks /\ Cleared(s).index = s.index
           /\ Cleared(s).pending = NothingPending /\ Cleared(s).pending_order = << >>
           /\ Pending(Cleared(s)) = {} /\ Ordered(Cleared(s))
<1>1. << >> \in Seq(Key) /\ NothingPending \in [Key -> Value \cup {Empty, Absent}]
  BY EmptyStore
<1>2. /\ Cleared(s) \in Store
      /\ Cleared(s).blocks = s.blocks /\ Cleared(s).index = s.index
      /\ Cleared(s).pending = NothingPending /\ Cleared(s).pending_order = << >>
  BY <1>1 DEF Cleared, Store
<1>3. \A k \in Key : NothingPending[k] = Absent
  BY DEF NothingPending
<1>4. Pending(Cleared(s)) = {}
  BY <1>2, <1>3 DEF Pending
<1>5. 1..Len(<< >>) = {}
  OBVIOUS
<1>6. Ordered(Cleared(s))
  BY <1>2, <1>4, <1>5 DEF Ordered
<1> QED  BY <1>2, <1>4, <1>6

Bad(chunks) == {c \in 1..Len(chunks) : ~ Fits(chunks[c])}

LEMMA FlushForm ==
    ASSUME NEW s, NEW chunks, chunks = Chunks(PendingRows(s))
    PROVE  FlushPending(s) =
             IF Bad(chunks) = {}
             THEN [ok |-> TRUE, store |-> Cleared(SealAll(s, chunks))]
             ELSE [ok |-> FALSE,
                   store |-> SealAll(s, SubSeq(chunks, 1, Min(Bad(chunks)) - 1))]
BY EmptyStore, Zenon DEF FlushPending, Bad, Cleared

LEMMA Prefix ==
    ASSUME NEW S, NEW q \in Seq(S), NEW n \in 0..Len(q)
    PROVE  /\ SubSeq(q, 1, n) \in Seq(S) /\ Len(SubSeq(q, 1, n)) = n
           /\ \A i \in 1..n : SubSeq(q, 1, n)[i] = q[i]
<1>1. Len(q) \in Nat /\ n \in Nat /\ n <= Len(q)
  BY LenProperties
<1> QED  BY <1>1

\* The chunks before the first that does not fit.
LEMMA GoodChunks ==
    ASSUME NEW chunks \in Seq(Seq(Row)), \A c \in 1..Len(chunks) : Distinct(chunks[c]),
           Bad(chunks) # {}, NEW good, good = SubSeq(chunks, 1, Min(Bad(chunks)) - 1)
    PROVE  AllSealed(good) /\ \A c, i, k : At(good, c, i, k) => At(chunks, c, i, k)
<1> DEFINE B == Bad(chunks)
           m == Min(B)
<1>1. B \in SUBSET Nat /\ B \in SUBSET (1..Len(chunks)) /\ B # {} /\ Len(chunks) \in Nat
  BY DEF Bad
<1>2. m \in B /\ \A y \in B : m <= y
  <2> HIDE DEF B
  <2> QED  BY <1>1, MinIsLeast
<1>3. m \in 1..Len(chunks)
  <2> HIDE DEF m
  <2> QED  BY <1>1, <1>2
<1>4. good = SubSeq(chunks, 1, m - 1)
  OBVIOUS
<1> HIDE DEF m
<1>5. /\ good \in Seq(Seq(Row)) /\ Len(good) = m - 1
      /\ \A c \in 1..(m - 1) : good[c] = chunks[c]
  <2>1. m - 1 \in Nat /\ m - 1 <= Len(chunks)
    BY <1>1, <1>3
  <2> DEFINE n == m - 1
  <2>2. good = SubSeq(chunks, 1, n)
    BY <1>4
  <2>3. n \in 0..Len(chunks)
    BY <1>1, <2>1
  <2> HIDE DEF n
  <2>4. good \in Seq(Seq(Row)) /\ Len(good) = n /\ \A c \in 1..n : good[c] = chunks[c]
    BY <2>2, <2>3, Prefix, Zenon
  <2> QED  BY <2>4 DEF n
<1>6. \A c \in 1..(m - 1) : c \in 1..Len(chunks) /\ c \notin B
  BY <1>1, <1>2, <1>3
<1>7. \A c \in 1..(m - 1) : Fits(chunks[c])
  BY <1>6 DEF Bad
<1>8. AllSealed(good)
  BY <1>5, <1>6, <1>7 DEF AllSealed
<1> QED  BY <1>5, <1>6, <1>8 DEF At

\* flush_pending changes what is read of no key, whether it succeeds or not.
LEMMA FlushEffect ==
    ASSUME NEW s, StoreOK(s, {}), NEW f, f = FlushPending(s)
    PROVE  /\ StoreOK(f.store, {})
           /\ \A k \in Key : Get(f.store, k) = Get(s, k)
           /\ f.ok \in BOOLEAN
           /\ f.ok => Pending(f.store) = {}
<1> DEFINE chunks == Chunks(PendingRows(s))
<1>1. s \in Store /\ Sound(s) /\ Ordered(s)
  BY DEF StoreOK, Sound
<1>2. /\ chunks \in Seq(Seq(Row)) /\ Len(chunks) \in Nat
      /\ \A c \in 1..Len(chunks) : Distinct(chunks[c])
      /\ \A c, i, k : At(chunks, c, i, k) => k \in Pending(s) /\ chunks[c][i].value = s.pending[k]
      /\ \A k \in Pending(s) : \E c, i : At(chunks, c, i, k)
  BY <1>1, PendingChunks
<1>3. f = IF Bad(chunks) = {}
          THEN [ok |-> TRUE, store |-> Cleared(SealAll(s, chunks))]
          ELSE [ok |-> FALSE, store |-> SealAll(s, SubSeq(chunks, 1, Min(Bad(chunks)) - 1))]
  BY FlushForm, Zenon
<1> HIDE DEF chunks
<1>4. CASE Bad(chunks) = {}
  <2> DEFINE t == SealAll(s, chunks)
             u == Cleared(t)
  <2>1. f = [ok |-> TRUE, store |-> u]
    BY <1>3, <1>4
  <2>2. f.ok = TRUE /\ f.store = u
    <3> HIDE DEF u
    <3> QED  BY <2>1
  <2>3. AllSealed(chunks)
    BY <1>2, <1>4 DEF AllSealed, Bad
  <2>4. Sound(t) /\ t \in Store /\ t.pending = s.pending
    BY <1>1, <2>3, SealingSound DEF Sound
  <2>5. \A k \in Key :
           /\ Indexed(t.blocks, t.index[k], k)
           /\ Orphan(t, k) => Orphan(s, k) /\ \A c, i : ~ At(chunks, c, i, k)
           /\ \/ SealedValue(t, k) = SealedValue(s, k) /\ \A c, i : ~ At(chunks, c, i, k)
              \/ \E c, i : At(chunks, c, i, k) /\ SealedValue(t, k) = chunks[c][i].value
    BY <1>1, <2>3, SealingOfKey
  <2> HIDE DEF t
  <2>6. /\ u \in Store /\ u.blocks = t.blocks /\ u.index = t.index
        /\ u.pending = NothingPending /\ Pending(u) = {} /\ Ordered(u)
    BY <2>4, ClearedFields
  <2> HIDE DEF u
  <2>7. Sound(u)
    BY <2>4, <2>6 DEF Sound
  <2>8. \A k \in Key : ~ Orphan(u, k)
    <3> SUFFICES ASSUME NEW k \in Key, Orphan(u, k) PROVE FALSE
      OBVIOUS
    <3>1. Orphan(t, k)
      BY <2>6 DEF Orphan
    <3>2. k \in Pending(s) /\ \A c, i : ~ At(chunks, c, i, k)
      BY <2>5, <3>1 DEF StoreOK
    <3> QED  BY <1>2, <3>2
  <2>9. \A k \in Key : Get(u, k) = Get(s, k)
    <3> SUFFICES ASSUME NEW k \in Key PROVE Get(u, k) = Get(s, k)
      OBVIOUS
    <3>1. Get(u, k) = Clean(SealedValue(t, k))
      <4>1. u.pending[k] = Absent
        BY <2>6 DEF NothingPending
      <4>2. SealedValue(u, k) = SealedValue(t, k)
        BY <2>6 DEF SealedValue, RowAt
      <4> QED  BY <4>1, <4>2, GetForm
    <3>2. Get(s, k) = Clean(IF s.pending[k] # Absent THEN s.pending[k] ELSE SealedValue(s, k))
      BY GetForm
    <3>3. CASE k \in Pending(s)
      <4>1. PICK c, i : At(chunks, c, i, k) /\ SealedValue(t, k) = chunks[c][i].value
        BY <1>2, <2>5, <3>3
      <4>2. SealedValue(t, k) = s.pending[k]
        BY <1>2, <4>1
      <4> QED  BY <3>1, <3>2, <3>3, <4>2 DEF Pending
    <3>4. CASE k \notin Pending(s)
      <4>1. SealedValue(t, k) = SealedValue(s, k)
        BY <1>2, <2>5, <3>4
      <4> QED  BY <3>1, <3>2, <3>4, <4>1 DEF Pending
    <3> QED  BY <3>3, <3>4
  <2>10. StoreOK(u, {})
    BY <2>6, <2>7, <2>8 DEF StoreOK
  <2> QED  BY <2>2, <2>6, <2>9, <2>10
<1>5. CASE Bad(chunks) # {}
  <2> DEFINE good == SubSeq(chunks, 1, Min(Bad(chunks)) - 1)
             t == SealAll(s, good)
  <2>1. f = [ok |-> FALSE, store |-> t]
    BY <1>3, <1>5
  <2>2. f.ok = FALSE /\ f.store = t
    <3> HIDE DEF t
    <3> QED  BY <2>1
  <2>3. AllSealed(good) /\ \A c, i, k : At(good, c, i, k) => At(chunks, c, i, k)
    BY <1>2, <1>5, GoodChunks
  <2> HIDE DEF good
  <2>4. Sound(t) /\ t.pending = s.pending /\ t.pending_order = s.pending_order
    BY <1>1, <2>3, SealingSound
  <2>5. \A k \in Key :
           /\ Orphan(t, k) => Orphan(s, k)
           /\ \/ SealedValue(t, k) = SealedValue(s, k)
              \/ \E c, i : At(good, c, i, k)
    BY <1>1, <2>3, SealingOfKey
  <2> HIDE DEF t
  <2>6. Pending(t) = Pending(s) /\ Ordered(t)
    BY <1>1, <2>4 DEF Ordered, Pending
  <2>7. StoreOK(t, {})
    BY <2>4, <2>5, <2>6 DEF StoreOK
  <2>8. \A k \in Key : Get(t, k) = Get(s, k)
    <3> SUFFICES ASSUME NEW k \in Key PROVE Get(t, k) = Get(s, k)
      OBVIOUS
    <3>1. Get(t, k) = Clean(IF s.pending[k] # Absent THEN s.pending[k] ELSE SealedValue(t, k))
      BY <2>4, GetForm
    <3>2. Get(s, k) = Clean(IF s.pending[k] # Absent THEN s.pending[k] ELSE SealedValue(s, k))
      BY GetForm
    <3>3. CASE k \in Pending(s)
      BY <3>1, <3>2, <3>3 DEF Pending
    <3>4. CASE k \notin Pending(s)
      <4>1. SealedValue(t, k) = SealedValue(s, k)
        BY <1>2, <2>3, <2>5, <3>4
      <4> QED  BY <3>1, <3>2, <4>1
    <3> QED  BY <3>3, <3>4
  <2> QED  BY <2>2, <2>7, <2>8
<1> QED  BY <1>4, <1>5

-----------------------------------------------------------------------------
(* put and delete. *)

Written(s, k, v) ==
    [s EXCEPT !.pending[k] = v,
              !.pending_order = IF k \in Pending(s) THEN @ ELSE Append(@, k)]

LEMMA PutForm ==
    ASSUME NEW s, NEW k, NEW v
    PROVE  Put(s, k, v) = IF Cardinality(Pending(Written(s, k, v))) >= PendingCapacity
                          THEN FlushPending(Written(s, k, v)).store ELSE Written(s, k, v)
BY Zenon DEF Put, Written

LEMMA WrittenFields ==
    ASSUME NEW s \in Store, NEW k \in Key, NEW v \in Value \cup {Empty}, NEW w, w = Written(s, k, v)
    PROVE  /\ w \in Store /\ w.blocks = s.blocks /\ w.index = s.index
           /\ w.pending[k] = v /\ \A j \in Key : j # k => w.pending[j] = s.pending[j]
           /\ w.pending_order = IF k \in Pending(s) THEN s.pending_order
                                ELSE Append(s.pending_order, k)
<1> DEFINE o == IF k \in Pending(s) THEN s.pending_order ELSE Append(s.pending_order, k)
           p == [s.pending EXCEPT ![k] = v]
<1>1. w = [s EXCEPT !.pending = p, !.pending_order = o]
  BY Zenon DEF Written
<1>2. s.pending_order \in Seq(Key) /\ s.pending \in [Key -> Value \cup {Empty, Absent}]
  BY DEF Store
<1>3. o \in Seq(Key)
  BY <1>2
<1>4. /\ p \in [Key -> Value \cup {Empty, Absent}]
      /\ p[k] = v /\ \A j \in Key : j # k => p[j] = s.pending[j]
  BY <1>2
<1> HIDE DEF o, p
<1>5. /\ w \in Store /\ w.blocks = s.blocks /\ w.index = s.index
      /\ w.pending = p /\ w.pending_order = o
  BY <1>1, <1>3, <1>4 DEF Store
<1> QED  BY <1>4, <1>5 DEF o

\* A write to pending is read at once, and hides what is sealed of its key.
LEMMA WrittenEffect ==
    ASSUME NEW k \in Key, NEW s, StoreOK(s, {k}), NEW v \in Value \cup {Empty},
           NEW w, w = Written(s, k, v)
    PROVE  /\ StoreOK(w, {})
           /\ Get(w, k) = Clean(v)
           /\ \A j \in Key : j # k => Get(w, j) = Get(s, j)
<1> DEFINE o == s.pending_order
           q == w.pending_order
<1>1. s \in Store /\ Sound(s) /\ Ordered(s) /\ o \in Seq(Key) /\ Len(o) \in Nat
  <2>1. s \in Store /\ Sound(s) /\ Ordered(s)
    BY DEF StoreOK, Sound
  <2>2. o \in Seq(Key)
    BY <2>1 DEF Store
  <2> QED  BY <2>1, <2>2
<1>2. /\ w \in Store /\ w.blocks = s.blocks /\ w.index = s.index
      /\ w.pending[k] = v /\ \A j \in Key : j # k => w.pending[j] = s.pending[j]
      /\ q = IF k \in Pending(s) THEN o ELSE Append(o, k)
  BY <1>1, WrittenFields
<1>3. v # Absent
  BY KvStoreAssumption
<1>4. Pending(w) = Pending(s) \cup {k}
  BY <1>2, <1>3 DEF Pending
<1>5. Ordered(w)
  <2>1. CASE k \in Pending(s)
    BY <1>1, <1>2, <1>4, <2>1 DEF Ordered
  <2>2. CASE k \notin Pending(s)
    <3>1. \A i \in 1..Len(o) : o[i] # k
      BY <1>1, <2>2 DEF Ordered
    <3>2. /\ Len(q) = Len(o) + 1 /\ q[Len(o) + 1] = k
          /\ \A i \in 1..Len(o) : q[i] = o[i]
      <4> HIDE DEF o, q
      <4> QED  BY <1>1, <1>2, <2>2
    <3>3. /\ \A i, j \in 1..Len(o) : o[i] = o[j] => i = j
          /\ \A j \in Key : j \in Pending(s) <=> \E i \in 1..Len(o) : o[i] = j
      BY <1>1 DEF Ordered
    <3> HIDE DEF o, q
    <3>4. \A i \in 1..Len(q) : i \in 1..Len(o) \/ i = Len(o) + 1
      BY <1>1, <3>2
    <3>5. 1..Len(o) \subseteq 1..Len(q) /\ Len(o) + 1 \in 1..Len(q)
      BY <1>1, <3>2
    <3>6. \A i, j \in 1..Len(q) : q[i] = q[j] => i = j
      BY <3>1, <3>2, <3>3, <3>4
    <3>7. \A j \in Key : j \in Pending(w) <=> \E i \in 1..Len(q) : q[i] = j
      <4> SUFFICES ASSUME NEW j \in Key
                   PROVE  j \in Pending(w) <=> \E i \in 1..Len(q) : q[i] = j
        OBVIOUS
      <4>1. CASE j = k
        BY <1>4, <3>2, <3>5, <4>1
      <4>2. CASE j # k
        BY <1>4, <3>2, <3>3, <3>4, <3>5, <4>2
      <4> QED  BY <4>1, <4>2
    <3> QED  BY <3>6, <3>7 DEF Ordered, q
  <2> QED  BY <2>1, <2>2
<1> HIDE DEF q, o
<1>6. StoreOK(w, {})
  <2>1. Sound(w)
    BY <1>1, <1>2 DEF Sound
  <2>2. \A j \in Key : Orphan(w, j) => j \in Pending(w)
    BY <1>2, <1>4 DEF Orphan, StoreOK
  <2> QED  BY <1>5, <2>1, <2>2 DEF StoreOK
<1>7. Get(w, k) = Clean(v)
  BY <1>2, <1>3, GetForm
<1>8. \A j \in Key : j # k => Get(w, j) = Get(s, j)
  <2> SUFFICES ASSUME NEW j \in Key, j # k PROVE Get(w, j) = Get(s, j)
    OBVIOUS
  <2>1. w.pending[j] = s.pending[j] /\ SealedValue(w, j) = SealedValue(s, j)
    BY <1>2 DEF SealedValue, RowAt
  <2> QED  BY <2>1, GetForm
<1> QED  BY <1>6, <1>7, <1>8

\* put is a write of the map, with or without the flush that it may cause, and
\* whether that flush succeeds or not.
LEMMA PutEffect ==
    ASSUME NEW k \in Key, NEW s, StoreOK(s, {k}), NEW v \in Value \cup {Empty},
           NEW t, t = Put(s, k, v)
    PROVE  /\ StoreOK(t, {})
           /\ Get(t, k) = Clean(v)
           /\ \A j \in Key : j # k => Get(t, j) = Get(s, j)
<1> DEFINE w == Written(s, k, v)
<1>1. /\ StoreOK(w, {})
      /\ Get(w, k) = Clean(v)
      /\ \A j \in Key : j # k => Get(w, j) = Get(s, j)
  BY WrittenEffect
<1>2. t = w \/ t = FlushPending(w).store
  BY PutForm
<1> HIDE DEF w
<1>3. CASE t = w
  BY <1>1, <1>3
<1>4. CASE t = FlushPending(w).store
  <2>1. StoreOK(t, {}) /\ \A j \in Key : Get(t, j) = Get(w, j)
    BY <1>1, <1>4, FlushEffect
  <2> QED  BY <1>1, <2>1
<1> QED  BY <1>2, <1>3, <1>4

LEMMA OKForAny ==
    ASSUME NEW s, NEW X, StoreOK(s, {})
    PROVE  StoreOK(s, X)
BY DEF StoreOK

Retained(S, q, k, r) ==
    /\ r \in Seq(S)
    /\ \A i, j \in 1..Len(r) : r[i] = r[j] => i = j
    /\ \A x : (\E i \in 1..Len(r) : r[i] = x) <=> x # k /\ \E i \in 1..Len(q) : q[i] = x

\* retain keeps every other element.
LEMMA WithoutEffect ==
    ASSUME NEW S, NEW q \in Seq(S), NEW k, NEW r, r = Without(q, k),
           \A i, j \in 1..Len(q) : q[i] = q[j] => i = j
    PROVE  Retained(S, q, k, r)
<1> DEFINE A == {i \in 1..Len(q) : q[i] # k}
           n == Cardinality(A)
           a == Ascending(A)
<1>1. A \in SUBSET Int /\ IsFiniteSet(A)
  <2>1. IsFiniteSet(1..Len(q)) /\ Len(q) \in Nat
    BY FS_Interval
  <2>2. A \in SUBSET (1..Len(q))
    OBVIOUS
  <2> HIDE DEF A
  <2>3. IsFiniteSet(A)
    BY <2>1, <2>2, FS_Subset
  <2> QED  BY <2>1, <2>2, <2>3
<1>2. /\ n \in Nat /\ a \in [1..n -> A]
      /\ \A i, j \in 1..n : i < j => a[i] < a[j]
      /\ \A x \in A : \E i \in 1..n : a[i] = x
  <2> HIDE DEF A
  <2> QED  BY <1>1, AscendingExists
<1>3. r = [i \in DOMAIN a |-> q[a[i]]]
  BY Zenon DEF Without
<1>4. \A i \in A : i \in 1..Len(q) /\ q[i] # k /\ q[i] \in S /\ i \in Int
  OBVIOUS
<1>5. \A i \in 1..Len(q) : q[i] # k => i \in A
  OBVIOUS
<1> HIDE DEF A, n, a
<1>6. DOMAIN a = 1..n /\ \A i \in 1..n : a[i] \in A
  BY <1>2
<1>7. r = [i \in 1..n |-> q[a[i]]]
  BY <1>3, <1>6
<1>8. r \in Seq(S) /\ Len(r) = n /\ \A i \in 1..n : r[i] = q[a[i]]
  BY <1>2, <1>4, <1>6, <1>7
<1>9. \A i, j \in 1..n : r[i] = r[j] => i = j
  <2> SUFFICES ASSUME NEW i \in 1..n, NEW j \in 1..n, r[i] = r[j] PROVE i = j
    OBVIOUS
  <2>1. a[i] = a[j] /\ a[i] \in Int
    BY <1>4, <1>6, <1>8
  <2> QED  BY <1>2, <2>1
<1>10. ASSUME NEW x, NEW i \in 1..n, r[i] = x PROVE x # k /\ \E j \in 1..Len(q) : q[j] = x
  BY <1>4, <1>6, <1>8, <1>10
<1>11. ASSUME NEW x, x # k, NEW j \in 1..Len(q), q[j] = x PROVE \E i \in 1..n : r[i] = x
  <2>1. j \in A
    BY <1>5, <1>11
  <2>2. PICK i \in 1..n : a[i] = j
    BY <1>2, <2>1
  <2> QED  BY <1>8, <1>11, <2>2
<1> QED  BY <1>8, <1>9, <1>10, <1>11 DEF Retained

Gone(s, k) ==
    [s EXCEPT !.index[k] = NoPlace, !.pending[k] = Absent, !.pending_order = Without(@, k)]

LEMMA DeleteForm ==
    ASSUME NEW s, NEW k
    PROVE  Delete(s, k) = IF s.index[k] # NoPlace \/ k \in Pending(s)
                          THEN Put(Gone(s, k), k, Empty) ELSE Gone(s, k)
BY Zenon DEF Delete, Gone

\* Out of both maps: only sealed rows of k may be left, and no write hides them.
LEMMA GoneEffect ==
    ASSUME NEW k \in Key, NEW s, StoreOK(s, {}), NEW g, g = Gone(s, k)
    PROVE  /\ StoreOK(g, {k})
           /\ \A j \in Key : j # k => Get(g, j) = Get(s, j)
           /\ Get(g, k) = Absent
           /\ s.index[k] = NoPlace /\ k \notin Pending(s) => StoreOK(g, {})
<1> DEFINE o == Without(s.pending_order, k)
           p == [s.pending EXCEPT ![k] = Absent]
           x == [s.index EXCEPT ![k] = NoPlace]
<1>1. s \in Store /\ Sound(s) /\ Ordered(s)
  BY DEF StoreOK, Sound
<1>2. /\ s.pending_order \in Seq(Key) /\ s.pending \in [Key -> Value \cup {Empty, Absent}]
      /\ s.index \in [Key -> Place]
  BY <1>1 DEF Store
<1>3. /\ o \in Seq(Key)
      /\ \A i, j \in 1..Len(o) : o[i] = o[j] => i = j
      /\ \A y : (\E i \in 1..Len(o) : o[i] = y)
                   <=> y # k /\ \E i \in 1..Len(s.pending_order) : s.pending_order[i] = y
  <2>1. \A i, j \in 1..Len(s.pending_order) : s.pending_order[i] = s.pending_order[j] => i = j
    BY <1>1 DEF Ordered
  <2>2. Retained(Key, s.pending_order, k, o)
    BY <1>2, <2>1, WithoutEffect, Zenon
  <2> QED  BY <2>2, Zenon DEF Retained
<1>4. /\ p \in [Key -> Value \cup {Empty, Absent}]
      /\ p[k] = Absent /\ \A j \in Key : j # k => p[j] = s.pending[j]
  BY <1>2
<1>5. /\ x \in [Key -> Place] /\ x[k] = NoPlace /\ \A j \in Key : j # k => x[j] = s.index[j]
  BY <1>2 DEF Place, NoPlace
<1>6. g = [s EXCEPT !.index = x, !.pending = p, !.pending_order = o]
  BY Zenon DEF Gone
<1> HIDE DEF o, p, x
<1>7. /\ g \in Store /\ g.blocks = s.blocks /\ g.index = x
      /\ g.pending = p /\ g.pending_order = o
  BY <1>1, <1>3, <1>4, <1>5, <1>6 DEF Store
<1>8. \A j \in Key : j \in Pending(g) <=> j # k /\ j \in Pending(s)
  BY <1>4, <1>7 DEF Pending
<1>9. Ordered(g)
  <2>1. \A j \in Key : j \in Pending(s) <=>
           \E i \in 1..Len(s.pending_order) : s.pending_order[i] = j
    BY <1>1 DEF Ordered
  <2>2. \A j \in Key : j \in Pending(g) <=> \E i \in 1..Len(o) : o[i] = j
    BY <1>3, <1>8, <2>1
  <2>3. g.pending_order = o
    BY <1>7
  <2>4. \A i, j \in 1..Len(o) : o[i] = o[j] => i = j
    BY <1>3
  <2>5. \A i, j \in 1..Len(g.pending_order) : g.pending_order[i] = g.pending_order[j] => i = j
    BY <2>3, <2>4, Zenon
  <2>6. \A j \in Key : j \in Pending(g) <=> \E i \in 1..Len(g.pending_order) : g.pending_order[i] = j
    BY <2>2, <2>3, Zenon
  <2> QED  BY <2>5, <2>6, Zenon DEF Ordered
<1>10. Sound(g)
  BY <1>1, <1>5, <1>7 DEF Sound, Indexed
<1>11. \A j \in Key : j # k /\ Orphan(g, j) => j \in Pending(g)
  BY <1>5, <1>7, <1>8 DEF Orphan, StoreOK
<1>12. StoreOK(g, {k})
  BY <1>9, <1>10, <1>11 DEF StoreOK
<1>13. \A j \in Key : j # k => Get(g, j) = Get(s, j)
  <2> SUFFICES ASSUME NEW j \in Key, j # k PROVE Get(g, j) = Get(s, j)
    OBVIOUS
  <2>1. g.pending[j] = s.pending[j] /\ SealedValue(g, j) = SealedValue(s, j)
    BY <1>4, <1>5, <1>7 DEF SealedValue, RowAt
  <2> QED  BY <2>1, GetForm
<1>14. Get(g, k) = Absent
  <2>1. g.pending[k] = Absent /\ SealedValue(g, k) = Absent
    BY <1>4, <1>5, <1>7 DEF SealedValue
  <2> QED  BY <2>1, GetForm DEF Clean
<1>15. ASSUME s.index[k] = NoPlace, k \notin Pending(s) PROVE StoreOK(g, {})
  <2>1. ~ Orphan(s, k)
    BY <1>15 DEF StoreOK
  <2>2. ~ Orphan(g, k)
    BY <1>15, <2>1, <1>7 DEF Orphan
  <2> QED  BY <1>9, <1>10, <1>11, <2>2 DEF StoreOK
<1> QED  BY <1>12, <1>13, <1>14, <1>15

\* delete takes the key out of the map: a tombstone hides its sealed rows.
LEMMA DeleteEffect ==
    ASSUME NEW k \in Key, NEW s, StoreOK(s, {}), NEW t, t = Delete(s, k)
    PROVE  /\ StoreOK(t, {})
           /\ Get(t, k) = Absent
           /\ \A j \in Key : j # k => Get(t, j) = Get(s, j)
<1> DEFINE g == Gone(s, k)
<1>1. /\ StoreOK(g, {k})
      /\ \A j \in Key : j # k => Get(g, j) = Get(s, j)
      /\ Get(g, k) = Absent
      /\ s.index[k] = NoPlace /\ k \notin Pending(s) => StoreOK(g, {})
  BY GoneEffect
<1>2. t = IF s.index[k] # NoPlace \/ k \in Pending(s) THEN Put(g, k, Empty) ELSE g
  BY DeleteForm
<1> HIDE DEF g
<1>3. CASE s.index[k] # NoPlace \/ k \in Pending(s)
  <2>1. t = Put(g, k, Empty)
    BY <1>2, <1>3
  <2>2. /\ StoreOK(t, {})
        /\ Get(t, k) = Clean(Empty)
        /\ \A j \in Key : j # k => Get(t, j) = Get(g, j)
    BY <1>1, <2>1, PutEffect
  <2> QED  BY <1>1, <2>2 DEF Clean
<1>4. CASE ~ (s.index[k] # NoPlace \/ k \in Pending(s))
  BY <1>1, <1>2, <1>4
<1> QED  BY <1>3, <1>4

-----------------------------------------------------------------------------
(* compact. *)

\* The survivors are finitely many: their index entries are different places.
LEMMA FinitelyManySurvivors ==
    ASSUME NEW s, StoreOK(s, {})
    PROVE  Survivors(s) \in SUBSET Int /\ Survivors(s) \in SUBSET Key /\ IsFiniteSet(Survivors(s))
<1> DEFINE V == Survivors(s)
           P == (1..Len(s.blocks)) \X (1..RowsPerBlock)
           e == [k \in V |-> s.index[k]]
<1>1. V \in SUBSET Key /\ V \in SUBSET Int /\ \A k \in V : s.index[k] # NoPlace
  BY KvStoreAssumption DEF Survivors
<1>2. s \in Store /\ Sound(s) /\ AllSealed(s.blocks) /\ Len(s.blocks) \in Nat
  <2>1. s \in Store /\ Sound(s) /\ AllSealed(s.blocks)
    BY DEF StoreOK, Sound
  <2>2. s.blocks \in Seq(Seq(Row))
    BY <2>1 DEF AllSealed
  <2> QED  BY <2>1, <2>2
<1> HIDE DEF V
<1>3. \A k \in V : /\ s.index[k] \in P
                   /\ s.blocks[s.index[k][1]][s.index[k][2]].key = k
  <2> SUFFICES ASSUME NEW k \in V
               PROVE  /\ s.index[k] \in P
                      /\ s.blocks[s.index[k][1]][s.index[k][2]].key = k
    OBVIOUS
  <2> DEFINE c == s.index[k][1]
             i == s.index[k][2]
  <2>1. s.index[k] = <<c, i>>
    <3>1. s.index[k] \in Nat \X Nat
      BY <1>1, <1>2 DEF Store, Place
    <3> QED  BY <3>1
  <2>2. At(s.blocks, c, i, k)
    BY <1>1, <1>2 DEF Sound, Indexed
  <2> HIDE DEF c, i
  <2>3. c \in 1..Len(s.blocks) /\ i \in 1..Len(s.blocks[c]) /\ s.blocks[c][i].key = k
    BY <2>2 DEF At
  <2>4. Len(s.blocks[c]) <= RowsPerBlock /\ Len(s.blocks[c]) \in Nat
    BY <1>2, <2>3, RowTypes
  <2>5. i \in 1..RowsPerBlock
    BY <2>3, <2>4, KvStoreAssumption
  <2> QED  BY <2>1, <2>3, <2>5
<1>4. IsFiniteSet(P)
  <2>1. IsFiniteSet(1..Len(s.blocks)) /\ IsFiniteSet(1..RowsPerBlock)
    <3>1. Len(s.blocks) \in Int /\ RowsPerBlock \in Int /\ 1 \in Int
      BY <1>2, KvStoreAssumption
    <3> QED  BY <3>1, FS_Interval
  <2> QED  BY <2>1, FS_Product
<1> HIDE DEF P
<1>5. e \in Injection(V, P)
  <2>1. e \in [V -> P]
    BY <1>3
  <2>2. \A k, j \in V : e[k] = e[j] => k = j
    BY <1>3
  <2> HIDE DEF e
  <2> QED  BY <2>1, <2>2, Zenon DEF Injection, IsInjective
<1>6. IsFiniteSet(V)
  <2> HIDE DEF e
  <2> QED  BY <1>4, <1>5, FS_Injection
<1> QED  BY <1>1, <1>6 DEF V

\* What is read of a key when nothing is pending.
LEMMA ReadSealed ==
    ASSUME NEW s, StoreOK(s, {}), Pending(s) = {}, NEW k \in Key
    PROVE  /\ k \in Survivors(s) => Get(s, k) \in Value
           /\ k \notin Survivors(s) => Get(s, k) = Absent
<1>1. s \in Store /\ Sound(s) /\ AllSealed(s.blocks)
  BY DEF StoreOK, Sound
<1>2. s.pending[k] = Absent
  BY DEF Pending
<1>3. Get(s, k) = Clean(SealedValue(s, k))
  BY <1>2, GetForm
<1>4. CASE s.index[k] = NoPlace
  BY <1>3, <1>4 DEF Survivors, SealedValue, Clean
<1>5. CASE s.index[k] # NoPlace
  <2> DEFINE c == s.index[k][1]
             i == s.index[k][2]
  <2>1. At(s.blocks, c, i, k)
    BY <1>1, <1>5 DEF Sound, Indexed
  <2>2. SealedValue(s, k) = s.blocks[c][i].value
        /\ RowAt(s, s.index[k]).value = s.blocks[c][i].value
    BY <1>5 DEF SealedValue, RowAt
  <2> HIDE DEF c, i
  <2>3. s.blocks[c][i].value \in Value \cup {Empty}
    BY <1>1, <2>1, RowTypes DEF At
  <2>4. k \in Survivors(s) <=> s.blocks[c][i].value # Empty
    BY <1>5, <2>2 DEF Survivors
  <2> QED  BY <1>3, <2>2, <2>3, <2>4 DEF Clean
<1> QED  BY <1>4, <1>5

\* An empty store.
LEMMA NewOK ==
    /\ StoreOK(New, {}) /\ Pending(New) = {}
    /\ \A k \in Key : Get(New, k) = Absent
<1>1. /\ New \in Store /\ New.blocks = << >> /\ New.pending = NothingPending
      /\ New.pending_order = << >> /\ \A k \in Key : New.index[k] = NoPlace
      /\ \A k \in Key : NothingPending[k] = Absent
  BY EmptyStore DEF NothingPending
<1>2. 1..Len(<< >>) = {} /\ << >> \in Seq(Seq(Row))
  OBVIOUS
<1>3. AllSealed(New.blocks)
  BY <1>1, <1>2 DEF AllSealed
<1>4. Sound(New)
  BY <1>1, <1>3 DEF Sound, Indexed
<1>5. Pending(New) = {}
  BY <1>1 DEF Pending
<1>6. Ordered(New)
  BY <1>1, <1>2, <1>5 DEF Ordered
<1>7. \A k \in Key : ~ Orphan(New, k)
  BY <1>1, <1>2 DEF Orphan, At
<1>8. \A k \in Key : Get(New, k) = Absent
  <2> SUFFICES ASSUME NEW k \in Key PROVE Get(New, k) = Absent
    OBVIOUS
  <2>1. SealedValue(New, k) = Absent /\ New.pending[k] = Absent
    BY <1>1 DEF SealedValue
  <2> QED  BY <2>1, GetForm DEF Clean
<1> QED  BY <1>4, <1>5, <1>6, <1>7, <1>8 DEF StoreOK

IsPutting(f, t, s, keys) ==
    f = [i \in 0..Len(keys) |->
            IF i = 0 THEN t ELSE Put(f[i - 1], keys[i], Get(s, keys[i]))]

LEMMA PutBackForm ==
    ASSUME NEW t, NEW s, NEW keys, keys = Ascending(Survivors(s))
    PROVE  PutBack(t, s) = (CHOOSE f : IsPutting(f, t, s, keys))[Len(keys)]
BY Zenon DEF PutBack, IsPutting

GoodStores == {a \in Store : StoreOK(a, {})}

\* What a put of a value does to a good store.
LEMMA PutGood ==
    ASSUME NEW a \in GoodStores, NEW k \in Key, NEW v \in Value
    PROVE  /\ Put(a, k, v) \in GoodStores
           /\ Get(Put(a, k, v), k) = v
           /\ \A j \in Key : j # k => Get(Put(a, k, v), j) = Get(a, j)
<1> DEFINE u == Put(a, k, v)
<1>1. v \in Value \cup {Empty} /\ v # Empty
  BY KvStoreAssumption
<1>2. StoreOK(a, {k})
  BY OKForAny DEF GoodStores
<1>3. /\ StoreOK(u, {}) /\ Get(u, k) = Clean(v)
      /\ \A j \in Key : j # k => Get(u, j) = Get(a, j)
  BY <1>1, <1>2, PutEffect
<1> HIDE DEF u
<1>4. u \in GoodStores
  BY <1>3 DEF GoodStores, StoreOK, Sound
<1>5. Get(u, k) = v
  BY <1>1, <1>3 DEF Clean
<1> QED  BY <1>3, <1>4, <1>5 DEF u

\* The stores h[0] to h[n] that putting back the survivors goes through.
Replay(s, h, keys, n) ==
    /\ n \in Nat
    /\ keys \in [1..n -> Survivors(s)]
    /\ \A i, j \in 1..n : i < j => keys[i] < keys[j]
    /\ \A k \in Survivors(s) : \E i \in 1..n : keys[i] = k
    /\ h[0] = New
    /\ \A i \in 1..n : h[i] = Put(h[i - 1], keys[i], Get(s, keys[i]))
    /\ PutBack(New, s) = h[n]

LEMMA PutBackReplays ==
    ASSUME NEW s, StoreOK(s, {}), Pending(s) = {}
    PROVE  \E h, keys, n : Replay(s, h, keys, n)
<1> DEFINE V == Survivors(s)
           keys == Ascending(V)
           n == Cardinality(V)
           val(i) == Get(s, keys[i])
           F == [i \in 1..n |-> [a \in GoodStores |-> Put(a, keys[i], val(i))]]
<1>1. V \in SUBSET Int /\ V \in SUBSET Key /\ IsFiniteSet(V)
  BY FinitelyManySurvivors
<1>2. /\ n \in Nat /\ keys \in [1..n -> V]
      /\ \A i, j \in 1..n : i < j => keys[i] < keys[j]
      /\ \A x \in V : \E i \in 1..n : keys[i] = x
  <2> HIDE DEF V
  <2> QED  BY <1>1, AscendingExists
<1>3. Len(keys) = n
  <2> HIDE DEF keys, n
  <2>1. keys = [i \in 1..n |-> keys[i]]
    BY <1>2
  <2> QED  BY <1>2, <2>1
<1>4. \A i \in 1..n : keys[i] \in V /\ keys[i] \in Key /\ keys[i] \in Int
  BY <1>1, <1>2
<1>5. \A i \in 1..n : val(i) \in Value
  BY <1>4, ReadSealed
<1>6. \A i \in 1..n : \A a \in GoodStores : Put(a, keys[i], val(i)) \in GoodStores
  <2> HIDE DEF keys, val, n
  <2> QED  BY <1>4, <1>5, PutGood
<1>7. F \in [1..n -> [GoodStores -> GoodStores]]
  <2>1. \A i \in 1..n : [a \in GoodStores |-> Put(a, keys[i], val(i))] \in [GoodStores -> GoodStores]
    <3> HIDE DEF n, keys, val
    <3> QED  BY <1>6
  <2> HIDE DEF n, keys, val
  <2> QED  BY <2>1
<1>8. New \in GoodStores
  BY NewOK, EmptyStore DEF GoodStores
<1> HIDE DEF n, keys, V, val
<1>9. PICK f \in [0..n -> GoodStores] : f[0] = New /\ \A i \in 1..n : f[i] = F[i][f[i - 1]]
  <2>1. n \in Nat
    BY <1>2
  <2>2. Recursion(GoodStores, New, n, F)
    <3> HIDE DEF F
    <3> QED  BY <1>7, <1>8, <2>1, StepByStep, Zenon
  <2> HIDE DEF F
  <2> QED  BY <2>2, Zenon DEF Recursion
<1>10. \A i \in 1..n : f[i] = Put(f[i - 1], keys[i], val(i))
  <2> SUFFICES ASSUME NEW i \in 1..n PROVE f[i] = Put(f[i - 1], keys[i], val(i))
    OBVIOUS
  <2>1. i - 1 \in 0..n
    BY <1>2
  <2>2. f[i - 1] \in GoodStores
    BY <1>9, <2>1
  <2>3. F[i][f[i - 1]] = Put(f[i - 1], keys[i], val(i))
    BY <2>2
  <2> HIDE DEF F
  <2> QED  BY <1>9, <2>3
<1> HIDE DEF F
<1>11. IsPutting(f, New, s, keys)
  <2> DEFINE g(i) == IF i = 0 THEN New ELSE Put(f[i - 1], keys[i], Get(s, keys[i]))
  <2>1. \A i \in 0..n : f[i] = g(i)
    <3> SUFFICES ASSUME NEW i \in 0..n PROVE f[i] = g(i)
      OBVIOUS
    <3>1. i = 0 \/ i \in 1..n
      BY <1>2
    <3> QED  BY <1>9, <1>10, <3>1 DEF val
  <2>2. f = [i \in 0..n |-> f[i]]
    BY <1>9
  <2>3. f = [i \in 0..n |-> g(i)]
    <3> HIDE DEF g
    <3> QED  BY <2>1, <2>2
  <2> QED  BY <1>3, <2>3 DEF IsPutting
<1> DEFINE h == CHOOSE x : IsPutting(x, New, s, keys)
<1>12. IsPutting(h, New, s, keys)
  BY <1>11
<1> HIDE DEF h
<1>13. \A i \in 0..n : h[i] = IF i = 0 THEN New ELSE Put(h[i - 1], keys[i], val(i))
  BY <1>3, <1>12 DEF IsPutting, val
<1>14. h[0] = New /\ \A i \in 1..n : h[i] = Put(h[i - 1], keys[i], val(i))
  <2>1. 0 \in 0..n /\ \A i \in 1..n : i \in 0..n /\ i # 0
    BY <1>2
  <2> QED  BY <1>13, <2>1
<1>15. PutBack(New, s) = h[n]
  <2>1. PutBack(New, s) = (CHOOSE x : IsPutting(x, New, s, keys))[Len(keys)]
    BY PutBackForm, Zenon DEF keys, V
  <2> QED  BY <1>3, <2>1 DEF h
<1>16. Replay(s, h, keys, n)
  BY <1>2, <1>14, <1>15 DEF Replay, V, val
<1> QED  BY <1>16

\* Putting the survivors back into an empty store restores what was read.
LEMMA PutBackEffect ==
    ASSUME NEW s, StoreOK(s, {}), Pending(s) = {}, NEW t, t = PutBack(New, s)
    PROVE  StoreOK(t, {}) /\ \A k \in Key : Get(t, k) = Get(s, k)
<1> DEFINE V == Survivors(s)
<1>1. PICK h, keys, n : Replay(s, h, keys, n)
  BY PutBackReplays
<1> DEFINE val(i) == Get(s, keys[i])
<1>2. /\ n \in Nat /\ V \in SUBSET Key
      /\ \A i \in 1..n : keys[i] \in V /\ keys[i] \in Key
      /\ \A k \in V : \E i \in 1..n : keys[i] = k
  BY <1>1, FinitelyManySurvivors DEF Replay
<1>3. h[0] = New /\ t = h[n] /\ \A i \in 1..n : h[i] = Put(h[i - 1], keys[i], val(i))
  BY <1>1 DEF Replay
<1>5. \A i \in 1..n : val(i) \in Value
  BY <1>2, ReadSealed
<1>8. New \in GoodStores
  BY NewOK, EmptyStore DEF GoodStores
<1> HIDE DEF V, val
<1> DEFINE Done(i, k) == \E j \in 1..i : keys[j] = k
           T == {i \in 0..n : /\ h[i] \in GoodStores
                              /\ \A k \in Key : Get(h[i], k) = IF Done(i, k) THEN Get(s, k) ELSE Absent}
<1>14. 0 \in T
  <2>1. h[0] = New /\ 0 \in 0..n
    BY <1>2, <1>3
  <2>2. \A k : ~ Done(0, k)
    OBVIOUS
  <2> QED  BY <1>8, <2>1, <2>2, NewOK
<1>15. \A i \in 1..n : i - 1 \in T => i \in T
  <2> SUFFICES ASSUME NEW i \in 1..n, i - 1 \in T PROVE i \in T
    OBVIOUS
  <2>1. i \in 0..n
    BY <1>2
  <2>2. h[i] = Put(h[i - 1], keys[i], val(i)) /\ keys[i] \in Key /\ val(i) \in Value
    BY <1>2, <1>3, <1>5
  <2>3. /\ h[i - 1] \in GoodStores
        /\ \A k \in Key : Get(h[i - 1], k) = IF Done(i - 1, k) THEN Get(s, k) ELSE Absent
    OBVIOUS
  <2>4. /\ h[i] \in GoodStores
        /\ Get(h[i], keys[i]) = val(i)
        /\ \A j \in Key : j # keys[i] => Get(h[i], j) = Get(h[i - 1], j)
    BY <2>2, <2>3, PutGood
  <2>5. \A k : Done(i, k) <=> Done(i - 1, k) \/ keys[i] = k
    <3>1. \A j \in 1..i : j \in 1..(i - 1) \/ j = i
      BY <1>2
    <3>2. 1..(i - 1) \subseteq 1..i /\ i \in 1..i
      BY <1>2
    <3> QED  BY <3>1, <3>2
  <2> HIDE DEF Done
  <2>6. \A k \in Key : Get(h[i], k) = IF Done(i, k) THEN Get(s, k) ELSE Absent
    <3> SUFFICES ASSUME NEW k \in Key
                 PROVE  Get(h[i], k) = IF Done(i, k) THEN Get(s, k) ELSE Absent
      OBVIOUS
    <3>1. CASE k = keys[i]
      BY <2>4, <2>5, <3>1 DEF val
    <3>2. CASE k # keys[i]
      BY <2>3, <2>4, <2>5, <3>2
    <3> QED  BY <3>1, <3>2
  <2> QED  BY <2>1, <2>4, <2>6
<1>16. n \in T
  <2>1. \A i \in 0..n : i \in T
    <3>1. n \in Nat
      BY <1>2
    <3> HIDE DEF T
    <3> QED  BY <3>1, <1>14, <1>15, UpTo
  <2> HIDE DEF T
  <2> QED  BY <1>2, <2>1
<1>18. \A k \in Key : Get(t, k) = Get(s, k)
  <2> SUFFICES ASSUME NEW k \in Key PROVE Get(t, k) = Get(s, k)
    OBVIOUS
  <2>1. Get(t, k) = IF Done(n, k) THEN Get(s, k) ELSE Absent
    BY <1>3, <1>16
  <2>2. k \in V => Done(n, k)
    BY <1>2
  <2>3. k \notin V => Get(s, k) = Absent
    BY ReadSealed DEF V
  <2> HIDE DEF Done
  <2> QED  BY <2>1, <2>2, <2>3
<1> QED  BY <1>3, <1>16, <1>18 DEF GoodStores

\* compact changes what is read of no key.
LEMMA CompactEffect ==
    ASSUME NEW s, StoreOK(s, {}), NEW t, t = Compact(s)
    PROVE  StoreOK(t, {}) /\ \A k \in Key : Get(t, k) = Get(s, k)
<1> DEFINE f == FlushPending(s)
           u == PutBack(New, f.store)
<1>1. /\ StoreOK(f.store, {})
      /\ \A k \in Key : Get(f.store, k) = Get(s, k)
      /\ f.ok => Pending(f.store) = {}
  BY FlushEffect
<1>2. t = IF f.ok THEN FlushPending(u).store ELSE f.store
  BY Zenon DEF Compact
<1>3. CASE f.ok
  <2>1. StoreOK(u, {}) /\ \A k \in Key : Get(u, k) = Get(f.store, k)
    <3> HIDE DEF f
    <3> QED  BY <1>1, <1>3, PutBackEffect
  <2> HIDE DEF f, u
  <2>2. t = FlushPending(u).store
    BY <1>2, <1>3
  <2>3. StoreOK(t, {}) /\ \A k \in Key : Get(t, k) = Get(u, k)
    BY <2>1, <2>2, FlushEffect
  <2> QED  BY <1>1, <2>1, <2>3
<1>4. CASE ~ f.ok
  BY <1>1, <1>2, <1>4
<1> QED  BY <1>3, <1>4

-----------------------------------------------------------------------------
(* Loading a segment. *)

LEMMA LoadEffect ==
    ASSUME NEW blocks, AllSealed(blocks), NEW t, t = SealAll(New, blocks)
    PROVE  /\ StoreOK(t, {}) /\ Pending(t) = {} /\ t.blocks = blocks
           /\ \A s : StoreOK(s, {}) /\ Pending(s) = {} /\ s.blocks = blocks =>
                \A k \in Key : Get(t, k) = Get(s, k)
<1>1. /\ StoreOK(New, {}) /\ Pending(New) = {} /\ Sound(New) /\ Ordered(New) /\ New \in Store
      /\ New.blocks = << >> /\ \A k \in Key : New.index[k] = NoPlace
  BY NewOK, EmptyStore DEF StoreOK
<1>2. blocks \in Seq(Seq(Row))
  BY DEF AllSealed
<1>3. /\ Sound(t) /\ t.blocks = blocks
      /\ t.pending = New.pending /\ t.pending_order = New.pending_order
  <2>1. << >> \o blocks = blocks
    BY <1>2
  <2>2. /\ Sound(t) /\ t.blocks = New.blocks \o blocks
        /\ t.pending = New.pending /\ t.pending_order = New.pending_order
    BY <1>1, SealingSound, Zenon
  <2> QED  BY <1>1, <2>1, <2>2
<1>4. Pending(t) = {} /\ Ordered(t)
  <2>1. Pending(t) = Pending(New)
    BY <1>3 DEF Pending
  <2> QED  BY <1>1, <1>3, <2>1 DEF Ordered
<1>5. \A k \in Key : ~ Orphan(t, k)
  <2> SUFFICES ASSUME NEW k \in Key PROVE ~ Orphan(t, k)
    OBVIOUS
  <2>1. Orphan(t, k) => Orphan(New, k)
    BY <1>1, SealingOfKey
  <2> QED  BY <1>1, <2>1 DEF StoreOK
<1>6. StoreOK(t, {})
  BY <1>3, <1>4, <1>5 DEF StoreOK
<1>7. ASSUME NEW s, StoreOK(s, {}), Pending(s) = {}, s.blocks = blocks, NEW k \in Key
      PROVE  Get(t, k) = Get(s, k)
  <2>1. Sound(s) /\ s \in Store /\ ~ Orphan(s, k) /\ s.pending[k] = Absent
    BY <1>7 DEF StoreOK, Sound, Pending
  <2>2. Sound(t) /\ t \in Store /\ ~ Orphan(t, k) /\ t.pending[k] = Absent
    BY <1>3, <1>4, <1>5 DEF Sound, Pending
  <2>3. SealedValue(t, k) = SealedValue(s, k)
    <3> DEFINE a == s.index[k]
               b == t.index[k]
    <3>1. Indexed(blocks, a, k) /\ Indexed(blocks, b, k)
      BY <1>3, <1>7, <2>1, <2>2 DEF Sound
    <3>2. a \in Nat \X Nat /\ b \in Nat \X Nat
      BY <2>1, <2>2 DEF Store, Place
    <3> HIDE DEF a, b
    <3>3. CASE a = NoPlace
      <4>1. \A c, i : ~ At(blocks, c, i, k)
        BY <1>7, <2>1, <3>3 DEF Orphan, a
      <4>2. b = NoPlace
        BY <3>1, <4>1 DEF Indexed
      <4> QED  BY <3>3, <4>2 DEF SealedValue, a, b
    <3>4. CASE a # NoPlace
      <4>1. At(blocks, a[1], a[2], k)
        BY <3>1, <3>4 DEF Indexed
      <4>2. b # NoPlace
        BY <1>3, <2>2, <4>1 DEF Orphan, b
      <4>3. At(blocks, b[1], b[2], k)
        BY <3>1, <4>2 DEF Indexed
      <4>4. a[1] <= b[1] /\ b[1] <= a[1]
        BY <3>1, <3>4, <4>1, <4>2, <4>3 DEF Indexed
      <4>5. a[1] = b[1]
        BY <3>2, <4>4
      <4>6. a[2] = b[2]
        <5>1. Distinct(blocks[a[1]])
          BY <4>1 DEF AllSealed, At
        <5> QED  BY <4>1, <4>3, <4>5, <5>1 DEF At, Distinct
      <4> QED  BY <1>3, <1>7, <3>4, <4>2, <4>5, <4>6 DEF SealedValue, RowAt, a, b
    <3> QED  BY <3>3, <3>4
  <2>4. Get(t, k) = Clean(SealedValue(t, k)) /\ Get(s, k) = Clean(SealedValue(s, k))
    BY <2>1, <2>2, GetForm
  <2> QED  BY <2>3, <2>4
<1> QED  BY <1>3, <1>4, <1>6, <1>7

-----------------------------------------------------------------------------
(* The invariant. *)

\* Blocks reach the segment in the order of the store; while they do, the
\* segment is not sealed and nothing is pending.
SegmentOK ==
    /\ segment \in [blocks : Seq(Seq(Row)), sealed : BOOLEAN]
    /\ AllSealed(segment.blocks)
    /\ writer # Absent => /\ writer \in Seq(Seq(Row)) /\ AllSealed(writer)
                          /\ segment.blocks \o writer = store.blocks
                          /\ ~ segment.sealed
                          /\ Pending(store) = {}

IInv == StoreOK(store, {}) /\ SegmentOK

LEMMA EmptyIsSealed == AllSealed(<< >>)
BY DEF AllSealed

LEMMA InitIInv == Init => IInv
<1> SUFFICES ASSUME Init PROVE IInv
  OBVIOUS
<1>1. segment = [blocks |-> << >>, sealed |-> FALSE] /\ writer = Absent /\ store = New
  BY DEF Init
<1>2. segment \in [blocks : Seq(Seq(Row)), sealed : BOOLEAN] /\ segment.blocks = << >>
  BY <1>1
<1>3. SegmentOK
  BY <1>1, <1>2, EmptyIsSealed DEF SegmentOK
<1> QED  BY <1>1, <1>3, NewOK DEF IInv

\* A sequence of blocks is no Absent.
LEMMA BlocksNotAbsent == \A b \in Seq(Seq(Row)) : b # Absent
BY KvStoreAssumption DEF Row

\* The head of a list moves to the end of another one.
LEMMA MoveHead ==
    ASSUME NEW S, NEW b \in Seq(S), NEW w \in Seq(S), w # << >>
    PROVE  Append(b, Head(w)) \o Tail(w) = b \o w
<1> DEFINE x == Head(w)
           y == Tail(w)
           l == Append(b, x)
           p == l \o y
           q == b \o w
           m == Len(b)
           n == Len(w)
<1>1. /\ x \in S /\ y \in Seq(S) /\ n \in Nat /\ m \in Nat
      /\ x = w[1] /\ Len(y) = n - 1 /\ \A c \in 1..Len(y) : y[c] = w[c + 1]
      /\ n # 0
  OBVIOUS
<1>2. /\ l \in Seq(S) /\ Len(l) = m + 1 /\ l[m + 1] = x
      /\ \A c \in 1..m : l[c] = b[c]
  <2> HIDE DEF x, y
  <2> QED  BY <1>1
<1> HIDE DEF x, y, l
<1>3. /\ p \in Seq(S) /\ Len(p) = Len(l) + Len(y)
      /\ \A i \in 1..Len(l) + Len(y) : p[i] = IF i <= Len(l) THEN l[i] ELSE y[i - Len(l)]
  BY <1>1, <1>2, ConcatProperties
<1>4. /\ q \in Seq(S) /\ Len(q) = m + n
      /\ \A i \in 1..(m + n) : q[i] = IF i <= m THEN b[i] ELSE w[i - m]
  BY ConcatProperties
<1> HIDE DEF p, q, m, n
<1>5. Len(p) = m + n /\ Len(y) = n - 1 /\ Len(l) + Len(y) = m + n
  BY <1>1, <1>2, <1>3
<1>6. ASSUME NEW i \in 1..(m + n) PROVE p[i] = q[i]
  <2>1. i \in Nat /\ 1 <= i /\ i <= m + n
    BY <1>1
  <2>2. p[i] = IF i <= m + 1 THEN l[i] ELSE y[i - (m + 1)]
    BY <1>2, <1>3, <1>5
  <2>3. q[i] = IF i <= m THEN b[i] ELSE w[i - m]
    BY <1>4
  <2>4. CASE i <= m
    BY <1>1, <1>2, <2>1, <2>2, <2>3, <2>4
  <2>5. CASE i = m + 1
    <3>1. i - m = 1 /\ i <= m + 1 /\ ~ i <= m
      BY <1>1, <2>5
    <3> QED  BY <1>1, <1>2, <2>2, <2>3, <2>5, <3>1
  <2>6. CASE i > m + 1
    <3> DEFINE c == i - (m + 1)
    <3>1. c \in 1..(n - 1) /\ c + 1 = i - m /\ ~ i <= m + 1 /\ ~ i <= m
      BY <1>1, <2>1, <2>6
    <3>2. p[i] = y[c] /\ q[i] = w[i - m]
      BY <2>2, <2>3, <3>1
    <3>3. y[c] = w[c + 1]
      BY <1>1, <1>5, <3>1
    <3> QED  BY <3>1, <3>2, <3>3
  <2>7. i <= m \/ i = m + 1 \/ i > m + 1
    BY <1>1, <2>1
  <2> QED  BY <2>4, <2>5, <2>6, <2>7
<1>7. p = q
  BY <1>3, <1>4, <1>5, <1>6, SeqEqual
<1> QED  BY <1>7 DEF p, q, l, x, y

\* The end of a list of blocks.
LEMMA EndSealed ==
    ASSUME NEW w, AllSealed(w), w # << >>, NEW b, AllSealed(b)
    PROVE  /\ Tail(w) \in Seq(Seq(Row)) /\ AllSealed(Tail(w))
           /\ Append(b, Head(w)) \in Seq(Seq(Row)) /\ AllSealed(Append(b, Head(w)))
           /\ Append(b, Head(w)) \o Tail(w) = b \o w
<1>1. w \in Seq(Seq(Row)) /\ b \in Seq(Seq(Row)) /\ Len(w) \in Nat /\ Len(b) \in Nat
  BY DEF AllSealed
<1>2. /\ Head(w) = w[1] /\ Head(w) \in Seq(Row) /\ 1 \in 1..Len(w)
      /\ Tail(w) \in Seq(Seq(Row)) /\ Len(Tail(w)) = Len(w) - 1
      /\ \A c \in 1..Len(Tail(w)) : Tail(w)[c] = w[c + 1] /\ c + 1 \in 1..Len(w)
  BY <1>1
<1>3. AllSealed(Tail(w))
  BY <1>2 DEF AllSealed
<1> DEFINE d == Append(b, Head(w))
<1>4. /\ d \in Seq(Seq(Row)) /\ Len(d) = Len(b) + 1 /\ d[Len(b) + 1] = Head(w)
      /\ \A c \in 1..Len(b) : d[c] = b[c]
  <2> DEFINE x == Head(w)
  <2>1. x \in Seq(Row)
    BY <1>2
  <2> HIDE DEF x
  <2> QED  BY <1>1, <2>1
<1>5. Append(b, Head(w)) \o Tail(w) = b \o w
  BY <1>1, MoveHead, Zenon
<1>6. AllSealed(d)
  <2> SUFFICES ASSUME NEW c \in 1..Len(d) PROVE Fits(d[c]) /\ Distinct(d[c])
    BY <1>4 DEF AllSealed
  <2>1. c \in 1..Len(b) \/ c = Len(b) + 1
    BY <1>1, <1>4
  <2>2. CASE c \in 1..Len(b)
    BY <1>4, <2>2 DEF AllSealed
  <2>3. CASE c = Len(b) + 1
    <3>1. d[c] = w[1]
      BY <1>2, <1>4, <2>3
    <3> QED  BY <1>2, <3>1 DEF AllSealed
  <2> QED  BY <2>1, <2>2, <2>3
<1> QED  BY <1>2, <1>3, <1>4, <1>5, <1>6

Map1 == [k \in Key |-> Get(store, k)]
Saved == [k \in Key |-> Get(LoadFromSegment(segment), k)]

\* What a step is to the map and to its saved copy.
MapStep ==
    \/ Map1' = Map1 /\ Saved' = Saved
    \/ \E k \in Key, x \in Value \cup {Absent} : Map1' = [Map1 EXCEPT ![k] = x] /\ Saved' = Saved
    \/ Saved' = Map!NoKeys /\ Map1' = Map1
    \/ Saved' = Map1 /\ Map1' = Map1
    \/ Map1' = Saved /\ Saved' = Saved

LEMMA SavedOfUnsealed ==
    \A f : ~ f.sealed => [k \in Key |-> Get(LoadFromSegment(f), k)] = Map!NoKeys
<1> SUFFICES ASSUME NEW f, ~ f.sealed
             PROVE  [k \in Key |-> Get(LoadFromSegment(f), k)] = Map!NoKeys
  OBVIOUS
<1>1. LoadFromSegment(f) = New
  BY DEF LoadFromSegment
<1>2. \A k \in Key : Get(LoadFromSegment(f), k) = Absent
  BY <1>1, NewOK
<1> DEFINE g(k) == Get(LoadFromSegment(f), k)
<1> HIDE DEF g
<1>3. [k \in Key |-> g(k)] = [k \in Key |-> Absent]
  BY <1>2 DEF g
<1> QED  BY <1>3 DEF g, Map!NoKeys

\* A call that writes one key.
LEMMA WriteStep ==
    ASSUME IInv, writer = Absent, NEW t, StoreOK(t, {}), NEW k \in Key,
           NEW x \in Value \cup {Absent}, Get(t, k) = x,
           \A j \in Key : j # k => Get(t, j) = Get(store, j),
           store' = t, UNCHANGED <<segment, writer>>
    PROVE  IInv' /\ MapStep
<1>1. StoreOK(store', {})
  OBVIOUS
<1>2. SegmentOK'
  BY DEF IInv, SegmentOK
<1>3. Saved' = Saved
  BY DEF Saved
<1> DEFINE n(j) == Get(t, j)
           o(j) == Get(store, j)
<1>4. Map1' = [j \in Key |-> n(j)]
  BY DEF Map1
<1>5. Map1 = [j \in Key |-> o(j)]
  BY DEF Map1
<1>6. n(k) = x /\ \A j \in Key : j # k => n(j) = o(j)
  OBVIOUS
<1> HIDE DEF n, o
<1>7. Map1' = [Map1 EXCEPT ![k] = x]
  BY <1>4, <1>5, <1>6
<1> QED  BY <1>1, <1>2, <1>3, <1>7 DEF IInv, MapStep

\* The map is that of any store from which the same is read.
LEMMA SameMap ==
    ASSUME NEW t, \A k \in Key : Get(t, k) = Get(store, k), store' = t
    PROVE  Map1' = Map1
<1> DEFINE n(j) == Get(t, j)
           o(j) == Get(store, j)
<1>1. Map1' = [j \in Key |-> n(j)]
  BY DEF Map1
<1>2. Map1 = [j \in Key |-> o(j)]
  BY DEF Map1
<1>3. \A j \in Key : n(j) = o(j)
  OBVIOUS
<1> HIDE DEF n, o
<1> QED  BY <1>1, <1>2, <1>3

\* A call that changes what is read of no key.
LEMMA SilentStep ==
    ASSUME IInv, writer = Absent, NEW t, StoreOK(t, {}),
           \A k \in Key : Get(t, k) = Get(store, k),
           store' = t, UNCHANGED <<segment, writer>>
    PROVE  IInv' /\ MapStep
<1>1. StoreOK(store', {})
  OBVIOUS
<1>2. SegmentOK'
  BY DEF IInv, SegmentOK
<1>3. Saved' = Saved
  BY DEF Saved
<1>4. Map1' = Map1
  BY SameMap
<1> QED  BY <1>1, <1>2, <1>3, <1>4 DEF IInv, MapStep

LEMMA CleanTyped == \A v \in Value \cup {Empty} : Clean(v) \in Value \cup {Absent}
BY DEF Clean

LEMMA PutStep ==
    ASSUME IInv, NEW k \in Key, NEW v \in Value \cup {Empty}, DoPut(k, v)
    PROVE  IInv' /\ MapStep
<1> DEFINE t == Put(store, k, v)
<1>1. writer = Absent /\ store' = t /\ UNCHANGED <<segment, writer>>
  BY DEF DoPut, Ready
<1>2. StoreOK(store, {k})
  BY OKForAny DEF IInv
<1>3. StoreOK(t, {}) /\ Get(t, k) = Clean(v) /\ \A j \in Key : j # k => Get(t, j) = Get(store, j)
  BY <1>2, PutEffect
<1>4. Clean(v) \in Value \cup {Absent}
  BY CleanTyped
<1> HIDE DEF t
<1> QED  BY <1>1, <1>3, <1>4, WriteStep

LEMMA DeleteStep ==
    ASSUME IInv, NEW k \in Key, DoDelete(k)
    PROVE  IInv' /\ MapStep
<1> DEFINE t == Delete(store, k)
<1>1. writer = Absent /\ store' = t /\ UNCHANGED <<segment, writer>>
  BY DEF DoDelete, Ready
<1>2. StoreOK(t, {}) /\ Get(t, k) = Absent /\ \A j \in Key : j # k => Get(t, j) = Get(store, j)
  BY DeleteEffect DEF IInv
<1> HIDE DEF t
<1> QED  BY <1>1, <1>2, WriteStep

LEMMA FlushStep == ASSUME IInv, DoFlush PROVE IInv' /\ MapStep
<1> DEFINE f == FlushPending(store)
           t == f.store
<1>1. writer = Absent /\ store' = t /\ UNCHANGED <<segment, writer>>
  BY DEF DoFlush, Ready
<1>2. StoreOK(t, {}) /\ \A k \in Key : Get(t, k) = Get(store, k)
  BY FlushEffect DEF IInv
<1> HIDE DEF f, t
<1> QED  BY <1>1, <1>2, SilentStep

LEMMA CompactStep == ASSUME IInv, DoCompact PROVE IInv' /\ MapStep
<1> DEFINE t == Compact(store)
<1>1. writer = Absent /\ store' = t /\ UNCHANGED <<segment, writer>>
  BY DEF DoCompact, Ready
<1>2. StoreOK(t, {}) /\ \A k \in Key : Get(t, k) = Get(store, k)
  BY CompactEffect DEF IInv
<1> HIDE DEF t
<1> QED  BY <1>1, <1>2, SilentStep

\* The file is truncated: there is no saved copy until it is sealed again.
LEMMA CreateStep == ASSUME IInv, PersistCreate PROVE IInv' /\ MapStep
<1> DEFINE f == FlushPending(store)
           t == f.store
<1>1. /\ writer = Absent /\ store' = t
      /\ IF f.ok THEN segment' = [blocks |-> << >>, sealed |-> FALSE] /\ writer' = t.blocks
                 ELSE UNCHANGED <<segment, writer>>
  BY Zenon DEF PersistCreate, Ready
<1>2. /\ StoreOK(t, {}) /\ \A k \in Key : Get(t, k) = Get(store, k)
      /\ f.ok => Pending(t) = {}
  BY FlushEffect DEF IInv
<1> DEFINE ok == f.ok
<1> HIDE DEF f, t, ok
<1>3. CASE ok
  <2>1. /\ segment' \in [blocks : Seq(Seq(Row)), sealed : BOOLEAN]
        /\ segment'.blocks = << >> /\ ~ segment'.sealed /\ writer' = t.blocks
    <3>1. segment' = [blocks |-> << >>, sealed |-> FALSE] /\ writer' = t.blocks
      BY <1>1, <1>3 DEF ok
    <3> QED  BY <3>1
  <2>2. t.blocks \in Seq(Seq(Row)) /\ AllSealed(t.blocks) /\ Pending(t) = {}
    BY <1>2, <1>3 DEF StoreOK, Sound, AllSealed, ok
  <2>3. << >> \o t.blocks = t.blocks
    BY <2>2
  <2>4. SegmentOK'
    BY <1>1, <2>1, <2>2, <2>3, EmptyIsSealed DEF SegmentOK
  <2>5. Saved' = Map!NoKeys
    BY <2>1, SavedOfUnsealed DEF Saved
  <2>6. Map1' = Map1
    BY <1>1, <1>2, SameMap
  <2>7. StoreOK(store', {})
    BY <1>1, <1>2
  <2> QED  BY <2>4, <2>5, <2>6, <2>7 DEF IInv, MapStep
<1>4. CASE ~ ok
  <2>1. UNCHANGED <<segment, writer>>
    BY <1>1, <1>4 DEF ok
  <2> QED  BY <1>1, <1>2, <2>1, SilentStep
<1> QED  BY <1>3, <1>4

LEMMA AppendStep == ASSUME IInv, PersistAppend PROVE IInv' /\ MapStep
<1>1. /\ writer # Absent /\ writer # << >> /\ writer' = Tail(writer) /\ store' = store
      /\ segment' = [segment EXCEPT !.blocks = Append(@, Head(writer))]
  BY DEF PersistAppend
<1>2. /\ segment \in [blocks : Seq(Seq(Row)), sealed : BOOLEAN]
      /\ AllSealed(segment.blocks) /\ AllSealed(writer) /\ ~ segment.sealed
      /\ segment.blocks \o writer = store.blocks /\ Pending(store) = {}
  BY <1>1 DEF IInv, SegmentOK
<1> DEFINE b == segment.blocks
           d == Append(b, Head(writer))
           e == Tail(writer)
<1>3. /\ e \in Seq(Seq(Row)) /\ AllSealed(e) /\ d \in Seq(Seq(Row)) /\ AllSealed(d)
      /\ d \o e = b \o writer
  BY <1>1, <1>2, EndSealed
<1>4. segment' = [segment EXCEPT !.blocks = d] /\ writer' = e
  BY <1>1
<1> HIDE DEF d, e
<1>5. /\ segment' \in [blocks : Seq(Seq(Row)), sealed : BOOLEAN]
      /\ segment'.blocks = d /\ ~ segment'.sealed
  BY <1>2, <1>3, <1>4
<1>6. SegmentOK'
  BY <1>1, <1>2, <1>3, <1>4, <1>5 DEF SegmentOK, Pending
<1>7. Saved = Map!NoKeys /\ Saved' = Map!NoKeys
  BY <1>2, <1>5, SavedOfUnsealed DEF Saved
<1>8. Map1' = Map1
  BY <1>1 DEF Map1
<1>9. StoreOK(store', {})
  BY <1>1 DEF IInv
<1> QED  BY <1>6, <1>7, <1>8, <1>9 DEF IInv, MapStep

\* What is read of the sealed segment is what is read of the store.
LEMMA SealStep == ASSUME IInv, PersistSeal PROVE IInv' /\ MapStep
<1>1. /\ writer = << >> /\ writer' = Absent /\ store' = store
      /\ segment' = [segment EXCEPT !.sealed = TRUE]
  BY DEF PersistSeal
<1>2. << >> # Absent
  <2>1. << >> \in Seq(Seq(Row))
    OBVIOUS
  <2> QED  BY <2>1, BlocksNotAbsent
<1>3. /\ segment \in [blocks : Seq(Seq(Row)), sealed : BOOLEAN]
      /\ AllSealed(segment.blocks) /\ segment.blocks \o << >> = store.blocks
      /\ Pending(store) = {} /\ StoreOK(store, {})
  BY <1>1, <1>2 DEF IInv, SegmentOK
<1>4. segment.blocks = store.blocks
  BY <1>3
<1>5. /\ segment' \in [blocks : Seq(Seq(Row)), sealed : BOOLEAN]
      /\ segment'.blocks = segment.blocks /\ segment'.sealed
  BY <1>1, <1>3
<1>6. SegmentOK'
  BY <1>1, <1>3, <1>5 DEF SegmentOK
<1> DEFINE u == SealAll(New, segment.blocks)
<1>7. LoadFromSegment(segment') = u
  BY <1>5, Zenon DEF LoadFromSegment
<1>8. \A k \in Key : Get(u, k) = Get(store, k)
  BY <1>3, <1>4, LoadEffect
<1> DEFINE n(j) == Get(u, j)
           o(j) == Get(store, j)
<1>9. Saved' = [j \in Key |-> n(j)]
  BY <1>7 DEF Saved
<1>10. Map1 = [j \in Key |-> o(j)] /\ Map1' = Map1
  BY <1>1 DEF Map1
<1>11. \A j \in Key : n(j) = o(j)
  BY <1>8
<1>12. StoreOK(store', {})
  BY <1>1, <1>3
<1> HIDE DEF n, o
<1>13. Saved' = Map1
  BY <1>9, <1>10, <1>11
<1> QED  BY <1>6, <1>10, <1>12, <1>13 DEF IInv, MapStep

LEMMA FailStep == ASSUME IInv, PersistFails PROVE IInv' /\ MapStep
<1>1. writer' = Absent /\ UNCHANGED <<store, segment>>
  BY DEF PersistFails
<1> QED  BY <1>1 DEF IInv, SegmentOK, MapStep, Map1, Saved

LEMMA RestartStep == ASSUME IInv, Restart PROVE IInv' /\ MapStep
<1>1. store' = LoadFromSegment(segment) /\ writer' = Absent /\ segment' = segment
  BY DEF Restart
<1>2. SegmentOK'
  BY <1>1 DEF IInv, SegmentOK
<1>3. StoreOK(store', {})
  <2>1. CASE segment.sealed
    <3>1. store' = SealAll(New, segment.blocks)
      BY <1>1, <2>1, Zenon DEF LoadFromSegment
    <3> QED  BY <3>1, LoadEffect DEF IInv, SegmentOK
  <2>2. CASE ~ segment.sealed
    <3>1. store' = New
      BY <1>1, <2>2, Zenon DEF LoadFromSegment
    <3> QED  BY <3>1, NewOK
  <2> QED  BY <2>1, <2>2
<1>4. Map1' = Saved /\ Saved' = Saved
  BY <1>1, Zenon DEF Map1, Saved
<1> QED  BY <1>2, <1>3, <1>4 DEF IInv, MapStep

LEMMA StoreStep == IInv /\ [Next]_vars => IInv' /\ MapStep
<1> SUFFICES ASSUME IInv, [Next]_vars PROVE IInv' /\ MapStep
  OBVIOUS
<1>1. CASE UNCHANGED vars
  BY <1>1 DEF vars, IInv, SegmentOK, MapStep, Map1, Saved
<1>2. CASE Next
  BY <1>2, PutStep, DeleteStep, FlushStep, CompactStep, CreateStep, AppendStep, SealStep,
     FailStep, RestartStep DEF Next
<1> QED  BY <1>1, <1>2
-----------------------------------------------------------------------------
(* What a compaction leaves. *)

\* A key has at most one row, sealed or pending, and no row is a tombstone or
\* too large for a block.
Fresh(s) ==
    /\ StoreOK(s, {})
    /\ \A c, i, d, j, k : At(s.blocks, c, i, k) /\ At(s.blocks, d, j, k) => c = d /\ i = j
    /\ \A c, i, k : At(s.blocks, c, i, k) =>
          s.blocks[c][i].value # Empty /\ k \notin Pending(s)
    /\ \A k \in Pending(s) : s.pending[k] \notin {Empty, Huge}

\* The keys with a row.
Known(s) == {k \in Key : k \in Pending(s) \/ \E c, i : At(s.blocks, c, i, k)}

\* A fresh store can be flushed, which seals its pending rows.
LEMMA FlushFresh ==
    ASSUME NEW s, Fresh(s), NEW f, f = FlushPending(s)
    PROVE  Fresh(f.store) /\ Pending(f.store) = {} /\ Known(f.store) = Known(s)
<1> DEFINE chunks == Chunks(PendingRows(s))
           n == Len(s.blocks)
<1>1. s \in Store /\ Sound(s) /\ Ordered(s) /\ StoreOK(s, {})
  BY DEF Fresh, StoreOK, Sound
<1>2. /\ chunks \in Seq(Seq(Row)) /\ Len(chunks) \in Nat
      /\ \A c \in 1..Len(chunks) : Distinct(chunks[c])
      /\ \A c, i, k : At(chunks, c, i, k) => k \in Pending(s) /\ chunks[c][i].value = s.pending[k]
      /\ \A k \in Pending(s) : \E c, i : At(chunks, c, i, k)
      /\ \A c, i, d, j, k : At(chunks, c, i, k) /\ At(chunks, d, j, k) => c = d /\ i = j
      /\ \A c \in 1..Len(chunks) : Packed(chunks[c])
  BY <1>1, PendingChunks
<1>3. f = IF Bad(chunks) = {}
          THEN [ok |-> TRUE, store |-> Cleared(SealAll(s, chunks))]
          ELSE [ok |-> FALSE, store |-> SealAll(s, SubSeq(chunks, 1, Min(Bad(chunks)) - 1))]
  BY FlushForm, Zenon
<1>4. StoreOK(f.store, {}) /\ f.ok => Pending(f.store) = {}
  BY <1>1, FlushEffect
<1> HIDE DEF chunks
<1>5. Bad(chunks) = {}
  <2> SUFFICES ASSUME NEW c \in Bad(chunks) PROVE FALSE
    OBVIOUS
  <2>1. c \in 1..Len(chunks) /\ ~ Fits(chunks[c])
    BY DEF Bad
  <2>2. PICK i \in 1..Len(chunks[c]) : chunks[c][i].value = Huge
    BY <1>2, <2>1 DEF Packed
  <2>3. At(chunks, c, i, chunks[c][i].key)
    BY <2>1 DEF At
  <2>4. chunks[c][i].key \in Pending(s) /\ s.pending[chunks[c][i].key] = Huge
    BY <1>2, <2>2, <2>3
  <2> QED  BY <2>4 DEF Fresh
<1> DEFINE t == SealAll(s, chunks)
           u == Cleared(t)
<1>6. f.ok = TRUE /\ f.store = u
  <2>1. f = [ok |-> TRUE, store |-> u]
    BY <1>3, <1>5
  <2> HIDE DEF u
  <2> QED  BY <2>1
<1>7. AllSealed(chunks)
  BY <1>2, <1>5 DEF AllSealed, Bad
<1>8. Sound(t) /\ t \in Store /\ t.blocks = s.blocks \o chunks
  BY <1>1, <1>7, SealingSound DEF Sound
<1> HIDE DEF t
<1>9. u.blocks = s.blocks \o chunks /\ Pending(u) = {}
  BY <1>8, ClearedFields
<1> HIDE DEF u
<1>10. StoreOK(u, {})
  <2>1. StoreOK(f.store, {})
    BY <1>1, FlushEffect
  <2> QED  BY <1>6, <2>1
<1>11. s.blocks \in Seq(Seq(Row)) /\ n \in Nat
  <2>1. s.blocks \in Seq(Seq(Row))
    BY <1>1 DEF Store
  <2> QED  BY <2>1
<1>12. ASSUME NEW k
       PROVE  /\ \A c, i : At(s.blocks, c, i, k) => At(u.blocks, c, i, k) /\ u.blocks[c] = s.blocks[c]
              /\ \A c, i : At(chunks, c, i, k) =>
                    At(u.blocks, n + c, i, k) /\ u.blocks[n + c] = chunks[c]
              /\ \A c, i : At(u.blocks, c, i, k) =>
                    At(s.blocks, c, i, k) \/ (c > n /\ At(chunks, c - n, i, k))
  <2> DEFINE b == s.blocks \o chunks
  <2>1. /\ \A c, i : At(s.blocks, c, i, k) => At(b, c, i, k) /\ b[c] = s.blocks[c]
        /\ \A c, i : At(chunks, c, i, k) => At(b, n + c, i, k) /\ b[n + c] = chunks[c]
        /\ \A c, i : At(b, c, i, k) => At(s.blocks, c, i, k) \/ (c > n /\ At(chunks, c - n, i, k))
    BY <1>2, <1>11, JoinedRows, Zenon
  <2>2. u.blocks = b
    BY <1>9
  <2> HIDE DEF b, n
  <2> QED  BY <2>1, <2>2, Zenon
<1> HIDE DEF n
<1>13. ASSUME NEW c, NEW i, NEW d, NEW j, NEW k, At(u.blocks, c, i, k), At(u.blocks, d, j, k)
       PROVE  c = d /\ i = j
  <2>1. At(s.blocks, c, i, k) \/ (c > n /\ At(chunks, c - n, i, k))
    BY <1>12, <1>13
  <2>2. At(s.blocks, d, j, k) \/ (d > n /\ At(chunks, d - n, j, k))
    BY <1>12, <1>13
  <2>3. CASE At(s.blocks, c, i, k) /\ At(s.blocks, d, j, k)
    BY <2>3 DEF Fresh
  <2>4. CASE At(chunks, c - n, i, k) /\ At(chunks, d - n, j, k)
    <3>1. c - n = d - n /\ i = j
      BY <1>2, <2>4
    <3>2. c \in Int /\ d \in Int
      <4>1. u.blocks \in Seq(Seq(Row))
        BY <1>10 DEF StoreOK, Sound, AllSealed
      <4>2. Len(u.blocks) \in Nat
        BY <4>1
      <4> QED  BY <1>13, <4>2 DEF At
    <3> QED  BY <1>11, <3>1, <3>2
  <2>5. CASE At(s.blocks, c, i, k) /\ At(chunks, d - n, j, k)
    BY <1>2, <2>5 DEF Fresh
  <2>6. CASE At(chunks, c - n, i, k) /\ At(s.blocks, d, j, k)
    BY <1>2, <2>6 DEF Fresh
  <2> QED  BY <2>1, <2>2, <2>3, <2>4, <2>5, <2>6
<1>14. ASSUME NEW c, NEW i, NEW k, At(u.blocks, c, i, k)
       PROVE  u.blocks[c][i].value # Empty
  <2>1. At(s.blocks, c, i, k) \/ (c > n /\ At(chunks, c - n, i, k))
    BY <1>12, <1>14
  <2>2. CASE At(s.blocks, c, i, k)
    BY <1>12, <2>2 DEF Fresh
  <2>3. CASE c > n /\ At(chunks, c - n, i, k)
    <3>1. chunks[c - n][i].value = s.pending[k] /\ k \in Pending(s)
      BY <1>2, <2>3
    <3>2. u.blocks[n + (c - n)] = chunks[c - n]
      BY <1>12, <2>3
    <3>3. c \in Int
      <4>1. u.blocks \in Seq(Seq(Row))
        BY <1>10 DEF StoreOK, Sound, AllSealed
      <4>2. Len(u.blocks) \in Nat
        BY <4>1
      <4> QED  BY <1>14, <4>2 DEF At
    <3>4. n + (c - n) = c
      BY <1>11, <3>3
    <3> QED  BY <3>1, <3>2, <3>4 DEF Fresh
  <2> QED  BY <2>1, <2>2, <2>3
<1>15. Fresh(u)
  BY <1>9, <1>10, <1>13, <1>14 DEF Fresh
<1>16. ASSUME NEW k \in Key PROVE k \in Known(u) <=> k \in Known(s)
  <2>1. k \in Known(u) => k \in Known(s)
    BY <1>2, <1>9, <1>12 DEF Known
  <2>2. k \in Known(s) => k \in Known(u)
    BY <1>2, <1>12 DEF Known
  <2> QED  BY <2>1, <2>2
<1>17. Known(u) = Known(s)
  BY <1>16 DEF Known
<1> QED  BY <1>6, <1>9, <1>15, <1>17

\* A put of a new key keeps a store fresh, whether it flushes or not.
LEMMA PutFresh ==
    ASSUME NEW s, Fresh(s), NEW k \in Key, k \notin Known(s), NEW v \in Value, v # Huge,
           NEW t, t = Put(s, k, v)
    PROVE  Fresh(t) /\ Known(t) = Known(s) \cup {k}
<1> DEFINE w == Written(s, k, v)
<1>1. s \in Store /\ StoreOK(s, {}) /\ StoreOK(s, {k}) /\ v \in Value \cup {Empty}
      /\ v # Empty /\ v # Absent
  BY KvStoreAssumption, OKForAny DEF Fresh, StoreOK, Sound
<1>2. /\ w.blocks = s.blocks /\ w.pending[k] = v
      /\ \A j \in Key : j # k => w.pending[j] = s.pending[j]
      /\ StoreOK(w, {})
  BY <1>1, WrittenFields, WrittenEffect
<1>3. t = w \/ t = FlushPending(w).store
  BY PutForm
<1> HIDE DEF w
<1>4. Pending(w) = Pending(s) \cup {k}
  BY <1>1, <1>2 DEF Pending
<1>5. \A c, i : ~ At(s.blocks, c, i, k)
  BY DEF Known
<1>6. \A j \in Pending(s) : j \in Key /\ j # k
  BY DEF Known, Pending
<1>7. Fresh(w)
  BY <1>1, <1>2, <1>4, <1>5, <1>6 DEF Fresh
<1>8. Known(w) = Known(s) \cup {k}
  BY <1>2, <1>4 DEF Known
<1> QED  BY <1>3, <1>7, <1>8, FlushFresh

\* What survives fits into a block.
LEMMA SurvivorsFit ==
    ASSUME NEW s, StoreOK(s, {}), Pending(s) = {}, NEW k \in Survivors(s)
    PROVE  k \in Key /\ Get(s, k) \in Value /\ Get(s, k) # Huge
<1>1. /\ Sound(s) /\ AllSealed(s.blocks) /\ k \in Key /\ s.index[k] # NoPlace
      /\ Get(s, k) \in Value /\ s.pending[k] = Absent
  BY ReadSealed DEF StoreOK, Sound, Survivors, Pending
<1> DEFINE c == s.index[k][1]
           i == s.index[k][2]
<1>2. At(s.blocks, c, i, k)
  BY <1>1 DEF Sound, Indexed
<1>3. Get(s, k) = Clean(s.blocks[c][i].value)
  BY <1>1, GetForm DEF SealedValue, RowAt
<1> HIDE DEF c, i
<1>4. s.blocks[c][i].value # Huge
  BY <1>1, <1>2, RowTypes DEF At
<1> QED  BY <1>1, <1>3, <1>4, KvStoreAssumption DEF Clean

LEMMA PutBackFresh ==
    ASSUME NEW s, StoreOK(s, {}), Pending(s) = {}, NEW t, t = PutBack(New, s)
    PROVE  Fresh(t)
<1>1. PICK h, keys, n : Replay(s, h, keys, n)
  BY PutBackReplays
<1>2. /\ n \in Nat
      /\ \A i \in 1..n : keys[i] \in Survivors(s) /\ keys[i] \in Int
      /\ \A i, j \in 1..n : i < j => keys[i] < keys[j]
      /\ h[0] = New /\ t = h[n]
      /\ \A i \in 1..n : h[i] = Put(h[i - 1], keys[i], Get(s, keys[i]))
  BY <1>1, FinitelyManySurvivors DEF Replay
<1> DEFINE T == {i \in 0..n : Fresh(h[i]) /\ \A k \in Known(h[i]) : \E j \in 1..i : keys[j] = k}
<1>3. 0 \in T
  <2>1. /\ New.blocks = << >> /\ Pending(New) = {} /\ StoreOK(New, {})
        /\ 1..Len(<< >>) = {}
    BY EmptyStore, NewOK
  <2>2. Fresh(New) /\ Known(New) = {}
    BY <2>1 DEF Fresh, Known, At
  <2> QED  BY <1>2, <2>2
<1>4. \A i \in 1..n : i - 1 \in T => i \in T
  <2> SUFFICES ASSUME NEW i \in 1..n, i - 1 \in T PROVE i \in T
    OBVIOUS
  <2> DEFINE k == keys[i]
             v == Get(s, k)
             a == h[i - 1]
  <2>1. i \in 0..n /\ h[i] = Put(a, k, v) /\ k \in Int
    BY <1>2
  <2>2. k \in Key /\ v \in Value /\ v # Huge
    BY <1>2, SurvivorsFit
  <2>3. Fresh(a) /\ \A m \in Known(a) : \E j \in 1..(i - 1) : keys[j] = m
    OBVIOUS
  <2>4. k \notin Known(a)
    <3> SUFFICES ASSUME k \in Known(a) PROVE FALSE
      OBVIOUS
    <3>1. PICK j \in 1..(i - 1) : keys[j] = k
      BY <2>3
    <3>2. j \in 1..n /\ j < i
      BY <1>2
    <3> QED  BY <1>2, <2>1, <3>1, <3>2
  <2>5. Fresh(h[i]) /\ Known(h[i]) = Known(a) \cup {k}
    <3> HIDE DEF k, v, a
    <3> QED  BY <2>1, <2>2, <2>3, <2>4, PutFresh
  <2>6. \A m \in Known(h[i]) : \E j \in 1..i : keys[j] = m
    <3> SUFFICES ASSUME NEW m \in Known(h[i]) PROVE \E j \in 1..i : keys[j] = m
      OBVIOUS
    <3>1. 1..(i - 1) \subseteq 1..i /\ i \in 1..i
      BY <1>2
    <3>2. m \in Known(a) \/ m = k
      BY <2>5
    <3> QED  BY <2>3, <3>1, <3>2
  <2> QED  BY <2>1, <2>5, <2>6
<1>5. n \in T
  <2>1. \A i \in 0..n : i \in T
    <3>1. n \in Nat
      BY <1>2
    <3> HIDE DEF T
    <3> QED  BY <3>1, <1>3, <1>4, UpTo
  <2> HIDE DEF T
  <2> QED  BY <1>2, <2>1
<1> QED  BY <1>2, <1>5

LEMMA CompactFresh ==
    ASSUME NEW s, StoreOK(s, {}), FlushPending(s).ok, NEW t, t = Compact(s)
    PROVE  Fresh(t) /\ Pending(t) = {}
<1> DEFINE f == FlushPending(s)
           u == PutBack(New, f.store)
<1>1. StoreOK(f.store, {}) /\ Pending(f.store) = {}
  BY FlushEffect
<1>2. t = FlushPending(u).store
  BY Zenon DEF Compact
<1>3. Fresh(u)
  <2> HIDE DEF f
  <2> QED  BY <1>1, PutBackFresh
<1> HIDE DEF u
<1> QED  BY <1>2, <1>3, FlushFresh

\* A one-to-one function onto T counts T.
LEMMA SameSize ==
    ASSUME NEW S, NEW T, IsFiniteSet(S), NEW f \in [S -> T],
           \A x, y \in S : f[x] = f[y] => x = y, \A z \in T : \E x \in S : f[x] = z
    PROVE  IsFiniteSet(T) /\ Cardinality(T) = Cardinality(S)
<1>1. f \in Injection(S, T)
  BY Zenon DEF Injection, IsInjective
<1>2. f \in Surjection(S, T)
  BY Zenon DEF Surjection
<1>3. ExistsBijection(S, T)
  BY <1>1, <1>2, Zenon DEF ExistsBijection, Bijection
<1> QED  BY <1>3, FS_Bijection, Zenon

LEMMA CountTo ==
    ASSUME NEW n \in Nat
    PROVE  IsFiniteSet(1..n) /\ Cardinality(1..n) = n
<1>1. 1 \in Int /\ n \in Int /\ (IF 1 > n THEN 0 ELSE n - 1 + 1) = n
  OBVIOUS
<1>2. IsFiniteSet(1..n) /\ Cardinality(1..n) = IF 1 > n THEN 0 ELSE n - 1 + 1
  BY <1>1, FS_Interval, Zenon
<1> QED  BY <1>1, <1>2

Joins(S, a, b, q) ==
    /\ q \in Seq(S) /\ Len(q) = Len(a) + Len(b)
    /\ Len(a) \in Nat /\ Len(b) \in Nat
    /\ \A i \in 1..Len(a) : q[i] = a[i]
    /\ \A i \in 1..Len(b) : q[Len(a) + i] = b[i]

LEMMA Concatenated ==
    ASSUME NEW S, NEW a \in Seq(S), NEW b \in Seq(S)
    PROVE  Joins(S, a, b, a \o b)
BY DEF Joins

\* Of a block without tombstones KvIter yields every row.
AllOf(block, r) ==
    /\ r \in Seq(Row) /\ Len(r) = Len(block)
    /\ \A i \in 1..Len(r) : \E j \in 1..Len(block) : r[i] = block[j]
    /\ \A j \in 1..Len(block) : \E i \in 1..Len(r) : r[i] = block[j]

LEMMA AllLive ==
    ASSUME NEW block \in Seq(Row), \A i \in 1..Len(block) : block[i].value # Empty
    PROVE  AllOf(block, LiveRows(block))
<1> DEFINE r == LiveRows(block)
<1> DEFINE A == {i \in 1..Len(block) : block[i].value # Empty}
           n == Len(block)
           a == Ascending(A)
<1>1. n \in Nat /\ A = 1..n
  OBVIOUS
<1>2. A \in SUBSET Int /\ IsFiniteSet(A) /\ Cardinality(A) = n
  <2>1. IsFiniteSet(1..n) /\ Cardinality(1..n) = n
    BY <1>1, CountTo
  <2>2. 1..n \in SUBSET Int
    OBVIOUS
  <2> HIDE DEF A
  <2> QED  BY <1>1, <2>1, <2>2
<1>3. /\ a \in [1..n -> A]
      /\ \A x \in A : \E i \in 1..n : a[i] = x
  <2> HIDE DEF A
  <2> QED  BY <1>2, AscendingExists
<1>4. r = [i \in DOMAIN a |-> block[a[i]]]
  BY Zenon DEF LiveRows
<1> HIDE DEF A, a, r
<1>5. DOMAIN a = 1..n /\ \A i \in 1..n : a[i] \in 1..n
  BY <1>1, <1>3
<1>6. \A i \in 1..n : block[i] \in Row
  OBVIOUS
<1> HIDE DEF n
<1>7. r \in Seq(Row) /\ Len(r) = n /\ \A i \in 1..n : r[i] = block[a[i]]
  BY <1>1, <1>4, <1>5, <1>6
<1>8. \A j \in 1..n : \E i \in 1..n : a[i] = j
  BY <1>1, <1>3
<1>9. \A i \in 1..n : \E j \in 1..n : r[i] = block[j]
  BY <1>5, <1>7
<1>10. \A j \in 1..n : \E i \in 1..n : r[i] = block[j]
  BY <1>7, <1>8
<1>11. AllOf(block, r)
  BY <1>7, <1>9, <1>10, Zenon DEF n, AllOf
<1> QED  BY <1>11 DEF r

IsWalk(f, s) ==
    f = [c \in 0..Len(s.blocks) |->
            IF c = 0 THEN PendingRows(s) ELSE f[c - 1] \o LiveRows(s.blocks[c])]

LEMMA IterForm ==
    ASSUME NEW s
    PROVE  Iter(s) = (CHOOSE f : IsWalk(f, s))[Len(s.blocks)]
BY Zenon DEF Iter, IsWalk

\* What KvIter has yielded when it comes to the end of a block.
Walk(s, h) ==
    /\ h[0] = PendingRows(s)
    /\ \A c \in 1..Len(s.blocks) : h[c] = h[c - 1] \o LiveRows(s.blocks[c])
    /\ Iter(s) = h[Len(s.blocks)]

LEMMA IterWalks ==
    ASSUME NEW s, s.blocks \in Seq(Seq(Row)), PendingRows(s) \in Seq(Row),
           \A c \in 1..Len(s.blocks) : LiveRows(s.blocks[c]) \in Seq(Row)
    PROVE  \E h : Walk(s, h)
<1> DEFINE n == Len(s.blocks)
           A == Seq(Row)
           e == PendingRows(s)
           F == [c \in 1..n |-> [q \in A |-> q \o LiveRows(s.blocks[c])]]
<1>1. n \in Nat
  OBVIOUS
<1>2. \A c \in 1..n : \A q \in A : q \o LiveRows(s.blocks[c]) \in A
  OBVIOUS
<1>3. F \in [1..n -> [A -> A]]
  <2>1. \A c \in 1..n : [q \in A |-> q \o LiveRows(s.blocks[c])] \in [A -> A]
    <3> HIDE DEF A, n
    <3> QED  BY <1>2
  <2> HIDE DEF A, n
  <2> QED  BY <2>1
<1>4. e \in A
  OBVIOUS
<1> HIDE DEF A, e
<1>5. PICK f \in [0..n -> A] : f[0] = e /\ \A i \in 1..n : f[i] = F[i][f[i - 1]]
  <2>1. Recursion(A, e, n, F)
    <3> HIDE DEF F, n
    <3> QED  BY <1>1, <1>3, <1>4, StepByStep, Zenon
  <2> HIDE DEF F, n
  <2> QED  BY <2>1, Zenon DEF Recursion
<1>6. \A i \in 1..n : f[i] = f[i - 1] \o LiveRows(s.blocks[i])
  <2> SUFFICES ASSUME NEW i \in 1..n PROVE f[i] = f[i - 1] \o LiveRows(s.blocks[i])
    OBVIOUS
  <2>1. i - 1 \in 0..n
    BY <1>1
  <2>2. f[i - 1] \in A
    BY <1>5, <2>1
  <2>3. F[i][f[i - 1]] = f[i - 1] \o LiveRows(s.blocks[i])
    <3> HIDE DEF n
    <3> QED  BY <2>2
  <2> HIDE DEF F
  <2> QED  BY <1>5, <2>3
<1> HIDE DEF F
<1>7. IsWalk(f, s)
  <2> DEFINE g(i) == IF i = 0 THEN e ELSE f[i - 1] \o LiveRows(s.blocks[i])
  <2>1. \A i \in 0..n : f[i] = g(i)
    <3> SUFFICES ASSUME NEW i \in 0..n PROVE f[i] = g(i)
      OBVIOUS
    <3>1. i = 0 \/ i \in 1..n
      BY <1>1
    <3> QED  BY <1>5, <1>6, <3>1
  <2>2. f = [i \in 0..n |-> f[i]]
    BY <1>5
  <2>3. f = [i \in 0..n |-> g(i)]
    <3> HIDE DEF g
    <3> QED  BY <2>1, <2>2
  <2> QED  BY <2>3 DEF IsWalk, e
<1> DEFINE h == CHOOSE x : IsWalk(x, s)
<1>8. IsWalk(h, s)
  BY <1>7
<1>9. Iter(s) = h[n]
  BY IterForm
<1> HIDE DEF h
<1>10. \A i \in 0..n : h[i] = IF i = 0 THEN e ELSE h[i - 1] \o LiveRows(s.blocks[i])
  BY <1>8 DEF IsWalk, e
<1>11. 0 \in 0..n /\ \A i \in 1..n : i \in 0..n /\ i # 0
  BY <1>1
<1>12. h[0] = e /\ \A i \in 1..n : h[i] = h[i - 1] \o LiveRows(s.blocks[i])
  BY <1>10, <1>11
<1> QED  BY <1>9, <1>12 DEF Walk, e

\* The rows of the first m blocks.
RowsTo(s, m) == {r \in Row : \E c, i : In(s.blocks, c, i) /\ c <= m /\ s.blocks[c][i] = r}

\* The iteration over a fresh store with nothing pending yields its rows once.
LEMMA IterRows ==
    ASSUME NEW s, Fresh(s), Pending(s) = {}
    PROVE  /\ IsFiniteSet(RowsTo(s, Len(s.blocks)))
           /\ ToSet(Iter(s)) = RowsTo(s, Len(s.blocks))
           /\ Len(Iter(s)) = Cardinality(RowsTo(s, Len(s.blocks)))
<1> DEFINE n == Len(s.blocks)
<1>1. /\ s \in Store /\ Ordered(s) /\ AllSealed(s.blocks) /\ s.blocks \in Seq(Seq(Row)) /\ n \in Nat
      /\ \A c \in 1..n : s.blocks[c] \in Seq(Row) /\ Len(s.blocks[c]) \in Nat
  <2>1. s \in Store /\ Ordered(s) /\ AllSealed(s.blocks)
    BY DEF Fresh, StoreOK, Sound
  <2>2. s.blocks \in Seq(Seq(Row))
    BY <2>1 DEF AllSealed
  <2> QED  BY <2>1, <2>2
<1>2. \A c \in 1..n : \A i \in 1..Len(s.blocks[c]) :
         At(s.blocks, c, i, s.blocks[c][i].key) /\ s.blocks[c][i].value # Empty /\ s.blocks[c][i] \in Row
  BY <1>1, RowTypes DEF Fresh, At
<1>3. PendingRows(s) \in Seq(Row) /\ Len(PendingRows(s)) = 0
  <2>1. /\ PendingRows(s) \in Seq(Row)
        /\ \A i \in 1..Len(PendingRows(s)) : PendingRows(s)[i].key \in Pending(s)
    BY <1>1, PendingRowsOf, Zenon
  <2>2. \A i \in 1..Len(PendingRows(s)) : FALSE
    BY <2>1
  <2> QED  BY <2>1, <2>2
<1>4. \A c \in 1..n :
         /\ LiveRows(s.blocks[c]) \in Seq(Row) /\ Len(LiveRows(s.blocks[c])) = Len(s.blocks[c])
         /\ \A i \in 1..Len(s.blocks[c]) : \E j \in 1..Len(s.blocks[c]) : LiveRows(s.blocks[c])[i] = s.blocks[c][j]
         /\ \A j \in 1..Len(s.blocks[c]) : \E i \in 1..Len(s.blocks[c]) : LiveRows(s.blocks[c])[i] = s.blocks[c][j]
  <2> SUFFICES ASSUME NEW c \in 1..n
               PROVE  /\ LiveRows(s.blocks[c]) \in Seq(Row)
                      /\ Len(LiveRows(s.blocks[c])) = Len(s.blocks[c])
                      /\ \A i \in 1..Len(s.blocks[c]) : \E j \in 1..Len(s.blocks[c]) :
                            LiveRows(s.blocks[c])[i] = s.blocks[c][j]
                      /\ \A j \in 1..Len(s.blocks[c]) : \E i \in 1..Len(s.blocks[c]) :
                            LiveRows(s.blocks[c])[i] = s.blocks[c][j]
    OBVIOUS
  <2> DEFINE b == s.blocks[c]
             r == LiveRows(b)
  <2>1. b \in Seq(Row) /\ \A i \in 1..Len(b) : b[i].value # Empty
    BY <1>1, <1>2
  <2> HIDE DEF b
  <2>2. /\ r \in Seq(Row) /\ Len(r) = Len(b)
        /\ \A i \in 1..Len(r) : \E j \in 1..Len(b) : r[i] = b[j]
        /\ \A j \in 1..Len(b) : \E i \in 1..Len(r) : r[i] = b[j]
    <3>1. AllOf(b, r)
      BY <2>1, AllLive, Zenon
    <3> HIDE DEF r
    <3> QED  BY <3>1 DEF AllOf
  <2> QED  BY <2>2 DEF b
<1>5. PICK h : Walk(s, h)
  BY <1>1, <1>3, <1>4, IterWalks
<1> DEFINE Good(c) == /\ h[c] \in Seq(Row)
                      /\ IsFiniteSet(RowsTo(s, c))
                      /\ Len(h[c]) = Cardinality(RowsTo(s, c))
                      /\ \A r \in Row : r \in RowsTo(s, c) <=> \E i \in 1..Len(h[c]) : h[c][i] = r
           T == {c \in 0..n : Good(c)}
<1>6. 0 \in T
  <2>1. RowsTo(s, 0) = {}
    BY <1>1 DEF RowsTo, In
  <2>2. IsFiniteSet({}) /\ Cardinality({}) = 0
    BY FS_EmptySet
  <2>3. h[0] = PendingRows(s)
    BY <1>5 DEF Walk
  <2>4. 0 \in 0..n /\ 1..0 = {}
    BY <1>1
  <2>5. \A r \in Row : r \in RowsTo(s, 0) <=> \E i \in 1..Len(h[0]) : h[0][i] = r
    BY <1>3, <2>1, <2>3, <2>4
  <2>6. Good(0)
    BY <1>3, <2>1, <2>2, <2>3, <2>5
  <2> HIDE DEF Good
  <2> QED  BY <2>4, <2>6
<1>7. \A c \in 1..n : c - 1 \in T => c \in T
  <2> SUFFICES ASSUME NEW c \in 1..n, c - 1 \in T PROVE c \in T
    OBVIOUS
  <2> DEFINE b == s.blocks[c]
             q == h[c - 1]
             l == LiveRows(b)
             R == {r \in Row : \E i \in 1..Len(b) : b[i] = r}
             P == RowsTo(s, c - 1)
  <2>1. /\ q \in Seq(Row) /\ IsFiniteSet(P) /\ Len(q) = Cardinality(P)
        /\ \A r \in Row : r \in P <=> \E i \in 1..Len(q) : q[i] = r
    OBVIOUS
  <2>2. /\ b \in Seq(Row) /\ Len(b) \in Nat /\ \A i \in 1..Len(b) : b[i] \in Row
        /\ \A i, j \in 1..Len(b) : b[i] = b[j] => i = j
    <3>1. Distinct(b)
      BY <1>1 DEF AllSealed
    <3> QED  BY <1>1, <1>2, <3>1 DEF Distinct
  <2>3. h[c] = q \o l
    BY <1>5 DEF Walk
  <2>4. /\ l \in Seq(Row) /\ Len(l) = Len(b)
        /\ \A i \in 1..Len(b) : \E j \in 1..Len(b) : l[i] = b[j]
        /\ \A j \in 1..Len(b) : \E i \in 1..Len(b) : l[i] = b[j]
    BY <1>4
  <2>5. \A r \in Row : r \in RowsTo(s, c) <=> r \in P \/ r \in R
    <3> SUFFICES ASSUME NEW r \in Row PROVE r \in RowsTo(s, c) <=> r \in P \/ r \in R
      OBVIOUS
    <3>1. ASSUME r \in RowsTo(s, c) PROVE r \in P \/ r \in R
      <4>1. PICK d, i : In(s.blocks, d, i) /\ d <= c /\ s.blocks[d][i] = r
        BY <3>1 DEF RowsTo
      <4>2. d \in 1..n /\ i \in 1..Len(s.blocks[d])
        BY <4>1 DEF In
      <4>3. d = c \/ d <= c - 1
        BY <1>1, <4>1, <4>2
      <4> QED  BY <4>1, <4>2, <4>3 DEF RowsTo
    <3>2. ASSUME r \in P PROVE r \in RowsTo(s, c)
      <4>1. PICK d, i : In(s.blocks, d, i) /\ d <= c - 1 /\ s.blocks[d][i] = r
        BY <3>2 DEF RowsTo
      <4>2. d \in 1..n
        BY <4>1 DEF In
      <4>3. d <= c
        BY <1>1, <4>1, <4>2
      <4> QED  BY <4>1, <4>3 DEF RowsTo
    <3>3. ASSUME r \in R PROVE r \in RowsTo(s, c)
      <4>1. PICK i \in 1..Len(b) : b[i] = r
        BY <3>3
      <4>2. In(s.blocks, c, i) /\ c <= c
        BY <1>1 DEF In
      <4> QED  BY <4>1, <4>2 DEF RowsTo
    <3> HIDE DEF P, R
    <3> QED  BY <3>1, <3>2, <3>3
  <2>6. RowsTo(s, c) = P \cup R
    <3>1. P \subseteq Row /\ R \subseteq Row /\ RowsTo(s, c) \subseteq Row
      BY DEF RowsTo
    <3> HIDE DEF P, R
    <3> QED  BY <2>5, <3>1
  <2>7. P \cap R = {}
    <3> SUFFICES ASSUME NEW r \in P, r \in R PROVE FALSE
      OBVIOUS
    <3>1. PICK d, i : In(s.blocks, d, i) /\ d <= c - 1 /\ s.blocks[d][i] = r
      BY DEF RowsTo
    <3>2. PICK j \in 1..Len(b) : b[j] = r
      OBVIOUS
    <3>3. d \in 1..n /\ i \in 1..Len(s.blocks[d])
      BY <3>1 DEF In
    <3>4. At(s.blocks, d, i, r.key) /\ At(s.blocks, c, j, r.key)
      BY <1>2, <3>1, <3>2, <3>3
    <3>5. d = c
      BY <3>4 DEF Fresh
    <3> QED  BY <1>1, <3>1, <3>3, <3>5
  <2>8. IsFiniteSet(R) /\ Cardinality(R) = Len(b)
    <3> DEFINE S == 1..Len(b)
               f == [i \in S |-> b[i]]
    <3>1. IsFiniteSet(S) /\ Cardinality(S) = Len(b)
      BY <2>2, CountTo, Zenon
    <3>2. /\ f \in [S -> R] /\ \A x, y \in S : f[x] = f[y] => x = y
          /\ \A z \in R : \E x \in S : f[x] = z
      BY <2>2
    <3> HIDE DEF S, f, R
    <3>3. IsFiniteSet(R) /\ Cardinality(R) = Cardinality(S)
      BY <3>1, <3>2, SameSize, Zenon
    <3> QED  BY <3>1, <3>3
  <2> HIDE DEF P, R, q, l, b
  <2>9. IsFiniteSet(P \cup R) /\ Cardinality(P \cup R) = Cardinality(P) + Cardinality(R)
    <3>1. /\ IsFiniteSet(P \cup R)
          /\ Cardinality(P \cup R) = Cardinality(P) + Cardinality(R) - Cardinality(P \cap R)
      BY <2>1, <2>8, FS_Union
    <3>2. Cardinality(P \cap R) = 0
      BY <2>7, FS_EmptySet
    <3>3. Cardinality(P) \in Nat /\ Cardinality(R) \in Nat
      BY <2>1, <2>8, FS_CardinalityType
    <3> QED  BY <3>1, <3>2, <3>3
  <2> DEFINE m == Len(q)
             k == Len(b)
             p == q \o l
  <2>10. /\ p \in Seq(Row) /\ Len(p) = m + k /\ m \in Nat /\ k \in Nat
         /\ \A i \in 1..m : p[i] = q[i]
         /\ \A i \in 1..k : p[m + i] = l[i]
    <3>1. /\ q \o l \in Seq(Row) /\ Len(q \o l) = Len(q) + Len(l)
          /\ Len(q) \in Nat /\ Len(l) \in Nat
          /\ \A i \in 1..Len(q) : (q \o l)[i] = q[i]
          /\ \A i \in 1..Len(l) : (q \o l)[Len(q) + i] = l[i]
      <4>1. Joins(Row, q, l, q \o l)
        BY <2>1, <2>4, Concatenated, Zenon
      <4> QED  BY <4>1, Zenon DEF Joins
    <3>2. Len(l) = Len(b)
      BY <2>4
    <3> QED  BY <3>1, <3>2, Zenon
  <2>11. \A r \in Row : r \in R <=> \E i \in 1..k : l[i] = r
    BY <2>4 DEF R
  <2> HIDE DEF p
  <2>12. ASSUME NEW r \in Row
         PROVE  r \in RowsTo(s, c) <=> \E i \in 1..Len(p) : p[i] = r
    <3>1. ASSUME r \in RowsTo(s, c) PROVE \E i \in 1..Len(p) : p[i] = r
      <4>1. CASE r \in P
        <5>1. PICK i \in 1..m : q[i] = r
          BY <2>1, <4>1
        <5>2. i \in 1..Len(p) /\ p[i] = r
          <6> HIDE DEF m, k
          <6> QED  BY <2>10, <5>1
        <5> QED  BY <5>2
      <4>2. CASE r \in R
        <5>1. PICK i \in 1..k : l[i] = r
          BY <2>11, <4>2
        <5>2. m + i \in 1..Len(p) /\ p[m + i] = r
          <6> HIDE DEF m, k
          <6> QED  BY <2>10, <5>1
        <5> QED  BY <5>2
      <4> QED  BY <2>6, <3>1, <4>1, <4>2
    <3>2. ASSUME NEW i \in 1..Len(p), p[i] = r PROVE r \in RowsTo(s, c)
      <4>1. CASE i \in 1..m
        BY <2>1, <2>6, <2>10, <3>2, <4>1
      <4>2. CASE i \notin 1..m
        <5>1. i - m \in 1..k /\ m + (i - m) = i
          <6> HIDE DEF m, k
          <6> QED  BY <2>10, <4>2
        <5>2. l[i - m] = r
          <6> HIDE DEF m, k
          <6>1. p[m + (i - m)] = l[i - m]
            BY <2>10, <5>1
          <6> QED  BY <3>2, <5>1, <6>1
        <5> QED  BY <2>6, <2>11, <5>1, <5>2
      <4> QED  BY <4>1, <4>2
    <3> QED  BY <3>1, <3>2
  <2>13. h[c] = p
    BY <2>3 DEF p
  <2>14. Len(p) = Cardinality(RowsTo(s, c)) /\ IsFiniteSet(RowsTo(s, c))
    BY <2>1, <2>6, <2>8, <2>9, <2>10
  <2>15. c \in 0..n
    BY <1>1
  <2> QED  BY <2>10, <2>12, <2>13, <2>14, <2>15
<1>8. Good(n)
  <2>1. \A c \in 0..n : c \in T
    <3> HIDE DEF T, n
    <3> QED  BY <1>1, <1>6, <1>7, UpTo
  <2>2. n \in 0..n
    BY <1>1
  <2> HIDE DEF Good
  <2> QED  BY <2>1, <2>2
<1>9. Iter(s) = h[n]
  BY <1>5 DEF Walk
<1>10. ToSet(Iter(s)) = RowsTo(s, n)
  <2>1. DOMAIN h[n] = 1..Len(h[n]) /\ \A i \in 1..Len(h[n]) : h[n][i] \in Row
    BY <1>8
  <2>2. \A r \in RowsTo(s, n) : r \in Row
    BY DEF RowsTo
  <2> QED  BY <1>8, <1>9, <2>1, <2>2 DEF ToSet
<1> QED  BY <1>8, <1>9, <1>10

\* Those rows are what get finds, key by key, and the index counts them.
LEMMA FreshExact ==
    ASSUME NEW s, Fresh(s), Pending(s) = {}
    PROVE  /\ ToSet(Iter(s)) = Pairs(s)
           /\ Len(Iter(s)) = Cardinality(Pairs(s))
           /\ StoreLen(s) = Cardinality(Pairs(s))
<1> DEFINE n == Len(s.blocks)
           R == RowsTo(s, n)
           K == {k \in Key : s.index[k] # NoPlace}
           pair(k) == [key |-> k, value |-> Get(s, k)]
<1>1. /\ AllSealed(s.blocks) /\ Sound(s) /\ n \in Nat
      /\ \A k \in Key : Orphan(s, k) => k \in Pending(s)
      /\ \A k \in Key : s.pending[k] = Absent
  <2>1. AllSealed(s.blocks) /\ Sound(s) /\ \A k \in Key : Orphan(s, k) => k \in Pending(s)
    BY DEF Fresh, StoreOK, Sound
  <2>2. s.blocks \in Seq(Seq(Row))
    BY <2>1 DEF AllSealed
  <2>3. n \in Nat
    BY <2>2
  <2> QED  BY <2>1, <2>3 DEF Pending
<1>2. IsFiniteSet(R) /\ ToSet(Iter(s)) = R /\ Len(Iter(s)) = Cardinality(R)
  BY IterRows
<1>3. \A k \in Key \ K : Get(s, k) = Absent
  BY <1>1, GetForm DEF SealedValue, Clean
<1>4. \A k \in K : Get(s, k) # Absent /\ pair(k) \in R
  <2> SUFFICES ASSUME NEW k \in K PROVE Get(s, k) # Absent /\ pair(k) \in R
    OBVIOUS
  <2> DEFINE c == s.index[k][1]
             i == s.index[k][2]
  <2>1. At(s.blocks, c, i, k)
    BY <1>1 DEF Sound, Indexed
  <2>2. Get(s, k) = Clean(s.blocks[c][i].value)
    BY <1>1, GetForm DEF SealedValue, RowAt
  <2> HIDE DEF c, i
  <2>3. s.blocks[c][i].value # Empty
    BY <2>1 DEF Fresh
  <2>4. c \in 1..n /\ i \in 1..Len(s.blocks[c]) /\ s.blocks[c][i].key = k
    BY <2>1 DEF At
  <2>5. s.blocks[c][i] \in Row /\ s.blocks[c][i].value \in Value \cup {Empty}
    BY <1>1, <2>4, RowTypes
  <2>6. s.blocks[c][i] = [key |-> k, value |-> Get(s, k)]
    <3>1. Get(s, k) = s.blocks[c][i].value
      BY <2>2, <2>3 DEF Clean
    <3> QED  BY <2>4, <2>5, <3>1 DEF Row
  <2>7. In(s.blocks, c, i) /\ c <= n
    BY <1>1, <2>4 DEF In
  <2>8. s.blocks[c][i] \in R
    BY <2>5, <2>7 DEF RowsTo
  <2>9. Get(s, k) # Absent
    BY <2>2, <2>3, <2>5, KvStoreAssumption DEF Clean
  <2> HIDE DEF R
  <2> QED  BY <2>6, <2>8, <2>9
<1>5. \A r \in R : \E k \in K : pair(k) = r
  <2> SUFFICES ASSUME NEW r \in R PROVE \E k \in K : pair(k) = r
    OBVIOUS
  <2>1. PICK c, i : In(s.blocks, c, i) /\ s.blocks[c][i] = r
    BY DEF RowsTo
  <2>2. At(s.blocks, c, i, r.key) /\ r.key \in Key
    BY <1>1, <2>1, RowTypes DEF At, In
  <2> DEFINE k == r.key
  <2>3. k \in K
    BY <1>1, <2>2 DEF Orphan
  <2>4. At(s.blocks, s.index[k][1], s.index[k][2], k)
    BY <1>1, <2>3 DEF Sound, Indexed
  <2>5. s.index[k][1] = c /\ s.index[k][2] = i
    BY <2>2, <2>4 DEF Fresh
  <2>6. s.blocks[c][i].value # Empty
    BY <2>2 DEF Fresh
  <2>7. Get(s, k) = Clean(s.blocks[c][i].value)
    BY <1>1, <2>3, <2>5, GetForm DEF SealedValue, RowAt
  <2>8. Get(s, k) = r.value /\ r \in Row
    BY <2>1, <2>6, <2>7 DEF Clean, RowsTo
  <2>9. r = [key |-> r.key, value |-> r.value]
    BY <2>8 DEF Row
  <2>10. pair(k) = r
    BY <2>8, <2>9
  <2> QED  BY <2>3, <2>10
<1>6. Pairs(s) = R
  <2>1. \A x : x \in Pairs(s) <=> \E k \in K : x = pair(k)
    BY <1>3, <1>4 DEF Pairs
  <2> HIDE DEF R, K, pair
  <2> QED  BY <1>4, <1>5, <2>1
<1>7. IsFiniteSet(K) /\ Cardinality(K) = Cardinality(R)
  <2> DEFINE f == [k \in K |-> pair(k)]
  <2>1. \A x, y \in K : pair(x) = pair(y) => x = y
    <3>1. \A x : pair(x).key = x
      OBVIOUS
    <3> HIDE DEF pair
    <3> QED  BY <3>1
  <2> HIDE DEF R, K, pair
  <2>2. /\ f \in [K -> R] /\ \A x, y \in K : f[x] = f[y] => x = y
        /\ \A z \in R : \E x \in K : f[x] = z
    BY <1>4, <1>5, <2>1
  <2> HIDE DEF f
  <2>3. IsFiniteSet(K)
    <3>1. f \in Injection(K, R)
      BY <2>2, Zenon DEF Injection, IsInjective
    <3> QED  BY <1>2, <3>1, FS_Injection
  <2> QED  BY <2>2, <2>3, SameSize, Zenon
<1>8. StoreLen(s) = Cardinality(R)
  <2>1. Cardinality(Pending(s)) = 0
    BY FS_EmptySet
  <2>2. StoreLen(s) = 0 + Cardinality(K)
    BY <2>1 DEF StoreLen
  <2>3. Cardinality(K) \in Nat
    BY <1>7, FS_CardinalityType
  <2> HIDE DEF K, R
  <2> QED  BY <1>7, <2>2, <2>3
<1> QED  BY <1>2, <1>6, <1>8

-----------------------------------------------------------------------------
(* The theorems. *)

\* The places of the sealed rows of a key.
LEMMA PlacesOf ==
    ASSUME NEW s, AllSealed(s.blocks), NEW k, NEW p
    PROVE  p \in Places(s, k) <=> p = <<p[1], p[2]>> /\ At(s.blocks, p[1], p[2], k)
<1> DEFINE c == p[1]
           i == p[2]
<1>1. ASSUME p \in Places(s, k)
      PROVE  p = <<c, i>> /\ At(s.blocks, c, i, k)
  <2>1. /\ p \in (1..Len(s.blocks)) \X (1..RowsPerBlock)
        /\ i <= Len(s.blocks[c]) /\ RowAt(s, p).key = k
    BY <1>1 DEF Places, Slots
  <2>2. p = <<c, i>> /\ c \in 1..Len(s.blocks) /\ i \in 1..RowsPerBlock
    BY <2>1
  <2>3. s.blocks[c] \in Seq(Row)
    BY <2>2 DEF AllSealed
  <2>4. i \in 1..Len(s.blocks[c])
    BY <2>1, <2>2, <2>3, KvStoreAssumption
  <2> QED  BY <2>1, <2>2, <2>4, Zenon DEF At, RowAt
<1>2. ASSUME p = <<c, i>>, At(s.blocks, c, i, k)
      PROVE  p \in Places(s, k)
  <2>1. c \in 1..Len(s.blocks) /\ i \in 1..Len(s.blocks[c]) /\ s.blocks[c][i].key = k
    BY <1>2 DEF At
  <2>2. Len(s.blocks[c]) <= RowsPerBlock /\ Len(s.blocks[c]) \in Nat
    BY <2>1, RowTypes
  <2>3. i \in 1..RowsPerBlock /\ i <= Len(s.blocks[c])
    <3> DEFINE n == Len(s.blocks[c])
    <3>1. n \in Nat /\ n <= RowsPerBlock /\ i \in 1..n /\ RowsPerBlock \in Nat
      BY <2>1, <2>2, KvStoreAssumption
    <3> HIDE DEF n, i, c
    <3>2. i \in 1..RowsPerBlock /\ i <= n
      BY <3>1
    <3> QED  BY <3>2 DEF n
  <2>4. p \in (1..Len(s.blocks)) \X (1..RowsPerBlock)
    BY <1>2, <2>1, <2>3
  <2>5. p \in Slots(s)
    BY <2>3, <2>4 DEF Slots
  <2> QED  BY <2>1, <2>5 DEF Places, RowAt
<1> QED  BY <1>1, <1>2

LEMMA IndexIsNewest == IInv => IndexNewest
<1> SUFFICES ASSUME IInv, NEW k \in Key
             PROVE  /\ store.index[k] # NoPlace =>
                          /\ store.index[k] \in Places(store, k)
                          /\ \A p \in Places(store, k) : p[1] <= store.index[k][1]
                    /\ store.index[k] = NoPlace /\ Places(store, k) # {} => k \in Pending(store)
  BY DEF IndexNewest
<1>1. /\ AllSealed(store.blocks) /\ store.index[k] \in Place
      /\ Indexed(store.blocks, store.index[k], k)
      /\ Orphan(store, k) => k \in Pending(store)
  BY DEF IInv, StoreOK, Sound, Store
<1>2. ASSUME store.index[k] # NoPlace
      PROVE  /\ store.index[k] \in Places(store, k)
             /\ \A p \in Places(store, k) : p[1] <= store.index[k][1]
  BY <1>1, <1>2, PlacesOf DEF Indexed, Place
<1>3. ASSUME store.index[k] = NoPlace, NEW p \in Places(store, k)
      PROVE  k \in Pending(store)
  <2>1. At(store.blocks, p[1], p[2], k)
    BY <1>1, PlacesOf
  <2> QED  BY <1>1, <1>3, <2>1 DEF Orphan
<1> QED  BY <1>2, <1>3

LEMMA PendingIsOrdered == IInv => PendingOrdered
<1> SUFFICES ASSUME IInv PROVE PendingOrdered
  OBVIOUS
<1> DEFINE o == store.pending_order
<1>1. /\ o \in Seq(Key) /\ DOMAIN o = 1..Len(o)
      /\ \A i, j \in 1..Len(o) : o[i] = o[j] => i = j
      /\ \A k \in Key : k \in Pending(store) <=> \E i \in 1..Len(o) : o[i] = k
  BY DEF IInv, StoreOK, Sound, Store, Ordered
<1>2. IsInjective(o)
  BY <1>1 DEF IsInjective
<1>3. Pending(store) \subseteq Key /\ \A i \in 1..Len(o) : o[i] \in Key
  BY <1>1 DEF Pending
<1>4. ToSet(o) = Pending(store)
  BY <1>1, <1>3 DEF ToSet
<1> QED  BY <1>2, <1>4 DEF PendingOrdered

LEMMA StoreTyped == IInv => TypeOK
<1> SUFFICES ASSUME IInv PROVE TypeOK
  OBVIOUS
<1>1. /\ store \in Store /\ segment \in [blocks : Seq(Seq(Row)), sealed : BOOLEAN]
      /\ writer = Absent \/ writer \in Seq(Seq(Row))
  BY DEF IInv, StoreOK, Sound, SegmentOK
<1>2. \A k \in Key : store.index[k] = NoPlace \/ store.index[k] \in Slots(store)
  BY IndexIsNewest DEF IndexNewest, Places
<1> QED  BY <1>1, <1>2 DEF TypeOK, Store

\* Whatever is put, deleted, flushed, compacted, persisted or restarted, and
\* whichever flush or write fails: the index leads to the newest sealed row of
\* every key, a key whose rows are not indexed has its tombstone pending, and
\* the pending keys are queued once each.
THEOREM AlwaysStoreSound == Spec => []StoreSound
<1>1. IInv /\ [Next]_vars => IInv'
  BY StoreStep
<1>2. IInv => StoreSound
  BY StoreTyped, IndexIsNewest, PendingIsOrdered DEF StoreSound
<1> QED  BY InitIInv, <1>1, <1>2, PTL DEF Spec

\* After every compaction whose first flush found room for the pending rows,
\* the second flush succeeds too: iteration yields each live pair once and
\* nothing else, and len counts them.
THEOREM CompactionIsExact == Spec => CompactExact
<1>1. ASSUME IInv, DoCompact, FlushPending(store).ok
      PROVE  /\ ToSet(Iter(store')) = Pairs(store)
             /\ Len(Iter(store')) = Cardinality(Pairs(store))
             /\ StoreLen(store') = Cardinality(Pairs(store))
  <2> DEFINE t == Compact(store)
  <2>1. store' = t
    BY <1>1 DEF DoCompact
  <2>2. Fresh(t) /\ Pending(t) = {}
    BY <1>1, CompactFresh DEF IInv
  <2>3. \A k \in Key : Get(t, k) = Get(store, k)
    BY <1>1, CompactEffect DEF IInv
  <2> HIDE DEF t
  <2>4. Pairs(t) = Pairs(store)
    BY <2>3 DEF Pairs
  <2>5. /\ ToSet(Iter(t)) = Pairs(t) /\ Len(Iter(t)) = Cardinality(Pairs(t))
        /\ StoreLen(t) = Cardinality(Pairs(t))
    BY <2>2, FreshExact
  <2> QED  BY <2>1, <2>4, <2>5
<1>2. IInv /\ [Next]_vars => IInv'
  BY StoreStep
<1>3. IInv => [DoCompact /\ FlushPending(store).ok =>
                  /\ ToSet(Iter(store')) = Pairs(store)
                  /\ Len(Iter(store')) = Cardinality(Pairs(store))
                  /\ StoreLen(store') = Cardinality(Pairs(store))]_vars
  BY <1>1
<1> QED  BY InitIInv, <1>2, <1>3, PTL DEF Spec, CompactExact

\* A step of the store is a step of the map, or changes neither it nor its
\* saved copy.
LEMMA MapStepIsNext == MapStep => [Map!Next]_<<Map1, Saved>>
<1> SUFFICES ASSUME MapStep PROVE [Map!Next]_<<Map1, Saved>>
  OBVIOUS
<1>1. CASE Map1' = Map1 /\ Saved' = Saved
  BY <1>1
<1>2. CASE \E k \in Key, x \in Value \cup {Absent} : Map1' = [Map1 EXCEPT ![k] = x] /\ Saved' = Saved
  <2>1. PICK k \in Key, x \in Value \cup {Absent} : Map1' = [Map1 EXCEPT ![k] = x] /\ Saved' = Saved
    BY <1>2
  <2>2. CASE x \in Value
    <3>1. Map!Put(k, x)
      BY <2>1 DEF Map!Put, Map1, Saved
    <3> QED  BY <2>2, <3>1 DEF Map!Next
  <2>3. CASE x = Absent
    <3>1. Map!Delete(k)
      BY <2>1, <2>3 DEF Map!Delete, Map1, Saved
    <3> QED  BY <3>1 DEF Map!Next
  <2> QED  BY <2>2, <2>3
<1>3. CASE Saved' = Map!NoKeys /\ Map1' = Map1
  BY <1>3 DEF Map!Next, Map!BeginSave, Map1, Saved
<1>4. CASE Saved' = Map1 /\ Map1' = Map1
  BY <1>4 DEF Map!Next, Map!EndSave, Map1, Saved
<1>5. CASE Map1' = Saved /\ Saved' = Saved
  BY <1>5 DEF Map!Next, Map!Restart, Map1, Saved
<1> QED  BY <1>1, <1>2, <1>3, <1>4, <1>5 DEF MapStep

\* The store is a map with a saved copy: put and delete write one key of it;
\* flushing, sealing, compaction, and every failure of theirs, change nothing
\* that is read; persist_to_segment replaces the saved copy in two steps, and a
\* restart at any moment reads back that copy.
THEOREM Refinement == Spec => ImplementsMap
<1>1. Init => Map!Init
  <2> SUFFICES ASSUME Init PROVE Map!Init
    OBVIOUS
  <2>1. store = New /\ ~ segment.sealed
    BY DEF Init
  <2>2. Saved = Map!NoKeys
    BY <2>1, SavedOfUnsealed DEF Saved
  <2>3. Map1 = Map!NoKeys
    <3> DEFINE o(k) == Get(store, k)
    <3>1. \A k \in Key : o(k) = Absent
      BY <2>1, NewOK
    <3>2. Map1 = [k \in Key |-> o(k)]
      BY DEF Map1
    <3> HIDE DEF o
    <3> QED  BY <3>1, <3>2 DEF Map!NoKeys
  <2> QED  BY <2>2, <2>3 DEF Map!Init, Map1, Saved
<1>2. IInv /\ [Next]_vars => IInv' /\ [Map!Next]_<<Map1, Saved>>
  BY StoreStep, MapStepIsNext
<1>3. IInv /\ [Next]_vars => IInv'
  BY <1>2
<1> QED  BY InitIInv, <1>1, <1>2, <1>3, PTL DEF Spec, ImplementsMap, Map!Spec, Map1, Saved
=============================================================================
