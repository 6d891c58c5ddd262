-------------------------- MODULE ReplicationProofs --------------------------
(***************************************************************************)
(* Proofs about replication: the Raft cluster, the shipping of the log, and*)
(* the transport with its failover, routing, simulated network and I/O     *)
(* queue, for any sets of nodes and threads and any number of calls.       *)
(***************************************************************************)
EXTENDS RaftCluster, WalShipping, Transport, SequenceTheorems, FiniteSetTheorems, WellFoundedInduction, TLAPS

-----------------------------------------------------------------------------
(* Numbers and folds. *)

\* A set of numbers with an element has a least one.
LEMMA LeastNat ==
    ASSUME NEW S \in SUBSET Nat, S # {}
    PROVE  \E n \in S : \A m \in S : n <= m
<1> DEFINE R == {p \in Nat \X Nat : p[1] < p[2]}
<1>1. IsWellFoundedOn(R, Nat)
  BY NatLessThanWellFounded DEF OpToRel
<1>2. \A x, y \in Nat : x < y => <<x, y>> \in R
  OBVIOUS
<1> HIDE DEF R
<1>3. PICK x \in S : \A y \in S : ~(<<y, x>> \in R)
  BY <1>1, WFMin, Zenon
<1>4. \A y \in S : x \in Nat /\ y \in Nat /\ ~(y < x)
  BY <1>2, <1>3
<1> QED  BY <1>3, <1>4

\* A set of numbers below a bound has a greatest one, and Max names it.
LEMMA MaxOfBounded ==
    ASSUME NEW S \in SUBSET Int, S # {}, NEW b \in Int, \A x \in S : x <= b
    PROVE  Max(S) \in S /\ \A x \in S : x <= Max(S)
<1> DEFINE D == {b - x : x \in S}
<1>1. D \in SUBSET Nat /\ D # {}
  <2>1. \A x \in S : b - x \in Nat  OBVIOUS
  <2> QED  BY <2>1
<1>2. PICK d \in D : \A e \in D : d <= e
  <2> HIDE DEF D
  <2> QED  BY <1>1, LeastNat
<1>3. PICK x \in S : d = b - x
  BY <1>2
<1>4. \A y \in S : x >= y
  <2> TAKE y \in S
  <2>1. b - y \in D  OBVIOUS
  <2>2. b - x <= b - y  BY <1>2, <1>3, <2>1
  <2>3. x \in Int /\ y \in Int  OBVIOUS
  <2> QED  BY <2>2, <2>3
<1>5. \E z \in S : \A y \in S : z >= y
  BY <1>4
<1>6. Max(S) \in S /\ \A y \in S : Max(S) >= y
  BY <1>5 DEF Max
<1>7. \A y \in S : y \in Int /\ Max(S) \in Int
  BY <1>6
<1> QED  BY <1>6, <1>7

Chosen(s) == CHOOSE x \in s : TRUE

\* The equation of FoldSet for the acknowledgements of an entry.
Folded(it, S, n, index) ==
    it = [s \in SUBSET S |-> IF s = {} THEN n
                             ELSE Acknowledge(it[s \ {Chosen(s)}], Chosen(s), index)]

\* The equation has a solution: for sets of at most m followers, whatever m.
FoldedUpTo(it, S, n, index, m) ==
    \A s \in SUBSET S : Cardinality(s) <= m =>
        it[s] = IF s = {} THEN n ELSE Acknowledge(it[s \ {Chosen(s)}], Chosen(s), index)

LEMMA FoldExists ==
    ASSUME NEW S, IsFiniteSet(S), NEW n, NEW index
    PROVE  \E it : Folded(it, S, n, index)
<1>1. ASSUME NEW s \in SUBSET S, s # {}
      PROVE  /\ Chosen(s) \in s
             /\ s \ {Chosen(s)} \in SUBSET S
             /\ Cardinality(s) \in Nat
             /\ Cardinality(s \ {Chosen(s)}) = Cardinality(s) - 1
  <2>1. Chosen(s) \in s  BY <1>1 DEF Chosen
  <2>2. IsFiniteSet(s)  BY FS_Subset
  <2> QED  BY <2>1, <2>2, FS_RemoveElement, FS_CardinalityType
<1> DEFINE Good(m) == \E it : it = [s \in SUBSET S |-> it[s]] /\ FoldedUpTo(it, S, n, index, m)
           Bad == {m \in Nat : ~Good(m)}
<1>2. \A m \in Nat : Good(m)
  <2> SUFFICES ASSUME Bad # {} PROVE FALSE
    OBVIOUS
  <2>1. PICK m \in Bad : \A k \in Bad : m <= k
    <3> HIDE DEF Good
    <3>1. Bad \in SUBSET Nat  OBVIOUS
    <3> HIDE DEF Bad
    <3> QED  BY <3>1, LeastNat
  <2>2. CASE m = 0
    <3> DEFINE it == [s \in SUBSET S |-> n]
    <3>1. FoldedUpTo(it, S, n, index, 0)
      <4> SUFFICES ASSUME NEW s \in SUBSET S, Cardinality(s) <= 0 PROVE s = {}
        BY DEF FoldedUpTo
      <4> QED  BY FS_Subset, FS_EmptySet, FS_CardinalityType
    <3>2. it = [s \in SUBSET S |-> it[s]]  OBVIOUS
    <3> HIDE DEF it
    <3> QED  BY <3>1, <3>2, <2>1, <2>2
  <2>3. CASE m # 0
    <3>1. m - 1 \in Nat /\ Good(m - 1)
      <4>1. m \in Nat  BY <2>1
      <4>2. m - 1 \in Nat /\ ~(m <= m - 1)  BY <4>1, <2>3
      <4> HIDE DEF Good
      <4> QED  BY <4>2, <2>1
    <3>2. PICK f : f = [s \in SUBSET S |-> f[s]] /\ FoldedUpTo(f, S, n, index, m - 1)
      BY <3>1
    <3> DEFINE g == [s \in SUBSET S |->
                       IF s = {} THEN n ELSE Acknowledge(f[s \ {Chosen(s)}], Chosen(s), index)]
    <3>3. \A s \in SUBSET S : Cardinality(s) <= m - 1 => g[s] = f[s]
      BY <3>2 DEF FoldedUpTo
    <3>4. FoldedUpTo(g, S, n, index, m)
      <4> SUFFICES ASSUME NEW s \in SUBSET S, Cardinality(s) <= m, s # {}
                   PROVE  g[s] = Acknowledge(g[s \ {Chosen(s)}], Chosen(s), index)
        BY DEF FoldedUpTo
      <4>1. /\ s \ {Chosen(s)} \in SUBSET S
            /\ Cardinality(s \ {Chosen(s)}) <= m - 1
        BY <1>1, <3>1
      <4>2. g[s \ {Chosen(s)}] = f[s \ {Chosen(s)}]
        <5> HIDE DEF g
        <5> QED  BY <4>1, <3>3
      <4>3. g[s] = Acknowledge(f[s \ {Chosen(s)}], Chosen(s), index)  OBVIOUS
      <4> HIDE DEF g
      <4> QED  BY <4>2, <4>3
    <3>5. g = [s \in SUBSET S |-> g[s]]  OBVIOUS
    <3> HIDE DEF g
    <3> QED  BY <3>4, <3>5, <2>1
  <2> QED  BY <2>2, <2>3
<1>3. Cardinality(S) \in Nat /\ \A s \in SUBSET S : Cardinality(s) <= Cardinality(S)
  BY FS_Subset, FS_CardinalityType
<1>4. PICK it : it = [s \in SUBSET S |-> it[s]] /\ FoldedUpTo(it, S, n, index, Cardinality(S))
  BY <1>2, <1>3
<1>5. \A s \in SUBSET S : it[s] = IF s = {} THEN n
                                  ELSE Acknowledge(it[s \ {Chosen(s)}], Chosen(s), index)
  BY <1>3, <1>4 DEF FoldedUpTo
<1>6. Folded(it, S, n, index)
  BY <1>4, <1>5, Zenon DEF Folded
<1> QED  BY <1>6

\* AcknowledgedBy is the value of a solution.
LEMMA FoldIsSolution ==
    ASSUME NEW S, IsFiniteSet(S), NEW n, NEW index
    PROVE  \E it : /\ Folded(it, S, n, index)
                   /\ AcknowledgedBy(n, S, index) = it[S]
<1> DEFINE Eq(it) == it = [s \in SUBSET S |-> IF s = {} THEN n
                             ELSE Acknowledge(it[s \ {CHOOSE x \in s : TRUE}], CHOOSE x \in s : TRUE, index)]
<1>1. \E it : Eq(it)
  <2>1. \E it : Folded(it, S, n, index)
    BY FoldExists
  <2> QED  BY <2>1 DEF Folded, Chosen
<1>2. Eq(CHOOSE it : Eq(it))
  <2> HIDE DEF Eq
  <2> QED  BY <1>1, Zenon
<1>3. AcknowledgedBy(n, S, index) = (CHOOSE it : Eq(it))[S]
  BY Zenon DEF AcknowledgedBy, FoldSet, MapThenFoldSet
<1>4. \A it : Eq(it) => Folded(it, S, n, index)
  BY Zenon DEF Folded, Chosen
<1> HIDE DEF Eq
<1> QED  BY <1>2, <1>3, <1>4, Zenon

-----------------------------------------------------------------------------
(* The operations of one node. *)

Entry == [term : Nat, data : Nat]
MatchIndex == UNION {[S -> Nat] : S \in SUBSET NodeId}

NodeState == [role : {"Follower", "Candidate", "Leader"}, current_term : Nat,
              voted_for : NodeId \cup {None}, log : Seq(Entry), commit_index : Nat,
              last_applied : Nat, match_index : MatchIndex, peers : SUBSET NodeId]

\* What a leader keeps while it hears from its followers.
SameBut(n, m) == /\ m.role = n.role /\ m.current_term = n.current_term
                 /\ m.voted_for = n.voted_for /\ m.log = n.log
                 /\ m.last_applied = n.last_applied /\ m.peers = n.peers

Advances(n, m) == /\ m \in NodeState /\ SameBut(n, m)
                  /\ \/ m.commit_index = n.commit_index
                     \/ m.commit_index > n.commit_index /\ m.commit_index <= Len(n.log)

LEMMA MatchIndexUpdate ==
    ASSUME NEW m \in MatchIndex, NEW S \in SUBSET NodeId, NEW v \in Nat
    PROVE  [p \in DOMAIN m \cup S |-> IF p \in S THEN v ELSE m[p]] \in MatchIndex
<1>1. PICK T \in SUBSET NodeId : m \in [T -> Nat]
  BY DEF MatchIndex
<1>2. [p \in DOMAIN m \cup S |-> IF p \in S THEN v ELSE m[p]] \in [T \cup S -> Nat]
  BY <1>1
<1> QED  BY <1>2 DEF MatchIndex

LEMMA AcknowledgeAdvances ==
    ASSUME NEW n \in NodeState, NEW f \in NodeId, NEW index \in Nat
    PROVE  Advances(n, Acknowledge(n, f, index))
<1>1. CASE n.role # "Leader"
  BY <1>1 DEF Acknowledge, Advances, SameBut
<1>2. CASE n.role = "Leader"
  <2> DEFINE matched == [p \in DOMAIN n.match_index \cup {f} |->
                           IF p = f THEN index ELSE n.match_index[p]]
             m == [n EXCEPT !.match_index = matched]
             ci == Advanced(m)
  <2>1. matched \in MatchIndex
    <3>1. n.match_index \in MatchIndex  BY DEF NodeState
    <3>2. matched = [p \in DOMAIN n.match_index \cup {f} |->
                       IF p \in {f} THEN index ELSE n.match_index[p]]
      OBVIOUS
    <3> QED  BY <3>1, <3>2, MatchIndexUpdate
  <2> HIDE DEF matched
  <2>2. m \in NodeState /\ SameBut(n, m) /\ m.commit_index = n.commit_index
    BY <2>1 DEF NodeState, SameBut
  <2>3. Acknowledge(n, f, index) = [m EXCEPT !.commit_index = ci]
    BY <1>2 DEF Acknowledge, matched
  <2>4. \/ ci = n.commit_index
        \/ ci \in Nat /\ ci > n.commit_index /\ ci <= Len(n.log)
    <3> HIDE DEF m
    <3> DEFINE Holders(i) == 1 + Cardinality({p \in DOMAIN m.match_index : m.match_index[p] >= i})
               held == {i \in (m.commit_index + 1)..Len(m.log) :
                          Holders(i) >= (Cardinality(m.peers) + 1) \div 2 + 1}
    <3>1. ci = IF held # {} /\ m.log[Max(held)].term = m.current_term THEN Max(held)
               ELSE m.commit_index
      BY DEF Advanced
    <3>2. m.commit_index = n.commit_index /\ m.log = n.log /\ n.commit_index \in Nat
          /\ Len(n.log) \in Nat
      BY <2>2 DEF SameBut, NodeState
    <3>3. held \in SUBSET ((n.commit_index + 1)..Len(n.log))
      BY <3>2
    <3> HIDE DEF held, ci
    <3>4. CASE held = {}
      BY <3>1, <3>2, <3>4
    <3>5. CASE held # {}
      <4>1. Max(held) \in held
        <5>1. held \in SUBSET Int /\ (\A x \in held : x <= Len(n.log)) /\ Len(n.log) \in Int
          BY <3>2, <3>3
        <5> QED  BY <5>1, <3>5, MaxOfBounded, Zenon
      <4>2. Max(held) \in (n.commit_index + 1)..Len(n.log)
        BY <4>1, <3>3
      <4>3. \A x \in (n.commit_index + 1)..Len(n.log) :
               x \in Nat /\ x > n.commit_index /\ x <= Len(n.log)
        BY <3>2
      <4>4. Max(held) \in Nat /\ Max(held) > n.commit_index /\ Max(held) <= Len(n.log)
        BY <4>2, <4>3, Zenon
      <4> QED  BY <4>4, <3>1, <3>2
    <3> QED  BY <3>4, <3>5
  <2> HIDE DEF m, ci
  <2>5. ci \in Nat
    <3>1. n.commit_index \in Nat  BY DEF NodeState
    <3> QED  BY <2>4, <3>1
  <2>6. /\ [m EXCEPT !.commit_index = ci] \in NodeState
        /\ SameBut(n, [m EXCEPT !.commit_index = ci])
        /\ [m EXCEPT !.commit_index = ci].commit_index = ci
    BY <2>2, <2>5 DEF NodeState, SameBut
  <2> QED  BY <2>3, <2>4, <2>6 DEF Advances
<1> QED  BY <1>1, <1>2

LEMMA AdvancesTransitive ==
    ASSUME NEW a, NEW b, NEW c, a \in NodeState, Advances(a, b), Advances(b, c)
    PROVE  Advances(a, c)
<1>1. /\ a.commit_index \in Nat /\ b.commit_index \in Nat /\ c.commit_index \in Nat
      /\ Len(a.log) \in Nat
  BY DEF Advances, NodeState
<1> QED  BY <1>1 DEF Advances, SameBut

\* Every follower acknowledges the entry: the leader only advances.
LEMMA AllAcknowledge ==
    ASSUME NEW S \in SUBSET NodeId, IsFiniteSet(S), NEW n \in NodeState, NEW index \in Nat
    PROVE  Advances(n, AcknowledgedBy(n, S, index))
<1>1. PICK it : Folded(it, S, n, index) /\ AcknowledgedBy(n, S, index) = it[S]
  BY FoldIsSolution
<1>2. \A s \in SUBSET S : it[s] = IF s = {} THEN n
                                  ELSE Acknowledge(it[s \ {Chosen(s)}], Chosen(s), index)
  BY <1>1 DEF Folded
<1> DEFINE Bad == {m \in Nat : \E s \in SUBSET S : Cardinality(s) = m /\ ~Advances(n, it[s])}
<1>3. Bad = {}
  <2> SUFFICES ASSUME Bad # {} PROVE FALSE
    OBVIOUS
  <2>1. PICK m \in Bad : \A k \in Bad : m <= k
    <3>1. Bad \in SUBSET Nat  OBVIOUS
    <3> HIDE DEF Bad
    <3> QED  BY <3>1, LeastNat
  <2>2. PICK s \in SUBSET S : Cardinality(s) = m /\ ~Advances(n, it[s])
    BY <2>1
  <2>3. CASE s = {}
    BY <1>2, <2>2, <2>3 DEF Advances, SameBut
  <2>4. CASE s # {}
    <3> DEFINE x == Chosen(s)
               r == s \ {x}
    <3>1. x \in s /\ x \in NodeId
      BY <2>4 DEF Chosen
    <3>2. r \in SUBSET S /\ Cardinality(r) \in Nat /\ Cardinality(r) < m
      <4>1. IsFiniteSet(s)  BY FS_Subset
      <4>2. /\ Cardinality(s \ {x}) = Cardinality(s) - 1
            /\ Cardinality(s) \in Nat /\ Cardinality(s \ {x}) \in Nat
        <5> HIDE DEF x
        <5>1. IsFiniteSet(s \ {x}) /\ Cardinality(s \ {x}) = Cardinality(s) - 1
          BY <4>1, <3>1, FS_RemoveElement
        <5> QED  BY <4>1, <5>1, FS_CardinalityType
      <4> QED  BY <4>2, <2>2
    <3>3. Advances(n, it[r])
      <4> SUFFICES ASSUME ~Advances(n, it[r]) PROVE FALSE
        OBVIOUS
      <4>1. Cardinality(r) \in Bad  BY <3>2
      <4>2. m \in Nat /\ m <= Cardinality(r)
        <5> HIDE DEF Bad, r
        <5>1. m \in Nat  BY <2>1 DEF Bad
        <5> QED  BY <5>1, <4>1, <2>1
      <4> QED  BY <4>2, <3>2
    <3>4. it[s] = Acknowledge(it[r], x, index)
      BY <1>2, <2>4
    <3> HIDE DEF x, r
    <3>5. Advances(it[r], it[s])
      <4>1. it[r] \in NodeState  BY <3>3 DEF Advances
      <4> QED  BY <4>1, <3>1, <3>4, AcknowledgeAdvances
    <3> QED  BY <3>3, <3>5, <2>2, AdvancesTransitive
  <2> QED  BY <2>3, <2>4
<1>4. Advances(n, it[S])
  <2>1. Cardinality(S) \in Nat  BY FS_CardinalityType
  <2> QED  BY <1>3, <2>1
<1> QED  BY <1>1, <1>4

LEMMA MaxOfTwo ==
    ASSUME NEW a \in Nat, NEW b \in Nat
    PROVE  /\ Max({a, b}) = IF a >= b THEN a ELSE b
           /\ Min({a, b}) = IF a <= b THEN a ELSE b
<1>1. \E x \in {a, b} : \A y \in {a, b} : x >= y
  OBVIOUS
<1>2. \E x \in {a, b} : \A y \in {a, b} : x <= y
  OBVIOUS
<1>3. Max({a, b}) \in {a, b} /\ \A y \in {a, b} : Max({a, b}) >= y
  BY <1>1 DEF Max
<1>4. Min({a, b}) \in {a, b} /\ \A y \in {a, b} : Min({a, b}) <= y
  BY <1>2 DEF Min
<1> QED  BY <1>3, <1>4

\* Elections: the candidate, the winner, and a node that grants its vote.
SameLog(n, m) == /\ m.log = n.log /\ m.commit_index = n.commit_index
                 /\ m.last_applied = n.last_applied

LEMMA CandidateState ==
    ASSUME NEW n \in NodeState, NEW c \in NodeId
    PROVE  /\ StartElection(n, c) \in NodeState /\ SameLog(n, StartElection(n, c))
           /\ StartElection(n, c).current_term = n.current_term + 1
           /\ StartElection(n, c).voted_for = c
<1> DEFINE next == n.current_term + 1
<1>1. next \in Nat  BY DEF NodeState
<1>2. StartElection(n, c) = [n EXCEPT !.role = "Candidate", !.current_term = next, !.voted_for = c]
  BY DEF StartElection
<1> HIDE DEF next
<1>3. /\ StartElection(n, c) \in NodeState /\ SameLog(n, StartElection(n, c))
      /\ StartElection(n, c).current_term = next
      /\ StartElection(n, c).voted_for = c
  BY <1>1, <1>2 DEF NodeState, SameLog
<1> QED  BY <1>3 DEF next

LEMMA WinnerState ==
    ASSUME NEW n \in NodeState
    PROVE  /\ BecomeLeader(n) \in NodeState /\ SameLog(n, BecomeLeader(n))
           /\ BecomeLeader(n).role = "Leader"
           /\ BecomeLeader(n).current_term = n.current_term
           /\ BecomeLeader(n).voted_for = n.voted_for
<1> DEFINE matched == [p \in DOMAIN n.match_index \cup n.peers |->
                         IF p \in n.peers THEN 0 ELSE n.match_index[p]]
<1>1. matched \in MatchIndex
  <2>1. n.match_index \in MatchIndex /\ n.peers \in SUBSET NodeId  BY DEF NodeState
  <2> QED  BY <2>1, MatchIndexUpdate
<1>2. BecomeLeader(n) = [n EXCEPT !.role = "Leader", !.match_index = matched]
  BY DEF BecomeLeader
<1> HIDE DEF matched
<1> QED  BY <1>1, <1>2 DEF NodeState, SameLog

LEMMA VoterState ==
    ASSUME NEW n \in NodeState, NEW c \in NodeId, NEW t \in Nat
    PROVE  /\ Voted(n, t, c) \in NodeState /\ SameLog(n, Voted(n, t, c))
           /\ Voted(n, t, c).current_term = t /\ Voted(n, t, c).voted_for = c
BY DEF Voted, NodeState, SameLog

\* What an entry, a commit index, the application of entries, a snapshot and a
\* change of the members leave of a node.
Keeps(n, m) == /\ m \in NodeState /\ m.role = n.role
               /\ m.current_term = n.current_term /\ m.voted_for = n.voted_for

LEMMA AppendStates ==
    ASSUME NEW n \in NodeState, NEW e \in Entry
    PROVE  /\ Keeps(n, [n EXCEPT !.log = Append(@, e)])
           /\ [n EXCEPT !.log = Append(@, e)].log = Append(n.log, e)
           /\ [n EXCEPT !.log = Append(@, e)].commit_index = n.commit_index
           /\ [n EXCEPT !.log = Append(@, e)].last_applied = n.last_applied
<1>1. Append(n.log, e) \in Seq(Entry)
  BY DEF NodeState
<1> QED  BY <1>1 DEF NodeState, Keeps

LEMMA CommitState ==
    ASSUME NEW n \in NodeState, NEW k \in Nat
    PROVE  LET m == [n EXCEPT !.commit_index = k]
           IN  /\ Keeps(n, m) /\ m.log = n.log
               /\ m.commit_index = k /\ m.last_applied = n.last_applied
BY DEF NodeState, Keeps

LEMMA ApplyState ==
    ASSUME NEW n \in NodeState
    PROVE  /\ Keeps(n, ApplyCommitted(n)) /\ ApplyCommitted(n).log = n.log
           /\ ApplyCommitted(n).commit_index = n.commit_index
           /\ ApplyCommitted(n).last_applied = Max({n.last_applied, n.commit_index})
<1> DEFINE k == Max({n.last_applied, n.commit_index})
<1>1. k \in Nat
  <2>1. n.last_applied \in Nat /\ n.commit_index \in Nat  BY DEF NodeState
  <2> QED  BY <2>1, MaxOfTwo
<1>2. ApplyCommitted(n) = [n EXCEPT !.last_applied = k]
  BY DEF ApplyCommitted
<1> HIDE DEF k
<1>3. /\ Keeps(n, ApplyCommitted(n)) /\ ApplyCommitted(n).log = n.log
      /\ ApplyCommitted(n).commit_index = n.commit_index
      /\ ApplyCommitted(n).last_applied = k
  BY <1>1, <1>2 DEF NodeState, Keeps
<1> QED  BY <1>3 DEF k

LEMMA SnapshotStates ==
    ASSUME NEW n \in NodeState, NEW last \in Nat
    PROVE  /\ n.commit_index <= Len(n.log) => Keeps(n, CreateSnapshot(n))
           /\ Keeps(n, InstallSnapshot(n, last))
<1>1. n.log \in Seq(Entry) /\ n.commit_index \in Nat /\ Len(n.log) \in Nat
  BY DEF NodeState
<1>2. ASSUME NEW k \in Nat, k <= Len(n.log)
      PROVE  SubSeq(n.log, k + 1, Len(n.log)) \in Seq(Entry)
  BY <1>1, <1>2
<1>3. ASSUME n.commit_index <= Len(n.log) PROVE Keeps(n, CreateSnapshot(n))
  <2>1. SubSeq(n.log, n.commit_index + 1, Len(n.log)) \in Seq(Entry)
    BY <1>1, <1>2, <1>3
  <2> QED  BY <2>1 DEF Keeps, CreateSnapshot, NodeState
<1>4. Keeps(n, InstallSnapshot(n, last))
  <2> DEFINE l == IF last <= Len(n.log) THEN SubSeq(n.log, last + 1, Len(n.log)) ELSE n.log
  <2>1. l \in Seq(Entry)
    BY <1>1, <1>2
  <2>2. InstallSnapshot(n, last) = IF last <= n.commit_index THEN n
           ELSE [n EXCEPT !.log = l, !.commit_index = last, !.last_applied = last]
    BY DEF InstallSnapshot
  <2> HIDE DEF l
  <2> QED  BY <2>1, <2>2 DEF Keeps, NodeState
<1> QED  BY <1>3, <1>4

LEMMA MemberStates ==
    ASSUME NEW n \in NodeState, NEW id \in NodeId, NEW P \in SUBSET NodeId, None \notin NodeId
    PROVE  /\ RaftNode(P) \in NodeState
           /\ Keeps(n, AddPeer(n, id)) /\ Keeps(n, RemovePeer(n, id))
<1>1. n.match_index \in MatchIndex /\ n.peers \in SUBSET NodeId
  BY DEF NodeState
<1>2. RaftNode(P) \in NodeState
  <2>1. <<>> \in MatchIndex
    <3>1. <<>> \in [{} -> Nat]  OBVIOUS
    <3> QED  BY <3>1 DEF MatchIndex
  <2>2. <<>> \in Seq(Entry)  OBVIOUS
  <2> QED  BY <2>1, <2>2 DEF RaftNode, NodeState
<1>3. Keeps(n, AddPeer(n, id))
  <2> DEFINE matched == [p \in DOMAIN n.match_index \cup {id} |->
                           IF p = id THEN 0 ELSE n.match_index[p]]
             m == IF n.role # "Leader" THEN n.match_index ELSE matched
  <2>1. matched \in MatchIndex
    <3>1. matched = [p \in DOMAIN n.match_index \cup {id} |->
                       IF p \in {id} THEN 0 ELSE n.match_index[p]]
      OBVIOUS
    <3>2. {id} \in SUBSET NodeId /\ 0 \in Nat  OBVIOUS
    <3> HIDE DEF matched
    <3> QED  BY <3>1, <3>2, <1>1, MatchIndexUpdate
  <2>2. m \in MatchIndex
    <3> HIDE DEF matched
    <3> QED  BY <2>1, <1>1
  <2>3. AddPeer(n, id) = IF id \in n.peers THEN n
           ELSE [n EXCEPT !.peers = n.peers \cup {id}, !.match_index = m]
    BY DEF AddPeer
  <2> DEFINE ps == n.peers \cup {id}
  <2>4. ps \in SUBSET NodeId  BY <1>1
  <2> HIDE DEF m, matched, ps
  <2>5. Keeps(n, [n EXCEPT !.peers = ps, !.match_index = m])
    BY <2>2, <2>4 DEF Keeps, NodeState
  <2> QED  BY <2>3, <2>5 DEF Keeps, ps
<1>4. Keeps(n, RemovePeer(n, id))
  <2> DEFINE matched == [p \in DOMAIN n.match_index \ {id} |-> n.match_index[p]]
  <2>1. matched \in MatchIndex
    <3>1. PICK T \in SUBSET NodeId : n.match_index \in [T -> Nat]
      BY <1>1 DEF MatchIndex
    <3>2. matched \in [T \ {id} -> Nat]
      BY <3>1
    <3> QED  BY <3>2 DEF MatchIndex
  <2>2. RemovePeer(n, id) = [n EXCEPT !.peers = n.peers \ {id}, !.match_index = matched]
    BY DEF RemovePeer
  <2> HIDE DEF matched
  <2> QED  BY <2>1, <2>2, <1>1 DEF Keeps, NodeState
<1> QED  BY <1>2, <1>3, <1>4

-----------------------------------------------------------------------------
(* The invariant of the cluster. *)

\* There are finitely many nodes, and no id is the vote of a node that has not
\* voted (voted_for is an Option).
ClusterAssumption == IsFiniteSet(NodeId) /\ Initial \subseteq NodeId /\ None \notin NodeId

ClusterType ==
    /\ DOMAIN nodes \subseteq NodeId /\ nodes \in [DOMAIN nodes -> NodeState]
    /\ leader \in NodeId \cup {None}
    /\ executed \in [NodeId -> Seq(Entry)] /\ committed \in Seq(Entry)
    /\ wins \subseteq [term : Nat, id : NodeId, left : SUBSET NodeId]
    /\ proposed \in Nat /\ snapshots \in Nat /\ changes \in Nat

\* Whoever is left of an election has voted, and in no term before that one.
ElectionsKnown ==
    \A w \in wins : \A i \in w.left : /\ i \in DOMAIN nodes
                                     /\ nodes[i].current_term >= w.term
                                     /\ nodes[i].voted_for # None

\* With fixed members all nodes are in one term, so that every candidate gets
\* every vote, and leader names a node that leads.
OneTerm ==
    changes = 0 =>
        /\ \A i, j \in DOMAIN nodes : nodes[i].current_term = nodes[j].current_term
        /\ leader # None => LeaderThere

\* Before the first snapshot the logs are one log: the entries in the order
\* they were proposed, with what was committed as a beginning of it.
OneLog ==
    changes = 0 /\ snapshots = 0 =>
        /\ \A i, j \in DOMAIN nodes : nodes[i].log = nodes[j].log
        /\ \A i \in DOMAIN nodes :
              /\ Len(nodes[i].log) = proposed
              /\ nodes[i].commit_index <= proposed
              /\ Len(committed) <= proposed
              /\ \A k \in 1..proposed : nodes[i].log[k].data = k
              /\ \A k \in 1..Len(committed) : committed[k] = nodes[i].log[k]

\* A node has executed its log as far as last_applied.
ExecutedLog ==
    changes = 0 /\ snapshots = 0 =>
        \A i \in DOMAIN nodes :
            /\ nodes[i].last_applied <= proposed
            /\ Len(executed[i]) = nodes[i].last_applied
            /\ \A k \in 1..Len(executed[i]) : executed[i][k] = nodes[i].log[k]

ClusterInv == ClusterType /\ ElectionsKnown /\ OneTerm /\ OneLog /\ ExecutedLog /\ NoPanic

LEMMA ClusterInit ==
    ASSUME ClusterAssumption, RaftInit
    PROVE  ClusterInv
<1>1. \A i \in Initial : RaftNode(Initial \ {i}) \in NodeState
  <2> SUFFICES ASSUME NEW i \in Initial PROVE RaftNode(Initial \ {i}) \in NodeState
    OBVIOUS
  <2>1. <<>> \in MatchIndex
    <3>1. <<>> \in [{} -> Nat]  OBVIOUS
    <3> QED  BY <3>1 DEF MatchIndex
  <2>2. <<>> \in Seq(Entry)  OBVIOUS
  <2> QED  BY <2>1, <2>2 DEF RaftNode, NodeState, ClusterAssumption
<1>2. DOMAIN nodes = Initial /\ \A i \in Initial : nodes[i] = RaftNode(Initial \ {i})
  BY DEF RaftInit
<1>3. ClusterType
  <2>1. <<>> \in Seq(Entry)  OBVIOUS
  <2>2. nodes \in [DOMAIN nodes -> NodeState]
    BY <1>1, <1>2 DEF RaftInit
  <2> QED  BY <1>2, <2>1, <2>2 DEF RaftInit, ClusterType, ClusterAssumption
<1>4. \A i \in DOMAIN nodes : /\ nodes[i].current_term = 0 /\ nodes[i].log = <<>>
                              /\ nodes[i].commit_index = 0 /\ nodes[i].last_applied = 0
  BY <1>2 DEF RaftNode
<1>5. ElectionsKnown /\ OneTerm /\ NoPanic
  BY <1>4 DEF RaftInit, ElectionsKnown, OneTerm, NoPanic
<1>6. \A i \in DOMAIN nodes : i \in NodeId
  BY <1>3 DEF ClusterType
<1>7. Len(committed) = 0 /\ proposed = 0 /\ \A i \in DOMAIN nodes : Len(executed[i]) = 0
  BY <1>6 DEF RaftInit
<1>8. OneLog /\ ExecutedLog
  BY <1>4, <1>7 DEF OneLog, ExecutedLog
<1> QED  BY <1>3, <1>5, <1>8 DEF ClusterInv

\* A call that changes no term, vote or role.
LEMMA TermsKept ==
    ASSUME ClusterType, ElectionsKnown, OneTerm,
           DOMAIN nodes' = DOMAIN nodes, \A i \in DOMAIN nodes : Keeps(nodes[i], nodes'[i]),
           UNCHANGED <<leader, wins, changes>>
    PROVE  ElectionsKnown' /\ OneTerm'
<1>1. ElectionsKnown'
  BY DEF ElectionsKnown, Keeps
<1>2. OneTerm'
  BY DEF OneTerm, Keeps, LeaderThere
<1> QED  BY <1>1, <1>2

\* What an entry does to the nodes when the leader is there.
LEMMA ReplicateStates ==
    ASSUME ClusterAssumption, ClusterType, ReplicateEntry, LeaderThere
    PROVE  /\ nodes' \in [DOMAIN nodes -> NodeState]
           /\ \A i \in DOMAIN nodes : Keeps(nodes[i], nodes'[i])
                                     /\ nodes'[i].last_applied = nodes[i].last_applied
           /\ \A i \in DOMAIN nodes :
                 \/ nodes'[i].commit_index = nodes[i].commit_index
                 \/ nodes'[i].commit_index <= Len(nodes[leader].log) + 1
           /\ \E e \in Entry :
                 /\ e.data = proposed + 1
                 /\ nodes'[leader].log = Append(nodes[leader].log, e)
                 /\ \A i \in DOMAIN nodes \ {leader} :
                       nodes'[i].log = IF Len(nodes[i].log) < Len(nodes[leader].log) + 1
                                       THEN Append(nodes[i].log, e) ELSE nodes[i].log
           /\ \/ committed' = committed
              \/ \E k \in 1..(Len(nodes[leader].log) + 1) : committed' = SubSeq(nodes'[leader].log, 1, k)
           /\ proposed' = proposed + 1 /\ committed' \in Seq(Entry)
           /\ UNCHANGED <<panicked, leader, executed, wins, snapshots, changes>>
<1> DEFINE n      == nodes[leader]
           e      == [term |-> n.current_term, data |-> proposed + 1]
           led    == AppendEntry(n, proposed + 1)
           index  == Len(led.log)
           others == DOMAIN nodes \ {leader}
           acked  == AcknowledgedBy(led, others, index)
<1>1. /\ leader \in DOMAIN nodes /\ n \in NodeState /\ proposed + 1 \in Nat
      /\ n.log \in Seq(Entry) /\ Len(n.log) \in Nat /\ n.current_term \in Nat
      /\ n.commit_index \in Nat
  BY DEF ClusterType, LeaderThere, NodeState
<1>2. e \in Entry /\ e.data = proposed + 1
  BY <1>1 DEF Entry
<1>3. led = [n EXCEPT !.log = Append(@, e)]
  BY DEF AppendEntry
<1> HIDE DEF e
<1>4. /\ Keeps(n, led) /\ led.log = Append(n.log, e)
      /\ led.commit_index = n.commit_index /\ led.last_applied = n.last_applied
  <2> HIDE DEF led, n
  <2> QED  BY <1>1, <1>2, <1>3, AppendStates
<1>5. index = Len(n.log) + 1 /\ index \in Nat /\ led.log[index] = e /\ led.log \in Seq(Entry)
  <2> DEFINE l == n.log
  <2> SUFFICES /\ Len(Append(l, e)) = Len(l) + 1 /\ Len(l) + 1 \in Nat
               /\ Append(l, e)[Len(l) + 1] = e /\ Append(l, e) \in Seq(Entry)
    <3> HIDE DEF led, n
    <3> QED  BY <1>4 DEF l
  <2> HIDE DEF l
  <2>1. l \in Seq(Entry)  BY <1>1 DEF l
  <2> QED  BY <2>1, <1>2
<1>6. Advances(led, acked)
  <2>1. led \in NodeState  BY <1>4 DEF Keeps
  <2>2. others \in SUBSET NodeId /\ IsFiniteSet(others)
    <3>1. others \in SUBSET NodeId  BY DEF ClusterType
    <3> QED  BY <3>1, FS_Subset DEF ClusterAssumption
  <2> HIDE DEF led, others, index
  <2> QED  BY <2>1, <2>2, <1>5, AllAcknowledge
<1>7. /\ nodes' = [i \in DOMAIN nodes |->
                     IF i = leader THEN acked
                     ELSE IF Len(nodes[i].log) < index
                          THEN [nodes[i] EXCEPT !.log = Append(@, led.log[index])]
                          ELSE nodes[i]]
      /\ committed' = IF acked.commit_index > led.commit_index
                      THEN SubSeq(acked.log, 1, acked.commit_index) ELSE committed
      /\ proposed' = proposed + 1
      /\ UNCHANGED <<panicked, leader, executed, wins, snapshots, changes>>
  BY Zenon DEF ReplicateEntry
<1> HIDE DEF led, acked, index
<1>8. /\ acked \in NodeState /\ Keeps(n, acked) /\ acked.log = Append(n.log, e)
      /\ acked.last_applied = n.last_applied
      /\ \/ acked.commit_index = n.commit_index
         \/ acked.commit_index > n.commit_index /\ acked.commit_index <= index
  BY <1>4, <1>5, <1>6 DEF Advances, SameBut, Keeps
<1>9. ASSUME NEW i \in DOMAIN nodes, i # leader
      PROVE  /\ nodes'[i] \in NodeState /\ Keeps(nodes[i], nodes'[i])
             /\ nodes'[i].last_applied = nodes[i].last_applied
             /\ nodes'[i].commit_index = nodes[i].commit_index
             /\ nodes'[i].log = IF Len(nodes[i].log) < Len(n.log) + 1
                                THEN Append(nodes[i].log, e) ELSE nodes[i].log
  <2>1. nodes[i] \in NodeState  BY DEF ClusterType
  <2> DEFINE b == nodes[i]
             a == [b EXCEPT !.log = Append(@, e)]
  <2>2. nodes'[i] = IF Len(b.log) < index THEN a ELSE b
    BY <1>5, <1>7, <1>9
  <2>3. /\ Keeps(b, a) /\ a.log = Append(b.log, e) /\ a.commit_index = b.commit_index
        /\ a.last_applied = b.last_applied
    BY <2>1, <1>2, AppendStates
  <2>4. Keeps(b, b)  BY <2>1 DEF Keeps
  <2> HIDE DEF a
  <2> QED  BY <2>1, <2>2, <2>3, <2>4, <1>5 DEF Keeps
<1>10. nodes'[leader] = acked
  BY <1>1, <1>7
<1>11. /\ nodes' \in [DOMAIN nodes -> NodeState]
       /\ \A i \in DOMAIN nodes : Keeps(nodes[i], nodes'[i])
                                 /\ nodes'[i].last_applied = nodes[i].last_applied
  <2>1. \A i \in DOMAIN nodes : nodes'[i] \in NodeState
    BY <1>8, <1>9, <1>10
  <2>2. nodes' \in [DOMAIN nodes -> NodeState]
    BY <2>1, <1>7
  <2> QED  BY <2>2, <1>8, <1>9, <1>10
<1>12. \A i \in DOMAIN nodes : \/ nodes'[i].commit_index = nodes[i].commit_index
                               \/ nodes'[i].commit_index <= Len(n.log) + 1
  BY <1>5, <1>8, <1>9, <1>10
<1>13. /\ \/ committed' = committed
          \/ \E k \in 1..(Len(n.log) + 1) : committed' = SubSeq(nodes'[leader].log, 1, k)
       /\ committed' \in Seq(Entry)
  <2>1. CASE acked.commit_index > led.commit_index
    <3>1. acked.commit_index \in 1..(Len(n.log) + 1)
      <4>1. acked.commit_index \in Nat /\ led.commit_index = n.commit_index
        BY <1>4, <1>8 DEF NodeState
      <4> QED  BY <4>1, <2>1, <1>1, <1>5, <1>8
    <3>2. committed' = SubSeq(acked.log, 1, acked.commit_index)
      BY <1>7, <2>1
    <3>3. acked.log \in Seq(Entry) /\ Len(acked.log) = Len(n.log) + 1
      BY <1>1, <1>2, <1>8
    <3>4. SubSeq(acked.log, 1, acked.commit_index) \in Seq(Entry)
      BY <3>1, <3>3
    <3> QED  BY <3>1, <3>2, <3>4, <1>10
  <2>2. CASE ~(acked.commit_index > led.commit_index)
    <3>1. committed' = committed  BY <1>7, <2>2
    <3> QED  BY <3>1 DEF ClusterType
  <2> QED  BY <2>1, <2>2
<1>14. /\ nodes'[leader].log = Append(n.log, e)
       /\ \A i \in DOMAIN nodes \ {leader} :
             nodes'[i].log = IF Len(nodes[i].log) < Len(n.log) + 1
                             THEN Append(nodes[i].log, e) ELSE nodes[i].log
  BY <1>8, <1>9, <1>10
<1> QED  BY <1>2, <1>7, <1>11, <1>12, <1>13, <1>14, Zenon

\* The voters of an election and whether it is won.
Voters(c) == {i \in DOMAIN nodes \ {c} : GrantsVote(nodes[i], nodes[c].current_term + 1)}
Won(c) == 1 + Cardinality(Voters(c)) >= Majority
Victory(c) == [term |-> nodes[c].current_term + 1, id |-> c, left |-> DOMAIN nodes]

LEMMA ElectionStep ==
    ASSUME ClusterAssumption, ClusterType, NEW c \in DOMAIN nodes, ElectLeader(c)
    PROVE  /\ nodes' \in [DOMAIN nodes -> NodeState]
           /\ \A i \in Voters(c) \cup {c} :
                 nodes'[i].current_term = nodes[c].current_term + 1 /\ nodes'[i].voted_for = c
           /\ \A i \in DOMAIN nodes \ (Voters(c) \cup {c}) : nodes'[i] = nodes[i]
           /\ \A i \in DOMAIN nodes : SameLog(nodes[i], nodes'[i])
           /\ Won(c) => nodes'[c].role = "Leader"
           /\ leader' = IF Won(c) THEN c ELSE leader
           /\ wins' = wins \cup IF Won(c) THEN {Victory(c)} ELSE {}
           /\ ~panicked
           /\ UNCHANGED <<panicked, executed, committed, proposed, snapshots, changes>>
<1> DEFINE n == nodes[c]
           term == n.current_term + 1
           candidate == StartElection(n, c)
           elected == BecomeLeader(candidate)
<1>1. n \in NodeState /\ c \in NodeId /\ term \in Nat
  BY DEF ClusterType, NodeState
<1>2. /\ candidate \in NodeState /\ candidate.current_term = term /\ candidate.voted_for = c
      /\ SameLog(n, candidate)
  <2> HIDE DEF n
  <2>1. candidate.current_term = n.current_term + 1
    BY <1>1, CandidateState
  <2> QED  BY <1>1, <2>1, CandidateState
<1>3. /\ elected \in NodeState /\ elected.current_term = term /\ elected.voted_for = c
      /\ elected.role = "Leader" /\ SameLog(n, elected)
  <2> HIDE DEF candidate, n, term
  <2> QED  BY <1>1, <1>2, WinnerState DEF SameLog
<1>4. /\ nodes' = [i \in DOMAIN nodes |->
                     IF i = c THEN IF Won(c) THEN elected ELSE candidate
                     ELSE IF i \in Voters(c) THEN Voted(nodes[i], term, c)
                     ELSE nodes[i]]
      /\ leader' = IF Won(c) THEN c ELSE leader
      /\ wins' = wins \cup IF Won(c) THEN {Victory(c)} ELSE {}
      /\ ~panicked
      /\ UNCHANGED <<panicked, executed, committed, proposed, snapshots, changes>>
  <2> DEFINE t == candidate.current_term
             voters == {i \in DOMAIN nodes \ {c} : GrantsVote(nodes[i], t)}
             won == 1 + Cardinality(voters) >= Majority
             win == [term |-> t, id |-> c, left |-> DOMAIN nodes]
  <2>1. t = term  BY <1>2
  <2>2. voters = Voters(c)
    BY <2>1, Zenon DEF Voters
  <2>3. /\ nodes' = [i \in DOMAIN nodes |->
                       IF i = c THEN IF won THEN elected ELSE candidate
                       ELSE IF i \in voters THEN Voted(nodes[i], t, c)
                       ELSE nodes[i]]
        /\ leader' = IF won THEN c ELSE leader
        /\ wins' = wins \cup IF won THEN {win} ELSE {}
        /\ ~panicked
        /\ UNCHANGED <<panicked, executed, committed, proposed, snapshots, changes>>
    BY Zenon DEF ElectLeader
  <2>4. won <=> Won(c)
    BY <2>2, Zenon DEF Won
  <2>5. win = Victory(c)
    BY <2>1, Zenon DEF Victory
  <2> HIDE DEF t, voters, won, win, candidate, elected, term, n
  <2>6. CASE won
    BY <2>1, <2>2, <2>3, <2>4, <2>5, <2>6
  <2>7. CASE ~won
    BY <2>1, <2>2, <2>3, <2>4, <2>5, <2>7
  <2> QED  BY <2>6, <2>7
<1> HIDE DEF elected, candidate
<1>5. nodes'[c] \in {elected, candidate} /\ (Won(c) => nodes'[c] = elected)
  BY <1>4
<1>6. ASSUME NEW i \in Voters(c)
      PROVE  /\ nodes'[i] \in NodeState /\ SameLog(nodes[i], nodes'[i])
             /\ nodes'[i].current_term = term /\ nodes'[i].voted_for = c
  <2>1. i \in DOMAIN nodes /\ i # c /\ nodes[i] \in NodeState
    BY DEF Voters, ClusterType
  <2>2. nodes'[i] = Voted(nodes[i], term, c)
    BY <2>1, <1>4
  <2> QED  BY <2>1, <2>2, <1>1, VoterState
<1>7. \A i \in DOMAIN nodes \ (Voters(c) \cup {c}) : nodes'[i] = nodes[i]
  BY <1>4
<1>8. \A i \in DOMAIN nodes : nodes[i] \in NodeState /\ SameLog(nodes[i], nodes[i])
  BY DEF ClusterType, SameLog
<1>9. ASSUME NEW i \in DOMAIN nodes
      PROVE  nodes'[i] \in NodeState /\ SameLog(nodes[i], nodes'[i])
  <2>1. CASE i = c  BY <2>1, <1>2, <1>3, <1>5
  <2>2. CASE i \in Voters(c)  BY <2>2, <1>6
  <2>3. CASE i \notin Voters(c) /\ i # c  BY <2>3, <1>7, <1>8
  <2> QED  BY <2>1, <2>2, <2>3
<1>10. nodes' \in [DOMAIN nodes -> NodeState]
  BY <1>4, <1>9
<1>11. \A i \in Voters(c) \cup {c} : nodes'[i].current_term = term /\ nodes'[i].voted_for = c
  BY <1>2, <1>3, <1>5, <1>6
<1>12. Won(c) => nodes'[c].role = "Leader"
  BY <1>3, <1>5
<1> QED  BY <1>4, <1>7, <1>9, <1>10, <1>11, <1>12, Zenon

\* Whoever does not grant its vote has voted already, in the candidate's term
\* or later.
LEMMA ElectLeaderKeepsElections ==
    ASSUME ClusterAssumption, ClusterType, ElectionsKnown, NEW c \in DOMAIN nodes, ElectLeader(c)
    PROVE  ElectionsKnown'
<1> DEFINE term == nodes[c].current_term + 1
<1>1. \A i \in DOMAIN nodes : nodes[i].current_term \in Nat
  BY DEF ClusterType, NodeState
<1>2. c \in NodeId /\ c # None /\ term \in Nat
  BY <1>1 DEF ClusterType, ClusterAssumption
<1>3. DOMAIN nodes' = DOMAIN nodes
  BY ElectionStep
<1>4. \A w \in wins : w.term \in Nat
  BY DEF ClusterType
<1>5. ASSUME NEW i \in DOMAIN nodes
      PROVE  nodes'[i].current_term >= term /\ nodes'[i].voted_for # None
  <2>1. CASE i \in Voters(c) \cup {c}
    BY <2>1, <1>2, ElectionStep
  <2>2. CASE i \notin Voters(c) \cup {c}
    <3>1. ~GrantsVote(nodes[i], term)  BY <2>2 DEF Voters
    <3>2. nodes'[i] = nodes[i]  BY <2>2, ElectionStep
    <3> QED  BY <3>1, <3>2, <1>1, <1>2 DEF GrantsVote
  <2> QED  BY <2>1, <2>2
<1>6. ASSUME NEW w \in wins, NEW i \in w.left
      PROVE  /\ i \in DOMAIN nodes /\ nodes'[i].current_term >= w.term
             /\ nodes'[i].voted_for # None
  <2>1. /\ i \in DOMAIN nodes /\ nodes[i].current_term >= w.term
        /\ nodes[i].voted_for # None
    BY DEF ElectionsKnown
  <2>2. CASE i \in Voters(c)
    <3>1. nodes[i].current_term < term  BY <2>1, <2>2 DEF Voters, GrantsVote
    <3>2. nodes'[i].current_term = term  BY <2>2, ElectionStep
    <3> QED  BY <3>1, <3>2, <2>1, <1>1, <1>2, <1>4, <1>5
  <2>3. CASE i = c
    <3>1. nodes'[i].current_term = nodes[i].current_term + 1  BY <2>3, ElectionStep
    <3> QED  BY <3>1, <2>1, <1>1, <1>4, <1>5
  <2>4. CASE i \notin Voters(c) /\ i # c
    <3>1. nodes'[i] = nodes[i]  BY <2>1, <2>4, ElectionStep
    <3> QED  BY <3>1, <2>1
  <2> QED  BY <2>2, <2>3, <2>4
<1>7. wins' = wins \cup IF Won(c) THEN {Victory(c)} ELSE {}
  BY ElectionStep
<1>8. ASSUME NEW w \in wins', NEW i \in w.left
      PROVE  /\ i \in DOMAIN nodes' /\ nodes'[i].current_term >= w.term
             /\ nodes'[i].voted_for # None
  <2>1. CASE w \in wins  BY <2>1, <1>3, <1>6
  <2>2. CASE w \notin wins
    <3>1. w.term = term /\ w.left = DOMAIN nodes  BY <2>2, <1>7 DEF Victory
    <3> HIDE DEF term
    <3> QED  BY <3>1, <1>3, <1>5
  <2> QED  BY <2>1, <2>2
<1> QED  BY <1>8 DEF ElectionsKnown

\* In one term every other node grants its vote: the election is won.
LEMMA ElectLeaderKeepsOneTerm ==
    ASSUME ClusterAssumption, ClusterType, OneTerm, NEW c \in DOMAIN nodes, ElectLeader(c)
    PROVE  OneTerm'
<1> SUFFICES ASSUME changes = 0
             PROVE  /\ \A i, j \in DOMAIN nodes' : nodes'[i].current_term = nodes'[j].current_term
                    /\ leader' # None => LeaderThere'
  BY ElectionStep DEF OneTerm
<1>1. \A i \in DOMAIN nodes : nodes[i].current_term = nodes[c].current_term
                              /\ nodes[i].current_term \in Nat
  BY DEF OneTerm, ClusterType, NodeState
<1>2. Voters(c) = DOMAIN nodes \ {c}
  BY <1>1 DEF Voters, GrantsVote
<1>3. DOMAIN nodes' = DOMAIN nodes /\ \A i \in DOMAIN nodes : i \in Voters(c) \cup {c}
  BY <1>2, ElectionStep
<1>4. \A i \in DOMAIN nodes' : nodes'[i].current_term = nodes[c].current_term + 1
  BY <1>3, ElectionStep
<1>5. Won(c)
  <2>1. IsFiniteSet(DOMAIN nodes)
    BY FS_Subset DEF ClusterAssumption, ClusterType
  <2>2. Cardinality(Voters(c)) = Cardinality(DOMAIN nodes) - 1 /\ Cardinality(DOMAIN nodes) \in Nat
        /\ Cardinality(Voters(c)) \in Nat
    <3>1. IsFiniteSet(DOMAIN nodes \ {c})
          /\ Cardinality(DOMAIN nodes \ {c}) = Cardinality(DOMAIN nodes) - 1
      BY <2>1, FS_RemoveElement
    <3> QED  BY <3>1, <2>1, <1>2, FS_CardinalityType
  <2> DEFINE d == Cardinality(DOMAIN nodes)
  <2> SUFFICES 1 + (d - 1) >= (d \div 2) + 1
    BY <2>2 DEF Won, Majority
  <2>3. d \in Nat /\ d - 1 \in Nat
    BY <2>2
  <2> HIDE DEF d
  <2> QED  BY <2>3
<1>6. leader' = c /\ nodes'[c].role = "Leader"
  BY <1>5, ElectionStep
<1> QED  BY <1>3, <1>4, <1>6 DEF LeaderThere

\* A call that moves no log, and no counter of the calls that do.
LEMMA LogsKept ==
    ASSUME OneLog, DOMAIN nodes' = DOMAIN nodes,
           \A i \in DOMAIN nodes : nodes'[i].log = nodes[i].log,
           \A i \in DOMAIN nodes : \E j \in DOMAIN nodes :
               nodes'[i].commit_index = nodes[j].commit_index,
           UNCHANGED <<committed, proposed, snapshots, changes>>
    PROVE  OneLog'
<1> SUFFICES ASSUME changes = 0, snapshots = 0
             PROVE  /\ \A i, j \in DOMAIN nodes : nodes'[i].log = nodes'[j].log
                    /\ \A i \in DOMAIN nodes :
                          /\ Len(nodes'[i].log) = proposed
                          /\ nodes'[i].commit_index <= proposed
                          /\ Len(committed) <= proposed
                          /\ \A k \in 1..proposed : nodes'[i].log[k].data = k
                          /\ \A k \in 1..Len(committed) : committed[k] = nodes'[i].log[k]
  BY DEF OneLog
<1>1. \A i, j \in DOMAIN nodes : nodes'[i].log = nodes'[j].log
  BY DEF OneLog
<1>2. \A i \in DOMAIN nodes : nodes'[i].commit_index <= proposed
  BY DEF OneLog
<1>3. \A i \in DOMAIN nodes : /\ Len(nodes'[i].log) = proposed
                              /\ Len(committed) <= proposed
                              /\ \A k \in 1..proposed : nodes'[i].log[k].data = k
                              /\ \A k \in 1..Len(committed) : committed[k] = nodes'[i].log[k]
  BY DEF OneLog
<1> QED  BY <1>1, <1>2, <1>3

LEMMA ElectLeaderKeeps ==
    ASSUME ClusterAssumption, ClusterInv, NEW c \in DOMAIN nodes, ElectLeader(c)
    PROVE  ClusterInv'
<1>1. ClusterType /\ ElectionsKnown /\ OneTerm /\ OneLog /\ ExecutedLog /\ NoPanic
  BY DEF ClusterInv
<1>2. DOMAIN nodes' = DOMAIN nodes
  BY <1>1, ElectionStep
<1>3. ClusterType'
  <2>1. nodes[c] \in NodeState /\ c \in NodeId /\ DOMAIN nodes \in SUBSET NodeId
    BY <1>1 DEF ClusterType
  <2>2. nodes[c].current_term + 1 \in Nat
    BY <2>1 DEF NodeState
  <2>3. Victory(c) \in [term : Nat, id : NodeId, left : SUBSET NodeId]
    <3> DEFINE term == nodes[c].current_term + 1
    <3>1. term \in Nat  BY <2>2
    <3>2. Victory(c) = [term |-> term, id |-> c, left |-> DOMAIN nodes]
      BY DEF Victory
    <3> HIDE DEF term
    <3> QED  BY <2>1, <3>1, <3>2
  <2>4. wins' \subseteq wins \cup {Victory(c)}
    BY <1>1, ElectionStep
  <2>5. wins' \subseteq [term : Nat, id : NodeId, left : SUBSET NodeId]
    BY <1>1, <2>3, <2>4 DEF ClusterType
  <2>6. leader' \in NodeId \cup {None}
    BY <1>1, <2>1, ElectionStep DEF ClusterType
  <2>7. nodes' \in [DOMAIN nodes' -> NodeState] /\ DOMAIN nodes' \subseteq NodeId
    BY <1>1, <1>2, <2>1, ElectionStep
  <2>8. UNCHANGED <<executed, committed, proposed, snapshots, changes>>
    BY <1>1, ElectionStep
  <2> QED  BY <1>1, <2>5, <2>6, <2>7, <2>8 DEF ClusterType
<1>4. ElectionsKnown' /\ OneTerm'
  BY <1>1, ElectLeaderKeepsElections, ElectLeaderKeepsOneTerm
<1>5. OneLog' /\ ExecutedLog'
  <2>1. \A i \in DOMAIN nodes : SameLog(nodes[i], nodes'[i])
    BY <1>1, ElectionStep
  <2>2. UNCHANGED <<executed, committed, proposed, snapshots, changes>>
    BY <1>1, ElectionStep
  <2>3. OneLog'
    BY <1>1, <1>2, <2>1, <2>2, LogsKept DEF SameLog
  <2>4. ExecutedLog'
    BY <1>1, <1>2, <2>1, <2>2 DEF SameLog, ExecutedLog
  <2> QED  BY <2>3, <2>4
<1>6. NoPanic'
  <2>1. ~panicked /\ UNCHANGED panicked  BY <1>1, ElectionStep
  <2> QED  BY <2>1 DEF NoPanic
<1> QED  BY <1>3, <1>4, <1>5, <1>6 DEF ClusterInv

\* The leader is not there only after the members have changed.
LEMMA ReplicateEntryPanics ==
    ASSUME ClusterAssumption, ClusterInv, ReplicateEntry, ~LeaderThere
    PROVE  ClusterInv'
<1>1. /\ leader # None /\ proposed' = proposed + 1 /\ panicked' = TRUE
      /\ UNCHANGED <<nodes, committed, leader, executed, wins, snapshots, changes>>
  BY Zenon DEF ReplicateEntry
<1>2. changes # 0
  BY <1>1 DEF ClusterInv, OneTerm
<1>3. ClusterType' /\ ElectionsKnown'
  BY <1>1 DEF ClusterInv, ClusterType, ElectionsKnown
<1> QED  BY <1>1, <1>2, <1>3 DEF ClusterInv, OneTerm, OneLog, ExecutedLog, NoPanic

\* Every log is the leader's, and all get the same entry.
LEMMA ReplicateEntryKeepsLogs ==
    ASSUME ClusterAssumption, ClusterInv, ReplicateEntry, LeaderThere
    PROVE  OneLog' /\ ExecutedLog'
<1>1. ClusterType /\ OneLog /\ ExecutedLog /\ leader \in DOMAIN nodes
  BY DEF ClusterInv, LeaderThere
<1>2. PICK e \in Entry :
         /\ e.data = proposed + 1
         /\ nodes'[leader].log = Append(nodes[leader].log, e)
         /\ \A i \in DOMAIN nodes \ {leader} :
               nodes'[i].log = IF Len(nodes[i].log) < Len(nodes[leader].log) + 1
                               THEN Append(nodes[i].log, e) ELSE nodes[i].log
  BY <1>1, ReplicateStates
<1>3. /\ DOMAIN nodes' = DOMAIN nodes /\ proposed' = proposed + 1
      /\ UNCHANGED <<executed, snapshots, changes>>
  BY <1>1, ReplicateStates
<1> SUFFICES ASSUME changes = 0, snapshots = 0
             PROVE  /\ \A i, j \in DOMAIN nodes : nodes'[i].log = nodes'[j].log
                    /\ \A i \in DOMAIN nodes :
                          /\ Len(nodes'[i].log) = proposed + 1
                          /\ nodes'[i].commit_index <= proposed + 1
                          /\ Len(committed') <= proposed + 1
                          /\ \A k \in 1..(proposed + 1) : nodes'[i].log[k].data = k
                          /\ \A k \in 1..Len(committed') : committed'[k] = nodes'[i].log[k]
                    /\ \A i \in DOMAIN nodes :
                          /\ nodes'[i].last_applied <= proposed + 1
                          /\ Len(executed[i]) = nodes'[i].last_applied
                          /\ \A k \in 1..Len(executed[i]) : executed[i][k] = nodes'[i].log[k]
  BY <1>3 DEF OneLog, ExecutedLog
<1> DEFINE L == nodes[leader].log
<1>4. L \in Seq(Entry) /\ Len(L) = proposed /\ proposed \in Nat
  BY <1>1 DEF OneLog, ClusterType, NodeState
<1>5. /\ \A i \in DOMAIN nodes : nodes[i].log = L
      /\ \A k \in 1..proposed : L[k].data = k
      /\ Len(committed) <= proposed
      /\ \A k \in 1..Len(committed) : committed[k] = L[k]
  BY <1>1 DEF OneLog
<1> DEFINE M == Append(L, e)
<1>6. \A i \in DOMAIN nodes : nodes'[i].log = M
  <2> SUFFICES ASSUME NEW i \in DOMAIN nodes PROVE nodes'[i].log = M
    OBVIOUS
  <2> HIDE DEF M
  <2>1. CASE i = leader  BY <1>2, <2>1 DEF M
  <2>2. CASE i # leader
    <3>1. nodes[i].log = L /\ Len(L) < Len(L) + 1  BY <1>4, <1>5
    <3>2. nodes'[i].log = IF Len(nodes[i].log) < Len(L) + 1 THEN Append(nodes[i].log, e) ELSE nodes[i].log
      BY <1>2, <2>2
    <3> HIDE DEF L
    <3> QED  BY <3>1, <3>2 DEF M
  <2> QED  BY <2>1, <2>2
<1> HIDE DEF L
<1>7. /\ M \in Seq(Entry) /\ Len(M) = proposed + 1 /\ M[proposed + 1] = e
      /\ \A k \in 1..proposed : M[k] = L[k]
  BY <1>4
<1> HIDE DEF M
<1>8. \A k \in 1..(proposed + 1) : M[k].data = k
  BY <1>2, <1>4, <1>5, <1>7
<1>9. ASSUME NEW i \in DOMAIN nodes PROVE nodes'[i].commit_index <= proposed + 1
  <2>1. nodes[i].commit_index <= proposed /\ nodes[i].commit_index \in Nat
    BY <1>1 DEF OneLog, ClusterType, NodeState
  <2>2. \/ nodes'[i].commit_index = nodes[i].commit_index
        \/ nodes'[i].commit_index <= Len(L) + 1
    BY <1>1, ReplicateStates DEF L
  <2> QED  BY <2>1, <2>2, <1>4
<1>10. Len(committed') <= proposed + 1 /\ \A k \in 1..Len(committed') : committed'[k] = M[k]
  <2>1. CASE committed' = committed
    <3>1. Len(committed) \in Nat  BY <1>1 DEF ClusterType
    <3> QED  BY <2>1, <3>1, <1>4, <1>5, <1>7
  <2>2. ASSUME NEW k \in 1..(Len(L) + 1), committed' = SubSeq(nodes'[leader].log, 1, k)
        PROVE  Len(committed') <= proposed + 1 /\ \A m \in 1..Len(committed') : committed'[m] = M[m]
    <3>1. committed' = SubSeq(M, 1, k) /\ k \in 1..Len(M)
      BY <2>2, <1>1, <1>4, <1>6, <1>7
    <3>2. Len(SubSeq(M, 1, k)) = k /\ \A m \in 1..k : SubSeq(M, 1, k)[m] = M[m]
      BY <3>1, <1>7
    <3> QED  BY <3>1, <3>2, <1>7
  <2>3. \/ committed' = committed
        \/ \E k \in 1..(Len(L) + 1) : committed' = SubSeq(nodes'[leader].log, 1, k)
    BY <1>1, ReplicateStates DEF L
  <2> QED  BY <2>1, <2>2, <2>3
<1>11. ASSUME NEW i \in DOMAIN nodes
       PROVE  /\ nodes'[i].last_applied <= proposed + 1
              /\ Len(executed[i]) = nodes'[i].last_applied
              /\ \A k \in 1..Len(executed[i]) : executed[i][k] = M[k]
  <2>1. /\ nodes[i].last_applied <= proposed /\ nodes[i].last_applied \in Nat
        /\ Len(executed[i]) = nodes[i].last_applied
        /\ \A k \in 1..Len(executed[i]) : executed[i][k] = L[k]
    BY <1>1, <1>5 DEF ExecutedLog, ClusterType, NodeState
  <2>2. nodes'[i].last_applied = nodes[i].last_applied
    BY <1>1, ReplicateStates
  <2> QED  BY <2>1, <2>2, <1>4, <1>7
<1> QED  BY <1>6, <1>7, <1>8, <1>9, <1>10, <1>11

LEMMA ReplicateEntryKeeps ==
    ASSUME ClusterAssumption, ClusterInv, ReplicateEntry, LeaderThere
    PROVE  ClusterInv'
<1>1. ClusterType /\ ElectionsKnown /\ OneTerm /\ NoPanic
  BY DEF ClusterInv
<1>2. /\ nodes' \in [DOMAIN nodes -> NodeState]
      /\ \A i \in DOMAIN nodes : Keeps(nodes[i], nodes'[i])
      /\ proposed' = proposed + 1 /\ committed' \in Seq(Entry)
      /\ UNCHANGED <<panicked, leader, executed, wins, snapshots, changes>>
  BY <1>1, ReplicateStates
<1>3. ClusterType' /\ NoPanic'
  BY <1>1, <1>2 DEF ClusterType, NoPanic
<1>4. ElectionsKnown' /\ OneTerm'
  BY <1>1, <1>2, TermsKept
<1> QED  BY <1>3, <1>4, ReplicateEntryKeepsLogs DEF ClusterInv

LEMMA SyncCommitKeeps ==
    ASSUME ClusterInv, SyncCommit
    PROVE  ClusterInv'
<1> DEFINE ci == nodes[leader].commit_index
<1>1. /\ ClusterType /\ ElectionsKnown /\ OneTerm /\ OneLog /\ ExecutedLog /\ NoPanic
      /\ leader \in DOMAIN nodes
  BY DEF ClusterInv, SyncCommit, LeaderThere
<1>2. ci \in Nat
  BY <1>1 DEF ClusterType, NodeState
<1>3. /\ nodes' = [i \in DOMAIN nodes |-> [nodes[i] EXCEPT !.commit_index = ci]]
      /\ UNCHANGED <<leader, panicked, executed, committed, wins, proposed, snapshots, changes>>
  BY DEF SyncCommit
<1> HIDE DEF ci
<1>4. ASSUME NEW i \in DOMAIN nodes
      PROVE  /\ Keeps(nodes[i], nodes'[i]) /\ nodes'[i].log = nodes[i].log
             /\ nodes'[i].commit_index = ci /\ nodes'[i].last_applied = nodes[i].last_applied
  <2>1. nodes[i] \in NodeState  BY <1>1 DEF ClusterType
  <2>2. nodes'[i] = [nodes[i] EXCEPT !.commit_index = ci]  BY <1>3
  <2> DEFINE b == nodes[i]
             m == [b EXCEPT !.commit_index = ci]
  <2>3. Keeps(b, m) /\ m.log = b.log /\ m.commit_index = ci /\ m.last_applied = b.last_applied
    <3> HIDE DEF b
    <3> QED  BY <2>1, <1>2, CommitState DEF b
  <2> HIDE DEF m
  <2> QED  BY <2>2, <2>3 DEF m
<1>5. DOMAIN nodes' = DOMAIN nodes /\ nodes' \in [DOMAIN nodes -> NodeState]
  BY <1>3, <1>4 DEF Keeps
<1>6. ClusterType' /\ NoPanic'
  BY <1>1, <1>3, <1>5 DEF ClusterType, NoPanic
<1>7. ElectionsKnown' /\ OneTerm'
  BY <1>1, <1>3, <1>4, <1>5, TermsKept
<1>8. OneLog'
  <2>1. \A i \in DOMAIN nodes : \E j \in DOMAIN nodes :
           nodes'[i].commit_index = nodes[j].commit_index
    BY <1>1, <1>4 DEF ci
  <2> QED  BY <2>1, <1>1, <1>3, <1>4, <1>5, LogsKept
<1>9. ExecutedLog'
  <2> SUFFICES ASSUME changes = 0, snapshots = 0, NEW i \in DOMAIN nodes
               PROVE  /\ nodes'[i].last_applied <= proposed
                      /\ Len(executed[i]) = nodes'[i].last_applied
                      /\ \A k \in 1..Len(executed[i]) : executed[i][k] = nodes'[i].log[k]
    BY <1>3, <1>5 DEF ExecutedLog
  <2>1. nodes'[i].last_applied = nodes[i].last_applied /\ nodes'[i].log = nodes[i].log
    BY <1>4
  <2>2. /\ nodes[i].last_applied <= proposed /\ Len(executed[i]) = nodes[i].last_applied
        /\ \A k \in 1..Len(executed[i]) : executed[i][k] = nodes[i].log[k]
    BY <1>1 DEF ExecutedLog
  <2> QED  BY <2>1, <2>2
<1> QED  BY <1>6, <1>7, <1>8, <1>9 DEF ClusterInv

\* What a node executes is its log from last_applied on, as far as it goes.
LEMMA AppliedIsSeq ==
    ASSUME NEW n \in NodeState
    PROVE  /\ Applied(n) \in Seq(Entry)
           /\ n.commit_index <= Len(n.log) /\ n.last_applied <= Len(n.log) =>
                 /\ n.last_applied + Len(Applied(n)) = Max({n.last_applied, n.commit_index})
                 /\ Max({n.last_applied, n.commit_index}) <= Len(n.log)
                 /\ \A k \in 1..Len(Applied(n)) : Applied(n)[k] = n.log[n.last_applied + k]
<1> DEFINE l == n.log
           a == n.last_applied
           c == n.commit_index
           m == Min({c, Len(l)})
<1>1. l \in Seq(Entry) /\ a \in Nat /\ c \in Nat /\ Len(l) \in Nat
  BY DEF NodeState
<1>2. Applied(n) = SubSeq(l, a + 1, m)
  BY DEF Applied
<1> HIDE DEF l, a, c
<1>3. m = IF c <= Len(l) THEN c ELSE Len(l)
  BY <1>1, MaxOfTwo
<1> HIDE DEF m
<1>4. m \in Nat /\ m <= Len(l)
  BY <1>1, <1>3
<1>5. SubSeq(l, a + 1, m) \in Seq(Entry)
  BY <1>1, <1>4
<1>6. Len(SubSeq(l, a + 1, m)) = IF a + 1 <= m THEN m - a ELSE 0
  BY <1>1, <1>4
<1>7. \A k \in 1..Len(SubSeq(l, a + 1, m)) : SubSeq(l, a + 1, m)[k] = l[a + k]
  BY <1>1, <1>4, <1>6
<1>8. ASSUME c <= Len(l), a <= Len(l)
      PROVE  a + Len(SubSeq(l, a + 1, m)) = Max({a, c}) /\ Max({a, c}) <= Len(l)
  <2>1. Max({a, c}) = IF a >= c THEN a ELSE c
    BY <1>1, MaxOfTwo
  <2> QED  BY <2>1, <1>1, <1>3, <1>6, <1>8
<1> QED  BY <1>2, <1>5, <1>7, <1>8 DEF l, a, c

LEMMA ApplyAllKeeps ==
    ASSUME ClusterInv, ApplyAll
    PROVE  ClusterInv'
<1>1. ClusterType /\ ElectionsKnown /\ OneTerm /\ OneLog /\ ExecutedLog /\ NoPanic
  BY DEF ClusterInv
<1>2. /\ nodes' = [i \in DOMAIN nodes |-> ApplyCommitted(nodes[i])]
      /\ executed' = [i \in NodeId |-> IF i \in DOMAIN nodes THEN executed[i] \o Applied(nodes[i])
                                       ELSE executed[i]]
      /\ UNCHANGED <<leader, panicked, committed, wins, proposed, snapshots, changes>>
  BY DEF ApplyAll
<1>3. ASSUME NEW i \in DOMAIN nodes
      PROVE  /\ nodes[i] \in NodeState /\ i \in NodeId
             /\ Keeps(nodes[i], nodes'[i]) /\ nodes'[i].log = nodes[i].log
             /\ nodes'[i].commit_index = nodes[i].commit_index
             /\ nodes'[i].last_applied = Max({nodes[i].last_applied, nodes[i].commit_index})
  <2>1. nodes[i] \in NodeState /\ i \in NodeId  BY <1>1 DEF ClusterType
  <2>2. nodes'[i] = ApplyCommitted(nodes[i])  BY <1>2
  <2> QED  BY <2>1, <2>2, ApplyState
<1>4. DOMAIN nodes' = DOMAIN nodes /\ nodes' \in [DOMAIN nodes -> NodeState]
  BY <1>2, <1>3 DEF Keeps
<1>5. ClusterType' /\ NoPanic'
  <2>1. executed' \in [NodeId -> Seq(Entry)]
    <3>1. ASSUME NEW i \in NodeId PROVE executed'[i] \in Seq(Entry)
      <4>1. executed[i] \in Seq(Entry)  BY <1>1 DEF ClusterType
      <4>2. CASE i \in DOMAIN nodes
        <5>1. Applied(nodes[i]) \in Seq(Entry)  BY <4>2, <1>3, AppliedIsSeq
        <5>2. executed'[i] = executed[i] \o Applied(nodes[i])  BY <4>2, <1>2
        <5> QED  BY <4>1, <5>1, <5>2
      <4>3. CASE i \notin DOMAIN nodes
        BY <4>1, <4>3, <1>2
      <4> QED  BY <4>2, <4>3
    <3> QED  BY <3>1, <1>2
  <2> QED  BY <2>1, <1>1, <1>2, <1>4 DEF ClusterType, NoPanic
<1>6. ElectionsKnown' /\ OneTerm'
  BY <1>1, <1>2, <1>3, <1>4, TermsKept
<1>7. OneLog'
  BY <1>1, <1>2, <1>3, <1>4, LogsKept
<1>8. ExecutedLog'
  <2> SUFFICES ASSUME changes = 0, snapshots = 0, NEW i \in DOMAIN nodes
               PROVE  /\ nodes'[i].last_applied <= proposed
                      /\ Len(executed'[i]) = nodes'[i].last_applied
                      /\ \A k \in 1..Len(executed'[i]) : executed'[i][k] = nodes'[i].log[k]
    BY <1>2, <1>4 DEF ExecutedLog
  <2> DEFINE n == nodes[i]
             x == executed[i]
             y == Applied(n)
  <2>1. /\ n \in NodeState /\ n.log \in Seq(Entry) /\ Len(n.log) = proposed
        /\ n.commit_index <= proposed /\ n.last_applied <= proposed
        /\ n.last_applied \in Nat
    BY <1>1, <1>3 DEF OneLog, ExecutedLog, NodeState
  <2>2. x \in Seq(Entry) /\ Len(x) = n.last_applied /\ \A k \in 1..Len(x) : x[k] = n.log[k]
    BY <1>1, <1>3 DEF ExecutedLog, ClusterType
  <2>3. /\ y \in Seq(Entry)
        /\ n.last_applied + Len(y) = Max({n.last_applied, n.commit_index})
        /\ Max({n.last_applied, n.commit_index}) <= Len(n.log)
        /\ \A k \in 1..Len(y) : y[k] = n.log[n.last_applied + k]
    <3> HIDE DEF n
    <3> QED  BY <2>1, AppliedIsSeq
  <2>4. executed'[i] = x \o y /\ nodes'[i].log = n.log
        /\ nodes'[i].last_applied = Max({n.last_applied, n.commit_index})
    BY <1>2, <1>3
  <2> HIDE DEF n, x, y
  <2>5. Len(x \o y) = Len(x) + Len(y) /\ Len(x) \in Nat /\ Len(y) \in Nat
    <3>1. x \in Seq(Entry) /\ y \in Seq(Entry)  BY <2>2, <2>3
    <3> QED  BY <3>1
  <2>6. ASSUME NEW k \in 1..Len(x \o y) PROVE (x \o y)[k] = n.log[k]
    <3>1. CASE k <= Len(x)
      <4>1. (x \o y)[k] = x[k] /\ k \in 1..Len(x)  BY <2>2, <2>3, <2>5, <3>1
      <4> QED  BY <4>1, <2>2
    <3>2. CASE ~(k <= Len(x))
      <4>1. (x \o y)[k] = y[k - Len(x)] /\ k - Len(x) \in 1..Len(y)  BY <2>2, <2>3, <2>5, <3>2
      <4>2. y[k - Len(x)] = n.log[n.last_applied + (k - Len(x))]  BY <4>1, <2>3
      <4>3. n.last_applied + (k - Len(x)) = k  BY <2>2, <2>5
      <4> QED  BY <4>1, <4>2, <4>3
    <3> QED  BY <3>1, <3>2
  <2>7. Len(x \o y) = Max({n.last_applied, n.commit_index})
    BY <2>2, <2>3, <2>5
  <2> QED  BY <2>1, <2>3, <2>4, <2>6, <2>7
<1> QED  BY <1>5, <1>6, <1>7, <1>8 DEF ClusterInv

\* The first snapshot finds as much in the log as is committed.
LEMMA SnapshotAndSyncKeeps ==
    ASSUME ClusterInv, SnapshotAndSync
    PROVE  ClusterInv'
<1> DEFINE n == nodes[leader]
           last == n.commit_index
           data == SubSeq(n.log, 1, last)
<1>1. /\ ClusterType /\ ElectionsKnown /\ OneTerm /\ OneLog /\ NoPanic
      /\ leader \in DOMAIN nodes /\ ~panicked /\ snapshots' = snapshots + 1
      /\ UNCHANGED <<leader, committed, wins, proposed, changes>>
  BY Zenon DEF ClusterInv, SnapshotAndSync
<1>2. n \in NodeState /\ last \in Nat /\ n.log \in Seq(Entry) /\ snapshots \in Nat
  BY <1>1 DEF ClusterType, NodeState
<1>3. OneLog' /\ ExecutedLog'
  BY <1>1, <1>2 DEF OneLog, ExecutedLog
<1>4. changes = 0 /\ snapshots = 0 => CanDrain(n)
  BY <1>1 DEF OneLog, CanDrain
<1>5. CASE ~CanDrain(n)
  <2>1. UNCHANGED <<nodes, executed>>
    BY <1>5, Zenon DEF SnapshotAndSync
  <2>2. ClusterType' /\ ElectionsKnown' /\ OneTerm'
    BY <1>1, <1>2, <2>1 DEF ClusterType, ElectionsKnown, OneTerm, LeaderThere
  <2>3. NoPanic'
    BY <1>1, <1>2, <1>4, <1>5 DEF NoPanic
  <2> QED  BY <2>2, <2>3, <1>3 DEF ClusterInv
<1>6. CASE CanDrain(n)
  <2>1. /\ nodes' = [i \in DOMAIN nodes |->
                       IF i = leader THEN CreateSnapshot(nodes[i]) ELSE InstallSnapshot(nodes[i], last)]
        /\ executed' = [i \in NodeId |->
                          IF i \in DOMAIN nodes \ {leader} /\ last > nodes[i].commit_index
                          THEN data ELSE executed[i]]
        /\ UNCHANGED panicked
    BY <1>6, Zenon DEF SnapshotAndSync
  <2>2. last <= Len(n.log)
    BY <1>6 DEF CanDrain
  <2>3. data \in Seq(Entry)
    <3> DEFINE l == n.log
    <3> SUFFICES SubSeq(l, 1, last) \in Seq(Entry)
      OBVIOUS
    <3>1. l \in Seq(Entry) /\ last \in Nat /\ last <= Len(l)  BY <1>2, <2>2
    <3> HIDE DEF l, last
    <3> QED  BY <3>1
  <2> HIDE DEF last, data
  <2>4. ASSUME NEW i \in DOMAIN nodes PROVE Keeps(nodes[i], nodes'[i])
    <3>1. nodes[i] \in NodeState  BY <1>1 DEF ClusterType
    <3>2. CASE i = leader
      <4>1. nodes'[i] = CreateSnapshot(nodes[i])  BY <2>1, <3>2
      <4>2. nodes[i].commit_index <= Len(nodes[i].log)  BY <2>2, <3>2 DEF last
      <4> QED  BY <3>1, <4>1, <4>2, <1>2, SnapshotStates
    <3>3. CASE i # leader
      <4>1. nodes'[i] = InstallSnapshot(nodes[i], last)  BY <2>1, <3>3
      <4> QED  BY <3>1, <4>1, <1>2, SnapshotStates
    <3> QED  BY <3>2, <3>3
  <2>5. DOMAIN nodes' = DOMAIN nodes /\ nodes' \in [DOMAIN nodes -> NodeState]
    BY <2>1, <2>4 DEF Keeps
  <2>6. executed' \in [NodeId -> Seq(Entry)]
    <3>1. executed \in [NodeId -> Seq(Entry)]  BY <1>1 DEF ClusterType
    <3> QED  BY <3>1, <2>1, <2>3
  <2>7. ClusterType' /\ NoPanic'
    BY <1>1, <1>2, <2>1, <2>5, <2>6 DEF ClusterType, NoPanic
  <2>8. ElectionsKnown' /\ OneTerm'
    BY <1>1, <2>4, <2>5, TermsKept
  <2> QED  BY <2>7, <2>8, <1>3 DEF ClusterInv
<1> QED  BY <1>5, <1>6

\* What a change of the members leaves to prove: the rest speaks of fixed members.
LEMMA MembersChanged ==
    ASSUME ClusterInv, changes' = changes + 1, ClusterType', ElectionsKnown'
    PROVE  ClusterInv'
<1>1. changes \in Nat
  BY DEF ClusterInv, ClusterType
<1>2. changes' # 0
  BY <1>1
<1> QED  BY <1>2 DEF ClusterInv, OneTerm, OneLog, ExecutedLog, NoPanic

LEMMA DepartedWins ==
    ASSUME ClusterInv, NEW id \in NodeId
    PROVE  /\ Departed(id) \subseteq [term : Nat, id : NodeId, left : SUBSET NodeId]
           /\ \A w \in Departed(id) : \E v \in wins :
                 w.term = v.term /\ w.id = v.id /\ w.left = v.left \ {id}
<1>1. wins \subseteq [term : Nat, id : NodeId, left : SUBSET NodeId]
  BY DEF ClusterInv, ClusterType
<1> SUFFICES ASSUME NEW v \in wins
             PROVE  LET w == [v EXCEPT !.left = @ \ {id}]
                    IN  /\ w \in [term : Nat, id : NodeId, left : SUBSET NodeId]
                        /\ w.term = v.term /\ w.id = v.id /\ w.left = v.left \ {id}
  BY DEF Departed
<1> QED  BY <1>1

LEMMA AddNodeKeeps ==
    ASSUME ClusterAssumption, ClusterInv, NEW id \in NodeId, AddNode(id)
    PROVE  ClusterInv'
<1> DEFINE D == DOMAIN nodes
<1>1. ClusterType /\ ElectionsKnown /\ None \notin NodeId
  BY DEF ClusterInv, ClusterAssumption
<1>2. /\ nodes' = [i \in D \cup {id} |-> IF i = id THEN RaftNode(D) ELSE AddPeer(nodes[i], id)]
      /\ executed' = [executed EXCEPT ![id] = <<>>]
      /\ wins' = Departed(id) /\ changes' = changes + 1
      /\ UNCHANGED <<leader, committed, proposed, snapshots>>
  BY DEF AddNode
<1>3. D \in SUBSET NodeId
  BY <1>1 DEF ClusterType
<1>4. ASSUME NEW i \in D, i # id
      PROVE  Keeps(nodes[i], nodes'[i])
  <2>1. nodes[i] \in NodeState  BY <1>1 DEF ClusterType
  <2>2. nodes'[i] = AddPeer(nodes[i], id)  BY <1>2, <1>4
  <2> QED  BY <2>1, <2>2, <1>1, <1>3, MemberStates
<1>5. nodes'[id] \in NodeState
  <2>1. RaftNode(D) \in NodeState
    <3>2. <<>> \in MatchIndex
      <4>1. <<>> \in [{} -> Nat]  OBVIOUS
      <4> QED  BY <4>1 DEF MatchIndex
    <3>3. <<>> \in Seq(Entry)  OBVIOUS
    <3> HIDE DEF D
    <3> QED  BY <1>3, <3>2, <3>3 DEF RaftNode, NodeState
  <2>2. nodes'[id] = RaftNode(D)
    <3> HIDE DEF D
    <3> QED  BY <1>2
  <2> QED  BY <2>1, <2>2
<1>6. DOMAIN nodes' = D \cup {id} /\ nodes' \in [DOMAIN nodes' -> NodeState]
  <2>1. DOMAIN nodes' = D \cup {id}  BY <1>2
  <2>2. \A i \in D \cup {id} : nodes'[i] \in NodeState
    BY <1>4, <1>5 DEF Keeps
  <2>3. nodes' = [i \in DOMAIN nodes' |-> nodes'[i]]
    BY <1>2
  <2> QED  BY <2>1, <2>2, <2>3
<1>7. ClusterType'
  <2>1. executed' \in [NodeId -> Seq(Entry)]
    <3>1. <<>> \in Seq(Entry)  OBVIOUS
    <3> QED  BY <1>1, <1>2, <3>1 DEF ClusterType
  <2>2. changes' \in Nat
    BY <1>1, <1>2 DEF ClusterType
  <2> QED  BY <1>1, <1>2, <1>3, <1>6, <2>1, <2>2, DepartedWins DEF ClusterType
<1>8. ElectionsKnown'
  <2> SUFFICES ASSUME NEW w \in wins', NEW i \in w.left
               PROVE  i \in DOMAIN nodes' /\ nodes'[i].current_term >= w.term
                      /\ nodes'[i].voted_for # None
    BY DEF ElectionsKnown
  <2>1. PICK v \in wins : w.term = v.term /\ w.left = v.left \ {id}
    BY <1>2, DepartedWins
  <2>2. i \in D /\ i # id /\ nodes[i].current_term >= w.term /\ nodes[i].voted_for # None
    BY <1>1, <2>1 DEF ElectionsKnown
  <2> QED  BY <1>4, <1>6, <2>2 DEF Keeps
<1> QED  BY <1>2, <1>7, <1>8, MembersChanged

LEMMA RemoveNodeKeeps ==
    ASSUME ClusterAssumption, ClusterInv, NEW id \in DOMAIN nodes, RemoveNode(id)
    PROVE  ClusterInv'
<1> DEFINE D == DOMAIN nodes
<1>1. ClusterType /\ ElectionsKnown /\ None \notin NodeId /\ id \in NodeId
  BY DEF ClusterInv, ClusterAssumption, ClusterType
<1>2. /\ nodes' = [i \in D \ {id} |-> RemovePeer(nodes[i], id)]
      /\ wins' = Departed(id) /\ changes' = changes + 1
      /\ UNCHANGED <<leader, executed, committed, proposed, snapshots>>
  BY DEF RemoveNode
<1>3. D \in SUBSET NodeId
  BY <1>1 DEF ClusterType
<1>4. ASSUME NEW i \in D, i # id
      PROVE  Keeps(nodes[i], nodes'[i])
  <2>1. nodes[i] \in NodeState  BY <1>1 DEF ClusterType
  <2>2. nodes'[i] = RemovePeer(nodes[i], id)  BY <1>2, <1>4
  <2> QED  BY <2>1, <2>2, <1>1, <1>3, MemberStates
<1>6. DOMAIN nodes' = D \ {id} /\ nodes' \in [DOMAIN nodes' -> NodeState]
  <2>1. DOMAIN nodes' = D \ {id}  BY <1>2
  <2>2. \A i \in D \ {id} : nodes'[i] \in NodeState
    BY <1>4 DEF Keeps
  <2>3. nodes' = [i \in DOMAIN nodes' |-> nodes'[i]]
    BY <1>2
  <2> QED  BY <2>1, <2>2, <2>3
<1>7. ClusterType'
  <2>2. changes' \in Nat
    BY <1>1, <1>2 DEF ClusterType
  <2> QED  BY <1>1, <1>2, <1>3, <1>6, <2>2, DepartedWins DEF ClusterType
<1>8. ElectionsKnown'
  <2> SUFFICES ASSUME NEW w \in wins', NEW i \in w.left
               PROVE  i \in DOMAIN nodes' /\ nodes'[i].current_term >= w.term
                      /\ nodes'[i].voted_for # None
    BY DEF ElectionsKnown
  <2>1. PICK v \in wins : w.term = v.term /\ w.left = v.left \ {id}
    BY <1>1, <1>2, DepartedWins
  <2>2. i \in D /\ i # id /\ nodes[i].current_term >= w.term /\ nodes[i].voted_for # None
    BY <1>1, <2>1 DEF ElectionsKnown
  <2> QED  BY <1>4, <1>6, <2>2 DEF Keeps
<1> QED  BY <1>2, <1>7, <1>8, MembersChanged

LEMMA ClusterNext ==
    ASSUME ClusterAssumption, ClusterInv, [RaftNext]_raft_vars
    PROVE  ClusterInv'
<1>1. CASE UNCHANGED raft_vars
  BY <1>1 DEF raft_vars, ClusterInv, ClusterType, ElectionsKnown, OneTerm, OneLog, ExecutedLog,
              NoPanic, LeaderThere
<1>2. ASSUME NEW c \in DOMAIN nodes, ElectLeader(c) PROVE ClusterInv'
  BY <1>2, ElectLeaderKeeps
<1>3. CASE ReplicateEntry
  <2>1. CASE LeaderThere  BY <1>3, <2>1, ReplicateEntryKeeps
  <2>2. CASE ~LeaderThere  BY <1>3, <2>2, ReplicateEntryPanics
  <2> QED  BY <2>1, <2>2
<1>4. CASE SyncCommit  BY <1>4, SyncCommitKeeps
<1>5. CASE ApplyAll  BY <1>5, ApplyAllKeeps
<1>6. CASE SnapshotAndSync  BY <1>6, SnapshotAndSyncKeeps
<1>7. ASSUME NEW id \in NodeId, AddNode(id) PROVE ClusterInv'
  BY <1>7, AddNodeKeeps
<1>8. ASSUME NEW id \in DOMAIN nodes, RemoveNode(id) PROVE ClusterInv'
  BY <1>8, RemoveNodeKeeps
<1> QED  BY <1>1, <1>2, <1>3, <1>4, <1>5, <1>6, <1>7, <1>8 DEF RaftNext

LEMMA ClusterInvariant ==
    ASSUME ClusterAssumption
    PROVE  RaftSpec => []ClusterInv
<1>1. RaftInit => ClusterInv
  BY ClusterInit
<1>2. ClusterInv /\ [RaftNext]_raft_vars => ClusterInv'
  BY ClusterNext
<1> QED  BY <1>1, <1>2, PTL DEF RaftSpec

-----------------------------------------------------------------------------
(* What the cluster promises. *)

LEMMA OneLogIsConsistent ==
    ASSUME ClusterInv
    PROVE  CommittedEverywhere
<1> SUFFICES ASSUME changes = 0, snapshots = 0
             PROVE  VerifyConsistency /\ \A i \in DOMAIN nodes : IsPrefix(committed, nodes[i].log)
  BY DEF CommittedEverywhere
<1>1. ClusterType /\ OneLog
  BY DEF ClusterInv
<1>2. VerifyConsistency
  BY <1>1 DEF OneLog, VerifyConsistency
<1>3. ASSUME NEW i \in DOMAIN nodes PROVE IsPrefix(committed, nodes[i].log)
  <2> DEFINE l == nodes[i].log
  <2>1. /\ l \in Seq(Entry) /\ committed \in Seq(Entry)
        /\ Len(committed) <= Len(l) /\ \A k \in 1..Len(committed) : committed[k] = l[k]
    BY <1>1 DEF ClusterType, NodeState, OneLog
  <2> HIDE DEF l
  <2>2. IsPrefix(committed, l)
    <3>1. Len(SubSeq(l, 1, Len(committed))) = Len(committed)
      BY <2>1
    <3>2. \A k \in 1..Len(committed) : SubSeq(l, 1, Len(committed))[k] = committed[k]
      BY <2>1
    <3>3. SubSeq(l, 1, Len(committed)) \in Seq(Entry)
      BY <2>1
    <3>4. SubSeq(l, 1, Len(committed)) = committed
      BY <2>1, <3>1, <3>2, <3>3, SeqEqual
    <3> QED  BY <2>1, <3>4 DEF IsPrefix
  <2> QED  BY <2>2 DEF l
<1> QED  BY <1>2, <1>3

LEMMA ExecutedInOrder ==
    ASSUME ClusterInv
    PROVE  AppliedInOrderAtRest
<1> SUFFICES ASSUME changes = 0, snapshots = 0, NEW i \in DOMAIN nodes, NEW k \in DOMAIN executed[i]
             PROVE  executed[i][k].data = k
  BY DEF AppliedInOrderAtRest, AppliedInOrder
<1>1. ClusterType /\ OneLog /\ ExecutedLog
  BY DEF ClusterInv
<1>2. k \in 1..Len(executed[i])
  BY <1>1 DEF ClusterType
<1>3. executed[i][k] = nodes[i].log[k] /\ k \in 1..proposed
  BY <1>1, <1>2 DEF ExecutedLog, ClusterType
<1> QED  BY <1>1, <1>3 DEF OneLog

\* With the members it started with no call of the cluster panics; until the first
\* snapshot the logs agree, what is committed is the beginning of each, and every
\* node executes the entries in their order (RaftCluster of cendb-replication).
THEOREM ClusterIsSafe ==
    ASSUME ClusterAssumption
    PROVE  RaftSpec => []RaftSafe
<1>1. ClusterInv => RaftSafe
  BY OneLogIsConsistent, ExecutedInOrder DEF RaftSafe, ClusterInv
<1> QED  BY <1>1, ClusterInvariant, PTL

\* Nodes that stay do not elect a second leader of a term, whatever members come
\* and go: a second winner has a majority of nodes that were added since
\* (elect_leader and request_vote).
THEOREM OneWinner ==
    ASSUME ClusterAssumption
    PROVE  RaftSpec => OneWinnerPerTerm
<1> DEFINE Step == \A w \in {v \in wins' : v.left = DOMAIN nodes} \ wins : \A v \in wins :
                      v.term = w.term => Cardinality(DOMAIN nodes \ v.left) >= Majority
<1>1. ASSUME ClusterInv, [RaftNext]_raft_vars PROVE [Step]_raft_vars
  <2>1. ClusterType /\ ElectionsKnown
    BY <1>1 DEF ClusterInv
  <2>3. ASSUME NEW c \in DOMAIN nodes, ElectLeader(c) PROVE Step
    <3> SUFFICES ASSUME NEW w \in wins', w \notin wins, NEW v \in wins, v.term = w.term
                 PROVE  Cardinality(DOMAIN nodes \ v.left) >= Majority
      OBVIOUS
    <3>1. w = Victory(c) /\ Won(c)
      BY <1>1, <2>1, <2>3, ElectionStep
    <3>2. v.term = nodes[c].current_term + 1
      BY <3>1 DEF Victory
    <3> DEFINE R == DOMAIN nodes \ v.left
    <3>3. /\ \A i \in DOMAIN nodes : i \in NodeId /\ nodes[i].current_term \in Nat
          /\ v.term \in Nat
      BY <2>1 DEF ClusterType, NodeState
    <3>4. Voters(c) \subseteq R /\ c \in R /\ c \notin Voters(c)
      BY <2>1, <3>2, <3>3 DEF ElectionsKnown, Voters, GrantsVote
    <3>5. IsFiniteSet(R) /\ IsFiniteSet(Voters(c))
      <4>1. R \subseteq NodeId /\ Voters(c) \subseteq NodeId
        BY <3>3, <3>4
      <4> HIDE DEF R
      <4> QED  BY <4>1, FS_Subset DEF ClusterAssumption
    <3>6. Cardinality(Voters(c) \cup {c}) = Cardinality(Voters(c)) + 1
          /\ IsFiniteSet(Voters(c) \cup {c})
      BY <3>4, <3>5, FS_AddElement
    <3>7. Cardinality(Voters(c) \cup {c}) <= Cardinality(R)
      <4>1. Voters(c) \cup {c} \subseteq R  BY <3>4
      <4> HIDE DEF R
      <4> QED  BY <4>1, <3>5, FS_Subset
    <3>8. Cardinality(Voters(c)) \in Nat /\ Cardinality(R) \in Nat /\ Majority \in Int
      <4>1. IsFiniteSet(DOMAIN nodes)
        <5>1. DOMAIN nodes \subseteq NodeId  BY <3>3
        <5> QED  BY <5>1, FS_Subset DEF ClusterAssumption
      <4>2. Cardinality(DOMAIN nodes) \in Nat  BY <4>1, FS_CardinalityType
      <4> QED  BY <4>2, <3>5, FS_CardinalityType DEF Majority
    <3>9. Cardinality(R) >= Majority
      <4> HIDE DEF R
      <4> QED  BY <3>1, <3>6, <3>7, <3>8 DEF Won
    <3> QED  BY <3>9
  <2>4. ASSUME NEW id \in NodeId, wins' = Departed(id) PROVE Step
    <3> SUFFICES ASSUME NEW w \in Departed(id), w.left = DOMAIN nodes
                 PROVE  w \in wins
      BY <2>4
    <3>1. PICK v \in wins : w = [v EXCEPT !.left = @ \ {id}]
      BY DEF Departed
    <3>2. v \in [term : Nat, id : NodeId, left : SUBSET NodeId] /\ v.left \subseteq DOMAIN nodes
      BY <2>1 DEF ClusterType, ElectionsKnown
    <3>3. w.left = v.left \ {id}
      BY <3>1, <3>2
    <3>4. v.left \ {id} = v.left
      BY <3>2, <3>3
    <3>5. w = v
      BY <3>1, <3>2, <3>4
    <3> QED  BY <3>5
  <2>5. \/ wins' = wins
        \/ \E c \in DOMAIN nodes : ElectLeader(c)
        \/ \E id \in NodeId : wins' = Departed(id)
    <3>1. \A id \in DOMAIN nodes : id \in NodeId
      BY <2>1 DEF ClusterType
    <3> QED  BY <1>1, <3>1, Zenon
             DEF RaftNext, raft_vars, ReplicateEntry, SyncCommit, ApplyAll, SnapshotAndSync, AddNode, RemoveNode
  <2> QED
    <3> HIDE DEF Step
    <3>1. Step
      <4>1. wins' = wins => Step
        BY DEF Step
      <4> QED  BY <4>1, <2>3, <2>4, <2>5
    <3> QED  BY <3>1
<1> QED  BY <1>1, ClusterInvariant, PTL DEF RaftSpec, OneWinnerPerTerm

-----------------------------------------------------------------------------
(* The shipping of the log: WalShipper and ReplicaApplier. *)

ShipType ==
    /\ sealed \in Nat /\ last_shipped_lsn \in Nat /\ last_applied_lsn \in Nat
    /\ writing \in Nat /\ broken \in Nat /\ restarts \in Nat
    /\ DOMAIN files \subseteq 1..sealed /\ files \in [DOMAIN files -> BOOLEAN]
    /\ writing # 0 => writing \in DOMAIN files

\* Without a fault the directory holds what has been shipped and the segment being
\* written, which is newer; the replica is no further than that one.
Unbroken ==
    restarts + broken = 0 =>
        /\ \A l \in DOMAIN files : l = writing \/ (l <= last_shipped_lsn /\ files[l])
        /\ writing # 0 => writing > last_shipped_lsn
        /\ last_applied_lsn = writing \/ last_applied_lsn <= last_shipped_lsn
        /\ \A l \in DOMAIN files : l <= last_applied_lsn => l \in counted
        /\ partial = {}

ShipInv == ShipType /\ Unbroken

\* A segment's file appears behind every one the replica has gone over.
LEMMA CreateFileKeeps ==
    ASSUME ShipInv, NEW lsn \in 1..sealed, CreateFile(lsn)
    PROVE  ShipInv'
<1>1. /\ writing = 0 /\ lsn > last_shipped_lsn /\ writing' = lsn
      /\ files' = [l \in DOMAIN files \cup {lsn} |-> IF l = lsn THEN FALSE ELSE files[l]]
      /\ UNCHANGED <<sealed, last_shipped_lsn, last_applied_lsn, counted, partial, broken, restarts>>
  BY DEF CreateFile, Accepts
<1>2. lsn \in Nat /\ lsn # 0 /\ sealed \in Nat
  BY DEF ShipInv, ShipType
<1>3. DOMAIN files' = DOMAIN files \cup {lsn}
  BY <1>1
<1>4. ASSUME NEW l \in DOMAIN files, l # lsn PROVE files'[l] = files[l]
  BY <1>1, <1>4
<1>5. ShipType'
  <2>1. files' \in [DOMAIN files' -> BOOLEAN]
    BY <1>1, <1>3 DEF ShipInv, ShipType
  <2>2. DOMAIN files' \subseteq 1..sealed
    BY <1>3 DEF ShipInv, ShipType
  <2> QED  BY <1>1, <1>2, <1>3, <2>1, <2>2 DEF ShipInv, ShipType
<1>6. Unbroken'
  <2> SUFFICES ASSUME restarts + broken = 0
               PROVE  /\ \A l \in DOMAIN files' : l = lsn \/ (l <= last_shipped_lsn /\ files'[l])
                      /\ last_applied_lsn <= last_shipped_lsn
                      /\ \A l \in DOMAIN files' : l <= last_applied_lsn => l \in counted
                      /\ partial = {}
    BY <1>1 DEF Unbroken
  <2>1. /\ \A l \in DOMAIN files : l = writing \/ (l <= last_shipped_lsn /\ files[l])
        /\ last_applied_lsn = writing \/ last_applied_lsn <= last_shipped_lsn
        /\ \A l \in DOMAIN files : l <= last_applied_lsn => l \in counted
        /\ partial = {}
    BY DEF ShipInv, Unbroken
  <2>2. /\ \A l \in DOMAIN files : l # 0 /\ l \in Nat
        /\ last_shipped_lsn \in Nat /\ last_applied_lsn \in Nat
    BY <1>2 DEF ShipInv, ShipType
  <2>3. last_applied_lsn <= last_shipped_lsn
    BY <1>1, <2>1, <2>2
  <2>4. \A l \in DOMAIN files' : l = lsn \/ (l <= last_shipped_lsn /\ files'[l])
    BY <1>1, <1>3, <1>4, <2>1, <2>2
  <2>5. \A l \in DOMAIN files' : l <= last_applied_lsn => l \in counted
    BY <1>1, <1>2, <1>3, <2>1, <2>2, <2>3
  <2> QED  BY <2>1, <2>3, <2>4, <2>5
<1> QED  BY <1>5, <1>6 DEF ShipInv

LEMMA WriteAndSyncKeeps ==
    ASSUME ShipInv, WriteAndSync
    PROVE  ShipInv'
<1>1. /\ writing # 0 /\ writing' = 0 /\ last_shipped_lsn' = writing
      /\ files' = [files EXCEPT ![writing] = TRUE]
      /\ UNCHANGED <<sealed, last_applied_lsn, counted, partial, broken, restarts>>
  BY DEF WriteAndSync
<1>2. writing \in DOMAIN files /\ writing \in Nat
  BY <1>1 DEF ShipInv, ShipType
<1>3. DOMAIN files' = DOMAIN files /\ files'[writing] = TRUE
      /\ \A l \in DOMAIN files : l # writing => files'[l] = files[l]
  BY <1>1, <1>2 DEF ShipInv, ShipType
<1>4. ShipType'
  <2>1. files' \in [DOMAIN files' -> BOOLEAN]
    BY <1>1, <1>3 DEF ShipInv, ShipType
  <2> QED  BY <1>1, <1>2, <1>3, <2>1 DEF ShipInv, ShipType
<1>5. Unbroken'
  <2> SUFFICES ASSUME restarts + broken = 0
               PROVE  /\ \A l \in DOMAIN files : l <= writing /\ files'[l]
                      /\ last_applied_lsn <= writing
                      /\ \A l \in DOMAIN files : l <= last_applied_lsn => l \in counted
                      /\ partial = {}
    BY <1>1, <1>3 DEF Unbroken
  <2>1. /\ \A l \in DOMAIN files : l = writing \/ (l <= last_shipped_lsn /\ files[l])
        /\ writing > last_shipped_lsn
        /\ last_applied_lsn = writing \/ last_applied_lsn <= last_shipped_lsn
        /\ \A l \in DOMAIN files : l <= last_applied_lsn => l \in counted
        /\ partial = {}
    BY <1>1 DEF ShipInv, Unbroken
  <2>2. /\ \A l \in DOMAIN files : l \in Nat
        /\ last_shipped_lsn \in Nat /\ last_applied_lsn \in Nat /\ sealed \in Nat
    BY DEF ShipInv, ShipType
  <2> QED  BY <1>2, <1>3, <2>1, <2>2
<1> QED  BY <1>4, <1>5 DEF ShipInv

LEMMA CatchUpKeeps ==
    ASSUME ShipInv, CatchUp
    PROVE  ShipInv'
<1> DEFINE new == NewFiles
<1>1. /\ new # {} /\ counted' = counted \cup new
      /\ partial' = partial \cup {l \in new : ~files[l] /\ l # writing}
      /\ last_applied_lsn' = Max(new)
      /\ UNCHANGED <<sealed, last_shipped_lsn, writing, files, broken, restarts>>
  BY DEF CatchUp, Max, Max
<1>2. new = {l \in DOMAIN files : l > last_applied_lsn}
  BY DEF NewFiles
<1> HIDE DEF new
<1>3. /\ \A l \in DOMAIN files : l \in Nat /\ l <= sealed
      /\ sealed \in Nat /\ last_applied_lsn \in Nat /\ last_shipped_lsn \in Nat
  BY DEF ShipInv, ShipType
<1>4. Max(new) \in new /\ \A l \in new : l <= Max(new)
  <2>1. new \in SUBSET Int /\ \A l \in new : l <= sealed
    BY <1>2, <1>3
  <2>2. sealed \in Int
    BY <1>3
  <2> QED  BY <1>1, <2>1, <2>2, MaxOfBounded, Zenon
<1>5. Max(new) \in DOMAIN files /\ Max(new) \in Nat
  BY <1>2, <1>3, <1>4
<1>6. ShipType'
  BY <1>1, <1>5 DEF ShipInv, ShipType
<1>7. Unbroken'
  <2> SUFFICES ASSUME restarts + broken = 0
               PROVE  /\ last_applied_lsn' = writing \/ last_applied_lsn' <= last_shipped_lsn
                      /\ \A l \in DOMAIN files : l <= last_applied_lsn' => l \in counted'
                      /\ partial' = {}
    BY <1>1 DEF Unbroken, ShipInv
  <2>1. /\ \A l \in DOMAIN files : l = writing \/ (l <= last_shipped_lsn /\ files[l])
        /\ \A l \in DOMAIN files : l <= last_applied_lsn => l \in counted
        /\ partial = {}
    BY DEF ShipInv, Unbroken
  <2>2. last_applied_lsn' = writing \/ last_applied_lsn' <= last_shipped_lsn
    BY <1>1, <1>5, <2>1
  <2>3. \A l \in DOMAIN files : l <= last_applied_lsn' => l \in counted'
    <3>1. \A l \in DOMAIN files : l \in new \/ l <= last_applied_lsn
      BY <1>2, <1>3
    <3> QED  BY <3>1, <2>1, <1>1
  <2>4. partial' = {}
    BY <1>1, <1>2, <2>1
  <2> QED  BY <2>2, <2>3, <2>4
<1> QED  BY <1>6, <1>7 DEF ShipInv

LEMMA ShipKeeps ==
    ASSUME ShipInv, [ShipNext]_ship_vars
    PROVE  ShipInv'
<1>1. CASE UNCHANGED ship_vars
  BY <1>1 DEF ship_vars, ShipInv, ShipType, Unbroken
<1>2. CASE Seal
  <2>1. /\ sealed' = sealed + 1
        /\ UNCHANGED <<last_shipped_lsn, writing, files, last_applied_lsn, counted, partial, broken, restarts>>
    BY <1>2 DEF Seal
  <2>2. ShipType'
    <3>1. sealed \in Nat /\ DOMAIN files \subseteq 1..sealed  BY DEF ShipInv, ShipType
    <3>2. DOMAIN files \subseteq 1..(sealed + 1)  BY <3>1
    <3> QED  BY <2>1, <3>1, <3>2 DEF ShipInv, ShipType
  <2> QED  BY <2>1, <2>2 DEF ShipInv, Unbroken
<1>3. CASE Tick
  BY <1>3 DEF Tick, ShipInv, ShipType, Unbroken
<1>4. CASE WriteAndSync
  BY <1>4, WriteAndSyncKeeps
<1>5. CASE WriteFails \/ Restart
  <2>1. /\ writing' = 0 /\ last_shipped_lsn' \in {0, last_shipped_lsn}
        /\ \/ broken' = broken + 1 /\ restarts' = restarts
           \/ broken' = broken /\ restarts' = restarts + 1
        /\ UNCHANGED <<sealed, files, last_applied_lsn, counted, partial>>
    BY <1>5 DEF WriteFails, Restart
  <2>2. broken \in Nat /\ restarts \in Nat
    BY DEF ShipInv, ShipType
  <2>3. restarts' + broken' # 0
    BY <2>1, <2>2
  <2>4. ShipType'
    BY <2>1, <2>2 DEF ShipInv, ShipType
  <2> QED  BY <2>3, <2>4 DEF ShipInv, Unbroken
<1>6. CASE CatchUp
  BY <1>6, CatchUpKeeps
<1>7. ASSUME NEW lsn \in 1..sealed, CreateFile(lsn) PROVE ShipInv'
  BY <1>7, CreateFileKeeps
<1> QED  BY <1>1, <1>2, <1>3, <1>4, <1>5, <1>6, <1>7 DEF ShipNext

\* As long as no write of a segment has failed and the shipper has not restarted,
\* no segment arrives behind the replica, which takes none but the one being
\* written when it is not whole; what was shipped stays whole (ship_segment,
\* catch_up).
THEOREM ShippingIsSafe == ShipSpec => []ShippingSafe
<1>1. ShipInit => ShipInv
  <2> SUFFICES ASSUME ShipInit PROVE ShipInv
    OBVIOUS
  <2>1. DOMAIN files = {} /\ files \in [DOMAIN files -> BOOLEAN]
    BY DEF ShipInit
  <2> QED  BY <2>1 DEF ShipInit, Fresh, ShipInv, ShipType, Unbroken
<1>2. ShipInv /\ [ShipNext]_ship_vars => ShipInv'
  BY ShipKeeps
<1>3. ShipInv => ShippingSafe
  <2> SUFFICES ASSUME ShipInv PROVE ShippingSafe
    OBVIOUS
  <2>1. broken \in Nat /\ restarts \in Nat
    BY DEF ShipInv, ShipType
  <2>2. broken + restarts > 0 \/ restarts + broken = 0
    BY <2>1
  <2>3. CASE restarts + broken = 0
    BY <2>3 DEF ShipInv, Unbroken, ShippingSafe, NothingSkipped,
                PartialOnlyOnFault, ShippedWhole
  <2>4. CASE broken + restarts > 0
    BY <2>1, <2>4 DEF ShippingSafe, NothingSkipped,
                PartialOnlyOnFault, ShippedWhole
  <2> QED  BY <2>2, <2>3, <2>4
<1> QED  BY <1>1, <1>2, <1>3, PTL DEF ShipSpec

-----------------------------------------------------------------------------
(***************************************************************************)
(* The transport: five parts that share no state, each with an invariant of*)
(* its own, for any number of threads, messages, nodes, reads, partitions  *)
(* and operations.                                                         *)
(***************************************************************************)

\* The elements of a finite set of integers, numbered from below.
Rank(S, x) == Cardinality({y \in S : y <= x})

LEMMA Ranks ==
    ASSUME NEW S \in SUBSET Int, IsFiniteSet(S)
    PROVE  /\ Cardinality(S) \in Nat
           /\ \A x \in S : Rank(S, x) \in 1..Cardinality(S)
           /\ \A k \in 1..Cardinality(S) : \E x \in S : Rank(S, x) = k
           /\ \A x, y \in S : Rank(S, x) = Rank(S, y) => x = y
<1> DEFINE n == Cardinality(S)
           Below(x) == {y \in S : y <= x}
           r == [x \in S |-> Cardinality(Below(x))]
<1>1. n \in Nat
  BY FS_CardinalityType
<1>2. \A x \in S : IsFiniteSet(Below(x)) /\ Cardinality(Below(x)) \in 1..n
  <2> SUFFICES ASSUME NEW x \in S
               PROVE  IsFiniteSet(Below(x)) /\ Cardinality(Below(x)) \in 1..n
    OBVIOUS
  <2>1. IsFiniteSet(Below(x)) /\ Cardinality(Below(x)) <= n
    <3>1. Below(x) \in SUBSET S
      OBVIOUS
    <3> HIDE DEF Below
    <3> QED  BY <3>1, FS_Subset
  <2>2. Cardinality(Below(x)) \in Nat
    <3> HIDE DEF Below
    <3> QED  BY <2>1, FS_CardinalityType
  <2>3. Cardinality(Below(x)) # 0
    <3>1. x \in Below(x)
      OBVIOUS
    <3> HIDE DEF Below
    <3> QED  BY <2>1, <3>1, FS_EmptySet
  <2> HIDE DEF Below
  <2> QED  BY <1>1, <2>1, <2>2, <2>3
<1>3. \A x, y \in S : x < y => r[x] < r[y]
  <2> SUFFICES ASSUME NEW x \in S, NEW y \in S, x < y
               PROVE  Cardinality(Below(x)) < Cardinality(Below(y))
    OBVIOUS
  <2>1. Below(x) \in SUBSET Below(y) /\ Below(x) # Below(y)
    <3>1. y \in Below(y) /\ y \notin Below(x)
      OBVIOUS
    <3>2. \A z \in Below(x) : z \in Below(y)
      OBVIOUS
    <3> HIDE DEF Below
    <3> QED  BY <3>1, <3>2
  <2> HIDE DEF Below
  <2>2. Cardinality(Below(x)) <= Cardinality(Below(y))
        /\ Cardinality(Below(x)) # Cardinality(Below(y))
    BY <1>2, <2>1, FS_Subset, Zenon
  <2> QED  BY <1>2, <2>2
<1>4. r \in Injection(S, 1..n)
  <2>1. r \in [S -> 1..n]
    <3> HIDE DEF Below
    <3> QED  BY <1>2
  <2>2. \A x, y \in S : x # y => r[x] # r[y]
    <3> SUFFICES ASSUME NEW x \in S, NEW y \in S, x # y PROVE r[x] # r[y]
      OBVIOUS
    <3>1. x \in Int /\ y \in Int /\ (x < y \/ y < x)
      OBVIOUS
    <3>2. r[x] \in 1..n /\ r[y] \in 1..n
      <4> HIDE DEF r, n
      <4> QED  BY <2>1
    <3> HIDE DEF r
    <3> QED  BY <1>3, <3>1, <3>2
  <2> HIDE DEF r
  <2> QED  BY <2>1, <2>2, Zenon DEF Injection, IsInjective
<1>5. r \in Surjection(S, 1..n)
  <2>1. IsFiniteSet(1..n) /\ Cardinality(1..n) = n
    BY <1>1, FS_Interval
  <2> HIDE DEF r
  <2> QED  BY <1>4, <2>1, FS_Injection
<1>6. \A k \in 1..n : \E x \in S : r[x] = k
  <2> HIDE DEF r
  <2> QED  BY <1>5 DEF Surjection
<1>7. \A x \in S : r[x] = Rank(S, x)
  BY DEF Rank
<1>8. \A x \in S : r[x] \in 1..n
  <2> HIDE DEF r
  <2> QED  BY <1>4 DEF Injection
<1>9. \A x, y \in S : r[x] = r[y] => x = y
  <2> HIDE DEF r
  <2> QED  BY <1>4 DEF Injection, IsInjective
<1> HIDE DEF r
<1> QED  BY <1>1, <1>6, <1>7, <1>8, <1>9

\* retain keeps the elements that are not dropped, and only them.
LEMMA Retained ==
    ASSUME NEW S, NEW list \in Seq(S), NEW dropped
    PROVE  /\ Retain(list, dropped) \in Seq(S)
           /\ \A x : (\E i \in 1..Len(Retain(list, dropped)) : Retain(list, dropped)[i] = x) <=>
                    (\E i \in 1..Len(list) : list[i] = x) /\ x \notin dropped
<1> DEFINE kept == {i \in DOMAIN list : list[i] \notin dropped}
           n == Cardinality(kept)
           at(k) == CHOOSE i \in kept : Rank(kept, i) = k
           q == [k \in 1..n |-> list[at(k)]]
<1>1. Retain(list, dropped) = q
  BY Zenon DEF Retain, Rank
<1>2. DOMAIN list = 1..Len(list) /\ Len(list) \in Nat /\ \A i \in 1..Len(list) : list[i] \in S
  OBVIOUS
<1>3. kept \in SUBSET Int /\ IsFiniteSet(kept)
  <2>1. kept \in SUBSET (1..Len(list))
    BY <1>2
  <2>2. IsFiniteSet(1..Len(list))
    BY <1>2, FS_Interval
  <2> HIDE DEF kept
  <2>3. \A i \in 1..Len(list) : i \in Int
    OBVIOUS
  <2> QED  BY <2>1, <2>2, <2>3, FS_Subset
<1>4. /\ n \in Nat /\ \A x \in kept : Rank(kept, x) \in 1..n
      /\ \A k \in 1..n : \E x \in kept : Rank(kept, x) = k
      /\ \A x, y \in kept : Rank(kept, x) = Rank(kept, y) => x = y
  <2> HIDE DEF kept
  <2> QED  BY <1>3, Ranks
<1> HIDE DEF n
<1>5. \A k \in 1..n : at(k) \in kept /\ Rank(kept, at(k)) = k
  <2> HIDE DEF kept
  <2> QED  BY <1>4
<1>6. \A x \in kept : \E k \in 1..n : at(k) = x
  <2> HIDE DEF kept, at
  <2> QED  BY <1>4, <1>5
<1> HIDE DEF at
<1>7. \A i : i \in kept <=> i \in 1..Len(list) /\ list[i] \notin dropped
  BY <1>2
<1> HIDE DEF kept
<1>8. q \in Seq(S) /\ Len(q) = n /\ \A k \in 1..n : q[k] = list[at(k)]
  BY <1>2, <1>4, <1>5, <1>7
<1> HIDE DEF q
<1>9. ASSUME NEW x
      PROVE  (\E k \in 1..n : q[k] = x) <=> (\E i \in 1..Len(list) : list[i] = x) /\ x \notin dropped
  <2>1. ASSUME NEW k \in 1..n, q[k] = x
        PROVE  (\E i \in 1..Len(list) : list[i] = x) /\ x \notin dropped
    <3>1. at(k) \in 1..Len(list) /\ list[at(k)] \notin dropped /\ list[at(k)] = x
      BY <1>5, <1>7, <1>8, <2>1
    <3> QED  BY <3>1
  <2>2. ASSUME NEW i \in 1..Len(list), list[i] = x, x \notin dropped
        PROVE  \E k \in 1..n : q[k] = x
    <3>1. PICK k \in 1..n : at(k) = i
      BY <1>6, <1>7, <2>2
    <3> QED  BY <1>8, <2>2, <3>1
  <2> QED  BY <2>1, <2>2
<1> QED  BY <1>1, <1>8, <1>9

-----------------------------------------------------------------------------
(* The TCP transport. *)

Handed == polled \o incoming

\* The message that is being written is on an open connection, or its
\* connection broke, whether the listener has seen that or not.
Writable(m, cs, bs) ==
    \/ m \in DOMAIN cs /\ cs[m] = "open"
    \/ m \in bs /\ (m \in DOMAIN cs => cs[m] = "cut")

\* A message is with its sender, on a connection, or handed to the listener's
\* side; the answer of send says which connections carry a whole message.
TcpInv ==
    /\ next_message \in Nat \ {0}
    /\ sends \in [Thread -> {IdleSend} \cup [msg : Nat, at : {"connect", "write"}]]
    /\ \A t \in Thread : sends[t] # IdleSend =>
          /\ sends[t].msg \in 1..(next_message - 1) \ (sent \cup failed)
          /\ \A u \in Thread : sends[u] # IdleSend /\ sends[u].msg = sends[t].msg => u = t
          /\ sends[t].at = "connect" => sends[t].msg \notin DOMAIN conns
          /\ sends[t].at = "write" => Writable(sends[t].msg, conns, severed)
    /\ sent \cup failed \cup severed \subseteq 1..(next_message - 1)
    /\ sent \cap failed = {}
    /\ incoming \in Seq(Nat) /\ polled \in Seq(Nat)
    /\ IsInjective(Handed)
    /\ \A i \in 1..Len(Handed) : Handed[i] \in sent /\ Handed[i] \notin DOMAIN conns
    /\ \A m \in DOMAIN conns :
          \/ conns[m] = "open" /\ \E t \in Thread : sends[t] = [msg |-> m, at |-> "write"]
          \/ conns[m] = "whole" /\ m \in sent
          \/ conns[m] = "cut" /\ m \in failed \cup severed
    /\ serving # Nil => serving \in DOMAIN conns
    /\ \A m \in sent \ severed : (m \in DOMAIN conns /\ conns[m] = "whole") \/ \E i \in 1..Len(Handed) : Handed[i] = m

\* Nothing happens to the messages.
LEMMA QuietStep ==
    ASSUME TcpInv, UNCHANGED <<sends, conns, sent, failed, next_message, severed>>,
           Handed' = Handed, incoming' \in Seq(Nat), polled' \in Seq(Nat),
           serving' = serving \/ serving' \in DOMAIN conns
    PROVE  TcpInv'
BY DEF TcpInv

LEMMA PollStep == ASSUME TcpInv, PollIncoming PROVE TcpInv'
<1>1. polled' = polled \o incoming /\ incoming' = << >> /\ incoming \in Seq(Nat) /\ polled \in Seq(Nat)
  BY DEF PollIncoming, TcpInv
<1>2. << >> \in Seq(Nat) /\ polled \o incoming \in Seq(Nat)
  BY <1>1
<1>3. (polled \o incoming) \o << >> = polled \o incoming
  BY <1>2
<1>4. Handed' = Handed
  BY <1>1, <1>3 DEF Handed
<1> QED  BY <1>1, <1>2, <1>4, QuietStep DEF PollIncoming

\* A connection carries a message that was numbered.
LEMMA ConnsKnown == TcpInv => \A m \in DOMAIN conns : m \in 1..(next_message - 1)
<1> SUFFICES ASSUME TcpInv, NEW m \in DOMAIN conns PROVE m \in 1..(next_message - 1)
  OBVIOUS
<1>1. CASE \E u \in Thread : sends[u] = [msg |-> m, at |-> "write"]
  <2>1. PICK u \in Thread : sends[u] = [msg |-> m, at |-> "write"]
    BY <1>1
  <2>2. sends[u] # IdleSend /\ sends[u].msg = m
    BY <2>1 DEF IdleSend
  <2> QED  BY <2>2 DEF TcpInv
<1>2. CASE m \in sent \cup failed \cup severed
  BY <1>2 DEF TcpInv
<1> QED  BY <1>1, <1>2 DEF TcpInv

LEMMA LookupStep == ASSUME TcpInv, NEW t \in Thread, SendLookup(t) PROVE TcpInv'
<1>1. /\ sends[t] = IdleSend /\ next_message' = next_message + 1 /\ next_message \in Nat \ {0}
      /\ UNCHANGED <<conns, serving, incoming, polled, sent, severed>> /\ Handed' = Handed
  BY DEF SendLookup, TcpInv, Handed
<1> DEFINE new == [msg |-> next_message, at |-> "connect"]
<1>2. \A m \in 1..(next_message - 1) : m \in 1..(next_message' - 1) /\ m # next_message
  BY <1>1
<1>3. next_message \in 1..(next_message' - 1) /\ next_message \notin sent \cup failed /\ next_message' \in Nat \ {0}
  BY <1>1 DEF TcpInv
<1>4. \A m \in DOMAIN conns : m \in 1..(next_message - 1)
  BY ConnsKnown
<1>5. CASE peers
  <2>1. sends' = [sends EXCEPT ![t] = new] /\ failed' = failed
    BY <1>5 DEF SendLookup
  <2>2. new \in [msg : Nat, at : {"connect", "write"}] /\ new # IdleSend /\ new.msg = next_message /\ new.at = "connect"
    BY <1>1 DEF IdleSend
  <2> HIDE DEF new
  <2>3. /\ sends' \in [Thread -> {IdleSend} \cup [msg : Nat, at : {"connect", "write"}]]
        /\ sends'[t] = new /\ \A u \in Thread : u # t => sends'[u] = sends[u]
    BY <2>1, <2>2 DEF TcpInv
  <2>4. ASSUME NEW u \in Thread, sends'[u] # IdleSend
        PROVE  /\ sends'[u].msg \in 1..(next_message' - 1) \ (sent' \cup failed')
               /\ \A v \in Thread : sends'[v] # IdleSend /\ sends'[v].msg = sends'[u].msg => v = u
               /\ sends'[u].at = "connect" => sends'[u].msg \notin DOMAIN conns'
               /\ sends'[u].at = "write" => Writable(sends'[u].msg, conns', severed')
    <3>1. \A v \in Thread : v # t /\ sends[v] # IdleSend => sends[v].msg # next_message
      BY <1>2 DEF TcpInv
    <3>2. CASE u = t
      BY <1>1, <1>2, <1>3, <1>4, <2>1, <2>2, <2>3, <3>1, <3>2
    <3>3. CASE u # t
      BY <1>1, <1>2, <2>1, <2>2, <2>3, <2>4, <3>1, <3>3 DEF TcpInv
    <3> QED  BY <3>2, <3>3
  <2>5. \A m \in DOMAIN conns' :
          \/ conns'[m] = "open" /\ \E v \in Thread : sends'[v] = [msg |-> m, at |-> "write"]
          \/ conns'[m] = "whole" /\ m \in sent'
          \/ conns'[m] = "cut" /\ m \in failed' \cup severed'
    <3> SUFFICES ASSUME NEW m \in DOMAIN conns, conns[m] = "open"
                 PROVE  \E v \in Thread : sends'[v] = [msg |-> m, at |-> "write"]
      BY <1>1, <2>1 DEF TcpInv
    <3>1. PICK v \in Thread : sends[v] = [msg |-> m, at |-> "write"]
      BY DEF TcpInv
    <3>2. v # t
      BY <1>1, <3>1 DEF IdleSend
    <3> QED  BY <2>3, <3>1, <3>2
  <2> QED  BY <1>1, <1>2, <1>3, <2>1, <2>3, <2>4, <2>5 DEF TcpInv
<1>6. CASE ~ peers
  <2>1. sends' = sends /\ failed' = failed \cup {next_message}
    BY <1>6 DEF SendLookup
  <2>2. /\ next_message' \in Nat \ {0} /\ sends' \in [Thread -> {IdleSend} \cup [msg : Nat, at : {"connect", "write"}]]
        /\ incoming' \in Seq(Nat) /\ polled' \in Seq(Nat) /\ IsInjective(Handed')
    BY <1>1, <1>3, <2>1 DEF TcpInv
  <2>3. ASSUME NEW u \in Thread, sends'[u] # IdleSend
        PROVE  /\ sends'[u].msg \in 1..(next_message' - 1) \ (sent' \cup failed')
               /\ \A v \in Thread : sends'[v] # IdleSend /\ sends'[v].msg = sends'[u].msg => v = u
               /\ sends'[u].at = "connect" => sends'[u].msg \notin DOMAIN conns'
               /\ sends'[u].at = "write" => Writable(sends'[u].msg, conns', severed')
    <3>1. /\ sends[u].msg \in 1..(next_message - 1) \ (sent \cup failed)
          /\ \A v \in Thread : sends[v] # IdleSend /\ sends[v].msg = sends[u].msg => v = u
          /\ sends[u].at = "connect" => sends[u].msg \notin DOMAIN conns
          /\ sends[u].at = "write" => Writable(sends[u].msg, conns, severed)
      BY <2>1, <2>3 DEF TcpInv
    <3> QED  BY <1>1, <1>2, <2>1, <3>1
  <2>4. sent' \cup failed' \cup severed' \subseteq 1..(next_message' - 1) /\ sent' \cap failed' = {}
    BY <1>1, <1>2, <1>3, <2>1 DEF TcpInv
  <2>5. \A i \in 1..Len(Handed') : Handed'[i] \in sent' /\ Handed'[i] \notin DOMAIN conns'
    BY <1>1 DEF TcpInv
  <2>6. \A m \in DOMAIN conns' :
          \/ conns'[m] = "open" /\ \E v \in Thread : sends'[v] = [msg |-> m, at |-> "write"]
          \/ conns'[m] = "whole" /\ m \in sent'
          \/ conns'[m] = "cut" /\ m \in failed' \cup severed'
    BY <1>1, <2>1 DEF TcpInv
  <2>7. /\ serving' # Nil => serving' \in DOMAIN conns'
        /\ \A m \in sent' \ severed' : (m \in DOMAIN conns' /\ conns'[m] = "whole") \/ \E i \in 1..Len(Handed') : Handed'[i] = m
    BY <1>1 DEF TcpInv
  <2> QED  BY <2>2, <2>3, <2>4, <2>5, <2>6, <2>7 DEF TcpInv
<1> QED  BY <1>5, <1>6

LEMMA ConnectStep == ASSUME TcpInv, NEW t \in Thread, SendConnect(t) PROVE TcpInv'
<1> DEFINE m == sends[t].msg
<1>1. /\ sends[t].at = "connect" /\ UNCHANGED <<serving, incoming, polled, sent, next_message, severed>> /\ Handed' = Handed
  BY DEF SendConnect, Handed
<1>2. /\ sends[t] # IdleSend /\ m \in 1..(next_message - 1) /\ m \notin sent \cup failed /\ m \notin DOMAIN conns
      /\ m \in Nat
      /\ \A u \in Thread : u # t /\ sends[u] # IdleSend => sends[u].msg # m
  BY <1>1 DEF TcpInv, IdleSend
<1>3. CASE bound
  <2>1. /\ conns' = [k \in DOMAIN conns \cup {m} |-> IF k = m THEN "open" ELSE conns[k]]
        /\ sends' = [sends EXCEPT ![t].at = "write"] /\ failed' = failed
    BY <1>3 DEF SendConnect
  <2> DEFINE new == [msg |-> m, at |-> "write"]
  <2>2. sends[t] \in [msg : Nat, at : {"connect", "write"}] /\ new \in [msg : Nat, at : {"connect", "write"}]
        /\ new # IdleSend /\ new.msg = m /\ new.at = "write"
    BY <1>2 DEF TcpInv, IdleSend
  <2>3. [sends[t] EXCEPT !.at = "write"] = new
    BY <2>2
  <2>4. sends' = [sends EXCEPT ![t] = new]
    BY <2>1, <2>3
  <2>5. /\ sends' \in [Thread -> {IdleSend} \cup [msg : Nat, at : {"connect", "write"}]]
        /\ sends'[t] = new /\ \A u \in Thread : u # t => sends'[u] = sends[u]
    <3> HIDE DEF new
    <3> QED  BY <2>2, <2>4 DEF TcpInv
  <2>6. /\ DOMAIN conns' = DOMAIN conns \cup {m} /\ conns'[m] = "open"
        /\ \A k \in DOMAIN conns : k # m /\ conns'[k] = conns[k]
    <3> HIDE DEF m
    <3> QED  BY <1>2, <2>1
  <2>7. ASSUME NEW u \in Thread, sends'[u] # IdleSend
        PROVE  /\ sends'[u].msg \in 1..(next_message' - 1) \ (sent' \cup failed')
               /\ \A v \in Thread : sends'[v] # IdleSend /\ sends'[v].msg = sends'[u].msg => v = u
               /\ sends'[u].at = "connect" => sends'[u].msg \notin DOMAIN conns'
               /\ sends'[u].at = "write" => Writable(sends'[u].msg, conns', severed')
    <3> HIDE DEF new, m
    <3>1. CASE u = t
      BY <1>1, <1>2, <2>1, <2>2, <2>5, <2>6, <3>1 DEF Writable
    <3>2. CASE u # t
      <4>1. sends'[u] = sends[u] /\ sends[u].msg # m
        BY <1>2, <2>5, <2>7, <3>2
      <4> QED  BY <1>1, <1>2, <2>1, <2>2, <2>5, <2>6, <2>7, <3>2, <4>1 DEF TcpInv, Writable
    <3> QED  BY <3>1, <3>2
  <2>8. \A k \in DOMAIN conns' :
          \/ conns'[k] = "open" /\ \E v \in Thread : sends'[v] = [msg |-> k, at |-> "write"]
          \/ conns'[k] = "whole" /\ k \in sent'
          \/ conns'[k] = "cut" /\ k \in failed' \cup severed'
    <3> SUFFICES ASSUME NEW k \in DOMAIN conns'
                 PROVE  \/ conns'[k] = "open" /\ \E v \in Thread : sends'[v] = [msg |-> k, at |-> "write"]
                        \/ conns'[k] = "whole" /\ k \in sent'
                        \/ conns'[k] = "cut" /\ k \in failed' \cup severed'
      OBVIOUS
    <3>1. CASE k = m
      BY <2>5, <2>6, <3>1
    <3>2. CASE k # m
      <4>1. k \in DOMAIN conns /\ conns'[k] = conns[k]
        <5> HIDE DEF m
        <5> QED  BY <2>6, <3>2
      <4>2. CASE conns[k] = "open"
        <5>1. PICK v \in Thread : sends[v] = [msg |-> k, at |-> "write"]
          BY <4>1, <4>2 DEF TcpInv
        <5>2. v # t
          BY <1>1, <5>1
        <5> QED  BY <2>5, <4>1, <4>2, <5>1, <5>2
      <4>3. CASE conns[k] # "open"
        BY <1>1, <2>1, <4>1, <4>3 DEF TcpInv
      <4> QED  BY <4>2, <4>3
    <3> QED  BY <3>1, <3>2
  <2>9. \A i \in 1..Len(Handed) : Handed[i] \notin DOMAIN conns'
    <3> HIDE DEF m
    <3> QED  BY <1>2, <2>6 DEF TcpInv
  <2>10. /\ \A k \in sent \ severed : (k \in DOMAIN conns' /\ conns'[k] = "whole") \/ \E i \in 1..Len(Handed) : Handed[i] = k
         /\ serving # Nil => serving \in DOMAIN conns'
    <3> HIDE DEF m
    <3> QED  BY <2>6 DEF TcpInv
  <2> HIDE DEF m, new
  <2>11. /\ sent' \cup failed' \cup severed' \subseteq 1..(next_message' - 1) /\ sent' \cap failed' = {}
         /\ next_message' \in Nat \ {0} /\ incoming' \in Seq(Nat) /\ polled' \in Seq(Nat)
         /\ IsInjective(Handed')
    BY <1>1, <2>1 DEF TcpInv
  <2>12. \A i \in 1..Len(Handed') : Handed'[i] \in sent' /\ Handed'[i] \notin DOMAIN conns'
    BY <1>1, <2>9 DEF TcpInv
  <2>13. /\ serving' # Nil => serving' \in DOMAIN conns'
         /\ \A k \in sent' \ severed' : (k \in DOMAIN conns' /\ conns'[k] = "whole") \/ \E i \in 1..Len(Handed') : Handed'[i] = k
    BY <1>1, <2>10
  <2> QED  BY <2>5, <2>7, <2>8, <2>11, <2>12, <2>13 DEF TcpInv
<1>4. CASE ~ bound
  <2>1. /\ sends' = [sends EXCEPT ![t] = IdleSend] /\ failed' = failed \cup {m} /\ conns' = conns
    BY <1>4 DEF SendConnect
  <2>2. /\ sends' \in [Thread -> {IdleSend} \cup [msg : Nat, at : {"connect", "write"}]]
        /\ sends'[t] = IdleSend /\ \A u \in Thread : u # t => sends'[u] = sends[u]
    BY <2>1 DEF TcpInv
  <2> HIDE DEF m
  <2>3. \A k \in DOMAIN conns, v \in Thread : sends[v] = [msg |-> k, at |-> "write"] => v # t
    BY <1>1
  <2>4. \A k \in DOMAIN conns :
          \/ conns[k] = "open" /\ \E v \in Thread : sends'[v] = [msg |-> k, at |-> "write"]
          \/ conns[k] = "whole" /\ k \in sent
          \/ conns[k] = "cut" /\ k \in failed' \cup severed'
    BY <1>1, <2>1, <2>2, <2>3 DEF TcpInv, Writable
  <2>5. ASSUME NEW u \in Thread, sends'[u] # IdleSend
        PROVE  /\ sends'[u].msg \in 1..(next_message - 1) \ (sent \cup failed')
               /\ \A v \in Thread : sends'[v] # IdleSend /\ sends'[v].msg = sends'[u].msg => v = u
               /\ sends'[u].at = "connect" => sends'[u].msg \notin DOMAIN conns
               /\ sends'[u].at = "write" => Writable(sends'[u].msg, conns, severed)
    <3>1. u # t /\ sends'[u] = sends[u] /\ sends[u].msg # m
      BY <1>2, <2>2, <2>5
    <3>2. \A v \in Thread : sends'[v] # IdleSend => sends'[v] = sends[v]
      BY <2>2
    <3> QED  BY <2>1, <2>5, <3>1, <3>2 DEF TcpInv
  <2> QED  BY <1>1, <1>2, <2>1, <2>2, <2>4, <2>5 DEF TcpInv
<1> QED  BY <1>3, <1>4

LEMMA WriteStep == ASSUME TcpInv, NEW t \in Thread, SendWrite(t) PROVE TcpInv'
<1> DEFINE m == sends[t].msg
<1>1. /\ sends[t].at = "write" /\ UNCHANGED <<serving, incoming, polled, next_message, severed>> /\ Handed' = Handed
      /\ sends' = [sends EXCEPT ![t] = IdleSend]
  BY DEF SendWrite, Handed
<1>2. /\ sends[t] # IdleSend /\ m \in 1..(next_message - 1) /\ m \notin sent \cup failed /\ Writable(m, conns, severed)
      /\ \A u \in Thread : u # t /\ sends[u] # IdleSend => sends[u].msg # m
  BY <1>1 DEF TcpInv, IdleSend
<1>3. /\ sends' \in [Thread -> {IdleSend} \cup [msg : Nat, at : {"connect", "write"}]]
      /\ sends'[t] = IdleSend /\ \A u \in Thread : u # t => sends'[u] = sends[u]
  BY <1>1 DEF TcpInv
<1> HIDE DEF m
<1>4. PICK c \in {"whole", "cut"} :
         /\ conns' = OnTheWire(m, c)
         /\ sent' = IF c = "whole" THEN sent \cup {m} ELSE sent
         /\ failed' = IF c = "whole" THEN failed ELSE failed \cup {m}
  BY DEF SendWrite, m
<1>5. /\ DOMAIN conns' = DOMAIN conns
      /\ m \in DOMAIN conns => conns'[m] = IF conns[m] = "open" THEN c ELSE conns[m]
      /\ \A k \in DOMAIN conns : k # m => conns'[k] = conns[k]
  BY <1>4 DEF OnTheWire
<1>6. /\ sent' \cup failed' = sent \cup failed \cup {m} /\ sent' \cap failed' = {}
      /\ sent \subseteq sent' /\ failed \subseteq failed'
      /\ sent' \subseteq sent \cup {m}
  BY <1>2, <1>4 DEF TcpInv
<1>7. ASSUME NEW u \in Thread, sends'[u] # IdleSend
      PROVE  /\ sends'[u].msg \in 1..(next_message' - 1) \ (sent' \cup failed')
             /\ \A v \in Thread : sends'[v] # IdleSend /\ sends'[v].msg = sends'[u].msg => v = u
             /\ sends'[u].at = "connect" => sends'[u].msg \notin DOMAIN conns'
             /\ sends'[u].at = "write" => Writable(sends'[u].msg, conns', severed')
  <2>1. u # t /\ sends'[u] = sends[u] /\ sends[u].msg # m
    BY <1>2, <1>3, <1>7
  <2>2. \A v \in Thread : sends'[v] # IdleSend => sends'[v] = sends[v]
    BY <1>3
  <2> QED  BY <1>1, <1>5, <1>6, <1>7, <2>1, <2>2 DEF TcpInv, Writable
<1>8. ASSUME NEW k \in DOMAIN conns'
      PROVE  \/ conns'[k] = "open" /\ \E v \in Thread : sends'[v] = [msg |-> k, at |-> "write"]
             \/ conns'[k] = "whole" /\ k \in sent'
             \/ conns'[k] = "cut" /\ k \in failed' \cup severed'
  <2>1. CASE k = m
    BY <1>1, <1>2, <1>4, <1>5, <2>1 DEF Writable
  <2>2. CASE k # m
    <3>1. k \in DOMAIN conns /\ conns'[k] = conns[k]
      BY <1>5, <2>2
    <3>2. CASE conns[k] = "open"
      <4>1. PICK v \in Thread : sends[v] = [msg |-> k, at |-> "write"]
        BY <3>1, <3>2 DEF TcpInv
      <4>2. v # t
        BY <2>2, <4>1 DEF m
      <4> QED  BY <1>3, <3>1, <3>2, <4>1, <4>2
    <3>3. CASE conns[k] # "open"
      BY <1>1, <1>6, <3>1, <3>3 DEF TcpInv
    <3> QED  BY <3>2, <3>3
  <2> QED  BY <2>1, <2>2
<1>9. \A k \in sent' \ severed' : (k \in DOMAIN conns' /\ conns'[k] = "whole") \/ \E i \in 1..Len(Handed') : Handed'[i] = k
  BY <1>1, <1>2, <1>4, <1>5, <1>6 DEF TcpInv, Writable
<1>10. \A i \in 1..Len(Handed') : Handed'[i] \in sent' /\ Handed'[i] \notin DOMAIN conns'
  BY <1>1, <1>5, <1>6 DEF TcpInv
<1>11. sent' \cup failed' \cup severed' \subseteq 1..(next_message' - 1)
  BY <1>1, <1>2, <1>6 DEF TcpInv
<1> QED  BY <1>1, <1>3, <1>5, <1>6, <1>7, <1>8, <1>9, <1>10, <1>11 DEF TcpInv

\* r is q with x after it.
Extended(q, x, r) ==
    /\ Len(r) = Len(q) + 1 /\ r[Len(q) + 1] = x
    /\ \A i \in 1..Len(q) : r[i] = q[i]

\* A list stays free of repetitions when it is given what it has not.
LEMMA AppendNew ==
    ASSUME NEW S, NEW q \in Seq(S), NEW x \in S, IsInjective(q), \A i \in 1..Len(q) : q[i] # x
    PROVE  Extended(q, x, Append(q, x)) /\ IsInjective(Append(q, x))
<1> DEFINE r == Append(q, x)
           n == Len(q)
<1>1. n \in Nat /\ r \in Seq(S) /\ Len(r) = n + 1 /\ r[n + 1] = x /\ (\A i \in 1..n : r[i] = q[i])
      /\ DOMAIN r = 1..(n + 1) /\ DOMAIN q = 1..n
  OBVIOUS
<1> HIDE DEF r, n
<1>2. ASSUME NEW i \in 1..(n + 1), NEW j \in 1..(n + 1), r[i] = r[j] PROVE i = j
  <2>1. (i \in 1..n \/ i = n + 1) /\ (j \in 1..n \/ j = n + 1)
    BY <1>1
  <2>2. \A a \in 1..n : q[a] # x
    BY DEF n
  <2>3. \A a, b \in 1..n : q[a] = q[b] => a = b
    BY <1>1 DEF IsInjective
  <2> QED  BY <1>1, <1>2, <2>1, <2>2, <2>3
<1>3. IsInjective(r)
  BY <1>1, <1>2 DEF IsInjective
<1> QED  BY <1>1, <1>3 DEF r, n, Extended

LEMMA ReadStep == ASSUME TcpInv, ReadMessage PROVE TcpInv'
<1> DEFINE m == serving
<1>1. /\ m # Nil /\ m \in DOMAIN conns /\ conns[m] # "open" /\ serving' = Nil
      /\ conns' = [k \in DOMAIN conns \ {m} |-> conns[k]]
      /\ incoming' = IF conns[m] = "whole" THEN Append(incoming, m) ELSE incoming
      /\ UNCHANGED <<sends, polled, sent, failed, next_message, severed>>
  BY DEF ReadMessage, TcpInv
<1>2. DOMAIN conns' = DOMAIN conns \ {m} /\ \A k \in DOMAIN conns' : conns'[k] = conns[k]
  BY <1>1
<1>3. /\ incoming \in Seq(Nat) /\ polled \in Seq(Nat) /\ Handed \in Seq(Nat) /\ IsInjective(Handed)
      /\ Len(Handed) \in Nat
      /\ sent \subseteq Nat /\ sent \cap failed = {}
  <2>1. incoming \in Seq(Nat) /\ polled \in Seq(Nat)
    BY DEF TcpInv
  <2>2. Handed \in Seq(Nat)
    BY <2>1 DEF Handed
  <2> QED  BY <2>1, <2>2 DEF TcpInv
<1>4. /\ \A u \in Thread : sends'[u] # IdleSend =>
          /\ sends'[u].msg \in 1..(next_message' - 1) \ (sent' \cup failed')
          /\ \A v \in Thread : sends'[v] # IdleSend /\ sends'[v].msg = sends'[u].msg => v = u
          /\ sends'[u].at = "connect" => sends'[u].msg \notin DOMAIN conns'
          /\ sends'[u].at = "write" => Writable(sends'[u].msg, conns', severed')
  BY <1>1, <1>2 DEF TcpInv, Writable
<1>5. \A k \in DOMAIN conns' :
         \/ conns'[k] = "open" /\ \E t \in Thread : sends'[t] = [msg |-> k, at |-> "write"]
         \/ conns'[k] = "whole" /\ k \in sent'
         \/ conns'[k] = "cut" /\ k \in failed' \cup severed'
  BY <1>1, <1>2 DEF TcpInv
<1>6. CASE conns[m] = "whole"
  <2>1. m \in sent /\ m \in Nat /\ incoming' = Append(incoming, m)
    BY <1>1, <1>3, <1>6 DEF TcpInv
  <2>2. \A i \in 1..Len(Handed) : Handed[i] # m
    BY <1>1 DEF TcpInv
  <2>3. Append(incoming, m) \in Seq(Nat) /\ polled \o Append(incoming, m) = Append(polled \o incoming, m)
    BY <1>3, <2>1
  <2>4. Handed' = Append(Handed, m) /\ incoming' \in Seq(Nat)
    BY <1>1, <2>1, <2>3 DEF Handed
  <2>5. /\ Len(Handed') = Len(Handed) + 1 /\ Handed'[Len(Handed) + 1] = m
        /\ \A i \in 1..Len(Handed) : Handed'[i] = Handed[i]
        /\ IsInjective(Handed')
    <3>1. Extended(Handed, m, Append(Handed, m)) /\ IsInjective(Append(Handed, m))
      BY <1>3, <2>1, <2>2, AppendNew, Zenon
    <3> QED  BY <2>4, <3>1 DEF Extended
  <2>6. \A i \in 1..Len(Handed') : Handed'[i] \in sent' /\ Handed'[i] \notin DOMAIN conns'
    <3> SUFFICES ASSUME NEW i \in 1..Len(Handed') PROVE Handed'[i] \in sent' /\ Handed'[i] \notin DOMAIN conns'
      OBVIOUS
    <3>1. i \in 1..Len(Handed) \/ i = Len(Handed) + 1
      BY <1>3, <2>5
    <3> QED  BY <1>1, <1>2, <2>1, <2>5, <3>1 DEF TcpInv
  <2>7. \A k \in sent' \ severed' : (k \in DOMAIN conns' /\ conns'[k] = "whole") \/ \E i \in 1..Len(Handed') : Handed'[i] = k
    <3> SUFFICES ASSUME NEW k \in sent \ severed, ~ (k \in DOMAIN conns' /\ conns'[k] = "whole") PROVE \E i \in 1..Len(Handed') : Handed'[i] = k
      BY <1>1
    <3>1. CASE k = m
      <4>1. Len(Handed) + 1 \in 1..Len(Handed')
        BY <1>3, <2>5
      <4> QED  BY <2>5, <3>1, <4>1
    <3>2. CASE k # m
      <4>1. PICK i \in 1..Len(Handed) : Handed[i] = k
        BY <1>2, <3>2 DEF TcpInv
      <4>2. i \in 1..Len(Handed')
        BY <1>3, <2>5
      <4> QED  BY <2>5, <4>1, <4>2
    <3> QED  BY <3>1, <3>2
  <2> QED  BY <1>1, <1>4, <1>5, <2>4, <2>5, <2>6, <2>7 DEF TcpInv
<1>7. CASE conns[m] # "whole"
  <2>1. m \in failed \cup severed /\ incoming' = incoming /\ Handed' = Handed
    BY <1>1, <1>7 DEF TcpInv, Handed
  <2>2. m \notin sent \ severed
    BY <1>3, <2>1
  <2>3. \A k \in sent' \ severed' : (k \in DOMAIN conns' /\ conns'[k] = "whole") \/ \E i \in 1..Len(Handed') : Handed'[i] = k
    BY <1>1, <1>2, <2>1, <2>2 DEF TcpInv
  <2> QED  BY <1>1, <1>2, <1>4, <1>5, <2>1, <2>3 DEF TcpInv
<1> QED  BY <1>6, <1>7

LEMMA BreakStep == ASSUME TcpInv, NEW m \in DOMAIN conns, ConnectionBreaks(m) PROVE TcpInv'
<1>1. /\ conns[m] # "cut" /\ conns' = [conns EXCEPT ![m] = "cut"] /\ severed' = severed \cup {m}
      /\ UNCHANGED <<sends, serving, incoming, polled, sent, failed, next_message>> /\ Handed' = Handed
  BY DEF ConnectionBreaks, Handed
<1>2. /\ DOMAIN conns' = DOMAIN conns /\ conns'[m] = "cut"
      /\ \A k \in DOMAIN conns : k # m => conns'[k] = conns[k]
  BY <1>1
<1>3. \A k : Writable(k, conns, severed) => Writable(k, conns', severed')
  BY <1>1, <1>2 DEF Writable
<1>4. m \in 1..(next_message - 1)
  BY ConnsKnown
<1>5. \A k \in DOMAIN conns' :
         \/ conns'[k] = "open" /\ \E t \in Thread : sends'[t] = [msg |-> k, at |-> "write"]
         \/ conns'[k] = "whole" /\ k \in sent'
         \/ conns'[k] = "cut" /\ k \in failed' \cup severed'
  BY <1>1, <1>2 DEF TcpInv
<1>6. \A k \in sent' \ severed' : (k \in DOMAIN conns' /\ conns'[k] = "whole") \/ \E i \in 1..Len(Handed') : Handed'[i] = k
  BY <1>1, <1>2 DEF TcpInv
<1>7. \A t \in Thread : sends'[t] # IdleSend =>
          /\ sends'[t].msg \in 1..(next_message' - 1) \ (sent' \cup failed')
          /\ \A u \in Thread : sends'[u] # IdleSend /\ sends'[u].msg = sends'[t].msg => u = t
          /\ sends'[t].at = "connect" => sends'[t].msg \notin DOMAIN conns'
          /\ sends'[t].at = "write" => Writable(sends'[t].msg, conns', severed')
  BY <1>1, <1>2, <1>3 DEF TcpInv
<1> QED  BY <1>1, <1>2, <1>4, <1>5, <1>6, <1>7 DEF TcpInv

LEMMA TcpStep == ASSUME TcpInv, [TcpNext]_tcp_vars PROVE TcpInv'
<1>1. incoming \in Seq(Nat) /\ polled \in Seq(Nat)
  BY DEF TcpInv
<1>2. CASE UNCHANGED tcp_vars
  BY <1>1, <1>2, QuietStep DEF tcp_vars, Handed
<1>3. CASE TransportAddPeer \/ TransportRemovePeer \/ Start \/ Stop
  <2>1. UNCHANGED <<sends, conns, sent, failed, next_message, incoming, polled, serving, severed>>
    BY <1>3 DEF TransportAddPeer, TransportRemovePeer, Start, Stop
  <2> QED  BY <1>1, <2>1, QuietStep DEF Handed
<1>4. CASE Accept
  <2>1. /\ UNCHANGED <<sends, conns, sent, failed, next_message, incoming, polled, severed>>
        /\ serving' \in DOMAIN conns
    BY <1>4 DEF Accept
  <2> QED  BY <1>1, <2>1, QuietStep DEF Handed
<1>5. CASE ReadMessage
  BY <1>5, ReadStep
<1>6. CASE PollIncoming
  BY <1>6, PollStep
<1>7. ASSUME NEW t \in Thread, SendLookup(t) \/ SendConnect(t) \/ SendWrite(t) PROVE TcpInv'
  BY <1>7, LookupStep, ConnectStep, WriteStep
<1>8. ASSUME NEW m \in DOMAIN conns, ConnectionBreaks(m) PROVE TcpInv'
  BY <1>8, BreakStep
<1> QED  BY <1>2, <1>3, <1>4, <1>5, <1>6, <1>7, <1>8 DEF TcpNext

LEMMA TcpInitInv == ASSUME TcpInit PROVE TcpInv
<1>1. /\ sends = [t \in Thread |-> IdleSend] /\ conns = [m \in {} |-> "open"] /\ serving = Nil
      /\ incoming = << >> /\ polled = << >> /\ sent = {} /\ failed = {} /\ next_message = 1
      /\ severed = {}
  BY DEF TcpInit
<1>2. DOMAIN conns = {} /\ << >> \in Seq(Nat) /\ << >> \o << >> = << >> /\ Len(<< >>) = 0 /\ DOMAIN << >> = {}
  BY <1>1
<1>3. Handed = << >> /\ IsInjective(Handed)
  BY <1>1, <1>2 DEF Handed, IsInjective
<1>4. sends \in [Thread -> {IdleSend} \cup [msg : Nat, at : {"connect", "write"}]]
      /\ \A t \in Thread : sends[t] = IdleSend
  BY <1>1
<1>5. 1..Len(Handed) = {}
  BY <1>2, <1>3
<1> QED  BY <1>1, <1>2, <1>3, <1>4, <1>5 DEF TcpInv

LEMMA TcpInvSafe == ASSUME TcpInv PROVE TcpSafe
<1>1. Handed \in Seq(Nat) /\ DOMAIN Handed = 1..Len(Handed)
  <2>1. incoming \in Seq(Nat) /\ polled \in Seq(Nat)
    BY DEF TcpInv
  <2>2. Handed \in Seq(Nat)
    BY <2>1 DEF Handed
  <2> QED  BY <2>2
<1>2. Range(Handed) \subseteq sent \ failed
  BY <1>1 DEF TcpInv, Range
<1>3. \A m \in sent \ severed : m \in {k \in DOMAIN conns : conns[k] = "whole"} \cup Range(Handed)
  <2> SUFFICES ASSUME NEW m \in sent \ severed, ~ (m \in DOMAIN conns /\ conns[m] = "whole")
               PROVE  m \in Range(Handed)
    OBVIOUS
  <2>1. PICK i \in 1..Len(Handed) : Handed[i] = m
    BY DEF TcpInv
  <2> QED  BY <1>1, <2>1 DEF Range
<1>4. IsInjective(Handed)
  BY DEF TcpInv
<1> QED  BY <1>2, <1>3, <1>4 DEF TcpSafe, DeliveredOnce, NothingLost, Handed

-----------------------------------------------------------------------------
(* Failover. *)

\* Unless the last two calls overlapped, what was read last is stored last.
FailoverInv ==
    /\ clock \in Nat /\ last_heartbeat \in 0..clock /\ heard \in 0..clock
    /\ calling \in [Thread -> {"idle", "set", "store"}] /\ stamp \in [Thread -> 0..clock]
    /\ ~ overlapped =>
          /\ \A t, u \in Thread : calling[t] = "store" /\ calling[u] = "store" => t = u
          /\ \/ \E t \in Thread : calling[t] = "set"
             \/ /\ \A t \in Thread : calling[t] = "store" => stamp[t] = heard
                /\ (\A t \in Thread : calling[t] # "store") => last_heartbeat = heard
    /\ alarmed => clock - last_heartbeat > HeartbeatTimeout

LEMMA FailoverKeeps == FailoverInv /\ [FailoverNext]_failover_vars => FailoverInv'
<1> SUFFICES ASSUME FailoverInv, [FailoverNext]_failover_vars PROVE FailoverInv'
  OBVIOUS
<1> USE TransportAssumption
<1>1. CASE UNCHANGED failover_vars
  BY <1>1 DEF failover_vars, FailoverInv
<1>2. CASE FailoverTick
  BY <1>2 DEF FailoverTick, FailoverInv
<1>3. CASE CheckFailover
  BY <1>3 DEF CheckFailover, FailoverInv
<1>4. ASSUME NEW t \in Thread, ReadClock(t) PROVE FailoverInv'
  BY <1>4 DEF ReadClock, FailoverInv
<1>5. ASSUME NEW t \in Thread, StoreHeartbeat(t) PROVE FailoverInv'
  BY <1>5 DEF StoreHeartbeat, FailoverInv
<1>6. ASSUME NEW t \in Thread, NEW n \in Node, SetLeader(t, n) PROVE FailoverInv'
  BY <1>6 DEF SetLeader, FailoverInv
<1> QED  BY <1>1, <1>2, <1>3, <1>4, <1>5, <1>6 DEF FailoverNext

LEMMA FailoverSafe ==
    /\ FailoverInit => FailoverInv
    /\ FailoverInv => NoFalseAlarm
BY TransportAssumption DEF FailoverInit, FailoverInv, NoFalseAlarm

-----------------------------------------------------------------------------
(* Routing. *)

\* The remainder of the next number.
LEMMA NextRemainder ==
    ASSUME NEW c \in Nat, NEW n \in Nat \ {0}
    PROVE  /\ c % n \in 0..(n - 1)
           /\ (c + 1) % n = IF (c % n) + 1 = n THEN 0 ELSE (c % n) + 1
<1> DEFINE r == c % n
           s == (c + 1) % n
           a == c \div n
           b == (c + 1) \div n
<1>1. r \in 0..(n - 1) /\ s \in 0..(n - 1) /\ a \in Int /\ b \in Int
  OBVIOUS
<1>2. c = n * a + r /\ c + 1 = n * b + s
  OBVIOUS
<1> HIDE DEF r, s, a, b
<1>3. n * (b - a) = r + 1 - s
  BY <1>1, <1>2
<1> DEFINE d == b - a
<1>4. d \in Int /\ n * d = r + 1 - s
  BY <1>1, <1>3
<1> HIDE DEF d
<1>5. r + 1 - s <= n /\ r + 1 - s > - n
  BY <1>1
<1>6. d = 0 \/ d = 1
  <2>1. d >= 2 => n * d >= 2 * n
    BY <1>4
  <2>2. d <= -1 => n * d <= - n
    BY <1>4
  <2> QED  BY <1>4, <1>5, <2>1, <2>2
<1>7. CASE d = 0
  <2>1. s = r + 1
    BY <1>1, <1>4, <1>7
  <2> QED  BY <1>1, <2>1 DEF r, s
<1>8. CASE d = 1
  <2>1. n = r + 1 - s
    BY <1>1, <1>4, <1>8
  <2>2. s = 0 /\ r + 1 = n
    BY <1>1, <2>1
  <2> QED  BY <1>1, <2>2 DEF r, s
<1> QED  BY <1>6, <1>7, <1>8

\* How many reads ago position i of a list of n had its turn, when the next
\* turn is that of position p + 1.
Age(i, p, n) == IF i <= p THEN p - i ELSE p - i + n

\* Since the last full round, of which every position had q reads, the m
\* positions before the cursor had one more.
Spread(r, c, n, q, m) ==
    \A i \in 1..n : r[i] = IF Age(i, c % n, n) < m THEN q + 1 ELSE q

RouterInv ==
    /\ replicas \in Seq(Node) /\ cursor \in Nat
    /\ reads \in [1..Len(replicas) -> Nat]
    /\ replicas # << >> =>
          \E q \in Nat, m \in 0..(Len(replicas) - 1) : Spread(reads, cursor, Len(replicas), q, m)

\* Where no position had a read, they are spread evenly.
LEMMA NewRound ==
    ASSUME NEW r \in Seq(Node), NEW c \in Nat
    PROVE  /\ Zeros(r) \in [1..Len(r) -> Nat]
           /\ r # << >> => \E q \in Nat, m \in 0..(Len(r) - 1) : Spread(Zeros(r), c, Len(r), q, m)
<1> DEFINE n == Len(r)
           z == Zeros(r)
<1>1. n \in Nat /\ DOMAIN r = 1..n /\ (r # << >> => n > 0)
  OBVIOUS
<1>2. z \in [1..n -> Nat] /\ \A i \in 1..n : z[i] = 0
  BY <1>1 DEF Zeros
<1> HIDE DEF n, z
<1>3. ASSUME r # << >>, NEW i \in 1..n PROVE Age(i, c % n, n) \in 0..(n - 1)
  <2>1. n \in Nat \ {0}
    BY <1>1, <1>3
  <2>2. c % n \in 0..(n - 1)
    BY <2>1, NextRemainder
  <2> DEFINE p == c % n
  <2> HIDE DEF p
  <2>3. p \in 0..(n - 1)
    BY <2>2 DEF p
  <2>4. Age(i, p, n) \in 0..(n - 1)
    BY <2>1, <2>3 DEF Age
  <2> QED  BY <2>4 DEF p
<1>4. r # << >> => Spread(z, c, n, 0, 0) /\ 0 \in 0..(n - 1)
  <2> SUFFICES ASSUME r # << >>, NEW i \in 1..n PROVE ~ Age(i, c % n, n) < 0
    BY <1>1, <1>2 DEF Spread
  <2> QED  BY <1>1, <1>3
<1> QED  BY <1>2, <1>4 DEF n, z

LEMMA ReadTurn == ASSUME RouterInv, NextReplica PROVE RouterInv'
<1> DEFINE n == Len(replicas)
           p == cursor % n
           x == p + 1
<1>1. /\ replicas # << >> /\ replicas' = replicas /\ cursor' = cursor + 1
      /\ reads' = [reads EXCEPT ![x] = @ + 1]
  BY DEF NextReplica, ChosenReplica
<1>2. n \in Nat \ {0} /\ cursor \in Nat /\ reads \in [1..n -> Nat]
  BY <1>1 DEF RouterInv
<1>3. PICK q \in Nat, m \in 0..(n - 1) : Spread(reads, cursor, n, q, m)
  BY <1>1 DEF RouterInv
<1> HIDE DEF n
<1>4. p \in 0..(n - 1) /\ cursor' % n = IF p + 1 = n THEN 0 ELSE p + 1
  BY <1>1, <1>2, NextRemainder
<1> DEFINE p2 == cursor' % n
<1> HIDE DEF p, p2
<1>5. x \in 1..n /\ p2 = IF p + 1 = n THEN 0 ELSE p + 1
  BY <1>2, <1>4 DEF p2
<1>6. \A i \in 1..n : reads[i] = IF Age(i, p, n) < m THEN q + 1 ELSE q
  BY <1>3 DEF Spread, p
<1>7. reads' \in [1..n -> Nat] /\ \A i \in 1..n : reads'[i] = IF i = x THEN reads[i] + 1 ELSE reads[i]
  BY <1>1, <1>2, <1>5
<1>8. ASSUME NEW i \in 1..n
      PROVE  /\ Age(i, p2, n) = IF i = x THEN 0 ELSE Age(i, p, n) + 1
             /\ Age(x, p, n) = n - 1
             /\ Age(i, p, n) \in 0..(n - 1) /\ (i # x => Age(i, p, n) < n - 1)
  BY <1>2, <1>4, <1>5 DEF Age
<1>9. CASE m + 1 < n
  <2>1. ASSUME NEW i \in 1..n
        PROVE  reads'[i] = IF Age(i, p2, n) < m + 1 THEN q + 1 ELSE q
    <3> DEFINE u == Age(i, p, n)
               v == Age(i, p2, n)
    <3>1. /\ reads'[i] = IF i = x THEN reads[i] + 1 ELSE reads[i]
          /\ reads[i] = IF u < m THEN q + 1 ELSE q
      BY <1>6, <1>7
    <3>2. v = (IF i = x THEN 0 ELSE u + 1) /\ u \in 0..(n - 1) /\ (i = x => u = n - 1)
      BY <1>8
    <3> HIDE DEF u, v, x
    <3>3. reads'[i] = IF v < m + 1 THEN q + 1 ELSE q
      BY <1>2, <1>9, <3>1, <3>2
    <3> QED  BY <3>3 DEF v
  <2>2. Spread(reads', cursor', n, q, m + 1) /\ m + 1 \in 0..(n - 1)
    BY <1>2, <1>9, <2>1 DEF Spread, p2
  <2> QED  BY <1>1, <1>2, <1>7, <2>2 DEF RouterInv, n
<1>10. CASE m + 1 = n
  <2>1. ASSUME NEW i \in 1..n
        PROVE  reads'[i] = q + 1 /\ ~ Age(i, p2, n) < 0
    <3> DEFINE u == Age(i, p, n)
               v == Age(i, p2, n)
    <3>1. /\ reads'[i] = IF i = x THEN reads[i] + 1 ELSE reads[i]
          /\ reads[i] = IF u < m THEN q + 1 ELSE q
      BY <1>6, <1>7
    <3>2. /\ v = IF i = x THEN 0 ELSE u + 1
          /\ u \in 0..(n - 1) /\ (i = x => u = n - 1) /\ (i # x => u < n - 1)
      BY <1>8
    <3> HIDE DEF u, v, x
    <3>3. reads'[i] = q + 1 /\ ~ v < 0
      BY <1>2, <1>10, <3>1, <3>2
    <3> QED  BY <3>3 DEF v
  <2>2. Spread(reads', cursor', n, q + 1, 0) /\ 0 \in 0..(n - 1) /\ q + 1 \in Nat
    BY <1>2, <2>1 DEF Spread, p2
  <2> QED  BY <1>1, <1>2, <1>7, <2>2 DEF RouterInv, n
<1> QED  BY <1>2, <1>9, <1>10

LEMMA RouterKeeps == RouterInv /\ [RouterNext]_router_vars => RouterInv'
<1> SUFFICES ASSUME RouterInv, [RouterNext]_router_vars PROVE RouterInv'
  OBVIOUS
<1>1. replicas \in Seq(Node) /\ cursor \in Nat
  BY DEF RouterInv
<1>2. CASE UNCHANGED router_vars
  BY <1>2 DEF router_vars, RouterInv
<1>3. CASE NextReplica
  BY <1>3, ReadTurn
<1>4. ASSUME NEW n \in Node, AddReplica(n) PROVE RouterInv'
  <2>1. Append(replicas, n) \in Seq(Node)
    BY <1>1
  <2>2. /\ replicas' = Append(replicas, n) /\ reads' = Zeros(Append(replicas, n))
        /\ cursor' = cursor
    BY <1>4 DEF AddReplica
  <2> DEFINE r == Append(replicas, n)
  <2> HIDE DEF r
  <2> QED  BY <1>1, <2>1, <2>2, NewRound DEF RouterInv, r
<1>5. ASSUME NEW n \in Node, RemoveReplica(n) PROVE RouterInv'
  <2>1. Retain(replicas, {n}) \in Seq(Node)
    BY <1>1, Retained
  <2> DEFINE r == Retain(replicas, {n})
  <2>2. replicas' = r /\ reads' = Zeros(r) /\ cursor' = cursor
    BY <1>5 DEF RemoveReplica
  <2> HIDE DEF r
  <2> QED  BY <1>1, <2>1, <2>2, NewRound DEF RouterInv, r
<1> QED  BY <1>2, <1>3, <1>4, <1>5 DEF RouterNext

LEMMA RouterBegins == RouterInit => RouterInv
<1> SUFFICES ASSUME RouterInit PROVE RouterInv
  OBVIOUS
<1> DEFINE k == Cardinality(Node)
<1>1. k \in Nat /\ ExistsBijection(1..k, Node)
  BY TransportAssumption, FS_CardinalityType
<1>2. \E g \in [1..k -> Node] : IsInjective(g)
  BY <1>1 DEF ExistsBijection, Bijection, Injection
<1>3. SetToSeq(Node) \in [1..k -> Node]
  BY <1>2, Zenon DEF SetToSeq
<1> HIDE DEF k
<1>4. SetToSeq(Node) \in Seq(Node)
  BY <1>1, <1>3
<1>5. replicas \in Seq(Node) /\ cursor = 0 /\ reads = Zeros(replicas)
  BY <1>4 DEF RouterInit
<1> QED  BY <1>5, NewRound DEF RouterInv

LEMMA RouterSafe == RouterInv => ReadsBalanced
<1> SUFFICES ASSUME RouterInv, NEW i \in DOMAIN reads, NEW j \in DOMAIN reads
             PROVE  reads[i] - reads[j] <= 1
  BY DEF ReadsBalanced
<1>1. DOMAIN reads = 1..Len(replicas) /\ replicas # << >>
  BY DEF RouterInv
<1>2. PICK q \in Nat, m \in 0..(Len(replicas) - 1) : Spread(reads, cursor, Len(replicas), q, m)
  BY <1>1 DEF RouterInv
<1>3. reads[i] \in {q, q + 1} /\ reads[j] \in {q, q + 1}
  BY <1>1, <1>2 DEF Spread
<1> QED  BY <1>3

-----------------------------------------------------------------------------
(* The simulated network. *)

\* The head of a list moves to the end of another one.
LEMMA MoveHead ==
    ASSUME NEW S, NEW b \in Seq(S), NEW w \in Seq(S), w # << >>
    PROVE  Append(b, Head(w)) \o Tail(w) = b \o w
<1> DEFINE x == Head(w)
           y == Tail(w)
           l == Append(b, x)
           p == l \o y
           q == b \o w
           m == Len(b)
           n == Len(w)
<1>1. /\ x \in S /\ y \in Seq(S) /\ n \in Nat /\ m \in Nat
      /\ x = w[1] /\ Len(y) = n - 1 /\ \A c \in 1..Len(y) : y[c] = w[c + 1]
      /\ n # 0
  OBVIOUS
<1>2. /\ l \in Seq(S) /\ Len(l) = m + 1 /\ l[m + 1] = x
      /\ \A c \in 1..m : l[c] = b[c]
  <2> HIDE DEF x, y
  <2> QED  BY <1>1
<1> HIDE DEF x, y, l
<1>3. /\ p \in Seq(S) /\ Len(p) = Len(l) + Len(y)
      /\ \A i \in 1..Len(l) + Len(y) : p[i] = IF i <= Len(l) THEN l[i] ELSE y[i - Len(l)]
  BY <1>1, <1>2, ConcatProperties
<1>4. /\ q \in Seq(S) /\ Len(q) = m + n
      /\ \A i \in 1..(m + n) : q[i] = IF i <= m THEN b[i] ELSE w[i - m]
  BY ConcatProperties
<1> HIDE DEF p, q, m, n
<1>5. Len(p) = m + n /\ Len(y) = n - 1 /\ Len(l) + Len(y) = m + n
  BY <1>1, <1>2, <1>3
<1>6. ASSUME NEW i \in 1..(m + n) PROVE p[i] = q[i]
  <2>1. i \in Nat /\ 1 <= i /\ i <= m + n
    BY <1>1
  <2>2. p[i] = IF i <= m + 1 THEN l[i] ELSE y[i - (m + 1)]
    BY <1>2, <1>3, <1>5
  <2>3. q[i] = IF i <= m THEN b[i] ELSE w[i - m]
    BY <1>4
  <2>4. CASE i <= m
    BY <1>1, <1>2, <2>1, <2>2, <2>3, <2>4
  <2>5. CASE i = m + 1
    <3>1. i - m = 1 /\ i <= m + 1 /\ ~ i <= m
      BY <1>1, <2>5
    <3> QED  BY <1>1, <1>2, <2>2, <2>3, <2>5, <3>1
  <2>6. CASE i > m + 1
    <3> DEFINE c == i - (m + 1)
    <3>1. c \in 1..(n - 1) /\ c + 1 = i - m /\ ~ i <= m + 1 /\ ~ i <= m
      BY <1>1, <2>1, <2>6
    <3>2. p[i] = y[c] /\ q[i] = w[i - m]
      BY <2>2, <2>3, <3>1
    <3>3. y[c] = w[c + 1]
      BY <1>1, <1>5, <3>1
    <3> QED  BY <3>1, <3>2, <3>3
  <2>7. i <= m \/ i = m + 1 \/ i > m + 1
    BY <1>1, <2>1
  <2> QED  BY <2>4, <2>5, <2>6, <2>7
<1>7. p = q
  BY <1>3, <1>4, <1>5, <1>6, SeqEqual
<1> QED  BY <1>7 DEF p, q, l, x, y

\* An element appended to the second of two lists is appended to both.
LEMMA MoveLast ==
    ASSUME NEW S, NEW y \in Seq(S), NEW z \in Seq(S), NEW x \in S
    PROVE  y \o Append(z, x) = Append(y \o z, x)
<1> DEFINE zx == Append(z, x)
           yz == y \o z
           p == y \o zx
           q == Append(yz, x)
           m == Len(y)
           n == Len(z)
<1>1. /\ m \in Nat /\ n \in Nat /\ zx \in Seq(S) /\ Len(zx) = n + 1 /\ zx[n + 1] = x
      /\ \A i \in 1..n : zx[i] = z[i]
  OBVIOUS
<1>2. /\ yz \in Seq(S) /\ Len(yz) = m + n
      /\ \A i \in 1..m + n : yz[i] = IF i <= m THEN y[i] ELSE z[i - m]
  BY ConcatProperties
<1> HIDE DEF zx, yz
<1>3. /\ p \in Seq(S) /\ Len(p) = m + (n + 1)
      /\ \A i \in 1..m + (n + 1) : p[i] = IF i <= m THEN y[i] ELSE zx[i - m]
  <2>1. Len(p) = m + Len(zx) /\ p \in Seq(S)
        /\ \A i \in 1..m + Len(zx) : p[i] = IF i <= m THEN y[i] ELSE zx[i - m]
    BY <1>1, ConcatProperties
  <2> HIDE DEF p, m, n
  <2> QED  BY <1>1, <2>1
<1>4. /\ q \in Seq(S) /\ Len(q) = (m + n) + 1 /\ q[(m + n) + 1] = x
      /\ \A i \in 1..m + n : q[i] = yz[i]
  <2>1. /\ q \in Seq(S) /\ Len(q) = Len(yz) + 1 /\ q[Len(yz) + 1] = x
        /\ \A i \in 1..Len(yz) : q[i] = yz[i]
    BY <1>2
  <2> HIDE DEF q, m, n
  <2> QED  BY <1>2, <2>1
<1> HIDE DEF p, q, m, n
<1>5. Len(p) = Len(q)
  BY <1>1, <1>3, <1>4
<1>6. ASSUME NEW i \in 1..Len(p) PROVE p[i] = q[i]
  <2>1. i \in 1..m + (n + 1) /\ (i \in 1..m + n \/ i = (m + n) + 1)
    BY <1>1, <1>3
  <2>2. CASE i <= m
    BY <1>1, <1>2, <1>3, <1>4, <2>1, <2>2
  <2>3. CASE i > m /\ i \in 1..m + n
    <3>1. i - m \in 1..n /\ ~ i <= m
      BY <1>1, <2>3
    <3> QED  BY <1>1, <1>2, <1>3, <1>4, <2>1, <2>3, <3>1
  <2>4. CASE i = (m + n) + 1
    <3>1. i - m = n + 1 /\ ~ i <= m
      BY <1>1, <2>4
    <3> QED  BY <1>1, <1>3, <1>4, <2>1, <2>4, <3>1
  <2> QED  BY <1>1, <2>1, <2>2, <2>3, <2>4
<1>7. p = q
  BY <1>3, <1>4, <1>5, <1>6, SeqEqual
<1> QED  BY <1>7 DEF p, q, zx, yz

NetMessage == [msg_type : {MsgType[b] : b \in DOMAIN MsgType}, from : Node, to : Node,
               term : Nat, payload : Seq(Nat)]

\* What was sent to a node and not dropped, in the order of sending.
Arrivals(n) == received[n] \o mailboxes[n]

Cut(a, b) == \E i \in 1..Len(partitions) : partitions[i] = <<a, b>>

NetInv ==
    /\ outgoing \in Nat
    /\ mailboxes \in [Node -> Seq(NetMessage)] /\ received \in [Node -> Seq(NetMessage)]
    /\ \A n \in Node :
          /\ \A i \in 1..Len(Arrivals(n)) : Arrivals(n)[i].to = n /\ Arrivals(n)[i].term <= outgoing
          /\ \A i, j \in 1..Len(Arrivals(n)) : i < j => Arrivals(n)[i].term < Arrivals(n)[j].term
    /\ partitions \in Seq(Node \X Node)
    /\ \A a, b \in Node : Cut(a, b) => Cut(b, a)

LEMMA MessageTyped ==
    ASSUME NEW a \in Node, NEW b \in Node, outgoing \in Nat
    PROVE  /\ Message(a, b) \in NetMessage
           /\ Message(a, b).to = b /\ Message(a, b).term = outgoing + 1
<1>1. (outgoing % 7) + 1 \in 1..7
  OBVIOUS
<1>2. Len(MsgType) = 7 /\ DOMAIN MsgType = 1..7
  BY DEF MsgType
<1> DEFINE t == MsgType[(outgoing % Len(MsgType)) + 1]
           p == [i \in 1..(outgoing % 2) |-> outgoing]
<1>3. t \in {MsgType[x] : x \in DOMAIN MsgType}
  BY <1>1, <1>2
<1>4. p \in Seq(Nat)
  <2>1. outgoing % 2 \in Nat
    OBVIOUS
  <2> QED  BY <2>1
<1>5. Message(a, b) = [msg_type |-> t, from |-> a, to |-> b, term |-> outgoing + 1, payload |-> p]
  BY DEF Message
<1> HIDE DEF t, p
<1> QED  BY <1>3, <1>4, <1>5 DEF NetMessage

LEMMA SendKeeps == ASSUME NetInv, NEW a \in Node, NEW b \in Node, Send(a, b) PROVE NetInv'
<1> DEFINE x == Message(a, b)
           o == Arrivals(b)
<1>1. /\ outgoing \in Nat /\ outgoing' = outgoing + 1 /\ UNCHANGED <<partitions, received>>
      /\ mailboxes' = IF IsPartitioned(a, b) THEN mailboxes ELSE [mailboxes EXCEPT ![b] = Append(@, x)]
      /\ mailboxes \in [Node -> Seq(NetMessage)] /\ received \in [Node -> Seq(NetMessage)]
  BY DEF Send, NetInv
<1>2. x \in NetMessage /\ x.to = b /\ x.term = outgoing + 1
  BY <1>1, MessageTyped
<1> HIDE DEF x
<1>3. /\ partitions' \in Seq(Node \X Node)
      /\ \A u, v \in Node : Cut(u, v)' => Cut(v, u)'
  BY <1>1 DEF NetInv, Cut
<1>4. \A n \in Node : \A i \in 1..Len(Arrivals(n)) : Arrivals(n)[i].term <= outgoing + 1
  <2> SUFFICES ASSUME NEW n \in Node, NEW i \in 1..Len(Arrivals(n)) PROVE Arrivals(n)[i].term <= outgoing + 1
    OBVIOUS
  <2> DEFINE k == Arrivals(n)[i].term
  <2>1. Arrivals(n) \in Seq(NetMessage)
    BY <1>1 DEF Arrivals
  <2>2. Arrivals(n)[i] \in NetMessage
    BY <2>1
  <2>3. k \in Nat
    BY <2>2 DEF NetMessage
  <2>4. k <= outgoing
    BY DEF NetInv
  <2>5. outgoing \in Nat
    BY <1>1
  <2> HIDE DEF k
  <2>6. k <= outgoing + 1
    BY <2>3, <2>4, <2>5
  <2> QED  BY <2>6 DEF k
<1>5. ASSUME mailboxes' = mailboxes PROVE NetInv'
  <2>1. \A n \in Node : Arrivals(n)' = Arrivals(n)
    BY <1>1, <1>5 DEF Arrivals
  <2>2. \A n \in Node :
          /\ \A i \in 1..Len(Arrivals(n)') : Arrivals(n)'[i].to = n /\ Arrivals(n)'[i].term <= outgoing'
          /\ \A i, j \in 1..Len(Arrivals(n)') : i < j => Arrivals(n)'[i].term < Arrivals(n)'[j].term
    BY <1>1, <1>4, <2>1 DEF NetInv
  <2>3. mailboxes' \in [Node -> Seq(NetMessage)] /\ received' \in [Node -> Seq(NetMessage)] /\ outgoing' \in Nat
    BY <1>1, <1>5
  <2> QED  BY <1>3, <2>2, <2>3 DEF NetInv
<1>6. ASSUME mailboxes' = [mailboxes EXCEPT ![b] = Append(@, x)] PROVE NetInv'
  <2>1. /\ mailboxes'[b] = Append(mailboxes[b], x) /\ mailboxes[b] \in Seq(NetMessage)
        /\ \A n \in Node \ {b} : mailboxes'[n] = mailboxes[n]
        /\ received[b] \in Seq(NetMessage)
    BY <1>1, <1>6
  <2>2. Append(mailboxes[b], x) \in Seq(NetMessage)
    BY <1>2, <2>1
  <2>3. mailboxes' \in [Node -> Seq(NetMessage)]
    BY <1>1, <1>6, <2>2
  <2>4. o \in Seq(NetMessage) /\ Arrivals(b)' = Append(o, x)
    <3>1. received[b] \o Append(mailboxes[b], x) = Append(received[b] \o mailboxes[b], x)
      <4> DEFINE y == received[b]
                 z == mailboxes[b]
      <4>1. y \in Seq(NetMessage) /\ z \in Seq(NetMessage)
        BY <2>1
      <4> HIDE DEF y, z
      <4>2. y \o Append(z, x) = Append(y \o z, x)
        BY <1>2, <4>1, MoveLast
      <4> QED  BY <4>2 DEF y, z
    <3>2. received[b] \o mailboxes[b] \in Seq(NetMessage)
      BY <2>1
    <3>3. received' = received
      BY <1>1
    <3> QED  BY <2>1, <3>1, <3>2, <3>3 DEF Arrivals
  <2>5. \A n \in Node \ {b} : Arrivals(n)' = Arrivals(n)
    BY <1>1, <2>1 DEF Arrivals
  <2>6. /\ \A i \in 1..Len(o) : o[i] \in NetMessage /\ o[i].to = b /\ o[i].term <= outgoing
        /\ \A i, j \in 1..Len(o) : i < j => o[i].term < o[j].term
    BY <2>4 DEF NetInv
  <2>7. \A i \in 1..Len(o) : o[i].term \in Nat
    BY <2>6 DEF NetMessage
  <2> DEFINE r == Append(o, x)
  <2>8. /\ Len(o) \in Nat /\ Len(r) = Len(o) + 1 /\ r[Len(o) + 1] = x
        /\ \A i \in 1..Len(o) : r[i] = o[i]
    <3> HIDE DEF o
    <3> QED  BY <1>2, <2>4
  <2> HIDE DEF r, o
  <2>9. ASSUME NEW i \in 1..Len(r) PROVE r[i].to = b /\ r[i].term <= outgoing + 1
    <3>1. CASE i \in 1..Len(o)
      <4> DEFINE y == o[i]
      <4>1. r[i] = y /\ y.to = b /\ y.term <= outgoing /\ y.term \in Nat
        BY <2>6, <2>7, <2>8, <3>1
      <4> HIDE DEF y
      <4>2. y.term <= outgoing + 1
        <5> DEFINE k == y.term
        <5>1. k \in Nat /\ k <= outgoing /\ outgoing \in Nat
          BY <1>1, <4>1
        <5> HIDE DEF k
        <5>2. k <= outgoing + 1
          BY <5>1
        <5> QED  BY <5>2 DEF k
      <4> QED  BY <4>1, <4>2, Zenon
    <3>2. CASE i = Len(o) + 1
      <4>1. r[i] = x
        BY <2>8, <3>2
      <4> QED  BY <1>1, <1>2, <4>1
    <3> QED  BY <2>8, <3>1, <3>2
  <2>10. ASSUME NEW i \in 1..Len(r), NEW j \in 1..Len(r), i < j PROVE r[i].term < r[j].term
    <3>1. i \in 1..Len(o) /\ (j \in 1..Len(o) \/ j = Len(o) + 1)
      BY <2>8, <2>10
    <3>2. r[i] = o[i] /\ o[i].term <= outgoing /\ o[i].term \in Nat
      BY <2>6, <2>7, <2>8, <3>1
    <3>3. CASE j \in 1..Len(o)
      <4>1. r[j] = o[j] /\ o[i].term < o[j].term
        BY <2>6, <2>8, <2>10, <3>1, <3>3
      <4> QED  BY <3>2, <4>1
    <3>4. CASE j = Len(o) + 1
      <4>1. r[j].term = outgoing + 1
        BY <1>2, <2>8, <3>4
      <4>2. o[i].term < outgoing + 1
        <5> DEFINE k == o[i].term
        <5>1. k \in Nat /\ k <= outgoing /\ outgoing \in Nat
          BY <1>1, <3>2
        <5> HIDE DEF k
        <5>2. k < outgoing + 1
          BY <5>1
        <5> QED  BY <5>2 DEF k
      <4> QED  BY <3>2, <4>1, <4>2, Zenon
    <3> QED  BY <3>1, <3>3, <3>4
  <2>11. \A n \in Node :
          /\ \A i \in 1..Len(Arrivals(n)') : Arrivals(n)'[i].to = n /\ Arrivals(n)'[i].term <= outgoing'
          /\ \A i, j \in 1..Len(Arrivals(n)') : i < j => Arrivals(n)'[i].term < Arrivals(n)'[j].term
    <3> SUFFICES ASSUME NEW n \in Node
                 PROVE  /\ \A i \in 1..Len(Arrivals(n)') : Arrivals(n)'[i].to = n /\ Arrivals(n)'[i].term <= outgoing'
                        /\ \A i, j \in 1..Len(Arrivals(n)') : i < j => Arrivals(n)'[i].term < Arrivals(n)'[j].term
      OBVIOUS
    <3>1. CASE n = b
      BY <1>1, <2>4, <2>9, <2>10, <3>1 DEF r
    <3>2. CASE n # b
      <4>1. Arrivals(n)' = Arrivals(n)
        BY <2>5, <3>2
      <4> QED  BY <1>1, <1>4, <4>1 DEF NetInv
    <3> QED  BY <3>1, <3>2
  <2> QED  BY <1>1, <1>3, <2>3, <2>11 DEF NetInv
<1> QED  BY <1>1, <1>5, <1>6

LEMMA RecvKeeps == ASSUME NetInv, NEW n \in Node, Recv(n) PROVE NetInv'
<1> DEFINE b == received[n]
           w == mailboxes[n]
<1>1. /\ w # << >> /\ UNCHANGED <<partitions, outgoing>>
      /\ mailboxes' = [mailboxes EXCEPT ![n] = Tail(w)]
      /\ received' = [received EXCEPT ![n] = Append(b, Head(w))]
      /\ w \in Seq(NetMessage) /\ b \in Seq(NetMessage)
      /\ mailboxes \in [Node -> Seq(NetMessage)] /\ received \in [Node -> Seq(NetMessage)]
  BY DEF Recv, NetInv
<1> HIDE DEF b, w
<1>2. Tail(w) \in Seq(NetMessage) /\ Append(b, Head(w)) \in Seq(NetMessage)
  <2>1. Head(w) \in NetMessage /\ Tail(w) \in Seq(NetMessage)
    BY <1>1
  <2> DEFINE h == Head(w)
  <2> HIDE DEF h
  <2>2. Append(b, h) \in Seq(NetMessage)
    BY <1>1, <2>1 DEF h
  <2> QED  BY <2>1, <2>2 DEF h
<1>3. Append(b, Head(w)) \o Tail(w) = b \o w
  BY <1>1, MoveHead, Zenon
<1>4. /\ mailboxes' \in [Node -> Seq(NetMessage)] /\ received' \in [Node -> Seq(NetMessage)]
      /\ mailboxes'[n] = Tail(w) /\ received'[n] = Append(b, Head(w))
      /\ \A m \in Node \ {n} : mailboxes'[m] = mailboxes[m] /\ received'[m] = received[m]
  BY <1>1, <1>2
<1>5. \A m \in Node : Arrivals(m)' = Arrivals(m)
  BY <1>3, <1>4 DEF Arrivals, b, w
<1>6. \A u, v \in Node : Cut(u, v)' <=> Cut(u, v)
  BY <1>1 DEF Cut
<1>7. outgoing' = outgoing /\ partitions' = partitions
  BY <1>1
<1>8. \A m \in Node :
        /\ \A i \in 1..Len(Arrivals(m)') : Arrivals(m)'[i].to = m /\ Arrivals(m)'[i].term <= outgoing'
        /\ \A i, j \in 1..Len(Arrivals(m)') : i < j => Arrivals(m)'[i].term < Arrivals(m)'[j].term
  BY <1>5, <1>7 DEF NetInv
<1>9. /\ outgoing' \in Nat /\ partitions' \in Seq(Node \X Node)
      /\ \A u, v \in Node : Cut(u, v)' => Cut(v, u)'
  BY <1>6, <1>7 DEF NetInv
<1> QED  BY <1>4, <1>8, <1>9 DEF NetInv

LEMMA PartitionKeeps ==
    ASSUME NetInv, partitions' \in Seq(Node \X Node), \A a, b \in Node : Cut(a, b)' => Cut(b, a)',
           UNCHANGED <<mailboxes, outgoing, received>>
    PROVE  NetInv'
<1>1. \A n \in Node : Arrivals(n)' = Arrivals(n)
  BY DEF Arrivals
<1> QED  BY <1>1 DEF NetInv

LEMMA AddPartitionKeeps == ASSUME NetInv, NEW a \in Node, NEW b \in Node, AddPartition(a, b) PROVE NetInv'
<1> DEFINE p == partitions
           q == << <<a, b>>, <<b, a>> >>
<1>1. partitions' = p \o q /\ UNCHANGED <<mailboxes, outgoing, received>>
      /\ p \in Seq(Node \X Node)
  BY DEF AddPartition, NetInv
<1>2. q \in Seq(Node \X Node) /\ Len(q) = 2 /\ q[1] = <<a, b>> /\ q[2] = <<b, a>>
  OBVIOUS
<1> HIDE DEF q
<1>3. /\ p \o q \in Seq(Node \X Node) /\ Len(p \o q) = Len(p) + 2 /\ Len(p) \in Nat
      /\ \A i \in 1..Len(p) : (p \o q)[i] = p[i]
      /\ (p \o q)[Len(p) + 1] = <<a, b>> /\ (p \o q)[Len(p) + 2] = <<b, a>>
  <2>0. p \in Seq(Node \X Node) /\ q \in Seq(Node \X Node)
    BY <1>1, <1>2
  <2> HIDE DEF p
  <2>1. /\ p \o q \in Seq(Node \X Node) /\ Len(p \o q) = Len(p) + Len(q) /\ Len(p) \in Nat
        /\ \A i \in 1..Len(p) + Len(q) : (p \o q)[i] = IF i <= Len(p) THEN p[i] ELSE q[i - Len(p)]
    BY <2>0, ConcatProperties
  <2> DEFINE n == Len(p)
             r == p \o q
  <2>2. /\ r \in Seq(Node \X Node) /\ Len(r) = n + 2 /\ n \in Nat
        /\ \A i \in 1..n + 2 : r[i] = IF i <= n THEN p[i] ELSE q[i - n]
    BY <1>2, <2>1
  <2> HIDE DEF n, r
  <2>3. \A i \in 1..n : r[i] = p[i]
    BY <2>2
  <2>4. /\ n + 1 \in 1..n + 2 /\ ~ n + 1 <= n /\ (n + 1) - n = 1
        /\ n + 2 \in 1..n + 2 /\ ~ n + 2 <= n /\ (n + 2) - n = 2
    BY <2>2
  <2>5. r[n + 1] = q[1] /\ r[n + 2] = q[2]
    BY <2>2, <2>4
  <2> QED  BY <1>2, <2>2, <2>3, <2>5 DEF n, r
<1> DEFINE r == p \o q
<1> HIDE DEF r
<1>4. \A u, v : Cut(u, v)' <=> Cut(u, v) \/ <<u, v>> \in {<<a, b>>, <<b, a>>}
  <2> SUFFICES ASSUME NEW u, NEW v
               PROVE  (\E i \in 1..Len(r) : r[i] = <<u, v>>)
                      <=> Cut(u, v) \/ <<u, v>> \in {<<a, b>>, <<b, a>>}
    BY <1>1 DEF Cut, r
  <2>1. ASSUME NEW i \in 1..Len(r), r[i] = <<u, v>>
        PROVE  Cut(u, v) \/ <<u, v>> \in {<<a, b>>, <<b, a>>}
    <3>1. i \in 1..Len(p) \/ i = Len(p) + 1 \/ i = Len(p) + 2
      BY <1>3 DEF r
    <3> QED  BY <1>3, <2>1, <3>1 DEF Cut, r
  <2>2. ASSUME Cut(u, v) PROVE \E i \in 1..Len(r) : r[i] = <<u, v>>
    <3>1. PICK i \in 1..Len(p) : p[i] = <<u, v>>
      BY <2>2 DEF Cut
    <3>2. i \in 1..Len(r) /\ r[i] = p[i]
      BY <1>3 DEF r
    <3> QED  BY <3>1, <3>2
  <2>3. Len(p) + 1 \in 1..Len(r) /\ Len(p) + 2 \in 1..Len(r)
    BY <1>3 DEF r
  <2>4. r[Len(p) + 1] = <<a, b>> /\ r[Len(p) + 2] = <<b, a>>
    BY <1>3 DEF r
  <2> QED  BY <2>1, <2>2, <2>3, <2>4
<1>5. \A u, v \in Node : Cut(u, v)' => Cut(v, u)'
  <2> SUFFICES ASSUME NEW u \in Node, NEW v \in Node, Cut(u, v)' PROVE Cut(v, u)'
    OBVIOUS
  <2>1. CASE Cut(u, v)
    <3>1. Cut(v, u)
      BY <2>1 DEF NetInv
    <3> QED  BY <1>4, <3>1
  <2>2. CASE <<u, v>> \in {<<a, b>>, <<b, a>>}
    <3>1. <<v, u>> \in {<<a, b>>, <<b, a>>}
      BY <2>2
    <3> QED  BY <1>4, <3>1
  <2> QED  BY <1>4, <2>1, <2>2
<1> QED  BY <1>1, <1>3, <1>5, PartitionKeeps

LEMMA HealKeeps == ASSUME NetInv, NEW a \in Node, NEW b \in Node, HealPartition(a, b) PROVE NetInv'
<1> DEFINE gone == {<<a, b>>, <<b, a>>}
           r == Retain(partitions, gone)
<1>1. partitions' = r /\ UNCHANGED <<mailboxes, outgoing, received>> /\ partitions \in Seq(Node \X Node)
  BY DEF HealPartition, NetInv
<1>2. /\ r \in Seq(Node \X Node)
      /\ \A x : (\E i \in 1..Len(r) : r[i] = x) <=>
                 (\E i \in 1..Len(partitions) : partitions[i] = x) /\ x \notin gone
  <2> HIDE DEF gone
  <2> QED  BY <1>1, Retained
<1> HIDE DEF r
<1>3. \A u, v : Cut(u, v)' <=> Cut(u, v) /\ <<u, v>> \notin gone
  BY <1>1, <1>2 DEF Cut
<1>4. \A u, v : <<u, v>> \in gone <=> <<v, u>> \in gone
  OBVIOUS
<1>5. \A u, v \in Node : Cut(u, v)' => Cut(v, u)'
  BY <1>3, <1>4 DEF NetInv
<1> QED  BY <1>1, <1>2, <1>5, PartitionKeeps

LEMMA NetKeeps == NetInv /\ [NetNext]_net_vars => NetInv'
<1> SUFFICES ASSUME NetInv, [NetNext]_net_vars PROVE NetInv'
  OBVIOUS
<1>1. CASE UNCHANGED net_vars
  BY <1>1 DEF net_vars, NetInv, Arrivals, Cut
<1> QED  BY <1>1, SendKeeps, RecvKeeps, AddPartitionKeeps, HealKeeps DEF NetNext

LEMMA NetBegins == NetInit => NetInv
<1> SUFFICES ASSUME NetInit PROVE NetInv
  OBVIOUS
<1>1. << >> \in Seq(NetMessage) /\ << >> \in Seq(Node \X Node) /\ << >> \o << >> = << >> /\ 1..Len(<< >>) = {}
  OBVIOUS
<1>2. /\ mailboxes \in [Node -> Seq(NetMessage)] /\ received \in [Node -> Seq(NetMessage)]
      /\ \A n \in Node : Arrivals(n) = << >>
  BY <1>1 DEF NetInit, Arrivals
<1> QED  BY <1>1, <1>2 DEF NetInit, NetInv, Cut

\* A message read from its frame is the message the frame was made of.
LEMMA FrameExact == \A m \in NetMessage : Deserialize(Serialize(m)) = {m}
<1> SUFFICES ASSUME NEW m \in NetMessage PROVE Deserialize(Serialize(m)) = {m}
  OBVIOUS
<1> DEFINE t == CHOOSE b \in DOMAIN MsgType : MsgType[b] = m.msg_type
           l == Len(m.payload)
           f == [magic |-> "CNR1", type |-> t, payload_len |-> l, from |-> m.from, to |-> m.to,
                 term |-> m.term, rest |-> m.payload]
<1>1. t \in DOMAIN MsgType /\ MsgType[t] = m.msg_type
  <2>1. \E b \in DOMAIN MsgType : MsgType[b] = m.msg_type
    BY DEF NetMessage
  <2> QED  BY <2>1
<1>2. m.payload \in Seq(Nat) /\ l \in Nat /\ SubSeq(m.payload, 1, l) = m.payload
  BY DEF NetMessage
<1>3. Serialize(m) = f
  BY DEF Serialize
<1> HIDE DEF t, l
<1>4. /\ f.magic = "CNR1" /\ f.type = t /\ f.payload_len = l /\ f.from = m.from /\ f.to = m.to
      /\ f.term = m.term /\ f.rest = m.payload
  OBVIOUS
<1>5. Len(m.payload) >= l
  BY <1>2 DEF l
<1> HIDE DEF f
<1>6. Deserialize(f) = {[msg_type |-> m.msg_type, from |-> m.from, to |-> m.to, term |-> m.term,
                         payload |-> m.payload]}
  BY <1>1, <1>2, <1>4, <1>5 DEF Deserialize
<1>7. m = [msg_type |-> m.msg_type, from |-> m.from, to |-> m.to, term |-> m.term,
           payload |-> m.payload]
  BY DEF NetMessage
<1> QED  BY <1>3, <1>6, <1>7

LEMMA NetSafe == NetInv => NetworkSafe
<1> SUFFICES ASSUME NetInv PROVE NetworkSafe
  OBVIOUS
<1>1. ASSUME NEW n \in Node
      PROVE  /\ DOMAIN received[n] = 1..Len(received[n]) /\ \A i \in 1..Len(received[n]) : received[n][i] \in NetMessage
             /\ \A i \in 1..Len(received[n]) : Arrivals(n)[i] = received[n][i] /\ i \in 1..Len(Arrivals(n))
  <2>1. received[n] \in Seq(NetMessage) /\ mailboxes[n] \in Seq(NetMessage)
    BY DEF NetInv
  <2> DEFINE x == received[n]
             y == mailboxes[n]
  <2>2. x \in Seq(NetMessage) /\ y \in Seq(NetMessage)
    BY <2>1
  <2> HIDE DEF x, y
  <2>3. /\ DOMAIN x = 1..Len(x) /\ \A i \in 1..Len(x) : x[i] \in NetMessage
        /\ Len(x \o y) = Len(x) + Len(y) /\ Len(x) \in Nat /\ Len(y) \in Nat
        /\ \A i \in 1..Len(x) : (x \o y)[i] = x[i]
    BY <2>2
  <2>4. \A i \in 1..Len(x) : i \in 1..Len(x \o y)
    BY <2>3
  <2> QED  BY <2>3, <2>4 DEF Arrivals, x, y
<1>2. InOrder
  <2> SUFFICES ASSUME NEW n \in Node, NEW i \in DOMAIN received[n], NEW j \in DOMAIN received[n]
               PROVE  /\ received[n][i].to = n
                      /\ i < j => received[n][i].term < received[n][j].term
    BY DEF InOrder
  <2>1. i \in 1..Len(received[n]) /\ j \in 1..Len(received[n])
    BY <1>1
  <2>2. /\ Arrivals(n)[i] = received[n][i] /\ i \in 1..Len(Arrivals(n))
        /\ Arrivals(n)[j] = received[n][j] /\ j \in 1..Len(Arrivals(n))
    BY <1>1, <2>1
  <2> QED  BY <2>2 DEF NetInv
<1>3. FramesExact
  BY <1>1, FrameExact DEF FramesExact
<1>4. CutBothWays
  <2>1. \A a, b : IsPartitioned(a, b) <=> Cut(a, b)
    <3>1. DOMAIN partitions = 1..Len(partitions)
      BY DEF NetInv
    <3> QED  BY <3>1 DEF IsPartitioned, Contains, Cut
  <2> SUFFICES ASSUME NEW a \in Node, NEW b \in Node PROVE IsPartitioned(a, b) = IsPartitioned(b, a)
    BY DEF CutBothWays
  <2>2. IsPartitioned(a, b) <=> IsPartitioned(b, a)
    BY <2>1 DEF NetInv
  <2>3. IsPartitioned(a, b) \in BOOLEAN /\ IsPartitioned(b, a) \in BOOLEAN
    BY DEF IsPartitioned, Contains
  <2> QED  BY <2>2, <2>3
<1> QED  BY <1>2, <1>3, <1>4 DEF NetworkSafe

-----------------------------------------------------------------------------
(* The I/O queue. *)

RingOp == Nat \X {"Read", "Write", "Fsync"}

RingResult == [op : RingOp, error : BOOLEAN]

\* The results there were, in the order of submission.
AllResults == handed \o results

RingInv ==
    /\ submitted \in Nat /\ completed \in Nat
    /\ pending \in Seq(RingOp) /\ results \in Seq(RingResult) /\ handed \in Seq(RingResult)
    /\ \A i \in 1..Len(pending) : pending[i][1] = submitted + i
    /\ Len(AllResults) = submitted /\ \A i \in 1..Len(AllResults) : AllResults[i].op[1] = i
    /\ completed <= Len(handed)

\* A list whose elements are numbered on from a list of numbered elements.
Numbered(q) == \A i \in 1..Len(q) : q[i].op[1] = i

LEMMA NumberedOn ==
    ASSUME NEW S, NEW x \in Seq(S), NEW y \in Seq(S), Numbered(x),
           \A i \in 1..Len(y) : y[i].op[1] = Len(x) + i
    PROVE  x \o y \in Seq(S) /\ Len(x \o y) = Len(x) + Len(y) /\ Numbered(x \o y)
<1> DEFINE m == Len(x)
           n == Len(y)
           r == x \o y
<1>1. /\ r \in Seq(S) /\ Len(r) = m + n
      /\ \A i \in 1..m + n : r[i] = IF i <= m THEN x[i] ELSE y[i - m]
  BY ConcatProperties
<1>2. m \in Nat /\ n \in Nat
  OBVIOUS
<1>3. \A i \in 1..m : x[i].op[1] = i
  BY DEF Numbered
<1>4. \A i \in 1..n : y[i].op[1] = m + i
  OBVIOUS
<1> HIDE DEF m, n, r
<1>5. ASSUME NEW i \in 1..m + n PROVE r[i].op[1] = i
  <2>1. CASE i <= m
    <3>1. i \in 1..m /\ r[i] = x[i]
      BY <1>1, <1>2, <2>1
    <3> QED  BY <1>3, <3>1
  <2>2. CASE i > m
    <3>1. i - m \in 1..n /\ r[i] = y[i - m] /\ m + (i - m) = i
      BY <1>1, <1>2, <2>2
    <3> QED  BY <1>4, <3>1
  <2> QED  BY <1>2, <2>1, <2>2
<1> QED  BY <1>1, <1>5 DEF Numbered, r, m, n

LEMMA SubmitKeeps == ASSUME RingInv, Submit PROVE RingInv'
<1> DEFINE n == Len(pending)
<1>1. PICK k \in {"Read", "Write", "Fsync"} : pending' = Append(pending, <<submitted + n + 1, k>>)
  BY DEF Submit
<1>2. UNCHANGED <<results, submitted, completed, handed>>
  BY DEF Submit
<1>3. /\ submitted \in Nat /\ pending \in Seq(RingOp)
      /\ \A i \in 1..n : pending[i][1] = submitted + i
  BY DEF RingInv
<1> DEFINE x == <<submitted + n + 1, k>>
           r == Append(pending, x)
<1>4. n \in Nat
  BY <1>3
<1>5. x \in RingOp /\ x[1] = submitted + n + 1
  BY <1>3, <1>4 DEF RingOp
<1> HIDE DEF x
<1>6. /\ r \in Seq(RingOp) /\ Len(r) = n + 1 /\ r[n + 1] = x
      /\ \A i \in 1..n : r[i] = pending[i]
  BY <1>3, <1>5
<1>7. pending' = r
  BY <1>1 DEF x
<1> HIDE DEF n, r
<1>8. ASSUME NEW i \in 1..Len(r) PROVE r[i][1] = submitted + i
  <2>1. CASE i \in 1..n
    BY <1>3, <1>6, <2>1
  <2>2. CASE i = n + 1
    <3>1. r[i][1] = submitted + n + 1
      BY <1>5, <1>6, <2>2
    <3>2. submitted + n + 1 = submitted + i
      BY <1>3, <1>4, <2>2
    <3> QED  BY <3>1, <3>2
  <2> QED  BY <1>4, <1>6, <2>1, <2>2
<1>9. AllResults' = AllResults
  BY <1>2 DEF AllResults
<1> QED  BY <1>2, <1>6, <1>7, <1>8, <1>9 DEF RingInv

LEMMA BatchKeeps == ASSUME RingInv, SubmitBatch PROVE RingInv'
<1> DEFINE n == Len(pending)
<1>1. PICK rs \in [DOMAIN pending -> UNION {ExecuteSync(pending[i]) : i \in DOMAIN pending}] :
         /\ \A i \in DOMAIN pending : rs[i] \in ExecuteSync(pending[i])
         /\ results' = results \o rs
  BY DEF SubmitBatch
<1>2. submitted' = submitted + n /\ pending' = << >> /\ UNCHANGED <<completed, handed>>
  BY DEF SubmitBatch
<1>3. /\ submitted \in Nat /\ completed \in Nat /\ pending \in Seq(RingOp)
      /\ results \in Seq(RingResult) /\ handed \in Seq(RingResult)
      /\ \A i \in 1..n : pending[i][1] = submitted + i
      /\ Len(AllResults) = submitted /\ Numbered(AllResults) /\ completed <= Len(handed)
  BY DEF RingInv, Numbered
<1>4. n \in Nat /\ DOMAIN pending = 1..n
  BY <1>3
<1>5. \A i \in 1..n : rs[i] \in RingResult /\ rs[i].op = pending[i]
  <2> SUFFICES ASSUME NEW i \in 1..n PROVE rs[i] \in RingResult /\ rs[i].op = pending[i]
    OBVIOUS
  <2>1. pending[i] \in RingOp
    BY <1>3
  <2>2. rs[i] \in ExecuteSync(pending[i])
    BY <1>1, <1>4
  <2>3. PICK e \in BOOLEAN : rs[i] = [op |-> pending[i], error |-> e]
    BY <2>2 DEF ExecuteSync
  <2> QED  BY <2>1, <2>3 DEF RingResult
<1>6. DOMAIN rs = 1..n
  BY <1>1, <1>4
<1>7. rs \in Seq(RingResult) /\ Len(rs) = n
  <2>1. rs = [i \in 1..n |-> rs[i]]
    BY <1>1, <1>6
  <2>2. rs \in [1..n -> RingResult]
    BY <1>5, <2>1
  <2> HIDE DEF n
  <2> QED  BY <1>4, <2>2
<1>8. \A i \in 1..Len(rs) : rs[i].op[1] = Len(AllResults) + i
  BY <1>3, <1>5, <1>7
<1>9. AllResults \in Seq(RingResult)
  BY <1>3 DEF AllResults
<1>10. results \o rs \in Seq(RingResult)
  BY <1>3, <1>7
<1>11. AllResults' = AllResults \o rs
  <2>1. AllResults' = handed \o (results \o rs)
    BY <1>1, <1>2 DEF AllResults
  <2>2. handed \in Seq(RingResult) /\ results \in Seq(RingResult) /\ rs \in Seq(RingResult)
    BY <1>3, <1>7
  <2>3. (handed \o results) \o rs = handed \o (results \o rs)
    BY <2>2, ConcatAssociative
  <2> QED  BY <2>1, <2>3, Zenon DEF AllResults
<1> DEFINE a == AllResults
           b == a \o rs
<1> HIDE DEF a, n
<1>12. Len(b) = Len(a) + n /\ Numbered(b)
  <2>1. a \in Seq(RingResult) /\ Numbered(a) /\ \A i \in 1..Len(rs) : rs[i].op[1] = Len(a) + i
    BY <1>3, <1>8, <1>9 DEF a
  <2> QED  BY <1>7, <2>1, NumberedOn
<1>13. Len(AllResults') = submitted' /\ Numbered(AllResults')
  BY <1>2, <1>3, <1>11, <1>12 DEF a
<1>14. submitted' \in Nat /\ pending' \in Seq(RingOp) /\ 1..Len(pending') = {}
  BY <1>2, <1>3, <1>4
<1>15. results' \in Seq(RingResult)
  BY <1>1, <1>10
<1> QED  BY <1>2, <1>3, <1>13, <1>14, <1>15 DEF RingInv, Numbered

\* Results are handed out; at most that many are counted.
LEMMA HandOutKeeps ==
    ASSUME RingInv, handed' = handed \o results, results' = << >>, UNCHANGED <<pending, submitted>>,
           completed' \in {completed, completed + Len(results)}
    PROVE  RingInv'
<1>1. /\ submitted \in Nat /\ completed \in Nat
      /\ results \in Seq(RingResult) /\ handed \in Seq(RingResult) /\ completed <= Len(handed)
  BY DEF RingInv
<1>2. AllResults \in Seq(RingResult) /\ Len(AllResults) = Len(handed) + Len(results)
  BY <1>1 DEF AllResults
<1>3. Len(handed) \in Nat /\ Len(results) \in Nat
  BY <1>1
<1>4. handed' = AllResults /\ results' \in Seq(RingResult)
  BY DEF AllResults
<1>5. AllResults' = AllResults
  <2>1. AllResults' = AllResults \o << >>
    BY <1>4 DEF AllResults
  <2> QED  BY <1>2, <2>1, ConcatEmptySeq
<1>6. completed' \in Nat /\ completed' <= Len(AllResults)
  BY <1>1, <1>2, <1>3
<1> QED  BY <1>2, <1>4, <1>5, <1>6 DEF RingInv

LEMMA RingKeeps == RingInv /\ [RingNext]_ring_vars => RingInv'
<1> SUFFICES ASSUME RingInv, [RingNext]_ring_vars PROVE RingInv'
  OBVIOUS
<1>1. CASE UNCHANGED ring_vars
  BY <1>1 DEF ring_vars, RingInv, AllResults
<1>2. CASE WaitForCompletion
  BY <1>2, HandOutKeeps DEF WaitForCompletion
<1>3. CASE PollCompletions
  BY <1>3, HandOutKeeps DEF PollCompletions
<1> QED  BY <1>1, <1>2, <1>3, SubmitKeeps, BatchKeeps DEF RingNext

LEMMA RingSafe ==
    /\ RingInit => RingInv
    /\ RingInv => ResultsAccounted
<1>1. ASSUME RingInit PROVE RingInv
  <2>1. /\ << >> \in Seq(RingOp) /\ << >> \in Seq(RingResult) /\ Len(<< >>) = 0 /\ 1..Len(<< >>) = {}
        /\ << >> \o << >> = << >>
    OBVIOUS
  <2>2. AllResults = << >>
    BY <1>1, <2>1 DEF RingInit, AllResults
  <2> QED  BY <1>1, <2>1, <2>2 DEF RingInit, RingInv
<1>2. ASSUME RingInv PROVE ResultsAccounted
  <2>1. AllResults \in Seq(RingResult)
    BY <1>2 DEF RingInv, AllResults
  <2>2. DOMAIN AllResults = 1..Len(AllResults)
    BY <2>1
  <2> QED  BY <1>2, <2>2 DEF RingInv, ResultsAccounted, AllResults
<1> QED  BY <1>1, <1>2

\* Nothing sent with Ok over TCP is lost or comes twice, and nothing that failed
\* comes at all; no alarm after a sign of life; reads go round evenly; the
\* simulated network keeps order and frames, and its partitions are cut both
\* ways; every I/O operation has one result, in order (tcp_transport.rs, lib.rs
\* and io_uring.rs of cendb-net).
THEOREM TransportIsSafe == TransportSpec => []TransportSafe
<1>1. TcpInv /\ [TcpNext]_tcp_vars => TcpInv'
  BY TcpStep
<1>2. TcpSpec => []TcpSafe
  <2>1. TcpInit => TcpInv
    BY TcpInitInv
  <2>2. TcpInv => TcpSafe
    BY TcpInvSafe
  <2> QED  BY <1>1, <2>1, <2>2, PTL DEF TcpSpec
<1>3. FailoverSpec => []NoFalseAlarm
  BY FailoverKeeps, FailoverSafe, PTL DEF FailoverSpec
<1>4. RouterSpec => []ReadsBalanced
  BY RouterBegins, RouterKeeps, RouterSafe, PTL DEF RouterSpec
<1>5. NetSpec => []NetworkSafe
  BY NetBegins, NetKeeps, NetSafe, PTL DEF NetSpec
<1>6. RingSpec => []ResultsAccounted
  BY RingKeeps, RingSafe, PTL DEF RingSpec
<1> QED  BY <1>2, <1>3, <1>4, <1>5, <1>6, PTL DEF TransportSpec, TransportSafe
=============================================================================
