-------------------------- MODULE BufferPoolProofs --------------------------
(***************************************************************************)
(* Proofs about BufferPool, for any number of frames, pages, accesses and  *)
(* marks and for a source that may fail any call: the page table, the      *)
(* frames and the source never disagree about a page, a miss finds a frame *)
(* as long as the source works, and a scan cannot push out the hot set.    *)
(*                                                                         *)
(* None of the three is inductive: what a miss does depends on the victim  *)
(* being a cached page, so the policy's value has to be tied to the frames.*)
(***************************************************************************)
EXTENDS BufferPool, SequenceTheorems, FiniteSetTheorems, WellFoundedInduction, TLAPS

-----------------------------------------------------------------------------
(* The inductive invariant. *)

\* A frame is pinned by the live guard and by nobody else.
PinnedByGuard == \A f \in Frame : pin_count[f] = IF f = guard THEN 1 ELSE 0

\* The policy knows nothing of a frame that holds no page, and no guard does.
EmptyFrames == \A f \in Frame :
    page_id[f] = None => /\ replacer.evictable[f] = 0
                         /\ replacer.history[f] = << >>
                         /\ f # guard

\* Until the source fails a call, a frame is free, or the policy can evict it
\* once its guard is gone.
Evictable(f) == /\ page_id[f] # None
                /\ replacer.history[f] # << >>
                /\ f = guard \/ replacer.evictable[f] > 0

Free(f) == \E i \in 1..Len(free_list) : free_list[i] = f

NoFrameLost == ~io_failed => \A f \in Frame : Free(f) \/ Evictable(f)

\* A clean frame holds what the source holds.
CleanFrames == \A f \in Frame :
    page_id[f] # None /\ ~dirty[f] => data[f] = source[page_id[f]]

IInv == /\ TypeOK
        /\ PageTableExact
        /\ PageContents
        /\ PinnedByGuard
        /\ EmptyFrames
        /\ NoFrameLost
        /\ CleanFrames

-----------------------------------------------------------------------------
(* The operations of the policy, component by component. *)

LEMMA Fields ==
    ASSUME NEW l \in LruKType
    PROVE  /\ l.clock \in Nat
           /\ l.history \in [Frame -> Seq(Nat)]
           /\ l.evictable \in [Frame -> Nat]
           /\ l = [clock |-> l.clock, history |-> l.history, evictable |-> l.evictable]
BY DEF LruKType

LEMMA RecordAccessFacts ==
    ASSUME NEW l \in LruKType, NEW f \in Frame
    PROVE  /\ RecordAccess(l, f) \in LruKType
           /\ RecordAccess(l, f).evictable = l.evictable
           /\ RecordAccess(l, f).history[f] # << >>
           /\ \A g \in Frame \ {f} : RecordAccess(l, f).history[g] = l.history[g]
<1> DEFINE h == <<l.clock + 1>> \o l.history[f]
           cut == IF Len(h) > K THEN SubSeq(h, 1, K) ELSE h
           m == [clock |-> l.clock + 1, history |-> [l.history EXCEPT ![f] = cut],
                 evictable |-> l.evictable]
<1>1. /\ l.clock \in Nat /\ l.history \in [Frame -> Seq(Nat)]
      /\ l.evictable \in [Frame -> Nat]
  BY DEF LruKType
<1>2. /\ <<l.clock + 1>> \in Seq(Nat)
      /\ Len(<<l.clock + 1>>) = 1
  BY <1>1
<1>3. h \in Seq(Nat) /\ Len(h) = 1 + Len(l.history[f])
  BY <1>1, <1>2, ConcatProperties
<1>4. Len(l.history[f]) \in Nat
  BY <1>1
<1>5. cut \in Seq(Nat) /\ cut # << >>
  <2> HIDE DEF h
  <2>1. CASE Len(h) > K
    <3>1. 1 \in 1..(Len(h) + 1) /\ K \in (1 - 1)..Len(h)
      BY <2>1, <1>3, <1>4, BufferPoolAssumption
    <3>2. SubSeq(h, 1, K) \in Seq(Nat) /\ Len(SubSeq(h, 1, K)) = K
      BY <3>1, <1>3, SubSeqProperties, BufferPoolAssumption
    <3> QED  BY <2>1, <3>2, BufferPoolAssumption
  <2>2. CASE ~(Len(h) > K)
    BY <2>2, <1>3, <1>4
  <2> QED  BY <2>1, <2>2
<1>6. RecordAccess(l, f) = m
  <2> DEFINE c == l.clock
             hs == l.history
             e == l.evictable
             r == [clock |-> c, history |-> hs, evictable |-> e]
  <2>1. l = r /\ r.history = hs /\ r.clock = c
    BY Fields
  <2>2. RecordAccess(l, f) = [r EXCEPT !.clock = c + 1, !.history = [hs EXCEPT ![f] = cut]]
    BY <2>1 DEF RecordAccess
  <2> HIDE DEF c, hs, e, cut
  <2> QED  BY <2>2 DEF c, hs, e
<1>7. m \in LruKType
  <2> HIDE DEF cut
  <2> QED  BY <1>1, <1>5 DEF LruKType
<1>8. m.evictable = l.evictable /\ m.history = [l.history EXCEPT ![f] = cut]
  OBVIOUS
<1> HIDE DEF m, cut
<1> QED  BY <1>1, <1>5, <1>6, <1>7, <1>8

LEMMA MarkEvictableFacts ==
    ASSUME NEW l \in LruKType, NEW f \in Frame
    PROVE  /\ MarkEvictable(l, f) \in LruKType
           /\ MarkEvictable(l, f).history = l.history
           /\ MarkEvictable(l, f).evictable[f] = l.evictable[f] + 1
           /\ \A g \in Frame \ {f} : MarkEvictable(l, f).evictable[g] = l.evictable[g]
<1> DEFINE m == [clock |-> l.clock, history |-> l.history,
                 evictable |-> [l.evictable EXCEPT ![f] = l.evictable[f] + 1]]
<1>1. /\ l.clock \in Nat /\ l.history \in [Frame -> Seq(Nat)]
      /\ l.evictable \in [Frame -> Nat]
  BY DEF LruKType
<1>2. MarkEvictable(l, f) = m
  <2> DEFINE c == l.clock
             hs == l.history
             e == l.evictable
             r == [clock |-> c, history |-> hs, evictable |-> e]
  <2>1. l = r /\ r.history = hs /\ r.evictable = e
    BY Fields
  <2>2. MarkEvictable(l, f) = [r EXCEPT !.evictable = [e EXCEPT ![f] = e[f] + 1]]
    BY <2>1 DEF MarkEvictable
  <2> HIDE DEF c, hs, e
  <2> QED  BY <2>2 DEF c, hs, e
<1> QED  BY <1>1, <1>2 DEF LruKType

LEMMA ForgetFacts ==
    ASSUME NEW l \in LruKType, NEW f \in Frame
    PROVE  /\ Forget(l, f) \in LruKType
           /\ Forget(l, f).history[f] = << >> /\ Forget(l, f).evictable[f] = 0
           /\ \A g \in Frame \ {f} : /\ Forget(l, f).history[g] = l.history[g]
                                     /\ Forget(l, f).evictable[g] = l.evictable[g]
<1> DEFINE m == [clock |-> l.clock, history |-> [l.history EXCEPT ![f] = << >>],
                 evictable |-> [l.evictable EXCEPT ![f] = 0]]
<1>1. /\ l.clock \in Nat /\ l.history \in [Frame -> Seq(Nat)]
      /\ l.evictable \in [Frame -> Nat]
  BY DEF LruKType
<1>2. Forget(l, f) = m
  <2> DEFINE c == l.clock
             hs == l.history
             e == l.evictable
             r == [clock |-> c, history |-> hs, evictable |-> e]
  <2>1. l = r /\ r.history = hs /\ r.evictable = e
    BY Fields
  <2>2. Forget(l, f) = [[r EXCEPT !.history = [hs EXCEPT ![f] = << >>]] EXCEPT !.evictable = [e EXCEPT ![f] = 0]]
    BY <2>1 DEF Forget
  <2> HIDE DEF c, hs, e
  <2> QED  BY <2>2 DEF c, hs, e
<1>3. << >> \in Seq(Nat)
  OBVIOUS
<1> QED  BY <1>1, <1>2, <1>3 DEF LruKType

LEMMA PickedFacts ==
    ASSUME NEW l \in LruKType, NEW f \in Frame, l.evictable[f] > 0
    PROVE  /\ Picked(l, f) \in LruKType
           /\ \A g \in Frame \ {f} : /\ Picked(l, f).history[g] = l.history[g]
                                     /\ Picked(l, f).evictable[g] = l.evictable[g]
<1> DEFINE m == [clock |-> l.clock, history |-> [l.history EXCEPT ![f] = << >>],
                 evictable |-> [l.evictable EXCEPT ![f] = l.evictable[f] - 1]]
<1>1. /\ l.clock \in Nat /\ l.history \in [Frame -> Seq(Nat)]
      /\ l.evictable \in [Frame -> Nat]
  BY DEF LruKType
<1>2. Picked(l, f) = m
  <2> DEFINE c == l.clock
             hs == l.history
             e == l.evictable
             r == [clock |-> c, history |-> hs, evictable |-> e]
  <2>1. l = r /\ r.history = hs /\ r.evictable = e
    BY Fields
  <2>2. Picked(l, f) = [[r EXCEPT !.evictable = [e EXCEPT ![f] = e[f] - 1]] EXCEPT !.history = [hs EXCEPT ![f] = << >>]]
    BY <2>1 DEF Picked
  <2> HIDE DEF c, hs, e
  <2> QED  BY <2>2 DEF c, hs, e
<1>3. << >> \in Seq(Nat) /\ l.evictable[f] - 1 \in Nat
  BY <1>1
<1> QED  BY <1>1, <1>2, <1>3 DEF LruKType

\* A set of numbers has a least one.
LEMMA LeastNat ==
    ASSUME NEW T \in SUBSET Nat, T # {}
    PROVE  \E x \in T : \A y \in T : x <= y
<1> DEFINE R == {ss \in Nat \X Nat : ss[1] < ss[2]}
<1>1. IsWellFoundedOn(R, Nat)
  BY NatLessThanWellFounded DEF OpToRel
<1>2. \A x, y \in Nat : x < y => <<x, y>> \in R
  OBVIOUS
<1> HIDE DEF R
<1>3. PICK x \in T : \A y \in T : ~ (<<y, x>> \in R)
  BY <1>1, WFMin, Zenon
<1>4. \A y \in T : x \in Nat /\ y \in Nat /\ ~ (y < x)
  BY <1>2, <1>3
<1>5. \A y \in T : x <= y
  BY <1>4
<1> QED BY <1>5

\* A candidate has an access to be ordered by, so pick_victim finds the oldest
\* one, and it takes a hot frame only when every candidate is hot.
LEMMA OldestExists ==
    ASSUME NEW l \in LruKType, NEW S \in SUBSET Candidates(l), S # {}
    PROVE  \E f \in S : \A g \in S : Oldest(l, f) <= Oldest(l, g)
<1>1. \A f \in S : f \in Frame /\ Oldest(l, f) \in Nat
  <2> TAKE f \in S
  <2>1. f \in Frame /\ l.history[f] \in Seq(Nat) /\ l.history[f] # << >>
    BY DEF Candidates, LruKType
  <2>2. Len(l.history[f]) \in 1..Len(l.history[f])
    BY <2>1
  <2> QED  BY <2>1, <2>2, ElementOfSeq DEF Oldest
<1> DEFINE Ages == {Oldest(l, f) : f \in S}
<1>2. Ages \in SUBSET Nat /\ Ages # {}
  BY <1>1
<1>3. PICK n \in Ages : \A k \in Ages : n <= k
  <2> HIDE DEF Ages
  <2> QED  BY <1>2, LeastNat
<1>4. PICK f \in S : Oldest(l, f) = n
  OBVIOUS
<1> QED  BY <1>3, <1>4

LEMMA VictimFacts ==
    ASSUME NEW l \in LruKType, Candidates(l) # {}
    PROVE  /\ Victim(l) \in Candidates(l)
           /\ Hot(l, Victim(l)) => \A f \in Candidates(l) : Hot(l, f)
<1> DEFINE cold == {f \in Candidates(l) : ~Hot(l, f)}
           pool == IF cold # {} THEN cold ELSE Candidates(l)
<1>1. pool \in SUBSET Candidates(l) /\ pool # {}
  OBVIOUS
<1>2. \E f \in pool : \A g \in pool : Oldest(l, f) <= Oldest(l, g)
  <2> HIDE DEF pool
  <2> QED  BY <1>1, OldestExists
<1>3. Victim(l) \in pool
  BY <1>2 DEF Victim
<1> QED  BY <1>3

-----------------------------------------------------------------------------
(* The initial state. *)

\* SetToSeq lists the finite set of frames, each of them once.
LEMMA FreeListOfFrames ==
    /\ SetToSeq(Frame) \in Seq(Frame)
    /\ \A i, j \in 1..Len(SetToSeq(Frame)) : SetToSeq(Frame)[i] = SetToSeq(Frame)[j] => i = j
    /\ \A f \in Frame : \E i \in 1..Len(SetToSeq(Frame)) : SetToSeq(Frame)[i] = f
<1> DEFINE n == Cardinality(Frame)
           s == SetToSeq(Frame)
<1>1. PICK b : b \in Bijection(1..n, Frame) /\ n \in Nat
  BY FS_CardinalityType, BufferPoolAssumption DEF ExistsBijection
<1>2. b \in [1..n -> Frame] /\ IsInjective(b)
  BY <1>1 DEF Bijection, Injection
<1>3. s \in [1..n -> Frame] /\ IsInjective(s)
  BY <1>2 DEF SetToSeq
<1> HIDE DEF n, s
<1>4. s \in Seq(Frame) /\ Len(s) = n
  BY <1>1, <1>3
<1>5. \A i, j \in 1..Len(s) : s[i] = s[j] => i = j
  BY <1>3, <1>4 DEF IsInjective
<1>6. \A f \in Frame : \E i \in 1..n : s[i] = f
  <2>1. IsFiniteSet(1..n) /\ Cardinality(1..n) = Cardinality(Frame)
    BY <1>1, FS_Interval DEF n
  <2>2. s \in Injection(1..n, Frame)
    BY <1>3 DEF Injection
  <2>3. s \in Surjection(1..n, Frame)
    BY <2>1, <2>2, BufferPoolAssumption, FS_Injection
  <2> QED  BY <2>3 DEF Surjection
<1> QED  BY <1>4, <1>5, <1>6 DEF s

LEMMA InitInv == Init => IInv
<1> SUFFICES ASSUME Init PROVE IInv
  OBVIOUS
<1>1. TypeOK
  <2>1. NewLruK \in LruKType
    BY DEF NewLruK, LruKType
  <2>2. /\ replacer \in LruKType
        /\ free_list \in Seq(Frame)
    BY <2>1, FreeListOfFrames DEF Init
  <2>3. /\ source \in [Page -> Contents]
        /\ latest \in [Page -> Contents]
    BY DEF Init, Contents
  <2>4. page_lsn \in [Frame -> 0..MaxLsn]
    BY BufferPoolAssumption DEF Init
  <2>5. /\ page_id \in [Frame -> Page \cup {None}]
        /\ data \in [Frame -> Contents]
        /\ dirty \in [Frame -> BOOLEAN]
        /\ pin_count \in [Frame -> {0, 1}]
        /\ page_table \in [Page -> Frame \cup {None}]
        /\ guard \in Frame \cup {None}
        /\ io_failed \in BOOLEAN
    BY DEF Init, Contents
  <2> QED  BY <2>2, <2>3, <2>4, <2>5 DEF TypeOK
<1>2. PageTableExact
  BY FreeListOfFrames, BufferPoolAssumption DEF Init, PageTableExact
<1>3. PageContents
  BY DEF Init, PageContents, Cached
<1>4. PinnedByGuard
  BY BufferPoolAssumption DEF Init, PinnedByGuard
<1>5. EmptyFrames
  BY BufferPoolAssumption DEF Init, EmptyFrames, NewLruK
<1>6. NoFrameLost
  BY FreeListOfFrames DEF Init, NoFrameLost, Free
<1>7. CleanFrames
  BY DEF Init, CleanFrames
<1> QED  BY <1>1, <1>2, <1>3, <1>4, <1>5, <1>6, <1>7 DEF IInv

-----------------------------------------------------------------------------
(* Taking a frame. *)

\* evict_or_take_free returns a frame of the pool: a cached page's when the
\* free list is empty, a free one otherwise.
LEMMA TakenFacts ==
    ASSUME IInv, CanTake
    PROVE  /\ Taken \in Frame
           /\ Evicting => /\ Taken \in Candidates(replacer)
                          /\ page_id[Taken] \in Page
                          /\ page_table[page_id[Taken]] = Taken
                          /\ (Hot(replacer, Taken)
                                => \A f \in Candidates(replacer) : Hot(replacer, f))
           /\ ~Evicting => /\ Len(free_list) \in 1..Len(free_list)
                           /\ Taken = free_list[Len(free_list)]
                           /\ page_id[Taken] = None
<1>1. CASE Evicting
  <2>1. Taken = Victim(replacer) /\ Candidates(replacer) # {} /\ replacer \in LruKType
    BY <1>1 DEF Taken, CanTake, IInv, TypeOK
  <2>2. /\ Taken \in Candidates(replacer)
        /\ Hot(replacer, Taken) => \A f \in Candidates(replacer) : Hot(replacer, f)
    BY <2>1, VictimFacts
  <2>3. Taken \in Frame /\ replacer.history[Taken] # << >>
    BY <2>2 DEF Candidates
  <2>4. page_id[Taken] # None
    BY <2>3 DEF IInv, EmptyFrames
  <2>5. page_id[Taken] \in Page
    BY <2>3, <2>4 DEF IInv, TypeOK
  <2>6. page_table[page_id[Taken]] = Taken
    BY <2>3, <2>5 DEF IInv, PageTableExact
  <2> QED  BY <1>1, <2>2, <2>3, <2>5, <2>6
<1>2. CASE ~Evicting
  <2>1. free_list \in Seq(Frame) /\ free_list # << >>
    BY <1>2 DEF Evicting, IInv, TypeOK
  <2>2. Len(free_list) \in 1..Len(free_list)
    BY <2>1
  <2>3. Taken = free_list[Len(free_list)]
    BY <1>2 DEF Taken, Last
  <2>4. Taken \in Frame
    BY <2>1, <2>2, <2>3, ElementOfSeq
  <2>5. page_id[Taken] = None
    BY <2>2, <2>3 DEF IInv, PageTableExact
  <2> QED  BY <1>2, <2>2, <2>3, <2>4, <2>5
<1> QED  BY <1>1, <1>2

\* The taken frame leaves the free list, and no other frame does.
LEMMA FreeAfter ==
    ASSUME IInv, CanTake, TakeFrame
    PROVE  /\ free_list' \in Seq(Frame)
           /\ \A i \in 1..Len(free_list') : /\ i \in 1..Len(free_list)
                                            /\ free_list'[i] = free_list[i]
                                            /\ free_list'[i] # Taken
           /\ \A g \in Frame \ {Taken} : Free(g) => Free(g)'
<1>1. CASE Evicting
  <2>1. free_list' = << >> /\ free_list = << >>
    BY <1>1 DEF TakeFrame, Evicting
  <2> QED  BY <2>1 DEF Free
<1>2. CASE ~Evicting
  <2> DEFINE n == Len(free_list)
  <2>1. /\ free_list \in Seq(Frame)
        /\ n \in 1..n
        /\ Taken = free_list[n]
    BY <1>2, TakenFacts DEF IInv, TypeOK
  <2>2. free_list' = SubSeq(free_list, 1, n - 1)
    BY <1>2 DEF TakeFrame, Front
  <2>3. n \in Nat /\ 1 \in Int /\ n - 1 \in Int /\ n > 0
    BY <2>1
  <2>4. \A i \in 1..(n - 1) : free_list[i] \in Frame
    BY <2>1, <2>3
  <2>5. /\ free_list' \in Seq(Frame)
        /\ Len(free_list') = IF 1 <= n - 1 THEN (n - 1) - 1 + 1 ELSE 0
        /\ \A i \in 1..((n - 1) - 1 + 1) : free_list'[i] = free_list[1 + i - 1]
    <3> HIDE DEF n
    <3> QED  BY <2>2, <2>3, <2>4, SubSeqProperties
  <2>6. /\ Len(free_list') = n - 1
        /\ \A i \in 1..(n - 1) : free_list'[i] = free_list[i]
    <3> HIDE DEF n
    <3>1. \A i \in 1..(n - 1) : i \in 1..((n - 1) - 1 + 1) /\ 1 + i - 1 = i
      BY <2>3
    <3> QED  BY <2>3, <2>5, <3>1
  <2>7. \A i, j \in 1..n : free_list[i] = free_list[j] => i = j
    BY DEF IInv, PageTableExact
  <2>8. \A i \in 1..(n - 1) : i \in 1..n /\ i # n
    BY <2>3
  <2>9. \A i \in 1..n : i \in 1..(n - 1) \/ i = n
    BY <2>3
  <2>10. \A g \in Frame \ {Taken} : Free(g) => Free(g)'
    <3> SUFFICES ASSUME NEW g \in Frame \ {Taken}, NEW i \in 1..n, free_list[i] = g
                 PROVE  \E j \in 1..(n - 1) : free_list'[j] = g
      BY <2>6 DEF Free
    <3>1. i \in 1..(n - 1)
      BY <2>1, <2>9
    <3> QED  BY <2>6, <3>1
  <2> QED  BY <2>1, <2>5, <2>6, <2>7, <2>8, <2>10
<1> QED  BY <1>1, <1>2

\* A dirty victim is written back, and a clean one need not be: either way the
\* source then holds what the frame held.
LEMMA SourceAfter ==
    ASSUME IInv, CanTake, TakeFrame
    PROVE  /\ source' \in [Page -> Contents]
           /\ \A q \in Page : source'[q] = IF page_id[Taken] = q THEN data[Taken] ELSE source[q]
<1>1. source' = SourceAfterTake
  BY DEF TakeFrame
<1>2. /\ source \in [Page -> Contents]
      /\ data \in [Frame -> Contents]
      /\ Taken \in Frame
      /\ None \notin Page
  BY TakenFacts, BufferPoolAssumption DEF IInv, TypeOK
<1>3. CASE Evicting /\ dirty[Taken]
  BY <1>1, <1>2, <1>3 DEF SourceAfterTake
<1>4. CASE Evicting /\ ~dirty[Taken]
  <2>1. data[Taken] = source[page_id[Taken]]
    BY <1>2, <1>4, TakenFacts DEF IInv, CleanFrames
  <2> QED  BY <1>1, <1>2, <1>4, <2>1 DEF SourceAfterTake
<1>5. CASE ~Evicting
  BY <1>1, <1>2, <1>5, TakenFacts DEF SourceAfterTake
<1> QED  BY <1>3, <1>4, <1>5

LEMMA TableAfter ==
    ASSUME IInv, CanTake
    PROVE  /\ TableAfterTake \in [Page -> Frame \cup {None}]
           /\ \A q \in Page : TableAfterTake[q] = IF page_table[q] = Taken THEN None
                                                                         ELSE page_table[q]
<1>1. /\ page_table \in [Page -> Frame \cup {None}]
      /\ Taken \in Frame
      /\ \A q \in Page : page_table[q] = Taken <=> page_id[Taken] = q
      /\ None \notin Page
  BY TakenFacts, BufferPoolAssumption DEF IInv, TypeOK, PageTableExact
<1>2. CASE Evicting
  BY <1>1, <1>2, TakenFacts DEF TableAfterTake
<1>3. CASE ~Evicting
  BY <1>1, <1>3, TakenFacts DEF TableAfterTake
<1> QED  BY <1>2, <1>3

LEMMA ReplacerAfter ==
    ASSUME IInv, CanTake
    PROVE  /\ ReplacerAfterTake \in LruKType
           /\ ReplacerAfterTake.evictable[Taken] = 0
           /\ ReplacerAfterTake.history[Taken] = << >>
           /\ \A g \in Frame \ {Taken} :
                 /\ ReplacerAfterTake.evictable[g] = replacer.evictable[g]
                 /\ ReplacerAfterTake.history[g] = replacer.history[g]
<1>1. Taken \in Frame /\ replacer \in LruKType
  BY TakenFacts DEF IInv, TypeOK
<1>2. CASE Evicting
  <2>1. replacer.evictable[Taken] > 0
    BY <1>2, TakenFacts DEF Candidates
  <2>2. /\ Picked(replacer, Taken) \in LruKType
        /\ \A g \in Frame \ {Taken} :
              /\ Picked(replacer, Taken).history[g] = replacer.history[g]
              /\ Picked(replacer, Taken).evictable[g] = replacer.evictable[g]
    BY <1>1, <2>1, PickedFacts
  <2>3. ReplacerAfterTake = Forget(Picked(replacer, Taken), Taken)
    BY <1>2 DEF ReplacerAfterTake
  <2> DEFINE l == Picked(replacer, Taken)
  <2> HIDE DEF l
  <2>4. /\ Forget(l, Taken) \in LruKType
        /\ Forget(l, Taken).history[Taken] = << >> /\ Forget(l, Taken).evictable[Taken] = 0
        /\ \A g \in Frame \ {Taken} : /\ Forget(l, Taken).history[g] = l.history[g]
                                      /\ Forget(l, Taken).evictable[g] = l.evictable[g]
    BY <1>1, <2>2, ForgetFacts DEF l
  <2> QED  BY <2>2, <2>3, <2>4 DEF l
<1>3. CASE ~Evicting
  BY <1>1, <1>3, TakenFacts DEF ReplacerAfterTake, IInv, EmptyFrames
<1> QED  BY <1>2, <1>3

\* What pin_page and new_page tell the policy of the frame they return.
LEMMA AccessedFacts ==
    ASSUME NEW l \in LruKType, NEW f \in Frame, NEW hint \in Hint, NEW loaded \in BOOLEAN
    PROVE  /\ Accessed(l, f, hint, loaded) \in LruKType
           /\ Accessed(l, f, hint, loaded).evictable[f] >= l.evictable[f]
           /\ l.history[f] # << >> => Accessed(l, f, hint, loaded).history[f] # << >>
           /\ loaded => Accessed(l, f, hint, loaded).history[f] # << >>
           /\ \A g \in Frame \ {f} :
                 /\ Accessed(l, f, hint, loaded).evictable[g] = l.evictable[g]
                 /\ Accessed(l, f, hint, loaded).history[g] = l.history[g]
<1> DEFINE seen == IF hint = "Point" \/ loaded THEN RecordAccess(l, f) ELSE l
<1>1. /\ seen \in LruKType
      /\ seen.evictable = l.evictable
      /\ l.history[f] # << >> => seen.history[f] # << >>
      /\ loaded => seen.history[f] # << >>
      /\ \A g \in Frame \ {f} : seen.history[g] = l.history[g]
  BY RecordAccessFacts
<1>2. l.evictable[f] \in Nat
  BY Fields
<1>3. Accessed(l, f, hint, loaded)
        = IF hint = "Scan" /\ loaded THEN MarkEvictable(seen, f) ELSE seen
  BY DEF Accessed
<1> HIDE DEF seen
<1>4. /\ MarkEvictable(seen, f) \in LruKType
      /\ MarkEvictable(seen, f).history = seen.history
      /\ MarkEvictable(seen, f).evictable[f] = seen.evictable[f] + 1
      /\ \A g \in Frame \ {f} : MarkEvictable(seen, f).evictable[g] = seen.evictable[g]
  BY <1>1, MarkEvictableFacts
<1>5. CASE hint = "Scan" /\ loaded
  BY <1>1, <1>2, <1>3, <1>4, <1>5
<1>6. CASE ~(hint = "Scan" /\ loaded)
  BY <1>1, <1>2, <1>3, <1>6
<1> QED  BY <1>5, <1>6

-----------------------------------------------------------------------------
(* The steps. *)

\* A guard is alive on a cached page only, so a call that needs none finds
\* every frame unpinned.
LEMMA Unpinned ==
    ASSUME IInv, guard = None
    PROVE  \A f \in Frame : pin_count[f] = 0
BY BufferPoolAssumption DEF IInv, PinnedByGuard

\* Page p with contents d goes into the taken frame, clean only if the source
\* holds them: what a miss and new_page have in common.
Loads(p, d, b) ==
    /\ guard = None
    /\ ~Cached(p)
    /\ CanTake
    /\ TakeFrame
    /\ page_id' = [page_id EXCEPT ![Taken] = p]
    /\ data' = [data EXCEPT ![Taken] = d]
    /\ dirty' = [dirty EXCEPT ![Taken] = b]
    /\ pin_count' = [pin_count EXCEPT ![Taken] = @ + 1]
    /\ page_table' = [TableAfterTake EXCEPT ![p] = Taken]
    /\ guard' = Taken
    /\ latest' = [latest EXCEPT ![p] = d]
    /\ UNCHANGED <<page_lsn, io_failed>>
    /\ replacer' \in LruKType
    /\ replacer'.history[Taken] # << >>
    /\ \A g \in Frame \ {Taken} : /\ replacer'.evictable[g] = replacer.evictable[g]
                                  /\ replacer'.history[g] = replacer.history[g]

LEMMA LoadsInv ==
    ASSUME IInv, NEW p \in Page, NEW d \in Contents, NEW b \in BOOLEAN,
           Loads(p, d, b), b \/ d = source'[p]
    PROVE  IInv'
<1>1. /\ Taken \in Frame /\ CanTake /\ TakeFrame
      /\ guard = None /\ page_table[p] = None
      /\ None \notin Page /\ None \notin Frame
  BY TakenFacts, BufferPoolAssumption DEF Loads, Cached
<1> DEFINE t == Taken
<1> HIDE DEF t
<1>2. /\ page_id \in [Frame -> Page \cup {None}]
      /\ data \in [Frame -> Contents]
      /\ dirty \in [Frame -> BOOLEAN]
      /\ page_lsn \in [Frame -> 0..MaxLsn]
      /\ pin_count \in [Frame -> {0, 1}]
      /\ page_table \in [Page -> Frame \cup {None}]
      /\ latest \in [Page -> Contents]
      /\ io_failed \in BOOLEAN
  BY DEF IInv, TypeOK
<1>3. /\ page_id' = [page_id EXCEPT ![t] = p]
      /\ data' = [data EXCEPT ![t] = d]
      /\ dirty' = [dirty EXCEPT ![t] = b]
      /\ pin_count' = [pin_count EXCEPT ![t] = @ + 1]
      /\ guard' = t
      /\ latest' = [latest EXCEPT ![p] = d]
      /\ page_lsn' = page_lsn /\ io_failed' = io_failed
      /\ t \in Frame
  BY <1>1 DEF Loads, t
<1>4. /\ page_table' \in [Page -> Frame \cup {None}]
      /\ \A q \in Page : page_table'[q] = IF q = p THEN t
                                          ELSE IF page_table[q] = t THEN None
                                          ELSE page_table[q]
  <2>1. page_table' = [TableAfterTake EXCEPT ![p] = t]
    BY DEF Loads, t
  <2> QED  BY <1>1, <2>1, TableAfter DEF t
<1>5. /\ source' \in [Page -> Contents]
      /\ \A q \in Page : source'[q] = IF page_id[t] = q THEN data[t] ELSE source[q]
  BY <1>1, SourceAfter DEF t
<1>6. /\ free_list' \in Seq(Frame)
      /\ \A i \in 1..Len(free_list') : /\ i \in 1..Len(free_list)
                                       /\ free_list'[i] = free_list[i]
                                       /\ free_list'[i] # t
      /\ \A g \in Frame \ {t} : Free(g) => Free(g)'
  BY <1>1, FreeAfter DEF t
<1>7. \A q \in Page, f \in Frame : page_table[q] = f <=> page_id[f] = q
  BY DEF IInv, PageTableExact
<1>8. /\ replacer' \in LruKType
      /\ replacer'.history[t] # << >>
      /\ \A g \in Frame \ {t} : /\ replacer'.evictable[g] = replacer.evictable[g]
                                /\ replacer'.history[g] = replacer.history[g]
  BY DEF Loads, t
<1>9. pin_count[t] = 0
  BY <1>1, <1>3, Unpinned
<1>10. TypeOK'
  <2>1. /\ page_id' \in [Frame -> Page \cup {None}]
        /\ data' \in [Frame -> Contents]
        /\ page_lsn' \in [Frame -> 0..MaxLsn]
        /\ latest' \in [Page -> Contents]
        /\ guard' \in Frame \cup {None}
    BY <1>2, <1>3
  <2>2. dirty' \in [Frame -> BOOLEAN] /\ io_failed' \in BOOLEAN
    BY <1>2, <1>3, Zenon
  <2>3. pin_count' \in [Frame -> {0, 1}]
    BY <1>2, <1>3, <1>9
  <2> QED  BY <2>1, <2>2, <2>3, <1>4, <1>5, <1>6, <1>8 DEF TypeOK
<1>11. PageTableExact'
  <2>1. \A q \in Page, f \in Frame : page_table'[q] = f <=> page_id'[f] = q
    <3> SUFFICES ASSUME NEW q \in Page, NEW f \in Frame
                 PROVE  page_table'[q] = f <=> page_id'[f] = q
      OBVIOUS
    <3>1. page_id'[f] = IF f = t THEN p ELSE page_id[f]
      BY <1>2, <1>3
    <3>2. page_table[q] = f <=> page_id[f] = q
      BY <1>7
    <3> QED  BY <1>1, <1>4, <3>1, <3>2, <1>3
  <2>2. \A i \in 1..Len(free_list') : page_id'[free_list'[i]] = None
    <3> TAKE i \in 1..Len(free_list')
    <3>1. i \in 1..Len(free_list) /\ free_list'[i] = free_list[i] /\ free_list'[i] # t
      BY <1>6
    <3>2. free_list'[i] \in Frame
      BY <1>6
    <3>3. page_id[free_list[i]] = None
      BY <3>1 DEF IInv, PageTableExact
    <3> QED  BY <1>2, <1>3, <3>1, <3>2, <3>3
  <2>3. \A i, j \in 1..Len(free_list') : free_list'[i] = free_list'[j] => i = j
    <3> TAKE i, j \in 1..Len(free_list')
    <3>1. /\ i \in 1..Len(free_list) /\ free_list'[i] = free_list[i]
          /\ j \in 1..Len(free_list) /\ free_list'[j] = free_list[j]
      BY <1>6
    <3>2. \A m, n \in 1..Len(free_list) : free_list[m] = free_list[n] => m = n
      BY DEF IInv, PageTableExact
    <3> QED  BY <3>1, <3>2
  <2> QED  BY <2>1, <2>2, <2>3 DEF PageTableExact
<1>12. PageContents'
  <2> SUFFICES ASSUME NEW q \in Page
               PROVE  latest'[q] = IF page_table'[q] # None THEN data'[page_table'[q]]
                                                           ELSE source'[q]
    BY DEF PageContents, Cached
  <2>1. latest[q] = IF page_table[q] # None THEN data[page_table[q]] ELSE source[q]
    BY DEF IInv, PageContents, Cached
  <2>2. CASE q = p
    BY <1>1, <1>2, <1>3, <1>4, <2>2
  <2>3. CASE q # p /\ page_table[q] = t
    <3>1. page_id[t] = q
      BY <1>3, <1>7, <2>3
    <3> QED  BY <1>1, <1>2, <1>3, <1>4, <1>5, <2>1, <2>3, <3>1
  <2>4. CASE q # p /\ page_table[q] # t
    <3>1. page_id[t] # q
      BY <1>3, <1>7, <2>4
    <3> QED  BY <1>1, <1>2, <1>3, <1>4, <1>5, <2>1, <2>4, <3>1
  <2> QED  BY <2>2, <2>3, <2>4
<1>13. PinnedByGuard'
  <2> SUFFICES ASSUME NEW f \in Frame
               PROVE  pin_count'[f] = IF f = guard' THEN 1 ELSE 0
    BY DEF PinnedByGuard
  <2>1. pin_count[f] = 0
    BY <1>1, Unpinned
  <2> QED  BY <1>2, <1>3, <2>1
<1>14. EmptyFrames'
  <2> SUFFICES ASSUME NEW f \in Frame, page_id'[f] = None
               PROVE  /\ replacer'.evictable[f] = 0
                      /\ replacer'.history[f] = << >>
                      /\ f # guard'
    BY DEF EmptyFrames
  <2>1. f # t /\ page_id[f] = None
    BY <1>1, <1>2, <1>3
  <2>2. replacer.evictable[f] = 0 /\ replacer.history[f] = << >>
    BY <2>1 DEF IInv, EmptyFrames
  <2> QED  BY <1>3, <1>8, <2>1, <2>2
<1>15. NoFrameLost'
  <2> SUFFICES ASSUME ~io_failed, NEW f \in Frame
               PROVE  Free(f)' \/ Evictable(f)'
    BY <1>3 DEF NoFrameLost
  <2>1. CASE f = t
    <3>1. page_id'[f] = p
      BY <1>2, <1>3, <2>1
    <3> QED  BY <1>1, <1>3, <1>8, <2>1, <3>1 DEF Evictable
  <2>2. CASE f # t
    <3>1. Free(f) \/ Evictable(f)
      BY DEF IInv, NoFrameLost
    <3>2. page_id'[f] = page_id[f] /\ f # guard
      BY <1>1, <1>2, <1>3, <2>2
    <3> QED  BY <1>6, <1>8, <2>2, <3>1, <3>2 DEF Evictable
  <2> QED  BY <2>1, <2>2
<1>16. CleanFrames'
  <2> SUFFICES ASSUME NEW f \in Frame, page_id'[f] # None, ~dirty'[f]
               PROVE  data'[f] = source'[page_id'[f]]
    BY DEF CleanFrames
  <2>1. CASE f = t
    BY <1>2, <1>3, <2>1
  <2>2. CASE f # t
    <3>1. page_id'[f] = page_id[f] /\ data'[f] = data[f] /\ dirty'[f] = dirty[f]
      BY <1>2, <1>3, <2>2
    <3>2. data[f] = source[page_id[f]] /\ page_id[f] \in Page
      BY <1>2, <3>1 DEF IInv, CleanFrames
    <3>3. page_id[t] # page_id[f]
      BY <1>3, <1>7, <2>2, <3>2
    <3> QED  BY <1>5, <3>1, <3>2, <3>3
  <2> QED  BY <2>1, <2>2
<1> QED  BY <1>10, <1>11, <1>12, <1>13, <1>14, <1>15, <1>16 DEF IInv

LEMMA PinMissInv ==
    ASSUME IInv, NEW p \in Page, NEW hint \in Hint, PinMiss(p, hint)
    PROVE  IInv'
<1>1. /\ guard = None /\ ~Cached(p) /\ CanTake /\ TakeFrame
      /\ replacer' = Accessed(ReplacerAfterTake, Taken, hint, TRUE)
      /\ UNCHANGED <<page_lsn, latest, io_failed>>
  BY DEF PinMiss
<1>2. Taken \in Frame
  BY <1>1, TakenFacts
<1>3. /\ ReplacerAfterTake \in LruKType
      /\ \A g \in Frame \ {Taken} :
            /\ ReplacerAfterTake.evictable[g] = replacer.evictable[g]
            /\ ReplacerAfterTake.history[g] = replacer.history[g]
  BY <1>1, ReplacerAfter
<1>4. /\ replacer' \in LruKType
      /\ replacer'.history[Taken] # << >>
      /\ \A g \in Frame \ {Taken} : /\ replacer'.evictable[g] = replacer.evictable[g]
                                    /\ replacer'.history[g] = replacer.history[g]
  <2> DEFINE l == ReplacerAfterTake
  <2> HIDE DEF l
  <2>1. l \in LruKType /\ replacer' = Accessed(l, Taken, hint, TRUE)
    BY <1>1, <1>3 DEF l
  <2>2. /\ Accessed(l, Taken, hint, TRUE) \in LruKType
        /\ Accessed(l, Taken, hint, TRUE).history[Taken] # << >>
        /\ \A g \in Frame \ {Taken} :
              /\ Accessed(l, Taken, hint, TRUE).evictable[g] = l.evictable[g]
              /\ Accessed(l, Taken, hint, TRUE).history[g] = l.history[g]
    BY <1>2, <2>1, AccessedFacts
  <2> QED  BY <1>3, <2>1, <2>2 DEF l
<1>5. /\ source' \in [Page -> Contents]
      /\ source'[p] = IF page_id[Taken] = p THEN data[Taken] ELSE source[p]
  BY <1>1, SourceAfter
<1>6. page_id[Taken] # p
  BY <1>1, <1>2, BufferPoolAssumption DEF IInv, PageTableExact, Cached
<1>7. latest \in [Page -> Contents] /\ latest[p] = source[p]
  BY <1>1 DEF IInv, TypeOK, PageContents
<1>8. latest' = [latest EXCEPT ![p] = source'[p]]
  BY <1>1, <1>5, <1>6, <1>7
<1>9. Loads(p, source'[p], FALSE)
  BY <1>1, <1>4, <1>8 DEF PinMiss, Loads
<1> QED  BY <1>5, <1>9, LoadsInv

LEMMA NewPageInv ==
    ASSUME IInv, NEW p \in Page, NewPage(p)
    PROVE  IInv'
<1>1. /\ guard = None /\ ~Cached(p) /\ CanTake /\ TakeFrame
      /\ replacer' = RecordAccess(ReplacerAfterTake, Taken)
  BY DEF NewPage
<1>2. Taken \in Frame
  BY <1>1, TakenFacts
<1>3. /\ ReplacerAfterTake \in LruKType
      /\ \A g \in Frame \ {Taken} :
            /\ ReplacerAfterTake.evictable[g] = replacer.evictable[g]
            /\ ReplacerAfterTake.history[g] = replacer.history[g]
  BY <1>1, ReplacerAfter
<1>4. /\ replacer' \in LruKType
      /\ replacer'.history[Taken] # << >>
      /\ \A g \in Frame \ {Taken} : /\ replacer'.evictable[g] = replacer.evictable[g]
                                    /\ replacer'.history[g] = replacer.history[g]
  BY <1>1, <1>2, <1>3, RecordAccessFacts
<1>5. Loads(p, Zero, TRUE)
  BY <1>1, <1>4 DEF NewPage, Loads
<1> QED  BY <1>5, LoadsInv DEF Contents

\* Of the parts of the invariant, the ones about the page table and the
\* contents read none of the policy, the pins and the guard.
LEMMA FramesKept ==
    ASSUME IInv, UNCHANGED <<page_id, data, dirty, page_table, free_list, source, latest>>
    PROVE  PageTableExact' /\ PageContents' /\ CleanFrames'
BY DEF IInv, PageTableExact, PageContents, CleanFrames, Cached

\* A failed write-back leaves the victim cached.
LEMMA EvictWriteFailsInv == IInv /\ EvictWriteFails => IInv'
<1> SUFFICES ASSUME IInv, EvictWriteFails PROVE IInv'
  OBVIOUS
<1>1. /\ Evicting /\ CanTake /\ io_failed'
      /\ replacer' = Picked(replacer, Taken)
      /\ UNCHANGED <<frame_vars, page_table, free_list, source, guard, latest>>
  BY DEF EvictWriteFails
<1>2. /\ Taken \in Frame /\ page_id[Taken] \in Page
      /\ replacer.evictable[Taken] > 0
      /\ replacer \in LruKType
  BY <1>1, TakenFacts DEF Candidates, IInv, TypeOK
<1>3. /\ replacer' \in LruKType
      /\ \A g \in Frame \ {Taken} : /\ replacer'.history[g] = replacer.history[g]
                                    /\ replacer'.evictable[g] = replacer.evictable[g]
  BY <1>1, <1>2, PickedFacts
<1>4. TypeOK'
  BY <1>1, <1>3 DEF IInv, TypeOK, frame_vars
<1>5. PageTableExact' /\ PageContents' /\ CleanFrames'
  BY <1>1, FramesKept DEF frame_vars
<1>6. PinnedByGuard'
  BY <1>1 DEF IInv, PinnedByGuard, frame_vars
<1>7. EmptyFrames'
  <2> SUFFICES ASSUME NEW f \in Frame, page_id[f] = None
               PROVE  /\ replacer'.evictable[f] = 0
                      /\ replacer'.history[f] = << >>
                      /\ f # guard
    BY <1>1 DEF EmptyFrames, frame_vars
  <2>1. f # Taken
    BY <1>2, BufferPoolAssumption
  <2> QED  BY <1>3, <2>1 DEF IInv, EmptyFrames
<1>8. NoFrameLost'
  BY <1>1 DEF NoFrameLost
<1> QED  BY <1>4, <1>5, <1>6, <1>7, <1>8 DEF IInv

\* A failed read loses the taken frame, and nothing else.
LEMMA PinReadFailsInv ==
    ASSUME IInv, NEW p \in Page, PinReadFails(p)
    PROVE  IInv'
<1>1. /\ guard = None /\ CanTake /\ TakeFrame /\ io_failed'
      /\ replacer' = ReplacerAfterTake
      /\ page_table' = TableAfterTake
      /\ Taken \in Frame
      /\ None \notin Page /\ None \notin Frame
  BY TakenFacts, BufferPoolAssumption DEF PinReadFails
<1> DEFINE t == Taken
<1> HIDE DEF t
<1>2. /\ page_id' = [page_id EXCEPT ![t] = None]
      /\ dirty' = [dirty EXCEPT ![t] = FALSE]
      /\ UNCHANGED <<data, page_lsn, pin_count, guard, latest>>
      /\ t \in Frame
  BY <1>1 DEF PinReadFails, t
<1>3. /\ page_id \in [Frame -> Page \cup {None}]
      /\ dirty \in [Frame -> BOOLEAN]
      /\ data \in [Frame -> Contents]
      /\ page_table \in [Page -> Frame \cup {None}]
  BY DEF IInv, TypeOK
<1>4. /\ page_table' \in [Page -> Frame \cup {None}]
      /\ \A q \in Page : page_table'[q] = IF page_table[q] = t THEN None ELSE page_table[q]
  BY <1>1, TableAfter DEF t
<1>5. /\ source' \in [Page -> Contents]
      /\ \A q \in Page : source'[q] = IF page_id[t] = q THEN data[t] ELSE source[q]
  BY <1>1, SourceAfter DEF t
<1>6. /\ free_list' \in Seq(Frame)
      /\ \A i \in 1..Len(free_list') : /\ i \in 1..Len(free_list)
                                       /\ free_list'[i] = free_list[i]
                                       /\ free_list'[i] # t
  BY <1>1, FreeAfter DEF t
<1>7. \A q \in Page, f \in Frame : page_table[q] = f <=> page_id[f] = q
  BY DEF IInv, PageTableExact
<1>8. /\ replacer' \in LruKType
      /\ replacer'.evictable[t] = 0
      /\ replacer'.history[t] = << >>
      /\ \A g \in Frame \ {t} : /\ replacer'.evictable[g] = replacer.evictable[g]
                                /\ replacer'.history[g] = replacer.history[g]
  BY <1>1, ReplacerAfter DEF t
<1>9. TypeOK'
  <2>1. page_id' \in [Frame -> Page \cup {None}]
    BY <1>2, <1>3
  <2>2. dirty' \in [Frame -> BOOLEAN]
    BY <1>2, <1>3, Zenon
  <2>3. io_failed' \in BOOLEAN
    BY <1>1, Zenon DEF PinReadFails
  <2> QED  BY <2>1, <2>2, <2>3, <1>2, <1>4, <1>5, <1>6, <1>8 DEF IInv, TypeOK
<1>10. PageTableExact'
  <2>1. \A q \in Page, f \in Frame : page_table'[q] = f <=> page_id'[f] = q
    <3> SUFFICES ASSUME NEW q \in Page, NEW f \in Frame
                 PROVE  page_table'[q] = f <=> page_id'[f] = q
      OBVIOUS
    <3>1. page_id'[f] = IF f = t THEN None ELSE page_id[f]
      BY <1>2, <1>3
    <3>2. page_table[q] = f <=> page_id[f] = q
      BY <1>7
    <3> QED  BY <1>1, <1>4, <3>1, <3>2, <1>2
  <2>2. \A i \in 1..Len(free_list') : page_id'[free_list'[i]] = None
    <3> TAKE i \in 1..Len(free_list')
    <3>1. i \in 1..Len(free_list) /\ free_list'[i] = free_list[i] /\ free_list'[i] # t
      BY <1>6
    <3>2. free_list'[i] \in Frame
      BY <1>6
    <3>3. page_id[free_list[i]] = None
      BY <3>1 DEF IInv, PageTableExact
    <3> QED  BY <1>2, <1>3, <3>1, <3>2, <3>3
  <2>3. \A i, j \in 1..Len(free_list') : free_list'[i] = free_list'[j] => i = j
    <3> TAKE i, j \in 1..Len(free_list')
    <3>1. /\ i \in 1..Len(free_list) /\ free_list'[i] = free_list[i]
          /\ j \in 1..Len(free_list) /\ free_list'[j] = free_list[j]
      BY <1>6
    <3>2. \A m, n \in 1..Len(free_list) : free_list[m] = free_list[n] => m = n
      BY DEF IInv, PageTableExact
    <3> QED  BY <3>1, <3>2
  <2> QED  BY <2>1, <2>2, <2>3 DEF PageTableExact
<1>11. PageContents'
  <2> SUFFICES ASSUME NEW q \in Page
               PROVE  latest[q] = IF page_table'[q] # None THEN data[page_table'[q]]
                                                          ELSE source'[q]
    BY <1>2 DEF PageContents, Cached
  <2>1. latest[q] = IF page_table[q] # None THEN data[page_table[q]] ELSE source[q]
    BY DEF IInv, PageContents, Cached
  <2>2. page_table[q] = t <=> page_id[t] = q
    BY <1>2, <1>7
  <2> QED  BY <1>1, <1>2, <1>4, <1>5, <2>1, <2>2
<1>12. PinnedByGuard'
  BY <1>2 DEF IInv, PinnedByGuard
<1>13. EmptyFrames'
  <2> SUFFICES ASSUME NEW f \in Frame, page_id'[f] = None
               PROVE  /\ replacer'.evictable[f] = 0
                      /\ replacer'.history[f] = << >>
                      /\ f # guard'
    BY DEF EmptyFrames
  <2>1. CASE f = t
    BY <1>1, <1>2, <1>8, <2>1
  <2>2. CASE f # t
    BY <1>2, <1>3, <1>8, <2>2 DEF IInv, EmptyFrames
  <2> QED  BY <2>1, <2>2
<1>14. NoFrameLost'
  BY <1>1 DEF NoFrameLost
<1>15. CleanFrames'
  <2> SUFFICES ASSUME NEW f \in Frame, page_id'[f] # None, ~dirty'[f]
               PROVE  data'[f] = source'[page_id'[f]]
    BY DEF CleanFrames
  <2>1. f # t
    BY <1>2, <1>3
  <2>2. page_id'[f] = page_id[f] /\ data'[f] = data[f] /\ dirty'[f] = dirty[f]
    BY <1>2, <1>3, <2>1
  <2>3. data[f] = source[page_id[f]] /\ page_id[f] \in Page
    BY <1>3, <2>2 DEF IInv, CleanFrames
  <2>4. page_id[t] # page_id[f]
    BY <1>2, <1>7, <2>1, <2>3
  <2> QED  BY <1>5, <2>2, <2>3, <2>4
<1> QED  BY <1>9, <1>10, <1>11, <1>12, <1>13, <1>14, <1>15 DEF IInv

LEMMA PinHitInv ==
    ASSUME IInv, NEW p \in Page, NEW hint \in Hint, PinHit(p, hint)
    PROVE  IInv'
<1> DEFINE t == page_table[p]
<1>1. /\ guard = None /\ t # None /\ guard' = t
      /\ replacer' = Accessed(replacer, t, hint, FALSE)
      /\ pin_count' = [pin_count EXCEPT ![t] = @ + 1]
      /\ UNCHANGED <<page_id, data, dirty, page_lsn, page_table, free_list, source,
                     latest, io_failed>>
  BY DEF PinHit, Cached
<1>2. t \in Frame /\ page_id[t] = p /\ replacer \in LruKType
  BY <1>1 DEF IInv, TypeOK, PageTableExact
<1> HIDE DEF t
<1>3. /\ replacer' \in LruKType
      /\ replacer'.evictable[t] >= replacer.evictable[t]
      /\ replacer.history[t] # << >> => replacer'.history[t] # << >>
      /\ \A g \in Frame \ {t} : /\ replacer'.evictable[g] = replacer.evictable[g]
                                /\ replacer'.history[g] = replacer.history[g]
  BY <1>1, <1>2, AccessedFacts
<1>4. /\ \A f \in Frame : pin_count[f] = 0
      /\ pin_count \in [Frame -> {0, 1}]
      /\ None \notin Frame /\ None \notin Page
  BY <1>1, Unpinned, BufferPoolAssumption DEF IInv, TypeOK
<1>5. TypeOK'
  <2>1. pin_count' \in [Frame -> {0, 1}]
    BY <1>1, <1>2, <1>4
  <2> QED  BY <1>1, <1>2, <1>3, <2>1 DEF IInv, TypeOK
<1>6. PageTableExact' /\ PageContents' /\ CleanFrames'
  BY <1>1, FramesKept
<1>7. PinnedByGuard'
  BY <1>1, <1>2, <1>4 DEF PinnedByGuard
<1>8. EmptyFrames'
  <2> SUFFICES ASSUME NEW f \in Frame, page_id[f] = None
               PROVE  /\ replacer'.evictable[f] = 0
                      /\ replacer'.history[f] = << >>
                      /\ f # guard'
    BY <1>1 DEF EmptyFrames
  <2>1. f # t
    BY <1>2, <1>4
  <2> QED  BY <1>1, <1>3, <2>1 DEF IInv, EmptyFrames
<1>9. NoFrameLost'
  <2> SUFFICES ASSUME ~io_failed, NEW f \in Frame
               PROVE  Free(f) \/ Evictable(f)'
    BY <1>1 DEF NoFrameLost, Free
  <2>1. Free(f) \/ Evictable(f)
    BY DEF IInv, NoFrameLost
  <2>2. f # guard
    BY <1>1, <1>4
  <2>3. CASE f = t
    BY <1>1, <1>3, <2>1, <2>3 DEF Evictable
  <2>4. CASE f # t
    BY <1>1, <1>3, <2>1, <2>2, <2>4 DEF Evictable
  <2> QED  BY <2>3, <2>4
<1> QED  BY <1>5, <1>6, <1>7, <1>8, <1>9 DEF IInv

LEMMA MarkDirtyInv ==
    ASSUME IInv, NEW lsn \in 0..MaxLsn, MarkDirty(lsn)
    PROVE  IInv'
<1>1. /\ guard # None
      /\ dirty' = [dirty EXCEPT ![guard] = TRUE]
      /\ page_lsn' = [page_lsn EXCEPT ![guard] = IF lsn > @ THEN lsn ELSE @]
      /\ UNCHANGED <<page_id, data, pin_count, page_table, free_list, replacer,
                     source, guard, latest, io_failed>>
  BY DEF MarkDirty
<1>2. /\ guard \in Frame
      /\ dirty \in [Frame -> BOOLEAN]
      /\ page_lsn \in [Frame -> 0..MaxLsn]
  BY <1>1 DEF IInv, TypeOK
<1>3. TypeOK'
  <2>1. dirty' \in [Frame -> BOOLEAN]
    BY <1>1, <1>2, Zenon
  <2>2. page_lsn' \in [Frame -> 0..MaxLsn]
    BY <1>1, <1>2
  <2> QED  BY <1>1, <2>1, <2>2 DEF IInv, TypeOK
<1>4. PageTableExact' /\ PageContents'
  BY <1>1 DEF IInv, PageTableExact, PageContents, Cached
<1>5. PinnedByGuard' /\ EmptyFrames'
  BY <1>1 DEF IInv, PinnedByGuard, EmptyFrames
<1>6. NoFrameLost'
  BY <1>1 DEF IInv, NoFrameLost, Free, Evictable
<1>7. CleanFrames'
  BY <1>1, <1>2 DEF IInv, CleanFrames
<1> QED  BY <1>3, <1>4, <1>5, <1>6, <1>7 DEF IInv

LEMMA DropGuardInv == IInv /\ DropGuard => IInv'
<1> SUFFICES ASSUME IInv, DropGuard PROVE IInv'
  OBVIOUS
<1>1. /\ guard # None /\ guard' = None
      /\ pin_count' = [pin_count EXCEPT ![guard] = @ - 1]
      /\ UNCHANGED <<page_id, data, dirty, page_lsn, page_table, free_list,
                     source, latest, io_failed>>
  BY DEF DropGuard
<1>2. /\ guard \in Frame /\ pin_count[guard] = 1
      /\ pin_count \in [Frame -> {0, 1}]
      /\ page_id[guard] # None
      /\ replacer \in LruKType
      /\ None \notin Frame
  BY <1>1, BufferPoolAssumption DEF IInv, TypeOK, PinnedByGuard, EmptyFrames
<1>3. replacer' = MarkEvictable(replacer, guard)
  BY <1>2 DEF DropGuard
<1>4. /\ replacer' \in LruKType
      /\ replacer'.history = replacer.history
      /\ replacer'.evictable[guard] = replacer.evictable[guard] + 1
      /\ \A g \in Frame \ {guard} : replacer'.evictable[g] = replacer.evictable[g]
  BY <1>2, <1>3, MarkEvictableFacts
<1>5. replacer.evictable[guard] \in Nat
  BY <1>2, Fields
<1>6. TypeOK'
  <2>1. pin_count' \in [Frame -> {0, 1}]
    BY <1>1, <1>2
  <2> QED  BY <1>1, <1>4, <2>1 DEF IInv, TypeOK
<1>7. PageTableExact' /\ PageContents' /\ CleanFrames'
  BY <1>1, FramesKept
<1>8. PinnedByGuard'
  BY <1>1, <1>2 DEF IInv, PinnedByGuard
<1>9. EmptyFrames'
  BY <1>1, <1>2, <1>4 DEF IInv, EmptyFrames
<1>10. NoFrameLost'
  <2> SUFFICES ASSUME ~io_failed, NEW f \in Frame
               PROVE  Free(f) \/ Evictable(f)'
    BY <1>1 DEF NoFrameLost, Free
  <2>1. Free(f) \/ Evictable(f)
    BY DEF IInv, NoFrameLost
  <2>2. CASE f = guard
    BY <1>1, <1>4, <1>5, <2>1, <2>2 DEF Evictable
  <2>3. CASE f # guard
    BY <1>1, <1>4, <2>1, <2>3 DEF Evictable
  <2> QED  BY <2>2, <2>3
<1> QED  BY <1>6, <1>7, <1>8, <1>9, <1>10 DEF IInv

\* Flushing dirty pages makes their frames clean and the source equal to them.
LEMMA FlushInv ==
    ASSUME IInv, NEW pages \in SUBSET DirtyPages, Flush(pages),
           io_failed' \in BOOLEAN, io_failed => io_failed'
    PROVE  IInv'
<1>1. /\ source' = [p \in Page |-> IF p \in pages THEN data[page_table[p]] ELSE source[p]]
      /\ dirty' = [f \in Frame |-> dirty[f] /\ page_id[f] \notin pages]
      /\ UNCHANGED <<page_id, data, page_lsn, pin_count, page_table, free_list,
                     replacer, guard, latest>>
  BY DEF Flush
<1>2. \A p \in pages : p \in Page /\ page_table[p] # None
  BY DEF DirtyPages, Cached
<1>3. /\ page_table \in [Page -> Frame \cup {None}]
      /\ data \in [Frame -> Contents]
      /\ source \in [Page -> Contents]
      /\ page_id \in [Frame -> Page \cup {None}]
      /\ None \notin Page
  BY BufferPoolAssumption DEF IInv, TypeOK
<1>4. TypeOK'
  <2>1. source' \in [Page -> Contents]
    <3>1. \A p \in pages : data[page_table[p]] \in Contents
      BY <1>2, <1>3
    <3> QED  BY <1>1, <1>3, <3>1
  <2>2. dirty' \in [Frame -> BOOLEAN]
    BY <1>1, Zenon
  <2> QED  BY <1>1, <2>1, <2>2 DEF IInv, TypeOK
<1>5. PageTableExact'
  BY <1>1 DEF IInv, PageTableExact
<1>6. PageContents'
  <2> SUFFICES ASSUME NEW q \in Page
               PROVE  latest[q] = IF page_table[q] # None THEN data[page_table[q]]
                                                          ELSE source'[q]
    BY <1>1 DEF PageContents, Cached
  <2>1. latest[q] = IF page_table[q] # None THEN data[page_table[q]] ELSE source[q]
    BY DEF IInv, PageContents, Cached
  <2>2. page_table[q] = None => source'[q] = source[q]
    BY <1>1, <1>2
  <2> QED  BY <2>1, <2>2
<1>7. PinnedByGuard' /\ EmptyFrames'
  BY <1>1 DEF IInv, PinnedByGuard, EmptyFrames
<1>8. NoFrameLost'
  BY <1>1 DEF IInv, NoFrameLost, Free, Evictable
<1>9. CleanFrames'
  <2> SUFFICES ASSUME NEW f \in Frame, page_id[f] # None, ~dirty'[f]
               PROVE  data[f] = source'[page_id[f]]
    BY <1>1 DEF CleanFrames
  <2>1. page_id[f] \in Page
    BY <1>3
  <2>2. page_table[page_id[f]] = f
    BY <2>1 DEF IInv, PageTableExact
  <2>3. CASE page_id[f] \in pages
    BY <1>1, <2>1, <2>2, <2>3
  <2>4. CASE page_id[f] \notin pages
    BY <1>1, <2>1, <2>4 DEF IInv, CleanFrames
  <2> QED  BY <2>3, <2>4
<1> QED  BY <1>4, <1>5, <1>6, <1>7, <1>8, <1>9 DEF IInv

LEMMA NextInv == IInv /\ [Next]_vars => IInv'
<1> SUFFICES ASSUME IInv, [Next]_vars PROVE IInv'
  OBVIOUS
<1>1. ASSUME NEW p \in Page, NEW hint \in Hint, PinHit(p, hint) PROVE IInv'
  BY <1>1, PinHitInv
<1>2. ASSUME NEW p \in Page, NEW hint \in Hint, PinMiss(p, hint) PROVE IInv'
  BY <1>2, PinMissInv
<1>3. ASSUME NEW p \in Page, PinReadFails(p) PROVE IInv'
  BY <1>3, PinReadFailsInv
<1>4. ASSUME NEW p \in Page, NewPage(p) PROVE IInv'
  BY <1>4, NewPageInv
<1>5. ASSUME NEW p \in Page, FlushPage(p) PROVE IInv'
  <2>1. Flush({p}) /\ {p} \in SUBSET DirtyPages /\ io_failed' = io_failed
    BY <1>5 DEF FlushPage
  <2>2. io_failed \in BOOLEAN
    BY DEF IInv, TypeOK
  <2> QED  BY <2>1, <2>2, FlushInv
<1>6. CASE EvictWriteFails
  BY <1>6, EvictWriteFailsInv
<1>7. ASSUME NEW lsn \in 0..MaxLsn, MarkDirty(lsn) PROVE IInv'
  BY <1>7, MarkDirtyInv
<1>8. CASE DropGuard
  BY <1>8, DropGuardInv
<1>9. CASE FlushAll
  <2>1. PICK pages \in SUBSET DirtyPages :
           /\ io_failed' = (io_failed \/ pages # DirtyPages)
           /\ Flush(pages)
    BY <1>9 DEF FlushAll
  <2>2. io_failed' \in BOOLEAN /\ (io_failed => io_failed')
    BY <2>1, Zenon
  <2> QED  BY <2>1, <2>2, FlushInv
<1>10. CASE UNCHANGED vars
  <2> USE <1>10 DEF vars, frame_vars
  <2>1. TypeOK'
    BY DEF IInv, TypeOK
  <2>2. PageTableExact' /\ PageContents' /\ CleanFrames'
    BY FramesKept
  <2>3. PinnedByGuard' /\ EmptyFrames'
    BY DEF IInv, PinnedByGuard, EmptyFrames
  <2>4. NoFrameLost'
    BY DEF IInv, NoFrameLost, Free, Evictable
  <2> QED  BY <2>1, <2>2, <2>3, <2>4 DEF IInv
<1> QED
  BY <1>1, <1>2, <1>3, <1>4, <1>5, <1>6, <1>7, <1>8, <1>9, <1>10 DEF Next

LEMMA Invariance == Spec => []IInv
BY InitInv, NextInv, PTL DEF Spec

-----------------------------------------------------------------------------
(* The theorems. *)

\* PAGE TABLE AND CONTENTS.  The page table and the frames agree, no free
\* frame holds a page, and a reader of a page gets the latest contents, from
\* its frame or from the source, whatever was evicted, flushed or failed on
\* the way.
THEOREM PoolStaysCoherent == Spec => []PoolCoherent
<1>1. IInv => PoolCoherent
  BY DEF IInv, PoolCoherent
<1> QED  BY <1>1, Invariance, PTL

\* NO FRAME LOST.  With no guard alive evict_or_take_free finds a frame, as
\* long as the source has failed no call.
THEOREM MissFindsAFrame == Spec => []NeverExhausted
<1>1. IInv => NeverExhausted
  <2> SUFFICES ASSUME IInv, guard = None, ~io_failed, Evicting
               PROVE  Candidates(replacer) # {}
    BY DEF NeverExhausted, CanTake
  <2>1. PICK f \in Frame : TRUE
    BY BufferPoolAssumption
  <2>2. free_list = << >> /\ f # None
    BY BufferPoolAssumption DEF Evicting
  <2>3. ~Free(f)
    BY <2>2 DEF Free
  <2>4. Evictable(f)
    BY <2>3 DEF IInv, NoFrameLost
  <2>5. f \in Candidates(replacer)
    BY <2>2, <2>4 DEF Evictable, Candidates
  <2> QED  BY <2>5
<1> QED  BY <1>1, Invariance, PTL

\* SCAN RESISTANCE.  Until the source fails a call, a hot page leaves the pool
\* only when every cached page is hot.
ScanStep == ~io_failed =>
    \A f \in Frame :
       (page_id[f] # None /\ page_id'[f] # page_id[f] /\ Hot(replacer, f))
       => \A g \in Frame : page_id[g] # None => Hot(replacer, g)

LEMMA TakingKeepsHot ==
    ASSUME IInv, guard = None, CanTake, ~io_failed,
           \A f \in Frame \ {Taken} : page_id'[f] = page_id[f]
    PROVE  ScanStep
<1> SUFFICES ASSUME NEW f \in Frame, page_id[f] # None, page_id'[f] # page_id[f],
                    Hot(replacer, f), NEW g \in Frame, page_id[g] # None
             PROVE  Hot(replacer, g)
  BY DEF ScanStep
<1>1. f = Taken
  OBVIOUS
<1>2. Evicting
  BY <1>1, TakenFacts
<1>3. \A h \in Candidates(replacer) : Hot(replacer, h)
  BY <1>1, <1>2, TakenFacts
<1>4. ~Free(g)
  BY <1>2 DEF Evicting, Free
<1>5. Evictable(g) /\ g # guard
  BY <1>4, BufferPoolAssumption DEF IInv, NoFrameLost
<1>6. g \in Candidates(replacer)
  BY <1>5 DEF Evictable, Candidates
<1> QED  BY <1>3, <1>6

LEMMA StepsKeepHot == IInv /\ [Next]_vars => ScanStep
<1> SUFFICES ASSUME IInv, [Next]_vars, ~io_failed PROVE ScanStep
  BY DEF ScanStep
<1>0. page_id \in [Frame -> Page \cup {None}]
  BY DEF IInv, TypeOK
<1>1. ASSUME NEW p \in Page, NEW hint \in Hint, PinMiss(p, hint) PROVE ScanStep
  BY <1>0, <1>1, TakingKeepsHot DEF PinMiss
<1>2. ASSUME NEW p \in Page, PinReadFails(p) PROVE ScanStep
  BY <1>0, <1>2, TakingKeepsHot DEF PinReadFails
<1>3. ASSUME NEW p \in Page, NewPage(p) PROVE ScanStep
  BY <1>0, <1>3, TakingKeepsHot DEF NewPage
<1>4. CASE page_id' = page_id
  BY <1>4 DEF ScanStep
<1> QED
  BY <1>1, <1>2, <1>3, <1>4 DEF Next, PinHit, FlushPage, FlushAll, Flush,
     EvictWriteFails, MarkDirty, DropGuard, vars, frame_vars

THEOREM ScansSpareTheHotSet == Spec => ScanResistance
<1>1. IInv /\ [Next]_vars => [ScanStep]_vars
  BY StepsKeepHot
<1> QED  BY <1>1, Invariance, PTL DEF Spec, ScanResistance, ScanStep
=============================================================================
