----------------------------- MODULE BufferPool -----------------------------
(***************************************************************************)
(* BufferPool, Frame and PinnedPage of cendb-buffer/src/{pool,frame}.rs,   *)
(* with the replacement policy of lru.rs and a page source that can fail.  *)
(*                                                                         *)
(* A PinnedPage borrows the pool mutably, so at most one guard exists and  *)
(* no other call is made while it does.  Page bytes are abstracted to the  *)
(* page they belong to (what the source held at first) or Zero; a guard    *)
(* gives no mutable access to the bytes, so new_page is the only write.    *)
(* latest and io_failed are not in the pool: what a reader of a page is    *)
(* entitled to see, and whether the source has failed a call yet.          *)
(***************************************************************************)
EXTENDS Integers, Sequences, FiniteSets, SequencesExt

CONSTANTS Frame,       \* frame identities
          K,           \* accesses that make a frame hot
          Page,        \* page ids
          Seeded,      \* pages the source holds at the start
          None,        \* no page, no frame
          Zero,        \* the contents of a fresh page
          MaxClock,    \* bound: accesses recorded by the policy
          MaxMarks,    \* bound: entries of one frame in the evictable list
          MaxLsn,      \* bound: LSNs passed to mark_dirty
          ReadErrors,  \* whether read_page may fail
          WriteErrors  \* whether write_page may fail

\* BufferPool::new refuses a pool of no frames.
ASSUME BufferPoolAssumption ==
    /\ K \in Nat \ {0}
    /\ IsFiniteSet(Frame) /\ Frame # {}
    /\ Seeded \subseteq Page
    /\ None \notin Page \cup Frame
    /\ Zero \notin Page
    /\ {MaxClock, MaxMarks, MaxLsn} \subseteq Nat
    /\ {ReadErrors, WriteErrors} \subseteq BOOLEAN

VARIABLES page_id, data, dirty, page_lsn, pin_count,   \* the fields of a frame
          page_table,    \* page -> frame, or None
          free_list,     \* frames never used yet
          replacer,      \* the LruK policy
          source,        \* contents of the backing store
          guard,         \* frame of the live PinnedPage, or None
          latest,        \* what a reader of the page should see
          io_failed      \* a call of the source has failed

frame_vars == <<page_id, data, dirty, page_lsn, pin_count>>
vars == <<frame_vars, page_table, free_list, replacer, source, guard, latest,
          io_failed>>

Contents == Page \cup {Zero}
Hint == {"Point", "Scan"}

-----------------------------------------------------------------------------
(* The LRU-K replacement policy, as operators on its value.                *)
(*                                                                         *)
(* history[f] is the deque of access times of frame f, newest first, empty *)
(* for a frame that is not in the map.  evictable is a Vec that may hold a *)
(* frame several times; access times are unique, so the order of the Vec   *)
(* decides nothing and evictable[f] is how often f is in it.               *)

NewLruK == [clock |-> 0,
            history |-> [f \in Frame |-> << >>],
            evictable |-> [f \in Frame |-> 0]]

LruKType == [clock : Nat, history : [Frame -> Seq(Nat)], evictable : [Frame -> Nat]]

RecordAccess(lru, f) ==
    LET h == <<lru.clock + 1>> \o lru.history[f]
    IN [lru EXCEPT !.clock = @ + 1,
                   !.history[f] = IF Len(h) > K THEN SubSeq(h, 1, K) ELSE h]

MarkEvictable(lru, f) == [lru EXCEPT !.evictable[f] = @ + 1]

Forget(lru, f) == [lru EXCEPT !.history[f] = << >>, !.evictable[f] = 0]

Oldest(lru, f) == lru.history[f][Len(lru.history[f])]

Candidates(lru) == {f \in Frame : lru.evictable[f] > 0 /\ lru.history[f] # << >>}

Hot(lru, f) == Len(lru.history[f]) >= K

\* Fault: the classic rule alone, without the preference for scan pages.
Victim_NoScanPhase(lru) ==
    CHOOSE f \in Candidates(lru) :
        \A g \in Candidates(lru) : Oldest(lru, f) <= Oldest(lru, g)

\* The frame pick_victim chooses: the oldest frame that is not hot, and only
\* when there is none the hot frame whose K-th access is the oldest.
Victim(lru) ==
    LET cold == {f \in Candidates(lru) : ~Hot(lru, f)}
        pool == IF cold # {} THEN cold ELSE Candidates(lru)
    IN CHOOSE f \in pool : \A g \in pool : Oldest(lru, f) <= Oldest(lru, g)

\* The policy after pick_victim returned f: one entry of the Vec and the whole
\* history are gone.
Picked(lru, f) == [lru EXCEPT !.evictable[f] = @ - 1, !.history[f] = << >>]

-----------------------------------------------------------------------------
(* The pool. *)

TypeOK == /\ page_id \in [Frame -> Page \cup {None}]
          /\ data \in [Frame -> Contents]
          /\ dirty \in [Frame -> BOOLEAN]
          /\ page_lsn \in [Frame -> 0..MaxLsn]
          /\ pin_count \in [Frame -> {0, 1}]
          /\ page_table \in [Page -> Frame \cup {None}]
          /\ free_list \in Seq(Frame)
          /\ replacer \in LruKType
          /\ source \in [Page -> Contents]
          /\ guard \in Frame \cup {None}
          /\ latest \in [Page -> Contents]
          /\ io_failed \in BOOLEAN

\* A page the source does not hold reads as zeros.
Init == /\ page_id = [f \in Frame |-> None]
        /\ data = [f \in Frame |-> Zero]
        /\ dirty = [f \in Frame |-> FALSE]
        /\ page_lsn = [f \in Frame |-> 0]
        /\ pin_count = [f \in Frame |-> 0]
        /\ page_table = [p \in Page |-> None]
        /\ free_list = SetToSeq(Frame)
        /\ replacer = NewLruK
        /\ source = [p \in Page |-> IF p \in Seeded THEN p ELSE Zero]
        /\ guard = None
        /\ latest = source
        /\ io_failed = FALSE

Cached(p) == page_table[p] # None

-----------------------------------------------------------------------------
(* Getting a frame. *)

Evicting == free_list = << >>
CanTake == ~Evicting \/ Candidates(replacer) # {}

\* The frame evict_or_take_free returns: the last of the free list, else the
\* victim of the policy.
Taken == IF Evicting THEN Victim(replacer) ELSE Last(free_list)

\* Fault: a dirty victim is dropped without a write.
SourceAfterTake_NoFlush == source

\* A dirty victim is written back first.
SourceAfterTake == IF Evicting /\ dirty[Taken]
                   THEN [source EXCEPT ![page_id[Taken]] = data[Taken]]
                   ELSE source

\* Fault: the victim stays in the page table.
TableAfterTake_Keeps == page_table

TableAfterTake == IF Evicting THEN [page_table EXCEPT ![page_id[Taken]] = None]
                              ELSE page_table

ReplacerAfterTake == IF Evicting THEN Forget(Picked(replacer, Taken), Taken)
                                 ELSE replacer

TakeFrame == /\ free_list' = IF Evicting THEN free_list ELSE Front(free_list)
             /\ source' = SourceAfterTake

\* write_page fails: pick_victim has already taken the victim out of the
\* policy, the page stays cached.
EvictWriteFails ==
    /\ WriteErrors
    /\ guard = None
    /\ Evicting /\ CanTake
    /\ dirty[Taken]
    /\ replacer' = Picked(replacer, Taken)
    /\ io_failed' = TRUE
    /\ UNCHANGED <<frame_vars, page_table, free_list, source, guard, latest>>

-----------------------------------------------------------------------------
(* pin_page, new_page and the guard. *)

Accessed(lru, f, hint, loaded) ==
    LET seen == IF hint = "Point" \/ loaded THEN RecordAccess(lru, f) ELSE lru
    IN IF hint = "Scan" /\ loaded THEN MarkEvictable(seen, f) ELSE seen

ClockLeft == replacer.clock < MaxClock /\ \A f \in Frame : replacer.evictable[f] < MaxMarks

\* pin_page of a page that is in the pool.
PinHit(p, hint) ==
    /\ guard = None /\ ClockLeft
    /\ Cached(p)
    /\ replacer' = Accessed(replacer, page_table[p], hint, FALSE)
    /\ pin_count' = [pin_count EXCEPT ![page_table[p]] = @ + 1]
    /\ guard' = page_table[p]
    /\ UNCHANGED <<page_id, data, dirty, page_lsn, page_table, free_list, source,
                   latest, io_failed>>

\* pin_page of a page that has to be read.
PinMiss(p, hint) ==
    /\ guard = None /\ ClockLeft
    /\ ~Cached(p)
    /\ CanTake
    /\ TakeFrame
    /\ page_id' = [page_id EXCEPT ![Taken] = p]
    /\ data' = [data EXCEPT ![Taken] = source'[p]]
    /\ dirty' = [dirty EXCEPT ![Taken] = FALSE]
    /\ pin_count' = [pin_count EXCEPT ![Taken] = @ + 1]
    /\ page_table' = [TableAfterTake EXCEPT ![p] = Taken]
    /\ replacer' = Accessed(ReplacerAfterTake, Taken, hint, TRUE)
    /\ guard' = Taken
    /\ UNCHANGED <<page_lsn, latest, io_failed>>

\* read_page fails: the frame was taken out of the free list or evicted, and
\* nothing gives it back.
PinReadFails(p) ==
    /\ ReadErrors
    /\ guard = None
    /\ ~Cached(p)
    /\ CanTake
    /\ TakeFrame
    /\ page_id' = [page_id EXCEPT ![Taken] = None]
    /\ dirty' = [dirty EXCEPT ![Taken] = FALSE]
    /\ page_table' = TableAfterTake
    /\ replacer' = ReplacerAfterTake
    /\ io_failed' = TRUE
    /\ UNCHANGED <<data, page_lsn, pin_count, guard, latest>>

\* new_page looks for the page in the pool only, not in the source.  The LSN
\* of the frame's former page stays: mark_dirty(0) never lowers it.
NewPage(p) ==
    /\ guard = None /\ ClockLeft
    /\ ~Cached(p)
    /\ CanTake
    /\ TakeFrame
    /\ page_id' = [page_id EXCEPT ![Taken] = p]
    /\ data' = [data EXCEPT ![Taken] = Zero]
    /\ dirty' = [dirty EXCEPT ![Taken] = TRUE]
    /\ pin_count' = [pin_count EXCEPT ![Taken] = @ + 1]
    /\ page_table' = [TableAfterTake EXCEPT ![p] = Taken]
    /\ replacer' = RecordAccess(ReplacerAfterTake, Taken)
    /\ guard' = Taken
    /\ latest' = [latest EXCEPT ![p] = Zero]
    /\ UNCHANGED <<page_lsn, io_failed>>

\* PinnedPage::mark_dirty: the frame keeps the greatest LSN it was given.
MarkDirty(lsn) ==
    /\ guard # None
    /\ dirty' = [dirty EXCEPT ![guard] = TRUE]
    /\ page_lsn' = [page_lsn EXCEPT ![guard] = IF lsn > @ THEN lsn ELSE @]
    /\ UNCHANGED <<page_id, data, pin_count, page_table, free_list, replacer,
                   source, guard, latest, io_failed>>

\* Fault: the frame is only marked evictable by scans.
DropGuard_NoMark ==
    /\ guard # None
    /\ pin_count' = [pin_count EXCEPT ![guard] = @ - 1]
    /\ guard' = None
    /\ UNCHANGED <<page_id, data, dirty, page_lsn, page_table, free_list,
                   replacer, source, latest, io_failed>>

\* Drop of the guard: release_pin.
DropGuard ==
    /\ guard # None
    /\ pin_count' = [pin_count EXCEPT ![guard] = @ - 1]
    /\ replacer' = IF pin_count[guard] = 1 THEN MarkEvictable(replacer, guard)
                                           ELSE replacer
    /\ guard' = None
    /\ UNCHANGED <<page_id, data, dirty, page_lsn, page_table, free_list,
                   source, latest, io_failed>>

-----------------------------------------------------------------------------
(* Flushing. *)

DirtyPages == {p \in Page : Cached(p) /\ dirty[page_table[p]]}

Flush(pages) ==
    /\ source' = [p \in Page |-> IF p \in pages THEN data[page_table[p]] ELSE source[p]]
    /\ dirty' = [f \in Frame |-> dirty[f] /\ page_id[f] \notin pages]
    /\ UNCHANGED <<page_id, data, page_lsn, pin_count, page_table, free_list,
                   replacer, guard, latest>>

FlushPage(p) == /\ guard = None
                /\ p \in DirtyPages
                /\ Flush({p})
                /\ UNCHANGED io_failed

\* flush_all, in the order of the map's keys; the first failure ends it with
\* some pages flushed.
FlushAll == /\ guard = None
            /\ DirtyPages # {}
            /\ \E pages \in SUBSET DirtyPages :
                  /\ pages = DirtyPages \/ WriteErrors
                  /\ io_failed' = (io_failed \/ pages # DirtyPages)
                  /\ Flush(pages)

Next == \/ \E p \in Page : \/ \E hint \in Hint : PinHit(p, hint) \/ PinMiss(p, hint)
                           \/ PinReadFails(p)
                           \/ NewPage(p)
                           \/ FlushPage(p)
        \/ EvictWriteFails
        \/ \E lsn \in 0..MaxLsn : MarkDirty(lsn)
        \/ DropGuard
        \/ FlushAll

Spec == Init /\ [][Next]_vars
-----------------------------------------------------------------------------
(* Properties. *)

\* The page table and the frames agree: a page is cached in one frame, a frame
\* holds at most one page, and a free frame holds none.
PageTableExact ==
    /\ \A p \in Page, f \in Frame : page_table[p] = f <=> page_id[f] = p
    /\ \A i \in 1..Len(free_list) : page_id[free_list[i]] = None
    /\ \A i, j \in 1..Len(free_list) : free_list[i] = free_list[j] => i = j

\* A reader gets the latest contents, from its frame or from the source:
\* eviction never loses a dirty page and a clean frame is never stale.
PageContents ==
    \A p \in Page : latest[p] = IF Cached(p) THEN data[page_table[p]] ELSE source[p]

\* The page table and the frames agree, and a reader gets the latest contents
\* of its page, from the frame or from the source; the frames keep their types.
PoolCoherent == TypeOK /\ PageTableExact /\ PageContents

\* When no guard is alive a miss finds a frame, as long as the source works.
NeverExhausted == guard = None /\ ~io_failed => CanTake

\* A hot page is evicted only when every other cached page is hot too: a
\* scan cannot push out the hot set.  After a failed write-back the victim has
\* lost its history and this no longer holds.
ScanResistance ==
    [][~io_failed => \A f \in Frame :
          (page_id[f] # None /\ page_id'[f] # page_id[f] /\ Hot(replacer, f))
          => \A g \in Frame : page_id[g] # None => Hot(replacer, g)]_vars

\* "new_page: page already exists": creating a page never replaces one that
\* the source holds.
ExistingPagesKept == [][\A p \in Page : latest[p] = p => latest'[p] = p]_vars
=============================================================================
