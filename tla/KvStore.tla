------------------------------- MODULE KvStore -------------------------------
(***************************************************************************)
(* KvStore of cendb-projection/src/kv.rs on the segment files of           *)
(* cendb-storage/src/segment.rs.  A sealed PAX block is the sequence of    *)
(* its rows; the index gives the block and slot of a key.  Every call      *)
(* takes &mut self, so only a restart of the process comes between the     *)
(* steps of persist_to_segment.                                            *)
(*                                                                         *)
(* The bytes of a row are abstracted to its size: a row with the value     *)
(* Huge is larger than a block (finalize fails with "block overflow"), any *)
(* other row has size 1, and RowsPerBlock of them fill a block.            *)
(***************************************************************************)
EXTENDS Integers, Sequences, SequencesExt, FiniteSets, FiniteSetsExt

CONSTANTS Key,             \* keys, integers: compact sorts them
          Value,           \* values with at least one byte
          Huge,            \* a value that does not fit into a block
          Empty,           \* the empty value, which is also the tombstone
          Absent,          \* no value
          RowsPerBlock,    \* rows that fit into a block
          PendingCapacity, \* pending_capacity
          MaxRows          \* bound: rows in sealed blocks, before a call

Row == [key : Key, value : Value \cup {Empty}]

ASSUME KvStoreAssumption ==
    /\ Key \subseteq Int
    /\ Huge \in Value
    /\ Empty \notin Value
    /\ Absent \notin Value \cup {Empty} \cup Seq(Seq(Row))
    /\ {RowsPerBlock, PendingCapacity} \subseteq Nat \ {0}
    /\ MaxRows \in Nat

VARIABLES store,     \* blocks, index, pending, pending_order
          segment,   \* the segment file: blocks written and whether it is sealed
          writer     \* blocks persist_to_segment has still to write, or Absent

vars == <<store, segment, writer>>

NoPlace == <<0, 0>>

New == [blocks |-> << >>,
        index |-> [k \in Key |-> NoPlace],
        pending |-> [k \in Key |-> Absent],
        pending_order |-> << >>]

Pending(s) == {k \in Key : s.pending[k] # Absent}

RowAt(s, place) == s.blocks[place[1]][place[2]]

\* The places of rows: get indexes the blocks without a check.
Slots(s) == {p \in (1..Len(s.blocks)) \X (1..RowsPerBlock) : p[2] <= Len(s.blocks[p[1]])}

TypeOK == /\ store.blocks \in Seq(Seq(Row))
          /\ \A k \in Key : store.index[k] = NoPlace
                             \/ store.index[k] \in Slots(store)
          /\ store.pending \in [Key -> Value \cup {Empty, Absent}]
          /\ store.pending_order \in Seq(Key)
          /\ segment \in [blocks : Seq(Seq(Row)), sealed : BOOLEAN]
          /\ writer = Absent \/ writer \in Seq(Seq(Row))

-----------------------------------------------------------------------------
(* Reading. *)

\* get: pending first, then the row of the index; an empty value is a deletion.
Get(s, k) ==
    LET found == IF s.pending[k] # Absent THEN s.pending[k]
                 ELSE IF s.index[k] # NoPlace THEN RowAt(s, s.index[k]).value
                 ELSE Absent
    IN IF found = Empty THEN Absent ELSE found

\* The pending writes in the order of their insertion.
PendingRows(s) ==
    [i \in 1..Len(s.pending_order) |->
        [key |-> s.pending_order[i], value |-> s.pending[s.pending_order[i]]]]

\* The elements of a finite set of integers from the smallest to the largest.
Ascending(S) == CHOOSE q \in [1..Cardinality(S) -> S] :
                    \A i, j \in 1..Cardinality(S) : i < j => q[i] < q[j]

\* The rows of a block that are not tombstones.
LiveRows(block) ==
    LET live == Ascending({i \in 1..Len(block) : block[i].value # Empty})
    IN [n \in DOMAIN live |-> block[live[n]]]

\* The pairs KvIter yields: all of pending, then block after block.
Iter(s) ==
    LET upTo[c \in 0..Len(s.blocks)] ==
            IF c = 0 THEN PendingRows(s) ELSE upTo[c - 1] \o LiveRows(s.blocks[c])
    IN upTo[Len(s.blocks)]

StoreLen(s) == Cardinality(Pending(s)) + Cardinality({k \in Key : s.index[k] # NoPlace})

-----------------------------------------------------------------------------
(* Writing. *)

\* What a block holds.
Fits(chunk) == Len(chunk) <= RowsPerBlock /\ \A i \in 1..Len(chunk) : chunk[i].value # Huge

\* The next row joins the last chunk if it fits there.
AddToChunks(chunks, row) ==
    IF chunks # << >> /\ Fits(Append(chunks[Len(chunks)], row))
    THEN [chunks EXCEPT ![Len(chunks)] = Append(@, row)]
    ELSE Append(chunks, <<row>>)

Chunks(rows) ==
    LET after[i \in 0..Len(rows)] ==
            IF i = 0 THEN << >> ELSE AddToChunks(after[i - 1], rows[i])
    IN after[Len(rows)]

\* The places of k in a block.
SlotsOf(block, k) == {i \in 1..Len(block) : block[i].key = k}

\* Fault: the index is not told of keys that are already in it.
SealAll_FirstWins(s, chunks) ==
    LET Holding(k) == {c \in 1..Len(chunks) : SlotsOf(chunks[c], k) # {}}
    IN [s EXCEPT !.blocks = @ \o chunks,
                 !.index = [k \in Key |->
                     IF Holding(k) = {} \/ @[k] # NoPlace THEN @[k]
                     ELSE LET c == Max(Holding(k))
                          IN <<Len(s.blocks) + c, Max(SlotsOf(chunks[c], k))>>]]

\* The chunks are sealed one after the other, and the index points at the last
\* of their rows of every key.
SealAll(s, chunks) ==
    LET Holding(k) == {c \in 1..Len(chunks) : SlotsOf(chunks[c], k) # {}}
    IN [s EXCEPT !.blocks = @ \o chunks,
                 !.index = [k \in Key |->
                     IF Holding(k) = {} THEN @[k]
                     ELSE LET c == Max(Holding(k))
                          IN <<Len(s.blocks) + c, Max(SlotsOf(chunks[c], k))>>]]

\* flush_pending: chunk by chunk, up to the first that overflows its block;
\* pending is cleared only when all were sealed.
FlushPending(s) ==
    LET chunks == Chunks(PendingRows(s))
        bad == {c \in 1..Len(chunks) : ~ Fits(chunks[c])}
    IN IF bad = {}
       THEN [ok |-> TRUE,
             store |-> [SealAll(s, chunks) EXCEPT !.pending = New.pending,
                                                  !.pending_order = << >>]]
       ELSE [ok |-> FALSE, store |-> SealAll(s, SubSeq(chunks, 1, Min(bad) - 1))]

\* put: the write stays in pending even when the flush it causes fails.
Put(s, k, v) ==
    LET written == [s EXCEPT !.pending[k] = v,
                             !.pending_order = IF k \in Pending(s) THEN @ ELSE Append(@, k)]
    IN IF Cardinality(Pending(written)) >= PendingCapacity
       THEN FlushPending(written).store ELSE written

\* pending_order.retain
Without(q, k) == LET kept == Ascending({i \in 1..Len(q) : q[i] # k})
                 IN [n \in DOMAIN kept |-> q[kept[n]]]

\* Fault: no tombstone for a key that is only in pending.
Delete_NoTombstone(s, k) ==
    LET gone == [s EXCEPT !.index[k] = NoPlace, !.pending[k] = Absent,
                          !.pending_order = Without(@, k)]
    IN IF s.index[k] # NoPlace THEN Put(gone, k, Empty) ELSE gone

\* delete: out of both maps, and a tombstone if it was in either.
Delete(s, k) ==
    LET gone == [s EXCEPT !.index[k] = NoPlace, !.pending[k] = Absent,
                          !.pending_order = Without(@, k)]
    IN IF s.index[k] # NoPlace \/ k \in Pending(s) THEN Put(gone, k, Empty) ELSE gone

Survivors(s) == {k \in Key : s.index[k] # NoPlace /\ RowAt(s, s.index[k]).value # Empty}

\* The survivors of s put back into t, in the order of their keys.
PutBack(t, s) ==
    LET keys == Ascending(Survivors(s))
        after[i \in 0..Len(keys)] ==
            IF i = 0 THEN t ELSE Put(after[i - 1], keys[i], Get(s, keys[i]))
    IN after[Len(keys)]

\* Fault: the old blocks stay.
Compact_KeepsBlocks(s) ==
    LET flushed == FlushPending(s)
    IN IF flushed.ok
       THEN FlushPending(PutBack([New EXCEPT !.blocks = flushed.store.blocks],
                                 flushed.store)).store
       ELSE flushed.store

\* compact: flush, collect the survivors, drop everything, put them back and
\* flush again.
Compact(s) ==
    LET flushed == FlushPending(s)
    IN IF flushed.ok THEN FlushPending(PutBack(New, flushed.store)).store
                     ELSE flushed.store

\* load_from_segment: the directory is read only if the header says that the
\* segment was sealed; of several rows of a key the last one is indexed.
LoadFromSegment(f) == IF f.sealed THEN SealAll(New, f.blocks) ELSE New

-----------------------------------------------------------------------------
Init == /\ store = New
        /\ segment = [blocks |-> << >>, sealed |-> FALSE]
        /\ writer = Absent

Ready == writer = Absent /\ Cardinality(Slots(store)) <= MaxRows

DoPut(k, v) == /\ Ready
               /\ store' = Put(store, k, v)
               /\ UNCHANGED <<segment, writer>>

DoDelete(k) == /\ Ready
               /\ store' = Delete(store, k)
               /\ UNCHANGED <<segment, writer>>

\* flush_pending and seal.
DoFlush == /\ Ready
           /\ store' = FlushPending(store).store
           /\ UNCHANGED <<segment, writer>>

DoCompact == /\ Ready
             /\ store' = Compact(store)
             /\ UNCHANGED <<segment, writer>>

\* persist_to_segment: flush, then SegmentWriter::create truncates the file and writes its header,
\* here one step: a file cut before the header is one that open refuses, and the process that
\* finds it is taken to start with an empty store. Restart is of the process, not of the machine:
\* seal does not sync the file.
PersistCreate ==
    LET flushed == FlushPending(store)
    IN /\ Ready
       /\ store' = flushed.store
       /\ IF flushed.ok THEN /\ segment' = [blocks |-> << >>, sealed |-> FALSE]
                             /\ writer' = flushed.store.blocks
                        ELSE UNCHANGED <<segment, writer>>

\* SegmentWriter::append_block.
PersistAppend ==
    /\ writer \notin {Absent, << >>}
    /\ segment' = [segment EXCEPT !.blocks = Append(@, Head(writer))]
    /\ writer' = Tail(writer)
    /\ UNCHANGED store

\* SegmentWriter::seal: the directory, and then the header that refers to it.
PersistSeal ==
    /\ writer = << >>
    /\ segment' = [segment EXCEPT !.sealed = TRUE]
    /\ writer' = Absent
    /\ UNCHANGED store

\* A write of the segment fails; the error goes to the caller.
PersistFails == /\ writer # Absent
                /\ writer' = Absent
                /\ UNCHANGED <<store, segment>>

\* The process ends, at any moment, and its successor loads the segment.
Restart == /\ store' = LoadFromSegment(segment)
           /\ writer' = Absent
           /\ UNCHANGED segment

Next == \/ \E k \in Key : DoDelete(k) \/ \E v \in Value \cup {Empty} : DoPut(k, v)
        \/ DoFlush
        \/ DoCompact
        \/ PersistCreate
        \/ PersistAppend
        \/ PersistSeal
        \/ PersistFails
        \/ Restart

Spec == Init /\ [][Next]_vars
-----------------------------------------------------------------------------
(* Properties. *)

\* The rows of k in the sealed blocks, as places in the order of writing.
Places(s, k) == {p \in Slots(s) : RowAt(s, p).key = k}

\* The index points at the last row of its key, which is what makes compact
\* and load_from_segment keep the newest value; a key with sealed rows and no
\* index entry was deleted and its tombstone is still pending.
IndexNewest ==
    \A k \in Key :
        /\ store.index[k] # NoPlace =>
              /\ store.index[k] \in Places(store, k)
              /\ \A p \in Places(store, k) : p[1] <= store.index[k][1]
        /\ store.index[k] = NoPlace /\ Places(store, k) # {} => k \in Pending(store)

\* pending_order lists the pending keys once each.
PendingOrdered ==
    /\ ToSet(store.pending_order) = Pending(store)
    /\ IsInjective(store.pending_order)

\* The index leads to the newest row of every key, the pending keys are queued
\* once each, and every place the store reads exists.
StoreSound == TypeOK /\ IndexNewest /\ PendingOrdered

Pairs(s) == {[key |-> k, value |-> Get(s, k)] : k \in {j \in Key : Get(s, j) # Absent}}

\* After a compaction that could flush, iteration yields every live pair once
\* and nothing else, and len counts them.  Before one, KvIter also yields
\* superseded rows and pending tombstones.
CompactExact ==
    [][DoCompact /\ FlushPending(store).ok =>
         /\ ToSet(Iter(store')) = Pairs(store)
         /\ Len(Iter(store')) = Cardinality(Pairs(store))
         /\ StoreLen(store') = Cardinality(Pairs(store))]_vars

Map == INSTANCE KvMap WITH
         map <- [k \in Key |-> Get(store, k)],
         saved <- LET loaded == LoadFromSegment(segment) IN [k \in Key |-> Get(loaded, k)]

\* The store is a map: flushing, compaction and a failed flush are invisible,
\* and a restart brings back what the last finished persist wrote.
ImplementsMap == Map!Spec
=============================================================================
