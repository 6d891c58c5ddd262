------------------------------ MODULE PaxLayout ------------------------------
(***************************************************************************)
(* What a PAX block does to the values of its rows, and where it puts them *)
(* (cendb-storage/src/pax.rs and header.rs).  A value is its kind with an  *)
(* integer; Bytes n is a string of n bytes.  A column's spec is its kind   *)
(* and whether it is the key or the timestamp.                             *)
(***************************************************************************)
EXTENDS Integers, Sequences, SequencesExt, FiniteSetsExt

Null == [k |-> "Null", v |-> 0]
Val(kind, x) == [k |-> kind, v |-> x]
Fixed == {"Bool", "I64", "U64", "F64", "Timestamp"}
NullLen == -1    \* u32::MAX in a slot

\* An empty staging area: the values of a fixed column, or slots and a heap.
Staging(spec) == IF spec.kind \in Fixed THEN [vals |-> <<>>] ELSE [slots |-> <<>>, heap |-> <<>>]

\* What write_value accepts for a fixed column: its own kind, a timestamp in
\* an I64 column, and Null.
Storable(kind, x) == \/ kind \notin Fixed \/ x.k \in {kind, "Null"}
                     \/ kind = "I64" /\ x.k = "Timestamp"

\* Anything but bytes is written into a Bytes column as its text (one symbol).
Bytes(x) == IF x.k = "Bytes" THEN [i \in 1..x.v |-> <<x.k, x.v>>] ELSE <<<<x.k, x.v>>>>

WriteValue(kind, col, x) ==
    IF kind \in Fixed THEN [vals |-> Append(col.vals, x.v)]   \* Null is written as 0
    ELSE IF x.k = "Null" THEN [col EXCEPT !.slots = Append(@, <<0, NullLen>>)]
    ELSE [slots |-> Append(col.slots, <<Len(col.heap), Len(Bytes(x))>>), heap |-> col.heap \o Bytes(x)]

\* extend_pk and extend_ts: <<>> before the first value, else <<min, max>>
Extend(range, x) == IF range = <<>> THEN <<x, x>> ELSE <<Min({range[1], x}), Max({range[2], x})>>
Ranged(x) == x.k \in {"I64", "U64", "Timestamp"}

-----------------------------------------------------------------------------
(* Layout: sizes in bytes *)

MiniPageAlign == 64
HeaderSize == 64
DirectorySize == 64
AlignUp(n, a) == ((n + a - 1) \div a) * a
BitmapSize(rows) == (rows + 7) \div 8

MinipagesOffset(cols) == AlignUp(HeaderSize + cols * DirectorySize, MiniPageAlign)

\* Where each minipage starts, given their lengths
MinipageOffs(lens) ==
    LET off[i \in 1..Len(lens)] == AlignUp(IF i = 1 THEN MinipagesOffset(Len(lens))
                                           ELSE off[i - 1] + lens[i - 1], MiniPageAlign)
    IN  off

\* The regions of a block: minipages, var-heap, null and tombstone bitmaps;
\* fits is the check that the block is large enough.
Layout(lens, heap_len, rows, block_size) ==
    LET offs    == MinipageOffs(lens)
        heap    == AlignUp(offs[Len(lens)] + lens[Len(lens)], 8)
        nulls   == Len(lens) * BitmapSize(rows)
        tomb    == block_size - BitmapSize(rows)
    IN  [minipages |-> [i \in DOMAIN lens |-> <<offs[i], lens[i]>>],
         varheap |-> <<heap, heap_len>>, null_bitmap |-> <<tomb - nulls, nulls>>,
         tombstones |-> <<tomb, BitmapSize(rows)>>,
         fits |-> heap + heap_len + nulls + BitmapSize(rows) <= block_size]

-----------------------------------------------------------------------------
(* Reading *)

\* The heaps of the var columns one after the other: where each one starts
HeapBase(staging, i) == FoldSeq(LAMBDA c, n : n + (IF "heap" \in DOMAIN c THEN Len(c.heap) ELSE 0), 0,
                                SubSeq(staging, 1, i - 1))
VarHeap(staging) == FoldLeft(LAMBDA h, c : h \o (IF "heap" \in DOMAIN c THEN c.heap ELSE <<>>), <<>>, staging)

\* A mutant: slots keep the offsets of their own column's heap.
RebaseNot(slot, base) == slot
Rebase(slot, base) == IF slot[2] = NullLen THEN slot ELSE <<slot[1] + base, slot[2]>>

VarValue(slot, heap) == IF slot[2] = NullLen THEN Null
                        ELSE Val("Bytes", SubSeq(heap, slot[1] + 1, slot[1] + slot[2]))

\* A fixed value comes back with its column's kind: a Null as zero.
ReadFixed(kind, x) == Val(kind, x)
ReadBack(kind, x) == IF kind \in Fixed THEN ReadFixed(kind, x.v)
                     ELSE IF x.k = "Null" THEN Null ELSE Val("Bytes", Bytes(x))

\* zone_overlaps_pk and zone_overlaps_ts; a block with no timestamps is never
\* skipped, one with no keys always is
ZoneOverlapsPk(range, lo, hi) == range # <<>> /\ ~(range[2] < lo \/ range[1] > hi)
ZoneOverlapsTs(range, lo, hi) == range = <<>> \/ ~(range[2] < lo \/ range[1] > hi)
=============================================================================
