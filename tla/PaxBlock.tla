------------------------------ MODULE PaxBlock ------------------------------
(***************************************************************************)
(* Building one PAX block and reading it (cendb-storage/src/pax.rs): rows  *)
(* are appended column by column into staging areas, finalize lays them    *)
(* out.  The lengths of encoded minipages are whatever an encoding makes   *)
(* of them; the values come back as they went in (Codec.tla).              *)
(***************************************************************************)
EXTENDS PaxLayout, FiniteSets

CONSTANTS Schemas,      \* sequences of column specs: [kind, pk, ts]
          Values,       \* the values rows are made of
          BlockSizes, Lengths(_),  \* block sizes; lengths an encoding of n values can have
          MaxRows

VARIABLES specs, staging, row_count, pk_range, ts_range,   \* PaxBlockBuilder
          rows,      \* the rows append_row returned Ok for
          misfits,   \* rows it refused
          block      \* the finalized block, or <<>>

vars == <<specs, staging, row_count, pk_range, ts_range, rows, misfits, block>>

\* PaxBlockBuilder::new
Valid(schema) == /\ schema # <<>>
                 /\ Cardinality({i \in DOMAIN schema : schema[i].pk}) <= 1
                 /\ Cardinality({i \in DOMAIN schema : schema[i].ts}) <= 1

Init == /\ specs \in {s \in Schemas : Valid(s)}
        /\ staging = [i \in DOMAIN specs |-> Staging(specs[i])]
        /\ row_count = 0 /\ pk_range = <<>> /\ ts_range = <<>>
        /\ rows = <<>> /\ misfits = 0 /\ block = <<>>

\* The first column that refuses its value: the columns before it have
\* taken theirs, and its own value is already in the zone ranges.
Refusing(row) == {i \in DOMAIN specs : ~Storable(specs[i].kind, row[i])}
Reached(row) == IF Refusing(row) = {} THEN Len(specs) ELSE Min(Refusing(row))
Taken(row, i) == i \in DOMAIN specs /\ i <= Reached(row) /\ Storable(specs[i].kind, row[i])

Ranges(row, range, flag) ==
    FoldLeft(LAMBDA r, i : IF specs[i][flag] /\ Ranged(row[i]) THEN Extend(r, row[i].v) ELSE r,
             range, [i \in 1..Reached(row) |-> i])

AppendRow(row) ==
    /\ block = <<>> /\ Len(rows) + misfits < MaxRows
    /\ staging' = [i \in DOMAIN specs |->
                     IF Taken(row, i) THEN WriteValue(specs[i].kind, staging[i], row[i]) ELSE staging[i]]
    /\ pk_range' = Ranges(row, pk_range, "pk") /\ ts_range' = Ranges(row, ts_range, "ts")
    /\ IF Refusing(row) = {}
       THEN rows' = Append(rows, row) /\ row_count' = row_count + 1 /\ UNCHANGED misfits
       ELSE misfits' = misfits + 1 /\ UNCHANGED <<rows, row_count>>
    /\ UNCHANGED <<specs, block>>

\* Column zones are over what is stored, zeros for Nulls included.
ColumnZone(col) == IF "vals" \in DOMAIN col /\ col.vals # <<>>
                   THEN <<Min(ToSet(col.vals)), Max(ToSet(col.vals))>> ELSE <<>>

MinipageLens(i) == IF specs[i].kind \notin Fixed THEN {8 * Len(staging[i].slots)}
                   ELSE IF specs[i].kind \in {"I64", "U64", "Timestamp"} THEN Lengths(Len(staging[i].vals))
                   ELSE {8 * Len(staging[i].vals)}

Finalize(size, lens) ==
    LET heap   == VarHeap(staging)
        layout == Layout(lens, Len(heap), row_count, size)
    IN  /\ block = <<>> /\ layout.fits
        /\ block' = [layout |-> layout, size |-> size, row_count |-> row_count, heap |-> heap,
                     pk |-> pk_range, ts |-> ts_range,
                     zones |-> [i \in DOMAIN specs |-> ColumnZone(staging[i])],
                     columns |-> [i \in DOMAIN specs |->
                        IF specs[i].kind \in Fixed THEN staging[i].vals
                        ELSE [s \in DOMAIN staging[i].slots |->
                                Rebase(staging[i].slots[s], HeapBase(staging, i))]]]
        /\ UNCHANGED <<specs, staging, row_count, pk_range, ts_range, rows, misfits>>

\* The builder is consumed also when the block is too small; the caller starts
\* again with a new one.
FinalizeOverflows(size, lens) ==
    /\ block = <<>> /\ row_count > 0
    /\ ~Layout(lens, Len(VarHeap(staging)), row_count, size).fits
    /\ staging' = [i \in DOMAIN specs |-> Staging(specs[i])]
    /\ row_count' = 0 /\ pk_range' = <<>> /\ ts_range' = <<>> /\ rows' = <<>> /\ misfits' = 0
    /\ UNCHANGED <<specs, block>>

MaterializeRow(r) == [i \in DOMAIN specs |->
    IF specs[i].kind \in Fixed THEN ReadFixed(specs[i].kind, block.columns[i][r])
    ELSE VarValue(block.columns[i][r], block.heap)]

AllLens == {l \in [DOMAIN specs -> UNION {MinipageLens(i) : i \in DOMAIN specs}] :
               \A i \in DOMAIN specs : l[i] \in MinipageLens(i)}

Next == \/ \E row \in [DOMAIN specs -> Values] : AppendRow(row)
        \/ \E size \in BlockSizes : \E lens \in AllLens : Finalize(size, lens) \/ FinalizeOverflows(size, lens)

Spec == Init /\ [][Next]_vars

-----------------------------------------------------------------------------
Regions == [i \in DOMAIN specs |-> block.layout.minipages[i]]
           \o <<block.layout.varheap, block.layout.null_bitmap, block.layout.tombstones>>

\* The regions of a block lie behind the directory, inside the block and
\* apart from each other, minipages on 64-byte boundaries.
RegionsApart ==
    block # <<>> =>
      /\ \A i \in DOMAIN specs : Regions[i][1] % MiniPageAlign = 0
      /\ \A i \in DOMAIN Regions :
           /\ Regions[i][1] >= HeaderSize + Len(specs) * DirectorySize
           /\ Regions[i][1] + Regions[i][2] <= block.size
           /\ i > 1 => Regions[i - 1][1] + Regions[i - 1][2] <= Regions[i][1]

\* Every row comes back as it was appended, a Null of a fixed column as zero;
\* for a builder that has refused no row.
RowsReadBack ==
    block # <<>> /\ misfits = 0 =>
      \A r \in 1..block.row_count : \A i \in DOMAIN specs :
         MaterializeRow(r)[i] = ReadBack(specs[i].kind, rows[r][i])

\* A block is never skipped for a range that holds one of its keys or
\* timestamps, Nulls aside, refused rows or not.
ZonesCover ==
    block # <<>> => \A r \in 1..Len(rows) : \A i \in DOMAIN specs : LET x == rows[r][i] IN
        Ranged(x) => /\ specs[i].pk => ZoneOverlapsPk(block.pk, x.v, x.v)
                     /\ specs[i].ts => ZoneOverlapsTs(block.ts, x.v, x.v)
                     /\ specs[i].kind \in Fixed => ZoneOverlapsTs(block.zones[i], x.v, x.v)

PaxSafe == RegionsApart /\ RowsReadBack /\ ZonesCover
=============================================================================
