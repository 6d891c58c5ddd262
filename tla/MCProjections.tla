---------------------------- MODULE MCProjections ----------------------------
(***************************************************************************)
(* The key-value store, the document format and the PAX block for TLC.  A  *)
(* behaviour is one of any of them: part says of which, the others stand   *)
(* still.                                                                  *)
(***************************************************************************)
EXTENDS KvStore

CONSTANTS v,   \* model value: a value that fits into a block
          Names, MaxDepth, MaxNesting, MaxPaxRows

VARIABLES part,
          doc, nesting,
          specs, staging, row_count, pk_range, ts_range, rows, misfits, block

doc_vars == <<doc, nesting>>
pax_vars == <<specs, staging, row_count, pk_range, ts_range, rows, misfits, block>>

L == INSTANCE PaxLayout

MCValue == {v, Huge}

MCScalars == {[kind |-> "Str", v |-> "a"], [kind |-> "I64", v |-> "1"]}

Column(kind, pk, ts) == [kind |-> kind, pk |-> pk, ts |-> ts]
MCSchemas == {<<Column("I64", TRUE, FALSE), Column("Bytes", FALSE, FALSE)>>,
              <<Column("Bytes", FALSE, FALSE), Column("Timestamp", FALSE, TRUE), Column("Bytes", FALSE, FALSE)>>}
MCPaxValues == {L!Null, L!Val("I64", 1), L!Val("Timestamp", -1), L!Val("Bytes", 2)}
MCLengths(n) == {n, 10 * n}

Doc == INSTANCE CenDoc WITH Scalars <- MCScalars
Pax == INSTANCE PaxBlock WITH Schemas <- MCSchemas, Values <- MCPaxValues, BlockSizes <- {296, 512},
                              Lengths <- MCLengths, MaxRows <- MaxPaxRows

SumInit == /\ part \in {"kv", "doc", "pax"}
           /\ Init
           /\ Doc!Init /\ (part # "doc" => doc.kind = "I64")
           /\ Pax!Init /\ (part # "pax" => Len(specs) = 2)

SumNext ==
    /\ part' = part
    /\ \/ part = "kv" /\ Next /\ UNCHANGED <<doc_vars, pax_vars>>
       \/ part = "doc" /\ Doc!Next /\ UNCHANGED <<vars, pax_vars>>
       \/ part = "pax" /\ Pax!Next /\ UNCHANGED <<vars, doc_vars>>

SumSpec == SumInit /\ [][SumNext]_<<part, vars, doc_vars, pax_vars>>

\* Documents survive their encoding, and fields and paths are found in it; the
\* regions of a PAX block lie apart, its rows come back, and its zones cover
\* its keys and timestamps.
LayoutsExact == /\ part = "doc" => Doc!DocumentSafe
                /\ part = "pax" => Pax!PaxSafe
=============================================================================
