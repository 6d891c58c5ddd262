------------------------------- MODULE CenDoc -------------------------------
(***************************************************************************)
(* The binary document format (cendb-projection/src/document.rs).  A       *)
(* document is a tagged tree; its encoding is a header and a sequence of   *)
(* cells, a cell being a tag, a number, a string or a table entry that the *)
(* code writes as a few bytes.  Offsets count cells.                       *)
(***************************************************************************)
EXTENDS Integers, Sequences, SequencesExt

CONSTANTS Names, Scalars,    \* field names; values without parts
          MaxDepth,          \* MAX_DEPTH of decode_value_at_depth
          MaxNesting         \* bound: nesting of the documents considered

VARIABLES doc, nesting       \* the document under consideration

\* DocValue: [kind, v]; v is a sequence of <<name, value>> for an Object and of
\* values for an Array.
Scalar(kind, x) == [kind |-> kind, v |-> x]
Object(fields) == [kind |-> "Object", v |-> fields]
Array(items) == [kind |-> "Array", v |-> items]

Get(d, name) == IF d.kind # "Object" \/ ~\E i \in DOMAIN d.v : d.v[i][1] = name THEN <<>>
                ELSE <<d.v[SelectInSeq(d.v, LAMBDA f : f[1] = name)][2]>>

-----------------------------------------------------------------------------
(* CenDocBuilder: the state is [out, pool] *)

\* A mutant: a string that is in the pool gets the number of the last one.
InternLast(b, s) == IF Contains(b.pool, s) THEN [b |-> b, id |-> Len(b.pool)]
                    ELSE [b |-> [b EXCEPT !.pool = Append(@, s)], id |-> Len(b.pool) + 1]

\* intern_string: the number of the string in the pool, added if it is new
Intern(b, s) == IF Contains(b.pool, s) THEN [b |-> b, id |-> SelectInSeq(b.pool, LAMBDA t : t = s)]
                ELSE [b |-> [b EXCEPT !.pool = Append(@, s)], id |-> Len(b.pool) + 1]

Cell(tag, x, y) == [tag |-> tag, x |-> x, y |-> y]
Emit(b, c) == [b EXCEPT !.out = Append(@, c)]

RECURSIVE EncodeValue(_, _), EncodeParts(_, _, _, _)

\* The table of an object or array is reserved before its parts are written
\* and filled in afterwards with the offsets they got.
EncodeParts(b, parts, table, i) ==
    IF i > Len(parts) THEN b
    ELSE LET named == IF Len(parts[i]) = 2 THEN Intern(b, parts[i][1]) ELSE [b |-> b, id |-> 0]
             off   == Len(named.b.out) + 1
             after == EncodeValue(named.b, parts[i][Len(parts[i])])
         IN  EncodeParts([after EXCEPT !.out[table + i] = Cell("entry", named.id, off)], parts, table, i + 1)

EncodeValue(b, d) ==
    CASE d.kind = "Str" -> LET s == Intern(b, d.v) IN Emit(Emit(s.b, Cell("kind", "Str", 0)), Cell("num", s.id, 0))
      [] d.kind \in {"Object", "Array"} ->
           LET parts == IF d.kind = "Object" THEN d.v ELSE [i \in DOMAIN d.v |-> <<d.v[i]>>]
               head  == Emit(Emit(b, Cell("kind", d.kind, 0)), Cell("num", Len(parts), 0))
               room  == [head EXCEPT !.out = @ \o [i \in DOMAIN parts |-> Cell("entry", 0, 0)]]
           IN  EncodeParts(room, parts, Len(head.out), 1)
      [] OTHER -> Emit(Emit(b, Cell("kind", d.kind, 0)), Cell("num", d.v, 0))

Encode(d) == LET b == EncodeValue([out |-> <<>>, pool |-> <<>>], d)
             IN  [root_kind |-> d.kind, root_off |-> 1, cells |-> b.out, pool |-> b.pool,
                  field_count |-> IF d.kind \in {"Object", "Array"} THEN Len(d.v) ELSE 0]

-----------------------------------------------------------------------------
(* CenDoc: reading; Err stands for every error *)

Err == [kind |-> "Err", v |-> 0]

RECURSIVE DecodeValueAt(_, _, _)
DecodeValueAt(e, off, depth) ==
    IF depth > MaxDepth \/ off \notin DOMAIN e.cells THEN Err
    ELSE LET kind == e.cells[off].x
             n    == e.cells[off + 1].x
             Entry(i) == e.cells[off + 1 + i]
             Part(i) == DecodeValueAt(e, Entry(i).y, depth + 1)
         IN  CASE kind = "Str" -> IF n \in DOMAIN e.pool THEN Scalar("Str", e.pool[n]) ELSE Err
               [] kind \in {"Object", "Array"} ->
                    IF \E i \in 1..n : Part(i).kind = "Err" THEN Err
                    ELSE IF kind = "Object" THEN Object([i \in 1..n |-> <<e.pool[Entry(i).x], Part(i)>>])
                    ELSE Array([i \in 1..n |-> Part(i)])
               [] OTHER -> Scalar(kind, n)

DecodeRoot(e) == DecodeValueAt(e, e.root_off, 0)

\* get_field walks the root's table and decodes only the field it finds;
\* the result is <<>> for None, <<value>> otherwise
GetField(e, name) ==
    LET table == SubSeq(e.cells, e.root_off + 2, e.root_off + 1 + e.field_count)
        i == SelectInSeq(table, LAMBDA t : e.pool[t.x] = name)
    IN  IF e.root_kind # "Object" \/ i = 0 THEN <<>> ELSE <<DecodeValueAt(e, table[i].y, 0)>>

GetPath(e, path) ==
    FoldLeft(LAMBDA found, name : IF found = <<>> THEN <<>> ELSE Get(found[1], name), <<DecodeRoot(e)>>, path)

-----------------------------------------------------------------------------
\* Documents are built from the inside out.
Init == doc \in Scalars /\ nesting = 0

Wrap == /\ nesting < MaxNesting /\ nesting' = nesting + 1
        /\ \/ doc' = Array(<<>>) \/ doc' = Array(<<doc>>)
           \/ \E s \in Scalars : doc' = Array(<<s, doc, s>>)
           \/ \E n \in Names : doc' = Object(<<<<n, doc>>>>)
           \/ \E n, m \in Names, s \in Scalars :
                \/ doc' = Object(<<<<n, doc>>, <<m, s>>>>)
                \/ doc' = Object(<<<<n, s>>, <<m, doc>>>>)

Next == Wrap
Spec == Init /\ [][Next]_<<doc, nesting>>

-----------------------------------------------------------------------------
\* Decoding inverts encoding, with names and strings shared in the pool,
\* fields repeated and containers empty, down to the nesting limit.
RoundTrip == nesting <= MaxDepth => DecodeRoot(Encode(doc)) = doc

\* Reading one field without decoding the rest finds what a lookup in the
\* document finds: the first of several fields of that name.  It counts the
\* nesting from the field, so it also reads what decode_root refuses.
FieldsFound == nesting <= MaxDepth + 1 => \A n \in Names : GetField(Encode(doc), n) = Get(doc, n)

\* A path leads to the same place in the encoding and in the document.
PathsFound == nesting <= MaxDepth => \A n, m \in Names :
    GetPath(Encode(doc), <<n, m>>) = IF Get(doc, n) = <<>> THEN <<>> ELSE Get(Get(doc, n)[1], m)

DocumentSafe == RoundTrip /\ FieldsFound /\ PathsFound
=============================================================================
