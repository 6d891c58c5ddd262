------------------------------- MODULE Codec --------------------------------
(***************************************************************************)
(* The minipage encodings (cendb-storage/src/encoding.rs and simd_bits.rs) *)
(* over words of W bits and bytes of B bits; in the code W is 64, B is 8.  *)
(* An encoding is a sequence of bytes; counts and bit widths, which the    *)
(* code writes as integers, take one place each.  The discriminant before  *)
(* the bytes is stripped and put back by the minipage functions.           *)
(***************************************************************************)
EXTENDS Integers, Sequences, FiniteSets, SequencesExt, FiniteSetsExt, Bitwise

CONSTANTS W, B,                  \* bits of a word and of a byte
          FieldBits,             \* bits of Gorilla's leading-zeros field: 5
          SmallBits, WideBits,   \* 16 and 32 in auto_select_encoding_i64
          DictMax, DictShare,    \* 4095, the most that 12 bits count, and one in 100
          MostlyPercent,         \* 80
          Sample, MaxVals        \* bounds: words considered, length of a column

VARIABLE vals     \* the column being encoded

Err == <<2^W>>     \* no column: its element is not a word

Unsigned(v) == v % 2^W
Signed(u) == IF u >= 2^(W - 1) THEN u - 2^W ELSE u
Wrap(v) == Signed(Unsigned(v))

Low(v) == Min(ToSet(v))
High(v) == Max(ToSet(v))

LeBytes(v) == [i \in 1..(W \div B) |-> (Unsigned(v) \div 2^(B * (i - 1))) % 2^B]
FromLe(bs) == Signed(FoldLeftDomain(LAMBDA n, i : n + bs[i] * 2^(B * (i - 1)), 0, bs))
Word(bs, k) == FromLe(SubSeq(bs, k, k + (W \div B) - 1))     \* the word at position k

RequiredBits(u) == IF u = 0 THEN 1 ELSE CHOOSE n \in 1..W : 2^(n - 1) <= u /\ u < 2^n

-----------------------------------------------------------------------------
(* Raw, BitPacked, FrameOfReference *)

EncodeRaw(v) == FlattenSeq([i \in DOMAIN v |-> LeBytes(v[i])])
DecodeRaw(bs, count) == IF Len(bs) < count * (W \div B) THEN Err
                        ELSE [i \in 1..count |-> Word(bs, (i - 1) * (W \div B) + 1)]

\* Values are collected in one word, low bits first, and leave it in bytes.
RECURSIVE Drain(_), Refill(_, _, _)
Drain(s) == IF s.n < B THEN s
            ELSE Drain([buf |-> s.buf \div 2^B, n |-> s.n - B, out |-> Append(s.out, s.buf % 2^B)])

\* A shift by the width of the word is a shift by nothing.
Masked(u, bits) == IF bits = W THEN u % 2 ELSE u % 2^bits

Pack(us, bits) ==
    LET end == FoldLeft(LAMBDA s, u : Drain([s EXCEPT !.buf = (@ + Masked(u, bits) * 2^s.n) % 2^W, !.n = @ + bits]),
                        [buf |-> 0, n |-> 0, out |-> <<>>], us)
    IN  IF end.n > 0 THEN Append(end.out, end.buf % 2^B) ELSE end.out

\* The word takes no byte once W - B bits are in it.
Refill(s, bs, bits) ==
    IF s.n < bits /\ s.at <= Len(bs) /\ s.n < W - B
    THEN Refill([s EXCEPT !.buf = (@ + bs[s.at] * 2^s.n) % 2^W, !.n = @ + B, !.at = @ + 1], bs, bits)
    ELSE s

Unpack(bs, count, bits) ==
    LET Step(s, i) == LET r == Refill(s, bs, bits)
                      IN  [r EXCEPT !.out = Append(@, r.buf % 2^bits), !.buf = @ \div 2^bits, !.n = Max({0, @ - bits})]
    IN  FoldLeft(Step, [buf |-> 0, n |-> 0, at |-> 1, out |-> <<>>], [i \in 1..count |-> i]).out

EncodeBitPacked(v) ==
    IF \E i \in DOMAIN v : v[i] < 0 THEN Err
    ELSE LET bits == RequiredBits(IF v = <<>> THEN 0 ELSE High(v)) IN <<bits>> \o Pack(v, bits)
DecodeBitPacked(bs, count) ==
    LET us == Unpack(Tail(bs), count, bs[1]) IN [i \in 1..count |-> Signed(us[i])]

EncodeFoR(v) ==
    IF v = <<>> THEN <<>>
    ELSE LET base == Low(v)
             bits == RequiredBits(High(v) - base)
         IN  LeBytes(base) \o <<bits>> \o Pack([i \in DOMAIN v |-> Unsigned(v[i] - base)], bits)
DecodeFoR(bs, count) ==
    IF Len(bs) < W \div B + 1 THEN Err
    ELSE LET us == Unpack(SubSeq(bs, W \div B + 2, Len(bs)), count, bs[W \div B + 1])
         IN  [i \in 1..count |-> Wrap(Word(bs, 1) + us[i])]

-----------------------------------------------------------------------------
(* DeltaOfDelta and RunLength *)

\* (dod << 1) ^ (dod >> 63), and its inverse
ZigZag(dod) == IF dod >= 0 THEN 2 * dod ELSE -2 * dod - 1
UnZigZag(zz) == IF zz % 2 = 0 THEN zz \div 2 ELSE -(zz \div 2) - 1

\* Bytes of B - 1 bits each, the top bit of all but the last one set
RECURSIVE Varint(_)
Varint(u) == IF u < 2^(B - 1) THEN <<u>> ELSE <<(u % 2^(B - 1)) + 2^(B - 1)>> \o Varint(u \div 2^(B - 1))

\* [v, used] of the varint at position k; used is 0 if it does not end in time
ReadVarint(bs, k) ==
    LET ends == {e \in k..Len(bs) : bs[e] < 2^(B - 1)}
        last == Min(ends)
    IN  IF ends = {} \/ (last - k) * (B - 1) >= W THEN [v |-> 0, used |-> 0]
        ELSE [v |-> Unsigned(FoldLeftDomain(LAMBDA n, i : n + (bs[k + i - 1] % 2^(B - 1)) * 2^((B - 1) * (i - 1)),
                                            0, SubSeq(bs, k, last))),
              used |-> last - k + 1]

EncodeDeltaOfDelta(v) ==
    LET delta(i) == Wrap(v[i] - v[i - 1])
    IN  IF v = <<>> THEN <<>>
        ELSE IF Len(v) = 1 THEN LeBytes(v[1])
        ELSE LeBytes(v[1]) \o LeBytes(delta(2))
             \o FlattenSeq([j \in 1..(Len(v) - 2) |-> Varint(ZigZag(Wrap(delta(j + 2) - delta(j + 1))))])

\* A mutant: the delta of the first two values is added to all differences.
DodStepStale(s, bs) ==
    LET zz == ReadVarint(bs, s.at)
    IN  [s EXCEPT !.out = Append(@, Wrap(Last(@) + Wrap(s.delta + UnZigZag(zz.v)))), !.at = @ + zz.used]
DodStep(s, bs) ==
    LET zz    == ReadVarint(bs, s.at)
        delta == Wrap(s.delta + UnZigZag(zz.v))
    IN  [out |-> Append(s.out, Wrap(Last(s.out) + delta)), at |-> s.at + zz.used, delta |-> delta]

DecodeDeltaOfDelta(bs, count) ==
    LET word == W \div B IN
    CASE count = 0 -> <<>>
      [] count = 1 /\ Len(bs) >= word -> <<Word(bs, 1)>>
      [] count > 1 /\ Len(bs) >= 2 * word ->
           FoldLeft(LAMBDA s, i : DodStep(s, bs),
                    [out |-> <<Word(bs, 1), Wrap(Word(bs, 1) + Word(bs, word + 1))>>, at |-> 2 * word + 1,
                     delta |-> Word(bs, word + 1)], [i \in 1..(count - 2) |-> i]).out
      [] OTHER -> Err

\* Where runs end
RunEnds(v) == SetToSortSeq({i \in DOMAIN v : i = Len(v) \/ v[i] # v[i + 1]}, <)
EncodeRunLength(v) ==
    LET ends == RunEnds(v)
    IN  FlattenSeq([r \in DOMAIN ends |-> <<ends[r] - (IF r = 1 THEN 0 ELSE ends[r - 1])>> \o LeBytes(v[ends[r]])])
DecodeRunLength(bs, count) ==
    LET size == 1 + W \div B
        runs == FlattenSeq([r \in 1..(Len(bs) \div size) |->
                              [i \in 1..bs[(r - 1) * size + 1] |-> Word(bs, (r - 1) * size + 2)]])
    IN  SubSeq(runs, 1, Min({count, Len(runs)}))

-----------------------------------------------------------------------------
(* BitWriter and BitReader: bits from the top; the last word is filled up *)

Bits(u, count) == [i \in 1..count |-> (u \div 2^(count - i)) % 2]
Number(bits) == FoldLeft(LAMBDA n, b : 2 * n + b, 0, bits)

IntoBytes(bits) ==
    LET full == bits \o [i \in 1..((W - (Len(bits) % W)) % W) |-> 0]
    IN  [k \in 1..(Len(full) \div B) |-> Number(SubSeq(full, (k - 1) * B + 1, k * B))]
BitsOf(bs) == FlattenSeq([k \in DOMAIN bs |-> Bits(bs[k], B)])

-----------------------------------------------------------------------------
(* Dictionary: the sorted distinct values and the number of each row's value *)

\* Codes of 1, 2, 4 or 8 whole bytes are written low byte first.
Aligned(bits) == bits % B = 0 /\ bits \div B \in {1, 2, 4, 8}

EncodeDictionary(v) ==
    LET dict  == SetToSortSeq(ToSet(v), <)
        bits  == RequiredBits(Len(dict))
        codes == [i \in DOMAIN v |-> (CHOOSE c \in DOMAIN dict : dict[c] = v[i]) - 1]
    IN  IF v = <<>> THEN <<0, 0>>
        ELSE <<Len(dict)>> \o FlattenSeq([c \in DOMAIN dict |-> LeBytes(dict[c])]) \o <<bits>>
             \o IF Aligned(bits)
                THEN FlattenSeq([i \in DOMAIN codes |-> SubSeq(LeBytes(codes[i]), 1, bits \div B)])
                ELSE IntoBytes(FlattenSeq([i \in DOMAIN codes |-> Bits(codes[i], bits)]))

DecodeDictionary(bs, count) ==
    LET word   == W \div B
        dict   == [c \in 1..bs[1] |-> Word(bs, (c - 1) * word + 2)]
        bits   == bs[2 + bs[1] * word]
        packed == SubSeq(bs, 3 + bs[1] * word, Len(bs))
        code(i) == IF Aligned(bits)
                   THEN FoldLeftDomain(LAMBDA n, k : n + packed[(i - 1) * (bits \div B) + k] * 2^(B * (k - 1)), 0,
                                       [k \in 1..(bits \div B) |-> 0])
                   ELSE Number(SubSeq(BitsOf(packed), (i - 1) * bits + 1, i * bits))
    IN  IF bits # 0 /\ \E i \in 1..count : i * bits > Len(packed) * B \/ code(i) >= bs[1] THEN Err
        ELSE [i \in 1..count |-> dict[IF bits = 0 THEN 1 ELSE code(i) + 1]]

-----------------------------------------------------------------------------
(* Gorilla: the difference to the value before, without its outer zeros *)

Leading(x) == W - RequiredBits(x)                                \* of x # 0
Trailing(x) == Max({t \in 0..(W - 1) : x % 2^t = 0})
NoBlock == 2^W                                                   \* more than any count of zeros
Clamp == 2^FieldBits - 1                                         \* 31
Log2W == RequiredBits(W) - 1

GorillaStep(s, v) ==
    LET x == s.prev ^^ Unsigned(v)
        lead == Leading(x)   trail == Trailing(x)   mean == W - lead - trail
        code == IF x = 0 THEN <<0>>
                ELSE IF lead >= s.lead /\ trail >= s.trail
                THEN <<1, 0>> \o Bits(x \div 2^s.trail, W - s.lead - s.trail)
                ELSE <<1, 1>> \o Bits(IF lead > Clamp THEN Clamp ELSE lead, FieldBits)
                     \o Bits(mean, Log2W) \o Bits(x \div 2^trail, mean)
        reuse == x = 0 \/ (lead >= s.lead /\ trail >= s.trail)
    IN  [prev |-> Unsigned(v), out |-> s.out \o code,
         lead |-> IF reuse THEN s.lead ELSE lead, trail |-> IF reuse THEN s.trail ELSE trail]

GorillaEncode(v) ==
    IF v = <<>> THEN <<>>
    ELSE IntoBytes(FoldLeft(GorillaStep, [prev |-> Unsigned(v[1]), out |-> Bits(Unsigned(v[1]), W),
                                          lead |-> NoBlock, trail |-> 0], Tail(v)).out)

\* One value read from the bits at s.at
GorillaRead(s, bits) ==
    LET Field(at, n) == Number(SubSeq(bits, at, at + n - 1))
        raw   == Field(s.at + 2, FieldBits)
        flag  == Field(s.at + 2 + FieldBits, Log2W)
        new   == bits[s.at + 1] = 1
        lead  == IF ~new THEN s.lead ELSE IF raw = Clamp THEN Clamp + 1 ELSE raw
        mean  == IF ~new THEN W - s.lead - s.trail ELSE IF flag = 0 THEN W - 2 * lead ELSE flag
        trail == IF ~new THEN s.trail ELSE W - lead - mean     \* below zero: a huge number
        body  == s.at + 2 + IF new THEN FieldBits + Log2W ELSE 0
        x     == IF trail < 0 THEN 0 ELSE (Field(body, mean) * 2^trail) % 2^W
    IN  CASE bits[s.at] = 0 -> [s EXCEPT !.out = Append(@, Signed(s.prev)), !.at = @ + 1]
          [] bits[s.at] = 1 /\ mean <= 0 ->
               [s EXCEPT !.out = Append(@, Signed(s.prev)), !.at = body, !.lead = lead, !.trail = trail]
          [] OTHER -> [prev |-> s.prev ^^ x, out |-> Append(s.out, Signed(s.prev ^^ x)), at |-> body + mean,
                       lead |-> lead, trail |-> trail]

GorillaDecode(bs, count) ==
    LET bits == BitsOf(bs)
        first == Number(SubSeq(bits, 1, W))
    IN  IF count = 0 THEN <<>>
        ELSE FoldLeft(LAMBDA s, i : GorillaRead(s, bits),
                      [prev |-> first, out |-> <<Signed(first)>>, at |-> W + 1, lead |-> NoBlock, trail |-> 0],
                      [i \in 1..(count - 1) |-> i]).out

-----------------------------------------------------------------------------
(* Choosing a codec *)

\* The tag, with the low four bits of the bit width in the upper half
Tags == <<"Raw", "BitPacked", "FrameOfReference", "DeltaOfDelta", "Gorilla", "Chimp128", "Dictionary", "RunLength", "Fsst">>
Discriminant(enc, bits) == (SelectInSeq(Tags, LAMBDA t : t = enc) - 1)
                           + 16 * IF enc \in {"BitPacked", "FrameOfReference"} THEN bits % 16 ELSE 0
FromDiscriminant(b) == IF b % 16 < Len(Tags) THEN Tags[(b % 16) + 1] ELSE "Raw"

\* codec_for: Gorilla, Chimp128 and Fsst are written as Raw
EncodeMinipage(enc, v) ==
    CASE enc = "BitPacked" -> EncodeBitPacked(v)       [] enc = "FrameOfReference" -> EncodeFoR(v)
      [] enc = "DeltaOfDelta" -> EncodeDeltaOfDelta(v) [] enc = "RunLength" -> EncodeRunLength(v)
      [] enc = "Dictionary" -> EncodeDictionary(v)     [] OTHER -> EncodeRaw(v)
DecodeMinipage(enc, bs, count) ==
    CASE enc = "BitPacked" -> DecodeBitPacked(bs, count)       [] enc = "FrameOfReference" -> DecodeFoR(bs, count)
      [] enc = "DeltaOfDelta" -> DecodeDeltaOfDelta(bs, count) [] enc = "RunLength" -> DecodeRunLength(bs, count)
      [] enc = "Dictionary" -> DecodeDictionary(bs, count)     [] OTHER -> DecodeRaw(bs, count)

\* auto_select_encoding_i64, for columns too short to be sampled
AutoSelect(v) ==
    LET pairs == 2..Len(v)
        up    == Cardinality({i \in pairs : v[i] >= v[i - 1]})
        down  == Cardinality({i \in pairs : v[i] <= v[i - 1]})
        range == High(v) - Low(v)
        delta(i) == Wrap(v[i] - v[i - 1])
        distinct == Cardinality(ToSet(v))
        mostly == /\ 100 * Max({up, down}) >= MostlyPercent * (Len(v) - 1)
                  /\ v[Len(v)] # v[1] /\ range >= 2^SmallBits
        monotonic == Len(v) - 1 \in {up, down}
    IN  CASE Len(v) < 2 -> "Raw"
          [] Len(v) >= 2 /\ distinct <= DictMax /\ distinct * DictShare <= Len(v) -> "Dictionary"
          [] OTHER ->
             IF (monotonic \/ mostly) /\ ((\A i \in pairs : delta(i) = delta(2)) \/ delta(2) # 0) THEN "DeltaOfDelta"
             ELSE IF Low(v) >= 0 /\ RequiredBits(High(v)) <= SmallBits THEN "BitPacked"
             ELSE IF range > 0 /\ range < 2^WideBits THEN "FrameOfReference"
             ELSE "Raw"

-----------------------------------------------------------------------------
(* pack_simd and unpack_simd: words of any width, each low bit first, from *)
(* the top of a byte; aligned widths are written in bytes, low byte first  *)

PackSimd(us, bits) ==
    IF bits = 0 THEN <<>>
    ELSE IF Aligned(bits) THEN FlattenSeq([i \in DOMAIN us |-> SubSeq(LeBytes(us[i]), 1, bits \div B)])
    ELSE LET bs == FlattenSeq([i \in DOMAIN us |-> Reverse(Bits(us[i] % 2^bits, bits))])
             full == bs \o [i \in 1..((B - (Len(bs) % B)) % B) |-> 0]
         IN  [k \in 1..(Len(full) \div B) |-> Number(SubSeq(full, (k - 1) * B + 1, k * B))]

UnpackSimd(bs, count, bits) ==
    IF bits = 0 THEN [i \in 1..count |-> 0]
    ELSE IF Aligned(bits)
    THEN [i \in 1..count |-> FoldLeftDomain(LAMBDA n, k : n + bs[(i - 1) * (bits \div B) + k] * 2^(B * (k - 1)), 0,
                                            [k \in 1..(bits \div B) |-> 0])]
    ELSE [i \in 1..count |-> Number(Reverse(SubSeq(BitsOf(bs), (i - 1) * bits + 1, i * bits)))]

-----------------------------------------------------------------------------
\* Columns grow value by value.
Init == vals = <<>>
Next == Len(vals) < MaxVals /\ \E v \in Sample : vals' = Append(vals, v)
Spec == Init /\ [][Next]_vals

ComesBack(enc) == LET bs == EncodeMinipage(enc, vals) IN
    \A n \in 0..Len(vals) : DecodeMinipage(enc, bs, n) = SubSeq(vals, 1, n)

\* The encoding that is chosen for a column gives it back, and so do its first
\* rows alone: through the wrapping of deltas, the codes of a dictionary with
\* any number of values, and the discriminant the block keeps of the encoding.
ChosenComesBack ==
    /\ ComesBack(AutoSelect(vals))
    /\ \A bits \in 0..W : FromDiscriminant(Discriminant(AutoSelect(vals), bits)) = AutoSelect(vals)

\* Asked for explicitly, DeltaOfDelta, RunLength and Dictionary give back any
\* column; BitPacked refuses negative values, and it and FrameOfReference lose
\* values only if they need more bits than the word takes in: W - B.
AnyComesBack ==
    /\ \A enc \in {"DeltaOfDelta", "RunLength", "Dictionary", "Raw"} : vals # <<>> => ComesBack(enc)
    /\ vals # <<>> /\ Low(vals) >= 0 /\ RequiredBits(High(vals)) <= W - B => ComesBack("BitPacked")
    /\ vals # <<>> /\ RequiredBits(High(vals) - Low(vals)) <= W - B => ComesBack("FrameOfReference")

\* Gorilla gives floats back unless two neighbours share their upper half but
\* for its last bit, or more than it: then the field of leading zeros, at its
\* limit, is read back as another number.
GorillaComesBack ==
    (\A i \in 2..Len(vals) : LET x == Unsigned(vals[i]) ^^ Unsigned(vals[i - 1]) IN
        x = 0 \/ Leading(x) < Clamp \/ Leading(x) = Clamp + 1)
    => GorillaDecode(GorillaEncode(vals), Len(vals)) = vals

\* Words of any width survive pack_simd.
SimdComesBack == \A bits \in 0..W : LET us == [i \in DOMAIN vals |-> Unsigned(vals[i]) % 2^bits] IN
                    UnpackSimd(PackSimd(us, bits), Len(us), bits) = us

CodecsExact == ChosenComesBack /\ AnyComesBack /\ GorillaComesBack /\ SimdComesBack
=============================================================================
