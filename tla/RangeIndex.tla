------------------------------ MODULE RangeIndex ------------------------------
(*****************************************************************************)
(* The algorithms behind range-indexed fields: the order-preserving          *)
(* encoding of numbers into unsigned words (mc-range-encoding.c), the edges  *)
(* of a value (mc-range-edge-generation.c), the minimal cover of a query     *)
(* (mc-range-mincover*.{c,h}) and the options that configure them            *)
(* (mc-rangeopts.c).                                                         *)
(*                                                                           *)
(* Word widths, the radix and the default trim factor are parameters, so     *)
(* that every word and every bound of a small machine can be enumerated.     *)
(* An int32, int64 or date is a record [t, n]; a double [t, n] counts units  *)
(* of Ten^-UnitDigits, its magnitude bit pattern being the number of units;  *)
(* a Decimal128 [t, neg, c, e] is c * Ten^e units.  [t, inf] is an infinity. *)
(* An optional value is a sequence of length 0 or 1.                         *)
(*****************************************************************************)
EXTENDS Integers, Sequences, SequencesExt

CONSTANTS
    Bits32, Bits64, Bits128,  \* widths of the three unsigned words
    Ten,                      \* the radix of precision and of Decimal128
    UnitDigits,               \* digits a double keeps after the point
    MantissaBits,             \* 53 in the code
    DecDigits, DecExpMax,     \* digits and largest biased exponent of a decimal
    Int128MaxDec,             \* INT_128_MAX_AS_DECIMAL, rounded to DecDigits
    ExpLimit,                 \* UINT8_MAX, the largest exponent dec128_to_uint128 takes
    SparsityDefault, TrimFactorDefault

ASSUME RangeAssumption ==
    /\ {Bits32, Bits64, Bits128, MantissaBits, DecDigits} \subseteq Nat \ {0}
    /\ {UnitDigits, DecExpMax, Int128MaxDec, ExpLimit, TrimFactorDefault} \subseteq Nat
    /\ Ten \in Nat \ {0, 1} /\ SparsityDefault \in Nat \ {0}

IsSet(o) == o # <<>>
The(o) == o[1]

Fails == [ok |-> FALSE, abort |-> FALSE]
Aborts == [ok |-> FALSE, abort |-> TRUE]
IsInfinite(v) == "inf" \in DOMAIN v

\* The number a value stands for, in units (integers count themselves).
Num(v) ==
    IF v.t = "decimal"
    THEN (IF v.neg THEN -1 ELSE 1) * v.c * Ten^v.e
    ELSE v.n

Trunc(a, b) == IF a >= 0 THEN a \div b ELSE -((-a) \div b)
Scaled(n, p) == Trunc(n * Ten^p, Ten^UnitDigits)
IsIntegral(n, p) == (n * Ten^p) % Ten^UnitDigits = 0

\* The number of bits of a word without its leading zeros.
BitLen(x) == Cardinality({k \in 0..(Bits128 - 1) : 2^k <= x})
FloorLogTen(x) == CHOOSE k \in 0..x : Ten^k <= x /\ Ten^(k + 1) > x

-----------------------------------------------------------------------------
(* Encoding: a value becomes [value, max], an offset into a domain whose     *)
(* minimum is always 0.                                                     *)

encodeInt(bits, n) == (n + 2^(bits - 1)) % 2^bits

getTypeInfoInt(bits, v, min, max) ==
    IF IsSet(min) # IsSet(max) THEN Fails
    ELSE IF ~IsSet(min)
         THEN [ok |-> TRUE, value |-> encodeInt(bits, v), max |-> 2^bits - 1]
    ELSE IF The(min) >= The(max) \/ v < The(min) \/ v > The(max) THEN Fails
    ELSE [ok    |-> TRUE,
          value |-> encodeInt(bits, v) - encodeInt(bits, The(min)),
          max   |-> encodeInt(bits, The(max)) - encodeInt(bits, The(min))]

getTypeInfo32(v, min, max) == getTypeInfoInt(Bits32, v, min, max)
getTypeInfo64(v, min, max) == getTypeInfoInt(Bits64, v, min, max)

\* Variant: rounds down.
FloorLog2(x) == BitLen(x) - 1

ceil_log2(x) == IF x = 2^(BitLen(x) - 1) THEN BitLen(x) - 1 ELSE BitLen(x)

\* The number of bits of the domain, or unset when it cannot be used.
canUsePrecisionModeDouble(min, max, p) ==
    LET smax == Scaled(max, p)
        smin == Scaled(min, p)
        bits == ceil_log2(smax - smin + Ten^p)
    IN IF /\ min < max /\ IsIntegral(max, p) /\ IsIntegral(min, p)
          /\ smax < 2^MantissaBits /\ -smax < 2^MantissaBits
          /\ smin < 2^MantissaBits /\ -smin < 2^MantissaBits
          /\ 2^Bits64 - 1 - (smax - smin) > 0
          /\ p <= FloorLogTen(2^Bits64 - 1 - (smax - smin)) - 1
          /\ Ten^p <= 2^Bits64 - 1 - (smax - smin)
          /\ bits < MantissaBits
       THEN <<bits>> ELSE <<>>

getTypeInfoDouble(v, min, max, precision) ==
    IF IsSet(min) # IsSet(max) \/ IsSet(min) # IsSet(precision) \/ IsInfinite(v)
    THEN Fails
    ELSE IF IsSet(min)
    THEN IF \/ Num(The(min)) >= Num(The(max))
            \/ Num(v) > Num(The(max)) \/ Num(v) < Num(The(min))
            \/ The(precision) < 0
         THEN Fails
         ELSE LET p == The(precision)
                  bits == canUsePrecisionModeDouble(Num(The(min)), Num(The(max)), p)
                  ret == Scaled(v.n, p) - Scaled(Num(The(min)), p)
              IN IF ~IsSet(bits) THEN Fails
                 ELSE IF ret < 0 \/ ret > 2^The(bits) - 1 THEN Aborts
                 ELSE [ok |-> TRUE, value |-> ret, max |-> 2^The(bits) - 1]
    ELSE LET half == 2^(Bits64 - 1)
         \* negating the value flips its sign bit; -0 was mapped to 0 before
         IN [ok |-> TRUE, max |-> 2^Bits64 - 1,
             value |-> IF v.n < 0 THEN half - (-v.n) ELSE half + v.n]

Abs(x) == IF x < 0 THEN -x ELSE x

\* The assertions of dec128_to_int128 and dec128_to_uint128 on an integral n, and
\* on the exponent of a bound once it is scaled, which a zero can have any of.
Int128Asserts(n) == n >= Int128MaxDec
ExponentAsserts(bound, p) == Abs(bound.e - UnitDigits + p) > ExpLimit

\* "min" and "max" are decimals.  What is exactly INT_128_MAX_AS_DECIMAL passes the
\* check but not the assertion.
canUsePrecisionModeDecimal(min, max, p) ==
    LET smax == Scaled(Num(max), p)
        smin == Scaled(Num(min), p)
        room == 2^Bits128 - 1 - (smax - smin)
        bits == ceil_log2(smax - smin + Ten^p)
    IN IF \/ Num(min) >= Num(max) \/ ~IsIntegral(Num(max), p) \/ ~IsIntegral(Num(min), p)
          \/ Abs(smax) > Int128MaxDec \/ Abs(smin) > Int128MaxDec
          \/ room <= 0 \/ p > FloorLogTen(room) - 1
       THEN Fails
       ELSE IF \/ Int128Asserts(smax) \/ ExponentAsserts(max, p)
               \/ Int128Asserts(smin) \/ ExponentAsserts(min, p)
       THEN Aborts
       ELSE IF bits >= Bits128 THEN Fails
       ELSE [ok |-> TRUE, bits |-> bits]

\* rho: how often the coefficient is multiplied by ten to normalise it.
CMax == Ten^DecDigits - 1
Rho(c) == CHOOSE k \in 0..DecDigits :
             /\ c * Ten^k >= CMax \div Ten
             /\ \A j \in 0..(k - 1) : c * Ten^j < CMax \div Ten

encodeDecimal(v) ==
    LET rho == Rho(v.c)
        magnitude == IF rho <= v.e
                     THEN v.c * Ten^rho + CMax * (v.e - rho)
                     ELSE Ten^v.e * v.c
        half == 2^(Bits128 - 1)
    IN IF v.c = 0 THEN half
       ELSE IF v.neg THEN (2^Bits128 - (half + magnitude)) % 2^Bits128
       ELSE (half + magnitude) % 2^Bits128

getTypeInfoDecimal128(v, min, max, precision) ==
    IF IsSet(min) # IsSet(max) \/ IsSet(min) # IsSet(precision) \/ IsInfinite(v)
    THEN Fails
    ELSE IF ~IsSet(min)
    THEN IF v.c # 0 /\ v.c * Ten^Rho(v.c) > CMax THEN Aborts
         ELSE [ok |-> TRUE, value |-> encodeDecimal(v), max |-> 2^Bits128 - 1]
    ELSE IF \/ The(precision) < 0
            \/ IsInfinite(The(min)) \/ IsInfinite(The(max))
            \/ Num(The(min)) >= Num(The(max))
            \/ Num(v) > Num(The(max)) \/ Num(v) < Num(The(min))
    THEN Fails
    ELSE LET p == The(precision)
             can == canUsePrecisionModeDecimal(The(min), The(max), p)
             v_prime2 == Scaled(Num(v), p) - Scaled(Num(The(min)), p)
         IN IF ~can.ok THEN can
            ELSE IF v_prime2 >= 2^Bits128 \/ v_prime2 < 0 THEN Aborts
            ELSE IF can.bits >= Bits64 /\ Int128Asserts(v_prime2) THEN Aborts
            ELSE [ok |-> TRUE, value |-> v_prime2, max |-> 2^can.bits - 1]

\* The dispatch on the BSON type that every caller of the encoders repeats.
getTypeInfo(v, min, max, precision) ==
    LET n(o) == IF IsSet(o) THEN <<The(o).n>> ELSE <<>>
    IN CASE v.t = "int32"            -> getTypeInfo32(v.n, n(min), n(max))
         [] v.t \in {"int64", "date"} -> getTypeInfo64(v.n, n(min), n(max))
         [] v.t = "double"           -> getTypeInfoDouble(v, min, max, precision)
         [] v.t = "decimal"          -> getTypeInfoDecimal128(v, min, max, precision)

-----------------------------------------------------------------------------
(* Edges and minimal cover.  An edge is the bit string of a tree node, the   *)
(* root the empty one.                                                      *)

trimFactorDefault(maxlen, trimFactor) ==
    IF IsSet(trimFactor) THEN The(trimFactor)
    ELSE IF TrimFactorDefault > maxlen - 1 THEN maxlen - 1 ELSE TrimFactorDefault

TrimFactorOK(trim, maxlen) == ~(trim # 0 /\ trim >= maxlen) /\ trim >= 0

\* The len low bits of x, most significant first (mc_convert_to_bitstring).
Bitstring(x, len) == [i \in 1..len |-> (x \div 2^(len - i)) % 2]

mc_edges_new(leaf, sparsity, opt_trim) ==
    LET trim == trimFactorDefault(Len(leaf), opt_trim)
        start == IF trim > 0 THEN trim ELSE 1
        inner(i) == IF i % sparsity = 0 THEN <<SubSeq(leaf, 1, i)>> ELSE <<>>
    IN IF sparsity < 1 \/ ~TrimFactorOK(trim, Len(leaf)) THEN Fails
       ELSE [ok |-> TRUE, leaf |-> leaf, usedTrimFactor |-> trim,
             edges |-> (IF trim = 0 THEN << <<>> >> ELSE <<>>) \o <<leaf>>
                       \o FlattenSeq([n \in 1..(Len(leaf) - start) |-> inner(start + n - 1)])]

getEdgesOf(got, sparsity, trimFactor) ==
    IF ~got.ok THEN got
    ELSE mc_edges_new(Bitstring(got.value, BitLen(got.max)), sparsity, trimFactor)

mc_getEdges(v, min, max, precision, sparsity, trimFactor) ==
    getEdgesOf(getTypeInfo(v, min, max, precision), sparsity, trimFactor)

mc_edges_is_leaf(edges, edge) == edge = edges.leaf

\* Variant: forgets that levels above the trim factor are not stored.
LevelIsMultiple(mcg, maskedBits) ==
    maskedBits = 0 \/ (mcg.maxlen - maskedBits) % mcg.sparsity = 0

isLevelStored(mcg, maskedBits) ==
    LET level == mcg.maxlen - maskedBits
    IN maskedBits = 0 \/ (level >= mcg.trimFactor /\ level % mcg.sparsity = 0)

\* applyMask: the maskedBits low bits replaced by ones.
applyMask(value, maskedBits) == value - (value % 2^maskedBits) + 2^maskedBits - 1

toString(mcg, start, maskedBits) ==
    Bitstring(start \div 2^maskedBits, mcg.maxlen - maskedBits)

\* Variant: goes on below a block that is already covered.
NestedCover(mcg) ==
    LET cover[m \in 0..mcg.maxlen] ==
          [s \in {k \in 0..(2^mcg.maxlen - 1) : k % 2^m = 0} |->
             LET blockEnd == applyMask(s, m)
                 inside == s >= mcg.rangeMin /\ blockEnd <= mcg.rangeMax
             IN IF blockEnd < mcg.rangeMin \/ s > mcg.rangeMax THEN <<>>
                ELSE (IF inside /\ isLevelStored(mcg, m) THEN <<toString(mcg, s, m)>> ELSE <<>>)
                     \o (IF m = 0 THEN <<>>
                         ELSE cover[m - 1][s] \o cover[m - 1][s + 2^(m - 1)])]
    IN cover[mcg.maxlen][0]

\* cover[m][s]: the edges minCoverRec appends for the block of m masked bits
\* that starts at s, in order.
minCover(mcg) ==
    LET cover[m \in 0..mcg.maxlen] ==
          [s \in {k \in 0..(2^mcg.maxlen - 1) : k % 2^m = 0} |->
             LET blockEnd == applyMask(s, m)
             IN IF blockEnd < mcg.rangeMin \/ s > mcg.rangeMax THEN <<>>
                ELSE IF s >= mcg.rangeMin /\ blockEnd <= mcg.rangeMax
                        /\ isLevelStored(mcg, m)
                     THEN <<toString(mcg, s, m)>>
                ELSE cover[m - 1][s] \o cover[m - 1][s + 2^(m - 1)]]
    IN cover[mcg.maxlen][0]

\* Variant: a query without a trim factor trims nothing.
CoverWithoutDefaultTrim(rangeMin, rangeMax, max, sparsity, opt_trim) ==
    LET maxlen == BitLen(max)
        trim == IF IsSet(opt_trim) THEN The(opt_trim) ELSE 0
    IN IF rangeMin > rangeMax \/ rangeMax > max \/ sparsity = 0 \/ ~TrimFactorOK(trim, maxlen)
       THEN Fails
       ELSE [ok |-> TRUE, rangeMin |-> rangeMin, rangeMax |-> rangeMax,
             maxlen |-> maxlen, sparsity |-> sparsity, trimFactor |-> trim]

MinCoverGenerator_new(rangeMin, rangeMax, max, sparsity, opt_trim) ==
    LET maxlen == BitLen(max)
        trim == trimFactorDefault(maxlen, opt_trim)
    IN IF \/ rangeMin > rangeMax \/ rangeMax > max \/ sparsity = 0
          \/ ~TrimFactorOK(trim, maxlen)
       THEN Fails
       ELSE [ok |-> TRUE, rangeMin |-> rangeMin, rangeMax |-> rangeMax,
             maxlen |-> maxlen, sparsity |-> sparsity, trimFactor |-> trim]

\* Excluded bounds move inward by one; the domain's own ends cannot be excluded.
adjustBounds(lo, incLo, hi, incHi, max) ==
    IF (~incLo /\ lo >= max) \/ (~incHi /\ hi <= 0) THEN Fails
    ELSE [ok |-> TRUE, lo |-> IF incLo THEN lo ELSE lo + 1,
                       hi |-> IF incHi THEN hi ELSE hi - 1]

CHECK_BOUNDS(lo, incLo, hi, incHi, min, max) ==
    LET lt(a, b) == IF IsInfinite(a) THEN a.inf < 0 /\ b # a
                    ELSE IF IsInfinite(b) THEN b.inf > 0 ELSE Num(a) < Num(b)
    IN /\ IsSet(min) => ~lt(hi, The(min)) /\ (incHi \/ lt(The(min), hi))
       /\ IsSet(max) => ~lt(The(max), lo) /\ (incLo \/ lt(lo, The(max)))

\* The cover a generator yields, of adjusted bounds, of two encoded bounds.
GenerateCover(mcg) ==
    IF ~mcg.ok THEN Fails
    ELSE [ok |-> TRUE, mincover |-> minCover(mcg), usedTrimFactor |-> mcg.trimFactor]

CoverOfBounds(adj, max, sparsity, trimFactor) ==
    IF ~adj.ok THEN Fails
    ELSE GenerateCover(MinCoverGenerator_new(adj.lo, adj.hi, max, sparsity, trimFactor))

CoverOfEncoded(a, incLo, b, incHi, sparsity, trimFactor) ==
    IF ~a.ok THEN a ELSE IF ~b.ok THEN b
    ELSE IF a.max # b.max THEN Aborts
    ELSE CoverOfBounds(adjustBounds(a.value, incLo, b.value, incHi, b.max),
                       a.max, sparsity, trimFactor)

mc_getMincover(lo, incLo, hi, incHi, min, max, precision, sparsity, trimFactor) ==
    IF ~CHECK_BOUNDS(lo, incLo, hi, incHi, min, max) THEN Fails
    ELSE CoverOfEncoded(getTypeInfo(lo, min, max, precision), incLo,
                        getTypeInfo(hi, min, max, precision), incHi, sparsity, trimFactor)

-----------------------------------------------------------------------------
(* Range options.  The input document is a function from a set of field      *)
(* names; a BSON document that repeats a field or has an unknown one is      *)
(* refused by the parser and left out here.                                 *)

IsFloating(v) == v.t \in {"double", "decimal"}

mc_RangeOpts_parse(doc) ==
    LET has(f) == f \in DOMAIN doc
        opt(f) == IF has(f) THEN <<doc[f]>> ELSE <<>>
    IN IF \/ has("sparsity") /\ doc.sparsity < 0
          \/ has("precision") /\ doc.precision < 0
          \/ has("trimFactor") /\ doc.trimFactor < 0
          \/ has("precision") /\ ~(/\ has("min") /\ IsFloating(doc.min)
                                   /\ has("max") /\ IsFloating(doc.max))
          \/ has("min") /\ has("max") /\ doc.min.t # doc.max.t
          \/ has("min") /\ IsFloating(doc.min) /\ ~has("precision")
          \/ has("max") /\ IsFloating(doc.max) /\ ~has("precision")
       THEN Fails
       ELSE [ok |-> TRUE, min |-> opt("min"), max |-> opt("max"),
             sparsity |-> IF has("sparsity") THEN doc.sparsity ELSE SparsityDefault,
             precision |-> opt("precision"), trimFactor |-> opt("trimFactor")]

\* DBL_MAX and the largest decimals, as the appended defaults.
Largest(t, neg) ==
    IF t = "double"
    THEN [t |-> t, n |-> (IF neg THEN -1 ELSE 1) * (2^(Bits64 - 1) - 1)]
    ELSE [t |-> t, neg |-> neg, c |-> CMax, e |-> DecExpMax]

mc_RangeOpts_appendMin(ro, valueType) ==
    IF IsSet(ro.min)
    THEN IF The(ro.min).t # valueType THEN Fails
         ELSE [ok |-> TRUE, v |-> The(ro.min)]
    ELSE IF valueType \in {"double", "decimal"}
    THEN [ok |-> TRUE, v |-> Largest(valueType, TRUE)] ELSE Fails

mc_RangeOpts_appendMax(ro, valueType) ==
    IF IsSet(ro.max)
    THEN IF The(ro.max).t # valueType THEN Fails
         ELSE [ok |-> TRUE, v |-> The(ro.max)]
    ELSE IF valueType \in {"double", "decimal"}
    THEN [ok |-> TRUE, v |-> Largest(valueType, FALSE)] ELSE Fails

\* The bits of the domain, read off the encoding of its minimum (or of zero).
DomainBits(got) == IF ~got.ok THEN got ELSE [ok |-> TRUE, bits |-> BitLen(got.max)]
mc_getNumberOfBits(ro, valueType) ==
    LET zero == IF valueType = "decimal"
                THEN [t |-> "decimal", neg |-> FALSE, c |-> 0, e |-> 0]
                ELSE [t |-> valueType, n |-> 0]
    IN IF IsSet(ro.min) /\ ~IsSet(ro.max) THEN Aborts
       ELSE DomainBits(getTypeInfo(IF IsSet(ro.min) THEN The(ro.min) ELSE zero,
                                   ro.min, IF IsSet(ro.min) THEN ro.max ELSE <<>>,
                                   ro.precision))

TrimWithin(trimFactor, nbits) ==
    IF ~nbits.ok THEN nbits
    ELSE IF trimFactor >= (IF nbits.bits = 0 THEN 1 ELSE nbits.bits)
    THEN Fails ELSE [ok |-> TRUE]

mc_RangeOpts_appendTrimFactor(ro, valueType) ==
    IF ~IsSet(ro.trimFactor) THEN [ok |-> TRUE]
    ELSE TrimWithin(The(ro.trimFactor), mc_getNumberOfBits(ro, valueType))

RangeInsertSpec(ro, v, min, max, trim) ==
    IF ~min.ok THEN min ELSE IF ~max.ok THEN max ELSE IF ~trim.ok THEN trim
    ELSE [ok |-> TRUE, v |-> v, min |-> min.v, max |-> max.v,
          precision |-> ro.precision, trimFactor |-> ro.trimFactor]

mc_RangeOpts_to_FLE2RangeInsertSpec(ro, v) ==
    RangeInsertSpec(ro, v, mc_RangeOpts_appendMin(ro, v.t), mc_RangeOpts_appendMax(ro, v.t),
                    mc_RangeOpts_appendTrimFactor(ro, v.t))
=============================================================================
