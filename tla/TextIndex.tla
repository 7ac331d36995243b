------------------------------ MODULE TextIndex -------------------------------
(****************************************************************************)
(* Text search fields: folding of a string (unicode/fold.c), the sets of    *)
(* strings it is indexed under (mc-text-search-str-encode.c,                *)
(* mc-str-encode-string-sets.c), the string a query looks up, and the       *)
(* options that configure both (mc-textopts.c).                             *)
(*                                                                          *)
(* A string is a sequence of characters of a small Alphabet.  What UTF-8    *)
(* and the fold tables contribute is kept: Width, the bytes of a character, *)
(* Lower, its case fold, and Strip, what is left of it without diacritics   *)
(* (<<>> for a pure diacritic).                                             *)
(****************************************************************************)
EXTENDS Integers, Sequences, SequencesExt

CONSTANTS
    Alphabet, Width, Lower, Strip,
    BadChar,           \* the 0xFF byte, no character of valid UTF-8
    CipherBlock,       \* 16: the block of the cipher that hides the length
    OverheadBytes,     \* 5: bytes BSON adds to a string
    MaxEncodeBytes     \* 16 MiB: longest string that is encoded

ASSUME TextAssumption ==
    /\ Alphabet \subseteq Int /\ BadChar \in Int \ Alphabet /\ Width \in [Alphabet -> Nat]
    /\ Lower \in [Alphabet -> Alphabet]
    /\ DOMAIN Strip = Alphabet /\ \A c \in Alphabet : Strip[c] \in Seq(Alphabet)
    /\ CipherBlock \in Nat \ {0} /\ OverheadBytes \in 0..(CipherBlock - 1)
    /\ MaxEncodeBytes \in Nat

TextFails == [ok |-> FALSE, abort |-> FALSE]
TextAborts == [ok |-> FALSE, abort |-> TRUE]
Least(a, b) == IF a <= b THEN a ELSE b

\* The bytes of a string.
CharBytes(c) == [i \in 1..(IF c = BadChar THEN 1 ELSE Width[c]) |-> c]
Utf8(str) == FlattenSeq([i \in DOMAIN str |-> CharBytes(str[i])])
ByteLen(str) == Len(Utf8(str))

\* unicode_fold: lower case first, then the diacritics; an ASCII character is
\* lowered or stripped by the same rules.
unicode_fold(str, casef, diacf) ==
    FlattenSeq([i \in DOMAIN str |->
        LET c == IF casef THEN Lower[str[i]] ELSE str[i]
        IN IF diacf THEN Strip[c] ELSE <<c>>])

Folded(spec) ==
    IF spec.casef \/ spec.diacf
    THEN unicode_fold(spec.v, spec.casef, spec.diacf) ELSE spec.v

-----------------------------------------------------------------------------
(* The string sets.  A set is a sequence of [str, count]: a string and how    *)
(* many tags it contributes.  The folded string with BadChar appended pads    *)
(* every set to a size that depends on the encrypted length only.            *)

\* Variant: no padding.
UnpaddedLen(n) == n

\* The longest string with the encrypted length of n bytes.
PaddedLen(n) ==
    CipherBlock * ((n + OverheadBytes + CipherBlock) \div CipherBlock) - OverheadBytes

Padding(base, n) == IF n = 0 THEN <<>> ELSE <<[str |-> Append(base, BadChar), count |-> n]>>

generate_prefix_or_suffix_tree(base, bytes, lb, ub, is_prefix) ==
    LET padded == PaddedLen(bytes)
        msize == Least(padded, ub) - lb + 1
        longest == Least(Len(base), ub)
        real == IF longest >= lb THEN longest - lb + 1 ELSE 0
        affix(k) == IF is_prefix THEN SubSeq(base, 1, k)
                    ELSE SubSeq(base, Len(base) - k + 1, Len(base))
    IN IF padded < lb THEN [ok |-> TRUE, msize |-> 0, set |-> <<>>]
       ELSE IF msize < real THEN TextAborts
       ELSE [ok |-> TRUE, msize |-> msize,
             set |-> [i \in 1..real |-> [str |-> affix(lb + i - 1), count |-> 1]]
                     \o Padding(base, msize - real)]

generate_suffix_tree(base, bytes, spec) ==
    generate_prefix_or_suffix_tree(base, bytes, spec.lb, spec.ub, FALSE)

generate_prefix_tree(base, bytes, spec) ==
    generate_prefix_or_suffix_tree(base, bytes, spec.lb, spec.ub, TRUE)

calc_number_of_substrings(len, lb, ub) ==
    LET fewest == len - Least(len, ub) + 1
        most == len - lb + 1
    IN IF lb > len THEN 0 ELSE ((fewest + most) * (most - fewest + 1)) \div 2

\* A substring equal to one that starts earlier is in the set already.
mc_substring_set_insert(base, i, len) ==
    \A k \in 1..(i - 1) : SubSeq(base, k, k + len - 1) # SubSeq(base, i, i + len - 1)

DistinctSubstrings(base, lb, ub) ==
    FlattenSeq([i \in 1..Len(base) |->
        FlattenSeq([len \in 1..(Len(base) - i + 1) |->
            IF len >= lb /\ len <= ub /\ mc_substring_set_insert(base, i, len)
            THEN <<SubSeq(base, i, i + len - 1)>> ELSE <<>>])])

generate_substring_tree(base, bytes, spec) ==
    LET padded == Least(spec.mlen, PaddedLen(bytes))
        msize == calc_number_of_substrings(padded, spec.lb, spec.ub)
        real == DistinctSubstrings(base, spec.lb, spec.ub)
    IN IF PaddedLen(bytes) < spec.lb THEN [ok |-> TRUE, msize |-> 0, set |-> <<>>]
       ELSE IF msize < Len(real) THEN TextAborts
       ELSE [ok |-> TRUE, msize |-> msize,
             set |-> [i \in DOMAIN real |-> [str |-> real[i], count |-> 1]]
                     \o Padding(base, msize - Len(real))]

NoTree == [ok |-> TRUE, msize |-> 0, set |-> <<>>]

mc_text_search_str_encode(spec) ==
    LET base == Folded(spec)
        bytes == ByteLen(spec.v)
        suffix == IF spec.suffix = <<>> THEN NoTree
                  ELSE generate_suffix_tree(base, bytes, spec.suffix[1])
        prefix == IF spec.prefix = <<>> THEN NoTree
                  ELSE generate_prefix_tree(base, bytes, spec.prefix[1])
        substr == IF spec.substr = <<>> THEN NoTree
                  ELSE generate_substring_tree(base, bytes, spec.substr[1])
    IN IF \/ bytes > MaxEncodeBytes
          \/ spec.substr # <<>> /\ Len(spec.v) > spec.substr[1].mlen
       THEN TextFails
       ELSE IF ~(suffix.ok /\ prefix.ok /\ substr.ok) THEN TextAborts
       ELSE [ok |-> TRUE, exact |-> base,
             msize |-> 1 + suffix.msize + prefix.msize + substr.msize,
             suffix |-> suffix.set, prefix |-> prefix.set, substr |-> substr.set]

\* The string whose token a query sends.
mc_text_search_str_query(spec) ==
    LET str == Folded(spec)
        bounds == IF spec.substr # <<>> THEN spec.substr
                  ELSE IF spec.suffix # <<>> THEN spec.suffix ELSE spec.prefix
    IN IF \/ ByteLen(spec.v) > MaxEncodeBytes
          \/ /\ bounds # <<>>
             /\ Len(str) = 0 \/ Len(str) > bounds[1].ub \/ Len(str) < bounds[1].lb
       THEN TextFails ELSE [ok |-> TRUE, str |-> str]

-----------------------------------------------------------------------------
(* Options.  A missing length of an index is the C default 0.                *)

mc_TextOptsPerIndex_parse(doc) ==
    LET val(f) == IF f \in DOMAIN doc THEN doc[f] ELSE 0
    IN IF \E f \in DOMAIN doc : doc[f] <= 0 THEN TextFails
       ELSE [ok |-> TRUE,
             strMaxLength |-> IF "strMaxLength" \in DOMAIN doc
                              THEN <<doc.strMaxLength>> ELSE <<>>,
             strMinQueryLength |-> val("strMinQueryLength"),
             strMaxQueryLength |-> val("strMaxQueryLength")]

mc_TextOpts_parse(doc) ==
    LET has(f) == f \in DOMAIN doc
        index(f) == mc_TextOptsPerIndex_parse(doc[f])
        opt(f) == IF has(f) THEN <<index(f)>> ELSE <<>>
    IN IF \/ \E f \in {"substring", "prefix", "suffix"} : has(f) /\ ~index(f).ok
          \/ has("substring") /\ index("substring").strMaxLength = <<>>
          \/ \E f \in {"prefix", "suffix"} : has(f) /\ index(f).strMaxLength # <<>>
          \/ ~has("caseSensitive") \/ ~has("diacriticSensitive")
          \/ has("substring") /\ (has("prefix") \/ has("suffix"))
          \/ ~(has("substring") \/ has("prefix") \/ has("suffix"))
       THEN TextFails
       ELSE [ok |-> TRUE, caseSensitive |-> doc.caseSensitive,
             diacriticSensitive |-> doc.diacriticSensitive,
             substring |-> opt("substring"), prefix |-> opt("prefix"),
             suffix |-> opt("suffix")]

append_TextOptsPerIndex(txio) ==
    LET bounds == [lb |-> txio.strMinQueryLength, ub |-> txio.strMaxQueryLength]
    IN IF txio.strMaxLength = <<>> THEN bounds
       ELSE bounds @@ [mlen |-> txio.strMaxLength[1]]

\* The insert specification for the index kinds of "include".
TextOpts_to_FLE2TextSearchInsertSpec(txo, v, include) ==
    LET spec(kind, o) == IF o # <<>> /\ kind \in include
                         THEN <<append_TextOptsPerIndex(o[1])>> ELSE <<>>
    IN [v |-> v, casef |-> ~txo.caseSensitive, diacf |-> ~txo.diacriticSensitive,
        prefix |-> spec("prefix", txo.prefix), suffix |-> spec("suffix", txo.suffix),
        substr |-> spec("substring", txo.substring)]

\* A query includes the index of its own type only.
TextSpecForQuery(txo, v, query_type) ==
    IF query_type \notin {"prefix", "suffix", "substring"} THEN TextFails
    ELSE [ok |-> TRUE] @@ TextOpts_to_FLE2TextSearchInsertSpec(txo, v, {query_type})
=============================================================================
