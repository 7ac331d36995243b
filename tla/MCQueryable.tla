------------------------------ MODULE MCQueryable ------------------------------
(* Fields of every kind on a machine of small words, and all their queries. *)
EXTENDS QueryableSys

(* Text: a, A, a with an accent (two bytes), a combining accent (two bytes). *)
MCAlphabet == 1..4
MCWidth == <<1, 1, 2, 2>>
MCLower == <<1, 1, 3, 4>>
MCStrip == <<<<1>>, <<2>>, <<1>>, <<>>>>

Str(s) == [t |-> "string", s |-> s]
Int32(n) == [t |-> "int32", n |-> n]
Int64(n) == [t |-> "int64", n |-> n]
Dbl(n) == [t |-> "double", n |-> n]
Dec(neg, c, e) == [t |-> "decimal", neg |-> neg, c |-> c, e |-> e]

NoField == [alg |-> "Unindexed", cm |-> <<>>, range |-> <<>>, text |-> <<>>,
            values |-> {}, queries |-> {}, docs |-> 1]
Value(type, v) == [kind |-> "value", type |-> type, v |-> v]
Values(type, vs) == {Value(type, v) : v \in vs}

Simple == {Int32(1), Int64(1), [t |-> "date", n |-> 1], Str(<<1>>), Str(<<1, 1, 1>>), Dbl(1)}

Fle1Fields ==
    <<[NoField EXCEPT !.alg = "deterministic", !.values = Simple,
                      !.queries = Values(<<>>, Simple), !.docs = 2],
      [NoField EXCEPT !.alg = "random", !.values = Simple]>>
\* An indexed field has one BSON type: a date, a double and an int64 of the same
\* bytes have the same tokens.
Equality(cm) ==
    LET values == {v \in Simple : v.t \notin {"date", "double"}}
    IN [NoField EXCEPT !.alg = "Indexed", !.cm = <<cm>>, !.values = values, !.docs = 2,
                       !.queries = Values(<<"equality">>, values)]
EqualityFields ==
    <<[NoField EXCEPT !.values = Simple], Equality(0), Equality(2)>>
    \o [i \in 1..6 |-> [NoField EXCEPT !.alg = "Indexed", !.cm = <<i + 1>>, !.values = {Int32(1)}]]

\* Every interval, in both styles, over a set of values.
Clause(style, op, v) == [style |-> style, op |-> op, field |-> "f", value |-> v]
Expressions(vs) ==
    {[kind |-> "expression", clauses |-> <<Clause("match", op, v)>>] : op \in RangeOperators, v \in vs}
    \union {[kind |-> "expression", clauses |-> <<Clause("aggregate", lo, v), Clause("aggregate", hi, w)>>]
            : lo \in {"gt", "gte"}, hi \in {"lt", "lte"}, v \in vs, w \in vs}
    \union {[kind |-> "expression", clauses |-> <<Clause("match", "lt", v), Clause("match", "gte", w)>>]
            : v \in vs, w \in vs}
Malformed(v) ==
    {[kind |-> "expression", clauses |-> c] :
        c \in {<<>>, <<Clause("match", "gt", v), Clause("aggregate", "lt", v)>>,
               <<Clause("match", "gt", v), Clause("match", "gte", v)>>,
               <<Clause("match", "gt", v), [Clause("match", "lt", v) EXCEPT !.field = "g"]>>}}

Ranged(cm, doc, vs, qs) ==
    [NoField EXCEPT !.alg = "Range", !.cm = <<cm>>, !.range = <<doc>>, !.values = vs,
                    !.queries = Expressions(qs) \union Malformed(CHOOSE q \in qs : TRUE)]

IntDoc(lo, hi, sp) == [min |-> Int32(lo), max |-> Int32(hi), sparsity |-> sp]
IntFields ==
    [sp \in 1..3 |->
        Ranged(0, IntDoc(-4, 3, sp), {Int32(n) : n \in -4..3}, {Int32(n) : n \in -4..3})]
    \o [tf \in 1..4 |->
          Ranged(tf % 2, IntDoc(-3, 2, 2) @@ [trimFactor |-> tf - 1],
                 {Int32(n) : n \in -4..3}, {Int32(n) : n \in {-4, -3, 0, 2, 3}})]
    \o <<Ranged(0, [min |-> Int64(-9), max |-> Int64(9), sparsity |-> 2],
                   {Int64(n) : n \in -9..9}, {Int64(n) : n \in {-9, -1, 0, 5, 8, 9}}),
            Ranged(0, [min |-> Int32(0), max |-> Int64(1)], {Int32(0)}, {Int32(0)}),
            Ranged(0, [sparsity |-> 1], {Int32(0)}, {Int32(0)}),
            Ranged(0, [min |-> Int32(0), trimFactor |-> 1], {Int32(0)}, {Int32(0)})>>

Doubles(S) == {Dbl(n) : n \in S}
DoubleFields ==
    <<Ranged(0, [sparsity |-> 2], Doubles({-31, -16, -8, -2, -1, 0, 1, 3, 7, 15, 31}),
            Doubles({-31, -9, -1, 0, 4, 31})),
     Ranged(0, [sparsity |-> 2, trimFactor |-> 3], Doubles({-4, 0, 9}), Doubles({-7, 0, 9}))>>
    \o [p \in 1..4 |-> Ranged(0, [min |-> Dbl(-6), max |-> Dbl(9), precision |-> p - 1, sparsity |-> 1],
                   Doubles(-7..10), Doubles({-6, -4, -1, 0, 5, 9}))]

\* 2 is one short of the point where the coefficient is normalised.
Decimals == {Dec(neg, c, e) : neg \in BOOLEAN, c \in {0, 1, 3, 5, 8}, e \in 0..2}
DecimalBounds == {Dec(TRUE, 8, 2), Dec(TRUE, 1, 1), Dec(FALSE, 0, 0), Dec(FALSE, 4, 0), Dec(FALSE, 8, 2)}
\* Indexes whose bounds, width or zero are at the limits of 128-bit integers, and
\* one just inside.
DecimalIndex(min, max, p) ==
    Ranged(0, [min |-> min, max |-> max, precision |-> p, sparsity |-> 2],
           {min, max, Dec(FALSE, 0, 0)}, {min, max})
DecimalLimits ==
    <<DecimalIndex(Dec(FALSE, 6, 2), Dec(FALSE, 7, 2), 1),
      DecimalIndex(Dec(TRUE, 7, 2), Dec(TRUE, 6, 2), 1),
      DecimalIndex(Dec(TRUE, 3, 2), Dec(FALSE, 2, 4), 0),
      DecimalIndex(Dec(TRUE, 8, 1), Dec(FALSE, 2, 4), 0),
      DecimalIndex(Dec(FALSE, 0, 4), Dec(FALSE, 3, 1), 1),
      DecimalIndex(Dec(FALSE, 0, 2), Dec(FALSE, 3, 1), 1)>>
DecimalFields ==
    <<Ranged(0, [sparsity |-> 2], Decimals, DecimalBounds)>>
    \o [p \in 1..3 |-> Ranged(0, [min |-> Dec(TRUE, 6, 0), max |-> Dec(FALSE, 3, 1), precision |-> p - 1, sparsity |-> 2],
                   Decimals, {Dec(TRUE, 6, 0), Dec(FALSE, 0, 0), Dec(FALSE, 4, 0), Dec(FALSE, 1, 2)})]
    \o DecimalLimits

Strings(chars, n) == UNION {[1..k -> chars] : k \in 0..n}
Affix(lb, ub) == [strMinQueryLength |-> lb, strMaxQueryLength |-> ub]
TextField(doc, strings, queries, docs) ==
    [NoField EXCEPT !.alg = "String", !.cm = <<0>>, !.text = <<doc>>, !.docs = docs,
                    !.values = {Str(s) : s \in strings}, !.queries = queries]
TextQueries(kinds, strings) == UNION {Values(<<k>>, {Str(s) : s \in strings}) : k \in kinds}
Sensitive(case, diacritic) == [caseSensitive |-> case, diacriticSensitive |-> diacritic]
Affixes(doc) ==
    TextField(doc @@ [prefix |-> Affix(1, 2), suffix |-> Affix(2, 3)],
              Strings(MCAlphabet, 2) \union Strings({1, 3}, 3),
              TextQueries({"prefix", "suffix"}, Strings({1, 2, 4}, 2)), 1)
Substrings(doc, lb) ==
    TextField(doc @@ [substring |-> Affix(lb, 2) @@ [strMaxLength |-> 3]],
              Strings({1, 2, 3}, 3) \union {<<1, 1, 1, 1>>},
              TextQueries({"substring"}, Strings({1, 2}, 2)), 1)
Lengths(index) ==
    TextField(Sensitive(TRUE, FALSE) @@ index,
              Strings({1, 4}, 3) \union {<<1, 2, 1, 2>>}, {}, 2)
TextFields ==
    <<Affixes(Sensitive(TRUE, TRUE)), Affixes(Sensitive(TRUE, FALSE)),
      Affixes(Sensitive(FALSE, TRUE)), Affixes(Sensitive(FALSE, FALSE)),
      Substrings(Sensitive(TRUE, FALSE), 1), Substrings(Sensitive(FALSE, FALSE), 2),
      Lengths([prefix |-> Affix(1, 4), suffix |-> Affix(4, 5)]),
      Lengths([substring |-> Affix(2, 3) @@ [strMaxLength |-> 5]])>>

MCFields == Fle1Fields \o EqualityFields \o IntFields \o DoubleFields
            \o DecimalFields \o TextFields

\* A decimal field without precision, with the coefficient left out above.
MCDecimalFields ==
    <<Ranged(0, [sparsity |-> 2], Decimals \union {Dec(FALSE, 2, 1), Dec(FALSE, 6, 0)},
             DecimalBounds)>>
=============================================================================
