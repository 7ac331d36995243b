------------------------------- MODULE RangeFind -------------------------------
(***************************************************************************)
(* The range expressions a driver encrypts explicitly (mc-fle2-rfds.c):    *)
(* {$and: [{$gt: ["$age", 5]}, ...]} or {$and: [{age: {$gt: 5}}, ...]}.    *)
(* An expression is a sequence of clauses [style, op, field, value].  Its  *)
(* first operator becomes a placeholder with the whole range, its second a *)
(* stub with the same payload id.                                          *)
(***************************************************************************)
EXTENDS RangeIndex, Payloads

CONSTANT Int32Max

ASSUME RangeFindAssumption == Int32Max \in Nat

is_supported_operator(op) == op \in RangeOperators
IsLowerOp(op) == op \in {"gt", "gte"}
BoundIncluded(op) == op \in {"gte", "lte"}

\* {$gt: ["$age", 5]}: the array form, whose operator is looked up afterwards.
parse_aggregate_expression(clause) ==
    clause.style = "aggregate" /\ is_supported_operator(clause.op)

\* {age: {$gt: 5}}
parse_match_expression(clause) ==
    clause.style = "match" /\ is_supported_operator(clause.op)

\* The form of the first clause decides how all of them are read.
mc_FLE2RangeFindDriverSpec_parse(clauses) ==
    LET agg == clauses # <<>> /\ clauses[1].style = "aggregate"
                              /\ is_supported_operator(clauses[1].op)
        lower == SelectSeq(clauses, LAMBDA c : IsLowerOp(c.op))
        upper == SelectSeq(clauses, LAMBDA c : ~IsLowerOp(c.op))
    IN IF \/ \E i \in DOMAIN clauses :
                IF agg THEN ~parse_aggregate_expression(clauses[i])
                ELSE ~parse_match_expression(clauses[i])
          \/ Len(lower) > 1 \/ Len(upper) > 1
          \/ \E i, j \in DOMAIN clauses : clauses[i].field # clauses[j].field
       THEN Refused
       ELSE [ok |-> TRUE, isAggregateExpression |-> agg, nOps |-> Len(clauses),
             lower |-> lower, upper |-> upper,
             ops |-> [i \in DOMAIN clauses |-> clauses[i].op],
             field |-> IF clauses = <<>> THEN <<>> ELSE <<clauses[1].field>>]

mc_makeRangeFindPlaceholder(args) ==
    LET v == WithOpt([payloadId |-> args.payloadId, firstOperator |-> args.ops[1]],
                     "edgesInfo", args.edgesInfo)
    IN [t |-> "find", a |-> "range", ki |-> args.index_key_id, ku |-> args.user_key_id,
        v |-> WithOpt(v, "secondOperator", SubSeq(args.ops, 2, Len(args.ops))),
        cm |-> args.maxContentionFactor, s |-> args.sparsity]

NegInf == [t |-> "double", inf |-> -1]
PosInf == [t |-> "double", inf |-> 1]

\* The placeholders, in the order of the clauses they replace.
mc_FLE2RangeFindDriverSpec_to_placeholders(spec, ro, cm, user_key, index_key, payloadId) ==
    LET index_type == (spec.lower \o spec.upper)[1].value.t
        min == mc_RangeOpts_appendMin(ro, index_type)
        max == mc_RangeOpts_appendMax(ro, index_type)
        bound(side, missing) == IF side = <<>> THEN missing ELSE side[1].value
        included(side) == IF side = <<>> THEN TRUE ELSE BoundIncluded(side[1].op)
        base == [lowerBound |-> bound(spec.lower, NegInf), lbIncluded |-> included(spec.lower),
                 upperBound |-> bound(spec.upper, PosInf), ubIncluded |-> included(spec.upper),
                 indexMin |-> min.v, indexMax |-> max.v]
        info == WithOpt(WithOpt(base, "precision", ro.precision),
                        "trimFactor", ro.trimFactor)
        placeholder(edgesInfo) ==
            mc_makeRangeFindPlaceholder(
                [payloadId |-> payloadId, ops |-> spec.ops, edgesInfo |-> edgesInfo,
                 index_key_id |-> index_key, user_key_id |-> user_key,
                 maxContentionFactor |-> cm, sparsity |-> ro.sparsity])
    IN IF spec.lower = <<>> /\ spec.upper = <<>> THEN Refused
       ELSE IF ~min.ok THEN min ELSE IF ~max.ok THEN max
       ELSE [ok |-> TRUE,
             placeholders |-> [i \in 1..spec.nOps |->
                                 placeholder(IF i = 1 THEN <<info>> ELSE <<>>)]]

\* Variant: no wrap at INT32_MAX.
PayloadIdUnbounded(payloadId) == payloadId + 1

\* The process-wide counter of payload ids, read and advanced under its mutex.
mc_getNextPayloadId(payloadId) == IF payloadId < Int32Max THEN payloadId + 1 ELSE 0
=============================================================================
