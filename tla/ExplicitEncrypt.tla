---------------------------- MODULE ExplicitEncrypt ----------------------------
(***************************************************************************)
(* Explicit encryption of one value or range expression                    *)
(* (mongocrypt-ctx-encrypt.c, option setters of mongocrypt-ctx.c): which   *)
(* options go together, how they become a placeholder, and what comes out. *)
(* Fetching the keys is modelled in KeyBroker and ContextsSys.             *)
(*                                                                         *)
(* opts = [key_id, key_alt_name, algorithm, index_type, index_key_id,      *)
(* contention_factor, query_type, rangeopts, textopts], each an optional   *)
(* (a sequence of length 0 or 1) except "algorithm".                       *)
(***************************************************************************)
EXTENDS Marking

NoOpts == [key_id |-> <<>>, key_alt_name |-> <<>>, algorithm |-> "none",
           index_type |-> <<>>, index_key_id |-> <<>>, contention_factor |-> <<>>,
           query_type |-> <<>>, rangeopts |-> <<>>, textopts |-> <<>>]

OptsFail == [ok |-> FALSE]
Opts(o) == [ok |-> TRUE, opts |-> o]

mongocrypt_ctx_setopt_algorithm(opts, str) ==
    IF opts.algorithm # "none" \/ opts.index_type # <<>> THEN OptsFail
    ELSE CASE str \in {"deterministic", "random"} -> Opts([opts EXCEPT !.algorithm = str])
           [] str = "Indexed"   -> Opts([opts EXCEPT !.index_type = <<"equality">>])
           [] str = "Unindexed" -> Opts([opts EXCEPT !.index_type = <<"none">>])
           [] str = "Range"     -> Opts([opts EXCEPT !.index_type = <<"range">>])
           [] str = "String"    -> Opts([opts EXCEPT !.index_type = <<"string">>])
           [] OTHER -> OptsFail

TextQueryTypes == {"prefix", "suffix", "substring"}

mongocrypt_ctx_setopt_query_type(opts, str) ==
    IF str \in {"equality", "range"} \union TextQueryTypes
    THEN Opts([opts EXCEPT !.query_type = <<str>>]) ELSE OptsFail

mongocrypt_ctx_setopt_contention_factor(opts, cf) ==
    Opts([opts EXCEPT !.contention_factor = <<cf>>])

mongocrypt_ctx_setopt_algorithm_range(opts, doc) ==
    LET ro == mc_RangeOpts_parse(doc)
    IN IF opts.rangeopts # <<>> \/ ~ro.ok THEN OptsFail
       ELSE Opts([opts EXCEPT !.rangeopts = <<ro>>])

mongocrypt_ctx_setopt_algorithm_text(opts, doc) ==
    LET txo == mc_TextOpts_parse(doc)
    IN IF opts.textopts # <<>> \/ ~txo.ok THEN OptsFail
       ELSE Opts([opts EXCEPT !.textopts = <<txo>>])

permitted_for_encryption(v, algorithm) ==
    ~(algorithm = "deterministic" /\ v.t \in {"double", "decimal"})

\* Options of FLE 1 exclude those of queryable encryption.
ExclusiveOptions(opts) ==
    LET qe == opts.index_key_id # <<>> \/ opts.contention_factor # <<>>
              \/ opts.query_type # <<>> \/ opts.rangeopts # <<>>
    IN \/ opts.key_alt_name # <<>> /\ (opts.index_type # <<>> \/ qe)
       \/ opts.algorithm # "none" /\ qe

IndexIs(opts, t) == opts.index_type = <<t>>
QueryMatches(opts) ==
    CASE opts.query_type = <<"range">>    -> IndexIs(opts, "range")
      [] opts.query_type = <<"equality">> -> IndexIs(opts, "equality")
      [] OTHER -> IndexIs(opts, "string")

\* TRUE iff the options are accepted.
explicit_encrypt_init(opts, v) ==
    /\ opts.key_id # <<>> \/ opts.key_alt_name # <<>>
    /\ ~ExclusiveOptions(opts)
    /\ opts.algorithm # "none" \/ opts.index_type # <<>>
    /\ IndexIs(opts, "none") => opts.contention_factor = <<>> /\ opts.query_type = <<>>
    /\ \A q \in TextQueryTypes : opts.query_type = <<q>> => IndexIs(opts, "string")
    /\ opts.rangeopts # <<>> /\ opts.index_type # <<>> => IndexIs(opts, "range")
    /\ opts.textopts # <<>> /\ opts.index_type # <<>> => IndexIs(opts, "string")
    /\ opts.contention_factor # <<>> => mc_validate_contention(opts.contention_factor[1])
    /\ IndexIs(opts, "equality") => opts.contention_factor # <<>>
    /\ IndexIs(opts, "range") => opts.contention_factor # <<>> /\ opts.rangeopts # <<>>
    /\ IndexIs(opts, "string") => opts.contention_factor # <<>> /\ opts.textopts # <<>>
    /\ opts.rangeopts # <<>> => mc_validate_sparsity(opts.rangeopts[1].sparsity)
    /\ opts.query_type # <<>> /\ opts.index_type # <<>> => QueryMatches(opts)
    /\ permitted_for_encryption(v, opts.algorithm)

mongocrypt_ctx_explicit_encrypt_init(opts, v) ==
    explicit_encrypt_init(opts, v) /\ opts.query_type # <<"range">>

mongocrypt_ctx_explicit_encrypt_expression_init(opts, v) ==
    explicit_encrypt_init(opts, v) /\ opts.query_type = <<"range">>

IndexKey(opts) == IF opts.index_key_id = <<>> THEN opts.key_id[1] ELSE opts.index_key_id[1]

\* The expression with a ciphertext in place of every bound, or the first failure.
AllOrFirstFailure(blobs) ==
    LET bad == {i \in DOMAIN blobs : ~blobs[i].ok}
    IN IF bad # {} THEN blobs[CHOOSE i \in bad : \A j \in bad : i <= j]
       ELSE [ok |-> TRUE, blobs |-> blobs]

PlaceholderBlob(keys, ph) ==
    IF ~ph.ok THEN ph ELSE fle2_marking_to_ciphertext(keys, ph, 0, <<>>)

ExpressionBlobs(keys, phs) ==
    IF ~phs.ok THEN phs
    ELSE AllOrFirstFailure(
            [i \in DOMAIN phs.placeholders |->
                PlaceholderBlob(keys, mc_FLE2EncryptionPlaceholder_parse(phs.placeholders[i]))])

FLE2RangeFindDriverSpec_to_ciphertexts(opts, keys, clauses, payloadId) ==
    LET spec == mc_FLE2RangeFindDriverSpec_parse(clauses)
    IN IF opts.rangeopts = <<>> \/ opts.contention_factor = <<>> THEN Refused
       ELSE IF ~spec.ok THEN spec
       ELSE ExpressionBlobs(keys,
               mc_FLE2RangeFindDriverSpec_to_placeholders(spec, opts.rangeopts[1],
                   opts.contention_factor[1], opts.key_id[1], IndexKey(opts), payloadId))

\* The FLE2RangeInsertSpec as a document.
RangeInsertDoc(spec) ==
    WithOpt(WithOpt([v |-> spec.v, min |-> spec.min, max |-> spec.max],
                    "precision", spec.precision), "trimFactor", spec.trimFactor)

TextInsertDoc(spec) ==
    WithOpt(WithOpt(WithOpt([v |-> spec.v, casef |-> spec.casef, diacf |-> spec.diacf],
                            "substr", spec.substr), "suffix", spec.suffix),
            "prefix", spec.prefix)

\* The placeholder of the value, given its range and text specifications.
FinalizeWith(opts, keys, v, ranged, text, cf, iv) ==
    LET algorithm == CASE IndexIs(opts, "equality") -> "equality"
                       [] IndexIs(opts, "none") -> "unindexed"
                       [] IndexIs(opts, "range") -> "range"
                       [] IndexIs(opts, "string") -> "textSearch"
        new_v == CASE opts.rangeopts # <<>> -> RangeInsertDoc(ranged)
                   [] opts.rangeopts = <<>> /\ opts.textopts # <<>> -> TextInsertDoc(text)
                   [] OTHER -> v
        marking == [type |-> IF opts.query_type # <<>> THEN "find" ELSE "insert",
                    algorithm |-> algorithm, user_key_id |-> opts.key_id[1],
                    index_key_id |-> IndexKey(opts), v |-> new_v,
                    maxContentionFactor |-> IF opts.contention_factor = <<>> THEN 0
                                            ELSE opts.contention_factor[1],
                    sparsity |-> IF opts.rangeopts = <<>> THEN 0
                                 ELSE opts.rangeopts[1].sparsity]
    IN IF opts.rangeopts # <<>> /\ ~ranged.ok THEN ranged
       ELSE IF opts.rangeopts = <<>> /\ opts.textopts # <<>> /\ (v.t # "string" \/ ~text.ok)
       THEN Refused
       ELSE IF (algorithm = "unindexed") # (opts.contention_factor = <<>>) THEN Aborts
       ELSE fle2_marking_to_ciphertext(keys, marking, cf, iv)

fle2_finalize_explicit(opts, keys, v, cf, iv) ==
    FinalizeWith(opts, keys, v,
        mc_RangeOpts_to_FLE2RangeInsertSpec(opts.rangeopts[1], v),
        IF opts.query_type # <<>>
        THEN TextSpecForQuery(opts.textopts[1], v.s, opts.query_type[1])
        ELSE Joined([ok |-> TRUE],
                    TextOpts_to_FLE2TextSearchInsertSpec(opts.textopts[1], v.s, TextQueryTypes)),
        cf, iv)

\* _finalize of an explicit context: FLE1 when no index type is set.
finalize_explicit(opts, keys, v, cf, iv) ==
    IF opts.index_type # <<>> THEN fle2_finalize_explicit(opts, keys, v, cf, iv)
    ELSE fle1_marking_to_ciphertext(keys,
             [key_id |-> opts.key_id[1], algorithm |-> opts.algorithm, v |-> v], iv)
=============================================================================
