---------------------------- MODULE MCKeyBroker ----------------------------
(***************************************************************************)
(* Instances of KeyBrokerSys for TLC.  The documents are chosen so that    *)
(* keys share a KMS id, a key vault document changes its alt names (two    *)
(* documents with one id), and an alt name moves between keys.             *)
(***************************************************************************)
EXTENDS KeyBrokerSys, TLC

CONSTANTS c1, c2, k1, k2, a

ProviderDef == [k \in KmsIds |-> IF k = "azure2" THEN "azure" ELSE k]

CtxSymmetry == Permutations(Ctxs)

\* Nothing reads a broker after its failure, so failed brokers are identified.
FailedAlike ==
    <<[c \in Ctxs |-> IF kb[c].ok THEN kb[c] ELSE "failed"],
      [c \in Ctxs |-> IF kb[c].ok THEN <<held[c], drained[c], rounds[c]>> ELSE "failed"],
      cacheKey, cacheOauth, now, aborted>>

KD(id, names, kmsid) == [id |-> id, names |-> names, kmsid |-> kmsid]

\* One context: every provider, keys that share an OAuth provider.
DocsAlone == {KD(k1, {a}, "azure"), KD(k2, {}, "azure"), KD(k2, {a}, "kmip")}

\* Two contexts: alt name a moves from k1 to k2.
DocsShared == {KD(k1, {a}, "aws"), KD(k2, {a}, "local")}

\* Retried requests to an OAuth provider and to a plain one.
DocsRetried == {KD(k1, {}, "azure"), KD(k2, {}, "aws")}

\* Rewrapping after an alt name moved.
DocsMoved == {KD(k1, {a}, "local"), KD(k2, {a}, "local")}

\* Lifetimes in seconds of two ticks, with times up to 7: one that wraps around
\* to 6 ticks, one that fits late on the clock only, an ordinary one, and one
\* that is too long.
LivesWide == {-5, 0, 1, 4}

\* Two OAuth providers used in two rounds.
DocsTokens == {KD(k1, {}, "azure"), KD(k2, {}, "azure2")}
=============================================================================
