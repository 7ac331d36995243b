------------------------------- MODULE FleTokens -------------------------------
(****************************************************************************)
(* The tokens of queryable encryption (mc-tokens.c).  A token is what an    *)
(* HMAC-SHA-256 of a key and an argument returns.  HMAC is taken to be free *)
(* of collisions: a token is the sequence of the arguments it was derived   *)
(* with, the root key first, so two tokens are equal only if they were      *)
(* derived along the same path.  Every argument is a sequence of integers.  *)
(****************************************************************************)
EXTENDS Integers, Sequences

HMAC(key, arg) == Append(key, arg)

\* An eight byte little-endian integer, and the bytes of the other arguments.
LE64(n) == <<8, n>>

CollectionsLevel1Token(RootKey) == HMAC(RootKey, LE64(1))
ServerTokenDerivationLevel1Token(RootKey) == HMAC(RootKey, LE64(2))
ServerDataEncryptionLevel1Token(RootKey) == HMAC(RootKey, LE64(3))

EDCToken(CollectionsLevel1) == HMAC(CollectionsLevel1, LE64(1))
ESCToken(CollectionsLevel1) == HMAC(CollectionsLevel1, LE64(2))
ECOCToken(CollectionsLevel1) == HMAC(CollectionsLevel1, LE64(4))

EDCDerivedFromDataToken(EDC, v) == HMAC(EDC, v)
ESCDerivedFromDataToken(ESC, v) == HMAC(ESC, v)
EDCDerivedFromDataTokenAndContentionFactor(EDCDerived, u) == HMAC(EDCDerived, LE64(u))
ESCDerivedFromDataTokenAndContentionFactor(ESCDerived, u) == HMAC(ESCDerived, LE64(u))

EDCTwiceDerivedToken(EDCDerivedCF) == HMAC(EDCDerivedCF, LE64(1))

ServerDerivedFromDataToken(ServerTokenDerivation, v) == HMAC(ServerTokenDerivation, v)
ServerCountAndContentionFactorEncryptionToken(ServerDerived) == HMAC(ServerDerived, LE64(1))
ServerZerosEncryptionToken(ServerDerived) == HMAC(ServerDerived, LE64(2))

\* d is seventeen zero bytes.
AnchorPaddingTokenRoot(ESC) == HMAC(ESC, <<17, 0>>)
AnchorPaddingKeyToken(Root) == HMAC(Root, LE64(1))
AnchorPaddingValueToken(Root) == HMAC(Root, LE64(2))

\* Text search separates the four kinds of index by one more derivation.
TextId == [exact |-> 1, substr |-> 2, suffix |-> 3, prefix |-> 4]
EDCTextToken(EDC, kind) == HMAC(EDC, LE64(TextId[kind]))
ESCTextToken(ESC, kind) == HMAC(ESC, LE64(TextId[kind]))
ServerTextToken(ServerTokenDerivation, kind) == HMAC(ServerTokenDerivation, LE64(TextId[kind]))
EDCTextDerivedFromDataToken(EDCText, v) == HMAC(EDCText, v)
EDCTextDerivedFromDataTokenAndContentionFactor(EDCTextDerived, u) == HMAC(EDCTextDerived, LE64(u))
ESCTextDerivedFromDataToken(ESCText, v) == HMAC(ESCText, v)
ESCTextDerivedFromDataTokenAndContentionFactor(ESCTextDerived, u) == HMAC(ESCTextDerived, LE64(u))
ServerTextDerivedFromDataToken(ServerText, v) == HMAC(ServerText, v)
=============================================================================
