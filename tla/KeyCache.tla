------------------------------ MODULE KeyCache ------------------------------
(***************************************************************************)
(* The shared cache of decrypted data keys: the generic list of            *)
(* mongocrypt-cache.c with the attribute comparison of                     *)
(* mongocrypt-cache-key.c.                                                 *)
(*                                                                         *)
(* The cache is a linked list of pairs guarded by a mutex.  Both entry     *)
(* points (_mongocrypt_cache_get and _cache_add) hold the mutex from their *)
(* first to their last access, so each is one operator here, applied       *)
(* atomically by the modules that own the cache variable.  A pair keeps    *)
(* its position in the list (1 is the head).  A pair's attribute is the    *)
(* id and the alt names of the document it caches, and its value is that   *)
(* document with its decrypted material, so the document stands for both.  *)
(***************************************************************************)
EXTENDS Integers, FiniteSets

CONSTANTS
    KeyIds,         \* the _id values of data keys
    AltNames,       \* the keyAltNames values
    KmsIds,         \* KMS ids ("aws", "azure:name1", ...)
    NoId,           \* an empty id buffer
    Expiration      \* cache->expiration, in clock ticks; 0 never expires

ASSUME KeyCacheAssumption ==
    /\ NoId \notin KeyIds
    /\ Expiration \in Nat

\* A key document, reduced to the fields that the key broker tells apart.
Doc == [id : KeyIds, names : SUBSET AltNames, kmsid : KmsIds]

\* A list node.
Pair == [doc : Doc, updated : Nat, pos : Nat]

(***************************************************************************)
(* _cmp_attr: two attributes match on equal non-empty ids or on            *)
(* intersecting alt names.                                                 *)
(***************************************************************************)
AttrMatch(a, b) ==
    \/ a.id # NoId /\ b.id # NoId /\ a.id = b.id
    \/ a.names \cap b.names # {}

\* _pair_expired
PairExpired(p, now) ==
    Expiration > 0 /\ now - p.updated > Expiration

\* Unlinking pairs closes the gaps they leave in the list.
Relink(pairs) ==
    {[p EXCEPT !.pos = Cardinality({q \in pairs : q.pos <= p.pos})] : p \in pairs}

\* _mongocrypt_cache_evict
CacheEvict(cache, now) ==
    Relink({p \in cache : ~ PairExpired(p, now)})

\* _find_pair: the first matching pair in list order, as a set of at most one.
FindPair(cache, attr) ==
    {p \in cache : /\ AttrMatch(p.doc, attr)
                   /\ \A q \in cache : AttrMatch(q.doc, attr) => p.pos <= q.pos}

(***************************************************************************)
(* _mongocrypt_cache_get evicts, then searches: CacheGet is what it        *)
(* returns (no document or one) and CacheEvict what it leaves behind.      *)
(***************************************************************************)
CacheGet(cache, attr, now) ==
    {p.doc : p \in FindPair(CacheEvict(cache, now), attr)}

\* Variant: only pairs with the same id are removed.
RemoveSameId(cache, attr) == {p \in cache : p.doc.id # attr.id}

\* _mongocrypt_remove_matches
RemoveMatches(cache, attr) ==
    {p \in cache : ~ AttrMatch(p.doc, attr)}

(***************************************************************************)
(* _cache_add: evict, remove every pair the new attribute matches, prepend *)
(* the new pair.                                                           *)
(***************************************************************************)
CacheAdd(cache, doc, now) ==
    LET kept == Relink(RemoveMatches(CacheEvict(cache, now), doc))
    IN  {[p EXCEPT !.pos = @ + 1] : p \in kept}
            \cup {[doc |-> doc, updated |-> now, pos |-> 1]}
=============================================================================
