--------------------------- MODULE KeyBrokerProofs ---------------------------
(***************************************************************************)
(* Proofs about KeyBrokerSys for every set of contexts, keys, alt names,   *)
(* KMS ids and documents and for every bound.                              *)
(*                                                                         *)
(* The argument is local to a broker: Good(b) is the inductive invariant   *)
(* of one broker, and there is one lemma per operator of KeyBroker saying  *)
(* that it preserves it.  The shared caches enter only through what a      *)
(* lookup returns (CacheInv and its lemmas), so the steps of other         *)
(* contexts cannot disturb a broker.                                       *)
(***************************************************************************)
EXTENDS KeyBrokerSys, FiniteSetTheorems, WellFoundedInduction, TLAPS

-----------------------------------------------------------------------------
(***************************************************************************)
(* What the operations of the key cache preserve, for every set of keys,   *)
(* names and documents: the pairs stay well typed and finite in number,    *)
(* and no two of them match.                                               *)
(***************************************************************************)
\* A cache as the program can hold it: finitely many pairs, no two of which
\* share an id or an alt name.
CacheInv(cache) ==
    /\ cache \in SUBSET Pair
    /\ IsFiniteSet(cache)
    /\ \A p, q \in cache : p # q => ~ AttrMatch(p.doc, q.doc)

\* Closing the gaps of the list keeps the documents and the times of the
\* pairs, one pair for each.
LEMMA RelinkInv ==
    ASSUME NEW S, CacheInv(S)
    PROVE  /\ CacheInv(Relink(S))
           /\ \A p \in Relink(S) : \E q \in S : p.doc = q.doc /\ p.updated = q.updated
<1> DEFINE f == [p \in S |-> [p EXCEPT !.pos = Cardinality({q \in S : q.pos <= p.pos})]]
<1>1. IsFiniteSet(S) /\ S \in SUBSET Pair
  BY DEF CacheInv
<1>2. \A p \in S : Cardinality({q \in S : q.pos <= p.pos}) \in Nat
  <2> TAKE p \in S
  <2>1. {q \in S : q.pos <= p.pos} \in SUBSET S
    OBVIOUS
  <2>2. IsFiniteSet({q \in S : q.pos <= p.pos})
    BY <1>1, <2>1, FS_Subset
  <2> QED BY <2>2, FS_CardinalityType
<1>3. \A p \in S : f[p] \in Pair /\ f[p].doc = p.doc /\ f[p].updated = p.updated
  BY <1>1, <1>2 DEF Pair
<1>4. Relink(S) = {f[p] : p \in S}
  BY DEF Relink
<1>5. f \in Surjection(S, Relink(S))
  BY <1>4 DEF Surjection
<1>6. IsFiniteSet(Relink(S))
  BY <1>1, <1>5, FS_Surjection
<1>7. \A p, q \in Relink(S) : p # q => ~ AttrMatch(p.doc, q.doc)
  <2> TAKE p, q \in Relink(S)
  <2>1. PICK p0 \in S : p = f[p0]
    BY <1>4
  <2>2. PICK q0 \in S : q = f[q0]
    BY <1>4
  <2> QED BY <2>1, <2>2, <1>3 DEF CacheInv
<1>8. Relink(S) \in SUBSET Pair
  BY <1>3, <1>4
<1> QED BY <1>3, <1>4, <1>6, <1>7, <1>8 DEF CacheInv

\* Any pairs of a cache form a cache.
LEMMA SubCacheInv ==
    ASSUME NEW S, CacheInv(S), NEW T \in SUBSET S
    PROVE  CacheInv(T)
BY FS_Subset DEF CacheInv

\* _mongocrypt_cache_evict keeps a cache a cache.
LEMMA EvictInv ==
    ASSUME NEW cache, CacheInv(cache), NEW time \in Nat
    PROVE  CacheInv(CacheEvict(cache, time))
BY SubCacheInv, RelinkInv DEF CacheEvict

\* _mongocrypt_cache_get returns documents that match what was asked for.
LEMMA GetSound ==
    ASSUME NEW cache, CacheInv(cache), NEW time \in Nat, NEW attr
    PROVE  \A d \in CacheGet(cache, attr, time) : d \in Doc /\ AttrMatch(d, attr)
BY EvictInv DEF CacheGet, FindPair, CacheInv, Pair

\* AttrMatch does not depend on the order of its arguments.
LEMMA MatchSymmetric ==
    ASSUME NEW x, NEW y
    PROVE  AttrMatch(x, y) <=> AttrMatch(y, x)
BY DEF AttrMatch

\* _cache_add keeps a cache a cache: what the new pair matches is gone.
LEMMA AddInv ==
    ASSUME NEW cache, CacheInv(cache), NEW time \in Nat, NEW doc \in Doc
    PROVE  CacheInv(CacheAdd(cache, doc, time))
<1> DEFINE rest == RemoveMatches(CacheEvict(cache, time), doc)
           kept == Relink(rest)
           f == [p \in kept |-> [p EXCEPT !.pos = @ + 1]]
           shifted == {f[p] : p \in kept}
           new == [doc |-> doc, updated |-> time, pos |-> 1]
<1>1. CacheInv(rest)
  BY EvictInv, SubCacheInv DEF RemoveMatches
<1>2. CacheInv(kept) /\ \A p \in kept : ~ AttrMatch(p.doc, doc)
  <2>1. \A p \in rest : ~ AttrMatch(p.doc, doc)
    BY DEF RemoveMatches
  <2> QED BY <1>1, <2>1, RelinkInv
<1> HIDE DEF kept, rest
<1>3. \A p \in kept : f[p] \in Pair /\ f[p].doc = p.doc
  BY <1>2 DEF CacheInv, Pair
<1>4. f \in Surjection(kept, shifted)
  BY DEF Surjection
<1>5. IsFiniteSet(shifted)
  BY <1>2, <1>4, FS_Surjection DEF CacheInv
<1>6. CacheAdd(cache, doc, time) = shifted \cup {new}
  BY DEF CacheAdd, kept, rest
<1>7. new \in Pair
  BY DEF Pair
<1>8. IsFiniteSet(shifted \cup {new})
  BY <1>5, FS_AddElement
<1>9. \A p, q \in shifted \cup {new} : p # q => ~ AttrMatch(p.doc, q.doc)
  <2>1. \A p, q \in shifted : p # q => ~ AttrMatch(p.doc, q.doc)
    BY <1>2, <1>3 DEF CacheInv
  <2>2. \A p \in shifted : ~ AttrMatch(p.doc, new.doc) /\ ~ AttrMatch(new.doc, p.doc)
    BY <1>2, <1>3, MatchSymmetric
  <2> QED BY <2>1, <2>2
<1>10. shifted \cup {new} \in SUBSET Pair
  BY <1>3, <1>7
<1> QED BY <1>6, <1>8, <1>9, <1>10 DEF CacheInv

-----------------------------------------------------------------------------
(***************************************************************************)
(* The inductive invariant of one broker.                                  *)
(***************************************************************************)
\* Some key of the broker, decrypted or not, answers a lookup.
Present(b, id, names) ==
    \/ ReturnedMatches(b, id, names) # {}
    \/ \E i \in DOMAIN b.cached : DocMatches(b.cached[i], id, names)

\* A request names a key by its id or, when not in any mode, by one alt name;
\* only satisfying a request by alt name gives it an id.
RequestsShaped(b) ==
    \A r \in b.requests :
        /\ r.id # NoId \/ r.names # {}
        /\ \/ b.any
           \/ r.names = {}
           \/ (\E n \in AltNames : r.names = {n}) /\ (r.satisfied \/ r.id = NoId)

\* A satisfied request has its key in one of the two lists.
RequestsBacked(b) ==
    b.any \/ \A r \in b.requests : r.satisfied =>
                /\ r.names = {} => Present(b, r.id, {})
                /\ \A n \in r.names : Present(b, NoId, {n})

\* No two keys of keys_returned share an id or an alt name.
KeysDistinct(b) ==
    \A i, j \in DOMAIN b.returned :
        i # j => ~ AttrMatch(b.returned[i].doc, b.returned[j].doc)

\* How far decryption has come in each state
DecryptedSoFar(b) ==
    /\ b.state \in {"REQUESTING", "DONE"} =>
            \A i \in DOMAIN b.returned : b.returned[i].decrypted
    /\ b.pc = "decrypt" =>
            \A i \in DOMAIN b.returned : i > b.idx => b.returned[i].decrypted
    /\ b.state \in {"DONE"} \cup KmsStates => AllSatisfied(b)

\* Every key that waits for a token has an auth request, one per KMS id.
AuthCovers(b) ==
    /\ \A i \in DOMAIN b.returned : b.returned[i].needsAuth =>
            \E j \in DOMAIN b.auth : b.auth[j].kmsid = b.returned[i].doc.kmsid
    /\ \A i, j \in DOMAIN b.auth : b.auth[i].kmsid = b.auth[j].kmsid => i = j

\* The filter, once built, covers what is still to be fetched.
FilterCovers(b) ==
    /\ b.state = "REQUESTING" => b.filter = {}
    /\ b.state = "ADDING_DOCS" =>
            \A f \in b.filter : \A r \in b.requests :
                r.satisfied \/ r.id \in f.ids \/ r.names \cap f.names # {}

\* Where the thread can be inside add_doc and kms_done
PcSound(b) ==
    /\ b.state = "ADDING_DOCS_ANY" => b.any
    /\ b.pc = "add" => b.state = "ADDING_DOCS_ANY"
    /\ b.pc = "auth" => b.state = "AUTHENTICATING" /\ b.idx \in 1..Len(b.auth)
    /\ b.pc = "rekey" => b.state = "AUTHENTICATING" /\ b.idx \in 1..Len(b.returned)
    /\ b.pc = "decrypt" =>
            b.state = "DECRYPTING_KEY_MATERIAL" /\ b.idx \in 1..Len(b.returned)
    /\ b.state \in KmsStates => b.returned # <<>>
    /\ b.state = "AUTHENTICATING" => b.auth # <<>>

BrokerOK(b) ==
    /\ RequestsShaped(b)
    /\ RequestsBacked(b)
    /\ KeysDistinct(b)
    /\ DecryptedSoFar(b)
    /\ AuthCovers(b)
    /\ FilterCovers(b)
    /\ PcSound(b)

Good(b) == b \in Broker /\ (b.ok => BrokerOK(b))

-----------------------------------------------------------------------------
(***************************************************************************)
(* One lemma per operator.                                                 *)
(***************************************************************************)
\* A new broker is good.
LEMMA NewGood == Good(NewBroker)
BY DEF Good, NewBroker, Broker, BrokerStates, BrokerOK, RequestsShaped, RequestsBacked,
       KeysDistinct, DecryptedSoFar, AuthCovers, FilterCovers, PcSound, KmsStates

\* Failing is always good: nothing is promised of a failed broker.
LEMMA FailGood ==
    ASSUME NEW b \in Broker
    PROVE  Good(Fail(b))
BY DEF Good, Fail, Broker, BrokerStates

\* Rejecting a malformed document is good for the same reason.
LEMMA MalformedGood ==
    ASSUME NEW b \in Broker
    PROVE  Good(RejectMalformed(b))
BY DEF Good, RejectMalformed, Broker

\* A new request, satisfied by a matching cached document or not.
LEMMA AddRequestGood ==
    ASSUME NEW b \in Broker, BrokerOK(b), b.pc = "idle",
           b.state \in {"REQUESTING", "ADDING_DOCS_ANY"},
           NEW id \in KeyIds \cup {NoId}, NEW names \in SUBSET AltNames,
           id # NoId \/ names # {},
           b.any \/ names = {} \/ \E n \in AltNames : id = NoId /\ names = {n},
           NEW hit \in SUBSET Doc,
           \A d \in hit : AttrMatch(d, [id |-> id, names |-> names])
    PROVE  Good(AddRequest(b, id, names, hit))
<1> DEFINE req == [id |-> id, names |-> names, satisfied |-> hit # {}]
           new == AddRequest(b, id, names, hit)
<1>1. req \in Request /\ req.id = id /\ req.names = names /\ (req.satisfied <=> hit # {})
  BY DEF Request
<1>a. /\ hit = {} => new = [b EXCEPT !.requests = @ \cup {req}]
      /\ hit # {} => new = [b EXCEPT !.requests = @ \cup {req},
                                    !.cached = Append(@, CHOOSE x \in hit : TRUE),
                                    !.iter = Len(b.returned)]
  BY DEF AddRequest
<1> HIDE DEF req, new
<1>2. CASE hit = {}
  <2>1. new = [b EXCEPT !.requests = @ \cup {req}]
    BY <1>2, <1>a
  <2>2. new \in Broker
    BY <2>1, <1>1 DEF Broker
  <2>3. ~ req.satisfied
    BY <1>2, <1>1
  <2>4. RequestsShaped(new) /\ RequestsBacked(new)
    BY <2>1, <2>3, <1>1 DEF BrokerOK, RequestsShaped, RequestsBacked, Broker, Present, ReturnedMatches
  <2>5. KeysDistinct(new) /\ AuthCovers(new) /\ PcSound(new)
    BY <2>1 DEF BrokerOK, KeysDistinct, AuthCovers, PcSound, Broker
  <2>6. DecryptedSoFar(new) /\ FilterCovers(new)
    BY <2>1 DEF BrokerOK, DecryptedSoFar, FilterCovers, Broker, KmsStates
  <2> QED BY <2>2, <2>4, <2>5, <2>6 DEF Good, new, BrokerOK
<1>3. CASE hit # {}
  <2>1. PICK d : d \in hit /\ d = (CHOOSE x \in hit : TRUE)
    BY <1>3
  <2>2. d \in Doc /\ AttrMatch(d, [id |-> id, names |-> names])
    BY <2>1
  <2>3. new = [b EXCEPT !.requests = @ \cup {req}, !.cached = Append(@, d),
                        !.iter = Len(b.returned)]
    BY <1>3, <2>1, <1>a
  <2>a. Append(b.cached, d) \in Seq(Doc) /\ Len(b.returned) \in Nat
    BY <2>2 DEF Broker
  <2>4. new \in Broker
    BY <2>a, <2>3, <1>1 DEF Broker
  <2>5. new.cached = Append(b.cached, d) /\ b.cached \in Seq(Doc)
    BY <2>3 DEF Broker
  <2>6. \A i, m : Present(b, i, m) => Present(new, i, m)
    BY <2>3, <2>5 DEF Present, ReturnedMatches, Broker
  <2>7. \E i \in DOMAIN new.cached : new.cached[i] = d
    BY <2>2, <2>5
  <2>8. b.any \/ (/\ names = {} => Present(new, id, {})
                  /\ \A n \in names : Present(new, NoId, {n}))
    <3>1. names = {} => Present(new, id, {})
      BY <2>2, <2>7 DEF Present, DocMatches, AttrMatch
    <3>2. ASSUME ~ b.any, NEW n \in names
          PROVE  Present(new, NoId, {n})
      BY <2>2, <2>7, <3>2 DEF Present, DocMatches, AttrMatch
    <3> QED BY <3>1, <3>2
  <2>9. RequestsShaped(new)
    BY <2>3, <1>1 DEF BrokerOK, RequestsShaped, Broker
  <2>10. RequestsBacked(new)
    BY <2>3, <2>6, <2>8, <1>1 DEF BrokerOK, RequestsBacked, Broker
  <2>11. KeysDistinct(new) /\ AuthCovers(new) /\ PcSound(new)
    BY <2>3 DEF BrokerOK, KeysDistinct, AuthCovers, PcSound, Broker
  <2>12. DecryptedSoFar(new) /\ FilterCovers(new)
    BY <2>3 DEF BrokerOK, DecryptedSoFar, FilterCovers, Broker, KmsStates
  <2> QED BY <2>4, <2>9, <2>10, <2>11, <2>12 DEF Good, new, BrokerOK
<1> QED BY <1>2, <1>3

\* A change of state, of the filter or of KMS contexts keeps a broker good
\* when the new state is entered under its own conditions.
LEMMA StateOnly ==
    ASSUME NEW b \in Broker, BrokerOK(b), NEW n \in Broker,
           n.any = b.any, n.requests = b.requests, n.returned = b.returned,
           n.cached = b.cached, n.auth = b.auth, n.pc = "idle",
           n.state \in {"REQUESTING", "DONE"} =>
                \A i \in DOMAIN b.returned : b.returned[i].decrypted,
           n.state \in {"DONE"} \cup KmsStates => AllSatisfied(b),
           n.state \in KmsStates => b.returned # <<>>,
           n.state = "AUTHENTICATING" => b.auth # <<>>,
           n.state = "ADDING_DOCS_ANY" => b.any,
           FilterCovers(n)
    PROVE  Good(n)
<1>1. RequestsShaped(n) /\ KeysDistinct(n) /\ AuthCovers(n)
  BY DEF BrokerOK, RequestsShaped, KeysDistinct, AuthCovers
<1>2. RequestsBacked(n)
  BY DEF BrokerOK, RequestsBacked, Present, ReturnedMatches
<1>3. DecryptedSoFar(n) /\ PcSound(n)
  BY DEF DecryptedSoFar, PcSound, AllSatisfied
<1> QED BY <1>1, <1>2, <1>3 DEF Good, BrokerOK

\* request_any: the mode is remembered, and there are no requests yet.
LEMMA RequestAnyGood ==
    ASSUME NEW b \in Broker, BrokerOK(b), b.pc = "idle", b.state = "REQUESTING"
    PROVE  Good(RequestAny(b))
<1>1. CASE b.requests # {}
  BY <1>1, FailGood DEF RequestAny
<1>2. CASE b.requests = {}
  <2> DEFINE new == [b EXCEPT !.state = "ADDING_DOCS_ANY", !.any = TRUE]
  <2>1. new \in Broker
    BY DEF Broker, BrokerStates
  <2>2. BrokerOK(new)
    BY <1>2 DEF Broker, BrokerOK, RequestsShaped, RequestsBacked, KeysDistinct,
           DecryptedSoFar, AuthCovers, FilterCovers, PcSound, KmsStates
  <2> QED BY <1>2, <2>1, <2>2 DEF RequestAny, Good
<1> QED BY <1>1, <1>2

\* requests_done: what was decrypted stays decrypted.
LEMMA RequestsDoneGood ==
    ASSUME NEW b \in Broker, BrokerOK(b), b.pc = "idle", b.state = "REQUESTING"
    PROVE  Good(RequestsDone(b))
<1> DEFINE new == RequestsDone(b)
<1>1. /\ new \in Broker /\ new.state \in {"DONE", "ADDING_DOCS"}
      /\ new.state = "DONE" => AllSatisfied(b)
      /\ new.any = b.any /\ new.requests = b.requests /\ new.returned = b.returned
      /\ new.cached = b.cached /\ new.auth = b.auth /\ new.pc = b.pc
      /\ new.filter = b.filter
  BY DEF RequestsDone, Broker, BrokerStates
<1>2. \A i \in DOMAIN b.returned : b.returned[i].decrypted
  BY DEF BrokerOK, DecryptedSoFar
<1>3. FilterCovers(new)
  BY <1>1 DEF BrokerOK, FilterCovers
<1> QED BY <1>1, <1>2, <1>3, StateOnly DEF KmsStates

\* filter: a filter built now covers every unsatisfied request.
LEMMA FilterGood ==
    ASSUME NEW b \in Broker, BrokerOK(b), b.pc = "idle", b.state = "ADDING_DOCS"
    PROVE  Good(Filter(b))
<1>1. CASE b.filter # {}
  BY <1>1 DEF Filter, Good
<1>2. CASE b.filter = {}
  <2> DEFINE open == {r \in b.requests : ~ r.satisfied}
             f == [ids |-> {r.id : r \in {q \in open : q.id # NoId}},
                   names |-> UNION {r.names : r \in open}]
             new == Filter(b)
  <2>1. new = [b EXCEPT !.filter = {f}]
    BY <1>2 DEF Filter
  <2>2. f \in KeyFilter
    BY DEF Broker, KeyFilter, Request
  <2>3. \A r \in b.requests : r.satisfied \/ r.id \in f.ids \/ r.names \cap f.names # {}
    BY DEF BrokerOK, RequestsShaped
  <2> HIDE DEF f
  <2>4. /\ new \in Broker /\ new.state = "ADDING_DOCS" /\ new.filter = {f}
        /\ new.any = b.any /\ new.requests = b.requests /\ new.returned = b.returned
        /\ new.cached = b.cached /\ new.auth = b.auth /\ new.pc = b.pc
    BY <2>1, <2>2 DEF Broker
  <2>5. FilterCovers(new)
    BY <2>3, <2>4 DEF FilterCovers
  <2> QED BY <2>4, <2>5, StateOnly DEF KmsStates
<1> QED BY <1>1, <1>2

\* docs_done: nothing is left undecrypted in the state DONE, and a key that
\* waits for a token has an auth request in the state AUTHENTICATING.
LEMMA DocsDoneGood ==
    ASSUME NEW b \in Broker, BrokerOK(b), b.pc = "idle",
           b.state \in {"ADDING_DOCS", "ADDING_DOCS_ANY"}
    PROVE  Good(DocsDone(b))
<1>1. CASE ~ AllSatisfied(b)
  BY <1>1, FailGood DEF DocsDone
<1>2. CASE AllSatisfied(b)
  <2> DEFINE new == DocsDone(b)
             s == IF \E i \in DOMAIN b.returned : b.returned[i].needsAuth
                  THEN "AUTHENTICATING"
                  ELSE IF \E i \in DOMAIN b.returned : ~ b.returned[i].decrypted
                  THEN "DECRYPTING_KEY_MATERIAL"
                  ELSE "DONE"
  <2>1. new = [b EXCEPT !.state = s]
    BY <1>2 DEF DocsDone
  <2>2. /\ s \in {"DONE"} \cup KmsStates
        /\ s = "DONE" => \A i \in DOMAIN b.returned : b.returned[i].decrypted
        /\ s \in KmsStates => \E i \in DOMAIN b.returned : TRUE
        /\ s = "AUTHENTICATING" => \E i \in DOMAIN b.returned : b.returned[i].needsAuth
    BY DEF KmsStates
  <2> HIDE DEF s
  <2>3. /\ new \in Broker /\ new.state = s
        /\ new.any = b.any /\ new.requests = b.requests /\ new.returned = b.returned
        /\ new.cached = b.cached /\ new.auth = b.auth /\ new.pc = b.pc
    BY <2>1, <2>2 DEF Broker, BrokerStates, KmsStates
  <2>4. s \in KmsStates => b.returned # <<>>
    BY <2>2
  <2>5. s = "AUTHENTICATING" => b.auth # <<>>
    BY <2>2 DEF BrokerOK, AuthCovers
  <2>6. FilterCovers(new)
    BY <2>2, <2>3 DEF FilterCovers, KmsStates
  <2> QED BY <1>2, <2>2, <2>3, <2>4, <2>5, <2>6, StateOnly DEF KmsStates
<1> QED BY <1>1, <1>2

\* restart: only a done broker restarts.
LEMMA RestartGood ==
    ASSUME NEW b \in Broker, BrokerOK(b), b.pc = "idle", b.state = "DONE"
    PROVE  Good(Restart(b))
<1> DEFINE new == Restart(b)
<1>1. /\ new \in Broker /\ new.state = "REQUESTING" /\ new.filter = {}
      /\ new.any = b.any /\ new.requests = b.requests /\ new.returned = b.returned
      /\ new.cached = b.cached /\ new.auth = b.auth /\ new.pc = b.pc
  BY DEF Restart, Broker, BrokerStates
<1>2. \A i \in DOMAIN b.returned : b.returned[i].decrypted
  BY DEF BrokerOK, DecryptedSoFar
<1>3. FilterCovers(new)
  BY <1>1 DEF FilterCovers
<1> QED BY <1>1, <1>2, <1>3, StateOnly DEF KmsStates

\* Between the two halves of add_doc in any mode nothing but pc changes.
LEMMA AddPcGood ==
    ASSUME NEW b \in Broker, BrokerOK(b), b.state = "ADDING_DOCS_ANY",
           NEW pc \in {"idle", "add"}
    PROVE  /\ [b EXCEPT !.pc = pc] \in Broker
           /\ BrokerOK([b EXCEPT !.pc = pc])
<1> DEFINE new == [b EXCEPT !.pc = pc]
<1>1. /\ new \in Broker /\ new.state = b.state /\ new.any = b.any
      /\ new.requests = b.requests /\ new.returned = b.returned
      /\ new.cached = b.cached /\ new.auth = b.auth /\ new.filter = b.filter
      /\ new.pc = pc
  BY DEF Broker
<1> HIDE DEF new
<1>2. RequestsShaped(new) /\ KeysDistinct(new) /\ AuthCovers(new) /\ FilterCovers(new)
  BY <1>1 DEF BrokerOK, RequestsShaped, KeysDistinct, AuthCovers, FilterCovers
<1>3. RequestsBacked(new)
  BY <1>1 DEF BrokerOK, RequestsBacked, Present, ReturnedMatches
<1>4. DecryptedSoFar(new) /\ PcSound(new)
  BY <1>1 DEF BrokerOK, DecryptedSoFar, PcSound, KmsStates
<1> QED BY <1>1, <1>2, <1>3, <1>4 DEF BrokerOK, new

\* add_doc: a document that does not match an earlier one joins the list,
\* satisfies the requests it matches and has an auth request if it needs one.
LEMMA AcceptDocGood ==
    ASSUME NEW b \in Broker, BrokerOK(b), b.pc = "idle",
           b.state \in {"ADDING_DOCS", "ADDING_DOCS_ANY"},
           NEW doc \in Doc, NEW token \in BOOLEAN, NEW valid \in BOOLEAN
    PROVE  Good(AcceptDoc(b, doc, token, valid))
<1> DEFINE entry == NewEntry(doc, token)
           grown == PrependReturned(b, entry)
           auth == WithAuthRequest(b.auth, entry)
           reqs == MarkSatisfied(b.requests, doc)
           new == AcceptDoc(b, doc, token, valid)
<1>1. entry \in KeyReturned /\ entry.doc = doc
  BY KeyBrokerAssumption DEF NewEntry, KeyReturned, Doc, Kms, KmsUnset, KmsNew, OAuthProviders
<1> HIDE DEF entry
<1>2. /\ Append(b.returned, entry) \in Seq(KeyReturned)
      /\ Len(b.returned) + 1 \in Nat
      /\ Len(Append(b.returned, entry)) = Len(b.returned) + 1
      /\ b.returned \in Seq(KeyReturned)
  BY <1>1 DEF Broker
<1>3. /\ grown \in Broker /\ grown.state = b.state /\ grown.any = b.any /\ grown.ok = b.ok
      /\ grown.requests = b.requests /\ grown.cached = b.cached /\ grown.pc = b.pc
      /\ grown.auth = b.auth /\ grown.filter = b.filter
      /\ grown.returned = Append(b.returned, entry)
  BY <1>2 DEF PrependReturned, Broker
<1> HIDE DEF grown
<1>4. CASE ReturnedMatches(b, doc.id, doc.names) # {}
  BY <1>4, FailGood DEF AcceptDoc
<1>5. CASE ReturnedMatches(b, doc.id, doc.names) = {} /\ (doc.kmsid \notin Configured \/ ~ valid)
  BY <1>5, <1>3, FailGood DEF AcceptDoc, grown, entry
<1>6. CASE ReturnedMatches(b, doc.id, doc.names) = {} /\ ~ (doc.kmsid \notin Configured \/ ~ valid)
  <2>1. new = [grown EXCEPT !.auth = WithAuthRequest(@, entry),
                            !.requests = MarkSatisfied(@, doc)]
    BY <1>6 DEF AcceptDoc, grown, entry
  <2>2. /\ auth \in Seq(AuthRequest)
        /\ \A i \in DOMAIN b.auth : i \in DOMAIN auth /\ auth[i] = b.auth[i]
        /\ entry.needsAuth => \E j \in DOMAIN auth : auth[j].kmsid = doc.kmsid
        /\ \A i, j \in DOMAIN auth : auth[i].kmsid = auth[j].kmsid => i = j
    <3> DEFINE ar == [kmsid |-> entry.doc.kmsid, returned |-> FALSE,
                      kms |-> KmsNew, since |-> -1]
    <3>1. ar \in AuthRequest /\ ar.kmsid = doc.kmsid
      BY <1>1 DEF AuthRequest, Kms, KmsNew, Doc
    <3> HIDE DEF ar
    <3>2. b.auth \in Seq(AuthRequest)
      BY DEF Broker
    <3>3. \A i, j \in DOMAIN b.auth : b.auth[i].kmsid = b.auth[j].kmsid => i = j
      BY DEF BrokerOK, AuthCovers
    <3>4. CASE entry.needsAuth /\ \A i \in DOMAIN b.auth : b.auth[i].kmsid # doc.kmsid
      <4>1. auth = Append(b.auth, ar)
        BY <3>4, <1>1 DEF WithAuthRequest, ar
      <4>2. /\ auth \in Seq(AuthRequest) /\ Len(auth) = Len(b.auth) + 1
            /\ auth[Len(b.auth) + 1] = ar
            /\ \A i \in DOMAIN b.auth : i \in DOMAIN auth /\ auth[i] = b.auth[i]
            /\ DOMAIN auth = DOMAIN b.auth \cup {Len(b.auth) + 1}
        BY <4>1, <3>1, <3>2
      <4> HIDE DEF auth
      <4> QED BY <4>2, <3>1, <3>3, <3>4
    <3>5. CASE ~ (entry.needsAuth /\ \A i \in DOMAIN b.auth : b.auth[i].kmsid # doc.kmsid)
      <4>1. auth = b.auth
        BY <3>5, <1>1 DEF WithAuthRequest
      <4> QED BY <4>1, <3>2, <3>3, <3>5
    <3> QED BY <3>4, <3>5
  <2>3. /\ reqs \in SUBSET Request
        /\ \A r \in reqs : \E q \in b.requests :
             /\ r.names = q.names
             /\ \/ /\ q.names \cap doc.names # {}
                   /\ r.satisfied /\ r.id = doc.id
                \/ /\ q.names \cap doc.names = {}
                   /\ r.id = q.id
                   /\ r.satisfied <=> (q.satisfied \/ q.id = doc.id)
    <3> DEFINE mark(q) == IF q.names \cap doc.names # {}
                          THEN [q EXCEPT !.satisfied = TRUE, !.id = doc.id]
                          ELSE [q EXCEPT !.satisfied = @ \/ q.id = doc.id]
    <3>1. ASSUME NEW q \in b.requests
          PROVE  /\ mark(q) \in Request
                 /\ mark(q).names = q.names
                 /\ q.names \cap doc.names # {} => mark(q).satisfied /\ mark(q).id = doc.id
                 /\ q.names \cap doc.names = {} =>
                        /\ mark(q).id = q.id
                        /\ mark(q).satisfied <=> (q.satisfied \/ q.id = doc.id)
      <4>1. q \in Request
        BY DEF Broker
      <4>2. CASE q.names \cap doc.names # {}
        BY <4>1, <4>2 DEF Request, Doc
      <4>3. CASE q.names \cap doc.names = {}
        <5> DEFINE sat == q.satisfied \/ q.id = doc.id
        <5>1. mark(q) = [q EXCEPT !.satisfied = sat] /\ sat \in BOOLEAN
          BY <4>1, <4>3 DEF Request
        <5>2. [q EXCEPT !.satisfied = sat] \in Request
          BY <4>1, <5>1 DEF Request
        <5> QED BY <4>1, <4>3, <5>1, <5>2 DEF Request
      <4> QED BY <4>2, <4>3
    <3>2. reqs = {mark(q) : q \in b.requests}
      BY DEF MarkSatisfied
    <3> HIDE DEF mark, reqs
    <3> QED BY <3>1, <3>2
  <2>a. new = [grown EXCEPT !.auth = auth, !.requests = reqs]
    BY <2>1, <1>3
  <2> HIDE DEF auth, reqs
  <2>4. /\ new \in Broker /\ new.state = b.state /\ new.any = b.any
        /\ new.requests = reqs /\ new.cached = b.cached /\ new.pc = "idle"
        /\ new.auth = auth /\ new.filter = b.filter
        /\ new.returned = Append(b.returned, entry)
    BY <2>a, <2>2, <2>3, <1>3 DEF Broker
  <2> HIDE DEF new
  <2>5. /\ \A i \in DOMAIN b.returned : i \in DOMAIN new.returned /\ new.returned[i] = b.returned[i]
        /\ Len(b.returned) + 1 \in DOMAIN new.returned
        /\ new.returned[Len(b.returned) + 1] = entry
        /\ DOMAIN new.returned = DOMAIN b.returned \cup {Len(b.returned) + 1}
    BY <2>4, <1>1, <1>2
  <2>6. RequestsShaped(new)
    <3>1. SUFFICES ASSUME NEW r \in reqs
                   PROVE  /\ r.id # NoId \/ r.names # {}
                          /\ \/ b.any
                             \/ r.names = {}
                             \/ (\E n \in AltNames : r.names = {n}) /\ (r.satisfied \/ r.id = NoId)
      BY <2>4 DEF RequestsShaped
    <3> QED BY <2>3, KeyCacheAssumption DEF BrokerOK, RequestsShaped, Doc
  <2>7. RequestsBacked(new)
    <3>1. SUFFICES ASSUME ~ b.any, NEW r \in reqs, r.satisfied
                   PROVE  /\ r.names = {} => Present(new, r.id, {})
                          /\ \A n \in r.names : Present(new, NoId, {n})
      BY <2>4 DEF RequestsBacked
    <3>2. \A i, m : Present(b, i, m) => Present(new, i, m)
      BY <2>4, <2>5 DEF Present, ReturnedMatches
    <3>3. \A i, m : DocMatches(doc, i, m) => Present(new, i, m)
      BY <2>5, <1>1 DEF Present, ReturnedMatches
    <3> QED BY <3>1, <3>2, <3>3, <2>3, KeyCacheAssumption
            DEF BrokerOK, RequestsBacked, RequestsShaped, DocMatches, Doc
  <2>8. KeysDistinct(new)
    <3>1. \A i \in DOMAIN b.returned : ~ DocMatches(b.returned[i].doc, doc.id, doc.names)
      BY <1>6 DEF ReturnedMatches
    <3>2. \A i \in DOMAIN b.returned : /\ ~ AttrMatch(b.returned[i].doc, doc)
                                       /\ ~ AttrMatch(doc, b.returned[i].doc)
      BY <3>1 DEF DocMatches, AttrMatch
    <3> QED BY <3>2, <2>5, <1>1 DEF BrokerOK, KeysDistinct
  <2>9. AuthCovers(new)
    <3>1. ASSUME NEW i \in DOMAIN new.returned, new.returned[i].needsAuth
          PROVE  \E j \in DOMAIN auth : auth[j].kmsid = new.returned[i].doc.kmsid
      BY <3>1, <2>2, <2>5, <1>1 DEF BrokerOK, AuthCovers
    <3> QED BY <3>1, <2>2, <2>4 DEF AuthCovers
  <2>10. FilterCovers(new)
    <3>1. CASE b.state = "ADDING_DOCS"
      <4>1. \A f \in b.filter : \A q \in b.requests :
                q.satisfied \/ q.id \in f.ids \/ q.names \cap f.names # {}
        BY <3>1 DEF BrokerOK, FilterCovers
      <4>2. \A f \in b.filter : \A r \in reqs :
                r.satisfied \/ r.id \in f.ids \/ r.names \cap f.names # {}
        BY <4>1, <2>3
      <4> QED BY <4>2, <3>1, <2>4 DEF FilterCovers
    <3>2. CASE b.state # "ADDING_DOCS"
      BY <3>2, <2>4 DEF FilterCovers
    <3> QED BY <3>1, <3>2
  <2>11. DecryptedSoFar(new) /\ PcSound(new)
    BY <2>4 DEF BrokerOK, DecryptedSoFar, PcSound, KmsStates
  <2> QED BY <2>4, <2>6, <2>7, <2>8, <2>9, <2>10, <2>11 DEF Good, new, BrokerOK
<1> QED BY <1>4, <1>5, <1>6

\* The first match in list order exists: positions are bounded.
LEMMA ListFirstIn ==
    ASSUME NEW n \in Nat, NEW S \in SUBSET (1..n), S # {}
    PROVE  /\ ListFirst(S) \in S
           /\ \A j \in S : j <= ListFirst(S)
<1> DEFINE T == {n - i : i \in S}
           R == OpToRel(<, Nat)
<1>1. T \subseteq Nat /\ T # {}
  <2>1. \A i \in S : n - i \in Nat
    OBVIOUS
  <2> QED BY <2>1
<1>2. IsWellFoundedOn(R, Nat)
  BY NatLessThanWellFounded
<1> HIDE DEF T
<1>3. \E x \in T : \A y \in T : ~ (<<y, x>> \in R)
  <2> HIDE DEF R
  <2> QED BY <1>1, <1>2, WFMin
<1>4. \E x \in T : \A y \in T : ~ (y < x)
  BY <1>1, <1>3 DEF OpToRel
<1>5. PICK x \in T : \A y \in T : ~ (y < x)
  BY <1>4
<1>6. PICK i \in S : x = n - i
  BY DEF T
<1>7. \A j \in S : n - j \in T
  BY DEF T
<1>8. \A j \in S : j <= i
  BY <1>5, <1>6, <1>7
<1> QED BY <1>8 DEF ListFirst

(***************************************************************************)
(* A step that only hands out, completes or consumes KMS contexts keeps a  *)
(* broker good: no key leaves the list or is undecrypted again, and the    *)
(* new state and program counter are entered under their own conditions.   *)
(***************************************************************************)
LEMMA KmsStepGood ==
    ASSUME NEW b \in Broker, BrokerOK(b), b.state \in KmsStates,
           NEW n \in Broker, n.state \in {"DONE"} \cup KmsStates,
           n.any = b.any, n.requests = b.requests, n.cached = b.cached,
           DOMAIN n.returned = DOMAIN b.returned,
           \A i \in DOMAIN b.returned :
                /\ n.returned[i].doc = b.returned[i].doc
                /\ n.returned[i].needsAuth => b.returned[i].needsAuth,
           DOMAIN n.auth = DOMAIN b.auth,
           \A i \in DOMAIN b.auth : n.auth[i].kmsid = b.auth[i].kmsid,
           n.state = "DONE" => \A i \in DOMAIN b.returned : n.returned[i].decrypted,
           n.pc = "decrypt" =>
                \A i \in DOMAIN b.returned : i > n.idx => n.returned[i].decrypted,
           PcSound(n)
    PROVE  Good(n)
<1>1. RequestsShaped(n)
  BY DEF BrokerOK, RequestsShaped
<1>2. RequestsBacked(n)
  <2>1. \A i, m : Present(b, i, m) => Present(n, i, m)
    BY DEF Present, ReturnedMatches
  <2> QED BY <2>1 DEF BrokerOK, RequestsBacked
<1>3. KeysDistinct(n)
  BY DEF BrokerOK, KeysDistinct
<1>4. DecryptedSoFar(n)
  <2>1. AllSatisfied(b)
    BY DEF BrokerOK, DecryptedSoFar
  <2> QED BY <2>1 DEF DecryptedSoFar, AllSatisfied, KmsStates
<1>5. AuthCovers(n)
  BY DEF BrokerOK, AuthCovers
<1>6. FilterCovers(n)
  BY DEF FilterCovers, KmsStates
<1> QED BY <1>1, <1>2, <1>3, <1>4, <1>5, <1>6 DEF Good, BrokerOK

\* next_kms hands out one context and moves the iterator.
LEMMA NextKmsGood ==
    ASSUME NEW b \in Broker, BrokerOK(b), b.pc = "idle", b.state \in KmsStates
    PROVE  Good(NextKms(b))
<1> DEFINE new == NextKms(b)
<1>0. b.returned \in Seq(KeyReturned) /\ b.auth \in Seq(AuthRequest) /\ b.iter \in Nat
  BY DEF Broker
<1>h. ASSUME NEW k \in Kms PROVE KmsHandOut(k) \in Kms
  BY DEF KmsHandOut, Kms
<1>1. CASE b.state = "AUTHENTICATING" /\ b.auth = <<>>
  BY <1>1, FailGood DEF NextKms
<1>2. CASE b.state = "AUTHENTICATING" /\ b.auth # <<>>
  <2> DEFINE auth == [i \in DOMAIN b.auth |->
                        IF <<"auth", i>> \in NextKmsRef(b)
                        THEN [b.auth[i] EXCEPT !.returned = TRUE, !.kms = KmsHandOut(@)]
                        ELSE b.auth[i]]
  <2>1. new = [b EXCEPT !.auth = auth]
    BY <1>2 DEF NextKms
  <2>2. \A i \in DOMAIN b.auth : auth[i] \in AuthRequest /\ auth[i].kmsid = b.auth[i].kmsid
    <3>1. SUFFICES ASSUME NEW i \in DOMAIN b.auth
                   PROVE  auth[i] \in AuthRequest /\ auth[i].kmsid = b.auth[i].kmsid
      OBVIOUS
    <3>2. b.auth[i] \in AuthRequest
      BY <1>0
    <3>3. PICK k \in Kms : k = KmsHandOut(b.auth[i].kms)
      BY <3>2, <1>h DEF AuthRequest
    <3>4. auth[i] = [b.auth[i] EXCEPT !.returned = TRUE, !.kms = k] \/ auth[i] = b.auth[i]
      BY <3>3
    <3> QED BY <3>2, <3>4 DEF AuthRequest
  <2>3. DOMAIN auth = DOMAIN b.auth /\ auth \in Seq(AuthRequest)
    <3>1. auth = [i \in DOMAIN b.auth |-> auth[i]]
      OBVIOUS
    <3>2. DOMAIN b.auth = 1..Len(b.auth) /\ Len(b.auth) \in Nat
      BY <1>0
    <3> HIDE DEF auth
    <3>3. auth \in [1..Len(b.auth) -> AuthRequest]
      BY <2>2, <3>1, <3>2
    <3> QED BY <3>2, <3>3
  <2> HIDE DEF auth
  <2>4. /\ new \in Broker /\ new.state = b.state /\ new.any = b.any
        /\ new.requests = b.requests /\ new.cached = b.cached /\ new.pc = "idle"
        /\ new.returned = b.returned /\ new.auth = auth
    BY <2>1, <2>3 DEF Broker
  <2> HIDE DEF new
  <2>5. PcSound(new)
    BY <1>2, <2>3, <2>4, <1>0 DEF BrokerOK, PcSound, KmsStates
  <2> QED BY <1>2, <2>2, <2>3, <2>4, <2>5, KmsStepGood DEF new, KmsStates
<1>3. CASE b.state # "AUTHENTICATING" /\ KeysToRetry(b) # {}
  <2> DEFINE i == ListFirst(KeysToRetry(b))
             kms == KmsHandOut(b.returned[i].kms)
             entry == [b.returned[i] EXCEPT !.kms = kms]
             returned == [b.returned EXCEPT ![i] = entry]
  <2>1. i \in DOMAIN b.returned
    <3>1. KeysToRetry(b) \in SUBSET (1..Len(b.returned)) /\ Len(b.returned) \in Nat
      BY <1>0 DEF KeysToRetry
    <3>2. i \in KeysToRetry(b)
      <4> HIDE DEF i
      <4> QED BY <3>1, <1>3, ListFirstIn DEF i
    <3> QED BY <3>2 DEF KeysToRetry
  <2>2. new = [b EXCEPT !.returned = returned]
    BY <1>3 DEF NextKms
  <2> HIDE DEF i
  <2>3. kms \in Kms
    <3>1. b.returned[i] \in KeyReturned
      BY <2>1, <1>0
    <3>2. b.returned[i].kms \in Kms
      BY <3>1 DEF KeyReturned
    <3> QED BY <3>2, <1>h
  <2> HIDE DEF kms
  <2>4. /\ entry \in KeyReturned /\ entry.doc = b.returned[i].doc
        /\ entry.needsAuth = b.returned[i].needsAuth
        /\ entry.decrypted = b.returned[i].decrypted
    <3>1. b.returned[i] \in KeyReturned
      BY <2>1, <1>0
    <3> QED BY <3>1, <2>3 DEF KeyReturned
  <2> HIDE DEF entry
  <2>5. /\ returned \in Seq(KeyReturned) /\ DOMAIN returned = DOMAIN b.returned
        /\ Len(returned) = Len(b.returned)
        /\ \A j \in DOMAIN b.returned :
              /\ returned[j].doc = b.returned[j].doc
              /\ returned[j].needsAuth = b.returned[j].needsAuth
    BY <2>1, <2>4, <1>0
  <2> HIDE DEF returned
  <2>6. /\ new \in Broker /\ new.state = b.state /\ new.any = b.any
        /\ new.requests = b.requests /\ new.cached = b.cached /\ new.pc = "idle"
        /\ new.returned = returned /\ new.auth = b.auth
    BY <2>2, <2>5 DEF Broker
  <2> HIDE DEF new
  <2>7. PcSound(new)
    BY <1>3, <2>5, <2>6, <1>0 DEF BrokerOK, PcSound, KmsStates
  <2> QED BY <1>3, <2>5, <2>6, <2>7, KmsStepGood DEF new, KmsStates
<1>4. CASE b.state # "AUTHENTICATING" /\ KeysToRetry(b) = {}
  <2> DEFINE iter == IF KeysAhead(b) = {} THEN 0 ELSE ListFirst(KeysAhead(b)) - 1
  <2>1. new = [b EXCEPT !.iter = iter]
    BY <1>4 DEF NextKms
  <2>2. iter \in Nat
    <3>1. KeysAhead(b) \in SUBSET (1..Len(b.returned)) /\ Len(b.returned) \in Nat
      BY <1>0 DEF KeysAhead
    <3>2. CASE KeysAhead(b) # {}
      <4>1. ListFirst(KeysAhead(b)) \in 1..Len(b.returned)
        BY <3>1, <3>2, ListFirstIn
      <4> QED BY <3>1, <3>2, <4>1
    <3> QED BY <3>2
  <2> HIDE DEF iter
  <2>3. /\ new \in Broker /\ new.state = b.state /\ new.any = b.any
        /\ new.requests = b.requests /\ new.cached = b.cached /\ new.pc = "idle"
        /\ new.returned = b.returned /\ new.auth = b.auth
    BY <2>1, <2>2 DEF Broker
  <2> HIDE DEF new
  <2>4. PcSound(new)
    BY <1>4, <2>3 DEF BrokerOK, PcSound, KmsStates
  <2> QED BY <1>4, <2>3, <2>4, KmsStepGood DEF new, KmsStates
<1> QED BY <1>1, <1>2, <1>3, <1>4

\* What feeding a KMS context makes of it is a KMS context.
LEMMA KmsOutcomesType ==
    ASSUME NEW kms \in Kms, NEW kmsid \in KmsIds
    PROVE  KmsOutcomes(kms, kmsid) \subseteq Kms
BY KmsRequestAssumption DEF KmsOutcomes, KmsEnds, Kms

\* The KMS context of an auth request advances.
LEMMA AuthKmsGood ==
    ASSUME NEW b \in Broker, BrokerOK(b), b.pc = "idle", b.state \in KmsStates,
           NEW i \in DOMAIN b.auth, NEW kms \in Kms
    PROVE  Good([b EXCEPT !.auth[i].kms = kms])
<1> DEFINE entry == [b.auth[i] EXCEPT !.kms = kms]
           auth == [b.auth EXCEPT ![i] = entry]
           new == [b EXCEPT !.auth = auth]
<1>0. b.auth \in Seq(AuthRequest) /\ b.auth[i] \in AuthRequest
  BY DEF Broker
<1>1. entry \in AuthRequest /\ entry.kmsid = b.auth[i].kmsid
  BY <1>0 DEF AuthRequest
<1> HIDE DEF entry
<1>2. /\ auth \in Seq(AuthRequest) /\ DOMAIN auth = DOMAIN b.auth
      /\ Len(auth) = Len(b.auth)
      /\ \A j \in DOMAIN b.auth : auth[j].kmsid = b.auth[j].kmsid
  BY <1>0, <1>1
<1> HIDE DEF auth
<1>3. /\ new \in Broker /\ new.state = b.state /\ new.any = b.any
      /\ new.requests = b.requests /\ new.cached = b.cached /\ new.pc = "idle"
      /\ new.returned = b.returned /\ new.auth = auth
  BY <1>2 DEF Broker
<1> HIDE DEF new
<1>4. PcSound(new)
  BY <1>0, <1>2, <1>3 DEF BrokerOK, PcSound, KmsStates
<1>5. Good(new)
  BY <1>2, <1>3, <1>4, KmsStepGood DEF KmsStates
<1> QED BY <1>5 DEF new, auth, entry

\* The KMS context of a key advances.
LEMMA KeyKmsGood ==
    ASSUME NEW b \in Broker, BrokerOK(b), b.pc = "idle", b.state \in KmsStates,
           NEW i \in DOMAIN b.returned, NEW kms \in Kms
    PROVE  Good([b EXCEPT !.returned[i].kms = kms])
<1> DEFINE entry == [b.returned[i] EXCEPT !.kms = kms]
           returned == [b.returned EXCEPT ![i] = entry]
           new == [b EXCEPT !.returned = returned]
<1>0. b.returned \in Seq(KeyReturned) /\ b.returned[i] \in KeyReturned
  BY DEF Broker
<1>1. /\ entry \in KeyReturned /\ entry.doc = b.returned[i].doc
      /\ entry.needsAuth = b.returned[i].needsAuth
  BY <1>0 DEF KeyReturned
<1> HIDE DEF entry
<1>2. /\ returned \in Seq(KeyReturned) /\ DOMAIN returned = DOMAIN b.returned
      /\ Len(returned) = Len(b.returned)
      /\ \A j \in DOMAIN b.returned : /\ returned[j].doc = b.returned[j].doc
                                      /\ returned[j].needsAuth = b.returned[j].needsAuth
  BY <1>0, <1>1
<1> HIDE DEF returned
<1>3. /\ new \in Broker /\ new.state = b.state /\ new.any = b.any
      /\ new.requests = b.requests /\ new.cached = b.cached /\ new.pc = "idle"
      /\ new.returned = returned /\ new.auth = b.auth
  BY <1>2 DEF Broker
<1> HIDE DEF new
<1>4. PcSound(new)
  BY <1>0, <1>2, <1>3 DEF BrokerOK, PcSound, KmsStates
<1>5. Good(new)
  BY <1>2, <1>3, <1>4, KmsStepGood DEF KmsStates
<1> QED BY <1>5 DEF new, returned, entry

\* kms_done starts with the first auth request or the first key of the list.
LEMMA KmsDoneEnterGood ==
    ASSUME NEW b \in Broker, BrokerOK(b), b.pc = "idle", b.state \in KmsStates
    PROVE  Good(KmsDoneEnter(b))
<1> DEFINE new == KmsDoneEnter(b)
<1>0. b.returned \in Seq(KeyReturned) /\ b.auth \in Seq(AuthRequest)
  BY DEF Broker
<1>1. Len(b.returned) \in 1..Len(b.returned) /\ (b.auth # <<>> => 1 \in 1..Len(b.auth))
  BY <1>0 DEF BrokerOK, PcSound
<1>2. \A i \in DOMAIN b.returned : ~ (i > Len(b.returned))
  BY <1>0
<1>3. /\ new \in Broker /\ new.state = b.state /\ new.any = b.any
      /\ new.requests = b.requests /\ new.cached = b.cached
      /\ new.returned = b.returned /\ new.auth = b.auth
      /\ \/ b.state = "AUTHENTICATING" /\ new.pc = "auth" /\ new.idx = 1
         \/ b.state # "AUTHENTICATING" /\ new.pc = "decrypt" /\ new.idx = Len(b.returned)
  <2>1. CASE b.state = "AUTHENTICATING"
    <3>1. new = [b EXCEPT !.pc = "auth", !.idx = 1]
      BY <2>1 DEF KmsDoneEnter
    <3> HIDE DEF new
    <3>2. new \in Broker
      BY <3>1 DEF Broker
    <3> QED BY <2>1, <3>1, <3>2 DEF Broker
  <2>2. CASE b.state # "AUTHENTICATING"
    <3> DEFINE n == Len(b.returned)
    <3>1. new = [b EXCEPT !.pc = "decrypt", !.idx = n]
      BY <2>2 DEF KmsDoneEnter
    <3>2. n \in Nat
      BY <1>0
    <3> HIDE DEF n
    <3> QED BY <2>2, <3>1, <3>2 DEF Broker, n
  <2> QED BY <2>1, <2>2
<1> HIDE DEF new
<1>4. PcSound(new)
  BY <1>1, <1>3 DEF BrokerOK, PcSound, KmsStates
<1> QED BY <1>2, <1>3, <1>4, KmsStepGood DEF new, KmsStates

\* kms_done has cached the token of one auth request.
LEMMA AuthAppliedGood ==
    ASSUME NEW b \in Broker, BrokerOK(b), b.pc = "auth", NEW t \in Nat
    PROVE  /\ Good(AuthApplied(b, t))
           /\ AuthApplied(b, t).auth[b.idx].since \in Nat
<1> DEFINE i == b.idx
           since == IF b.auth[i].since = -1 THEN t ELSE b.auth[i].since
           entry == [b.auth[i] EXCEPT !.since = since]
           auth == [b.auth EXCEPT ![i] = entry]
           last == ~ (i < Len(b.auth))
           new == AuthApplied(b, t)
<1>0. /\ b.auth \in Seq(AuthRequest) /\ b.returned \in Seq(KeyReturned)
      /\ i \in 1..Len(b.auth) /\ b.state = "AUTHENTICATING"
      /\ i \in DOMAIN b.auth /\ b.auth[i] \in AuthRequest
      /\ b.returned # <<>> /\ b.auth # <<>>
  BY DEF Broker, BrokerOK, PcSound, KmsStates
<1>1. since \in Nat
  BY <1>0 DEF AuthRequest
<1>a. /\ new = [b EXCEPT !.auth = auth, !.idx = @ + 1] \/ last
      /\ new = [b EXCEPT !.auth = auth, !.pc = "rekey", !.idx = Len(b.returned)] \/ ~ last
  BY DEF AuthApplied, Broker
<1> HIDE DEF since, new
<1>2. entry \in AuthRequest /\ entry.kmsid = b.auth[i].kmsid /\ entry.since = since
  BY <1>0, <1>1 DEF AuthRequest
<1> HIDE DEF entry
<1>3. /\ auth \in Seq(AuthRequest) /\ DOMAIN auth = DOMAIN b.auth
      /\ Len(auth) = Len(b.auth) /\ auth[i] = entry
      /\ \A j \in DOMAIN b.auth : auth[j].kmsid = b.auth[j].kmsid
  BY <1>0, <1>2
<1> HIDE DEF auth
<1>4. Len(b.returned) \in 1..Len(b.returned) /\ i \in Nat /\ Len(b.auth) \in Nat
  BY <1>0
<1>5. /\ new \in Broker /\ new.state = b.state /\ new.any = b.any
      /\ new.requests = b.requests /\ new.cached = b.cached
      /\ new.returned = b.returned /\ new.auth = auth
      /\ \/ new.pc = "auth" /\ new.idx = i + 1 /\ i < Len(b.auth)
         \/ new.pc = "rekey" /\ new.idx = Len(b.returned)
  <2> DEFINE n == Len(b.returned)
             k == i + 1
  <2>1. n \in Nat /\ k \in Nat
    BY <1>4
  <2>2. CASE last
    <3>1. new = [b EXCEPT !.auth = auth, !.pc = "rekey", !.idx = n]
      BY <2>2, <1>a
    <3> HIDE DEF n, last
    <3> QED BY <3>1, <2>1, <1>3 DEF Broker, n
  <2>3. CASE ~ last
    <3>1. new = [b EXCEPT !.auth = auth, !.idx = k]
      BY <2>3, <1>a
    <3>2. new \in Broker /\ new.idx = k /\ new.pc = "auth"
      <4> HIDE DEF k, last
      <4> QED BY <3>1, <2>1, <1>3 DEF Broker
    <3> QED BY <2>3, <3>1, <3>2, <1>0 DEF Broker
  <2> QED BY <2>2, <2>3
<1>6. PcSound(new)
  BY <1>0, <1>3, <1>4, <1>5 DEF PcSound, KmsStates
<1>7. Good(new)
  BY <1>0, <1>3, <1>5, <1>6, KmsStepGood DEF KmsStates
<1> QED BY <1>7, <1>5, <1>3, <1>2, <1>1 DEF new

\* kms_done has seen one key of the loop that builds the remaining requests.
LEMMA RekeyedGood ==
    ASSUME NEW b \in Broker, BrokerOK(b), b.pc = "rekey"
    PROVE  Good(Rekeyed(b))
<1> DEFINE i == b.idx
           entry == IF b.returned[i].needsAuth
                    THEN [b.returned[i] EXCEPT !.needsAuth = FALSE, !.kms = KmsNew]
                    ELSE b.returned[i]
           returned == [b.returned EXCEPT ![i] = entry]
           k == i - 1
           new == Rekeyed(b)
<1>0. /\ b.returned \in Seq(KeyReturned) /\ b.state = "AUTHENTICATING"
      /\ i \in 1..Len(b.returned) /\ i \in DOMAIN b.returned
      /\ b.returned[i] \in KeyReturned /\ Len(b.returned) \in Nat
      /\ b.returned # <<>> /\ b.auth # <<>>
  BY DEF Broker, BrokerOK, PcSound, KmsStates
<1>1. /\ entry \in KeyReturned /\ entry.doc = b.returned[i].doc
      /\ entry.needsAuth => b.returned[i].needsAuth
  BY <1>0 DEF KeyReturned, Kms, KmsNew
<1>a. IF i > 1 THEN new = [b EXCEPT !.returned = returned, !.idx = k]
      ELSE new = [b EXCEPT !.returned = returned, !.state = "DECRYPTING_KEY_MATERIAL",
                           !.pc = "idle", !.idx = 0]
  <2>1. CASE b.returned[i].needsAuth
    BY <2>1, <1>0 DEF Rekeyed, Broker
  <2>2. CASE ~ b.returned[i].needsAuth
    <3>1. returned = b.returned
      BY <2>2, <1>0
    <3>2. b = [b EXCEPT !.returned = b.returned]
      BY DEF Broker
    <3> QED BY <2>2, <3>1, <3>2 DEF Rekeyed, Broker
  <2> QED BY <2>1, <2>2
<1> HIDE DEF entry, new
<1>2. /\ returned \in Seq(KeyReturned) /\ DOMAIN returned = DOMAIN b.returned
      /\ Len(returned) = Len(b.returned)
      /\ \A j \in DOMAIN b.returned :
            /\ returned[j].doc = b.returned[j].doc
            /\ returned[j].needsAuth => b.returned[j].needsAuth
  BY <1>0, <1>1
<1> HIDE DEF returned
<1>3. /\ new \in Broker /\ new.any = b.any
      /\ new.requests = b.requests /\ new.cached = b.cached
      /\ new.returned = returned /\ new.auth = b.auth
      /\ \/ /\ new.state = "AUTHENTICATING" /\ new.pc = "rekey"
            /\ new.idx = k /\ k \in 1..Len(b.returned)
         \/ new.state = "DECRYPTING_KEY_MATERIAL" /\ new.pc = "idle"
  <2>1. CASE i > 1
    <3>1. k \in Nat /\ k \in 1..Len(b.returned)
      BY <2>1, <1>0
    <3>2. new = [b EXCEPT !.returned = returned, !.idx = k]
      BY <2>1, <1>a
    <3> HIDE DEF k
    <3>3. new \in Broker
      BY <3>1, <3>2, <1>2 DEF Broker
    <3> QED BY <3>1, <3>2, <3>3, <1>0 DEF Broker
  <2>2. CASE ~ (i > 1)
    <3>1. new = [b EXCEPT !.returned = returned, !.state = "DECRYPTING_KEY_MATERIAL",
                          !.pc = "idle", !.idx = 0]
      BY <2>2, <1>a
    <3>2. new \in Broker
      BY <3>1, <1>2 DEF Broker, BrokerStates
    <3> QED BY <3>1, <3>2 DEF Broker
  <2> QED BY <2>1, <2>2
<1>4. PcSound(new)
  BY <1>0, <1>2, <1>3 DEF PcSound, KmsStates
<1> QED BY <1>0, <1>2, <1>3, <1>4, KmsStepGood DEF new, KmsStates

\* kms_done has the material of one key; after the last one all have theirs.
LEMMA DecryptedGood ==
    ASSUME NEW b \in Broker, BrokerOK(b), b.pc = "decrypt"
    PROVE  Good(Decrypted(b))
<1> DEFINE i == b.idx
           entry == [b.returned[i] EXCEPT !.decrypted = TRUE]
           returned == [b.returned EXCEPT ![i] = entry]
           k == i - 1
           new == Decrypted(b)
<1>0. /\ b.returned \in Seq(KeyReturned) /\ b.state = "DECRYPTING_KEY_MATERIAL"
      /\ i \in 1..Len(b.returned) /\ i \in DOMAIN b.returned
      /\ b.returned[i] \in KeyReturned /\ Len(b.returned) \in Nat
      /\ b.returned # <<>> /\ DOMAIN b.returned = 1..Len(b.returned)
  BY DEF Broker, BrokerOK, PcSound, KmsStates
<1>1. /\ entry \in KeyReturned /\ entry.doc = b.returned[i].doc
      /\ entry.needsAuth = b.returned[i].needsAuth /\ entry.decrypted
  BY <1>0 DEF KeyReturned
<1>a. IF i > 1 THEN new = [b EXCEPT !.returned = returned, !.idx = k]
      ELSE new = [b EXCEPT !.returned = returned, !.state = "DONE",
                           !.pc = "idle", !.idx = 0]
  BY DEF Decrypted, Broker
<1> HIDE DEF entry, new
<1>b. \A j \in DOMAIN b.returned : j > i => b.returned[j].decrypted
  BY DEF BrokerOK, DecryptedSoFar
<1>2. /\ returned \in Seq(KeyReturned) /\ DOMAIN returned = DOMAIN b.returned
      /\ Len(returned) = Len(b.returned)
      /\ \A j \in DOMAIN b.returned :
            /\ returned[j].doc = b.returned[j].doc
            /\ returned[j].needsAuth = b.returned[j].needsAuth
            /\ j > k => returned[j].decrypted
  <2>1. /\ returned \in Seq(KeyReturned) /\ DOMAIN returned = DOMAIN b.returned
        /\ Len(returned) = Len(b.returned)
        /\ \A j \in DOMAIN b.returned :
              returned[j] = IF j = i THEN entry ELSE b.returned[j]
    BY <1>0, <1>1
  <2> HIDE DEF returned
  <2>2. ASSUME NEW j \in DOMAIN b.returned, j > k
        PROVE  j = i \/ j > i
    BY <1>0, <2>2
  <2> HIDE DEF k
  <2> QED BY <2>1, <2>2, <1>1, <1>b
<1> HIDE DEF returned
<1>3. /\ new \in Broker /\ new.any = b.any
      /\ new.requests = b.requests /\ new.cached = b.cached
      /\ new.returned = returned /\ new.auth = b.auth
      /\ \/ /\ new.state = "DECRYPTING_KEY_MATERIAL" /\ new.pc = "decrypt"
            /\ new.idx = k /\ k \in 1..Len(b.returned)
         \/ new.state = "DONE" /\ new.pc = "idle" /\ k = 0
  <2>1. CASE i > 1
    <3>1. k \in Nat /\ k \in 1..Len(b.returned)
      BY <2>1, <1>0
    <3>2. new = [b EXCEPT !.returned = returned, !.idx = k]
      BY <2>1, <1>a
    <3> HIDE DEF k
    <3>3. new \in Broker
      BY <3>1, <3>2, <1>2 DEF Broker
    <3> QED BY <3>1, <3>2, <3>3, <1>0 DEF Broker
  <2>2. CASE ~ (i > 1)
    <3>1. new = [b EXCEPT !.returned = returned, !.state = "DONE",
                          !.pc = "idle", !.idx = 0]
      BY <2>2, <1>a
    <3>2. k = 0
      BY <2>2, <1>0
    <3>3. new \in Broker
      BY <3>1, <1>2 DEF Broker, BrokerStates
    <3> QED BY <3>1, <3>2, <3>3 DEF Broker
  <2> QED BY <2>1, <2>2
<1>4. PcSound(new)
  BY <1>0, <1>2, <1>3 DEF PcSound, KmsStates
<1>5. new.state = "DONE" => \A j \in DOMAIN b.returned : new.returned[j].decrypted
  <2>1. \A j \in DOMAIN b.returned : j > 0
    BY <1>0
  <2> QED BY <2>1, <1>2, <1>3
<1>6. new.pc = "decrypt" => \A j \in DOMAIN b.returned : j > new.idx => new.returned[j].decrypted
  BY <1>2, <1>3
<1> HIDE DEF k
<1> QED BY <1>0, <1>2, <1>3, <1>4, <1>5, <1>6, KmsStepGood DEF new, KmsStates
=============================================================================
