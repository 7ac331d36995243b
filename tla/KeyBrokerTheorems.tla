-------------------------- MODULE KeyBrokerTheorems --------------------------
(***************************************************************************)
(* The theorems about KeyBrokerSys.  The inductive invariant Inv says that *)
(* every broker is good (module KeyBrokerProofs) and that the shared key   *)
(* cache is a cache (CacheInv); each action changes at most one broker, by *)
(* one operator of KeyBroker.                                              *)
(***************************************************************************)
EXTENDS KeyBrokerProofs

Inv ==
    /\ TypeOK
    /\ CacheInv(cacheKey)
    /\ \A c \in Ctxs : Good(kb[c])

-----------------------------------------------------------------------------
\* Replacing one broker by a good one, with typed changes elsewhere.
LEMMA StepInv ==
    ASSUME Inv, NEW c \in Ctxs, NEW n, Good(n), Becomes(c, n), CacheInv(cacheKey'),
           cacheOauth' \in [KmsIds -> Token \cup {NoToken}], now' \in Nat,
           held' \in [Ctxs -> SUBSET Refs], drained' \in [Ctxs -> BOOLEAN],
           rounds' \in [Ctxs -> Nat], aborted' \in BOOLEAN
    PROVE  Inv'
<1>1. n \in Broker /\ kb \in [Ctxs -> Broker]
  BY DEF Good, Inv, TypeOK
<1>2. /\ kb' \in [Ctxs -> Broker]
      /\ \A d \in Ctxs : kb'[d] = IF d = c THEN n ELSE kb[d]
  BY <1>1 DEF Becomes
<1>3. \A d \in Ctxs : Good(kb'[d])
  BY <1>2 DEF Inv
<1>4. cacheKey' \in SUBSET Pair
  BY DEF CacheInv
<1> QED BY <1>2, <1>3, <1>4 DEF Inv, TypeOK

\* The steps that leave everything but one broker alone.
LEMMA LocalStepInv ==
    ASSUME Inv, NEW c \in Ctxs, NEW n, Good(n), Becomes(c, n), UNCHANGED <<driver, shared>>
    PROVE  Inv'
<1>1. CacheInv(cacheKey')
  BY DEF Inv, CacheInv, shared
<1> QED BY <1>1, StepInv DEF Inv, TypeOK, driver, shared

\* A broker that takes a call is good and in no other call.
LEMMA CallerGood ==
    ASSUME Inv, NEW c \in Ctxs, NEW states, Calls(c, states)
    PROVE  /\ kb[c] \in Broker /\ BrokerOK(kb[c]) /\ kb[c].pc = "idle"
           /\ kb[c].state \in states /\ kb[c].ok
BY DEF Inv, Calls, Good

\* So is one whose thread is inside kms_done.
LEMMA InsideGood ==
    ASSUME Inv, NEW c \in Ctxs, NEW pc, Inside(c, pc)
    PROVE  kb[c] \in Broker /\ BrokerOK(kb[c]) /\ kb[c].pc = pc
BY DEF Inv, Inside, Good

-----------------------------------------------------------------------------
(***************************************************************************)
(* The steps, by the part of the protocol they belong to.                  *)
(***************************************************************************)
\* request_id and request_name keep the invariant.
LEMMA RequestInv ==
    ASSUME Inv, NEW c \in Ctxs, NEW id \in KeyIds \cup {NoId}, NEW names \in SUBSET AltNames,
           id # NoId \/ names # {},
           names = {} \/ \E n \in AltNames : id = NoId /\ names = {n},
           Request1(c, id, names)
    PROVE  Inv'
<1> DEFINE attr == [id |-> id, names |-> names]
           hit == CacheGet(cacheKey, attr, now)
           n == AddRequest(kb[c], id, names, hit)
<1>1. kb[c] \in Broker /\ BrokerOK(kb[c]) /\ kb[c].pc = "idle" /\ kb[c].state = "REQUESTING"
  BY CallerGood DEF Request1
<1>2. hit \in SUBSET Doc /\ \A d \in hit : AttrMatch(d, attr)
  BY GetSound DEF Inv, TypeOK
<1>3. Becomes(c, n) /\ cacheKey' = CacheEvict(cacheKey, now)
      /\ UNCHANGED <<driver, cacheOauth, now, aborted>>
  BY DEF Request1
<1> HIDE DEF hit
<1>4. Good(n)
  BY <1>1, <1>2, AddRequestGood
<1> HIDE DEF n
<1>5. CacheInv(cacheKey')
  BY <1>3, EvictInv DEF Inv, TypeOK
<1> QED BY <1>3, <1>4, <1>5, StepInv DEF Inv, TypeOK, driver

\* The other calls of the requesting and adding states that touch one broker.
LEMMA BrokerCallInv ==
    ASSUME Inv, NEW c \in Ctxs,
           \/ RequestAnyKeys(c) \/ FinishRequests(c) \/ GetFilter(c)
           \/ AddUnexpectedDoc(c) \/ AddMalformedDoc(c) \/ FinishDocs(c)
           \/ LookupFails(c) \/ CallInWrongState(c)
    PROVE  Inv'
<1>1. CASE RequestAnyKeys(c)
  BY <1>1, CallerGood, RequestAnyGood, LocalStepInv DEF RequestAnyKeys
<1>2. CASE FinishRequests(c)
  BY <1>2, CallerGood, RequestsDoneGood, LocalStepInv DEF FinishRequests
<1>3. CASE GetFilter(c)
  BY <1>3, CallerGood, FilterGood, LocalStepInv DEF GetFilter
<1>4. CASE AddUnexpectedDoc(c)
  BY <1>4, CallerGood, FailGood, LocalStepInv DEF AddUnexpectedDoc
<1>5. CASE AddMalformedDoc(c)
  BY <1>5, CallerGood, MalformedGood, LocalStepInv DEF AddMalformedDoc
<1>6. CASE FinishDocs(c)
  BY <1>6, CallerGood, DocsDoneGood, LocalStepInv DEF FinishDocs
<1>7. CASE LookupFails(c)
  BY <1>7, CallerGood, FailGood, LocalStepInv DEF LookupFails
<1>8. CASE CallInWrongState(c)
  BY <1>8, CallerGood, FailGood, LocalStepInv DEF CallInWrongState
<1> QED BY <1>1, <1>2, <1>3, <1>4, <1>5, <1>6, <1>7, <1>8

\* add_doc in any mode with a document the cache satisfies.
LEMMA AddCachedDocInv ==
    ASSUME Inv, NEW c \in Ctxs, AddCachedDoc(c)
    PROVE  Inv'
<1>1. kb[c] \in Broker /\ BrokerOK(kb[c]) /\ kb[c].pc = "idle" /\ kb[c].state = "ADDING_DOCS_ANY"
  BY CallerGood DEF AddCachedDoc
<1>2. PICK doc \in Docs :
        Becomes(c, AddRequest(kb[c], doc.id, doc.names, CacheGet(cacheKey, doc, now)))
  BY DEF AddCachedDoc
<1> DEFINE hit == CacheGet(cacheKey, doc, now)
           n == AddRequest(kb[c], doc.id, doc.names, hit)
<1>3. /\ doc.id \in KeyIds \cup {NoId} /\ doc.id # NoId /\ doc.names \in SUBSET AltNames
  BY KeyBrokerSysAssumption, KeyCacheAssumption DEF Doc
<1>4. \A d \in hit : d \in Doc /\ AttrMatch(d, doc)
  BY GetSound DEF Inv, TypeOK
<1>5. hit \in SUBSET Doc /\ \A d \in hit : AttrMatch(d, [id |-> doc.id, names |-> doc.names])
  <2> HIDE DEF hit
  <2> QED BY <1>4 DEF AttrMatch
<1>6. kb[c].any
  BY <1>1 DEF BrokerOK, PcSound
<1>7. Becomes(c, n)
  BY <1>2
<1> HIDE DEF hit
<1>8. Good(n)
  BY <1>1, <1>3, <1>5, <1>6, AddRequestGood
<1> HIDE DEF n
<1>9. CacheInv(cacheKey') /\ UNCHANGED <<driver, cacheOauth, now, aborted>>
  BY EvictInv DEF AddCachedDoc, Inv, TypeOK
<1> QED BY <1>7, <1>8, <1>9, StepInv DEF Inv, TypeOK, driver

\* add_doc in any mode with a document the cache does not have.
LEMMA AskForDocInv ==
    ASSUME Inv, NEW c \in Ctxs, AskForDoc(c)
    PROVE  Inv'
<1>1. /\ kb[c] \in Broker /\ BrokerOK(kb[c]) /\ kb[c].pc = "idle" /\ kb[c].ok
      /\ kb[c].state = "ADDING_DOCS_ANY"
  BY CallerGood DEF AskForDoc
<1>2. PICK doc \in Docs :
        Becomes(c, [AddRequest(kb[c], doc.id, doc.names, {}) EXCEPT !.pc = "add"])
  BY DEF AskForDoc
<1> DEFINE asked == AddRequest(kb[c], doc.id, doc.names, {})
           n == [asked EXCEPT !.pc = "add"]
<1>3. doc.id \in KeyIds \cup {NoId} /\ doc.id # NoId /\ doc.names \in SUBSET AltNames
  BY KeyBrokerSysAssumption, KeyCacheAssumption DEF Doc
<1>4. kb[c].any
  BY <1>1 DEF BrokerOK, PcSound
<1>5. Good(asked)
  BY <1>1, <1>3, <1>4, AddRequestGood
<1>6. asked.ok /\ asked.state = "ADDING_DOCS_ANY"
  BY <1>1 DEF AddRequest, Broker
<1> HIDE DEF asked
<1>7. Good(n)
  BY <1>5, <1>6, AddPcGood DEF Good
<1>8. Becomes(c, n)
  BY <1>2 DEF asked
<1> HIDE DEF n
<1>9. CacheInv(cacheKey') /\ UNCHANGED <<driver, cacheOauth, now, aborted>>
  BY EvictInv DEF AskForDoc, Inv, TypeOK
<1> QED BY <1>7, <1>8, <1>9, StepInv DEF Inv, TypeOK, driver

\* A broker that takes a document has been asked for it.
LEMMA TakeDocInv ==
    ASSUME Inv, NEW c \in Ctxs, NEW doc \in Docs, NEW valid \in BOOLEAN,
           TakeDoc(c, doc, valid),
           LET b == [kb[c] EXCEPT !.pc = "idle"]
           IN  /\ b \in Broker /\ BrokerOK(b) /\ b.pc = "idle"
               /\ b.state \in {"ADDING_DOCS", "ADDING_DOCS_ANY"}
    PROVE  Inv'
<1> DEFINE b == [kb[c] EXCEPT !.pc = "idle"]
           token == TokenAtHand(doc.kmsid)
           after == AcceptDoc(b, doc, token, valid)
<1>1. doc \in Doc
  BY KeyBrokerSysAssumption
<1>2. token \in BOOLEAN
  BY DEF TokenAtHand, HasToken
<1>3. /\ Becomes(c, after) /\ cacheKey' \in {CacheAdd(cacheKey, doc, now), cacheKey}
      /\ UNCHANGED <<driver, cacheOauth, now, aborted>>
  BY DEF TakeDoc
<1>4. /\ b \in Broker /\ BrokerOK(b) /\ b.pc = "idle"
      /\ b.state \in {"ADDING_DOCS", "ADDING_DOCS_ANY"}
  OBVIOUS
<1> HIDE DEF b, token
<1>5. Good(after)
  BY <1>1, <1>2, <1>4, AcceptDocGood
<1> HIDE DEF after
<1>6. CacheInv(cacheKey')
  BY <1>1, <1>3, AddInv DEF Inv, TypeOK
<1> QED BY <1>3, <1>5, <1>6, StepInv DEF Inv, TypeOK, driver

\* add_doc with a document that goes to keys_returned.
LEMMA AddDocInv ==
    ASSUME Inv, NEW c \in Ctxs, AddDoc(c) \/ StoreDoc(c)
    PROVE  Inv'
<1> DEFINE b == [kb[c] EXCEPT !.pc = "idle"]
<1>1. /\ b \in Broker /\ BrokerOK(b) /\ b.pc = "idle"
      /\ b.state \in {"ADDING_DOCS", "ADDING_DOCS_ANY"}
  <2>1. CASE AddDoc(c)
    <3>1. /\ kb[c] \in Broker /\ BrokerOK(kb[c]) /\ kb[c].pc = "idle"
          /\ kb[c].state \in {"ADDING_DOCS", "ADDING_DOCS_ANY"}
      BY <2>1, CallerGood DEF AddDoc
    <3>2. b = kb[c]
      BY <3>1 DEF Broker
    <3> HIDE DEF b
    <3> QED BY <3>1, <3>2
  <2>2. CASE StoreDoc(c)
    <3>1. kb[c] \in Broker /\ BrokerOK(kb[c]) /\ kb[c].pc = "add"
      BY <2>2, InsideGood DEF StoreDoc
    <3>2. kb[c].state = "ADDING_DOCS_ANY"
      BY <3>1 DEF BrokerOK, PcSound
    <3>3. b.pc = "idle" /\ b.state = kb[c].state
      BY <3>1 DEF Broker
    <3> QED BY <3>1, <3>2, <3>3, AddPcGood
  <2> QED BY <2>1, <2>2
<1>2. PICK doc \in Docs, valid \in BOOLEAN : TakeDoc(c, doc, valid)
  BY DEF AddDoc, StoreDoc
<1> QED BY <1>1, <1>2, TakeDocInv

\* next_kms and the completion of the contexts it handed out.
LEMMA KmsHandlingInv ==
    ASSUME Inv, NEW c \in Ctxs,
           GetNextKms(c) \/ CompleteAuth(c) \/ CompleteKey(c) \/ KmsDone(c)
    PROVE  Inv'
<1> DEFINE b == kb[c]
<1>1. b \in Broker /\ BrokerOK(b) /\ b.pc = "idle" /\ b.state \in KmsStates
  BY CallerGood DEF GetNextKms, CompleteAuth, CompleteKey, KmsDone
<1>2. UNCHANGED <<rounds, shared>> /\ CacheInv(cacheKey')
  BY DEF GetNextKms, CompleteAuth, CompleteKey, KmsDone, Inv, CacheInv, shared
<1>3. \E n : Good(n) /\ Becomes(c, n)
  <2>1. CASE GetNextKms(c)
    BY <2>1, <1>1, NextKmsGood DEF GetNextKms
  <2>2. CASE CompleteAuth(c)
    <3>0. PICK i \in DOMAIN b.auth :
            \E kms \in KmsOutcomes(b.auth[i].kms, b.auth[i].kmsid) :
                Becomes(c, [b EXCEPT !.auth[i].kms = kms])
      BY <2>2 DEF CompleteAuth
    <3>1. PICK kms \in KmsOutcomes(b.auth[i].kms, b.auth[i].kmsid) :
            Becomes(c, [b EXCEPT !.auth[i].kms = kms])
      BY <3>0
    <3>2. b.auth[i] \in AuthRequest
      BY <1>1 DEF Broker
    <3>3. kms \in Kms
      BY <3>2, KmsOutcomesType DEF AuthRequest
    <3> HIDE DEF b
    <3> QED BY <3>1, <3>3, <1>1, AuthKmsGood
  <2>3. CASE CompleteKey(c)
    <3>0. PICK i \in DOMAIN b.returned :
            \E kms \in KmsOutcomes(b.returned[i].kms, b.returned[i].doc.kmsid) :
                Becomes(c, [b EXCEPT !.returned[i].kms = kms])
      BY <2>3 DEF CompleteKey
    <3>1. PICK kms \in KmsOutcomes(b.returned[i].kms, b.returned[i].doc.kmsid) :
            Becomes(c, [b EXCEPT !.returned[i].kms = kms])
      BY <3>0
    <3>2. b.returned[i] \in KeyReturned
      BY <1>1 DEF Broker
    <3>3. kms \in Kms
      BY <3>2, KmsOutcomesType DEF KeyReturned, Doc
    <3> HIDE DEF b
    <3> QED BY <3>1, <3>3, <1>1, KeyKmsGood
  <2>4. CASE KmsDone(c)
    BY <2>4, <1>1, KmsDoneEnterGood DEF KmsDone
  <2> QED BY <2>1, <2>2, <2>3, <2>4
<1>4. drained' \in [Ctxs -> BOOLEAN]
  BY DEF GetNextKms, CompleteAuth, CompleteKey, KmsDone, Inv, TypeOK
<1>5. held' \in [Ctxs -> SUBSET Refs]
  <2>0. held \in [Ctxs -> SUBSET Refs]
    BY DEF Inv, TypeOK
  <2>1. CASE GetNextKms(c)
    <3>1. NextKmsRef(b) \subseteq Refs
      <4>1. DOMAIN b.auth \subseteq Nat /\ DOMAIN b.returned \subseteq Nat
        BY <1>1 DEF Broker
      <4> HIDE DEF b
      <4> QED BY <4>1 DEF NextKmsRef, Refs, AuthToHandOut, KeysToRetry, KeysAhead
    <3> QED BY <2>0, <2>1, <3>1 DEF GetNextKms
  <2>2. CASE ~ GetNextKms(c)
    <3>1. held' = held \/ \E S \in SUBSET Refs : held' = [held EXCEPT ![c] = S]
      <4>1. CASE CompleteAuth(c)
        BY <4>1, <2>0 DEF CompleteAuth, Releases
      <4>2. CASE CompleteKey(c)
        BY <4>2, <2>0 DEF CompleteKey, Releases
      <4>3. CASE KmsDone(c)
        BY <4>3 DEF KmsDone
      <4> QED BY <2>2, <4>1, <4>2, <4>3
    <3> QED BY <2>0, <3>1
  <2> QED BY <2>1, <2>2
<1> QED BY <1>2, <1>3, <1>4, <1>5, StepInv DEF Inv, TypeOK, shared

\* The lifetime of a token is a number of ticks.
LEMMA LifetimeInt ==
    ASSUME NEW life \in TokenLives
    PROVE  Lifetime(life) \in Int
<1>1. life \in Int /\ Second \in Int /\ MaxTime \in Nat
  BY OAuthCacheAssumption
<1>2. life * Second \in Int
  BY <1>1
<1> DEFINE n == life * Second
<1> HIDE DEF n
<1>3. ((n + MaxTime + 1) % (2 * (MaxTime + 1))) - (MaxTime + 1) \in Int
  BY <1>1, <1>2 DEF n
<1> QED BY <1>3 DEF Lifetime, n

\* The three loops of kms_done.
LEMMA KmsDoneInv ==
    ASSUME Inv, NEW c \in Ctxs, ApplyToken(c) \/ RekeyOne(c) \/ DecryptOne(c)
    PROVE  Inv'
<1> DEFINE b == kb[c]
<1>1. CASE ApplyToken(c)
  <2>1. b \in Broker /\ BrokerOK(b) /\ b.pc = "auth"
    BY <1>1, InsideGood DEF ApplyToken
  <2> DEFINE ar == b.auth[b.idx]
             after == AuthApplied(b, now)
  <2>2. UNCHANGED <<driver, cacheKey, now>> /\ CacheInv(cacheKey')
    BY <1>1 DEF ApplyToken, Inv, CacheInv
  <2>3. now \in Nat /\ cacheOauth \in [KmsIds -> Token \cup {NoToken}]
    BY DEF Inv, TypeOK
  <2>4. ASSUME NEW life \in TokenLives, Becomes(c, after), UNCHANGED aborted,
               cacheOauth' = AddResponse(cacheOauth, ar.kmsid, after.auth[b.idx].since,
                                         life, now)
        PROVE  Inv'
    <3>1. Good(after) /\ after.auth[b.idx].since \in Nat
      <4> HIDE DEF b
      <4> QED BY <2>1, <2>3, AuthAppliedGood
    <3> HIDE DEF after
    <3>2. cacheOauth' \in [KmsIds -> Token \cup {NoToken}]
      <4> DEFINE t == [since |-> after.auth[b.idx].since,
                       expires |-> now + Lifetime(life) - EvictionPeriod]
      <4>1. t \in Token
        BY <2>3, <3>1, LifetimeInt, OAuthCacheAssumption DEF Token
      <4>2. cacheOauth' = [cacheOauth EXCEPT ![ar.kmsid] = t]
        BY <2>4 DEF AddResponse
      <4> HIDE DEF t
      <4> QED BY <2>3, <4>1, <4>2
    <3> QED BY <2>2, <2>4, <3>1, <3>2, StepInv DEF Inv, TypeOK, driver
  <2>5. CASE Becomes(c, Fail(b)) /\ UNCHANGED <<cacheOauth, aborted>>
    <3>1. Good(Fail(b))
      BY <2>1, FailGood
    <3> QED BY <2>2, <2>5, <3>1, StepInv DEF Inv, TypeOK, driver
  <2>6. CASE aborted' = TRUE /\ UNCHANGED <<kb, cacheOauth>>
    BY <2>2, <2>6 DEF Inv, TypeOK, driver
  <2> QED BY <1>1, <2>4, <2>5, <2>6 DEF ApplyToken
<1>2. CASE RekeyOne(c)
  <2>1. b \in Broker /\ BrokerOK(b) /\ b.pc = "rekey"
    BY <1>2, InsideGood DEF RekeyOne
  <2>2. Becomes(c, Fail(b)) \/ Becomes(c, Rekeyed(b))
    BY <1>2 DEF RekeyOne
  <2>3. UNCHANGED <<driver, shared>>
    BY <1>2 DEF RekeyOne
  <2> HIDE DEF b
  <2> QED BY <2>1, <2>2, <2>3, FailGood, RekeyedGood, LocalStepInv
<1>3. CASE DecryptOne(c)
  <2>1. b \in Broker /\ BrokerOK(b) /\ b.pc = "decrypt"
    BY <1>3, InsideGood DEF DecryptOne
  <2>2. Becomes(c, Fail(b)) \/ Becomes(c, Decrypted(b))
    BY <1>3 DEF DecryptOne
  <2>3. b.returned[b.idx].doc \in Doc
    <3>1. b.returned[b.idx] \in KeyReturned
      BY <2>1 DEF Broker, BrokerOK, PcSound
    <3> QED BY <3>1 DEF KeyReturned
  <2>4. CacheInv(cacheKey')
    <3>1. cacheKey' = cacheKey \/ cacheKey' = CacheAdd(cacheKey, b.returned[b.idx].doc, now)
      BY <1>3 DEF DecryptOne
    <3> HIDE DEF b
    <3> QED BY <2>3, <3>1, AddInv DEF Inv, TypeOK
  <2>5. UNCHANGED <<driver, cacheOauth, now, aborted>>
    BY <1>3 DEF DecryptOne
  <2>6. Good(Fail(b)) /\ Good(Decrypted(b))
    BY <2>1, FailGood, DecryptedGood
  <2> HIDE DEF b
  <2> QED BY <2>2, <2>4, <2>5, <2>6, StepInv DEF Inv, TypeOK, driver
<1> QED BY <1>1, <1>2, <1>3

\* Restarting a broker, and destroying it.
LEMMA LifeCycleInv ==
    ASSUME Inv, NEW c \in Ctxs, RestartBroker(c) \/ Destroy(c)
    PROVE  Inv'
<1>1. CASE RestartBroker(c)
  <2>1. Good(Restart(kb[c]))
    BY <1>1, CallerGood, RestartGood DEF RestartBroker
  <2>2. UNCHANGED shared /\ CacheInv(cacheKey')
    BY <1>1 DEF RestartBroker, shared, Inv, CacheInv
  <2>3. /\ drained' \in [Ctxs -> BOOLEAN] /\ rounds' \in [Ctxs -> Nat]
        /\ held' \in [Ctxs -> SUBSET Refs] /\ Becomes(c, Restart(kb[c]))
    BY <1>1 DEF RestartBroker, Inv, TypeOK
  <2> QED BY <2>1, <2>2, <2>3, StepInv DEF Inv, TypeOK, shared
<1>2. CASE Destroy(c)
  <2>1. UNCHANGED shared /\ CacheInv(cacheKey')
    BY <1>2 DEF Destroy, shared, Inv, CacheInv
  <2>2. /\ drained' \in [Ctxs -> BOOLEAN] /\ rounds' \in [Ctxs -> Nat]
        /\ held' \in [Ctxs -> SUBSET Refs] /\ Becomes(c, NewBroker)
    BY <1>2 DEF Destroy, Inv, TypeOK
  <2> QED BY <2>1, <2>2, NewGood, StepInv DEF Inv, TypeOK, shared
<1> QED BY <1>1, <1>2

-----------------------------------------------------------------------------
\* Initially there are new brokers and empty caches.
LEMMA InitInv == Init => Inv
<1> SUFFICES ASSUME Init PROVE Inv
  OBVIOUS
<1>1. \A c \in Ctxs : Good(kb[c])
  BY NewGood DEF Init
<1>2. CacheInv(cacheKey)
  BY FS_EmptySet DEF Init, CacheInv
<1>3. TypeOK
  <2>1. NewBroker \in Broker
    BY NewGood DEF Good
  <2> QED BY <2>1 DEF Init, TypeOK
<1> QED BY <1>1, <1>2, <1>3 DEF Inv

\* Every step of the system keeps the invariant.
LEMMA NextInv == Inv /\ [Next]_vars => Inv'
<1> SUFFICES ASSUME Inv, [Next]_vars PROVE Inv'
  OBVIOUS
<1>1. CASE UNCHANGED vars
  BY <1>1 DEF vars, Inv, TypeOK, CacheInv
<1>2. CASE Tick
  BY <1>2 DEF Tick, driver, Inv, TypeOK, CacheInv
<1>3. ASSUME NEW c \in Ctxs, BrokerStep(c) PROVE Inv'
  <2>1. CASE RequestId(c)
    <3>1. PICK id \in KeyIds : Request1(c, id, {})
      BY <2>1 DEF RequestId
    <3> QED BY <3>1, RequestInv, KeyCacheAssumption
  <2>2. CASE RequestName(c)
    <3>1. PICK name \in AltNames : Request1(c, NoId, {name})
      BY <2>2 DEF RequestName
    <3> QED BY <3>1, RequestInv
  <2> QED BY <1>3, <2>1, <2>2, BrokerCallInv, AddCachedDocInv, AskForDocInv,
             AddDocInv, KmsHandlingInv, KmsDoneInv, LifeCycleInv DEF BrokerStep
<1> QED BY <1>1, <1>2, <1>3 DEF Next

\* The inductive invariant holds in every behaviour.
THEOREM InvHolds == Spec => []Inv
BY InitInv, NextInv, PTL DEF Spec

(***************************************************************************)
(* Every variable keeps its type: in particular the iterator, the indices  *)
(* of kms_done and the list positions stay natural numbers.                *)
(***************************************************************************)
THEOREM TypeCorrect == Spec => []TypeOK
<1>1. Inv => TypeOK
  BY DEF Inv
<1> QED BY <1>1, InvHolds, PTL

(***************************************************************************)
(* The key cache never holds two keys with one id or a common alt name,    *)
(* however many contexts store into it and in whatever order (_cache_add). *)
(***************************************************************************)
THEOREM CacheNeverAmbiguous == Spec => []CacheUnambiguous
<1>1. Inv => CacheUnambiguous
  BY DEF Inv, CacheInv, CacheUnambiguous
<1> QED BY <1>1, InvHolds, PTL

(***************************************************************************)
(* The keys the driver returned to one broker, in all its rounds, never    *)
(* share an id or an alt name (add_doc).                                   *)
(***************************************************************************)
THEOREM ReturnedNeverCollide == Spec => []ReturnedKeysDistinct
<1>1. Inv => ReturnedKeysDistinct
  BY DEF Inv, Good, BrokerOK, KeysDistinct, ReturnedKeysDistinct
<1> QED BY <1>1, InvHolds, PTL

(***************************************************************************)
(* A key lookup of a context whose broker is done (or has been restarted)  *)
(* finds the decrypted key of every request that was satisfied, by the id  *)
(* or the alt name it was requested by (_get_decrypted_key_material).      *)
(***************************************************************************)
THEOREM KeysAlwaysAvailable == Spec => []KeysAvailable
<1>1. Inv => KeysAvailable
  <2> SUFFICES ASSUME Inv, NEW c \in Ctxs,
                      kb[c].ok, ~ kb[c].any, kb[c].state \in {"DONE", "REQUESTING"},
                      NEW r \in kb[c].requests
               PROVE  /\ kb[c].state = "DONE" => r.satisfied
                      /\ r.satisfied => LookupAsRequested(kb[c], r)
    BY DEF KeysAvailable
  <2> DEFINE b == kb[c]
  <2>1. b \in Broker /\ BrokerOK(b)
    BY DEF Inv, Good
  <2>2. b.state = "DONE" => r.satisfied
    BY <2>1 DEF BrokerOK, DecryptedSoFar, AllSatisfied
  <2>3. ASSUME NEW id, NEW names, Present(b, id, names)
        PROVE  LookupSucceeds(b, id, names)
    <3> DEFINE found == ReturnedMatches(b, id, names)
    <3> HIDE DEF b
    <3>1. b.returned \in Seq(KeyReturned)
      BY <2>1 DEF Broker
    <3>2. found \in SUBSET (1..Len(b.returned)) /\ Len(b.returned) \in Nat
      BY <3>1 DEF ReturnedMatches
    <3>3. CASE found # {}
      <4>0. found \subseteq DOMAIN b.returned
        BY DEF ReturnedMatches
      <4>a. ListFirst(found) \in found
        <5> HIDE DEF found
        <5> QED BY <3>2, <3>3, ListFirstIn
      <4>1. ListFirst(found) \in DOMAIN b.returned
        BY <4>0, <4>a
      <4>2. b.returned[ListFirst(found)].decrypted
        BY <4>1, <2>1 DEF BrokerOK, DecryptedSoFar, b
      <4> QED BY <3>3, <4>2 DEF LookupSucceeds
    <3>4. CASE found = {}
      BY <3>4, <2>3 DEF LookupSucceeds, Present
    <3> QED BY <3>3, <3>4
  <2>4. r.satisfied => /\ r.names = {} => Present(b, r.id, {})
                       /\ \A n \in r.names : Present(b, NoId, {n})
    BY <2>1 DEF BrokerOK, RequestsBacked
  <2> QED BY <2>2, <2>3, <2>4 DEF LookupAsRequested
<1> QED BY <1>1, InvHolds, PTL

(***************************************************************************)
(* The find filter of a broker asks for every key it still lacks, in every *)
(* round (_mongocrypt_key_broker_filter).                                  *)
(***************************************************************************)
THEOREM FilterAlwaysCovers == Spec => []FilterCoversRequests
<1>1. ASSUME Inv, NEW c \in Ctxs, kb[c].ok, kb[c].state = "ADDING_DOCS"
      PROVE  \A f \in kb[c].filter : \A r \in kb[c].requests :
                r.satisfied \/ r.id \in f.ids \/ r.names \cap f.names # {}
  BY <1>1 DEF Inv, Good, BrokerOK, FilterCovers
<1>2. Inv => FilterCoversRequests
  BY <1>1 DEF FilterCoversRequests
<1> QED BY <1>2, InvHolds, PTL

(***************************************************************************)
(* Every key that waits for a token has exactly one auth request to wait   *)
(* for (add_doc, kms_done).                                                *)
(***************************************************************************)
THEOREM OneAuthAlways == Spec => []OneAuthPerKms
<1>1. Inv => OneAuthPerKms
  BY DEF Inv, Good, BrokerOK, AuthCovers, OneAuthPerKms
<1> QED BY <1>1, InvHolds, PTL

-----------------------------------------------------------------------------
(***************************************************************************)
(* A satisfied request stays satisfied.                                    *)
(***************************************************************************)
\* What one broker may become, for its satisfied requests
KeepsSatisfied(b, n) ==
    \/ n = NewBroker
    \/ \A r \in b.requests : r.satisfied =>
            \E q \in n.requests : /\ q.satisfied
                                  /\ q.names = r.names
                                  /\ r.names = {} => q.id = r.id

\* The operators that leave the requests alone
LEMMA SameRequests ==
    ASSUME NEW b \in Broker, NEW t
    PROVE  /\ Fail(b).requests = b.requests
           /\ RejectMalformed(b).requests = b.requests
           /\ RequestAny(b).requests = b.requests
           /\ RequestsDone(b).requests = b.requests
           /\ Filter(b).requests = b.requests
           /\ DocsDone(b).requests = b.requests
           /\ NextKms(b).requests = b.requests
           /\ KmsDoneEnter(b).requests = b.requests
           /\ AuthApplied(b, t).requests = b.requests
           /\ Rekeyed(b).requests = b.requests
           /\ Decrypted(b).requests = b.requests
           /\ Restart(b).requests = b.requests
<1>1. Fail(b).requests = b.requests /\ RejectMalformed(b).requests = b.requests
  BY DEF Fail, RejectMalformed, Broker
<1>2. /\ RequestAny(b).requests = b.requests /\ RequestsDone(b).requests = b.requests
      /\ Filter(b).requests = b.requests /\ DocsDone(b).requests = b.requests
      /\ Restart(b).requests = b.requests
  BY <1>1 DEF RequestAny, RequestsDone, Filter, DocsDone, Restart, Broker
<1>3. NextKms(b).requests = b.requests
  BY <1>1 DEF NextKms, Broker
<1>4. KmsDoneEnter(b).requests = b.requests /\ AuthApplied(b, t).requests = b.requests
  BY DEF KmsDoneEnter, AuthApplied, Broker
<1>5. Rekeyed(b).requests = b.requests /\ Decrypted(b).requests = b.requests
  BY DEF Rekeyed, Decrypted, Broker
<1> QED BY <1>1, <1>2, <1>3, <1>4, <1>5

\* A new request replaces none.
LEMMA AddRequestKeeps ==
    ASSUME NEW b \in Broker, NEW id, NEW names, NEW hit
    PROVE  b.requests \subseteq AddRequest(b, id, names, hit).requests
BY DEF AddRequest, Broker

\* A document that satisfies requests unsatisfies none; it changes the id of
\* a request by alt name only.
LEMMA AcceptDocKeeps ==
    ASSUME NEW b \in Broker, NEW doc \in Doc, NEW token, NEW valid
    PROVE  KeepsSatisfied(b, AcceptDoc(b, doc, token, valid))
<1> DEFINE n == AcceptDoc(b, doc, token, valid)
           grown == PrependReturned(b, NewEntry(doc, token))
<1>1. grown.requests = b.requests /\ Fail(grown).requests = b.requests
  BY DEF PrependReturned, Fail, Broker
<1>2. n.requests = b.requests \/ n.requests = MarkSatisfied(b.requests, doc)
  BY <1>1, SameRequests DEF AcceptDoc, PrependReturned, Broker
<1>3. \A r \in b.requests : r.satisfied =>
        \E q \in MarkSatisfied(b.requests, doc) :
            q.satisfied /\ q.names = r.names /\ (r.names = {} => q.id = r.id)
  <2> SUFFICES ASSUME NEW r \in b.requests, r.satisfied
               PROVE  \E q \in MarkSatisfied(b.requests, doc) :
                        q.satisfied /\ q.names = r.names /\ (r.names = {} => q.id = r.id)
    OBVIOUS
  <2> DEFINE q == IF r.names \cap doc.names # {}
                  THEN [r EXCEPT !.satisfied = TRUE, !.id = doc.id]
                  ELSE [r EXCEPT !.satisfied = @ \/ r.id = doc.id]
  <2>1. r \in Request
    BY DEF Broker
  <2>2. q \in MarkSatisfied(b.requests, doc)
    BY DEF MarkSatisfied
  <2>3. q.satisfied /\ q.names = r.names /\ (r.names = {} => q.id = r.id)
    BY <2>1 DEF Request
  <2> QED BY <2>2, <2>3
<1> HIDE DEF n
<1>4. KeepsSatisfied(b, n)
  BY <1>2, <1>3 DEF KeepsSatisfied
<1> QED BY <1>4 DEF n

\* A call of one context keeps what was satisfied.
LEMMA StepKeeps ==
    ASSUME Inv, NEW c \in Ctxs, BrokerStep(c)
    PROVE  \A d \in Ctxs : KeepsSatisfied(kb[d], kb'[d])
<1> DEFINE b == kb[c]
<1>0. b \in Broker /\ kb \in [Ctxs -> Broker] /\ now \in Nat
  BY DEF Inv, TypeOK
<1>1. ASSUME NEW n, Becomes(c, n), KeepsSatisfied(b, n)
      PROVE  \A d \in Ctxs : KeepsSatisfied(kb[d], kb'[d])
  <2>1. \A d \in Ctxs : kb'[d] = IF d = c THEN n ELSE kb[d]
    BY <1>0, <1>1 DEF Becomes
  <2>2. \A d \in Ctxs : KeepsSatisfied(kb[d], kb[d])
    BY DEF KeepsSatisfied
  <2> QED BY <1>1, <2>1, <2>2
<1>2. ASSUME NEW n, b.requests \subseteq n.requests
      PROVE  KeepsSatisfied(b, n)
  BY <1>2 DEF KeepsSatisfied
<1> HIDE DEF b
<1>3. CASE \/ RequestAnyKeys(c) \/ FinishRequests(c) \/ GetFilter(c)
           \/ AddUnexpectedDoc(c) \/ AddMalformedDoc(c) \/ FinishDocs(c)
           \/ LookupFails(c) \/ CallInWrongState(c) \/ RestartBroker(c)
           \/ GetNextKms(c) \/ KmsDone(c) \/ RekeyOne(c)
  <2>1. \/ Becomes(c, Fail(b)) \/ Becomes(c, RejectMalformed(b)) \/ Becomes(c, RequestAny(b))
        \/ Becomes(c, RequestsDone(b)) \/ Becomes(c, Filter(b)) \/ Becomes(c, DocsDone(b))
        \/ Becomes(c, NextKms(b)) \/ Becomes(c, KmsDoneEnter(b)) \/ Becomes(c, Rekeyed(b))
        \/ Becomes(c, Restart(b))
    BY <1>3 DEF RequestAnyKeys, FinishRequests, GetFilter, AddUnexpectedDoc, AddMalformedDoc,
                FinishDocs, LookupFails, CallInWrongState, RestartBroker, GetNextKms,
                KmsDone, RekeyOne, b
  <2> QED BY <2>1, <1>0, <1>1, <1>2, SameRequests
<1>4. CASE RequestId(c) \/ RequestName(c) \/ AddCachedDoc(c)
  <2>1. \E id, names, hit : Becomes(c, AddRequest(b, id, names, hit))
    BY <1>4 DEF RequestId, RequestName, Request1, AddCachedDoc, b
  <2> QED BY <2>1, <1>0, <1>1, <1>2, AddRequestKeeps
<1>5. CASE AskForDoc(c)
  <2>1. PICK doc \in Docs :
            Becomes(c, [AddRequest(b, doc.id, doc.names, {}) EXCEPT !.pc = "add"])
    BY <1>5 DEF AskForDoc, b
  <2> DEFINE asked == AddRequest(b, doc.id, doc.names, {})
             n == [asked EXCEPT !.pc = "add"]
  <2>2. b.requests \subseteq n.requests
    BY <1>0 DEF AddRequest, Broker
  <2> QED BY <2>1, <2>2, <1>1, <1>2
<1>a. CASE AddDoc(c) \/ StoreDoc(c)
  <2>1. PICK doc \in Docs, valid \in BOOLEAN : TakeDoc(c, doc, valid)
    BY <1>a DEF AddDoc, StoreDoc
  <2> DEFINE asked == [b EXCEPT !.pc = "idle"]
             n == AcceptDoc(asked, doc, TokenAtHand(doc.kmsid), valid)
  <2>2. doc \in Doc
    BY KeyBrokerSysAssumption
  <2>3. asked \in Broker /\ asked.requests = b.requests
    BY <1>0 DEF Broker
  <2>4. Becomes(c, n)
    BY <2>1 DEF TakeDoc, b
  <2> HIDE DEF asked
  <2>5. KeepsSatisfied(asked, n)
    BY <2>2, <2>3, AcceptDocKeeps
  <2> HIDE DEF n
  <2>6. KeepsSatisfied(b, n)
    BY <2>3, <2>5 DEF KeepsSatisfied
  <2> QED BY <2>4, <2>6, <1>1
<1>6. CASE CompleteAuth(c) \/ CompleteKey(c)
  <2>1. \E i, kms : \/ Becomes(c, [b EXCEPT !.auth[i].kms = kms])
                    \/ Becomes(c, [b EXCEPT !.returned[i].kms = kms])
    BY <1>6 DEF CompleteAuth, CompleteKey, b
  <2>2. PICK i, kms : \/ Becomes(c, [b EXCEPT !.auth[i].kms = kms])
                      \/ Becomes(c, [b EXCEPT !.returned[i].kms = kms])
    BY <2>1
  <2>3. /\ [b EXCEPT !.auth[i].kms = kms].requests = b.requests
        /\ [b EXCEPT !.returned[i].kms = kms].requests = b.requests
    BY <1>0 DEF Broker
  <2> QED BY <2>2, <2>3, <1>1, <1>2
<1>7. CASE ApplyToken(c)
  <2>1. \/ Becomes(c, AuthApplied(b, now)) \/ Becomes(c, Fail(b)) \/ kb' = kb
    BY <1>7 DEF ApplyToken, b
  <2>2. CASE kb' = kb
    BY <2>2 DEF KeepsSatisfied
  <2> QED BY <2>1, <2>2, <1>0, <1>1, <1>2, SameRequests
<1>8. CASE DecryptOne(c)
  <2>1. Becomes(c, Decrypted(b)) \/ Becomes(c, Fail(b))
    BY <1>8 DEF DecryptOne, b
  <2> QED BY <2>1, <1>0, <1>1, <1>2, SameRequests
<1>9. CASE Destroy(c)
  <2>1. Becomes(c, NewBroker)
    BY <1>9 DEF Destroy
  <2> QED BY <2>1, <1>1 DEF KeepsSatisfied
<1> QED BY <1>3, <1>4, <1>5, <1>a, <1>6, <1>7, <1>8, <1>9 DEF BrokerStep

(***************************************************************************)
(* "any key request that is satisfied stays satisfied": for any number of  *)
(* rounds, documents and contexts, until the context is destroyed.         *)
(***************************************************************************)
THEOREM SatisfiedForGood == Spec => StaysSatisfied
<1>1. ASSUME Inv, Next
      PROVE  \A c \in Ctxs : KeepsSatisfied(kb[c], kb'[c])
  <2>1. CASE Tick
    BY <2>1 DEF Tick, KeepsSatisfied
  <2>2. CASE \E c \in Ctxs : BrokerStep(c)
    BY <2>2, <1>1, StepKeeps
  <2> QED BY <1>1, <2>1, <2>2 DEF Next
<1> DEFINE A == \A c \in Ctxs : kb'[c] # NewBroker =>
                    \A r \in kb[c].requests : r.satisfied =>
                        \E q \in kb'[c].requests :
                            /\ q.satisfied
                            /\ q.names = r.names
                            /\ r.names = {} => q.id = r.id
<1>2. Inv /\ [Next]_vars => [A]_vars
  BY <1>1 DEF KeepsSatisfied
<1>3. [][A]_vars => StaysSatisfied
  BY PTL DEF StaysSatisfied
<1> HIDE DEF A
<1> QED BY <1>2, <1>3, InvHolds, PTL DEF Spec

-----------------------------------------------------------------------------
(***************************************************************************)
(* That next_kms skips no KMS context, for any number of documents, auth   *)
(* requests, retries and rounds.                                           *)
(*                                                                         *)
(* A context a broker waits for is in one of three places: still to be     *)
(* handed out by next_kms, held by the driver, or at its end.  HandedOut   *)
(* says so of each broker; a driver that has drained next_kms and holds    *)
(* nothing has then brought all of them to their end.                      *)
(***************************************************************************)

(***************************************************************************)
(* The invariant of one broker "b", with the KMS contexts its driver holds *)
(* ("h") and whether the driver has drained next_kms ("r").                *)
(***************************************************************************)
\* An auth request handed out and not at its end is held by the driver.
AuthHanded(b, h) ==
    \A i \in DOMAIN b.auth :
        /\ b.auth[i].kms.st # "unset"
        /\ b.auth[i].returned /\ b.auth[i].kms.st = "pending" => <<"auth", i>> \in h

\* A key not decrypted yet waits for a token or has a KMS request.  The iterator
\* has still to reach it, or the driver holds it unless it is at its end.
KeyHanded(b, h, i) ==
    LET key == b.returned[i]
    IN  ~ key.decrypted =>
            /\ key.needsAuth \/ key.kms.st # "unset"
            /\ key.needsAuth => /\ b.state # "DECRYPTING_KEY_MATERIAL"
                                /\ b.pc = "rekey" => i <= b.idx
            /\ \/ i <= b.iter
               \/ /\ b.state = "DECRYPTING_KEY_MATERIAL"
                  /\ key.kms.st = "pending" => <<"key", i>> \in h

KeysHanded(b, h) == \A i \in DOMAIN b.returned : KeyHanded(b, h, i)

\* Once drained, next_kms has nothing to hand out.
Drained(b, r) ==
    r => /\ b.pc = "idle" /\ b.state \in KmsStates
         /\ b.state = "AUTHENTICATING" => AuthToHandOut(b) = {}
         /\ b.state = "DECRYPTING_KEY_MATERIAL" => KeysToRetry(b) = {} /\ KeysAhead(b) = {}

\* Inside kms_done every KMS context it looks at is at its end.
AllEnded(b) ==
    /\ b.pc = "auth" =>
            \A i \in DOMAIN b.auth : b.auth[i].kms.st \in {"done", "failed"}
    /\ b.pc = "decrypt" =>
            \A i \in DOMAIN b.returned :
                \/ b.returned[i].decrypted
                \/ b.returned[i].kms.st \in {"done", "failed"}

HandedOut(b, h, r) ==
    /\ b.pc # "idle" => b.ok
    /\ b.ok => AuthHanded(b, h) /\ KeysHanded(b, h) /\ Drained(b, r) /\ AllEnded(b)

HandoutInv ==
    PatientDriver =>
        /\ aborted => AnswerWithBadLifetime
        /\ \A c \in Ctxs : HandedOut(kb[c], held[c], drained[c])

-----------------------------------------------------------------------------
(***************************************************************************)
(* One lemma per operator.                                                 *)
(***************************************************************************)
\* Nothing is said of a failed broker.
LEMMA FailHanded ==
    ASSUME NEW b \in Broker, NEW h, NEW r
    PROVE  HandedOut(Fail(b), h, r)
BY DEF HandedOut, Fail, Broker

\* A new broker waits for nothing.
LEMMA NewHanded == HandedOut(NewBroker, {}, FALSE)
BY DEF HandedOut, NewBroker, AuthHanded, KeysHanded, KeyHanded, Drained, AllEnded

(***************************************************************************)
(* The steps outside of the KMS states that do not touch the lists: the    *)
(* iterator stays or is set to the head, and no key that waits for a token *)
(* enters DECRYPTING_KEY_MATERIAL.                                         *)
(***************************************************************************)
LEMMA QuietHanded ==
    ASSUME NEW b \in Broker, NEW n \in Broker, NEW h, NEW r, HandedOut(b, h, r), b.ok,
           b.state \notin KmsStates, b.pc \in {"idle", "add"}, n.pc \in {"idle", "add"}, n.ok,
           n.returned = b.returned, n.auth = b.auth,
           n.iter = b.iter \/ n.iter = Len(b.returned),
           n.state = "DECRYPTING_KEY_MATERIAL" =>
                \A i \in DOMAIN b.returned : ~ b.returned[i].needsAuth
    PROVE  HandedOut(n, h, r)
<1>0. b.state # "DECRYPTING_KEY_MATERIAL" /\ ~ r
  BY DEF HandedOut, Drained, KmsStates
<1>1. AuthHanded(n, h)
  BY DEF HandedOut, AuthHanded
<1>2. KeysHanded(n, h)
  <2> SUFFICES ASSUME NEW i \in DOMAIN b.returned PROVE KeyHanded(n, h, i)
    BY DEF KeysHanded
  <2>1. KeyHanded(b, h, i)
    BY DEF HandedOut, KeysHanded
  <2>2. i <= Len(b.returned)
    BY DEF Broker
  <2> QED BY <1>0, <2>1, <2>2 DEF KeyHanded
<1>3. Drained(n, r) /\ AllEnded(n)
  BY <1>0 DEF Drained, AllEnded
<1> QED BY <1>1, <1>2, <1>3 DEF HandedOut

\* A new request
LEMMA AddRequestHanded ==
    ASSUME NEW b \in Broker, NEW h, NEW r, HandedOut(b, h, r), b.ok, BrokerOK(b),
           b.state \notin KmsStates, b.pc = "idle",
           NEW id, NEW names, NEW hit, Good(AddRequest(b, id, names, hit))
    PROVE  HandedOut(AddRequest(b, id, names, hit), h, r)
<1> DEFINE n == AddRequest(b, id, names, hit)
<1>1. /\ n.ok /\ n.pc = b.pc /\ n.returned = b.returned /\ n.auth = b.auth /\ n.state = b.state
      /\ n.iter = b.iter \/ n.iter = Len(b.returned)
  BY DEF AddRequest, Broker
<1>2. n \in Broker
  BY DEF Good
<1> HIDE DEF n
<1>3. n.state # "DECRYPTING_KEY_MATERIAL"
  BY <1>1 DEF KmsStates
<1>4. HandedOut(n, h, r)
  BY <1>1, <1>2, <1>3, QuietHanded
<1> QED BY <1>4 DEF n

\* The calls that move a broker from one state to the next.
LEMMA StateHanded ==
    ASSUME NEW b \in Broker, NEW h, NEW r, HandedOut(b, h, r), b.ok, BrokerOK(b),
           b.state \notin KmsStates, b.pc = "idle"
    PROVE  /\ HandedOut(RequestAny(b), h, r) /\ HandedOut(RequestsDone(b), h, r)
           /\ b.state = "ADDING_DOCS" => HandedOut(Filter(b), h, r)
           /\ HandedOut(DocsDone(b), h, r) /\ HandedOut(Restart(b), h, r)
           /\ HandedOut(RejectMalformed(b), h, r)
<1>1. ASSUME NEW n \in Broker, n.ok, n.pc = "idle", n.returned = b.returned, n.auth = b.auth,
             n.iter = b.iter,
             n.state = "DECRYPTING_KEY_MATERIAL" =>
                \A i \in DOMAIN b.returned : ~ b.returned[i].needsAuth
      PROVE  HandedOut(n, h, r)
  BY <1>1, QuietHanded
<1>2. HandedOut(RequestAny(b), h, r)
  <2>1. CASE b.requests # {}
    BY <2>1, FailHanded DEF RequestAny
  <2>2. CASE b.requests = {}
    <3> DEFINE n == [b EXCEPT !.state = "ADDING_DOCS_ANY", !.any = TRUE]
    <3>1. RequestAny(b) = n
      BY <2>2 DEF RequestAny
    <3>2. /\ n \in Broker /\ n.ok /\ n.pc = "idle" /\ n.returned = b.returned
          /\ n.auth = b.auth /\ n.iter = b.iter /\ n.state # "DECRYPTING_KEY_MATERIAL"
      BY DEF Broker, BrokerStates
    <3> HIDE DEF n
    <3> QED BY <1>1, <3>1, <3>2
  <2> QED BY <2>1, <2>2
<1>3. HandedOut(RequestsDone(b), h, r)
  <2> DEFINE n == RequestsDone(b)
  <2>1. /\ n \in Broker /\ n.ok /\ n.pc = "idle" /\ n.returned = b.returned
        /\ n.auth = b.auth /\ n.iter = b.iter /\ n.state # "DECRYPTING_KEY_MATERIAL"
    BY DEF RequestsDone, Broker, BrokerStates
  <2> HIDE DEF n
  <2>2. HandedOut(n, h, r)
    BY <1>1, <2>1
  <2> QED BY <2>2 DEF n
<1>4. ASSUME b.state = "ADDING_DOCS" PROVE HandedOut(Filter(b), h, r)
  <2> DEFINE n == Filter(b)
  <2>1. n \in Broker
    BY <1>4, FilterGood DEF Good
  <2>2. /\ n.ok /\ n.pc = "idle" /\ n.returned = b.returned /\ n.auth = b.auth
        /\ n.iter = b.iter /\ n.state = b.state
    BY DEF Filter, Broker
  <2> HIDE DEF n
  <2>3. HandedOut(n, h, r)
    BY <1>1, <2>1, <2>2 DEF KmsStates
  <2> QED BY <2>3 DEF n
<1>5. HandedOut(DocsDone(b), h, r)
  <2>1. CASE ~ AllSatisfied(b)
    BY <2>1, FailHanded DEF DocsDone
  <2>2. CASE AllSatisfied(b)
    <3> DEFINE waits == \E i \in DOMAIN b.returned : b.returned[i].needsAuth
               state == IF waits THEN "AUTHENTICATING"
                        ELSE IF \E i \in DOMAIN b.returned : ~ b.returned[i].decrypted
                        THEN "DECRYPTING_KEY_MATERIAL"
                        ELSE "DONE"
               n == [b EXCEPT !.state = state]
    <3>1. DocsDone(b) = n
      BY <2>2 DEF DocsDone
    <3>2. state \in BrokerStates /\ (state = "DECRYPTING_KEY_MATERIAL" => ~ waits)
      BY DEF BrokerStates
    <3> HIDE DEF state
    <3>3. /\ n \in Broker /\ n.ok /\ n.pc = "idle" /\ n.returned = b.returned
          /\ n.auth = b.auth /\ n.iter = b.iter /\ n.state = state
      BY <3>2 DEF Broker
    <3> HIDE DEF n
    <3> QED BY <1>1, <3>1, <3>2, <3>3
  <2> QED BY <2>1, <2>2
<1>6. HandedOut(Restart(b), h, r)
  <2> DEFINE n == Restart(b)
  <2>1. /\ n \in Broker /\ n.ok /\ n.pc = "idle" /\ n.returned = b.returned
        /\ n.auth = b.auth /\ n.iter = b.iter /\ n.state # "DECRYPTING_KEY_MATERIAL"
    BY DEF Restart, Broker, BrokerStates
  <2> HIDE DEF n
  <2>2. HandedOut(n, h, r)
    BY <1>1, <2>1
  <2> QED BY <2>2 DEF n
<1>7. HandedOut(RejectMalformed(b), h, r)
  BY DEF HandedOut, RejectMalformed, Broker
<1> QED BY <1>2, <1>3, <1>4, <1>5, <1>6, <1>7

\* A new document is ahead of the iterator, which is set to it; its auth request,
\* if it makes one, is still to be handed out.
LEMMA AcceptDocHanded ==
    ASSUME NEW b \in Broker, NEW h, NEW r, HandedOut(b, h, r), b.ok, BrokerOK(b),
           b.state \in {"ADDING_DOCS", "ADDING_DOCS_ANY"}, b.pc = "idle",
           NEW doc \in Doc, NEW token \in BOOLEAN, NEW valid \in BOOLEAN
    PROVE  HandedOut(AcceptDoc(b, doc, token, valid), h, r)
<1> DEFINE entry == NewEntry(doc, token)
           grown == PrependReturned(b, entry)
           auth == WithAuthRequest(b.auth, entry)
           n == AcceptDoc(b, doc, token, valid)
<1>1. /\ entry \in KeyReturned
      /\ entry.decrypted \/ entry.needsAuth \/ entry.kms.st = "pending"
  BY KeyBrokerAssumption DEF NewEntry, KeyReturned, Doc, Kms, KmsUnset, KmsNew, OAuthProviders
<1>2. n \in Broker
  BY AcceptDocGood DEF Good
<1> HIDE DEF entry
<1>a. Append(b.returned, entry) \in Seq(KeyReturned) /\ Len(b.returned) + 1 \in Nat
  BY <1>1 DEF Broker
<1>3. /\ grown \in Broker /\ grown.state = b.state /\ grown.ok = b.ok /\ grown.pc = b.pc
      /\ grown.auth = b.auth /\ grown.returned = Append(b.returned, entry)
      /\ grown.iter = Len(b.returned) + 1
  BY <1>a DEF PrependReturned, Broker
<1> HIDE DEF grown
<1>4. n = Fail(b) \/ n = Fail(grown)
      \/ n = [grown EXCEPT !.auth = WithAuthRequest(@, entry), !.requests = MarkSatisfied(@, doc)]
  BY DEF AcceptDoc, grown, entry
<1>5. CASE n = Fail(b) \/ n = Fail(grown)
  BY <1>3, <1>5, FailHanded
<1>6. CASE n = [grown EXCEPT !.auth = WithAuthRequest(@, entry),
                             !.requests = MarkSatisfied(@, doc)]
  <2>1. /\ n.state = b.state /\ n.ok /\ n.pc = "idle" /\ n.auth = auth
        /\ n.returned = Append(b.returned, entry) /\ n.iter = Len(b.returned) + 1
    BY <1>3, <1>6 DEF Broker
  <2> HIDE DEF n
  <2>2. b.returned \in Seq(KeyReturned) /\ b.auth \in Seq(AuthRequest)
    BY DEF Broker
  <2>3. AuthHanded(n, h)
    <3> DEFINE ar == [kmsid |-> entry.doc.kmsid, returned |-> FALSE,
                      kms |-> KmsNew, since |-> -1]
    <3>1. ar.returned = FALSE /\ ar.kms.st = "pending"
      BY DEF KmsNew
    <3>2. auth = b.auth \/ auth = Append(b.auth, ar)
      BY DEF WithAuthRequest
    <3> HIDE DEF ar, auth
    <3>3. \A i \in DOMAIN auth : (i \in DOMAIN b.auth /\ auth[i] = b.auth[i]) \/ auth[i] = ar
      BY <2>2, <3>2
    <3> QED BY <2>1, <3>1, <3>3 DEF AuthHanded, HandedOut
  <2>4. KeysHanded(n, h)
    <3> SUFFICES ASSUME NEW i \in DOMAIN n.returned PROVE KeyHanded(n, h, i)
      BY DEF KeysHanded
    <3>1. i <= n.iter /\ n.pc # "rekey" /\ n.state # "DECRYPTING_KEY_MATERIAL"
      BY <1>1, <2>1, <2>2
    <3>2. (i \in DOMAIN b.returned /\ n.returned[i] = b.returned[i]) \/ n.returned[i] = entry
      BY <1>1, <2>1, <2>2
    <3>3. i \in DOMAIN b.returned => KeyHanded(b, h, i)
      BY DEF HandedOut, KeysHanded
    <3> QED BY <1>1, <3>1, <3>2, <3>3 DEF KeyHanded
  <2>5. Drained(n, r) /\ AllEnded(n)
    BY <2>1 DEF HandedOut, Drained, AllEnded, KmsStates
  <2> QED BY <2>1, <2>3, <2>4, <2>5 DEF HandedOut, n
<1> QED BY <1>4, <1>5, <1>6

\* A non-empty set of positions has a least one.
LEMMA LeastIn ==
    ASSUME NEW S \in SUBSET Nat, S # {}
    PROVE  \E i \in S : \A j \in S : i <= j
<1> DEFINE R == OpToRel(<, Nat)
<1>1. IsWellFoundedOn(R, Nat)
  BY NatLessThanWellFounded
<1>2. \E x \in S : \A y \in S : ~ (<<y, x>> \in R)
  <2>1. S \subseteq Nat
    OBVIOUS
  <2> HIDE DEF R
  <2> QED BY <1>1, <2>1, WFMin
<1>3. \E x \in S : \A y \in S : ~ (y < x)
  BY <1>2 DEF OpToRel
<1> HIDE DEF R
<1> QED BY <1>3

\* next_kms when authenticating: the first auth request to hand out goes to the
\* driver, and without one the driver has them all.
LEMMA NextAuthHanded ==
    ASSUME NEW b \in Broker, NEW h, NEW r, HandedOut(b, h, r), b.ok, BrokerOK(b),
           b.state = "AUTHENTICATING", b.pc = "idle"
    PROVE  HandedOut(NextKms(b), h \cup NextKmsRef(b), NextKmsRef(b) = {})
<1> DEFINE refs == NextKmsRef(b)
           auth == [i \in DOMAIN b.auth |->
                        IF <<"auth", i>> \in refs
                        THEN [b.auth[i] EXCEPT !.returned = TRUE, !.kms = KmsHandOut(@)]
                        ELSE b.auth[i]]
           n == [b EXCEPT !.auth = auth]
<1>0. b.auth \in Seq(AuthRequest) /\ b.auth # <<>>
  BY DEF Broker, BrokerOK, PcSound
<1>1. NextKms(b) = n
  BY <1>0 DEF NextKms
<1>2. /\ n.state = b.state /\ n.ok /\ n.pc = "idle" /\ n.auth = auth
      /\ n.returned = b.returned /\ n.iter = b.iter
  BY DEF Broker
<1>3. refs = {} => AuthToHandOut(b) = {}
  <2> SUFFICES ASSUME AuthToHandOut(b) # {} PROVE refs # {}
    OBVIOUS
  <2>1. AuthToHandOut(b) \in SUBSET Nat
    BY <1>0 DEF AuthToHandOut
  <2>2. PICK i \in AuthToHandOut(b) : \A j \in AuthToHandOut(b) : i <= j
    BY <2>1, LeastIn
  <2> QED BY <2>2 DEF NextKmsRef
<1>4. refs = {} => auth = b.auth
  <2>1. refs = {} => \A i \in DOMAIN b.auth : auth[i] = b.auth[i]
    OBVIOUS
  <2>2. DOMAIN auth = DOMAIN b.auth /\ auth = [i \in DOMAIN b.auth |-> auth[i]]
    OBVIOUS
  <2>3. b.auth = [i \in DOMAIN b.auth |-> b.auth[i]]
    BY <1>0
  <2> HIDE DEF auth
  <2> QED BY <2>1, <2>2, <2>3
<1>5. \A i \in DOMAIN b.auth :
        /\ <<"auth", i>> \notin refs => auth[i] = b.auth[i]
        /\ auth[i].kms.st # "unset"
  <2> SUFFICES ASSUME NEW i \in DOMAIN b.auth
               PROVE  /\ <<"auth", i>> \notin refs => auth[i] = b.auth[i]
                      /\ auth[i].kms.st # "unset"
    OBVIOUS
  <2>0. b.auth[i] \in AuthRequest
    BY <1>0
  <2>1. b.auth[i].kms.st # "unset"
    BY DEF HandedOut, AuthHanded
  <2>2. KmsHandOut(b.auth[i].kms).st # "unset"
    BY <2>0, <2>1 DEF KmsHandOut, AuthRequest, Kms
  <2>3. [b.auth[i] EXCEPT !.returned = TRUE, !.kms = KmsHandOut(@)].kms = KmsHandOut(b.auth[i].kms)
    BY <2>0 DEF AuthRequest
  <2> QED BY <2>1, <2>2, <2>3
<1> HIDE DEF refs, n
<1>6. DOMAIN auth = DOMAIN b.auth
  OBVIOUS
<1> HIDE DEF auth
<1>7. AuthHanded(n, h \cup refs)
  BY <1>2, <1>5, <1>6 DEF HandedOut, AuthHanded
<1>8. KeysHanded(n, h \cup refs)
  BY <1>2 DEF HandedOut, KeysHanded, KeyHanded
<1>9. Drained(n, refs = {})
  <2> SUFFICES ASSUME refs = {} PROVE Drained(n, TRUE)
    BY DEF Drained
  <2>1. AuthToHandOut(n) = AuthToHandOut(b)
    BY <1>2, <1>4 DEF AuthToHandOut
  <2> QED BY <1>2, <1>3, <2>1 DEF Drained, KmsStates
<1>a. AllEnded(n)
  BY <1>2 DEF AllEnded
<1> QED BY <1>1, <1>2, <1>7, <1>8, <1>9, <1>a DEF HandedOut, refs

\* next_kms when decrypting: a key to retry, else the next key the iterator
\* reaches; without one the driver has them all.
LEMMA NextKeyHanded ==
    ASSUME NEW b \in Broker, NEW h, NEW r, HandedOut(b, h, r), b.ok, BrokerOK(b),
           b.state = "DECRYPTING_KEY_MATERIAL", b.pc = "idle"
    PROVE  HandedOut(NextKms(b), h \cup NextKmsRef(b), NextKmsRef(b) = {})
<1> DEFINE refs == NextKmsRef(b)
           n == NextKms(b)
<1>0. b.returned \in Seq(KeyReturned) /\ b.iter \in Nat /\ Len(b.returned) \in Nat
      /\ DOMAIN b.returned = 1..Len(b.returned)
  BY DEF Broker
<1>1. /\ KeysToRetry(b) \in SUBSET (1..Len(b.returned))
      /\ KeysAhead(b) \in SUBSET (1..Len(b.returned))
  BY <1>0 DEF KeysToRetry, KeysAhead
<1>2. AuthHanded(b, h) /\ KeysHanded(b, h)
  BY DEF HandedOut
<1>3. CASE KeysToRetry(b) # {}
  <2> DEFINE i == ListFirst(KeysToRetry(b))
             kms == KmsHandOut(b.returned[i].kms)
             entry == [b.returned[i] EXCEPT !.kms = kms]
             returned == [b.returned EXCEPT ![i] = entry]
  <2>1. i \in KeysToRetry(b) /\ \A j \in KeysToRetry(b) : j <= i
    <3> HIDE DEF i
    <3> QED BY <1>0, <1>1, <1>3, ListFirstIn DEF i
  <2>2. <<"key", i>> \in refs
    <3> HIDE DEF i
    <3> QED BY <1>3, <2>1 DEF NextKmsRef
  <2>3. n = [b EXCEPT !.returned = returned]
    BY <1>3 DEF NextKms
  <2> HIDE DEF i, refs
  <2>4. i \in DOMAIN b.returned /\ b.returned[i] \in KeyReturned
    BY <1>0, <2>1 DEF KeysToRetry
  <2>5. /\ entry.decrypted = b.returned[i].decrypted
        /\ entry.needsAuth = b.returned[i].needsAuth
        /\ entry.kms.st = "pending"
    BY <2>1, <2>4 DEF KeysToRetry, KeyReturned, KmsHandOut, Kms
  <2> HIDE DEF entry
  <2>6. /\ DOMAIN returned = DOMAIN b.returned
        /\ \A j \in DOMAIN b.returned : returned[j] = IF j = i THEN entry ELSE b.returned[j]
    BY <1>0, <2>4
  <2> HIDE DEF returned
  <2>7. /\ n.state = b.state /\ n.ok /\ n.pc = "idle" /\ n.auth = b.auth
        /\ n.returned = returned /\ n.iter = b.iter
    BY <2>3 DEF Broker
  <2> HIDE DEF n
  <2>8. AuthHanded(n, h \cup refs)
    BY <1>2, <2>7 DEF AuthHanded
  <2>9. KeysHanded(n, h \cup refs)
    <3> SUFFICES ASSUME NEW j \in DOMAIN b.returned PROVE KeyHanded(n, h \cup refs, j)
      BY <2>6, <2>7 DEF KeysHanded
    <3>1. KeyHanded(b, h, j)
      BY <1>2 DEF KeysHanded
    <3>2. CASE j = i
      <4>1. n.returned[j] = entry /\ <<"key", j>> \in h \cup refs
        BY <2>2, <2>6, <2>7, <3>2
      <4> QED BY <2>5, <2>7, <3>1, <3>2, <4>1 DEF KeyHanded
    <3>3. CASE j # i
      <4>1. n.returned[j] = b.returned[j]
        BY <2>6, <2>7, <3>3
      <4> QED BY <2>7, <3>1, <4>1 DEF KeyHanded
    <3> QED BY <3>2, <3>3
  <2>a. Drained(n, refs = {}) /\ AllEnded(n)
    BY <2>2, <2>7 DEF Drained, AllEnded
  <2> QED BY <2>7, <2>8, <2>9, <2>a DEF HandedOut, n, refs
<1>4. CASE KeysToRetry(b) = {}
  <2> DEFINE first == ListFirst(KeysAhead(b))
             iter == IF KeysAhead(b) = {} THEN 0 ELSE first - 1
  <2>1. n = [b EXCEPT !.iter = iter]
    BY <1>4 DEF NextKms
  <2>2. KeysAhead(b) # {} =>
            /\ first \in KeysAhead(b) /\ \A j \in KeysAhead(b) : j <= first
            /\ <<"key", first>> \in refs
    <3> SUFFICES ASSUME KeysAhead(b) # {}
                 PROVE  /\ first \in KeysAhead(b) /\ \A j \in KeysAhead(b) : j <= first
                        /\ <<"key", first>> \in refs
      OBVIOUS
    <3>1. first \in KeysAhead(b) /\ \A j \in KeysAhead(b) : j <= first
      BY <1>0, <1>1, ListFirstIn
    <3> HIDE DEF first
    <3> QED BY <1>4, <3>1 DEF NextKmsRef
  <2> HIDE DEF first
  <2>3. /\ n.state = b.state /\ n.ok /\ n.pc = "idle" /\ n.auth = b.auth
        /\ n.returned = b.returned /\ n.iter = iter
    BY <2>1 DEF Broker
  <2> HIDE DEF n, refs
  <2>4. AuthHanded(n, h \cup refs)
    BY <1>2, <2>3 DEF AuthHanded
  <2>5. KeysHanded(n, h \cup refs)
    <3> SUFFICES ASSUME NEW j \in DOMAIN b.returned, ~ b.returned[j].decrypted
                 PROVE  KeyHanded(n, h \cup refs, j)
      BY <2>3 DEF KeysHanded, KeyHanded
    <3>1. KeyHanded(b, h, j)
      BY <1>2 DEF KeysHanded
    <3>2. CASE j \in KeysAhead(b)
      <4>1. j <= first /\ first \in 1..Len(b.returned) /\ iter = first - 1
        BY <1>1, <2>2, <3>2
      <4>2. j = first \/ j <= iter
        BY <1>0, <4>1
      <4>3. j <= iter \/ <<"key", j>> \in h \cup refs
        BY <2>2, <3>2, <4>2
      <4> HIDE DEF iter
      <4> QED BY <2>3, <3>1, <4>3 DEF KeyHanded
    <3>3. CASE j \notin KeysAhead(b)
      <4>1. ~ (j <= b.iter)
        BY <3>3 DEF KeysAhead
      <4> QED BY <2>3, <3>1, <4>1 DEF KeyHanded
    <3> QED BY <3>2, <3>3
  <2>6. Drained(n, refs = {})
    <3> SUFFICES ASSUME refs = {} PROVE Drained(n, TRUE)
      BY DEF Drained
    <3>1. KeysAhead(b) = {} /\ iter = 0
      BY <2>2
    <3>2. KeysAhead(n) = {} /\ KeysToRetry(n) = {}
      BY <1>0, <1>4, <2>3, <3>1 DEF KeysAhead, KeysToRetry
    <3> QED BY <2>3, <3>2 DEF Drained, KmsStates
  <2>7. AllEnded(n)
    BY <2>3 DEF AllEnded
  <2> QED BY <2>3, <2>4, <2>5, <2>6, <2>7 DEF HandedOut, n, refs
<1> QED BY <1>3, <1>4

\* What feeding a KMS context makes of it
LEMMA KmsOutcomesEnd ==
    ASSUME NEW kms \in Kms, NEW kmsid, NEW k \in KmsOutcomes(kms, kmsid)
    PROVE  k.st \in {"done", "failed", "retry"}
BY DEF KmsOutcomes, KmsEnds, Kms

\* "n" is "b" after the driver fed auth request i, or the KMS request of key i.
FedAuth(b, n, i) ==
    /\ n.state = b.state /\ n.ok /\ n.pc = "idle" /\ n.returned = b.returned /\ n.iter = b.iter
    /\ i \in DOMAIN b.auth /\ DOMAIN n.auth = DOMAIN b.auth
    /\ n.auth[i].kms.st \in {"done", "failed", "retry"}
    /\ \A j \in DOMAIN b.auth : j # i => n.auth[j] = b.auth[j]

FedKey(b, n, i) ==
    /\ n.state = b.state /\ n.ok /\ n.pc = "idle" /\ n.auth = b.auth /\ n.iter = b.iter
    /\ i \in DOMAIN b.returned /\ DOMAIN n.returned = DOMAIN b.returned
    /\ n.returned[i].kms.st \in {"done", "failed", "retry"}
    /\ n.returned[i].decrypted = b.returned[i].decrypted
    /\ n.returned[i].needsAuth = b.returned[i].needsAuth
    /\ \A j \in DOMAIN b.returned : j # i => n.returned[j] = b.returned[j]

\* The driver that held "h" and let go of at most one context now holds "g".
LetGo(h, g, ref) == \A x \in h : x # ref => x \in g

\* The driver feeds an auth request; it lets go of it at its end at the latest.
LEMMA AuthKmsHanded ==
    ASSUME NEW b, NEW n, NEW h, NEW g, NEW i, HandedOut(b, h, FALSE), b.ok,
           FedAuth(b, n, i), LetGo(h, g, <<"auth", i>>)
    PROVE  HandedOut(n, g, FALSE)
<1> USE DEF FedAuth, LetGo
<1>1. AuthHanded(n, g)
  <2> SUFFICES ASSUME NEW j \in DOMAIN b.auth
               PROVE  /\ n.auth[j].kms.st # "unset"
                      /\ n.auth[j].returned /\ n.auth[j].kms.st = "pending" =>
                            <<"auth", j>> \in g
    BY DEF AuthHanded
  <2>1. CASE j = i
    BY <2>1
  <2>2. CASE j # i
    <3>1. n.auth[j] = b.auth[j] /\ <<"auth", j>> # <<"auth", i>>
      BY <2>2
    <3> QED BY <3>1 DEF HandedOut, AuthHanded
  <2> QED BY <2>1, <2>2
<1>2. KeysHanded(n, g)
  <2>1. \A j : <<"key", j>> # <<"auth", i>>
    OBVIOUS
  <2> QED BY <2>1 DEF HandedOut, KeysHanded, KeyHanded
<1>3. Drained(n, FALSE) /\ AllEnded(n)
  BY DEF Drained, AllEnded
<1> QED BY <1>1, <1>2, <1>3 DEF HandedOut

\* The driver feeds the KMS request of a key.
LEMMA KeyKmsHanded ==
    ASSUME NEW b, NEW n, NEW h, NEW g, NEW i, HandedOut(b, h, FALSE), b.ok,
           FedKey(b, n, i), LetGo(h, g, <<"key", i>>)
    PROVE  HandedOut(n, g, FALSE)
<1> USE DEF FedKey, LetGo
<1>1. KeysHanded(n, g)
  <2> SUFFICES ASSUME NEW j \in DOMAIN b.returned
               PROVE  KeyHanded(n, g, j)
    BY DEF KeysHanded
  <2>0. KeyHanded(b, h, j)
    BY DEF HandedOut, KeysHanded
  <2>1. CASE j = i
    BY <2>0, <2>1 DEF KeyHanded
  <2>2. CASE j # i
    <3>1. n.returned[j] = b.returned[j] /\ <<"key", j>> # <<"key", i>>
      BY <2>2
    <3> QED BY <2>0, <3>1 DEF KeyHanded
  <2> QED BY <2>1, <2>2
<1>2. AuthHanded(n, g)
  <2>1. \A j : <<"auth", j>> # <<"key", i>>
    OBVIOUS
  <2> QED BY <2>1 DEF HandedOut, AuthHanded
<1>3. Drained(n, FALSE) /\ AllEnded(n)
  BY DEF Drained, AllEnded
<1> QED BY <1>1, <1>2, <1>3 DEF HandedOut

\* A driver that holds nothing and has drained next_kms has brought every KMS
\* context that kms_done looks at to its end.
LEMMA KmsDoneEnterHanded ==
    ASSUME NEW b \in Broker, HandedOut(b, {}, TRUE), b.ok, b.pc = "idle", b.state \in KmsStates
    PROVE  HandedOut(KmsDoneEnter(b), {}, FALSE)
<1> DEFINE n == KmsDoneEnter(b)
<1>0. /\ b.returned \in Seq(KeyReturned) /\ b.auth \in Seq(AuthRequest)
      /\ AuthHanded(b, {}) /\ KeysHanded(b, {}) /\ Drained(b, TRUE)
  BY DEF Broker, HandedOut
<1>1. /\ n.state = b.state /\ n.ok /\ n.returned = b.returned /\ n.auth = b.auth
      /\ n.iter = b.iter
      /\ n.pc = IF b.state = "AUTHENTICATING" THEN "auth" ELSE "decrypt"
  BY DEF KmsDoneEnter, Broker
<1> HIDE DEF n
<1>2. AuthHanded(n, {}) /\ Drained(n, FALSE)
  BY <1>0, <1>1 DEF AuthHanded, Drained
<1>3. KeysHanded(n, {})
  BY <1>0, <1>1 DEF KeysHanded, KeyHanded
<1>4. ASSUME b.state = "AUTHENTICATING", NEW i \in DOMAIN b.auth
      PROVE  b.auth[i].kms.st \in {"done", "failed"}
  <2>1. b.auth[i] \in AuthRequest
    BY <1>0
  <2>2. b.auth[i].kms.st \in {"unset", "pending", "retry", "done", "failed"}
    BY <2>1 DEF AuthRequest, Kms
  <2>3. b.auth[i].kms.st # "retry" /\ b.auth[i].returned
    BY <1>0, <1>4 DEF Drained, AuthToHandOut
  <2> QED BY <1>0, <2>2, <2>3 DEF AuthHanded
<1>5. ASSUME b.state = "DECRYPTING_KEY_MATERIAL", NEW i \in DOMAIN b.returned,
             ~ b.returned[i].decrypted
      PROVE  b.returned[i].kms.st \in {"done", "failed"}
  <2>1. b.returned[i] \in KeyReturned
    BY <1>0
  <2>2. b.returned[i].kms.st \in {"unset", "pending", "retry", "done", "failed"}
    BY <2>1 DEF KeyReturned, Kms
  <2>3. b.returned[i].kms.st # "retry" /\ ~ (i <= b.iter)
    BY <1>0, <1>5 DEF Drained, KeysToRetry, KeysAhead
  <2>4. KeyHanded(b, {}, i)
    BY <1>0 DEF KeysHanded
  <2> QED BY <1>5, <2>2, <2>3, <2>4 DEF KeyHanded
<1>6. AllEnded(n)
  BY <1>1, <1>4, <1>5 DEF AllEnded, KmsStates
<1> QED BY <1>1, <1>2, <1>3, <1>6 DEF HandedOut, n

\* kms_done has cached the token of one auth request.
LEMMA AuthAppliedHanded ==
    ASSUME NEW b \in Broker, NEW h, NEW r, HandedOut(b, h, r), b.ok, BrokerOK(b), b.pc = "auth",
           NEW t \in Nat
    PROVE  HandedOut(AuthApplied(b, t), h, r)
<1> DEFINE i == b.idx
           since == IF b.auth[i].since = -1 THEN t ELSE b.auth[i].since
           ar == [b.auth[i] EXCEPT !.since = since]
           auth == [b.auth EXCEPT ![i] = ar]
           n == AuthApplied(b, t)
<1>0. /\ b.auth \in Seq(AuthRequest) /\ b.returned \in Seq(KeyReturned)
      /\ i \in DOMAIN b.auth /\ b.auth[i] \in AuthRequest /\ b.state = "AUTHENTICATING"
  BY DEF Broker, BrokerOK, PcSound
<1>1. \/ n = [b EXCEPT !.auth = auth, !.idx = @ + 1]
      \/ n = [b EXCEPT !.auth = auth, !.pc = "rekey", !.idx = Len(b.returned)]
  BY DEF AuthApplied, Broker
<1> HIDE DEF since, n
<1>2. ar.kms = b.auth[i].kms /\ ar.returned = b.auth[i].returned
  BY <1>0 DEF AuthRequest
<1> HIDE DEF ar
<1>3. /\ DOMAIN auth = DOMAIN b.auth
      /\ \A j \in DOMAIN b.auth : /\ auth[j].kms = b.auth[j].kms
                                  /\ auth[j].returned = b.auth[j].returned
  BY <1>0, <1>2
<1> HIDE DEF auth
<1>4. /\ n.state = b.state /\ n.ok /\ n.returned = b.returned /\ n.auth = auth
      /\ n.iter = b.iter
      /\ \/ n.pc = "auth"
         \/ n.pc = "rekey" /\ n.idx = Len(b.returned)
  <2>1. CASE n = [b EXCEPT !.auth = auth, !.idx = @ + 1]
    BY <2>1 DEF Broker
  <2>2. CASE n = [b EXCEPT !.auth = auth, !.pc = "rekey", !.idx = Len(b.returned)]
    BY <2>2 DEF Broker
  <2> QED BY <1>1, <2>1, <2>2
<1>5. AuthHanded(n, h)
  BY <1>3, <1>4 DEF HandedOut, AuthHanded
<1>6. KeysHanded(n, h)
  <2>1. \A j \in DOMAIN b.returned : j <= Len(b.returned)
    BY <1>0
  <2> QED BY <1>4, <2>1 DEF HandedOut, KeysHanded, KeyHanded
<1>7. Drained(n, r)
  BY DEF HandedOut, Drained
<1>8. AllEnded(n)
  BY <1>3, <1>4 DEF HandedOut, AllEnded
<1> QED BY <1>4, <1>5, <1>6, <1>7, <1>8 DEF HandedOut, n

\* kms_done has seen one key of the loop that builds the remaining requests: the
\* new request is ahead of the iterator, which next_kms has not moved yet.
LEMMA RekeyedHanded ==
    ASSUME NEW b \in Broker, NEW h, NEW r, HandedOut(b, h, r), b.ok, BrokerOK(b), b.pc = "rekey"
    PROVE  HandedOut(Rekeyed(b), h, r)
<1> DEFINE i == b.idx
           key == IF b.returned[i].needsAuth
                  THEN [b.returned[i] EXCEPT !.needsAuth = FALSE, !.kms = KmsNew]
                  ELSE b.returned[i]
           returned == [b.returned EXCEPT ![i] = key]
           k == i - 1
           n == Rekeyed(b)
<1>0. /\ b.returned \in Seq(KeyReturned) /\ b.state = "AUTHENTICATING"
      /\ i \in 1..Len(b.returned) /\ i \in DOMAIN b.returned
      /\ b.returned[i] \in KeyReturned /\ DOMAIN b.returned \subseteq Nat
  BY DEF Broker, BrokerOK, PcSound
<1>1. /\ key.decrypted = b.returned[i].decrypted /\ ~ key.needsAuth
      /\ b.returned[i].needsAuth => key.kms.st = "pending"
      /\ ~ b.returned[i].needsAuth => key = b.returned[i]
  BY <1>0 DEF KeyReturned, KmsNew
<1>2. IF i > 1 THEN n = [b EXCEPT !.returned = returned, !.idx = k]
      ELSE n = [b EXCEPT !.returned = returned, !.state = "DECRYPTING_KEY_MATERIAL",
                         !.pc = "idle", !.idx = 0]
  <2>1. CASE b.returned[i].needsAuth
    BY <2>1, <1>0 DEF Rekeyed, Broker
  <2>2. CASE ~ b.returned[i].needsAuth
    <3>1. returned = b.returned
      BY <2>2, <1>0
    <3>2. b = [b EXCEPT !.returned = b.returned]
      BY DEF Broker
    <3> QED BY <2>2, <3>1, <3>2 DEF Rekeyed, Broker
  <2> QED BY <2>1, <2>2
<1> HIDE DEF key, n
<1>3. /\ DOMAIN returned = DOMAIN b.returned
      /\ \A j \in DOMAIN b.returned : returned[j] = IF j = i THEN key ELSE b.returned[j]
  BY <1>0
<1> HIDE DEF returned
<1>4. /\ n.ok /\ n.returned = returned /\ n.auth = b.auth /\ n.iter = b.iter
      /\ \/ i > 1 /\ n.state = "AUTHENTICATING" /\ n.pc = "rekey" /\ n.idx = k
         \/ ~ (i > 1) /\ n.state = "DECRYPTING_KEY_MATERIAL" /\ n.pc = "idle"
  <2> HIDE DEF k
  <2> QED BY <1>0, <1>2 DEF Broker
<1>5. KeysHanded(n, h)
  <2> SUFFICES ASSUME NEW j \in DOMAIN b.returned, ~ b.returned[j].decrypted
               PROVE  KeyHanded(n, h, j)
    BY <1>1, <1>3, <1>4 DEF KeysHanded, KeyHanded
  <2>0. /\ j <= b.iter
        /\ b.returned[j].needsAuth \/ b.returned[j].kms.st # "unset"
        /\ b.returned[j].needsAuth => j <= i
    BY <1>0 DEF HandedOut, KeysHanded, KeyHanded
  <2>1. CASE j = i
    <3>1. n.returned[j] = key
      BY <1>3, <1>4, <2>1
    <3> QED BY <1>1, <1>4, <2>0, <2>1, <3>1 DEF KeyHanded
  <2>2. CASE j # i
    <3>1. n.returned[j] = b.returned[j]
      BY <1>3, <1>4, <2>2
    <3>2. b.returned[j].needsAuth => j <= k /\ i > 1
      BY <1>0, <2>0, <2>2
    <3> HIDE DEF k
    <3> QED BY <1>4, <2>0, <3>1, <3>2 DEF KeyHanded
  <2> QED BY <2>1, <2>2
<1>6. AuthHanded(n, h)
  BY <1>4 DEF HandedOut, AuthHanded
<1>7. Drained(n, r)
  BY DEF HandedOut, Drained
<1>8. AllEnded(n)
  BY <1>4 DEF AllEnded
<1> QED BY <1>4, <1>5, <1>6, <1>7, <1>8 DEF HandedOut, n

\* kms_done has the material of one key.
LEMMA DecryptedHanded ==
    ASSUME NEW b \in Broker, NEW h, NEW r, HandedOut(b, h, r), b.ok, BrokerOK(b), b.pc = "decrypt"
    PROVE  HandedOut(Decrypted(b), h, r)
<1> DEFINE i == b.idx
           key == [b.returned[i] EXCEPT !.decrypted = TRUE]
           returned == [b.returned EXCEPT ![i] = key]
           n == Decrypted(b)
<1>0. /\ b.returned \in Seq(KeyReturned) /\ b.state = "DECRYPTING_KEY_MATERIAL"
      /\ i \in 1..Len(b.returned) /\ i \in DOMAIN b.returned
      /\ b.returned[i] \in KeyReturned /\ DOMAIN b.returned = 1..Len(b.returned)
      /\ Len(b.returned) \in Nat
  BY DEF Broker, BrokerOK, PcSound
<1>1. key.decrypted
  BY <1>0 DEF KeyReturned
<1>2. IF i > 1 THEN n = [b EXCEPT !.returned = returned, !.idx = i - 1]
      ELSE n = [b EXCEPT !.returned = returned, !.state = "DONE", !.pc = "idle", !.idx = 0]
  BY DEF Decrypted, Broker
<1> HIDE DEF key, n
<1>3. /\ DOMAIN returned = DOMAIN b.returned
      /\ \A j \in DOMAIN b.returned : returned[j] = IF j = i THEN key ELSE b.returned[j]
  BY <1>0
<1> HIDE DEF returned
<1>4. /\ n.ok /\ n.returned = returned /\ n.auth = b.auth /\ n.iter = b.iter
      /\ \/ i > 1 /\ n.state = b.state /\ n.pc = "decrypt"
         \/ ~ (i > 1) /\ n.state = "DONE" /\ n.pc = "idle"
  BY <1>2 DEF Broker
<1>5. KeysHanded(n, h)
  <2> SUFFICES ASSUME NEW j \in DOMAIN b.returned, j # i, ~ b.returned[j].decrypted
               PROVE  KeyHanded(n, h, j)
    BY <1>1, <1>3, <1>4 DEF KeysHanded, KeyHanded
  <2>1. n.returned[j] = b.returned[j]
    BY <1>3, <1>4
  <2>2. KeyHanded(b, h, j)
    BY DEF HandedOut, KeysHanded
  <2>3. ~ (j > i)
    BY DEF BrokerOK, DecryptedSoFar
  <2>4. i > 1
    BY <1>0, <2>3
  <2> QED BY <1>0, <1>4, <2>1, <2>2, <2>4 DEF KeyHanded
<1>6. AuthHanded(n, h)
  BY <1>4 DEF HandedOut, AuthHanded
<1>7. Drained(n, r)
  BY DEF HandedOut, Drained
<1>8. AllEnded(n)
  <2>1. \A j \in DOMAIN b.returned :
            b.returned[j].decrypted \/ b.returned[j].kms.st \in {"done", "failed"}
    BY DEF HandedOut, AllEnded
  <2> QED BY <1>1, <1>3, <1>4, <2>1 DEF AllEnded
<1> QED BY <1>4, <1>5, <1>6, <1>7, <1>8 DEF HandedOut, n

-----------------------------------------------------------------------------
(***************************************************************************)
(* The steps of the system, under a patient driver.                        *)
(***************************************************************************)
\* Replacing one broker, and what its driver holds, by a pair that is handed out.
LEMMA HandoutStep ==
    ASSUME Inv, HandoutInv, PatientDriver, NEW c \in Ctxs, NEW n, NEW h, NEW r,
           Becomes(c, n), HandedOut(n, h, r), ~ aborted',
           held' = [held EXCEPT ![c] = h], drained' = [drained EXCEPT ![c] = r]
    PROVE  HandoutInv'
<1>1. \A d \in Ctxs : /\ kb'[d] = IF d = c THEN n ELSE kb[d]
                      /\ held'[d] = IF d = c THEN h ELSE held[d]
                      /\ drained'[d] = IF d = c THEN r ELSE drained[d]
  BY DEF Becomes, Inv, TypeOK
<1>2. \A d \in Ctxs : HandedOut(kb'[d], held'[d], drained'[d])
  BY <1>1 DEF HandoutInv
<1> QED BY <1>2 DEF HandoutInv

\* The steps that leave the driver alone
LEMMA HandoutLocalStep ==
    ASSUME Inv, HandoutInv, PatientDriver, ~ aborted, NEW c \in Ctxs, NEW n,
           Becomes(c, n), HandedOut(n, held[c], drained[c]),
           UNCHANGED <<driver, aborted>>
    PROVE  HandoutInv'
<1>1. /\ held' = [held EXCEPT ![c] = held[c]]
      /\ drained' = [drained EXCEPT ![c] = drained[c]]
  BY DEF driver, Inv, TypeOK
<1> QED BY <1>1, HandoutStep

\* request_id, request_name and add_doc in any mode
LEMMA RequestHandout ==
    ASSUME Inv, Inv', HandoutInv, PatientDriver, ~ aborted, NEW c \in Ctxs,
           RequestId(c) \/ RequestName(c) \/ AddCachedDoc(c) \/ AskForDoc(c)
    PROVE  HandoutInv'
<1> DEFINE b == kb[c]
<1>1. /\ b \in Broker /\ BrokerOK(b) /\ b.pc = "idle" /\ b.ok
      /\ b.state \in {"REQUESTING", "ADDING_DOCS_ANY"}
      /\ HandedOut(b, held[c], drained[c])
  BY CallerGood DEF RequestId, RequestName, Request1, AddCachedDoc, AskForDoc, HandoutInv
<1>2. b.state \notin KmsStates
  BY <1>1 DEF KmsStates
<1>3. UNCHANGED <<driver, aborted>>
  BY DEF RequestId, RequestName, Request1, AddCachedDoc, AskForDoc
<1>4. ASSUME NEW n, Becomes(c, n) PROVE Good(n)
  <2>1. kb'[c] = n
    BY <1>4 DEF Becomes, Inv, TypeOK
  <2> QED BY <2>1 DEF Inv
<1>5. CASE RequestId(c) \/ RequestName(c) \/ AddCachedDoc(c)
  <2>1. PICK id, names, hit : Becomes(c, AddRequest(b, id, names, hit))
    BY <1>5 DEF RequestId, RequestName, Request1, AddCachedDoc
  <2>2. Good(AddRequest(b, id, names, hit))
    BY <1>4, <2>1
  <2> HIDE DEF b
  <2>3. HandedOut(AddRequest(b, id, names, hit), held[c], drained[c])
    BY <1>1, <1>2, <2>2, AddRequestHanded
  <2> QED BY <1>3, <2>1, <2>3, HandoutLocalStep
<1>6. CASE AskForDoc(c)
  <2>1. PICK doc \in Docs :
            Becomes(c, [AddRequest(b, doc.id, doc.names, {}) EXCEPT !.pc = "add"])
    BY <1>6 DEF AskForDoc
  <2> DEFINE n == [AddRequest(b, doc.id, doc.names, {}) EXCEPT !.pc = "add"]
  <2>2. n \in Broker
    BY <1>4, <2>1 DEF Good
  <2> HIDE DEF b
  <2>3. /\ n.ok /\ n.pc = "add" /\ n.returned = b.returned /\ n.auth = b.auth
        /\ n.iter = b.iter /\ n.state = b.state
    BY <1>1 DEF AddRequest, Broker
  <2> HIDE DEF n
  <2>4. HandedOut(n, held[c], drained[c])
    BY <1>1, <1>2, <2>2, <2>3, QuietHanded
  <2> QED BY <1>3, <2>1, <2>4, HandoutLocalStep DEF n
<1> QED BY <1>5, <1>6

\* The other calls that touch one broker only
LEMMA CallHandout ==
    ASSUME Inv, HandoutInv, PatientDriver, ~ aborted, NEW c \in Ctxs,
           \/ RequestAnyKeys(c) \/ FinishRequests(c) \/ GetFilter(c)
           \/ AddUnexpectedDoc(c) \/ AddMalformedDoc(c) \/ FinishDocs(c)
           \/ LookupFails(c) \/ CallInWrongState(c)
    PROVE  HandoutInv'
<1> DEFINE b == kb[c]
<1>1. UNCHANGED <<driver, aborted>>
  BY DEF RequestAnyKeys, FinishRequests, GetFilter, AddUnexpectedDoc, AddMalformedDoc,
         FinishDocs, LookupFails, CallInWrongState, shared
<1>2. b \in Broker /\ HandedOut(b, held[c], drained[c])
  BY DEF HandoutInv, Inv, TypeOK
<1>3. CASE AddUnexpectedDoc(c) \/ LookupFails(c) \/ CallInWrongState(c)
  <2>1. Becomes(c, Fail(b))
    BY <1>3 DEF AddUnexpectedDoc, LookupFails, CallInWrongState
  <2> QED BY <1>1, <1>2, <2>1, FailHanded, HandoutLocalStep
<1>4. CASE \/ RequestAnyKeys(c) \/ FinishRequests(c) \/ GetFilter(c)
           \/ AddMalformedDoc(c) \/ FinishDocs(c)
  <2>1. /\ BrokerOK(b) /\ b.pc = "idle" /\ b.ok
        /\ b.state \in {"REQUESTING", "ADDING_DOCS", "ADDING_DOCS_ANY"}
    BY <1>4, CallerGood DEF RequestAnyKeys, FinishRequests, GetFilter, AddMalformedDoc, FinishDocs
  <2>2. b.state \notin KmsStates
    BY <2>1 DEF KmsStates
  <2>3. \/ Becomes(c, RequestAny(b)) \/ Becomes(c, RequestsDone(b))
        \/ Becomes(c, Filter(b)) /\ b.state = "ADDING_DOCS"
        \/ Becomes(c, RejectMalformed(b)) \/ Becomes(c, DocsDone(b))
    BY <1>4, CallerGood DEF RequestAnyKeys, FinishRequests, GetFilter, AddMalformedDoc, FinishDocs
  <2> HIDE DEF b
  <2>4. /\ HandedOut(RequestAny(b), held[c], drained[c])
        /\ HandedOut(RequestsDone(b), held[c], drained[c])
        /\ b.state = "ADDING_DOCS" => HandedOut(Filter(b), held[c], drained[c])
        /\ HandedOut(DocsDone(b), held[c], drained[c])
        /\ HandedOut(RejectMalformed(b), held[c], drained[c])
    BY <1>2, <2>1, <2>2, StateHanded
  <2> QED BY <1>1, <2>3, <2>4, HandoutLocalStep
<1> QED BY <1>3, <1>4

\* add_doc with a document that goes to keys_returned
LEMMA AddDocHandout ==
    ASSUME Inv, HandoutInv, PatientDriver, ~ aborted, NEW c \in Ctxs, AddDoc(c) \/ StoreDoc(c)
    PROVE  HandoutInv'
<1> DEFINE b == kb[c]
           idle == [b EXCEPT !.pc = "idle"]
<1>1. /\ b \in Broker /\ BrokerOK(b) /\ b.pc \in {"idle", "add"} /\ b.ok
      /\ b.state \in {"ADDING_DOCS", "ADDING_DOCS_ANY"}
      /\ HandedOut(b, held[c], drained[c])
  <2>1. CASE AddDoc(c)
    BY <2>1, CallerGood DEF AddDoc, HandoutInv
  <2>2. CASE StoreDoc(c)
    <3>1. b \in Broker /\ BrokerOK(b) /\ b.pc = "add" /\ b.ok
      BY <2>2, InsideGood DEF StoreDoc, Inside
    <3>2. b.state = "ADDING_DOCS_ANY"
      BY <3>1 DEF BrokerOK, PcSound
    <3> QED BY <3>1, <3>2 DEF HandoutInv
  <2> QED BY <2>1, <2>2
<1>2. PICK doc \in Docs, valid \in BOOLEAN : TakeDoc(c, doc, valid)
  BY DEF AddDoc, StoreDoc
<1> DEFINE token == TokenAtHand(doc.kmsid)
           n == AcceptDoc(idle, doc, token, valid)
<1>3. Becomes(c, n) /\ UNCHANGED <<driver, aborted>>
  BY <1>2 DEF TakeDoc
<1>4. doc \in Doc
  BY KeyBrokerSysAssumption
<1>5. token \in BOOLEAN
  BY DEF TokenAtHand, HasToken
<1> HIDE DEF b, token
<1>6. /\ idle \in Broker /\ idle.ok /\ idle.pc = "idle" /\ idle.state = b.state
      /\ idle.returned = b.returned /\ idle.auth = b.auth /\ idle.iter = b.iter
  BY <1>1 DEF Broker
<1>7. BrokerOK(idle)
  <2>1. CASE b.pc = "idle"
    <3>1. idle = b
      BY <1>1, <2>1 DEF Broker
    <3> HIDE DEF idle
    <3> QED BY <1>1, <3>1
  <2>2. CASE b.pc = "add"
    <3>1. b.state = "ADDING_DOCS_ANY"
      BY <1>1, <2>2 DEF BrokerOK, PcSound
    <3> QED BY <1>1, <3>1, AddPcGood
  <2> QED BY <1>1, <2>1, <2>2
<1> HIDE DEF idle
<1>8. b.state \notin KmsStates /\ b.state # "DECRYPTING_KEY_MATERIAL"
  BY <1>1 DEF KmsStates
<1>9. HandedOut(idle, held[c], drained[c])
  BY <1>1, <1>6, <1>8, QuietHanded
<1>a. HandedOut(n, held[c], drained[c])
  BY <1>1, <1>4, <1>5, <1>6, <1>7, <1>9, AcceptDocHanded
<1> HIDE DEF n
<1> QED BY <1>3, <1>a, HandoutLocalStep

\* next_kms gives the driver what it hands out.
LEMMA NextKmsHandout ==
    ASSUME Inv, HandoutInv, PatientDriver, ~ aborted, NEW c \in Ctxs, GetNextKms(c)
    PROVE  HandoutInv'
<1> DEFINE b == kb[c]
<1>1. /\ b \in Broker /\ BrokerOK(b) /\ b.pc = "idle" /\ b.ok /\ b.state \in KmsStates
      /\ HandedOut(b, held[c], drained[c])
  BY CallerGood DEF GetNextKms, HandoutInv
<1>2. /\ Becomes(c, NextKms(b)) /\ ~ aborted'
      /\ held' = [held EXCEPT ![c] = held[c] \cup NextKmsRef(b)]
      /\ drained' = [drained EXCEPT ![c] = NextKmsRef(b) = {}]
  BY DEF GetNextKms, shared, HandoutInv, Inv, TypeOK
<1> HIDE DEF b
<1>3. HandedOut(NextKms(b), held[c] \cup NextKmsRef(b), NextKmsRef(b) = {})
  BY <1>1, NextAuthHanded, NextKeyHanded DEF KmsStates
<1> QED BY <1>2, <1>3, HandoutStep

\* The driver feeds a KMS context to its end.
LEMMA CompleteHandout ==
    ASSUME Inv, HandoutInv, PatientDriver, ~ aborted, NEW c \in Ctxs, CompleteAuth(c) \/ CompleteKey(c)
    PROVE  HandoutInv'
<1> DEFINE b == kb[c]
<1>0. HandedOut(b, held[c], drained[c])
  BY DEF HandoutInv
<1>1. /\ b \in Broker /\ b.pc = "idle" /\ b.ok /\ HandedOut(b, held[c], FALSE)
  BY <1>0, CallerGood DEF CompleteAuth, CompleteKey, HandedOut, Drained
<1>2. drained' = [drained EXCEPT ![c] = FALSE] /\ ~ aborted'
  BY DEF CompleteAuth, CompleteKey, shared, HandoutInv
<1> DEFINE g == held'[c]
<1>3. ASSUME NEW n, Becomes(c, n), HandedOut(n, g, FALSE), NEW ref, NEW kms, Releases(c, ref, kms)
      PROVE  HandoutInv'
  <2>1. held' = [held EXCEPT ![c] = g]
    BY <1>3 DEF Releases, Inv, TypeOK
  <2> HIDE DEF g
  <2> QED BY <1>2, <1>3, <2>1, HandoutStep
<1>r. ASSUME NEW ref, NEW kms, Releases(c, ref, kms)
      PROVE  LetGo(held[c], g, ref)
  BY <1>r DEF LetGo, Releases, Inv, TypeOK
<1> HIDE DEF g
<1>4. CASE CompleteAuth(c)
  <2>1. PICK i \in DOMAIN b.auth :
            \E kms \in KmsOutcomes(b.auth[i].kms, b.auth[i].kmsid) :
                /\ Becomes(c, [b EXCEPT !.auth[i].kms = kms])
                /\ Releases(c, <<"auth", i>>, kms)
    BY <1>4 DEF CompleteAuth
  <2>2. PICK kms \in KmsOutcomes(b.auth[i].kms, b.auth[i].kmsid) :
            /\ Becomes(c, [b EXCEPT !.auth[i].kms = kms])
            /\ Releases(c, <<"auth", i>>, kms)
    BY <2>1
  <2> HIDE DEF b
  <2> DEFINE ar == [b.auth[i] EXCEPT !.kms = kms]
             auth == [b.auth EXCEPT ![i] = ar]
             n == [b EXCEPT !.auth = auth]
  <2>3. b.auth \in Seq(AuthRequest) /\ b.auth[i] \in AuthRequest
    BY <1>1 DEF Broker
  <2>4. ar.kms = kms /\ b.auth[i].kms \in Kms
    BY <2>3 DEF AuthRequest
  <2>5. kms.st \in {"done", "failed", "retry"}
    BY <2>4, KmsOutcomesEnd
  <2>6. Becomes(c, n)
    BY <2>2
  <2> HIDE DEF ar
  <2>7. /\ DOMAIN auth = DOMAIN b.auth /\ auth[i] = ar
        /\ \A j \in DOMAIN b.auth : j # i => auth[j] = b.auth[j]
    BY <2>3
  <2> HIDE DEF auth
  <2>8. /\ n.state = b.state /\ n.ok /\ n.pc = "idle" /\ n.auth = auth
        /\ n.returned = b.returned /\ n.iter = b.iter
    BY <1>1 DEF Broker
  <2> HIDE DEF n
  <2>9. HandedOut(n, g, FALSE)
    <3>1. LetGo(held[c], g, <<"auth", i>>)
      BY <1>r, <2>2
    <3>2. FedAuth(b, n, i)
      BY <2>4, <2>5, <2>7, <2>8 DEF FedAuth
    <3> QED BY <1>1, <3>1, <3>2, AuthKmsHanded
  <2> QED BY <1>3, <2>2, <2>6, <2>9
<1>5. CASE CompleteKey(c)
  <2>1. PICK i \in DOMAIN b.returned :
            \E kms \in KmsOutcomes(b.returned[i].kms, b.returned[i].doc.kmsid) :
                /\ Becomes(c, [b EXCEPT !.returned[i].kms = kms])
                /\ Releases(c, <<"key", i>>, kms)
    BY <1>5 DEF CompleteKey
  <2>2. PICK kms \in KmsOutcomes(b.returned[i].kms, b.returned[i].doc.kmsid) :
            /\ Becomes(c, [b EXCEPT !.returned[i].kms = kms])
            /\ Releases(c, <<"key", i>>, kms)
    BY <2>1
  <2> HIDE DEF b
  <2> DEFINE key == [b.returned[i] EXCEPT !.kms = kms]
             returned == [b.returned EXCEPT ![i] = key]
             n == [b EXCEPT !.returned = returned]
  <2>3. b.returned \in Seq(KeyReturned) /\ b.returned[i] \in KeyReturned
    BY <1>1 DEF Broker
  <2>4. /\ key.kms = kms /\ key.decrypted = b.returned[i].decrypted
        /\ key.needsAuth = b.returned[i].needsAuth /\ b.returned[i].kms \in Kms
    BY <2>3 DEF KeyReturned
  <2>5. kms.st \in {"done", "failed", "retry"}
    BY <2>4, KmsOutcomesEnd
  <2>6. Becomes(c, n)
    BY <2>2
  <2> HIDE DEF key
  <2>7. /\ DOMAIN returned = DOMAIN b.returned /\ returned[i] = key
        /\ \A j \in DOMAIN b.returned : j # i => returned[j] = b.returned[j]
    BY <2>3
  <2> HIDE DEF returned
  <2>8. /\ n.state = b.state /\ n.ok /\ n.pc = "idle" /\ n.auth = b.auth
        /\ n.returned = returned /\ n.iter = b.iter
    BY <1>1 DEF Broker
  <2> HIDE DEF n
  <2>9. HandedOut(n, g, FALSE)
    <3>1. LetGo(held[c], g, <<"key", i>>)
      BY <1>r, <2>2
    <3>2. FedKey(b, n, i)
      BY <2>4, <2>5, <2>7, <2>8 DEF FedKey
    <3> QED BY <1>1, <3>1, <3>2, KeyKmsHanded
  <2> QED BY <1>3, <2>2, <2>6, <2>9
<1> QED BY <1>4, <1>5

\* kms_done, which a patient driver calls with nothing left to feed
LEMMA KmsDoneHandout ==
    ASSUME Inv, HandoutInv, PatientDriver, ~ aborted, NEW c \in Ctxs,
           KmsDone(c) \/ ApplyToken(c) \/ RekeyOne(c) \/ DecryptOne(c)
    PROVE  HandoutInv'
<1> DEFINE b == kb[c]
<1>0. HandedOut(b, held[c], drained[c])
  BY DEF HandoutInv
<1>1. CASE KmsDone(c)
  <2>1. b \in Broker /\ b.pc = "idle" /\ b.ok /\ b.state \in KmsStates
    BY <1>1, CallerGood DEF KmsDone
  <2>2. /\ drained[c] /\ held[c] = {} /\ Becomes(c, KmsDoneEnter(b)) /\ ~ aborted'
        /\ held' = [held EXCEPT ![c] = {}] /\ drained' = [drained EXCEPT ![c] = FALSE]
    BY <1>1 DEF KmsDone, shared, HandoutInv
  <2>3. HandedOut(b, {}, TRUE)
    <3>1. drained[c] = TRUE
      BY <2>2 DEF Inv, TypeOK
    <3> QED BY <1>0, <2>2, <3>1
  <2> HIDE DEF b
  <2>4. HandedOut(KmsDoneEnter(b), {}, FALSE)
    BY <2>1, <2>3, KmsDoneEnterHanded
  <2> QED BY <2>2, <2>4, HandoutStep
<1>2. CASE ApplyToken(c)
  <2>1. b \in Broker /\ BrokerOK(b) /\ b.pc = "auth" /\ b.ok /\ now \in Nat
    BY <1>2, InsideGood DEF ApplyToken, Inside, Inv, TypeOK
  <2>2. b.idx \in DOMAIN b.auth
    BY <2>1 DEF Broker, BrokerOK, PcSound
  <2>3. b.auth[b.idx].kms.st # "retry"
    BY <1>0, <2>1, <2>2 DEF HandedOut, AllEnded
  <2>4. CASE UNCHANGED aborted
    <3>1. /\ UNCHANGED <<driver, aborted>>
          /\ Becomes(c, AuthApplied(b, now)) \/ Becomes(c, Fail(b))
      BY <1>2, <2>3, <2>4 DEF ApplyToken
    <3> HIDE DEF b
    <3> QED BY <1>0, <2>1, <3>1, AuthAppliedHanded, FailHanded, HandoutLocalStep
  <2>5. CASE ~ UNCHANGED aborted
    <3>1. /\ b.auth[b.idx].kms.st = "done" /\ \E life \in TokenLives : ~ LifeFits(life, now)
          /\ kb' = kb /\ now' = now /\ UNCHANGED driver
      BY <1>2, <2>3, <2>5 DEF ApplyToken
    <3>2. AnswerWithBadLifetime'
      BY <2>1, <3>1 DEF AnswerWithBadLifetime, LifeFits, Lifetime
    <3> QED BY <3>1, <3>2 DEF HandoutInv, driver
  <2> QED BY <2>4, <2>5
<1>3. CASE RekeyOne(c)
  <2>1. b \in Broker /\ BrokerOK(b) /\ b.pc = "rekey" /\ b.ok
    BY <1>3, InsideGood DEF RekeyOne, Inside
  <2>2. /\ UNCHANGED <<driver, aborted>>
        /\ Becomes(c, Rekeyed(b)) \/ Becomes(c, Fail(b))
    BY <1>3 DEF RekeyOne, shared
  <2> HIDE DEF b
  <2> QED BY <1>0, <2>1, <2>2, RekeyedHanded, FailHanded, HandoutLocalStep
<1>4. CASE DecryptOne(c)
  <2>1. b \in Broker /\ BrokerOK(b) /\ b.pc = "decrypt" /\ b.ok
    BY <1>4, InsideGood DEF DecryptOne, Inside
  <2>2. /\ UNCHANGED <<driver, aborted>>
        /\ Becomes(c, Decrypted(b)) \/ Becomes(c, Fail(b))
    BY <1>4 DEF DecryptOne
  <2> HIDE DEF b
  <2> QED BY <1>0, <2>1, <2>2, DecryptedHanded, FailHanded, HandoutLocalStep
<1> QED BY <1>1, <1>2, <1>3, <1>4

\* A broker is restarted, or destroyed and replaced.
LEMMA LifeCycleHandout ==
    ASSUME Inv, HandoutInv, PatientDriver, ~ aborted, NEW c \in Ctxs, RestartBroker(c) \/ Destroy(c)
    PROVE  HandoutInv'
<1> DEFINE b == kb[c]
<1>1. CASE RestartBroker(c)
  <2>1. /\ b \in Broker /\ BrokerOK(b) /\ b.pc = "idle" /\ b.ok /\ b.state = "DONE"
        /\ HandedOut(b, held[c], drained[c])
    BY <1>1, CallerGood DEF RestartBroker, HandoutInv
  <2>2. b.state \notin KmsStates
    BY <2>1 DEF KmsStates
  <2>3. drained[c] = FALSE
    BY <2>1, <2>2 DEF HandedOut, Drained, Inv, TypeOK
  <2>4. /\ Becomes(c, Restart(b)) /\ ~ aborted'
        /\ held' = [held EXCEPT ![c] = held[c]] /\ drained' = [drained EXCEPT ![c] = FALSE]
    BY <1>1 DEF RestartBroker, shared, HandoutInv, Inv, TypeOK
  <2> HIDE DEF b
  <2>5. HandedOut(Restart(b), held[c], FALSE)
    BY <2>1, <2>2, <2>3, StateHanded
  <2> QED BY <2>4, <2>5, HandoutStep
<1>2. CASE Destroy(c)
  <2>1. /\ Becomes(c, NewBroker) /\ ~ aborted'
        /\ held' = [held EXCEPT ![c] = {}] /\ drained' = [drained EXCEPT ![c] = FALSE]
    BY <1>2 DEF Destroy, shared, HandoutInv
  <2> QED BY <2>1, NewHanded, HandoutStep
<1> QED BY <1>1, <1>2

-----------------------------------------------------------------------------
\* Every step of the system keeps the invariant.
LEMMA NextHandout == Inv /\ Inv' /\ HandoutInv /\ [Next]_vars => HandoutInv'
<1> SUFFICES ASSUME Inv, Inv', HandoutInv, PatientDriver, [Next]_vars PROVE HandoutInv'
  BY DEF HandoutInv
<1>1. CASE UNCHANGED vars
  BY <1>1 DEF vars, HandoutInv, AnswerWithBadLifetime, LifeFits, Lifetime
<1>2. CASE Tick
  BY <1>2 DEF Tick, driver, HandoutInv
<1>3. ASSUME NEW c \in Ctxs, BrokerStep(c) PROVE HandoutInv'
  <2>1. ~ aborted
    BY <1>3 DEF BrokerStep, Calls, Inside, RequestId, RequestName, Request1, RequestAnyKeys,
       FinishRequests, GetFilter, AddUnexpectedDoc, AddCachedDoc, AskForDoc, AddDoc, StoreDoc,
       AddMalformedDoc, FinishDocs, GetNextKms, CompleteAuth, CompleteKey, KmsDone, ApplyToken,
       RekeyOne, DecryptOne, LookupFails, RestartBroker, CallInWrongState, Destroy
  <2> QED BY <1>3, <2>1, RequestHandout, CallHandout, AddDocHandout, NextKmsHandout,
     CompleteHandout, KmsDoneHandout, LifeCycleHandout DEF BrokerStep
<1> QED BY <1>1, <1>2, <1>3 DEF Next

(***************************************************************************)
(* With a driver that drains next_kms, every KMS context a broker waits    *)
(* for is still to be handed out, held by the driver or at its end, and    *)
(* only the lifetime of a token ends the process (next_kms, kms_done,      *)
(* add_doc).                                                               *)
(***************************************************************************)
THEOREM HandoutHolds == Spec => []HandoutInv
<1>1. Init => HandoutInv
  BY NewHanded DEF Init, HandoutInv
<1>2. Inv /\ Inv' /\ HandoutInv /\ [Next]_vars => HandoutInv'
  BY NextHandout
<1> QED BY <1>1, <1>2, InvHolds, PTL DEF Spec

(***************************************************************************)
(* kms_done of such a driver never meets a KMS context that was not handed *)
(* out, is unfinished or waits for a retry, for any number of documents,   *)
(* KMS ids, retries and restarts (_mongocrypt_key_broker_kms_done).        *)
(***************************************************************************)
THEOREM NoKmsEverSkipped == Spec => []NoKmsSkipped
<1>1. Inv /\ HandoutInv => NoKmsSkipped
  BY DEF HandoutInv, HandedOut, AllEnded, NoKmsSkipped
<1> QED BY <1>1, InvHolds, HandoutHolds, PTL

(***************************************************************************)
(* So the process of such a driver ends only on the lifetime of a token,   *)
(* never on the result of an auth request that has no answer.              *)
(***************************************************************************)
THEOREM OnlyLifetimesEverAbort == Spec => []OnlyLifetimesAbort
<1>1. HandoutInv => OnlyLifetimesAbort
  BY DEF HandoutInv, OnlyLifetimesAbort
<1> QED BY <1>1, HandoutHolds, PTL
=============================================================================
