---------------------------- MODULE KeyBrokerSys ----------------------------
(***************************************************************************)
(* Several contexts of one mongocrypt_t, each with its own key broker and  *)
(* its own thread, sharing the key cache and the OAuth token cache, with   *)
(* the driver that feeds them and the clock that ages the caches.          *)
(*                                                                         *)
(* A context calls its broker until a call fails: the context then enters  *)
(* its error state and calls it no more.  The driver is unconstrained in   *)
(* the documents it feeds and in the fate of its KMS requests.  When       *)
(* PatientDriver holds it follows integrating.md in the state NEED_KMS: it *)
(* calls kms_done only after next_kms_ctx has returned NULL and every      *)
(* context it was given is complete.                                       *)
(***************************************************************************)
EXTENDS KeyBroker

CONSTANTS
    Ctxs,           \* the contexts
    Docs,           \* the key documents the driver may feed
    MaxNow,         \* bound on the clock
    MaxRounds,      \* bound on restarts of one broker
    PatientDriver   \* does the driver drain the KMS contexts?

ASSUME KeyBrokerSysAssumption ==
    /\ Docs \subseteq Doc
    /\ MaxNow \in Nat
    /\ MaxRounds \in Nat
    /\ PatientDriver \in BOOLEAN

VARIABLES
    kb,         \* the broker of each context
    cacheKey,   \* mongocrypt_t.cache_key
    cacheOauth, \* mongocrypt_t.cache_oauth
    now,        \* bson_get_monotonic_time
    held,       \* the KMS contexts each driver thread is still feeding
    drained,    \* next_kms has returned NULL since the last other call
    rounds,     \* restarts of each broker
    aborted     \* a BSON_ASSERT has ended the process

vars == <<kb, cacheKey, cacheOauth, now, held, drained, rounds, aborted>>
driver == <<held, drained, rounds>>
shared == <<cacheKey, cacheOauth, now, aborted>>

Refs == {"auth", "key"} \X Nat

TypeOK ==
    /\ kb \in [Ctxs -> Broker]
    /\ cacheKey \in SUBSET Pair
    /\ cacheOauth \in [KmsIds -> Token \cup {NoToken}]
    /\ now \in Nat
    /\ held \in [Ctxs -> SUBSET Refs]
    /\ drained \in [Ctxs -> BOOLEAN]
    /\ rounds \in [Ctxs -> Nat]
    /\ aborted \in BOOLEAN

Init ==
    /\ kb = [c \in Ctxs |-> NewBroker]
    /\ cacheKey = {}
    /\ cacheOauth = [k \in KmsIds |-> NoToken]
    /\ now = 0
    /\ held = [c \in Ctxs |-> {}]
    /\ drained = [c \in Ctxs |-> FALSE]
    /\ rounds = [c \in Ctxs |-> 0]
    /\ aborted = FALSE

-----------------------------------------------------------------------------
\* The context may make its next call in one of these broker states.
Calls(c, states) ==
    /\ ~ aborted
    /\ kb[c].ok
    /\ kb[c].pc = "idle"
    /\ kb[c].state \in states

\* The thread of the context is inside add_doc or kms_done.
Inside(c, pc) == ~ aborted /\ kb[c].ok /\ kb[c].pc = pc

Becomes(c, b) == kb' = [kb EXCEPT ![c] = b]

\* add_doc and kms_done take the token of the credentials before a cached one.
TokenAtHand(kmsid) ==
    kmsid \in DirectToken \/ HasToken(cacheOauth, kmsid, now)

-----------------------------------------------------------------------------
(***************************************************************************)
(* Requesting.                                                             *)
(***************************************************************************)
\* request_id and request_name: a request already made is not repeated.
Request1(c, id, names) ==
    /\ Calls(c, {"REQUESTING"})
    /\ ~ RequestKnown(kb[c], id, names)
    /\ LET attr == [id |-> id, names |-> names]
       IN  Becomes(c, AddRequest(kb[c], id, names, CacheGet(cacheKey, attr, now)))
    /\ cacheKey' = CacheEvict(cacheKey, now)
    /\ UNCHANGED <<driver, cacheOauth, now, aborted>>

RequestId(c) == \E id \in KeyIds : Request1(c, id, {})

RequestName(c) == \E name \in AltNames : Request1(c, NoId, {name})

RequestAnyKeys(c) ==
    /\ Calls(c, {"REQUESTING"})
    /\ Becomes(c, RequestAny(kb[c]))
    /\ UNCHANGED <<driver, shared>>

FinishRequests(c) ==
    /\ Calls(c, {"REQUESTING"})
    /\ Becomes(c, RequestsDone(kb[c]))
    /\ UNCHANGED <<driver, shared>>

GetFilter(c) ==
    /\ Calls(c, {"ADDING_DOCS"})
    /\ Becomes(c, Filter(kb[c]))
    /\ UNCHANGED <<driver, shared>>

-----------------------------------------------------------------------------
(***************************************************************************)
(* Adding documents.                                                       *)
(***************************************************************************)
\* A document nobody asked for is an error.
AddUnexpectedDoc(c) ==
    /\ Calls(c, {"ADDING_DOCS"})
    /\ \E doc \in Docs : ~ RequestKnown(kb[c], doc.id, doc.names)
    /\ Becomes(c, Fail(kb[c]))
    /\ UNCHANGED <<driver, shared>>

\* In any mode a document makes its own request, which the cache may satisfy;
\* the document itself is dropped then.
AddCachedDoc(c) ==
    /\ Calls(c, {"ADDING_DOCS_ANY"})
    /\ \E doc \in Docs :
        LET hit == CacheGet(cacheKey, doc, now)
        IN  /\ ~ RequestKnown(kb[c], doc.id, doc.names)
            /\ hit # {}
            /\ Becomes(c, AddRequest(kb[c], doc.id, doc.names, hit))
    /\ cacheKey' = CacheEvict(cacheKey, now)
    /\ UNCHANGED <<driver, cacheOauth, now, aborted>>

\* The cache does not have it: the call goes on with the document, and other
\* threads may use the caches meanwhile.
AskForDoc(c) ==
    /\ Calls(c, {"ADDING_DOCS_ANY"})
    /\ \E doc \in Docs :
        /\ ~ RequestKnown(kb[c], doc.id, doc.names)
        /\ CacheGet(cacheKey, doc, now) = {}
        /\ Becomes(c, [AddRequest(kb[c], doc.id, doc.names, {}) EXCEPT !.pc = "add"])
    /\ cacheKey' = CacheEvict(cacheKey, now)
    /\ UNCHANGED <<driver, cacheOauth, now, aborted>>

\* The document goes to keys_returned; a local key also goes to the cache.
TakeDoc(c, doc, valid) ==
    LET after == AcceptDoc([kb[c] EXCEPT !.pc = "idle"], doc,
                           TokenAtHand(doc.kmsid), valid)
    IN  /\ Becomes(c, after)
        /\ cacheKey' = IF after.ok /\ Provider[doc.kmsid] = "local"
                       THEN CacheAdd(cacheKey, doc, now) ELSE cacheKey
        /\ UNCHANGED <<driver, cacheOauth, now, aborted>>

\* A document that matches a request made earlier
AddDoc(c) ==
    /\ Calls(c, {"ADDING_DOCS", "ADDING_DOCS_ANY"})
    /\ \E doc \in Docs, valid \in BOOLEAN :
        /\ RequestKnown(kb[c], doc.id, doc.names)
        /\ TakeDoc(c, doc, valid)

\* The rest of the call that AskForDoc began: its request is the open one.
StoreDoc(c) ==
    /\ Inside(c, "add")
    /\ \E doc \in Docs, valid \in BOOLEAN :
        /\ [id |-> doc.id, names |-> doc.names, satisfied |-> FALSE] \in kb[c].requests
        /\ TakeDoc(c, doc, valid)

AddMalformedDoc(c) ==
    /\ Calls(c, {"ADDING_DOCS", "ADDING_DOCS_ANY"})
    /\ Becomes(c, RejectMalformed(kb[c]))
    /\ UNCHANGED <<driver, shared>>

FinishDocs(c) ==
    /\ Calls(c, {"ADDING_DOCS", "ADDING_DOCS_ANY"})
    /\ Becomes(c, DocsDone(kb[c]))
    /\ UNCHANGED <<driver, shared>>

-----------------------------------------------------------------------------
(***************************************************************************)
(* Talking to the KMS.                                                     *)
(***************************************************************************)
KmsStates == {"AUTHENTICATING", "DECRYPTING_KEY_MATERIAL"}

GetNextKms(c) ==
    /\ Calls(c, KmsStates)
    /\ Becomes(c, NextKms(kb[c]))
    /\ held' = [held EXCEPT ![c] = @ \cup NextKmsRef(kb[c])]
    /\ drained' = [drained EXCEPT ![c] = NextKmsRef(kb[c]) = {}]
    /\ UNCHANGED <<rounds, shared>>

\* The driver is done with a KMS context, unless it retries it in place.
Releases(c, ref, kms) ==
    \/ held' = [held EXCEPT ![c] = @ \ {ref}]
    \/ kms.st = "retry" /\ UNCHANGED held

\* The driver feeds an auth request to its end, or gives up on the network.
CompleteAuth(c) ==
    /\ Calls(c, KmsStates)
    /\ \E i \in DOMAIN kb[c].auth :
        /\ <<"auth", i>> \in held[c]
        /\ \E kms \in KmsOutcomes(kb[c].auth[i].kms, kb[c].auth[i].kmsid) :
            /\ Becomes(c, [kb[c] EXCEPT !.auth[i].kms = kms])
            /\ Releases(c, <<"auth", i>>, kms)
    /\ drained' = [drained EXCEPT ![c] = FALSE]
    /\ UNCHANGED <<rounds, shared>>

CompleteKey(c) ==
    /\ Calls(c, KmsStates)
    /\ \E i \in DOMAIN kb[c].returned :
        /\ <<"key", i>> \in held[c]
        /\ \E kms \in KmsOutcomes(kb[c].returned[i].kms,
                                  kb[c].returned[i].doc.kmsid) :
            /\ Becomes(c, [kb[c] EXCEPT !.returned[i].kms = kms])
            /\ Releases(c, <<"key", i>>, kms)
    /\ drained' = [drained EXCEPT ![c] = FALSE]
    /\ UNCHANGED <<rounds, shared>>

KmsDone(c) ==
    /\ Calls(c, KmsStates)
    /\ PatientDriver => drained[c] /\ held[c] = {}
    /\ Becomes(c, KmsDoneEnter(kb[c]))
    /\ held' = [held EXCEPT ![c] = {}]
    /\ drained' = [drained EXCEPT ![c] = FALSE]
    /\ UNCHANGED <<rounds, shared>>

(***************************************************************************)
(* kms_done takes the response of one auth request to the OAuth cache; its *)
(* lifetime may be missing, or fail an assertion there.  A request that    *)
(* waits for a retry reports an empty result, which is no BSON document:   *)
(* the assertion on it ends the process.  A response that a later round    *)
(* applies again may come with another lifetime than before.               *)
(***************************************************************************)
ApplyToken(c) ==
    /\ Inside(c, "auth")
    /\ LET b == kb[c]
           ar == b.auth[b.idx]
           after == AuthApplied(b, now)
       IN  \/ \E life \in TokenLives :
              /\ ar.kms.st = "done" /\ LifeFits(life, now)
              /\ Becomes(c, after)
              /\ cacheOauth' = AddResponse(cacheOauth, ar.kmsid,
                                           after.auth[b.idx].since, life, now)
              /\ UNCHANGED aborted
           \/ /\ ar.kms.st \in {"pending", "failed", "done"}
              /\ Becomes(c, Fail(b))
              /\ UNCHANGED <<cacheOauth, aborted>>
           \/ /\ \/ ar.kms.st = "retry"
                 \/ ar.kms.st = "done" /\ \E life \in TokenLives : ~ LifeFits(life, now)
              /\ aborted' = TRUE
              /\ UNCHANGED <<kb, cacheOauth>>
    /\ UNCHANGED <<driver, cacheKey, now>>

\* kms_done builds the KMS request of one key that waited for a token.
RekeyOne(c) ==
    /\ Inside(c, "rekey")
    /\ LET b == kb[c]
           entry == b.returned[b.idx]
       IN  \E valid \in BOOLEAN :
            Becomes(c, IF entry.needsAuth /\ ~ (valid /\ TokenAtHand(entry.doc.kmsid))
                       THEN Fail(b) ELSE Rekeyed(b))
    /\ UNCHANGED <<driver, shared>>

\* kms_done takes the material of one key and stores the key in the cache.
DecryptOne(c) ==
    /\ Inside(c, "decrypt")
    /\ LET b == kb[c]
           entry == b.returned[b.idx]
       IN  \E valid \in BOOLEAN :
            \/ /\ SkipsKey(entry)
               /\ Becomes(c, Decrypted(b))
               /\ UNCHANGED cacheKey
            \/ /\ ~ SkipsKey(entry)
               /\ MaterialReady(entry) /\ valid
               /\ Becomes(c, Decrypted(b))
               /\ cacheKey' = CacheAdd(cacheKey, entry.doc, now)
            \/ /\ ~ SkipsKey(entry)
               /\ ~ (MaterialReady(entry) /\ valid)
               /\ Becomes(c, Fail(b))
               /\ UNCHANGED cacheKey
    /\ UNCHANGED <<driver, cacheOauth, now, aborted>>

-----------------------------------------------------------------------------
(***************************************************************************)
(* Using, restarting and releasing a broker.                               *)
(***************************************************************************)
\* decrypted_key_by_id or _by_name does not find a decrypted key.
LookupFails(c) ==
    /\ Calls(c, {"DONE", "REQUESTING"})
    /\ \/ \E id \in KeyIds : ~ LookupSucceeds(kb[c], id, {})
       \/ \E name \in AltNames : ~ LookupSucceeds(kb[c], NoId, {name})
    /\ Becomes(c, Fail(kb[c]))
    /\ UNCHANGED <<driver, shared>>

\* The contexts that restart their broker (decrypt, encrypt) are not the one
\* that asks for any key (rewrap).
RestartBroker(c) ==
    /\ Calls(c, {"DONE"})
    /\ ~ kb[c].any
    /\ rounds[c] < MaxRounds
    /\ Becomes(c, Restart(kb[c]))
    /\ rounds' = [rounds EXCEPT ![c] = @ + 1]
    /\ drained' = [drained EXCEPT ![c] = FALSE]
    /\ UNCHANGED <<held, shared>>

\* The states in which each broker call is refused with an error
AllowedIn ==
    [request |-> {"REQUESTING"}, filter |-> {"ADDING_DOCS"},
     docs |-> {"ADDING_DOCS", "ADDING_DOCS_ANY"}, kms |-> KmsStates,
     lookup |-> {"DONE", "REQUESTING"}, restart |-> {"DONE"}]

CallInWrongState(c) ==
    /\ Calls(c, BrokerStates)
    /\ \E call \in DOMAIN AllowedIn : kb[c].state \notin AllowedIn[call]
    /\ Becomes(c, Fail(kb[c]))
    /\ UNCHANGED <<driver, shared>>

\* A finished context is destroyed and its thread starts a new one.
Destroy(c) ==
    /\ ~ aborted
    /\ kb[c].pc = "idle"
    /\ kb[c].state = "DONE" \/ ~ kb[c].ok
    /\ Becomes(c, NewBroker)
    /\ held' = [held EXCEPT ![c] = {}]
    /\ drained' = [drained EXCEPT ![c] = FALSE]
    /\ rounds' = [rounds EXCEPT ![c] = 0]
    /\ UNCHANGED shared

Tick ==
    /\ ~ aborted
    /\ now < MaxNow
    /\ now' = now + 1
    /\ UNCHANGED <<kb, cacheKey, cacheOauth, driver, aborted>>

-----------------------------------------------------------------------------
BrokerStep(c) ==
    \/ RequestId(c) \/ RequestName(c) \/ RequestAnyKeys(c) \/ FinishRequests(c)
    \/ GetFilter(c) \/ AddUnexpectedDoc(c) \/ AddCachedDoc(c) \/ AskForDoc(c)
    \/ AddDoc(c) \/ StoreDoc(c) \/ AddMalformedDoc(c) \/ FinishDocs(c)
    \/ GetNextKms(c) \/ CompleteAuth(c) \/ CompleteKey(c) \/ KmsDone(c)
    \/ ApplyToken(c) \/ RekeyOne(c) \/ DecryptOne(c)
    \/ LookupFails(c) \/ RestartBroker(c) \/ CallInWrongState(c) \/ Destroy(c)

Next == Tick \/ \E c \in Ctxs : BrokerStep(c)

Spec == Init /\ [][Next]_vars
-----------------------------------------------------------------------------
(***************************************************************************)
(* Properties.                                                             *)
(***************************************************************************)
\* The lookup a context makes for a request: by id, or by its alt name
LookupAsRequested(b, r) ==
    IF r.names = {} THEN LookupSucceeds(b, r.id, {})
    ELSE \A name \in r.names : LookupSucceeds(b, NoId, {name})

(***************************************************************************)
(* What a context relies on when it encrypts, decrypts or collects further *)
(* keys: once the broker is done (and after a restart, for what earlier    *)
(* rounds satisfied), looking up a requested key by the id or the alt name *)
(* it was requested by finds a decrypted key, whatever the other contexts  *)
(* have done to the cache and however the requests were satisfied          *)
(* (_get_decrypted_key_material).                                          *)
(***************************************************************************)
KeysAvailable ==
    \A c \in Ctxs :
        kb[c].ok /\ ~ kb[c].any /\ kb[c].state \in {"DONE", "REQUESTING"} =>
            \A r \in kb[c].requests :
                /\ kb[c].state = "DONE" => r.satisfied
                /\ r.satisfied => LookupAsRequested(kb[c], r)

(****************************************************************************)
(* "keys returned from the driver are validated to not have intersecting    *)
(* key alt names (or duplicate ids)": also across the rounds of a restarted *)
(* broker.                                                                  *)
(****************************************************************************)
ReturnedKeysDistinct ==
    \A c \in Ctxs : \A i, j \in DOMAIN kb[c].returned :
        kb[c].ok /\ i # j =>
            ~ AttrMatch(kb[c].returned[i].doc, kb[c].returned[j].doc)

(***************************************************************************)
(* The key cache never holds two keys with one id or a common alt name, in *)
(* whatever order the contexts store their keys: a lookup by one id or one *)
(* name has at most one answer (_cache_add).                               *)
(***************************************************************************)
CacheUnambiguous ==
    \A p, q \in cacheKey : p # q => ~ AttrMatch(p.doc, q.doc)

(***************************************************************************)
(* The find filter, which is built once and kept, still asks for every     *)
(* key that is not satisfied, after a restart too                          *)
(* (_mongocrypt_key_broker_filter, _mongocrypt_key_broker_restart).        *)
(***************************************************************************)
FilterCoversRequests ==
    \A c \in Ctxs : \A f \in kb[c].filter :
        kb[c].ok /\ kb[c].state = "ADDING_DOCS" =>
            \A r \in kb[c].requests :
                r.satisfied \/ r.id \in f.ids \/ r.names \cap f.names # {}

(***************************************************************************)
(* With a driver that drains next_kms, kms_done never meets a KMS context  *)
(* that was not handed out, is unfinished or waits for a retry: the        *)
(* iterator reset on every prepend, the retries and the restarts never     *)
(* make next_kms skip one.                                                 *)
(***************************************************************************)
NoKmsSkipped ==
    \A c \in Ctxs : PatientDriver =>
        /\ kb[c].pc = "auth" =>
            \A i \in DOMAIN kb[c].auth : kb[c].auth[i].kms.st \in {"done", "failed"}
        /\ kb[c].pc = "decrypt" =>
            \A i \in DOMAIN kb[c].returned :
                \/ kb[c].returned[i].decrypted
                \/ kb[c].returned[i].kms.st \in {"done", "failed"}

(***************************************************************************)
(* A key waiting for authentication has the auth request of its KMS id in  *)
(* flight, and no KMS id has two: one answer serves all the keys of a KMS  *)
(* (add_doc, kms_done).                                                    *)
(***************************************************************************)
OneAuthPerKms ==
    \A c \in Ctxs : kb[c].ok =>
        /\ \A i \in DOMAIN kb[c].returned : kb[c].returned[i].needsAuth =>
                \E j \in DOMAIN kb[c].auth :
                    kb[c].auth[j].kmsid = kb[c].returned[i].doc.kmsid
        /\ \A i, j \in DOMAIN kb[c].auth :
                kb[c].auth[i].kmsid = kb[c].auth[j].kmsid => i = j

\* A context has an answer whose lifetime the OAuth cache asserts on.
AnswerWithBadLifetime ==
    \E c \in Ctxs :
        /\ kb[c].ok /\ kb[c].pc = "auth"
        /\ kb[c].auth[kb[c].idx].kms.st = "done"
        /\ \E life \in TokenLives : ~ LifeFits(life, now)

(***************************************************************************)
(* With such a driver the process ends only where an answer of a token     *)
(* server has a lifetime outside of what mc_mapof_kmsid_to_token_          *)
(* add_response asserts, and never on the empty result of an auth request  *)
(* that has no answer yet (kms_done).                                      *)
(***************************************************************************)
OnlyLifetimesAbort == PatientDriver /\ aborted => AnswerWithBadLifetime

(***************************************************************************)
(* "any key request that is satisfied stays satisfied", for as long as the *)
(* broker lives.                                                           *)
(***************************************************************************)
StaysSatisfied ==
    [][\A c \in Ctxs : kb'[c] # NewBroker =>
        \A r \in kb[c].requests : r.satisfied =>
            \E q \in kb'[c].requests :
                /\ q.satisfied
                /\ q.names = r.names
                /\ r.names = {} => q.id = r.id]_vars

(***************************************************************************)
(* mongocrypt-key-broker.c, add_doc in any mode: "Key is already cached;   *)
(* no work to be done." Once the broker is done, each document the driver  *)
(* fed has its key, with its _id, among the broker's keys.                 *)
(***************************************************************************)
AnyModeKeepsKeys ==
    \A c \in Ctxs : kb[c].any /\ kb[c].state = "DONE" =>
        \A r \in kb[c].requests :
            \/ \E i \in DOMAIN kb[c].returned : kb[c].returned[i].doc.id = r.id
            \/ \E i \in DOMAIN kb[c].cached : kb[c].cached[i].id = r.id

-----------------------------------------------------------------------------
(***************************************************************************)
(* Progress.  integrating.md has the driver run its loop until the context *)
(* is done, and a KMS context it feeds ends in a reply or in a network     *)
(* error: the calls that advance a context are made eventually.  Requests, *)
(* documents, restarts and the clock are not forced.                       *)
(***************************************************************************)
Advance(c) ==
    \/ FinishRequests(c) \/ StoreDoc(c) \/ FinishDocs(c) \/ GetNextKms(c)
    \/ CompleteAuth(c) \/ CompleteKey(c) \/ KmsDone(c)
    \/ ApplyToken(c) \/ RekeyOne(c) \/ DecryptOne(c)

FairSpec == Spec /\ \A c \in Ctxs : WF_vars(Advance(c))

(***************************************************************************)
(* Every context that requested keys ends with its keys or with an error,  *)
(* unless the process ends before: retries, authentication and restarts do *)
(* not keep it going for ever.                                             *)
(***************************************************************************)
EveryContextFinishes ==
    \A c \in Ctxs :
        kb[c].state # "DONE" /\ kb[c].requests # {} ~>
            kb[c].state = "DONE" \/ ~ kb[c].ok \/ aborted
=============================================================================
