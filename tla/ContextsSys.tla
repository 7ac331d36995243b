------------------------------ MODULE ContextsSys ------------------------------
(***************************************************************************)
(* Contexts of every kind in one mongocrypt_t, each driven by its own      *)
(* thread along the state machine of mongocrypt-ctx.c, with the server,    *)
(* the query analysis, the key vault and the KMS at the other end.  The    *)
(* contexts share the key cache, the cache of collection infos and the     *)
(* OAuth tokens.                                                           *)
(*                                                                         *)
(* A call of the library is one step here; KeyBrokerSys cuts calls where   *)
(* they take the lock of a shared cache.                                   *)
(***************************************************************************)
EXTENDS EncryptCtx, DecryptCtx, RewrapCtx

CONSTANTS
    Ctxs,           \* the contexts
    Scenarios,      \* [crypt, jobs]: options of the library, a job for each context
    Server,         \* collection infos, a function on namespaces
    Vault,          \* the documents of the key vault
    MaxFaults,      \* bound on faults of drivers and of what they talk to
    MaxExpiries     \* bound on expiries of caches

\* A schema, or what a collection info has of both kinds, is finite.
FiniteSchema(schema) == schema # <<>> => IsFiniteSet(schema[1])
FiniteInfo(info) == FiniteSchema(info.efc) /\ FiniteSchema(info.json)

ASSUME ContextsAssumption ==
    /\ Vault \subseteq Doc
    /\ MaxFaults \in Nat /\ MaxExpiries \in Nat
    /\ \A ns \in DOMAIN Server : Server[ns].name = ns[2] /\ FiniteInfo(Server[ns])
    /\ \A s \in Scenarios :
        /\ {"keys", "colls", "tokens", "efcMap", "schemaMap"} \subseteq DOMAIN s.crypt
        /\ s.crypt.colls = <<>>
        /\ \A map \in {s.crypt.efcMap, s.crypt.schemaMap} : \A ns \in DOMAIN map : IsFiniteSet(map[ns])
        /\ \A c \in Ctxs :
            LET job == s.jobs[c]
            IN  /\ job.kind \in {"encrypt", "decrypt", "explicit", "rewrap"}
                /\ IsFiniteSet(job.doc) /\ (job.kind = "explicit" => \E b \in job.doc : job.doc = {b})
                /\ FiniteInfo(job.cmd) /\ job.cmd.others \in Seq(Range(job.cmd.others))

VARIABLES
    crypt,      \* the mongocrypt_t: options and caches
    jobs,       \* what the application wants of each context
    ctx,        \* the contexts
    drv,        \* what the driver of each context is at
    faulty,     \* has something failed outside of the library?
    expiries    \* caches that have expired

vars == <<crypt, jobs, ctx, drv, faulty, expiries>>

CtxStates == {"NEED_MONGO_COLLINFO", "NEED_MONGO_COLLINFO_WITH_DB", "NEED_MONGO_MARKINGS",
              "NEED_MONGO_KEYS", "NEED_KMS_CREDENTIALS", "NEED_KMS", "READY", "DONE", "ERROR"}
MongoStates == {"NEED_MONGO_COLLINFO", "NEED_MONGO_COLLINFO_WITH_DB", "NEED_MONGO_MARKINGS",
                "NEED_MONGO_KEYS"}
CollinfoStates == {"NEED_MONGO_COLLINFO", "NEED_MONGO_COLLINFO_WITH_DB"}

\* A driver: has it called init, has it sent the command of mongo_op, what of
\* the reply is left to feed, which KMS contexts is it feeding, has
\* next_kms_ctx returned NULL?
NewDriver == [started |-> FALSE, asked |-> FALSE, batch |-> {}, held |-> {}, drained |-> FALSE]
Idle == [NewDriver EXCEPT !.started = TRUE]

Init ==
    /\ \E s \in Scenarios : crypt = s.crypt /\ jobs = s.jobs
    /\ ctx = [c \in Ctxs |-> mongocrypt_ctx_new]
    /\ drv = [c \in Ctxs |-> NewDriver]
    /\ faulty = [c \in Ctxs |-> FALSE]
    /\ expiries = 0

In(c, states) == drv[c].started /\ ctx[c].state \in states /\ ~ ctx[c].abort

\* A context whose state is new is a driver at the start of its loop.
Moves(c, x) ==
    /\ ctx' = [ctx EXCEPT ![c] = x]
    /\ drv' = [drv EXCEPT ![c] = Idle]

Fault(c) ==
    /\ Cardinality({d \in Ctxs : faulty[d]}) < MaxFaults /\ ~ faulty[c]
    /\ faulty' = [faulty EXCEPT ![c] = TRUE]

-----------------------------------------------------------------------------
StartCtx(c) ==
    LET job == jobs[c]
    IN  /\ ~ drv[c].started
        /\ Moves(c, CASE job.kind = "encrypt" -> encrypt_init(crypt, job.cmd)
                      [] job.kind = "decrypt" -> decrypt_init(crypt, job.doc)
                      [] job.kind = "explicit" -> 
                            explicit_decrypt_init(crypt, CHOOSE b \in job.doc : TRUE)
                      [] job.kind = "rewrap" -> rewrap_init(crypt, job.kek))
        /\ UNCHANGED <<crypt, jobs, faulty, expiries>>

\* The reply to the command of mongocrypt_ctx_mongo_op
DbOf(x) == IF x.state = "NEED_MONGO_COLLINFO_WITH_DB" THEN x.cmd.targetDb ELSE x.cmd.db
Infos(x) ==
    {Server[ns] : ns \in {n \in DOMAIN Server : /\ n[1] = DbOf(x)
                            /\ n[2] \in mc_schema_broker_append_listCollections_filter(x.sb)}}
AnalyzerReply(x) ==
    IF x.ismaster THEN [wire |-> crypt.wire]
    ELSE Analyze(x.cmd, create_markings_cmd(crypt, x), crypt.verbose)
KeyDocs(x, found) ==
    IF x.kind = "rewrap" THEN {doc \in Vault : doc.id \in found}
    ELSE LET filter == CHOOSE f \in Filter(x.kb).filter : TRUE
         IN  {doc \in Vault : doc.id \in filter.ids \/ doc.names \cap filter.names # {}}

mongo_op(x) ==
    CASE x.state \in CollinfoStates -> mongo_op_collinfo(x)
      [] x.state = "NEED_MONGO_MARKINGS" -> mongo_op_markings(crypt, x)
      [] x.state = "NEED_MONGO_KEYS" ->
            IF x.kind = "rewrap" THEN x ELSE [x EXCEPT !.kb = Filter(@)]

MongoOp(c) ==
    LET x == mongo_op(ctx[c])
        reply == CASE x.state \in CollinfoStates -> Infos(x)
                   [] x.state = "NEED_MONGO_MARKINGS" -> {AnalyzerReply(x)}
                   [] x.state = "NEED_MONGO_KEYS" -> KeyDocs(x, jobs[c].ids)
    IN  /\ In(c, MongoStates) /\ ~ drv[c].asked
        /\ ctx' = [ctx EXCEPT ![c] = x]
        /\ drv' = [drv EXCEPT ![c].asked = TRUE, ![c].batch = IF Stopped(x) THEN {} ELSE reply]
        /\ UNCHANGED <<crypt, jobs, faulty, expiries>>

\* Documents of decrypted keys go to the key cache.
CacheKeys(docs) == FoldSet(LAMBDA doc, cache : CacheAdd(cache, doc, 0), crypt.keys, docs)

\* A collection info takes the place of the one that was cached.
CacheInfos(infos) ==
    [ns \in DOMAIN infos \cup DOMAIN crypt.colls |->
        IF ns \in DOMAIN infos THEN infos[ns] ELSE crypt.colls[ns]]

\* mongocrypt_ctx_mongo_feed: one document of the reply.  A collection info goes
\* to the cache even if it is of no use to the context.
MongoFeed(c) ==
    /\ In(c, MongoStates) /\ drv[c].asked
    /\ \E item \in drv[c].batch :
        /\ drv' = [drv EXCEPT ![c].batch = @ \ {item}]
        /\ CASE ctx[c].state \in CollinfoStates ->
                  /\ ctx' = [ctx EXCEPT ![c] = mongo_feed_collinfo(@, item)]
                  /\ crypt' = [crypt EXCEPT !.colls =
                                  CacheInfos([ns \in {<<ctx[c].sb.db, item.name>>} |-> item])]
             [] ctx[c].state = "NEED_MONGO_MARKINGS" ->
                  /\ ctx' = [ctx EXCEPT ![c] = mongo_feed_markings(crypt, @, item)]
                  /\ UNCHANGED crypt
             [] ctx[c].state = "NEED_MONGO_KEYS" ->
                  LET x == mongo_feed_keys(crypt, ctx[c], item, TRUE)
                  IN  /\ ctx' = [ctx EXCEPT ![c] = x]
                      /\ crypt' = [crypt EXCEPT !.keys = CacheKeys(NewKeys(ctx[c].kb, x.kb))]
    /\ UNCHANGED <<jobs, faulty, expiries>>

mongo_done_keys(g, x) ==
    CASE x.kind = "encrypt" -> encrypt_mongo_done_keys(g, x)
      [] x.kind = "decrypt" -> decrypt_mongo_done_keys(g, x)
      [] x.kind = "rewrap" -> rewrap_mongo_done_keys(g, x)

\* Collections without an info are remembered as such.
MongoDone(c) ==
    LET x == ctx[c]
        collinfo == x.state \in CollinfoStates
    IN  /\ In(c, MongoStates) /\ drv[c].asked /\ drv[c].batch = {}
        /\ Moves(c, CASE collinfo -> mongo_done_collinfo(crypt, x)
                      [] x.state = "NEED_MONGO_MARKINGS" -> mongo_done_markings(crypt, x)
                      [] x.state = "NEED_MONGO_KEYS" -> mongo_done_keys(crypt, x))
        /\ crypt' = IF collinfo THEN [crypt EXCEPT !.colls = CacheInfos(EmptyInfos(x.sb))] ELSE crypt
        /\ UNCHANGED <<jobs, faulty, expiries>>

ProvideKmsProviders(c) ==
    LET x == ProvideState(ctx[c])
    IN  /\ In(c, {"NEED_KMS_CREDENTIALS"})
        /\ Moves(c, IF x.kind = "rewrap" THEN kms_start_decrypt(crypt, x) ELSE x)
        /\ UNCHANGED <<crypt, jobs, faulty, expiries>>

-----------------------------------------------------------------------------
\* A KMS context is named <<"auth", i>>, <<"key", i>> or <<"sub", i>>.
NextRef(x) == IF x.encrypting THEN {<<"sub", i>> : i \in SubKmsRef(x)} ELSE NextKmsRef(x.kb)

GetNextKms(c) ==
    LET x == ctx[c]
    IN  /\ In(c, {"NEED_KMS"}) /\ ~ drv[c].drained
        /\ ctx' = [ctx EXCEPT ![c] = IF x.encrypting THEN next_kms_ctx_encrypt(x)
                                     ELSE [x EXCEPT !.kb = NextKms(@)]]
        /\ drv' = [drv EXCEPT ![c].held = @ \cup NextRef(x), ![c].drained = NextRef(x) = {}]
        /\ UNCHANGED <<crypt, jobs, faulty, expiries>>

RequestOf(x, ref) ==
    CASE ref[1] = "auth" -> x.kb.auth[ref[2]].kms
      [] ref[1] = "key" -> x.kb.returned[ref[2]].kms
      [] ref[1] = "sub" -> x.datakeys[ref[2]].dk.kms
Retryable(x, ref) ==
    CASE ref[1] = "auth" -> TRUE
      [] ref[1] = "key" -> Provider[x.kb.returned[ref[2]].doc.kmsid] \in HttpProviders
      [] ref[1] = "sub" -> x.datakeys[ref[2]].dk.type \in {"OAUTH", "WRAP"}
WithRequest(x, ref, kms) ==
    CASE ref[1] = "auth" -> [x EXCEPT !.kb.auth[ref[2]].kms = kms]
      [] ref[1] = "key" -> [x EXCEPT !.kb.returned[ref[2]].kms = kms]
      [] ref[1] = "sub" -> [x EXCEPT !.datakeys[ref[2]].dk.kms = kms]

\* The driver feeds a request to its end, or reports a network error.
Complete(c) ==
    /\ In(c, {"NEED_KMS"})
    /\ \E ref \in drv[c].held :
        \E kms \in KmsEnds(RequestOf(ctx[c], ref), Retryable(ctx[c], ref)) :
            /\ IF kms.st = "failed" THEN Fault(c) ELSE UNCHANGED faulty
            /\ ctx' = [ctx EXCEPT ![c] = WithRequest(@, ref, kms)]
            /\ drv' = [drv EXCEPT ![c].held = @ \ {ref}, ![c].drained = FALSE]
    /\ UNCHANGED <<crypt, jobs, expiries>>

kms_done(g, x) ==
    CASE x.kind = "encrypt" -> encrypt_kms_done(g, x)
      [] x.kind = "decrypt" -> decrypt_kms_done(g, x)
      [] x.kind = "rewrap" -> rewrap_kms_done(g, x)

\* What the call leaves in the caches; it stops at the first request without a
\* result.
TokensGot(x) ==
    IF x.encrypting THEN SubTokens(x)
    ELSE IF x.kb.state # "AUTHENTICATING" THEN {}
    ELSE {x.kb.auth[i].kmsid : i \in {j \in DOMAIN x.kb.auth :
            \A k \in 1..j : x.kb.auth[k].kms.st = "done"}}
KeysGot(x) ==
    IF x.encrypting \/ x.kb.state # "DECRYPTING_KEY_MATERIAL" THEN {}
    ELSE LET Passed(i) == SkipsKey(x.kb.returned[i]) \/ MaterialReady(x.kb.returned[i])
         IN  {x.kb.returned[i].doc : i \in {j \in DOMAIN x.kb.returned :
                ~ SkipsKey(x.kb.returned[j]) /\ \A k \in j..Len(x.kb.returned) : Passed(k)}}

\* The driver has been given NULL and has fed every request (integrating.md).
KmsDone(c) ==
    /\ In(c, {"NEED_KMS"}) /\ drv[c].drained /\ drv[c].held = {}
    /\ Moves(c, kms_done([crypt EXCEPT !.tokens = @ \cup TokensGot(ctx[c])], ctx[c]))
    /\ crypt' = [crypt EXCEPT !.tokens = @ \cup TokensGot(ctx[c]),
                              !.keys = CacheKeys(KeysGot(ctx[c]))]
    /\ UNCHANGED <<jobs, faulty, expiries>>

Finalize(c) ==
    /\ In(c, {"READY"})
    /\ Moves(c, CASE ctx[c].kind = "encrypt" -> encrypt_finalize(ctx[c])
                  [] ctx[c].kind = "decrypt" -> decrypt_finalize(ctx[c])
                  [] ctx[c].kind = "rewrap" -> rewrap_finalize(ctx[c]))
    /\ UNCHANGED <<crypt, jobs, faulty, expiries>>

-----------------------------------------------------------------------------
\* A document is malformed, or the vault does not have the key.
FeedMalformed(c) ==
    /\ In(c, MongoStates) /\ drv[c].asked /\ drv[c].batch # {}
    /\ Fault(c)
    /\ Moves(c, CtxFail(ctx[c]))
    /\ UNCHANGED <<crypt, jobs, expiries>>

KeyMissing(c) ==
    /\ In(c, {"NEED_MONGO_KEYS"}) /\ drv[c].asked
    /\ \E doc \in drv[c].batch : drv' = [drv EXCEPT ![c].batch = @ \ {doc}]
    /\ Fault(c)
    /\ UNCHANGED <<crypt, jobs, ctx, expiries>>

\* A call in a state it is not meant for is an error.
CallInWrongState(c) ==
    /\ In(c, CtxStates \ {"ERROR"})
    /\ Fault(c)
    /\ Moves(c, CtxFail(ctx[c]))
    /\ UNCHANGED <<crypt, jobs, expiries>>

\* The entries of a cache reach their age.
Expire ==
    /\ expiries < MaxExpiries
    /\ expiries' = expiries + 1
    /\ \/ crypt.keys # {} /\ crypt' = [crypt EXCEPT !.keys = {}]
       \/ DOMAIN crypt.colls # {} /\ crypt' = [crypt EXCEPT !.colls = <<>>]
       \/ crypt.tokens # {} /\ crypt' = [crypt EXCEPT !.tokens = {}]
    /\ UNCHANGED <<jobs, ctx, drv, faulty>>

Advance(c) ==
    \/ StartCtx(c) \/ MongoOp(c) \/ MongoFeed(c) \/ MongoDone(c) \/ ProvideKmsProviders(c)
    \/ GetNextKms(c) \/ Complete(c) \/ KmsDone(c) \/ Finalize(c)

Next ==
    \/ Expire
    \/ \E c \in Ctxs : \/ Advance(c)
                       \/ FeedMalformed(c) \/ KeyMissing(c) \/ CallInWrongState(c)

Spec == Init /\ [][Next]_vars

(***************************************************************************)
(* Every driver goes on until its context has ended: weak fairness of      *)
(* Advance(c), which is enabled as long as the context has not ended.  It  *)
(* is written out because TLC is slow to find ENABLED Advance(c).          *)
(***************************************************************************)
Ended(c) == drv[c].started /\ (ctx[c].state \in {"DONE", "ERROR"} \/ ctx[c].abort)
Fairness == \A c \in Ctxs : []<>Ended(c) \/ []<><<Advance(c)>>_vars

FairSpec == Spec /\ Fairness

-----------------------------------------------------------------------------
(***************************************************************************)
(* What the application is owed.                                           *)
(***************************************************************************)

\* The states the broker of a context may be in
StatesOfBroker(x) ==
    CASE x.state \in CollinfoStates \cup {"NEED_MONGO_MARKINGS"} -> {"REQUESTING"}
      [] x.state = "NEED_MONGO_KEYS" -> {"ADDING_DOCS", "ADDING_DOCS_ANY"}
      [] x.state = "NEED_KMS_CREDENTIALS" ->
            IF x.kind = "rewrap" THEN {"REQUESTING"} ELSE {"ADDING_DOCS"}
      [] x.state = "NEED_KMS" ->
            IF x.encrypting THEN {"DONE"} ELSE {"AUTHENTICATING", "DECRYPTING_KEY_MATERIAL"}
      [] x.state = "READY" -> {"DONE"} \cup (IF x.nothing_to_do THEN {"REQUESTING"} ELSE {})
      [] OTHER -> {x.kb.state}

(***************************************************************************)
(* The types of the state, and a context that is always where its key      *)
(* broker is (_mongocrypt_ctx_state_from_key_broker and its callers).      *)
(***************************************************************************)
TypeOK ==
    /\ \A c \in Ctxs : /\ ctx[c].state \in CtxStates
                       /\ ctx[c].kb.requests \subseteq Request
                       /\ \A i \in DOMAIN ctx[c].kb.returned : ctx[c].kb.returned[i] \in KeyReturned
                       /\ ctx[c].kb.state \in StatesOfBroker(ctx[c])
                       /\ drv[c].asked \in BOOLEAN /\ drv[c].drained \in BOOLEAN
    /\ crypt.keys \subseteq Pair
    /\ crypt.tokens \subseteq KmsIds
    /\ faulty \in [Ctxs -> BOOLEAN]

Returned(c, kinds) == drv[c].started /\ ctx[c].state = "DONE" /\ jobs[c].kind \in kinds

Ns(cmd, coll) == <<IF cmd.name = "bulkWrite" THEN cmd.targetDb ELSE cmd.db, coll>>
InfoOf(ns) == IF ns \in DOMAIN Server THEN Server[ns] ELSE EmptyInfo(ns[2])
FieldsIn(schema) == IF schema = <<>> THEN {} ELSE schema[1]

\* Where the schema of a collection is to be taken from
OwnSchema(cmd, coll) ==
    cmd.name \in {"create", "collMod"} /\ coll = cmd.coll /\ cmd.json \o cmd.efc # <<>>
Remote(cmd, coll) ==
    /\ Ns(cmd, coll) \notin DOMAIN crypt.efcMap \cup DOMAIN crypt.schemaMap
    /\ ~ OwnSchema(cmd, coll) /\ cmd.name # "create"

\* The fields of a collection that are encrypted, and with which key
TrueFields(cmd, coll) ==
    LET ns == Ns(cmd, coll)
    IN  IF ns \in DOMAIN crypt.efcMap THEN crypt.efcMap[ns]
        ELSE IF OwnSchema(cmd, coll) THEN (cmd.json \o cmd.efc)[1]
        ELSE IF ns \in DOMAIN crypt.schemaMap THEN crypt.schemaMap[ns]
        ELSE IF ~ Remote(cmd, coll) THEN {}
        ELSE FieldsIn(InfoOf(ns).efc \o InfoOf(ns).json)
TrueKey(f) ==
    IF f.id # NoId THEN f.id ELSE (CHOOSE doc \in Vault : doc.names \cap f.names # {}).id

\* The key a value must be encrypted with
KeyFor(cmd, v) ==
    LET fs == {f \in TrueFields(cmd, v.coll) : f.path = v.path}
    IN  IF fs = {} \/ crypt.bypass THEN NoId ELSE TrueKey(CHOOSE f \in fs : TRUE)

\* Where the server expects encryptionInformation
PlaceFor(name) ==
    CASE name = "bulkWrite" -> "nsInfo" [] name = "explain" -> "explain" [] OTHER -> "top"

(***************************************************************************)
(* A command that comes out of a context has every value of an encrypted   *)
(* field of its own namespace encrypted with that field's key and no other *)
(* value touched, a compaction has a token for every field, the server is  *)
(* told key ids, never alt names, and finds encryptionInformation at most  *)
(* once and where it expects it: whatever other contexts cached meanwhile, *)
(* and whichever way schemas and keys were had                             *)
(* (mongocrypt_ctx_encrypt_ismaster_done, _mongo_feed_markings,            *)
(* _fle2_finalize).                                                        *)
(***************************************************************************)
FieldsEncrypted ==
    \A c \in Ctxs : Returned(c, {"encrypt"}) =>
        LET cmd == jobs[c].cmd
            out == ctx[c].out[1]
        IN  /\ out.values = {[coll |-> v.coll, path |-> v.path, key |-> KeyFor(cmd, v)] :
                                v \in cmd.values}
            /\ cmd.name \in CompactionCommands =>
                 out.tokens = {[path |-> f.path, key |-> TrueKey(f),
                                padding |-> f.query \in PaddedQueries] :
                                f \in TrueFields(cmd, cmd.coll)}
            /\ \A e \in out.ei : e.place = PlaceFor(cmd.name)
            /\ Cardinality(out.ei) <= 1
            /\ \A e \in out.ei : \A s \in e.schemas : \A f \in s.fields : f.id # NoId
            /\ \A f \in FieldsIn(out.efc) : f.id # NoId
            /\ cmd.name = "create" => out.version = str_encode_version(FieldsIn(cmd.efc))

(***************************************************************************)
(* A document comes out of a context with every ciphertext decrypted, the  *)
(* indexed ones included, whose keys are known only after a first round of *)
(* keys, and whether its keys came from the vault or, through another      *)
(* context, from the cache (_check_for_K_KeyId,                            *)
(* _mongocrypt_ctx_state_from_key_broker).                                 *)
(***************************************************************************)
DecryptedAll ==
    \A c \in Ctxs : Returned(c, {"decrypt", "explicit"}) =>
        ctx[c].out = <<{b \in jobs[c].doc : IsCiphertext(b)}>>

(***************************************************************************)
(* Rewrapping returns every key the filter found, once, under its own id   *)
(* and wrapped with the key encryption key asked for, from the cache or    *)
(* not, over as many rounds of KMS requests as the providers need          *)
(* (_start_kms_encrypt, _kms_done_encrypt, _finalize).                     *)
(***************************************************************************)
RewrappedOnce ==
    \A c \in Ctxs : Returned(c, {"rewrap"}) /\ ctx[c].out # <<>> =>
        LET out == ctx[c].out[1]
        IN  /\ \A i, j \in DOMAIN out : out[i].id = out[j].id => i = j
            /\ ~ faulty[c] => {out[i].id : i \in DOMAIN out} = jobs[c].ids
            /\ \A i \in DOMAIN out : /\ out[i].wrapped
                                     /\ \E doc \in Vault : /\ doc.id = out[i].id
                                                           /\ out[i].kek = KekOf(ctx[c], doc)

(***************************************************************************)
(* When next_kms_ctx has returned NULL and no request is out, every        *)
(* request of the round has ended: none is forgotten, first time or retry, *)
(* in the broker or in a sub-context (_mongocrypt_key_broker_next_kms,     *)
(* _next_kms_ctx_encrypt).                                                 *)
(***************************************************************************)
NoKmsForgotten ==
    \A c \in Ctxs : In(c, {"NEED_KMS"}) /\ drv[c].drained /\ drv[c].held = {} =>
        LET x == ctx[c]
            left == {"pending", "retry"}
        IN  IF x.encrypting
            THEN \A i \in DOMAIN x.datakeys : NeedsKms(x, i) => x.datakeys[i].dk.kms.st \notin left
            ELSE IF x.kb.state = "AUTHENTICATING"
            THEN \A i \in DOMAIN x.kb.auth : x.kb.auth[i].kms.st \notin left
            ELSE \A i \in DOMAIN x.kb.returned :
                    ~ x.kb.returned[i].decrypted => x.kb.returned[i].kms.st \notin left

(***************************************************************************)
(* No driver that waits for its KMS requests gets an assertion of the      *)
(* contexts or of the schema broker to fail (BSON_ASSERT in                *)
(* _try_run_csfle_marking, _fle2_finalize, _start_kms_encrypt,             *)
(* mc_schema_broker_get_encryptedFields).                                  *)
(***************************************************************************)
NeverAborts == \A c \in Ctxs : ~ ctx[c].abort

\* What the library does not do: commands outside of its list, several
\* collections without the option or with an old analysis, both kinds of schema
\* with an older one, views, a bulkWrite to an unknown collection without the
\* state for it, alt names in the schemas of several collections, an
\* encryptedFields that is not accepted, a compaction of a collection without one
\* (it goes to query analysis).
Colls(cmd) == {cmd.coll} \cup (IF cmd.name = "aggregate" THEN Range(cmd.others) ELSE {})
Refused(cmd) ==
    LET many == Cardinality(Colls(cmd)) > 1
        qe == {coll \in Colls(cmd) : Ns(cmd, coll) \in DOMAIN crypt.efcMap \/ OwnSchema(cmd, coll)
                                     \/ (Remote(cmd, coll) /\ InfoOf(Ns(cmd, coll)).efc # <<>>)}
    IN  \/ cmd.name \notin EligibleCommands \cup BypassedCommands \cup {"bulkWrite"}
        \/ many /\ ~ crypt.lookups
        \/ many /\ (crypt.csfle \in 1..80 \/ (crypt.csfle = 0 /\ crypt.wire < 26))
        \/ /\ many /\ (crypt.csfle \in 1..81 \/ (crypt.csfle = 0 /\ crypt.wire < 27))
           /\ qe # {} /\ \E coll \in Colls(cmd) \ qe : TrueFields(cmd, coll) # {}
        \/ \E coll \in Colls(cmd) : Remote(cmd, coll) /\ InfoOf(Ns(cmd, coll)).view
        \/ cmd.name = "bulkWrite" /\ Remote(cmd, cmd.coll) /\ ~ crypt.withDb
        \/ many /\ \E coll \in qe : \E f \in TrueFields(cmd, coll) : f.id = NoId
        \/ \E coll \in qe : ~ EfcParses(TrueFields(cmd, coll))
        \/ cmd.name \in CompactionCommands /\ cmd.coll \notin qe
        \/ crypt.csfle # 0 /\ crypt.csfleFails

\* A defect: a compaction "must not be sent to mongocryptd", but its context goes
\* on to query analysis, which refuses it, when its collection has fields by alt
\* name and the cache had every key it asked for (ismaster_done).
AnalysedCompaction(c) ==
    /\ jobs[c].cmd.name \in CompactionCommands
    /\ ctx[c].need_keys /\ ctx[c].kb.state = "REQUESTING" /\ AllSatisfied(ctx[c].kb)

(***************************************************************************)
(* A context that fails does so because something outside of the library   *)
(* failed or was misused, or for one of the listed limits of the library,  *)
(* or it is a compaction sent to query analysis because its keys by alt    *)
(* name were all in the cache: otherwise no order of calls of the other    *)
(* contexts, no state of the caches, no expiry between two calls makes a   *)
(* well-driven context fail (_mongocrypt_ctx_fail, the state machine of    *)
(* every context, and mongocrypt_ctx_encrypt_ismaster_done against the     *)
(* comment of _fle2_collect_keys_for_compaction).                          *)
(***************************************************************************)
ErrorHasCause ==
    \A c \in Ctxs : drv[c].started /\ ctx[c].state = "ERROR" =>
        \/ faulty[c]
        \/ jobs[c].kind = "encrypt" /\ (Refused(jobs[c].cmd) \/ AnalysedCompaction(c))
        \/ jobs[c].kind = "explicit" /\ \E b \in jobs[c].doc : ~ IsCiphertext(b)
        \/ jobs[c].kind = "rewrap" /\ jobs[c].kek \notin Configured \cup {""}

(***************************************************************************)
(* "A mongocrypt_ctx_t will never enter the MONGOCRYPT_CTX_NEED_MARKINGS   *)
(* state" when query analysis is bypassed (mongocrypt.h,                   *)
(* mongocrypt_setopt_bypass_query_analysis).                               *)
(***************************************************************************)
NoMarkingsWhenBypassed ==
    crypt.bypass => \A c \in Ctxs : ctx[c].state # "NEED_MONGO_MARKINGS"

(***************************************************************************)
(* Every driver's loop ends: the rounds of schemas, markings, keys and KMS *)
(* requests of a context are finite, with retries and expiring caches      *)
(* (the state machine of mongocrypt-ctx.c).                                *)
(***************************************************************************)
EveryContextEnds ==
    <>(\A c \in Ctxs : drv[c].started /\ ctx[c].state \in {"DONE", "ERROR"})
=============================================================================
