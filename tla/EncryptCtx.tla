------------------------------ MODULE EncryptCtx -------------------------------
(***************************************************************************)
(* The context of automatic encryption (mongocrypt-ctx-encrypt.c): which   *)
(* schemas and keys a command needs, the query analysis that marks its     *)
(* values, and the encrypted command.                                      *)
(*                                                                         *)
(* A command is a record (NoCmd of ContextBase): "values" are its values   *)
(* [coll, path], "others" the collections of $lookup, $facet and           *)
(* $unionWith stages (or further namespaces of a bulkWrite), "efc" and     *)
(* "json" the schemas inside create and collMod.                           *)
(***************************************************************************)
EXTENDS ContextBase

CompactionCommands == {"compactStructuredEncryptionData", "cleanupStructuredEncryptionData"}

\* A sample of the commands that are passed on as they are
BypassedCommands == {"ping", "getMore", "drop", "listCollections", "hello"}
EligibleCommands == CompactionCommands \cup
    {"aggregate", "count", "distinct", "delete", "find", "findAndModify", "insert",
     "update", "create", "createIndexes", "explain", "collMod"}

\* _check_cmd_for_auto_encrypt, and the same for bulkWrite
check_cmd_for_auto_encrypt(cmd) ==
    IF cmd.name \in EligibleCommands
    THEN IF cmd.coll = "" THEN "error" ELSE "eligible"
    ELSE IF cmd.name \in BypassedCommands THEN "bypass" ELSE "error"
check_cmd_for_auto_encrypt_bulkWrite(cmd) ==
    IF cmd.targetDb = NoDb \/ cmd.others # <<>> THEN "error" ELSE "eligible"

needs_ismaster_check(g, x) ==
    /\ ~ x.bypass /\ g.csfle = 0
    /\ \/ mc_schema_broker_has_multiple_requests(x.sb)
       \/ x.cmd.name \in {"create", "createIndexes"}

needs_markings(g, x) == x.cmd.name \notin CompactionCommands /\ ~ g.bypass

-----------------------------------------------------------------------------
(* Markings *)

(***************************************************************************)
(* _create_markings_cmd_bson: the context, the schemas the command carries *)
(* and where, and the command's own encryptedFields.  Those of a "create"  *)
(* are translated too.                                                     *)
(***************************************************************************)
create_markings_cmd(g, x) ==
    LET r == mc_schema_broker_add_schemas_to_cmd(x.sb, x.kb, x.cmd.name,
                IF g.csfle # 0 THEN "crypt_shared" ELSE "mongocryptd")
        translates == x.cmd.name = "create" /\ x.cmd.efc # <<>>
    IN  [schemas |-> r.schemas, place |-> r.place,
         efc |-> IF translates
                 THEN <<mc_translate_fields_keyAltName_to_keyId(x.kb, x.cmd.efc[1])>> ELSE x.cmd.efc,
         x |-> IF r.abort THEN CtxAbort(x)
               ELSE IF ~ r.ok \/ (translates /\ TranslateFails(x.kb, x.cmd.efc[1]))
               THEN CtxFail(x)
               ELSE [x EXCEPT !.sb = r.sb]]

mongo_op_markings(g, x) == IF x.ismaster THEN x ELSE create_markings_cmd(g, x).x

\* Query analysis (mongocryptd or crypt_shared) marks the values of fields that
\* the schemas encrypt.  The encryptionInformation it got comes back inside an
\* explain.  The code looks for "hasEncryptedPlaceholders"; analysers that say
\* "hasEncryptionPlaceholders" (verbose) tell it nothing.  A compaction "must not
\* be sent to mongocryptd" (_fle2_collect_keys_for_compaction): it is refused.
Analyze(cmd, made, verbose) ==
    LET schemas == made.schemas
        marks == UNION {{[coll |-> s.coll, path |-> f.path, qe |-> s.qe, id |-> f.id,
                          names |-> f.names, query |-> f.query] :
                            f \in {h \in s.fields : [coll |-> s.coll, path |-> h.path] \in cmd.values}} :
                        s \in schemas}
    IN  [ok |-> cmd.name \notin CompactionCommands,
         requires |-> \E s \in schemas : s.fields # {},
         placeholders |-> verbose \/ marks # {},
         result |-> [marks |-> marks, efc |-> made.efc,
                     ei |-> IF \A s \in schemas : ~ s.qe THEN {}
                            ELSE {IF cmd.name = "explain" THEN "explain" ELSE made.place}]]

\* The key a marking names: FLE2 markings and CSFLE with keyId by id.
MarkingKey(m) ==
    IF m.id # NoId THEN [id |-> m.id, names |-> {}] ELSE [id |-> NoId, names |-> m.names]

\* Variant: keys of markings are not requested.
FeedWithoutKeys(g, x, reply) ==
    IF x.ismaster THEN [x EXCEPT !.maxwire = reply.wire]
    ELSE IF ~ reply.ok THEN CtxFail(x)
    ELSE IF ~ reply.requires \/ ~ reply.placeholders THEN x
    ELSE [x EXCEPT !.marked = <<reply.result>>]

\* _mongo_feed_markings with _collect_key_from_marking; the reply of an analysis
\* that failed has no "result"
mongo_feed_markings(g, x, reply) ==
    IF x.ismaster THEN [x EXCEPT !.maxwire = reply.wire]
    ELSE IF ~ reply.ok THEN CtxFail(x)
    ELSE IF ~ reply.requires \/ ~ reply.placeholders THEN x
    ELSE RequestKeys(g, [x EXCEPT !.marked = <<reply.result>>],
                     {MarkingKey(m) : m \in reply.result.marks})

\* _mongo_done_markings after markings
FinishMarkings(g, x) ==
    state_from_key_broker(g, [KbRequestsDone(x) EXCEPT !.need_keys = FALSE])

\* _try_run_csfle_marking: with crypt_shared, markings are had at once.
try_run_csfle_marking(g, x) ==
    IF x.state # "NEED_MONGO_MARKINGS" THEN CtxAbort(x)
    ELSE IF g.csfle = 0 THEN x
    ELSE LET made == create_markings_cmd(g, x)
             fed == mongo_feed_markings(g, made.x, Analyze(x.cmd, made, g.verbose))
         IN  IF Stopped(made.x) THEN made.x
             ELSE IF g.csfleFails THEN CtxFail(made.x)
             ELSE IF Stopped(fed) THEN fed
             ELSE FinishMarkings(g, fed)

-----------------------------------------------------------------------------
(* Keys *)

\* _fle2_collect_keys_for_compaction
collect_keys_for_compaction(g, x) ==
    LET efc == mc_schema_broker_get_encryptedFields(x.sb, x.cmd.coll)
        y == [x EXCEPT !.bypass = TRUE]
    IN  IF QeSchemasAsserts(x.sb) THEN CtxAbort(x)
        ELSE IF ~ mc_schema_broker_has_any_qe_schemas(x.sb) \/ x.cmd.name \notin CompactionCommands
        THEN x
        ELSE IF GetAsserts(x.sb, x.cmd.coll) THEN CtxAbort(x)
        ELSE IF efc = <<>> THEN CtxFail(y)
        ELSE RequestKeys(g, y, {KeyOf(f) : f \in efc[1]})

\* _fle2_collect_keys_for_encrypted_fields: the alt names to be translated
NamedFields(x) ==
    LET efc == mc_schema_broker_maybe_get_encryptedFields(x.sb, x.cmd.coll)
    IN  IF efc = <<>> THEN {} ELSE {f \in efc[1] : f.names # {}}
collect_keys_for_encrypted_fields(g, x) ==
    RequestKeys(g, [x EXCEPT !.need_keys = @ \/ NamedFields(x) # {}],
                {KeyOf(f) : f \in NamedFields(x)})

\* Variant: the broker is not restarted for the keys of the markings.
AfterKeysNoRestart(g, x) ==
    LET y == [x EXCEPT !.need_keys = FALSE]
    IN  IF x.kb.state # "DONE" THEN state_from_key_broker(g, x)
        ELSE IF x.need_keys /\ needs_markings(g, x)
        THEN try_run_csfle_marking(g, [y EXCEPT !.state = "NEED_MONGO_MARKINGS"])
        ELSE state_from_key_broker(g, y)

\* What _mongo_done_keys and _kms_done do next: with the alt names translated,
\* the markings are next.
AfterKeys(g, x) ==
    LET y == [x EXCEPT !.need_keys = FALSE]
    IN  IF x.kb.state # "DONE" THEN state_from_key_broker(g, x)
        ELSE IF x.need_keys /\ needs_markings(g, x)
        THEN try_run_csfle_marking(g, [y EXCEPT !.kb = Restart(@), !.state = "NEED_MONGO_MARKINGS"])
        ELSE state_from_key_broker(g, y)

encrypt_mongo_done_keys(g, x) == AfterKeys(g, KbDocsDone(x))
encrypt_kms_done(g, x) ==
    LET y == KbKmsDone(x) IN IF Stopped(y) THEN y ELSE AfterKeys(g, y)

-----------------------------------------------------------------------------
(* Schemas *)

\* A source of schemas has been tried.
Tried(x, sb) ==
    IF ~ sb.ok THEN CtxFail(x)
    ELSE IF mc_schema_broker_need_more_schemas(sb) THEN [x EXCEPT !.sb = sb]
    ELSE [x EXCEPT !.sb = sb, !.state = "NEED_MONGO_MARKINGS"]

try_encrypted_field_config_from_map(g, x) ==
    IF DOMAIN g.efcMap = {} THEN x
    ELSE Tried(x, mc_schema_broker_satisfy_from_encryptedFieldsMap(x.sb, g.efcMap))

try_schema_from_create_or_collMod_cmd(g, x) ==
    IF x.cmd.name \notin {"create", "collMod"} THEN x
    ELSE Tried(x, mc_schema_broker_satisfy_from_create_or_collMod(x.sb, x.cmd))

try_schema_from_schema_map(g, x) ==
    IF DOMAIN g.schemaMap = {} THEN x
    ELSE Tried(x, mc_schema_broker_satisfy_from_schemaMap(x.sb, g.schemaMap))

\* A schema of another database than the command's takes its own state.
AskServer(g, x) ==
    IF x.cmd.targetDb = NoDb THEN [x EXCEPT !.state = "NEED_MONGO_COLLINFO"]
    ELSE IF g.withDb THEN [x EXCEPT !.state = "NEED_MONGO_COLLINFO_WITH_DB"]
    ELSE CtxFail(x)

try_schema_from_cache(g, x) ==
    LET y == Tried(x, mc_schema_broker_satisfy_from_cache(x.sb, g.colls))
    IN  IF Stopped(y) \/ ~ mc_schema_broker_need_more_schemas(y.sb) THEN y
        ELSE AskServer(g, y)

try_empty_schema_for_create(g, x) ==
    IF x.cmd.name # "create" THEN x
    ELSE Tried(x, mc_schema_broker_satisfy_remaining_with_empty_schemas(x.sb))

\* A step that is taken while schemas are missing.
IfMissing(x, Step(_)) ==
    IF Stopped(x) \/ ~ mc_schema_broker_need_more_schemas(x.sb) THEN x ELSE Step(x)

FindSchemas(g, x0) ==
    LET x1 == try_encrypted_field_config_from_map(g, x0)
        x2 == IfMissing(x1, LAMBDA x : try_schema_from_create_or_collMod_cmd(g, x))
        x3 == IfMissing(x2, LAMBDA x : try_schema_from_schema_map(g, x))
        x4 == IfMissing(x3, LAMBDA x : try_schema_from_cache(g, x))
        x5 == IfMissing(x4, LAMBDA x : try_empty_schema_for_create(g, x))
    IN  IfMissing(x5, LAMBDA x : AskServer(g, x))

\* "create" and "createIndexes" are not analysed by old servers; several
\* schemas need a new one, and a newer one for both kinds of schema.
CheckAnalyzer(g, x) ==
    LET many == mc_schema_broker_has_multiple_requests(x.sb)
        cryptd == needs_ismaster_check(g, x)
        Mixing(y) == [y EXCEPT !.sb.mixing = TRUE]
    IN  IF cryptd /\ x.cmd.name \in {"create", "createIndexes"} /\ x.maxwire < 17
        THEN [x EXCEPT !.sb = mc_schema_broker_satisfy_remaining_with_empty_schemas(@),
                       !.nothing_to_do = TRUE, !.state = "READY"]
        ELSE IF many /\ ((cryptd /\ x.maxwire < 26) \/ g.csfle \in 1..80) THEN CtxFail(x)
        ELSE IF many /\ ((cryptd /\ x.maxwire >= 27) \/ g.csfle >= 82) THEN Mixing(x)
        ELSE x

\* Variant: the flag stays.
IsmasterAskedAgain(x) == x

IsmasterKnown(x) == [x EXCEPT !.ismaster = FALSE]

(***************************************************************************)
(* mongocrypt_ctx_encrypt_ismaster_done.  The state after FindSchemas says *)
(* what comes next.  When all alt names were found in the key cache,       *)
(* markings are asked for at once, even if query analysis is bypassed and  *)
(* even for a compaction.                                                  *)
(***************************************************************************)
ismaster_done(g, x) ==
    LET checked == CheckAnalyzer(g, IsmasterKnown(x))
        found == FindSchemas(g, checked)
        x1 == IF mc_schema_broker_need_more_schemas(found.sb) THEN found
              ELSE collect_keys_for_compaction(g, found)
        x2 == collect_keys_for_encrypted_fields(g, x1)
        need_keys == NamedFields(x1) # {}
    IN  IF checked.state \in {"READY", "ERROR"} THEN checked
        ELSE IF Stopped(found) THEN found
        ELSE IF Stopped(x1) THEN x1
        ELSE IF Stopped(x2) \/ x2.state # "NEED_MONGO_MARKINGS" THEN x2
        ELSE IF x2.bypass \/ need_keys
        THEN IF AllSatisfied(x2.kb) /\ x2.need_keys THEN try_run_csfle_marking(g, x2)
             ELSE state_from_key_broker(g, KbRequestsDone(x2))
        ELSE try_run_csfle_marking(g, x2)

mongo_done_markings(g, x) ==
    IF x.ismaster THEN ismaster_done(g, x) ELSE FinishMarkings(g, x)

\* find_collections_in_agg: every further collection of an aggregate
RequestSchemas(x) ==
    LET db == IF x.cmd.name = "bulkWrite" THEN x.cmd.targetDb ELSE x.cmd.db
        others == IF x.cmd.name = "aggregate" THEN x.cmd.others ELSE <<>>
    IN  [x EXCEPT !.sb = FoldLeft(LAMBDA sb, coll : mc_schema_broker_request(sb, db, coll),
                                  @, <<x.cmd.coll>> \o others)]

\* mongocrypt_ctx_encrypt_init
encrypt_init(g, cmd) ==
    LET x == [mongocrypt_ctx_new EXCEPT !.kind = "encrypt", !.cmd = cmd, !.bypass = g.bypass]
        verdict == IF cmd.name = "bulkWrite" THEN check_cmd_for_auto_encrypt_bulkWrite(cmd)
                   ELSE check_cmd_for_auto_encrypt(cmd)
        y == RequestSchemas(x)
    IN  IF verdict = "error" THEN CtxFail(x)
        ELSE IF verdict = "bypass" THEN [x EXCEPT !.nothing_to_do = TRUE, !.state = "READY"]
        ELSE IF mc_schema_broker_has_multiple_requests(y.sb) /\ ~ g.lookups THEN CtxFail(y)
        ELSE IF needs_ismaster_check(g, y)
        THEN [y EXCEPT !.ismaster = TRUE, !.state = "NEED_MONGO_MARKINGS"]
        ELSE ismaster_done(g, y)

-----------------------------------------------------------------------------
(* Collection infos *)

\* The filter of listCollections; it is an error to ask for nothing.
mongo_op_collinfo(x) ==
    IF mc_schema_broker_append_listCollections_filter(x.sb) = {} THEN CtxFail(x) ELSE x

mongo_feed_collinfo(x, info) ==
    LET sb == mc_schema_broker_satisfy_from_collinfo(x.sb, info)
    IN  IF sb.ok THEN [x EXCEPT !.sb = sb] ELSE CtxFail(x)

\* Variant: a collection the server does not know gets no schema.
DoneWithoutEmptySchemas(g, x) ==
    LET y == collect_keys_for_compaction(g, x)
    IN  IF Stopped(y) THEN y
        ELSE IF y.bypass THEN state_from_key_broker(g, KbRequestsDone(y))
        ELSE try_run_csfle_marking(g, [y EXCEPT !.state = "NEED_MONGO_MARKINGS"])

mongo_done_collinfo(g, x) ==
    LET y == collect_keys_for_compaction(g,
                [x EXCEPT !.sb = mc_schema_broker_satisfy_remaining_with_empty_schemas(@)])
    IN  IF Stopped(y) THEN y
        ELSE IF y.bypass THEN state_from_key_broker(g, KbRequestsDone(y))
        ELSE try_run_csfle_marking(g, [y EXCEPT !.state = "NEED_MONGO_MARKINGS"])

-----------------------------------------------------------------------------
(* The result: the key of every value (NoId: left as it is), the schemas   *)
(* for the server, and the tokens of a compaction or cleanup.              *)

Markings(x) == IF x.marked = <<>> THEN {} ELSE x.marked[1].marks

\* The command before values are replaced
marked_cmd(x) ==
    IF x.marked = <<>> THEN [marks |-> {}, efc |-> x.cmd.efc, ei |-> {}] ELSE x.marked[1]

\* _replace_marking_with_ciphertext for every marking
MarkingsFail(x) ==
    \E m \in Markings(x) : ~ CanLookUp(x.kb, MarkingKey(m).id, MarkingKey(m).names)
Replaced(x) ==
    {LET ms == {m \in Markings(x) : m.coll = v.coll /\ m.path = v.path}
         k == MarkingKey(CHOOSE m \in ms : TRUE)
     IN  [coll |-> v.coll, path |-> v.path,
          key |-> IF ms = {} THEN NoId ELSE KeyFound(x.kb, k.id, k.names).id] : v \in x.cmd.values}

\* must_omit_encryptionInformation: payloads of queryable fields need it.
must_omit_encryptionInformation(x, fields) ==
    IF x.cmd.name = "compactStructuredEncryptionData"
    THEN \A f \in fields : f.query \notin PaddedQueries
    ELSE \/ x.cmd.name \in {"cleanupStructuredEncryptionData", "create", "collMod", "createIndexes"}
         \/ /\ x.cmd.name \in {"find", "aggregate", "distinct", "count", "insert"}
            /\ \A m \in Markings(x) : ~ m.qe \/ m.query = "none"

\* _fle2_append_compactionTokens
CompactionTokens(x, fields) ==
    IF x.cmd.name \notin CompactionCommands THEN {}
    ELSE {[path |-> f.path, key |-> f.id, padding |-> f.query \in PaddedQueries] : f \in fields}

\* _fle2_strip_encryptionInformation: what the analysis returned is taken out.
strip_encryptionInformation(cmd_name, places) ==
    places \ {CASE cmd_name = "bulkWrite" -> "nsInfo"
                [] cmd_name = "explain" -> "explain"
                [] OTHER -> "top"}

\* _fle2_fixup_encryptedFields_strEncodeVersion of a create that gives none
fixup_strEncodeVersion(x, efc) ==
    IF x.cmd.name = "create" /\ x.cmd.efc # <<>> THEN str_encode_version(efc[1]) ELSE 0

fle2_finalize(x) ==
    LET efc == mc_schema_broker_get_encryptedFields(x.sb, x.cmd.coll)
        named == IF efc = <<>> THEN {} ELSE efc[1]
        fields == mc_translate_fields_keyAltName_to_keyId(x.kb, named)
        ei == mc_schema_broker_add_schemas_to_cmd(x.sb, x.kb, x.cmd.name, "server")
        left == strip_encryptionInformation(x.cmd.name, marked_cmd(x).ei)
        omit == must_omit_encryptionInformation(x, fields)
        compacts == x.cmd.name \in CompactionCommands
    IN  IF MarkingsFail(x) THEN CtxFail(x)
        ELSE IF GetAsserts(x.sb, x.cmd.coll) \/ TranslateFails(x.kb, named) THEN CtxAbort(x)
        ELSE IF (compacts \/ x.cmd.name = "create") /\ efc = <<>> THEN CtxFail(x)
        ELSE IF ~ omit /\ ei.abort THEN CtxAbort(x)
        ELSE IF ~ omit /\ ~ ei.ok THEN CtxFail(x)
        ELSE IF compacts /\ \E f \in fields : ~ CanLookUp(x.kb, f.id, {}) THEN CtxFail(x)
        ELSE [x EXCEPT !.state = "DONE",
                       !.out = <<[values |-> Replaced(x), tokens |-> CompactionTokens(x, fields),
                                  ei |-> {[place |-> p, schemas |-> {}] : p \in left} \cup
                                         IF omit THEN {}
                                         ELSE {[place |-> ei.place, schemas |-> ei.schemas]},
                                  efc |-> marked_cmd(x).efc,
                                  version |-> fixup_strEncodeVersion(x, efc)]>>]

encrypt_finalize(x) ==
    IF QeSchemasAsserts(x.sb) THEN CtxAbort(x)
    ELSE IF mc_schema_broker_has_any_qe_schemas(x.sb) THEN fle2_finalize(x)
    ELSE IF ~ x.nothing_to_do /\ (x.marked = <<>> \/ MarkingsFail(x)) THEN CtxFail(x)
    ELSE LET y == IF x.nothing_to_do THEN [x EXCEPT !.marked = <<>>] ELSE x
         IN  [x EXCEPT !.state = "DONE",
                       !.out = <<[values |-> Replaced(y), tokens |-> {}, ei |-> {},
                                  efc |-> marked_cmd(y).efc, version |-> 0]>>]
=============================================================================
