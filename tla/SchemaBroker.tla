----------------------------- MODULE SchemaBroker ------------------------------
(***************************************************************************)
(* The schemas one command needs (mc-schema-broker.c): an entry for every  *)
(* collection of the command, satisfied from the application's maps, from  *)
(* the command itself, from the shared cache of collection infos, or from  *)
(* the server.                                                             *)
(*                                                                         *)
(* A schema is an optional set of fields (a sequence of length 0 or 1),    *)
(* "efc" for queryable encryption (encryptedFields) and "json" for client- *)
(* side field level encryption ($jsonSchema).  A field is [path, id,       *)
(* names, query]: the id of its key, or NoId and one alt name, and a query *)
(* type.  A namespace is <<db, coll>>; a map from namespaces is a function *)
(* on some of them.                                                        *)
(***************************************************************************)
EXTENDS KeyBroker, FiniteSetsExt, SequencesExt

NoDb == "no db"

\* mc_schema_entry_t and mc_schema_broker_t; "ok" is the return value of the
\* last call.
NewEntryFor(coll) == [coll |-> coll, satisfied |-> FALSE, efc |-> <<>>, json |-> <<>>]
mc_schema_broker_new ==
    [db |-> NoDb, entries |-> <<>>, mixing |-> FALSE, ok |-> TRUE]

SbFails(sb) == [sb EXCEPT !.ok = FALSE]

mc_schema_broker_request(sb, db, coll) ==
    IF sb.db \notin {NoDb, db} THEN SbFails(sb)
    ELSE IF \E i \in DOMAIN sb.entries : sb.entries[i].coll = coll THEN sb
    ELSE [sb EXCEPT !.db = db, !.entries = Append(@, NewEntryFor(coll))]

mc_schema_broker_has_multiple_requests(sb) == Len(sb.entries) > 1
mc_schema_broker_need_more_schemas(sb) ==
    \E i \in DOMAIN sb.entries : ~ sb.entries[i].satisfied

\* The answer, and the assertion on every entry up to the first with one.
mc_schema_broker_has_any_qe_schemas(sb) ==
    \E i \in DOMAIN sb.entries : sb.entries[i].efc # <<>>
QeSchemasAsserts(sb) ==
    \E i \in DOMAIN sb.entries :
        ~ sb.entries[i].satisfied /\ \A j \in 1..(i - 1) : sb.entries[j].efc = <<>>

\* The collections listCollections is asked for; there must be one.
mc_schema_broker_append_listCollections_filter(sb) ==
    {sb.entries[i].coll : i \in {j \in DOMAIN sb.entries : ~ sb.entries[j].satisfied}}

-----------------------------------------------------------------------------
(* encryptedFields (mc-efc.c) *)

\* "range" and "text" (prefix, suffix, substring) need more than tags.
PaddedQueries == {"range", "text"}
SupportedQueries == {"none", "equality"} \cup PaddedQueries

\* _parse_field: one of keyId and keyAltName, no query type of a preview
FieldParses(f) == (f.id = NoId <=> f.names # {}) /\ f.query \in SupportedQueries

\* mc_EncryptedFieldConfig_parse: is it accepted?
EfcParses(fields) ==
    /\ \A f \in fields : FieldParses(f)
    /\ \A f, h \in fields : f.names \cap h.names # {} => f = h

\* efc.str_encode_version, for encryptedFields that do not give one
LATEST_STR_ENCODE_VERSION == 1
str_encode_version(fields) ==
    IF \E f \in fields : f.query = "text" THEN LATEST_STR_ENCODE_VERSION ELSE 0

-----------------------------------------------------------------------------
(* Satisfying entries *)

\* Apply a function to every unsatisfied entry; it returns the entry, or FALSE
\* in "ok".
Satisfy(sb, From(_)) ==
    LET got == [i \in DOMAIN sb.entries |->
                  IF sb.entries[i].satisfied THEN [ok |-> TRUE, se |-> sb.entries[i]]
                  ELSE From(sb.entries[i])]
    IN  IF \E i \in DOMAIN got : ~ got[i].ok THEN SbFails(sb)
        ELSE [sb EXCEPT !.entries = [i \in DOMAIN got |-> got[i].se]]

Unchanged(se) == [ok |-> TRUE, se |-> se]

\* An entry with encryptedFields, which are parsed.
WithEfc(se, efc) ==
    [ok |-> efc = <<>> \/ EfcParses(efc[1]), se |-> [se EXCEPT !.efc = efc, !.satisfied = TRUE]]

\* A collection info is [name, view, efc, json].
EmptyInfo(coll) == [name |-> coll, view |-> FALSE, efc |-> <<>>, json |-> <<>>]

mc_schema_entry_satisfy_from_collinfo(se, info) ==
    IF se.satisfied \/ info.view THEN [ok |-> FALSE, se |-> se]
    ELSE WithEfc([se EXCEPT !.json = info.json], info.efc)

mc_schema_broker_satisfy_from_collinfo(sb, info) ==
    LET at == {i \in DOMAIN sb.entries : sb.entries[i].coll = info.name}
        i == CHOOSE j \in at : TRUE
        got == mc_schema_entry_satisfy_from_collinfo(sb.entries[i], info)
    IN  IF at = {} THEN SbFails(sb)
        ELSE IF ~ got.ok THEN SbFails(sb)
        ELSE [sb EXCEPT !.entries[i] = got.se]

mc_schema_broker_satisfy_from_schemaMap(sb, schema_map) ==
    Satisfy(sb, LAMBDA se :
        IF <<sb.db, se.coll>> \notin DOMAIN schema_map THEN Unchanged(se)
        ELSE Unchanged([se EXCEPT !.json = <<schema_map[<<sb.db, se.coll>>]>>,
                                  !.satisfied = TRUE]))

mc_schema_broker_satisfy_from_encryptedFieldsMap(sb, ef_map) ==
    Satisfy(sb, LAMBDA se :
        IF <<sb.db, se.coll>> \notin DOMAIN ef_map THEN Unchanged(se)
        ELSE WithEfc(se, <<ef_map[<<sb.db, se.coll>>]>>))

\* Variant: the cache is searched by collection name alone.
SatisfyFromAnyDb(sb, cache) ==
    Satisfy(sb, LAMBDA se :
        LET at == {ns \in DOMAIN cache : ns[2] = se.coll}
        IN  IF at = {} THEN Unchanged(se)
            ELSE mc_schema_entry_satisfy_from_collinfo(se, cache[CHOOSE ns \in at : TRUE]))

mc_schema_broker_satisfy_from_cache(sb, cache) ==
    Satisfy(sb, LAMBDA se :
        IF <<sb.db, se.coll>> \notin DOMAIN cache THEN Unchanged(se)
        ELSE mc_schema_entry_satisfy_from_collinfo(se, cache[<<sb.db, se.coll>>]))

\* The $jsonSchema of the command is taken before its encryptedFields.
mc_schema_broker_satisfy_from_create_or_collMod(sb, cmd) ==
    Satisfy(sb, LAMBDA se :
        IF cmd.name \notin {"create", "collMod"} \/ se.coll # cmd.coll THEN Unchanged(se)
        ELSE IF cmd.json # <<>> THEN Unchanged([se EXCEPT !.json = cmd.json, !.satisfied = TRUE])
        ELSE IF cmd.efc # <<>> THEN WithEfc(se, cmd.efc)
        ELSE Unchanged(se))

mc_schema_broker_satisfy_remaining_with_empty_schemas(sb) ==
    Satisfy(sb, LAMBDA se : Unchanged([se EXCEPT !.satisfied = TRUE]))

\* What it puts into the cache, when it is given one.
EmptyInfos(sb) ==
    [ns \in {<<sb.db, coll>> : coll \in mc_schema_broker_append_listCollections_filter(sb)} |->
        EmptyInfo(ns[2])]

-----------------------------------------------------------------------------
(* Using schemas *)

Matching(sb, coll) == {i \in DOMAIN sb.entries : sb.entries[i].coll = coll}

mc_schema_broker_maybe_get_encryptedFields(sb, coll) ==
    LET at == Matching(sb, coll)
    IN  IF at = {} THEN <<>> ELSE sb.entries[CHOOSE i \in at : TRUE].efc

\* The same, asserting that the entries it passes are satisfied.
mc_schema_broker_get_encryptedFields(sb, coll) ==
    mc_schema_broker_maybe_get_encryptedFields(sb, coll)
GetAsserts(sb, coll) ==
    \E i \in DOMAIN sb.entries : /\ ~ sb.entries[i].satisfied
                                 /\ \A j \in Matching(sb, coll) : i <= j

\* The key document a lookup finds.
KeyFound(kb, id, names) ==
    LET found == ReturnedMatches(kb, id, names)
        cached == {i \in DOMAIN kb.cached : DocMatches(kb.cached[i], id, names)}
    IN  IF found # {} THEN kb.returned[ListFirst(found)].doc ELSE kb.cached[ListFirst(cached)]

\* decrypted_key_by_id and _by_name answer in two states of the broker.
CanLookUp(kb, id, names) ==
    kb.state \in {"DONE", "REQUESTING"} /\ LookupSucceeds(kb, id, names)

Untranslated(fields) == {f \in fields : f.id = NoId}
TranslateFails(kb, fields) == \E f \in Untranslated(fields) : ~ CanLookUp(kb, NoId, f.names)

\* keyAltName becomes keyId
mc_translate_fields_keyAltName_to_keyId(kb, fields) ==
    {IF f.id = NoId THEN [f EXCEPT !.id = KeyFound(kb, NoId, f.names).id] ELSE f : f \in fields}

\* encryptedFields is preferred over jsonSchema.
CsfleOf(se) == IF se.efc = <<>> THEN se.json ELSE <<>>

\* append_encryptedFields, the default of strEncodeVersion included
EncryptedFieldsFor(coll, fields) ==
    [coll |-> coll, qe |-> TRUE, fields |-> fields, version |-> str_encode_version(fields)]

\* The schema information a command gets, one record for each collection.
append_encryptionInformation(entries) ==
    {EncryptedFieldsFor(se.coll, IF se.efc = <<>> THEN {} ELSE se.efc[1]) :
        se \in {e \in Range(entries) : ~ (e.efc = <<>> /\ e.json # <<>>)}}

\* insert_encryptionInformation: where in the command it is put.  mongocryptd
\* expects it at the top of an explain, crypt_shared and the server inside.
EiPlace(cmd_name, target) ==
    IF cmd_name = "bulkWrite" THEN "nsInfo"
    ELSE IF cmd_name = "explain" /\ target # "mongocryptd" THEN "explain"
    ELSE "top"
insert_csfleEncryptionSchemas(entries) ==
    LET skip_empty == \E i \in DOMAIN entries : entries[i].efc # <<>>
    IN  {[coll |-> se.coll, qe |-> FALSE, version |-> 0,
          fields |-> IF se.json = <<>> THEN {} ELSE se.json[1]] :
            se \in {e \in Range(entries) : e.efc = <<>> /\ (e.json # <<>> \/ ~ skip_empty)}}

(***************************************************************************)
(* mc_schema_broker_add_schemas_to_cmd: [ok, sb, schemas, place].  The ids *)
(* found for alt names stay in the entries.  The target is "mongocryptd",  *)
(* "crypt_shared" or "server", which gets no CSFLE schemas.                *)
(***************************************************************************)
mc_schema_broker_add_schemas_to_cmd(sb, kb, cmd_name, target) ==
    LET qe == {i \in DOMAIN sb.entries : sb.entries[i].efc # <<>>}
        csfle == {i \in DOMAIN sb.entries : CsfleOf(sb.entries[i]) # <<>>}
        fails == \E i \in qe : TranslateFails(kb, sb.entries[i].efc[1])
        entries == [i \in DOMAIN sb.entries |->
            IF i \notin qe THEN sb.entries[i]
            ELSE [sb.entries[i] EXCEPT !.efc =
                    <<mc_translate_fields_keyAltName_to_keyId(kb, @[1])>>]]
        ei == append_encryptionInformation(entries)
        ces == IF target = "server" THEN {} ELSE insert_csfleEncryptionSchemas(entries)
        res(schemas) == [ok |-> TRUE, sb |-> [sb EXCEPT !.entries = entries],
                         schemas |-> schemas, place |-> EiPlace(cmd_name, target), abort |-> FALSE]
        refused(abort) == [ok |-> FALSE, sb |-> sb, schemas |-> {}, place |-> "top", abort |-> abort]
    IN  IF mc_schema_broker_need_more_schemas(sb) THEN refused(TRUE)
        ELSE IF fails THEN refused(FALSE)
        ELSE IF qe # {} /\ csfle # {}
        THEN IF sb.mixing THEN res(ei \union ces) ELSE refused(FALSE)
        ELSE IF qe # {} \/ (csfle = {} /\ cmd_name = "bulkWrite") THEN res(ei)
        ELSE res(ces)
=============================================================================
