------------------------------ MODULE MCContexts -------------------------------
(***************************************************************************)
(* Instances of ContextsSys for TLC.  Each scenario is a configuration of  *)
(* the library and one job for each of two contexts; they are chosen so    *)
(* that every source of schemas, every state of a context and every way a  *)
(* key can be had occurs, and so that the two contexts meet in the caches. *)
(***************************************************************************)
EXTENDS ContextsSys

CONSTANTS c1, c2

ProviderDef == [k \in KmsIds |-> k]

VaultDef == {[id |-> "k1", names |-> {"n1"}, kmsid |-> "aws"],
             [id |-> "k2", names |-> {"n2"}, kmsid |-> "local"],
             [id |-> "k3", names |-> {}, kmsid |-> "azure"]}

Field(path, id, names, query) == [path |-> path, id |-> id, names |-> names, query |-> query]
ByIds == {Field("a", "k1", {}, "equality"), Field("b", "k2", {}, "range")}
ByNames == {Field("a", NoId, {"n1"}, "equality"), Field("b", NoId, {"n2"}, "text")}
Ambiguous == {Field("a", NoId, {"n1"}, "equality"), Field("b", NoId, {"n1"}, "none")}
Csfle == {Field("a", "k3", {}, "none"), Field("b", NoId, {"n2"}, "none")}

\* db1.qe and db2.qe are different collections; other collections have no info.
Info(name, view, efc, json) == [name |-> name, view |-> view, efc |-> efc, json |-> json]
ServerDef ==
    <<"db1", "qe">> :> Info("qe", FALSE, <<ByIds>>, <<>>) @@
    <<"db2", "qe">> :> Info("qe", FALSE, <<{Field("a", "k2", {}, "equality")}>>, <<>>) @@
    <<"db1", "csfle">> :> Info("csfle", FALSE, <<>>, <<Csfle>>) @@
    <<"db1", "view">> :> Info("view", TRUE, <<>>, <<>>)

Base == [csfle |-> 0, csfleFails |-> FALSE, wire |-> 27, verbose |-> TRUE, bypass |-> FALSE,
         lookups |-> TRUE, withDb |-> TRUE, creds |-> FALSE, efcMap |-> <<>>, schemaMap |-> <<>>,
         keys |-> {}, colls |-> <<>>, tokens |-> {}]
Named == [Base EXCEPT !.efcMap = <<"db1", "qe">> :> ByNames]

NoJob == [kind |-> "", cmd |-> NoCmd, doc |-> {}, kek |-> "", ids |-> {}]
Cmd(name, db, coll) ==
    [NoCmd EXCEPT !.name = name, !.db = db, !.coll = coll,
                  !.values = {[coll |-> coll, path |-> p] : p \in {"a", "b", "z"}}]
\* A command without values to analyse
Plain(name, db, coll) == [Cmd(name, db, coll) EXCEPT !.values = {}]
Lookup(db, coll, other) ==
    [Cmd("aggregate", db, coll) EXCEPT !.others = <<other>>,
        !.values = {[coll |-> coll, path |-> "a"], [coll |-> other, path |-> "b"]}]
BulkWrite(db, coll) == [Cmd("bulkWrite", "admin", coll) EXCEPT !.targetDb = db]
Create(efc, json) == [NoCmd EXCEPT !.name = "create", !.db = "db1", !.coll = "new",
                                   !.efc = efc, !.json = json]

Run(cmd) == [NoJob EXCEPT !.kind = "encrypt", !.cmd = cmd]
Decrypt(doc) == [NoJob EXCEPT !.kind = "decrypt", !.doc = doc]
Explicit(b) == [NoJob EXCEPT !.kind = "explicit", !.doc = {b}]
Rewrap(ids, kek) == [NoJob EXCEPT !.kind = "rewrap", !.ids = ids, !.kek = kek]
Blob(kind, key, skey) == [kind |-> kind, key |-> key, skey |-> skey]

Scenario(crypt0, job1, job2) == [crypt |-> crypt0, jobs |-> (c1 :> job1 @@ c2 :> job2)]

EncryptScenarios == {
    \* one name, two databases
    Scenario(Base, Run(Cmd("insert", "db1", "qe")), Run(BulkWrite("db2", "qe"))),
    Scenario([Base EXCEPT !.csfle = 80, !.verbose = FALSE],
             Run(Cmd("insert", "db2", "qe")), Run(Cmd("explain", "db1", "qe"))),
    Scenario([Base EXCEPT !.withDb = FALSE],
             Run(BulkWrite("db2", "qe")), Run(Cmd("update", "db2", "none"))),
    \* keys by alt name: from the vault, from the cache
    Scenario(Named, Run(Cmd("insert", "db1", "qe")), Run(Cmd("delete", "db1", "qe"))),
    Scenario([Named EXCEPT !.csfle = 82, !.creds = TRUE],
             Run(Cmd("insert", "db1", "qe")), Run(Plain("cleanupStructuredEncryptionData", "db1", "qe"))),
    \* several collections
    Scenario(Base, Run(Lookup("db1", "qe", "csfle")), Run(Lookup("db1", "none", "qe"))),
    Scenario([Base EXCEPT !.csfle = 81],
             Run(Lookup("db1", "csfle", "qe")), Run(Lookup("db1", "qe", "none"))),
    Scenario([Base EXCEPT !.wire = 25],
             Run(Lookup("db1", "qe", "none")), Run(Cmd("view", "db1", "qe"))),
    Scenario([Base EXCEPT !.lookups = FALSE],
             Run(Lookup("db1", "qe", "none")), Run(Cmd("insert", "db1", "view"))),
    Scenario([Named EXCEPT !.csfle = 82],
             Run(Lookup("db1", "qe", "csfle")), Run(Lookup("db1", "none", "qe"))),
    \* schemas in commands, not accepted, and in the application's map
    Scenario(Base, Run(Create(<<ByNames>>, <<>>)), Run(Create(<<>>, <<>>))),
    Scenario([Base EXCEPT !.efcMap = <<"db1", "qe">> :> Ambiguous],
             Run(Cmd("insert", "db1", "qe")), Run(Cmd("explain", "db2", "qe"))),
    Scenario([Base EXCEPT !.wire = 16],
             Run(Create(<<>>, <<Csfle>>)), Run(Plain("createIndexes", "db1", "qe"))),
    Scenario([Base EXCEPT !.verbose = FALSE, !.schemaMap = <<"db1", "qe">> :> Csfle],
             Run(Cmd("findAndModify", "db1", "qe")),
             Run([Plain("collMod", "db1", "none") EXCEPT !.json = <<Csfle>>])),
    \* compaction, with and without query analysis
    Scenario(Base, Run(Plain("compactStructuredEncryptionData", "db1", "qe")), Decrypt({})),
    Scenario([Named EXCEPT !.bypass = TRUE],
             Run(Plain("compactStructuredEncryptionData", "db1", "qe")),
             Decrypt({Blob("fle1", "k3", "k3")})),
    Scenario(Named, Run(Plain("compactStructuredEncryptionData", "db1", "qe")),
             Decrypt({Blob("iev", "k1", "k2")})),
    Scenario([Base EXCEPT !.csfle = 82, !.csfleFails = TRUE],
             Run(Cmd("count", "db1", "qe")), Run(Plain("ping", "db1", "qe")))}

IndexedDoc == {Blob("iev", "k1", "k3"), Blob("iup", "k2", "k2"), Blob("other", "k1", "k1")}
OtherScenarios == {
    Scenario(Base, Decrypt(IndexedDoc), Decrypt({Blob("iev", "k2", "k1")})),
    Scenario([Base EXCEPT !.creds = TRUE], Decrypt(IndexedDoc), Explicit(Blob("other", "k1", "k1"))),
    Scenario(Base, Rewrap({"k1", "k2"}, "kmip"), Explicit(Blob("uev", "k1", "k1"))),
    Scenario([Base EXCEPT !.creds = TRUE],
             Rewrap({"k1", "k2"}, "azure"), Decrypt({Blob("fle1", "k2", "k2")})),
    Scenario(Base, Rewrap({"k3"}, ""), Rewrap({"k2"}, "azure")),
    Scenario(Base, Rewrap({"k2"}, "gcp"), Run(Plain("compactStructuredEncryptionData", "db1", "none")))}

AllScenarios == EncryptScenarios \cup OtherScenarios

\* Query analysis is bypassed and a second context finds all keys in the cache.
BypassScenarios ==
    {Scenario([Named EXCEPT !.bypass = TRUE],
              Run(Cmd("insert", "db1", "qe")), Run(Cmd("insert", "db1", "qe")))}
=============================================================================
