------------------------------ MODULE KeyBroker ------------------------------
(***************************************************************************)
(* One key broker (mongocrypt-key-broker.c): the component of a context    *)
(* that collects key requests, satisfies them from the key cache or from   *)
(* documents of the key vault, and has the material of those documents     *)
(* decrypted by their KMS.                                                 *)
(*                                                                         *)
(* A broker is a record; each operator below is the broker after one call  *)
(* (or one lock-to-lock section of a call) of the C functions.  The        *)
(* modules that own brokers and the shared caches apply them in actions.   *)
(*                                                                         *)
(* Lists.  keys_returned and keys_cached grow by prepending: here they are *)
(* sequences that grow by appending, so the head of the C list is the last *)
(* element, "next" is the element before it, and NULL is position 0.       *)
(* key_requests is only searched for existence and updated as a whole, so  *)
(* it is a set.                                                            *)
(***************************************************************************)
EXTENDS KeyCache, OAuthCache, KmsRequest, Sequences

CONSTANTS
    Provider,       \* the provider type of every KMS id
    Configured,     \* the KMS ids with credentials in kms_providers
    DirectToken     \* the KMS ids whose credentials hold an access token

OAuthProviders == {"azure", "gcp"}

\* Requests to these go over HTTP and are retryable; KMIP requests are not.
HttpProviders == {"aws"} \cup OAuthProviders

ASSUME KeyBrokerAssumption ==
    /\ Provider \in [KmsIds -> HttpProviders \cup {"local", "kmip"}]
    /\ Configured \subseteq KmsIds
    /\ DirectToken \subseteq KmsIds

-----------------------------------------------------------------------------
\* How feeding the KMS request of a key of this KMS id can end
KmsOutcomes(kms, kmsid) == KmsEnds(kms, Provider[kmsid] \in HttpProviders)

-----------------------------------------------------------------------------
(***************************************************************************)
(* The broker's state.                                                     *)
(***************************************************************************)
BrokerStates == {"REQUESTING", "ADDING_DOCS", "ADDING_DOCS_ANY",
                 "AUTHENTICATING", "DECRYPTING_KEY_MATERIAL", "DONE", "ERROR"}

\* key_request_t
Request == [id : KeyIds \cup {NoId}, names : SUBSET AltNames, satisfied : BOOLEAN]

\* key_returned_t for a document of the key vault.  One for a cached key is
\* always decrypted and has no KMS context: keys_cached holds its document.
KeyReturned == [doc : Doc, decrypted : BOOLEAN, needsAuth : BOOLEAN, kms : Kms]

\* auth_request_t, with the time its token was first cached (-1: not yet)
AuthRequest == [kmsid : KmsIds, returned : BOOLEAN, kms : Kms, since : Nat \cup {-1}]

\* The find filter: the ids and the names of its two $in lists
KeyFilter == [ids : SUBSET KeyIds, names : SUBSET AltNames]

(***************************************************************************)
(* _mongocrypt_key_broker_t.  "ok" is mongocrypt_status_ok(status);        *)
(* "filter" is empty or holds the one filter built; "any" records that     *)
(* request_any was called; "pc" and "idx" are where the thread is inside   *)
(* _mongocrypt_key_broker_kms_done, or "add" in add_doc in any mode, after *)
(* the cache was asked ("idle": in no call).                               *)
(***************************************************************************)
Broker == [state : BrokerStates, ok : BOOLEAN, any : BOOLEAN,
           requests : SUBSET Request, returned : Seq(KeyReturned),
           cached : Seq(Doc), iter : Nat, filter : SUBSET KeyFilter,
           auth : Seq(AuthRequest),
           pc : {"idle", "add", "auth", "rekey", "decrypt"}, idx : Nat]

\* _mongocrypt_key_broker_init
NewBroker == [state |-> "REQUESTING", ok |-> TRUE, any |-> FALSE,
              requests |-> {}, returned |-> <<>>,
              cached |-> <<>>, iter |-> 0, filter |-> {},
              auth |-> <<>>,
              pc |-> "idle", idx |-> 0]

\* _key_broker_fail_w_msg and _key_broker_fail: an error always has a status.
Fail(b) == [b EXCEPT !.state = "ERROR", !.ok = FALSE, !.pc = "idle"]

-----------------------------------------------------------------------------
(***************************************************************************)
(* Searching.                                                              *)
(***************************************************************************)
\* _key_request_find_one finds a request
RequestKnown(b, id, names) ==
    \E r \in b.requests : \/ id # NoId /\ r.id = id
                          \/ r.names \cap names # {}

DocMatches(doc, id, names) == doc.id = id \/ doc.names \cap names # {}

\* The positions of keys_returned that _key_returned_find_one accepts
ReturnedMatches(b, id, names) ==
    {i \in DOMAIN b.returned : DocMatches(b.returned[i].doc, id, names)}

\* The first in list order of a non-empty set of positions
ListFirst(positions) == CHOOSE i \in positions : \A j \in positions : j <= i

(***************************************************************************)
(* _get_decrypted_key_material finds a key and the key is decrypted: it    *)
(* looks in keys_returned first and in keys_cached only when nothing       *)
(* there matches.                                                          *)
(***************************************************************************)
LookupSucceeds(b, id, names) ==
    LET found == ReturnedMatches(b, id, names)
    IN  IF found # {}
        THEN b.returned[ListFirst(found)].decrypted
        ELSE \E i \in DOMAIN b.cached : DocMatches(b.cached[i], id, names)

\* _all_key_requests_satisfied
AllSatisfied(b) == \A r \in b.requests : r.satisfied

-----------------------------------------------------------------------------
(***************************************************************************)
(* Requesting keys.                                                        *)
(***************************************************************************)
\* Variant: the request is satisfied but the cached key is not copied.
AddRequestUncopied(b, id, names, hit) ==
    [b EXCEPT !.requests =
        @ \cup {[id |-> id, names |-> names, satisfied |-> hit # {}]}]

(***************************************************************************)
(* A new request, tried against the cache at once                          *)
(* (_try_satisfying_from_cache).  "hit" is what the cache returned: no     *)
(* document, or the one that is copied to keys_cached.  Copying it resets  *)
(* the decryptor iterator, because _key_returned_prepend does.             *)
(***************************************************************************)
AddRequest(b, id, names, hit) ==
    LET req == [id |-> id, names |-> names, satisfied |-> hit # {}]
    IN  IF hit = {}
        THEN [b EXCEPT !.requests = @ \cup {req}]
        ELSE [b EXCEPT !.requests = @ \cup {req},
                       !.cached = Append(@, CHOOSE d \in hit : TRUE),
                       !.iter = Len(b.returned)]

\* _mongocrypt_key_broker_request_any
RequestAny(b) ==
    IF b.requests # {} THEN Fail(b)
    ELSE [b EXCEPT !.state = "ADDING_DOCS_ANY", !.any = TRUE]

\* _mongocrypt_key_broker_requests_done
RequestsDone(b) ==
    [b EXCEPT !.state = IF AllSatisfied(b) THEN "DONE" ELSE "ADDING_DOCS"]

\* Variant: empty ids are not left out.
FilterEmptyIds(b) ==
    LET open == {r \in b.requests : ~ r.satisfied}
    IN  IF b.filter # {} THEN b
        ELSE [b EXCEPT !.filter = {[ids   |-> {r.id : r \in open},
                                    names |-> UNION {r.names : r \in open}]}]

\* _mongocrypt_key_broker_filter: built once from the unsatisfied requests
Filter(b) ==
    LET open == {r \in b.requests : ~ r.satisfied}
    IN  IF b.filter # {} THEN b
        ELSE [b EXCEPT !.filter =
                {[ids   |-> {r.id : r \in {q \in open : q.id # NoId}},
                  names |-> UNION {r.names : r \in open}]}]

-----------------------------------------------------------------------------
(***************************************************************************)
(* Adding key documents (_mongocrypt_key_broker_add_doc).                  *)
(***************************************************************************)
\* The list entry of a document: a local key is decrypted at once, an Azure
\* or GCP key without a token waits for one, any other gets its KMS request.
NewEntry(doc, token) ==
    LET p == Provider[doc.kmsid]
        wait == p \in OAuthProviders /\ ~ token
    IN  [doc |-> doc, decrypted |-> p = "local", needsAuth |-> wait,
         kms |-> IF p = "local" \/ wait THEN KmsUnset ELSE KmsNew]

\* Variant: the search for an existing request is left out.
AuthRequestAlways(auth, entry) ==
    IF entry.needsAuth
    THEN Append(auth, [kmsid |-> entry.doc.kmsid, returned |-> FALSE,
                       kms |-> KmsNew, since |-> -1])
    ELSE auth

\* Create an oauth request if one does not exist.
WithAuthRequest(auth, entry) ==
    IF entry.needsAuth /\ \A i \in DOMAIN auth : auth[i].kmsid # entry.doc.kmsid
    THEN Append(auth, [kmsid |-> entry.doc.kmsid, returned |-> FALSE,
                       kms |-> KmsNew, since |-> -1])
    ELSE auth

\* Variant: the flag of a request that does not match is assigned as well.
MarkOnlyMatching(requests, doc) ==
    {[r EXCEPT !.satisfied = r.id = doc.id \/ r.names \cap doc.names # {}] :
        r \in requests}

\* Mark all matching key requests as satisfied.
MarkSatisfied(requests, doc) ==
    {IF r.names \cap doc.names # {}
     THEN [r EXCEPT !.satisfied = TRUE, !.id = doc.id]
     ELSE [r EXCEPT !.satisfied = @ \/ r.id = doc.id] : r \in requests}

\* Variant: the iterator is set for the first entry only.
PrependKeepsIter(b, entry) ==
    [b EXCEPT !.returned = Append(@, entry),
              !.iter = IF b.returned = <<>> THEN 1 ELSE @]

\* _key_returned_prepend to keys_returned
PrependReturned(b, entry) ==
    [b EXCEPT !.returned = Append(@, entry), !.iter = Len(b.returned) + 1]

\* Variant: a duplicate key is not rejected.
AcceptDuplicate(b, doc, token, valid) ==
    LET entry == NewEntry(doc, token)
        grown == PrependReturned(b, entry)
    IN  IF doc.kmsid \notin Configured \/ ~ valid THEN Fail(grown)
        ELSE [grown EXCEPT !.auth = WithAuthRequest(@, entry),
                           !.requests = MarkSatisfied(@, doc)]

(***************************************************************************)
(* The part of add_doc that follows the search for a matching request.     *)
(* "token" says that an access token is at hand, "valid" that the KMS      *)
(* request could be built (or the local key unwrapped).  The document is   *)
(* already in keys_returned when those are found to fail.                  *)
(***************************************************************************)
AcceptDoc(b, doc, token, valid) ==
    LET entry == NewEntry(doc, token)
        grown == PrependReturned(b, entry)
    IN  IF ReturnedMatches(b, doc.id, doc.names) # {} THEN Fail(b)
        ELSE IF doc.kmsid \notin Configured \/ ~ valid THEN Fail(grown)
        ELSE [grown EXCEPT !.auth = WithAuthRequest(@, entry),
                           !.requests = MarkSatisfied(@, doc)]

\* A document that does not parse sets the status and leaves the state alone.
RejectMalformed(b) == [b EXCEPT !.ok = FALSE]

\* _mongocrypt_key_broker_docs_done
DocsDone(b) ==
    IF ~ AllSatisfied(b) THEN Fail(b)
    ELSE [b EXCEPT !.state =
            IF \E i \in DOMAIN b.returned : b.returned[i].needsAuth
            THEN "AUTHENTICATING"
            ELSE IF \E i \in DOMAIN b.returned : ~ b.returned[i].decrypted
            THEN "DECRYPTING_KEY_MATERIAL"
            ELSE "DONE"]

-----------------------------------------------------------------------------
(***************************************************************************)
(* Handing out KMS contexts (_mongocrypt_key_broker_next_kms).  A context  *)
(* is named <<"auth", i>> or <<"key", i>>.                                 *)
(***************************************************************************)
\* Variant: should_retry is not looked at.
AuthNeverRetried(b) == {i \in DOMAIN b.auth : ~ b.auth[i].returned}

\* The auth requests to retry or not yet handed out
AuthToHandOut(b) ==
    {i \in DOMAIN b.auth : b.auth[i].kms.st = "retry" \/ ~ b.auth[i].returned}

KeysToRetry(b) == {i \in DOMAIN b.returned : b.returned[i].kms.st = "retry"}

\* The keys the iterator has still to reach
KeysAhead(b) == {i \in DOMAIN b.returned : i <= b.iter /\ ~ b.returned[i].decrypted}

\* The context handed out, as a set: none when next_kms returns NULL
NextKmsRef(b) ==
    IF b.state = "AUTHENTICATING"
    THEN {<<"auth", i>> : i \in {j \in AuthToHandOut(b) :
                                    \A k \in AuthToHandOut(b) : j <= k}}
    ELSE LET from == IF KeysToRetry(b) # {} THEN KeysToRetry(b) ELSE KeysAhead(b)
         IN  {<<"key", i>> : i \in {j \in from : \A k \in from : k <= j}}

\* The broker after next_kms
NextKms(b) ==
    IF b.state = "AUTHENTICATING"
    THEN IF b.auth = <<>> THEN Fail(b)
         ELSE [b EXCEPT !.auth =
                [i \in DOMAIN b.auth |->
                    IF <<"auth", i>> \in NextKmsRef(b)
                    THEN [b.auth[i] EXCEPT !.returned = TRUE, !.kms = KmsHandOut(@)]
                    ELSE b.auth[i]]]
    ELSE IF KeysToRetry(b) # {}
    THEN [b EXCEPT !.returned[ListFirst(KeysToRetry(b))].kms = KmsHandOut(@)]
    ELSE [b EXCEPT !.iter = IF KeysAhead(b) = {} THEN 0
                            ELSE ListFirst(KeysAhead(b)) - 1]

-----------------------------------------------------------------------------
(***************************************************************************)
(* _mongocrypt_key_broker_kms_done, cut where it takes the mutex of one of *)
(* the shared caches.  First the tokens of all the auth requests go to the *)
(* OAuth cache ("auth"), then every key that waited gets its KMS request   *)
(* ("rekey"); when decrypting, every key takes its result and goes to the  *)
(* key cache ("decrypt").                                                  *)
(***************************************************************************)
KmsDoneEnter(b) ==
    IF b.state = "AUTHENTICATING"
    THEN [b EXCEPT !.pc = "auth", !.idx = 1]
    ELSE [b EXCEPT !.pc = "decrypt", !.idx = Len(b.returned)]

\* The token of auth request b.idx has been cached at time now.
AuthApplied(b, now) ==
    LET kept == [b EXCEPT !.auth[b.idx].since = IF @ = -1 THEN now ELSE @]
    IN  IF b.idx < Len(b.auth)
        THEN [kept EXCEPT !.idx = @ + 1]
        ELSE [kept EXCEPT !.pc = "rekey", !.idx = Len(b.returned)]

\* Key b.idx has been seen by the loop that builds the remaining requests.
Rekeyed(b) ==
    LET seen == IF b.returned[b.idx].needsAuth
                THEN [b EXCEPT !.returned[b.idx] =
                        [@ EXCEPT !.needsAuth = FALSE, !.kms = KmsNew]]
                ELSE b
    IN  IF b.idx > 1 THEN [seen EXCEPT !.idx = @ - 1]
        ELSE [seen EXCEPT !.state = "DECRYPTING_KEY_MATERIAL",
                          !.pc = "idle", !.idx = 0]

\* An HTTP key that an earlier round decrypted is skipped.
SkipsKey(entry) == entry.decrypted /\ Provider[entry.doc.kmsid] \in HttpProviders

\* Key b.idx has its material.
Decrypted(b) ==
    LET seen == [b EXCEPT !.returned[b.idx].decrypted = TRUE]
    IN  IF b.idx > 1 THEN [seen EXCEPT !.idx = @ - 1]
        ELSE [seen EXCEPT !.state = "DONE", !.pc = "idle", !.idx = 0]

(***************************************************************************)
(* The material of a key is at hand: a local key's has been there since    *)
(* add_doc.  A KMS context waiting for a retry counts as finished but has  *)
(* an empty result, which is of the wrong length.                          *)
(***************************************************************************)
MaterialReady(entry) ==
    Provider[entry.doc.kmsid] = "local" \/ entry.kms.st = "done"

\* Variant: the filter is kept.
RestartKeepsFilter(b) == [b EXCEPT !.state = "REQUESTING"]

\* _mongocrypt_key_broker_restart
Restart(b) == [b EXCEPT !.state = "REQUESTING", !.filter = {}]
=============================================================================
