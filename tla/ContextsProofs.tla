--------------------------- MODULE ContextsProofs ---------------------------
(***************************************************************************)
(* Proofs about the contexts of one mongocrypt_t, for every set of         *)
(* contexts, of jobs, of documents in the key vault and of collections,    *)
(* and for every bound.                                                    *)
(*                                                                         *)
(* A context takes its being done with nothing to do from its key broker   *)
(* having no request.  The argument is therefore that the broker of a      *)
(* context with a ciphertext has a request from the first call to the      *)
(* last, through the restart for the second round of keys, through fed     *)
(* documents and KMS requests, and whatever the other contexts do to the   *)
(* shared caches.                                                          *)
(*                                                                         *)
(* The second theorem follows the requests to KMS of every context: one    *)
(* that is pending is with the driver, or the iterator that hands requests *)
(* out has yet to reach it.                                                *)
(***************************************************************************)
EXTENDS ContextsSys, FiniteSetTheorems, SequenceTheorems, Induction, TLAPS

-----------------------------------------------------------------------------
(***************************************************************************)
(* Sequences whose elements have no set.                                   *)
(***************************************************************************)
\* A sequence of something
Listed(s) == \E S : s \in Seq(S)

\* The domain of a sequence
LEMMA ListIs ==
    ASSUME NEW s, Listed(s)
    PROVE  Len(s) \in Nat /\ DOMAIN s = 1..Len(s) /\ IsFiniteSet(DOMAIN s)
<1>1. PICK S : s \in Seq(S)
  BY DEF Listed
<1>2. Len(s) \in Nat /\ DOMAIN s = 1..Len(s)
  BY <1>1, LenProperties
<1> QED
  BY <1>2, FS_Interval

\* A function on 1..n is a sequence.
LEMMA ListFrom ==
    ASSUME NEW n \in Nat, NEW f, f = [i \in 1..n |-> f[i]]
    PROVE  Listed(f) /\ Len(f) = n /\ DOMAIN f = 1..n
<1> DEFINE S == {f[i] : i \in 1..n}
<1>1. f \in [1..n -> S]
  <2>1. \A i \in 1..n : f[i] \in S
    OBVIOUS
  <2> HIDE DEF S
  <2> QED
    BY <2>1
<1>2. f \in Seq(S)
  <2>1. f \in UNION {[1..m -> S] : m \in Nat}
    <3> HIDE DEF S
    <3> QED
      BY <1>1
  <2> HIDE DEF S
  <2>2. Seq(S) = UNION {[1..m -> S] : m \in Nat}
    BY SeqDef
  <2> QED
    BY <2>1, <2>2
<1> HIDE DEF S
<1>3. Len(f) \in Nat /\ DOMAIN f = 1..Len(f) /\ DOMAIN f = 1..n
  BY <1>1, <1>2, LenProperties
<1>4. Len(f) = n
  BY <1>3
<1> QED
  BY <1>2, <1>3, <1>4 DEF Listed

\* A sequence one longer
LEMMA ListAppend ==
    ASSUME NEW s, Listed(s), NEW e, NEW t, t = Append(s, e)
    PROVE  /\ Listed(t) /\ Len(t) = Len(s) + 1 /\ t # <<>>
           /\ DOMAIN t = 1..(Len(s) + 1) /\ t[Len(s) + 1] = e
           /\ \A i \in 1..Len(s) : t[i] = s[i]
<1>1. PICK S : s \in Seq(S)
  BY DEF Listed
<1> DEFINE T == S \cup {e}
<1>2. s \in Seq(T) /\ e \in T
  BY <1>1, SeqMonotonic
<1> HIDE DEF T
<1>3. /\ t \in Seq(T) /\ Len(t) = Len(s) + 1
      /\ \A i \in 1..Len(s) : t[i] = s[i]
      /\ t[Len(s) + 1] = e
  BY <1>2, AppendProperties
<1>4. DOMAIN t = 1..(Len(s) + 1) /\ Len(s) \in Nat
  BY <1>2, <1>3, LenProperties
<1>5. t # <<>>
  BY <1>3, <1>4, EmptySeq
<1> QED
  BY <1>3, <1>4, <1>5 DEF Listed

\* One sequence behind another
LEMMA ListConcat ==
    ASSUME NEW s, Listed(s), NEW t, Listed(t)
    PROVE  Listed(s \o t)
<1>1. PICK S : s \in Seq(S)
  BY DEF Listed
<1>2. PICK T : t \in Seq(T)
  BY DEF Listed
<1>3. s \in Seq(S \cup T) /\ t \in Seq(S \cup T)
  BY <1>1, <1>2, SeqMonotonic
<1>4. s \o t \in Seq(S \cup T)
  BY <1>3, ConcatProperties
<1> QED
  BY <1>4 DEF Listed

\* A sequence from its end
LEMMA ListReverse ==
    ASSUME NEW s, Listed(s)
    PROVE  Listed(Reverse(s))
<1> DEFINE t == Reverse(s)
<1>1. Len(s) \in Nat
  BY ListIs
<1>2. t = [i \in 1..Len(s) |-> t[i]]
  BY DEF Reverse
<1> HIDE DEF t
<1>3. Listed(t)
  BY <1>1, <1>2, ListFrom
<1> QED
  BY <1>3 DEF t

-----------------------------------------------------------------------------
(***************************************************************************)
(* Asking for a set of keys.  RequestKeys folds RequestKey over the set:   *)
(* the function behind the fold exists for a finite set, and what one      *)
(* request keeps, all of them keep.                                        *)
(***************************************************************************)
\* The element a fold takes out of a set
Pick(s) == CHOOSE k \in s : TRUE

\* f is the fold for the sets in D.
Asks(g, x, f, D) ==
    /\ DOMAIN f = D /\ f = [s \in D |-> f[s]]
    /\ \A s \in D : f[s] = IF s = {} THEN x ELSE RequestKey(g, f[s \ {Pick(s)}], Pick(s))

\* The subsets with at most n elements
UpTo(keys, n) == {s \in SUBSET keys : Cardinality(s) <= n}

\* Taking an element out of a set
LEMMA PickOut ==
    ASSUME NEW keys, IsFiniteSet(keys), NEW n \in Nat, NEW s \in UpTo(keys, n), s # {}
    PROVE  /\ Pick(s) \in s /\ n # 0
           /\ s \ {Pick(s)} \in UpTo(keys, n - 1)
           /\ s \ {Pick(s)} \in UpTo(keys, n)
<1>1. s \subseteq keys /\ Cardinality(s) <= n
  BY DEF UpTo
<1>2. IsFiniteSet(s) /\ Cardinality(s) \in Nat
  BY <1>1, FS_Subset, FS_CardinalityType
<1>3. Pick(s) \in s
  BY DEF Pick
<1>4. Cardinality(s \ {Pick(s)}) = Cardinality(s) - 1 /\ s \ {Pick(s)} \subseteq keys
  BY <1>1, <1>2, <1>3, FS_RemoveElement
<1>5. Cardinality(s) # 0
  BY <1>2, FS_EmptySet
<1> QED
  BY <1>1, <1>2, <1>3, <1>4, <1>5 DEF UpTo

\* The fold for sets of one more element
LEMMA AsksMore ==
    ASSUME NEW g, NEW x, NEW keys, IsFiniteSet(keys), NEW n \in Nat, NEW f,
           Asks(g, x, f, UpTo(keys, n))
    PROVE  \E h : Asks(g, x, h, UpTo(keys, n + 1))
<1> DEFINE D == UpTo(keys, n)
           E == UpTo(keys, n + 1)
           h == [s \in E |-> IF s = {} THEN x ELSE RequestKey(g, f[s \ {Pick(s)}], Pick(s))]
<1>1. \A s \in D : f[s] = IF s = {} THEN x ELSE RequestKey(g, f[s \ {Pick(s)}], Pick(s))
  BY DEF Asks
<1>2. D \subseteq E
  <2> SUFFICES ASSUME NEW s \in D PROVE s \in E
    OBVIOUS
  <2>1. s \subseteq keys /\ Cardinality(s) <= n
    BY DEF UpTo
  <2>2. Cardinality(s) \in Nat
    BY <2>1, FS_Subset, FS_CardinalityType
  <2> QED
    BY <2>1, <2>2 DEF UpTo
<1>3. \A s \in E : h[s] = IF s = {} THEN x ELSE RequestKey(g, f[s \ {Pick(s)}], Pick(s))
  OBVIOUS
<1>4. DOMAIN h = E /\ h = [s \in E |-> h[s]]
  OBVIOUS
<1> HIDE DEF h
<1>5. \A s \in D : h[s] = f[s]
  BY <1>1, <1>2, <1>3
<1>6. ASSUME NEW s \in E
      PROVE  h[s] = IF s = {} THEN x ELSE RequestKey(g, h[s \ {Pick(s)}], Pick(s))
  <2>1. CASE s = {}
    BY <1>3, <2>1
  <2>2. CASE s # {}
    <3>1. n + 1 \in Nat /\ (n + 1) - 1 = n
      OBVIOUS
    <3>2. s \ {Pick(s)} \in D
      BY <2>2, <3>1, PickOut
    <3>3. h[s \ {Pick(s)}] = f[s \ {Pick(s)}]
      BY <1>5, <3>2
    <3> QED
      BY <1>3, <2>2, <3>3
  <2> QED
    BY <2>1, <2>2
<1> HIDE DEF E
<1>7. Asks(g, x, h, E)
  BY <1>4, <1>6 DEF Asks
<1> QED
  BY <1>7 DEF E

\* The fold exists for a finite set of keys.
LEMMA AsksExists ==
    ASSUME NEW g, NEW x, NEW keys, IsFiniteSet(keys)
    PROVE  \E f : Asks(g, x, f, SUBSET keys)
<1> DEFINE S == {n \in Nat : \E f : Asks(g, x, f, UpTo(keys, n))}
<1>1. 0 \in S
  <2> DEFINE f == [s \in UpTo(keys, 0) |-> x]
  <2>1. \A s \in UpTo(keys, 0) : s = {}
    BY PickOut
  <2>2. \A s \in UpTo(keys, 0) : f[s] = x
    OBVIOUS
  <2>3. DOMAIN f = UpTo(keys, 0) /\ f = [s \in UpTo(keys, 0) |-> f[s]]
    OBVIOUS
  <2> HIDE DEF f
  <2>4. Asks(g, x, f, UpTo(keys, 0))
    BY <2>1, <2>2, <2>3 DEF Asks
  <2> QED
    BY <2>4
<1>2. ASSUME NEW n \in Nat, n \in S PROVE n + 1 \in S
  BY <1>2, AsksMore
<1>3. Nat \subseteq S
  <2> HIDE DEF S
  <2> QED
    BY <1>1, <1>2, NatSetInduction
<1>4. Cardinality(keys) \in Nat
  BY FS_CardinalityType
<1>5. UpTo(keys, Cardinality(keys)) = SUBSET keys
  BY FS_Subset DEF UpTo
<1> QED
  BY <1>3, <1>4, <1>5

\* What RequestKeys is
LEMMA RequestKeysIs ==
    ASSUME NEW g, NEW x, NEW keys, IsFiniteSet(keys)
    PROVE  \E f : Asks(g, x, f, SUBSET keys) /\ RequestKeys(g, x, keys) = f[keys]
<1> DEFINE Fold(f) == f = [s \in SUBSET keys |-> IF s = {} THEN x
                              ELSE RequestKey(g, f[s \ {CHOOSE k \in s : TRUE}], CHOOSE k \in s : TRUE)]
           f == CHOOSE h : Fold(h)
<1>1. RequestKeys(g, x, keys) = f[keys]
  BY Zenon DEF RequestKeys, FoldSet, MapThenFoldSet
<1>2. PICK h : Asks(g, x, h, SUBSET keys)
  BY AsksExists
<1>3. Fold(h)
  <2>1. h = [s \in SUBSET keys |-> h[s]]
    BY <1>2 DEF Asks
  <2>2. \A s \in SUBSET keys : h[s] = IF s = {} THEN x ELSE RequestKey(g, h[s \ {Pick(s)}], Pick(s))
    BY <1>2 DEF Asks
  <2> QED
    BY <2>1, <2>2 DEF Pick
<1> HIDE DEF Fold
<1>4. Fold(f)
  BY <1>3, Zenon
<1> HIDE DEF f
<1>5. Asks(g, x, f, SUBSET keys)
  <2>1. DOMAIN f = SUBSET keys /\ f = [s \in SUBSET keys |-> f[s]]
    BY <1>4 DEF Fold
  <2>2. \A s \in SUBSET keys : f[s] = IF s = {} THEN x ELSE RequestKey(g, f[s \ {Pick(s)}], Pick(s))
    BY <1>4 DEF Fold, Pick
  <2> QED
    BY <2>1, <2>2 DEF Asks
<1> QED
  BY <1>1, <1>5

-----------------------------------------------------------------------------
(***************************************************************************)
(* What asking for keys changes in a context: its key broker has more      *)
(* requests, or the context has failed.                                    *)
(***************************************************************************)
CtxNames == {"kind", "state", "kb", "nothing_to_do", "out", "abort", "cmd", "sb", "ismaster",
             "maxwire", "bypass", "need_keys", "marked", "doc", "kek", "datakeys", "iter",
             "encrypting"}
KbNames == {"state", "ok", "any", "requests", "returned", "cached", "iter", "filter", "auth",
            "pc", "idx"}
Shape(x) == DOMAIN x = CtxNames /\ DOMAIN x.kb = KbNames

AskedMore(x, y) ==
    /\ Shape(y)
    /\ \A n \in CtxNames \ {"kb", "state"} : y[n] = x[n]
    /\ y.state \in {x.state, "ERROR"}
    /\ x.kb.state = "REQUESTING" => y.state = x.state
    /\ \A n \in KbNames \ {"requests", "cached", "iter"} : y.kb[n] = x.kb[n]
    /\ x.kb.requests \subseteq y.kb.requests
    /\ y.kb.iter \in {x.kb.iter, Len(x.kb.returned)}
    /\ Listed(x.kb.cached) => Listed(y.kb.cached)

\* A new context has its shape.
LEMMA NewShape == Shape(mongocrypt_ctx_new)
BY DEF Shape, CtxNames, KbNames, mongocrypt_ctx_new, NewBroker

\* A failed context
LEMMA FailShape ==
    ASSUME NEW x, Shape(x)
    PROVE  /\ Shape(CtxFail(x)) /\ CtxFail(x).state = "ERROR"
           /\ \A n \in CtxNames \ {"state"} : CtxFail(x)[n] = x[n]
BY DEF Shape, CtxNames, CtxFail

\* A context with another broker
LEMMA BrokerShape ==
    ASSUME NEW x, Shape(x), NEW kb, DOMAIN kb = KbNames, NEW y, y = [x EXCEPT !.kb = kb]
    PROVE  /\ Shape(y) /\ y.kb = kb
           /\ \A n \in CtxNames \ {"kb"} : y[n] = x[n]
BY DEF Shape, CtxNames

\* Adding a request to a broker
LEMMA RequestAdded ==
    ASSUME NEW b, DOMAIN b = KbNames, NEW id, NEW names, NEW hit, NEW n,
           n = AddRequest(b, id, names, hit)
    PROVE  /\ DOMAIN n = KbNames
           /\ \A f \in KbNames \ {"requests", "cached", "iter"} : n[f] = b[f]
           /\ b.requests \subseteq n.requests /\ n.requests # {}
           /\ n.iter \in {b.iter, Len(b.returned)}
           /\ Listed(b.cached) => Listed(n.cached)
<1> DEFINE req == [id |-> id, names |-> names, satisfied |-> hit # {}]
<1>1. CASE hit = {}
  <2>1. n = [b EXCEPT !.requests = @ \cup {req}]
    BY <1>1 DEF AddRequest
  <2> HIDE DEF req
  <2> QED
    BY <2>1 DEF KbNames
<1>2. CASE hit # {}
  <2> DEFINE more == Append(b.cached, CHOOSE d \in hit : TRUE)
  <2>1. n = [b EXCEPT !.requests = @ \cup {req}, !.cached = more, !.iter = Len(b.returned)]
    BY <1>2 DEF AddRequest
  <2>2. Listed(b.cached) => Listed(more)
    BY ListAppend
  <2> HIDE DEF req, more
  <2> QED
    BY <2>1, <2>2 DEF KbNames
<1> QED
  BY <1>1, <1>2

\* One request; there is one afterwards.
LEMMA RequestKeyKeeps ==
    ASSUME NEW g, NEW x, Shape(x), NEW key, NEW y, y = RequestKey(g, x, key)
    PROVE  /\ AskedMore(x, y)
           /\ x.kb.state = "REQUESTING" => y.kb.requests # {}
<1>1. CASE x.kb.state # "REQUESTING"
  <2>1. y = CtxFail(x)
    BY <1>1 DEF RequestKey
  <2> QED
    BY <1>1, <2>1, FailShape DEF AskedMore, CtxNames
<1>2. CASE x.kb.state = "REQUESTING" /\ RequestKnown(x.kb, key.id, key.names)
  <2>1. y = x /\ x.kb.requests # {}
    BY <1>2 DEF RequestKey, RequestKnown
  <2> QED
    BY <1>2, <2>1 DEF AskedMore
<1>3. CASE x.kb.state = "REQUESTING" /\ ~ RequestKnown(x.kb, key.id, key.names)
  <2> DEFINE kb == AddRequest(x.kb, key.id, key.names, CacheGet(g.keys, key, 0))
  <2>1. y = [x EXCEPT !.kb = kb]
    BY <1>3 DEF RequestKey
  <2>2. /\ DOMAIN kb = KbNames
        /\ \A f \in KbNames \ {"requests", "cached", "iter"} : kb[f] = x.kb[f]
        /\ x.kb.requests \subseteq kb.requests /\ kb.requests # {}
        /\ kb.iter \in {x.kb.iter, Len(x.kb.returned)}
        /\ Listed(x.kb.cached) => Listed(kb.cached)
    BY RequestAdded DEF Shape
  <2> HIDE DEF kb
  <2>3. Shape(y) /\ y.kb = kb /\ \A n \in CtxNames \ {"kb"} : y[n] = x[n]
    BY <2>1, <2>2, BrokerShape
  <2>4. y.state = x.state
    BY <2>3 DEF CtxNames
  <2> QED
    BY <1>3, <2>2, <2>3, <2>4 DEF AskedMore
<1> QED
  BY <1>1, <1>2, <1>3

\* Two requests in turn
LEMMA AskedTwice ==
    ASSUME NEW x, NEW y, NEW z, Shape(x), AskedMore(x, y), AskedMore(y, z)
    PROVE  AskedMore(x, z)
<1>1. y.kb.state = x.kb.state /\ y.kb.returned = x.kb.returned
  BY DEF AskedMore, KbNames
<1> QED
  BY <1>1 DEF AskedMore

\* All requests; there is one if there is a key to ask for.
LEMMA RequestKeysKeeps ==
    ASSUME NEW g, NEW x, Shape(x), NEW keys, IsFiniteSet(keys),
           NEW y, y = RequestKeys(g, x, keys)
    PROVE  /\ AskedMore(x, y)
           /\ x.kb.state = "REQUESTING" /\ keys # {} => y.kb.requests # {}
<1>1. PICK f : Asks(g, x, f, SUBSET keys) /\ y = f[keys]
  BY RequestKeysIs
<1> DEFINE Kept(s) == /\ AskedMore(x, f[s])
                      /\ x.kb.state = "REQUESTING" /\ s # {} => f[s].kb.requests # {}
           S == {n \in Nat : \A s \in UpTo(keys, n) : Kept(s)}
<1>0. f[{}] = x /\ Kept({})
  <2>1. f[{}] = x
    BY <1>1 DEF Asks
  <2> QED
    BY <2>1 DEF AskedMore
<1>2. 0 \in S
  <2>1. \A s \in UpTo(keys, 0) : s = {}
    BY PickOut
  <2> HIDE DEF Kept
  <2> QED
    BY <1>0, <2>1
<1>3. ASSUME NEW n \in Nat, n \in S PROVE n + 1 \in S
  <2> SUFFICES ASSUME NEW s \in UpTo(keys, n + 1), s # {} PROVE Kept(s)
    <3> HIDE DEF Kept
    <3> QED
      BY <1>0
  <2> DEFINE t == s \ {Pick(s)}
  <2>1. n + 1 \in Nat /\ (n + 1) - 1 = n
    OBVIOUS
  <2>2. t \in UpTo(keys, n)
    BY <2>1, PickOut
  <2>3. AskedMore(x, f[t])
    BY <1>3, <2>2
  <2>4. s \in SUBSET keys
    BY DEF UpTo
  <2>5. f[s] = RequestKey(g, f[t], Pick(s))
    BY <1>1, <2>4 DEF Asks
  <2> HIDE DEF t
  <2>6. Shape(f[t]) /\ f[t].kb.state = x.kb.state
    BY <2>3 DEF AskedMore, KbNames
  <2>7. /\ AskedMore(f[t], f[s])
        /\ x.kb.state = "REQUESTING" => f[s].kb.requests # {}
    BY <2>5, <2>6, RequestKeyKeeps
  <2> QED
    BY <2>3, <2>7, AskedTwice
<1>4. Nat \subseteq S
  <2> HIDE DEF S
  <2> QED
    BY <1>2, <1>3, NatSetInduction
<1>5. Cardinality(keys) \in Nat /\ keys \in UpTo(keys, Cardinality(keys))
  BY FS_CardinalityType DEF UpTo
<1>6. Kept(keys)
  <2> HIDE DEF Kept
  <2> QED
    BY <1>4, <1>5
<1> QED
  BY <1>1, <1>6

-----------------------------------------------------------------------------
(***************************************************************************)
(* A context that decrypts the document doc.  The heart of it: with a      *)
(* ciphertext in the document the broker has a request, so that the        *)
(* context never finds that there is nothing to do.                        *)
(***************************************************************************)
HasCiphertext(doc) == \E b \in doc : IsCiphertext(b)

Decrypting(x, doc) ==
    /\ Shape(x) /\ x.kind = "decrypt" /\ x.encrypting = FALSE /\ x.doc = doc
    /\ HasCiphertext(doc) => x.kb.requests # {} /\ ~ x.nothing_to_do

WorkStates == {"NEED_MONGO_KEYS", "NEED_KMS_CREDENTIALS", "NEED_KMS", "READY", "ERROR"}

\* A context that differs in its state and in its broker, which has requests if
\* it had some before
LEMMA DecryptingKept ==
    ASSUME NEW x, NEW doc, Decrypting(x, doc), NEW y, Shape(y),
           y.kind = x.kind, y.encrypting = x.encrypting, y.doc = x.doc,
           y.nothing_to_do = x.nothing_to_do, x.kb.requests # {} => y.kb.requests # {}
    PROVE  Decrypting(y, doc)
BY DEF Decrypting

\* The same for another broker
LEMMA DecryptingBroker ==
    ASSUME NEW x, NEW doc, Decrypting(x, doc), NEW kb, DOMAIN kb = KbNames,
           x.kb.requests # {} => kb.requests # {},
           NEW y, y = [x EXCEPT !.kb = kb]
    PROVE  /\ Decrypting(y, doc) /\ y.state = x.state /\ y.abort = x.abort
           /\ y.kb = kb /\ y.out = x.out
<1>1. Shape(y) /\ y.kb = kb /\ \A n \in CtxNames \ {"kb"} : y[n] = x[n]
  BY BrokerShape DEF Decrypting
<1>2. /\ y.kind = x.kind /\ y.encrypting = x.encrypting /\ y.doc = x.doc
      /\ y.nothing_to_do = x.nothing_to_do /\ y.state = x.state /\ y.abort = x.abort
      /\ y.out = x.out
  BY <1>1 DEF CtxNames
<1> QED
  BY <1>1, <1>2, DecryptingKept

\* The same for another state
LEMMA DecryptingState ==
    ASSUME NEW x, NEW doc, Decrypting(x, doc), NEW st, NEW y, y = [x EXCEPT !.state = st]
    PROVE  Decrypting(y, doc) /\ y.state = st /\ y.abort = x.abort /\ y.out = x.out
<1>1. DOMAIN x = CtxNames
  BY DEF Decrypting, Shape
<1>2. /\ DOMAIN y = CtxNames /\ y.kb = x.kb
      /\ y.kind = x.kind /\ y.encrypting = x.encrypting /\ y.doc = x.doc
      /\ y.nothing_to_do = x.nothing_to_do /\ y.state = st /\ y.abort = x.abort
      /\ y.out = x.out
  BY <1>1 DEF CtxNames
<1>3. Shape(y)
  BY <1>2 DEF Decrypting, Shape
<1> QED
  BY <1>2, <1>3, DecryptingKept

\* _mongocrypt_ctx_state_from_key_broker
LEMMA StateFromBroker ==
    ASSUME NEW g, NEW x, NEW doc, Decrypting(x, doc), NEW y, y = state_from_key_broker(g, x)
    PROVE  Decrypting(y, doc) /\ y.state \in WorkStates /\ y.abort = x.abort
<1>1. CASE x.state = "ERROR"
  BY <1>1 DEF state_from_key_broker, WorkStates
<1>2. CASE x.state # "ERROR"
  <2>1. CASE x.kb.state = "ADDING_DOCS"
    <3> DEFINE st == IF g.creds THEN "NEED_KMS_CREDENTIALS" ELSE "NEED_MONGO_KEYS"
    <3>1. y = [x EXCEPT !.state = st] /\ st \in WorkStates
      BY <1>2, <2>1 DEF state_from_key_broker, WorkStates
    <3> QED
      BY <3>1, DecryptingState
  <2>2. CASE x.kb.state = "ADDING_DOCS_ANY"
    <3>1. y = [x EXCEPT !.state = "NEED_MONGO_KEYS"] /\ "NEED_MONGO_KEYS" \in WorkStates
      BY <1>2, <2>2 DEF state_from_key_broker, WorkStates
    <3> QED
      BY <3>1, DecryptingState
  <2>3. CASE x.kb.state \in {"AUTHENTICATING", "DECRYPTING_KEY_MATERIAL"}
    <3>1. y = [x EXCEPT !.state = "NEED_KMS"] /\ "NEED_KMS" \in WorkStates
      BY <1>2, <2>3 DEF state_from_key_broker, WorkStates
    <3> QED
      BY <3>1, DecryptingState
  <2>4. CASE x.kb.state = "DONE"
    <3> DEFINE none == x.nothing_to_do \/ x.kb.requests = {}
    <3>1. y = [x EXCEPT !.state = "READY", !.nothing_to_do = none]
      BY <1>2, <2>4 DEF state_from_key_broker
    <3>2. HasCiphertext(doc) => ~ none
      BY DEF Decrypting
    <3> HIDE DEF none
    <3>3. DOMAIN x = CtxNames /\ DOMAIN x.kb = KbNames
      BY DEF Decrypting, Shape
    <3>4. /\ DOMAIN y = CtxNames /\ y.kb = x.kb
          /\ y.kind = x.kind /\ y.encrypting = x.encrypting /\ y.doc = x.doc
          /\ y.state = "READY" /\ y.nothing_to_do = none /\ y.abort = x.abort
      BY <3>1, <3>3 DEF CtxNames
    <3> QED
      BY <3>2, <3>3, <3>4 DEF Decrypting, Shape, WorkStates
  <2>5. CASE x.kb.state \notin {"ADDING_DOCS", "ADDING_DOCS_ANY", "AUTHENTICATING",
                                "DECRYPTING_KEY_MATERIAL", "DONE"}
    <3>1. y = [x EXCEPT !.state = "ERROR"] /\ "ERROR" \in WorkStates
      BY <1>2, <2>5 DEF state_from_key_broker, CtxFail, WorkStates
    <3> QED
      BY <3>1, DecryptingState
  <2> QED
    BY <2>1, <2>2, <2>3, <2>4, <2>5
<1> QED
  BY <1>1, <1>2

\* requests_done, docs_done and a restart of the broker leave its requests.
LEMMA BrokerCallsKeep ==
    ASSUME NEW b, DOMAIN b = KbNames
    PROVE  /\ DOMAIN RequestsDone(b) = KbNames /\ RequestsDone(b).requests = b.requests
           /\ DOMAIN DocsDone(b) = KbNames /\ DocsDone(b).requests = b.requests
           /\ DOMAIN Restart(b) = KbNames /\ Restart(b).requests = b.requests
           /\ Restart(b).state = "REQUESTING"
           /\ DOMAIN Fail(b) = KbNames /\ Fail(b).requests = b.requests
           /\ DOMAIN Filter(b) = KbNames /\ Filter(b).requests = b.requests
<1>1. DOMAIN RequestsDone(b) = KbNames /\ RequestsDone(b).requests = b.requests
  BY DEF RequestsDone, KbNames
<1>2. DOMAIN Fail(b) = KbNames /\ Fail(b).requests = b.requests
  BY DEF Fail, KbNames
<1>3. DOMAIN DocsDone(b) = KbNames /\ DocsDone(b).requests = b.requests
  BY <1>2 DEF DocsDone, KbNames
<1>4. DOMAIN Restart(b) = KbNames /\ Restart(b).requests = b.requests
      /\ Restart(b).state = "REQUESTING"
  BY DEF Restart, KbNames
<1>5. DOMAIN Filter(b) = KbNames /\ Filter(b).requests = b.requests
  BY DEF Filter, KbNames
<1> QED
  BY <1>1, <1>2, <1>3, <1>4, <1>5

\* The image of a finite set of values
LEMMA KeysFinite ==
    ASSUME NEW doc, IsFiniteSet(doc), NEW x, x.doc = doc
    PROVE  /\ IsFiniteSet({ById(FirstKey(b)) : b \in Ciphertexts(x)})
           /\ IsFiniteSet({ById(b.key) : b \in {c \in Ciphertexts(x) : c.kind = "iev"}})
<1>1. ASSUME NEW S, S \subseteq doc, NEW f, NEW T, T = {f[b] : b \in S}, f = [b \in S |-> f[b]]
      PROVE  IsFiniteSet(T)
  <2>1. f \in Surjection(S, T)
    BY <1>1 DEF Surjection
  <2>2. IsFiniteSet(S)
    BY <1>1, FS_Subset
  <2> QED
    BY <2>1, <2>2, FS_Surjection
<1>2. IsFiniteSet({ById(FirstKey(b)) : b \in Ciphertexts(x)})
  <2> DEFINE S == Ciphertexts(x)
             f == [b \in S |-> ById(FirstKey(b))]
  <2>1. S \subseteq doc
    BY DEF Ciphertexts
  <2> HIDE DEF S
  <2>2. {ById(FirstKey(b)) : b \in S} = {f[b] : b \in S} /\ f = [b \in S |-> f[b]]
    OBVIOUS
  <2> HIDE DEF f
  <2> QED
    BY <1>1, <2>1, <2>2 DEF S
<1>3. IsFiniteSet({ById(b.key) : b \in {c \in Ciphertexts(x) : c.kind = "iev"}})
  <2> DEFINE S == {c \in Ciphertexts(x) : c.kind = "iev"}
             f == [b \in S |-> ById(b.key)]
             T == {ById(b.key) : b \in S}
  <2>1. S \subseteq doc
    BY DEF Ciphertexts
  <2> HIDE DEF S
  <2>2. T = {f[b] : b \in S} /\ f = [b \in S |-> f[b]]
    OBVIOUS
  <2> HIDE DEF f, T
  <2>3. IsFiniteSet(T)
    BY <1>1, <2>1, <2>2
  <2> QED
    BY <2>3 DEF S, T
<1> QED
  BY <1>2, <1>3

\* The round for the keys of indexed values
LEMMA CheckKeeps ==
    ASSUME NEW g, NEW x, NEW doc, IsFiniteSet(doc), Decrypting(x, doc),
           NEW y, y = check_for_K_KeyId(g, x)
    PROVE  Decrypting(y, doc) /\ y.state \in {x.state, "ERROR"} /\ y.abort = x.abort
<1> DEFINE indexed == {b \in Ciphertexts(x) : b.kind = "iev"}
           keys == {ById(b.key) : b \in indexed}
           r == [x EXCEPT !.kb = Restart(@)]
           asked == RequestKeys(g, r, keys)
<1>1. CASE x.kb.state # "DONE"
  BY <1>1 DEF check_for_K_KeyId
<1>2. CASE x.kb.state = "DONE"
  <2>1. \/ y = CtxFail(r) \/ y = asked \/ y = KbRequestsDone(asked)
    BY <1>2 DEF check_for_K_KeyId
  <2>2. DOMAIN Restart(x.kb) = KbNames /\ Restart(x.kb).requests = x.kb.requests
    BY BrokerCallsKeep DEF Decrypting, Shape
  <2>3. r = [x EXCEPT !.kb = Restart(x.kb)]
    OBVIOUS
  <2>4. Decrypting(r, doc) /\ r.state = x.state /\ r.abort = x.abort
    BY <2>2, <2>3, DecryptingBroker
  <2>5. IsFiniteSet(keys)
    <3>1. x.doc = doc
      BY DEF Decrypting
    <3> QED
      BY <3>1, KeysFinite
  <2> HIDE DEF keys, r, indexed
  <2>6. AskedMore(r, asked) /\ Shape(r)
    BY <2>4, <2>5, RequestKeysKeeps DEF Decrypting
  <2> HIDE DEF asked
  <2>7. Decrypting(asked, doc) /\ asked.state \in {x.state, "ERROR"} /\ asked.abort = x.abort
    <3>1. /\ asked.kind = r.kind /\ asked.encrypting = r.encrypting /\ asked.doc = r.doc
          /\ asked.nothing_to_do = r.nothing_to_do /\ asked.abort = r.abort
          /\ r.kb.requests \subseteq asked.kb.requests /\ Shape(asked)
          /\ asked.state \in {r.state, "ERROR"}
      BY <2>6 DEF AskedMore, CtxNames
    <3>2. r.kb.requests # {} => asked.kb.requests # {}
      BY <3>1
    <3> QED
      BY <2>4, <3>1, <3>2, DecryptingKept
  <2>8. CASE y = CtxFail(r)
    BY <2>4, <2>8, DecryptingState DEF CtxFail
  <2>9. CASE y = KbRequestsDone(asked)
    <3>1. DOMAIN asked.kb = KbNames
      BY <2>7 DEF Decrypting, Shape
    <3>2. y = [asked EXCEPT !.kb = RequestsDone(asked.kb)]
      BY <2>9 DEF KbRequestsDone
    <3> QED
      BY <2>7, <3>1, <3>2, BrokerCallsKeep, DecryptingBroker
  <2> QED
    BY <2>1, <2>7, <2>8, <2>9
<1> QED
  BY <1>1, <1>2

\* The same with the state that follows, of a context that has not stopped
LEMMA CheckThenState ==
    ASSUME NEW g, NEW x, NEW doc, IsFiniteSet(doc), Decrypting(x, doc), ~ x.abort,
           NEW y, y = WithState(g, check_for_K_KeyId(g, x))
    PROVE  Decrypting(y, doc) /\ y.state \in WorkStates
<1> DEFINE z == check_for_K_KeyId(g, x)
<1>1. Decrypting(z, doc) /\ ~ z.abort
  BY CheckKeeps
<1> HIDE DEF z
<1>2. y = IF Stopped(z) THEN z ELSE state_from_key_broker(g, z)
  BY DEF WithState, z
<1>3. CASE Stopped(z)
  BY <1>1, <1>2, <1>3 DEF Stopped, WorkStates
<1>4. CASE ~ Stopped(z)
  BY <1>1, <1>2, <1>4, StateFromBroker
<1> QED
  BY <1>3, <1>4

-----------------------------------------------------------------------------
(***************************************************************************)
(* The calls of a context that decrypts.                                   *)
(***************************************************************************)
\* mongocrypt_ctx_decrypt_init
LEMMA DecryptInitKeeps ==
    ASSUME NEW g, NEW doc, IsFiniteSet(doc), NEW y, y = decrypt_init(g, doc)
    PROVE  Decrypting(y, doc) /\ y.state \in WorkStates
<1> DEFINE new == mongocrypt_ctx_new
           x == [new EXCEPT !.kind = "decrypt", !.doc = doc]
           keys == {ById(FirstKey(b)) : b \in Ciphertexts(x)}
           asked == RequestKeys(g, x, keys)
           done == KbRequestsDone(asked)
<1>1. y = WithState(g, check_for_K_KeyId(g, done))
  BY DEF decrypt_init
<1>2. Shape(new) /\ new.kb.state = "REQUESTING" /\ new.encrypting = FALSE
      /\ new.nothing_to_do = FALSE /\ new.abort = FALSE
  BY NewShape DEF mongocrypt_ctx_new, NewBroker
<1> HIDE DEF new
<1>3. /\ DOMAIN x = CtxNames /\ x.kb = new.kb /\ x.kind = "decrypt" /\ x.doc = doc
      /\ x.encrypting = FALSE /\ x.nothing_to_do = FALSE /\ x.abort = FALSE
  BY <1>2 DEF Shape, CtxNames
<1> HIDE DEF x
<1>4. Shape(x) /\ x.kb.state = "REQUESTING"
  BY <1>2, <1>3 DEF Shape
<1>5. IsFiniteSet(keys)
  BY <1>3, KeysFinite
<1>6. HasCiphertext(doc) => keys # {}
  BY <1>3 DEF HasCiphertext, Ciphertexts
<1> HIDE DEF keys
<1>7. AskedMore(x, asked) /\ (keys # {} => asked.kb.requests # {})
  BY <1>4, <1>5, RequestKeysKeeps
<1> HIDE DEF asked
<1>8. /\ Shape(asked) /\ asked.kind = "decrypt" /\ asked.doc = doc /\ asked.encrypting = FALSE
      /\ asked.nothing_to_do = FALSE /\ asked.abort = FALSE
  BY <1>3, <1>7 DEF AskedMore, CtxNames
<1>9. Decrypting(asked, doc)
  BY <1>6, <1>7, <1>8 DEF Decrypting
<1>10. Decrypting(done, doc) /\ done.abort = FALSE
  <2>1. done = [asked EXCEPT !.kb = RequestsDone(asked.kb)]
    BY DEF KbRequestsDone
  <2>2. DOMAIN asked.kb = KbNames
    BY <1>8 DEF Shape
  <2> HIDE DEF done
  <2> QED
    BY <1>8, <1>9, <2>1, <2>2, BrokerCallsKeep, DecryptingBroker
<1> HIDE DEF done
<1> QED
  BY <1>1, <1>10, CheckThenState

\* The broker of a context that is fed a key document
LEMMA FedBroker ==
    ASSUME NEW b, DOMAIN b = KbNames, NEW item, NEW token, NEW valid,
           NEW n, n = AcceptDoc(b, item, token, valid)
    PROVE  DOMAIN n = KbNames /\ (b.requests # {} => n.requests # {})
<1> DEFINE entry == NewEntry(item, token)
           grown == PrependReturned(b, entry)
<1>1. DOMAIN grown = KbNames /\ grown.requests = b.requests
  BY DEF PrependReturned, KbNames
<1>2. \/ n = Fail(b) \/ n = Fail(grown)
      \/ n = [grown EXCEPT !.auth = WithAuthRequest(@, entry), !.requests = MarkSatisfied(@, item)]
  BY DEF AcceptDoc
<1> HIDE DEF grown, entry
<1>3. CASE n = Fail(b) \/ n = Fail(grown)
  BY <1>1, <1>3, BrokerCallsKeep
<1>4. CASE n = [grown EXCEPT !.auth = WithAuthRequest(@, entry),
                             !.requests = MarkSatisfied(@, item)]
  <2>1. DOMAIN n = KbNames /\ n.requests = MarkSatisfied(b.requests, item)
    BY <1>1, <1>4 DEF KbNames
  <2>2. b.requests # {} => MarkSatisfied(b.requests, item) # {}
    BY DEF MarkSatisfied
  <2> QED
    BY <2>1, <2>2
<1> QED
  BY <1>2, <1>3, <1>4

\* _mongo_feed_keys
LEMMA FeedKeysKeeps ==
    ASSUME NEW g, NEW x, NEW doc, Decrypting(x, doc), NEW item, NEW valid,
           NEW y, y = mongo_feed_keys(g, x, item, valid)
    PROVE  Decrypting(y, doc) /\ y.state \in {x.state, "ERROR"}
<1> DEFINE known == RequestKnown(x.kb, item.id, item.names)
           hit == CacheGet(g.keys, item, 0)
           added == AddRequest(x.kb, item.id, item.names, hit)
           asked == IF known THEN x.kb ELSE added
           taken == AcceptDoc(asked, item, TokenAtHand(g, item.kmsid), valid)
           kb == IF x.kb.state = "ADDING_DOCS_ANY" /\ ~ known /\ hit # {} THEN asked
                 ELSE IF x.kb.state = "ADDING_DOCS" /\ ~ known THEN Fail(x.kb) ELSE taken
<1>1. y = IF kb.ok THEN [x EXCEPT !.kb = kb] ELSE CtxFail([x EXCEPT !.kb = kb])
  BY DEF mongo_feed_keys
<1>2. DOMAIN x.kb = KbNames
  BY DEF Decrypting, Shape
<1>3. DOMAIN added = KbNames /\ added.requests # {}
  BY <1>2, RequestAdded
<1> HIDE DEF added
<1>4. DOMAIN asked = KbNames /\ (x.kb.requests # {} => asked.requests # {})
  BY <1>2, <1>3
<1> HIDE DEF asked
<1>5. DOMAIN taken = KbNames /\ (x.kb.requests # {} => taken.requests # {})
  BY <1>4, FedBroker
<1> HIDE DEF taken
<1>6. DOMAIN kb = KbNames /\ (x.kb.requests # {} => kb.requests # {})
  BY <1>2, <1>4, <1>5, BrokerCallsKeep
<1> HIDE DEF kb
<1> DEFINE z == [x EXCEPT !.kb = kb]
<1>7. Decrypting(z, doc) /\ z.state = x.state
  BY <1>6, DecryptingBroker
<1> HIDE DEF z
<1>8. Decrypting(CtxFail(z), doc) /\ CtxFail(z).state = "ERROR"
  BY <1>7, DecryptingState DEF CtxFail
<1>9. y = z \/ y = CtxFail(z)
  BY <1>1 DEF z
<1> QED
  BY <1>7, <1>8, <1>9

\* mongocrypt_ctx_mongo_done for the keys
LEMMA DocsDoneKeeps ==
    ASSUME NEW g, NEW x, NEW doc, IsFiniteSet(doc), Decrypting(x, doc), ~ x.abort,
           NEW y, y = decrypt_mongo_done_keys(g, x)
    PROVE  Decrypting(y, doc) /\ y.state \in WorkStates
<1> DEFINE z == KbDocsDone(x)
<1>1. z = [x EXCEPT !.kb = DocsDone(x.kb)]
  BY DEF KbDocsDone
<1>2. DOMAIN x.kb = KbNames
  BY DEF Decrypting, Shape
<1> HIDE DEF z
<1>3. Decrypting(z, doc) /\ ~ z.abort
  BY <1>1, <1>2, BrokerCallsKeep, DecryptingBroker
<1>4. y = WithState(g, check_for_K_KeyId(g, z))
  BY DEF decrypt_mongo_done_keys, z
<1> QED
  BY <1>3, <1>4, CheckThenState

\* _mongocrypt_key_broker_kms_done
LEMMA KbKmsDoneKeeps ==
    ASSUME NEW x, NEW doc, Decrypting(x, doc), NEW y, y = KbKmsDone(x)
    PROVE  Decrypting(y, doc) /\ y.state \in {x.state, "ERROR"}
<1>1. DOMAIN x.kb = KbNames /\ DOMAIN x = CtxNames
  BY DEF Decrypting, Shape
<1> DEFINE rekeyed == [i \in DOMAIN x.kb.returned |->
              IF x.kb.returned[i].needsAuth
              THEN [x.kb.returned[i] EXCEPT !.needsAuth = FALSE, !.kms = KmsNew]
              ELSE x.kb.returned[i]]
           open == [x.kb EXCEPT !.returned = rekeyed, !.state = "DECRYPTING_KEY_MATERIAL"]
           decrypted == [i \in DOMAIN x.kb.returned |->
              [x.kb.returned[i] EXCEPT !.decrypted = TRUE]]
           full == [x.kb EXCEPT !.state = "DONE", !.returned = decrypted]
           failed == [x EXCEPT !.kb = Fail(x.kb)]
<1>2. \/ y = CtxAbort(x) \/ y = CtxFail(failed)
      \/ y = [x EXCEPT !.kb = open] \/ y = [x EXCEPT !.kb = full]
  <2> DEFINE auths == {x.kb.auth[i].kms.st : i \in DOMAIN x.kb.auth}
             ready == \A i \in DOMAIN x.kb.returned :
                        SkipsKey(x.kb.returned[i]) \/ MaterialReady(x.kb.returned[i])
  <2>1. y = IF x.kb.state = "AUTHENTICATING"
            THEN IF "retry" \in auths THEN CtxAbort(x)
                 ELSE IF auths # {"done"} THEN CtxFail(failed)
                 ELSE [x EXCEPT !.kb = open]
            ELSE IF ~ ready THEN CtxFail(failed)
            ELSE [x EXCEPT !.kb = full]
    BY DEF KbKmsDone
  <2> HIDE DEF auths, ready, open, full, failed
  <2> QED
    BY <2>1
<1>3. DOMAIN open = KbNames /\ open.requests = x.kb.requests
  <2> HIDE DEF rekeyed
  <2> QED
    BY <1>1 DEF KbNames
<1>4. DOMAIN full = KbNames /\ full.requests = x.kb.requests
  <2> HIDE DEF decrypted
  <2> QED
    BY <1>1 DEF KbNames
<1> HIDE DEF open, full
<1>5. CASE y = [x EXCEPT !.kb = open] \/ y = [x EXCEPT !.kb = full]
  BY <1>3, <1>4, <1>5, DecryptingBroker
<1>6. CASE y = CtxFail(failed)
  <2>1. Decrypting(failed, doc)
    BY <1>1, BrokerCallsKeep, DecryptingBroker
  <2> HIDE DEF failed
  <2> QED
    BY <1>6, <2>1, DecryptingState DEF CtxFail
<1>7. CASE y = CtxAbort(x)
  <2>1. y = [x EXCEPT !.abort = TRUE]
    BY <1>7 DEF CtxAbort
  <2>2. /\ DOMAIN y = CtxNames /\ y.kb = x.kb
        /\ y.kind = x.kind /\ y.encrypting = x.encrypting /\ y.doc = x.doc
        /\ y.nothing_to_do = x.nothing_to_do /\ y.state = x.state
    BY <1>1, <2>1 DEF CtxNames
  <2>3. Shape(y)
    BY <1>1, <2>2 DEF Shape
  <2> QED
    BY <2>2, <2>3, DecryptingKept
<1> QED
  BY <1>2, <1>5, <1>6, <1>7

\* mongocrypt_ctx_kms_done
LEMMA DecryptKmsDoneKeeps ==
    ASSUME NEW g, NEW x, NEW doc, IsFiniteSet(doc), Decrypting(x, doc),
           x.state \in WorkStates, NEW y, y = decrypt_kms_done(g, x)
    PROVE  Decrypting(y, doc) /\ y.state \in WorkStates
<1> DEFINE z == KbKmsDone(x)
<1>1. Decrypting(z, doc) /\ z.state \in WorkStates
  BY KbKmsDoneKeeps DEF WorkStates
<1> HIDE DEF z
<1>2. y = IF Stopped(z) THEN z ELSE WithState(g, check_for_K_KeyId(g, z))
  BY DEF decrypt_kms_done, z
<1>3. CASE Stopped(z)
  BY <1>1, <1>2, <1>3
<1>4. CASE ~ Stopped(z)
  <2>1. ~ z.abort
    BY <1>4 DEF Stopped
  <2> QED
    BY <1>1, <1>2, <1>4, <2>1, CheckThenState
<1> QED
  BY <1>3, <1>4

\* _mongocrypt_key_broker_next_kms
LEMMA NextKmsKeeps ==
    ASSUME NEW b, DOMAIN b = KbNames
    PROVE  DOMAIN NextKms(b) = KbNames /\ NextKms(b).requests = b.requests
<1>1. CASE b.state = "AUTHENTICATING"
  <2> DEFINE a == [i \in DOMAIN b.auth |->
                    IF <<"auth", i>> \in NextKmsRef(b)
                    THEN [b.auth[i] EXCEPT !.returned = TRUE, !.kms = KmsHandOut(@)]
                    ELSE b.auth[i]]
  <2>1. NextKms(b) = Fail(b) \/ NextKms(b) = [b EXCEPT !.auth = a]
    BY <1>1 DEF NextKms
  <2> HIDE DEF a
  <2> QED
    BY <2>1, BrokerCallsKeep DEF KbNames
<1>2. CASE b.state # "AUTHENTICATING" /\ KeysToRetry(b) # {}
  <2> DEFINE at == ListFirst(KeysToRetry(b))
  <2>1. NextKms(b) = [b EXCEPT !.returned[at].kms = KmsHandOut(@)]
    BY <1>2 DEF NextKms
  <2> HIDE DEF at
  <2> QED
    BY <2>1 DEF KbNames
<1>3. CASE b.state # "AUTHENTICATING" /\ KeysToRetry(b) = {}
  <2> DEFINE at == IF KeysAhead(b) = {} THEN 0 ELSE ListFirst(KeysAhead(b)) - 1
  <2>1. NextKms(b) = [b EXCEPT !.iter = at]
    BY <1>3 DEF NextKms
  <2> HIDE DEF at
  <2> QED
    BY <2>1 DEF KbNames
<1> QED
  BY <1>1, <1>2, <1>3

\* A KMS context that has been fed
LEMMA WithRequestKeeps ==
    ASSUME NEW x, NEW doc, Decrypting(x, doc), NEW ref, ref[1] \in {"auth", "key", "sub"},
           NEW kms, NEW y, y = WithRequest(x, ref, kms)
    PROVE  Decrypting(y, doc) /\ y.state = x.state
<1>1. DOMAIN x.kb = KbNames /\ DOMAIN x = CtxNames
  BY DEF Decrypting, Shape
<1>2. CASE ref[1] = "auth"
  <2> DEFINE kb == [x.kb EXCEPT !.auth[ref[2]].kms = kms]
  <2>1. y = [x EXCEPT !.kb = kb]
    BY <1>2 DEF WithRequest
  <2>2. DOMAIN kb = KbNames /\ kb.requests = x.kb.requests
    BY <1>1 DEF KbNames
  <2> HIDE DEF kb
  <2> QED
    BY <2>1, <2>2, DecryptingBroker
<1>3. CASE ref[1] = "key"
  <2> DEFINE kb == [x.kb EXCEPT !.returned[ref[2]].kms = kms]
  <2>1. y = [x EXCEPT !.kb = kb]
    BY <1>3 DEF WithRequest
  <2>2. DOMAIN kb = KbNames /\ kb.requests = x.kb.requests
    BY <1>1 DEF KbNames
  <2> HIDE DEF kb
  <2> QED
    BY <2>1, <2>2, DecryptingBroker
<1>4. CASE ref[1] = "sub"
  <2> DEFINE subs == [x.datakeys EXCEPT ![ref[2]].dk.kms = kms]
  <2>1. y = [x EXCEPT !.datakeys = subs]
    BY <1>4 DEF WithRequest
  <2> HIDE DEF subs
  <2>2. /\ DOMAIN y = CtxNames /\ y.kb = x.kb
        /\ y.kind = x.kind /\ y.encrypting = x.encrypting /\ y.doc = x.doc
        /\ y.nothing_to_do = x.nothing_to_do /\ y.state = x.state
    BY <1>1, <2>1 DEF CtxNames
  <2>3. Shape(y)
    BY <1>1, <2>2 DEF Shape
  <2> QED
    BY <2>2, <2>3, DecryptingKept
<1> QED
  BY <1>2, <1>3, <1>4

\* mongocrypt_ctx_finalize: all ciphertexts are decrypted, or none was there.
LEMMA DecryptFinalizeKeeps ==
    ASSUME NEW x, NEW doc, Decrypting(x, doc), NEW y, y = decrypt_finalize(x)
    PROVE  \/ y.state = "ERROR"
           \/ /\ Decrypting(y, doc) /\ y.state = "DONE"
              /\ y.out = <<{b \in doc : IsCiphertext(b)}>>
<1>1. DOMAIN x.kb = KbNames /\ DOMAIN x = CtxNames /\ x.doc = doc
  BY DEF Decrypting, Shape
<1>2. Ciphertexts(x) = {b \in doc : IsCiphertext(b)}
  BY <1>1 DEF Ciphertexts
<1>3. x.nothing_to_do => {} = Ciphertexts(x)
  BY <1>2 DEF Decrypting, HasCiphertext
<1> DEFINE all == <<Ciphertexts(x)>>
<1>4. y = CtxFail(x) \/ y = [x EXCEPT !.state = "DONE", !.out = all]
  BY <1>3 DEF decrypt_finalize
<1>5. CASE y = CtxFail(x)
  BY <1>1, <1>5 DEF CtxFail, CtxNames
<1>6. CASE y = [x EXCEPT !.state = "DONE", !.out = all]
  <2> HIDE DEF all
  <2>1. /\ DOMAIN y = CtxNames /\ y.kb = x.kb
        /\ y.kind = x.kind /\ y.encrypting = x.encrypting /\ y.doc = x.doc
        /\ y.nothing_to_do = x.nothing_to_do /\ y.state = "DONE" /\ y.out = all
    BY <1>1, <1>6 DEF CtxNames
  <2>2. Shape(y)
    BY <1>1, <2>1 DEF Shape
  <2> QED
    BY <1>2, <2>1, <2>2, DecryptingKept DEF all
<1> QED
  BY <1>4, <1>5, <1>6

-----------------------------------------------------------------------------
(***************************************************************************)
(* The invariant: where a context that decrypts is, for every context its  *)
(* driver has started.                                                     *)
(***************************************************************************)
DrvNames == {"started", "asked", "batch", "held", "drained"}
RefKinds == {"auth", "key", "sub"}
DriverOK(d) == DOMAIN d = DrvNames /\ \A ref \in d.held : ref[1] \in RefKinds

Decrypts(job) == job.kind \in {"decrypt", "explicit"}
Good(x, doc) ==
    \/ x.state = "ERROR"
    \/ Decrypting(x, doc) /\ x.state \in WorkStates
    \/ Decrypting(x, doc) /\ x.state = "DONE" /\ x.out = <<{b \in doc : IsCiphertext(b)}>>

DecryptInv ==
    /\ \E s \in Scenarios : jobs = s.jobs
    /\ DOMAIN ctx = Ctxs /\ DOMAIN drv = Ctxs
    /\ \A c \in Ctxs : DriverOK(drv[c])
    /\ \A c \in Ctxs : drv[c].started /\ Decrypts(jobs[c]) => Good(ctx[c], jobs[c].doc)

\* The documents of jobs are finite; an explicit decryption is of one value.
LEMMA JobDocs ==
    ASSUME DecryptInv, NEW c \in Ctxs
    PROVE  /\ IsFiniteSet(jobs[c].doc)
           /\ jobs[c].kind = "explicit" => \E b \in jobs[c].doc : jobs[c].doc = {b}
BY ContextsAssumption DEF DecryptInv

\* A driver's step changes its own context and driver only.
LEMMA StepKeeps ==
    ASSUME DecryptInv, NEW c \in Ctxs, NEW y, NEW d,
           jobs' = jobs, ctx' = [ctx EXCEPT ![c] = y], drv' = [drv EXCEPT ![c] = d],
           DriverOK(d), Decrypts(jobs[c]) => Good(y, jobs[c].doc)
    PROVE  DecryptInv'
<1>1. DOMAIN ctx = Ctxs /\ DOMAIN drv = Ctxs
  BY DEF DecryptInv
<1>2. DOMAIN ctx' = Ctxs /\ DOMAIN drv' = Ctxs /\ ctx'[c] = y /\ drv'[c] = d
  BY <1>1
<1>3. \A e \in Ctxs \ {c} : ctx'[e] = ctx[e] /\ drv'[e] = drv[e]
  BY <1>1
<1>4. \A e \in Ctxs : DriverOK(drv'[e])
  BY <1>2, <1>3 DEF DecryptInv
<1>5. \A e \in Ctxs : drv'[e].started /\ Decrypts(jobs[e]) => Good(ctx'[e], jobs[e].doc)
  BY <1>2, <1>3 DEF DecryptInv
<1>6. \E s \in Scenarios : jobs' = s.jobs
  BY DEF DecryptInv
<1>7. /\ (\A e \in Ctxs : DriverOK(drv[e]))'
      /\ (\A e \in Ctxs : drv[e].started /\ Decrypts(jobs[e]) => Good(ctx[e], jobs[e].doc))'
  BY <1>4, <1>5 DEF DriverOK, Decrypts, Good
<1> QED
  BY <1>2, <1>6, <1>7 DEF DecryptInv

\* A driver at the start of its loop
LEMMA MovesKeeps ==
    ASSUME DecryptInv, NEW c \in Ctxs, NEW y, jobs' = jobs, Moves(c, y),
           Decrypts(jobs[c]) => Good(y, jobs[c].doc)
    PROVE  DecryptInv'
<1>1. DriverOK(Idle)
  BY DEF DriverOK, DrvNames, Idle, NewDriver
<1> QED
  BY <1>1, StepKeeps DEF Moves

\* A context that decrypts and is called
LEMMA Called ==
    ASSUME DecryptInv, NEW c \in Ctxs, NEW states, In(c, states), states \cap {"ERROR", "DONE"} = {},
           Decrypts(jobs[c])
    PROVE  /\ Decrypting(ctx[c], jobs[c].doc) /\ ctx[c].state \in WorkStates \cap states
           /\ ~ ctx[c].abort
BY DEF DecryptInv, Good, In

\* An error of a context that had none
LEMMA FailGood ==
    ASSUME DecryptInv, NEW c \in Ctxs, In(c, CtxStates \ {"ERROR"}), Decrypts(jobs[c])
    PROVE  Good(CtxFail(ctx[c]), jobs[c].doc)
<1>1. Shape(ctx[c])
  BY DEF DecryptInv, Good, In, Decrypting
<1> QED
  BY <1>1, FailShape DEF Good

-----------------------------------------------------------------------------
(***************************************************************************)
(* The steps of a driver.                                                  *)
(***************************************************************************)
\* mongocrypt_ctx_decrypt_init and mongocrypt_ctx_explicit_decrypt_init
LEMMA StartStep ==
    ASSUME DecryptInv, NEW c \in Ctxs, StartCtx(c)
    PROVE  DecryptInv'
<1> DEFINE job == jobs[c]
           value == CHOOSE b \in job.doc : TRUE
           y == CASE job.kind = "encrypt" -> encrypt_init(crypt, job.cmd)
                  [] job.kind = "decrypt" -> decrypt_init(crypt, job.doc)
                  [] job.kind = "explicit" -> explicit_decrypt_init(crypt, value)
                  [] job.kind = "rewrap" -> rewrap_init(crypt, job.kek)
<1>1. Moves(c, y) /\ jobs' = jobs
  BY DEF StartCtx
<1>2. IsFiniteSet(job.doc)
  BY JobDocs
<1>3. CASE job.kind = "decrypt"
  <2>1. y = decrypt_init(crypt, job.doc)
    BY <1>3
  <2> HIDE DEF y
  <2>2. Good(y, job.doc)
    BY <1>2, <2>1, DecryptInitKeeps DEF Good
  <2> QED
    BY <1>1, <2>2, MovesKeeps
<1>4. CASE job.kind = "explicit"
  <2>1. y = explicit_decrypt_init(crypt, value)
    BY <1>4
  <2>2. job.doc = {value}
    <3>1. PICK b \in job.doc : job.doc = {b}
      BY <1>4, JobDocs
    <3> QED
      BY <3>1
  <2> HIDE DEF y, value
  <2>3. CASE IsCiphertext(value)
    <3>1. y = decrypt_init(crypt, job.doc)
      BY <2>1, <2>2, <2>3 DEF explicit_decrypt_init
    <3>2. Good(y, job.doc)
      BY <1>2, <3>1, DecryptInitKeeps DEF Good
    <3> QED
      BY <1>1, <3>2, MovesKeeps
  <2>4. CASE ~ IsCiphertext(value)
    <3>1. y.state = "ERROR"
      BY <2>1, <2>4 DEF explicit_decrypt_init, CtxFail, mongocrypt_ctx_new
    <3>2. Good(y, job.doc)
      BY <3>1 DEF Good
    <3> QED
      BY <1>1, <3>2, MovesKeeps
  <2> QED
    BY <2>3, <2>4
<1>5. CASE ~ Decrypts(job)
  <2> HIDE DEF y
  <2> QED
    BY <1>1, <1>5, MovesKeeps
<1> QED
  BY <1>3, <1>4, <1>5 DEF Decrypts

\* mongocrypt_ctx_mongo_op
LEMMA MongoOpStep ==
    ASSUME DecryptInv, NEW c \in Ctxs, MongoOp(c)
    PROVE  DecryptInv'
<1> DEFINE x == mongo_op(ctx[c])
           reply == CASE x.state \in CollinfoStates -> Infos(x)
                      [] x.state = "NEED_MONGO_MARKINGS" -> {AnalyzerReply(x)}
                      [] x.state = "NEED_MONGO_KEYS" -> KeyDocs(x, jobs[c].ids)
           batch == IF Stopped(x) THEN {} ELSE reply
           d == [drv[c] EXCEPT !.asked = TRUE, !.batch = batch]
<1>1. /\ In(c, MongoStates) /\ jobs' = jobs /\ ctx' = [ctx EXCEPT ![c] = x]
      /\ drv' = [drv EXCEPT ![c].asked = TRUE, ![c].batch = batch]
  BY DEF MongoOp
<1> HIDE DEF batch
<1>2. DOMAIN drv = Ctxs /\ DriverOK(drv[c])
  BY DEF DecryptInv
<1>3. drv' = [drv EXCEPT ![c] = d]
  BY <1>1, <1>2
<1>4. DriverOK(d)
  BY <1>2 DEF DriverOK, DrvNames
<1>5. ASSUME Decrypts(jobs[c]) PROVE Good(x, jobs[c].doc)
  <2>1. /\ Decrypting(ctx[c], jobs[c].doc) /\ ctx[c].state = "NEED_MONGO_KEYS"
    BY <1>1, <1>5, Called DEF MongoStates, WorkStates
  <2>2. ctx[c].kind = "decrypt" /\ DOMAIN ctx[c].kb = KbNames
    BY <2>1 DEF Decrypting, Shape
  <2>3. x = [ctx[c] EXCEPT !.kb = Filter(ctx[c].kb)]
    BY <2>1, <2>2 DEF mongo_op, CollinfoStates
  <2> HIDE DEF x
  <2> QED
    BY <2>1, <2>2, <2>3, BrokerCallsKeep, DecryptingBroker DEF Good, WorkStates
<1> HIDE DEF x, d
<1> QED
  BY <1>1, <1>3, <1>4, <1>5, StepKeeps

\* mongocrypt_ctx_mongo_feed
LEMMA MongoFeedStep ==
    ASSUME DecryptInv, NEW c \in Ctxs, MongoFeed(c)
    PROVE  DecryptInv'
<1>1. PICK item \in drv[c].batch :
        /\ drv' = [drv EXCEPT ![c].batch = @ \ {item}]
        /\ CASE ctx[c].state \in CollinfoStates ->
                  ctx' = [ctx EXCEPT ![c] = mongo_feed_collinfo(@, item)]
             [] ctx[c].state = "NEED_MONGO_MARKINGS" ->
                  ctx' = [ctx EXCEPT ![c] = mongo_feed_markings(crypt, @, item)]
             [] ctx[c].state = "NEED_MONGO_KEYS" ->
                  ctx' = [ctx EXCEPT ![c] = mongo_feed_keys(crypt, ctx[c], item, TRUE)]
  BY DEF MongoFeed, In, MongoStates, CollinfoStates
<1>2. In(c, MongoStates) /\ jobs' = jobs
  BY DEF MongoFeed
<1>3. DOMAIN drv = Ctxs /\ DOMAIN ctx = Ctxs /\ DriverOK(drv[c])
  BY DEF DecryptInv
<1> DEFINE d == [drv[c] EXCEPT !.batch = @ \ {item}]
<1>4. drv' = [drv EXCEPT ![c] = d] /\ DriverOK(d)
  BY <1>1, <1>3 DEF DriverOK, DrvNames
<1> HIDE DEF d
<1>5. CASE Decrypts(jobs[c])
  <2> DEFINE y == mongo_feed_keys(crypt, ctx[c], item, TRUE)
  <2>1. Decrypting(ctx[c], jobs[c].doc) /\ ctx[c].state = "NEED_MONGO_KEYS"
    BY <1>2, <1>5, Called DEF MongoStates, WorkStates
  <2>2. ctx' = [ctx EXCEPT ![c] = y]
    BY <1>1, <2>1 DEF CollinfoStates
  <2>3. Decrypting(y, jobs[c].doc) /\ y.state \in {ctx[c].state, "ERROR"}
    BY <2>1, FeedKeysKeeps, Zenon
  <2> HIDE DEF y
  <2>4. Good(y, jobs[c].doc)
    BY <2>1, <2>3 DEF Good, WorkStates
  <2> QED
    BY <1>2, <1>4, <2>2, <2>4, StepKeeps
<1>6. CASE ~ Decrypts(jobs[c])
  <2>1. ctx[c].state \in CollinfoStates \/ ctx[c].state = "NEED_MONGO_MARKINGS"
        \/ ctx[c].state = "NEED_MONGO_KEYS"
    BY <1>2 DEF In, MongoStates, CollinfoStates
  <2>2. "NEED_MONGO_MARKINGS" \notin CollinfoStates /\ "NEED_MONGO_KEYS" \notin CollinfoStates
    BY DEF CollinfoStates
  <2>3. \E y : ctx' = [ctx EXCEPT ![c] = y]
    BY <1>1, <2>1, <2>2
  <2> QED
    BY <1>2, <1>4, <1>6, <2>3, StepKeeps
<1> QED
  BY <1>5, <1>6

\* mongocrypt_ctx_mongo_done
LEMMA MongoDoneStep ==
    ASSUME DecryptInv, NEW c \in Ctxs, MongoDone(c)
    PROVE  DecryptInv'
<1> DEFINE x == ctx[c]
           y == CASE x.state \in CollinfoStates -> mongo_done_collinfo(crypt, x)
                  [] x.state = "NEED_MONGO_MARKINGS" -> mongo_done_markings(crypt, x)
                  [] x.state = "NEED_MONGO_KEYS" -> mongo_done_keys(crypt, x)
<1>1. In(c, MongoStates) /\ Moves(c, y) /\ jobs' = jobs
  BY DEF MongoDone
<1>2. ASSUME Decrypts(jobs[c]) PROVE Good(y, jobs[c].doc)
  <2>1. Decrypting(x, jobs[c].doc) /\ x.state = "NEED_MONGO_KEYS" /\ ~ x.abort
    BY <1>1, <1>2, Called DEF MongoStates, WorkStates
  <2>2. x.kind = "decrypt"
    BY <2>1 DEF Decrypting
  <2>3. y = decrypt_mongo_done_keys(crypt, x)
    BY <2>1, <2>2 DEF CollinfoStates, mongo_done_keys
  <2> HIDE DEF y
  <2> QED
    BY <2>1, <2>3, JobDocs, DocsDoneKeeps DEF Good
<1> HIDE DEF y
<1> QED
  BY <1>1, <1>2, MovesKeeps

\* mongocrypt_ctx_provide_kms_providers
LEMMA ProvideStep ==
    ASSUME DecryptInv, NEW c \in Ctxs, ProvideKmsProviders(c)
    PROVE  DecryptInv'
<1> DEFINE x == ProvideState(ctx[c])
           y == IF x.kind = "rewrap" THEN kms_start_decrypt(crypt, x) ELSE x
           st == IF ctx[c].kb.state = "ADDING_DOCS" THEN "NEED_MONGO_KEYS" ELSE "NEED_KMS"
<1>1. In(c, {"NEED_KMS_CREDENTIALS"}) /\ Moves(c, y) /\ jobs' = jobs
  BY DEF ProvideKmsProviders
<1>2. ASSUME Decrypts(jobs[c]) PROVE Good(y, jobs[c].doc)
  <2>1. Decrypting(ctx[c], jobs[c].doc)
    BY <1>1, <1>2, Called
  <2>2. x = [ctx[c] EXCEPT !.state = st] /\ st \in WorkStates
    BY DEF ProvideState, WorkStates
  <2> HIDE DEF x, st
  <2>3. Decrypting(x, jobs[c].doc) /\ x.state = st
    BY <2>1, <2>2, DecryptingState
  <2>4. y = x
    BY <2>3 DEF Decrypting
  <2> QED
    BY <2>2, <2>3, <2>4 DEF Good
<1> HIDE DEF y
<1> QED
  BY <1>1, <1>2, MovesKeeps

\* mongocrypt_ctx_next_kms_ctx
LEMMA NextKmsStep ==
    ASSUME DecryptInv, NEW c \in Ctxs, GetNextKms(c)
    PROVE  DecryptInv'
<1> DEFINE x == ctx[c]
           y == IF x.encrypting THEN next_kms_ctx_encrypt(x) ELSE [x EXCEPT !.kb = NextKms(@)]
           refs == NextRef(x)
           d == [drv[c] EXCEPT !.held = @ \cup refs, !.drained = (refs = {})]
<1>1. /\ In(c, {"NEED_KMS"}) /\ jobs' = jobs /\ ctx' = [ctx EXCEPT ![c] = y]
      /\ drv' = [drv EXCEPT ![c].held = @ \cup refs, ![c].drained = (refs = {})]
  BY DEF GetNextKms
<1>2. \A ref \in refs : ref[1] \in RefKinds
  BY DEF NextRef, NextKmsRef, RefKinds
<1> HIDE DEF refs
<1>3. DOMAIN drv = Ctxs /\ DriverOK(drv[c])
  BY DEF DecryptInv
<1>4. drv' = [drv EXCEPT ![c] = d]
  BY <1>1, <1>3
<1>5. DriverOK(d)
  BY <1>2, <1>3 DEF DriverOK, DrvNames
<1>6. ASSUME Decrypts(jobs[c]) PROVE Good(y, jobs[c].doc)
  <2>1. Decrypting(x, jobs[c].doc) /\ x.state = "NEED_KMS"
    BY <1>1, <1>6, Called
  <2>2. DOMAIN x.kb = KbNames /\ x.encrypting = FALSE
    BY <2>1 DEF Decrypting, Shape
  <2>3. y = [x EXCEPT !.kb = NextKms(x.kb)]
    BY <2>2
  <2> HIDE DEF y
  <2> QED
    BY <2>1, <2>2, <2>3, NextKmsKeeps, DecryptingBroker DEF Good, WorkStates
<1> HIDE DEF y, d
<1> QED
  BY <1>1, <1>4, <1>5, <1>6, StepKeeps

\* A KMS request is fed to its end.
LEMMA CompleteStep ==
    ASSUME DecryptInv, NEW c \in Ctxs, Complete(c)
    PROVE  DecryptInv'
<1>1. In(c, {"NEED_KMS"}) /\ jobs' = jobs
  BY DEF Complete
<1>2. PICK ref \in drv[c].held : \E kms :
        /\ ctx' = [ctx EXCEPT ![c] = WithRequest(@, ref, kms)]
        /\ drv' = [drv EXCEPT ![c].held = @ \ {ref}, ![c].drained = FALSE]
  BY DEF Complete
<1>3. PICK kms :
        /\ ctx' = [ctx EXCEPT ![c] = WithRequest(@, ref, kms)]
        /\ drv' = [drv EXCEPT ![c].held = @ \ {ref}, ![c].drained = FALSE]
  BY <1>2
<1> DEFINE y == WithRequest(ctx[c], ref, kms)
           d == [drv[c] EXCEPT !.held = @ \ {ref}, !.drained = FALSE]
<1>4. DOMAIN drv = Ctxs /\ DOMAIN ctx = Ctxs /\ DriverOK(drv[c])
  BY DEF DecryptInv
<1>5. ctx' = [ctx EXCEPT ![c] = y] /\ drv' = [drv EXCEPT ![c] = d]
  BY <1>3, <1>4
<1>6. DriverOK(d) /\ ref[1] \in RefKinds
  BY <1>4 DEF DriverOK, DrvNames
<1>7. ASSUME Decrypts(jobs[c]) PROVE Good(y, jobs[c].doc)
  <2>1. Decrypting(ctx[c], jobs[c].doc) /\ ctx[c].state = "NEED_KMS"
    BY <1>1, <1>7, Called
  <2>2. Decrypting(y, jobs[c].doc) /\ y.state = ctx[c].state
    BY <1>6, <2>1, WithRequestKeeps DEF RefKinds
  <2> HIDE DEF y
  <2> QED
    BY <2>1, <2>2 DEF Good, WorkStates
<1> HIDE DEF y, d
<1> QED
  BY <1>1, <1>5, <1>6, <1>7, StepKeeps

\* mongocrypt_ctx_kms_done
LEMMA KmsDoneStep ==
    ASSUME DecryptInv, NEW c \in Ctxs, KmsDone(c)
    PROVE  DecryptInv'
<1> DEFINE g == [crypt EXCEPT !.tokens = @ \cup TokensGot(ctx[c])]
           y == kms_done(g, ctx[c])
<1>1. In(c, {"NEED_KMS"}) /\ Moves(c, y) /\ jobs' = jobs
  BY DEF KmsDone
<1> HIDE DEF g
<1>2. ASSUME Decrypts(jobs[c]) PROVE Good(y, jobs[c].doc)
  <2>1. Decrypting(ctx[c], jobs[c].doc) /\ ctx[c].state \in WorkStates
    BY <1>1, <1>2, Called
  <2>2. y = decrypt_kms_done(g, ctx[c])
    BY <2>1 DEF Decrypting, kms_done
  <2> HIDE DEF y
  <2> QED
    BY <2>1, <2>2, JobDocs, DecryptKmsDoneKeeps DEF Good
<1> HIDE DEF y
<1> QED
  BY <1>1, <1>2, MovesKeeps

\* mongocrypt_ctx_finalize
LEMMA FinalizeStep ==
    ASSUME DecryptInv, NEW c \in Ctxs, Finalize(c)
    PROVE  DecryptInv'
<1> DEFINE y == CASE ctx[c].kind = "encrypt" -> encrypt_finalize(ctx[c])
                  [] ctx[c].kind = "decrypt" -> decrypt_finalize(ctx[c])
                  [] ctx[c].kind = "rewrap" -> rewrap_finalize(ctx[c])
<1>1. In(c, {"READY"}) /\ Moves(c, y) /\ jobs' = jobs
  BY DEF Finalize
<1>2. ASSUME Decrypts(jobs[c]) PROVE Good(y, jobs[c].doc)
  <2>1. Decrypting(ctx[c], jobs[c].doc)
    BY <1>1, <1>2, Called
  <2>2. y = decrypt_finalize(ctx[c])
    BY <2>1 DEF Decrypting
  <2> HIDE DEF y
  <2> QED
    BY <2>1, <2>2, DecryptFinalizeKeeps DEF Good
<1> HIDE DEF y
<1> QED
  BY <1>1, <1>2, MovesKeeps

\* The faults of drivers and of what they talk to
LEMMA FaultStep ==
    ASSUME DecryptInv, NEW c \in Ctxs, FeedMalformed(c) \/ KeyMissing(c) \/ CallInWrongState(c)
    PROVE  DecryptInv'
<1>1. CASE FeedMalformed(c) \/ CallInWrongState(c)
  <2>1. In(c, CtxStates \ {"ERROR"}) /\ Moves(c, CtxFail(ctx[c])) /\ jobs' = jobs
    BY <1>1 DEF FeedMalformed, CallInWrongState, In, CtxStates, MongoStates
  <2> QED
    BY <2>1, FailGood, MovesKeeps
<1>2. CASE KeyMissing(c)
  <2>1. PICK doc \in drv[c].batch : drv' = [drv EXCEPT ![c].batch = @ \ {doc}]
    BY <1>2 DEF KeyMissing
  <2> DEFINE d == [drv[c] EXCEPT !.batch = @ \ {doc}]
  <2>2. In(c, {"NEED_MONGO_KEYS"}) /\ jobs' = jobs /\ ctx' = ctx
    BY <1>2 DEF KeyMissing
  <2>3. DOMAIN drv = Ctxs /\ DOMAIN ctx = Ctxs /\ DriverOK(drv[c])
    BY DEF DecryptInv
  <2>4. drv' = [drv EXCEPT ![c] = d] /\ DriverOK(d)
    BY <2>1, <2>3 DEF DriverOK, DrvNames
  <2> HIDE DEF d
  <2>5. \A e \in Ctxs : DriverOK(drv'[e]) /\ (drv'[e].started => drv[e].started)
    <3>1. d.started => drv[c].started
      BY <2>3 DEF DriverOK, DrvNames, d
    <3> QED
      BY <2>3, <2>4, <3>1 DEF DecryptInv
  <2>6. DOMAIN drv' = Ctxs
    BY <2>3, <2>4
  <2>7. (\A e \in Ctxs : DriverOK(drv[e]))'
    BY <2>5 DEF DriverOK
  <2>8. (\A e \in Ctxs : drv[e].started /\ Decrypts(jobs[e]) => Good(ctx[e], jobs[e].doc))'
    BY <2>2, <2>5 DEF DecryptInv, Decrypts, Good
  <2> QED
    BY <2>2, <2>3, <2>6, <2>7, <2>8 DEF DecryptInv
<1> QED
  BY <1>1, <1>2

-----------------------------------------------------------------------------
\* Every step keeps the invariant.
LEMMA DecryptStep ==
    ASSUME DecryptInv, [Next]_vars
    PROVE  DecryptInv'
<1>1. CASE \E c \in Ctxs : \/ Advance(c)
                          \/ FeedMalformed(c) \/ KeyMissing(c) \/ CallInWrongState(c)
  BY <1>1, StartStep, MongoOpStep, MongoFeedStep, MongoDoneStep, ProvideStep, NextKmsStep,
     CompleteStep, KmsDoneStep, FinalizeStep, FaultStep, Zenon DEF Advance
<1>2. CASE Expire \/ UNCHANGED vars
  <2>1. jobs' = jobs /\ ctx' = ctx /\ drv' = drv
    BY <1>2 DEF Expire, vars
  <2> QED
    BY <2>1 DEF DecryptInv, DriverOK, Decrypts, Good
<1> QED
  BY <1>1, <1>2 DEF Next

\* No context has been started.
LEMMA DecryptStarts == Init => DecryptInv
<1> SUFFICES ASSUME Init PROVE DecryptInv
  OBVIOUS
<1>1. \A c \in Ctxs : drv[c] = NewDriver
  BY DEF Init
<1>2. DriverOK(NewDriver) /\ ~ NewDriver.started
  BY DEF DriverOK, DrvNames, NewDriver
<1> QED
  BY <1>1, <1>2 DEF Init, DecryptInv

(***************************************************************************)
(* Decryption is complete for every set of contexts, of jobs and of key    *)
(* documents: a context that decrypts a document, or a value, comes out    *)
(* with every ciphertext of it decrypted, in whatever order the contexts   *)
(* are called, keys are cached and expire, and requests fail               *)
(* (mongocrypt-ctx-decrypt.c: _check_for_K_KeyId, _finalize;               *)
(* mongocrypt-ctx.c: _mongocrypt_ctx_state_from_key_broker, which decides  *)
(* that there is nothing to do from the requests of the broker).           *)
(***************************************************************************)
THEOREM DecryptedAlways == Spec => []DecryptedAll
<1>1. Init => DecryptInv
  BY DecryptStarts
<1>2. DecryptInv /\ [Next]_vars => DecryptInv'
  BY DecryptStep
<1>3. DecryptInv => DecryptedAll
  BY DEF DecryptInv, DecryptedAll, Returned, Decrypts, Good, WorkStates
<1> QED
  BY <1>1, <1>2, <1>3, PTL DEF Spec

-----------------------------------------------------------------------------
(***************************************************************************)
(* That no request to KMS is forgotten. RoundInv says, of a context and    *)
(* of its driver, that a KMS context that is pending is in the hands of    *)
(* the driver, or that the iterator of the broker, or of the sub-          *)
(* contexts, has yet to reach it. Of the rest it has what that needs: in   *)
(* which states the broker and the sub-contexts may be, and that every     *)
(* collection of keys a context asks for is finite.                        *)
(***************************************************************************)
AuthNames == {"kmsid", "returned", "kms", "since"}
KeyNames == {"doc", "decrypted", "needsAuth", "kms"}
SubNames == {"doc", "kek", "dk"}
DkNames == {"initialized", "state", "pc", "opts", "type", "kms", "returned", "uid", "activated",
            "secretdata", "material", "masterKey", "flow"}

\* An OAuth request that is under way has been handed to the driver.
AuthOut(b, h, i) ==
    LET a == b.auth[i]
    IN  /\ DOMAIN a = AuthNames /\ a.kms \in Kms
        /\ a.returned /\ a.kms.st = "pending" => <<"auth", i>> \in h

\* So has the request of a key, unless the iterator is still to reach it.
KeyOut(b, h, i) ==
    LET e == b.returned[i]
    IN  /\ DOMAIN e = KeyNames /\ e.kms \in Kms
        /\ ~ e.decrypted /\ e.kms.st = "pending" => i <= b.iter \/ <<"key", i>> \in h
        /\ e.needsAuth => i <= b.iter /\ b.state # "DECRYPTING_KEY_MATERIAL" /\ b.auth # <<>>

BrokerOut(b, h) ==
    /\ Listed(b.auth) /\ Listed(b.returned) /\ Listed(b.cached) /\ b.iter \in Nat
    /\ b.state = "AUTHENTICATING" => b.auth # <<>>
    /\ \A i \in DOMAIN b.auth : AuthOut(b, h, i)
    /\ \A i \in DOMAIN b.returned : KeyOut(b, h, i)

\* The sub-context of a data key
KmsProviders == HttpProviders \cup {"local", "kmip"}
SubOK(d) ==
    /\ DOMAIN d = SubNames /\ DOMAIN d.dk = DkNames /\ d.dk.kms \in Kms
    /\ d.dk.state = "NEED_KMS" =>
            /\ d.dk.type \in {"OAUTH", "WRAP", "REGISTER", "CREATE", "ACTIVATE", "GET", "ENCRYPT"}
            /\ d.dk.opts.provider \in KmsProviders

\* Its request is out, or the iterator is still to reach it.
SubOut(x, h, i) ==
    LET d == x.datakeys[i].dk
    IN  NeedsKms(x, i) => /\ d.kms.st = "pending" => i >= x.iter \/ <<"sub", i>> \in h
                          /\ i >= x.iter => ~ d.returned

SubsOut(x, h) ==
    /\ x.iter \in Nat /\ x.iter # 0 /\ (x.iter \in DOMAIN x.datakeys => NeedsKms(x, x.iter))
    /\ \A i \in DOMAIN x.datakeys : SubOut(x, h, i)

\* The schemas of an encryption are finite.
EntryNames == {"coll", "satisfied", "efc", "json"}
SbNames == {"db", "entries", "mixing", "ok"}
EntryOK(se) == DOMAIN se = EntryNames /\ FiniteInfo(se)
SbOK(sb) == DOMAIN sb = SbNames /\ Listed(sb.entries) /\ \A i \in DOMAIN sb.entries : EntryOK(sb.entries[i])

Kinds == {"encrypt", "decrypt", "rewrap"}
Core(x, h) ==
    /\ Shape(x) /\ x.kind \in Kinds
    /\ BrokerOut(x.kb, h)
    /\ Listed(x.datakeys) /\ \A i \in DOMAIN x.datakeys : SubOK(x.datakeys[i])
    /\ x.kind = "encrypt" => SbOK(x.sb) /\ FiniteInfo(x.cmd)
    /\ x.kind = "decrypt" => IsFiniteSet(x.doc)

\* Where a context is
Control(x) ==
    /\ x.state \in CollinfoStates \cup {"NEED_MONGO_MARKINGS"} => x.kind = "encrypt"
    /\ x.state = "NEED_KMS_CREDENTIALS" =>
            IF x.kind = "rewrap" THEN x.kb = NewBroker ELSE x.kb.state = "ADDING_DOCS"
    /\ x.state = "NEED_KMS" /\ ~ x.encrypting =>
            x.kb.state \in {"AUTHENTICATING", "DECRYPTING_KEY_MATERIAL"}
    /\ x.encrypting => x.kind = "rewrap" /\ x.state \in {"NEED_KMS", "READY"}
    /\ x.state = "NEED_MONGO_KEYS" => x.kb.state \in {"ADDING_DOCS", "ADDING_DOCS_ANY"}
    /\ ~ x.encrypting /\ x.state # "READY" => x.datakeys = <<>>

ReplyOK(x, item) ==
    /\ x.state \in CollinfoStates => FiniteInfo(item)
    /\ x.state = "NEED_MONGO_MARKINGS" /\ ~ x.ismaster => IsFiniteSet(item.result.marks)

Ends(x) == Stopped(x) \/ (x.state = "DONE" /\ DOMAIN x = CtxNames)

\* A context and its driver
Round(x, d) ==
    \/ Ends(x)
    \/ /\ Core(x, d.held) /\ Control(x)
       /\ x.state # "NEED_KMS" => d.held = {}
       /\ x.state = "NEED_KMS" /\ x.encrypting => SubsOut(x, d.held)
       /\ x.state = "NEED_KMS" /\ d.drained => NextRef(x) = {}
       /\ \A item \in d.batch : ReplyOK(x, item)

CryptOK ==
    /\ \E s \in Scenarios : jobs = s.jobs
    /\ {"keys", "colls", "tokens", "efcMap", "schemaMap"} \subseteq DOMAIN crypt
    /\ \A ns \in DOMAIN crypt.colls : FiniteInfo(crypt.colls[ns])
    /\ \A map \in {crypt.efcMap, crypt.schemaMap} : \A ns \in DOMAIN map : IsFiniteSet(map[ns])

RoundInv ==
    /\ CryptOK /\ DOMAIN ctx = Ctxs /\ DOMAIN drv = Ctxs
    /\ \A c \in Ctxs : DOMAIN drv[c] = DrvNames
    /\ \A c \in Ctxs : drv[c].started => Round(ctx[c], drv[c])

-----------------------------------------------------------------------------
\* A broker that keeps its requests to KMS, and whose iterator stays or starts over
LEMMA OutKept ==
    ASSUME NEW b, NEW h, BrokerOut(b, h), NEW c,
           c.auth = b.auth, c.returned = b.returned, Listed(c.cached),
           c.iter \in {b.iter, Len(b.returned)},
           c.state = "AUTHENTICATING" => b.auth # <<>>,
           \/ c.state # "DECRYPTING_KEY_MATERIAL" \/ b.state = "DECRYPTING_KEY_MATERIAL"
           \/ \A i \in DOMAIN b.returned : ~ b.returned[i].needsAuth
    PROVE  BrokerOut(c, h)
<1>1. Listed(b.auth) /\ Listed(b.returned) /\ b.iter \in Nat
  BY DEF BrokerOut
<1>2. Len(b.returned) \in Nat /\ DOMAIN b.returned = 1..Len(b.returned)
  BY <1>1, ListIs
<1>3. \A i \in DOMAIN c.auth : AuthOut(c, h, i)
  BY DEF BrokerOut, AuthOut
<1>4. c.iter \in Nat /\ \A i \in DOMAIN b.returned : i <= b.iter => i <= c.iter
  BY <1>1, <1>2
<1>5. ASSUME NEW i \in DOMAIN c.returned PROVE KeyOut(c, h, i)
  <2>1. KeyOut(b, h, i)
    BY <1>5 DEF BrokerOut
  <2> QED
    BY <1>4, <1>5, <2>1 DEF KeyOut
<1> QED
  BY <1>1, <1>3, <1>4, <1>5 DEF BrokerOut

\* More requests in the hands of the driver
LEMMA OutHeld ==
    ASSUME NEW b, NEW h, BrokerOut(b, h), NEW k, h \subseteq k
    PROVE  BrokerOut(b, k)
BY DEF BrokerOut, AuthOut, KeyOut

\* Asking for keys
LEMMA OutAsked ==
    ASSUME NEW x, NEW h, BrokerOut(x.kb, h), NEW y, AskedMore(x, y)
    PROVE  BrokerOut(y.kb, h)
<1>1. /\ y.kb.auth = x.kb.auth /\ y.kb.returned = x.kb.returned /\ y.kb.state = x.kb.state
      /\ y.kb.iter \in {x.kb.iter, Len(x.kb.returned)} /\ Listed(y.kb.cached)
  BY DEF AskedMore, KbNames, BrokerOut
<1>2. x.kb.state = "AUTHENTICATING" => x.kb.auth # <<>>
  BY DEF BrokerOut
<1> QED
  BY <1>1, <1>2, OutKept

\* requests_done, docs_done, a restart and the filter
LEMMA OutCalls ==
    ASSUME NEW b, NEW h, BrokerOut(b, h), DOMAIN b = KbNames
    PROVE  /\ BrokerOut(RequestsDone(b), h) /\ BrokerOut(Restart(b), h) /\ BrokerOut(Filter(b), h)
           /\ RequestsDone(b).state \in {"DONE", "ADDING_DOCS"}
           /\ BrokerOut(DocsDone(b), h) \/ DocsDone(b).state = "ERROR"
           /\ DocsDone(b).state \in {"AUTHENTICATING", "DECRYPTING_KEY_MATERIAL", "DONE", "ERROR"}
<1>0. b.state = "AUTHENTICATING" => b.auth # <<>>
  BY DEF BrokerOut
<1>1. BrokerOut(RequestsDone(b), h) /\ RequestsDone(b).state \in {"DONE", "ADDING_DOCS"}
  <2> DEFINE c == RequestsDone(b)
  <2>1. /\ c.auth = b.auth /\ c.returned = b.returned /\ c.cached = b.cached /\ c.iter = b.iter
        /\ c.state \in {"DONE", "ADDING_DOCS"}
    BY DEF RequestsDone, KbNames
  <2> HIDE DEF c
  <2> QED
    BY <1>0, <2>1, OutKept DEF BrokerOut, c
<1>2. BrokerOut(Restart(b), h)
  <2> DEFINE c == Restart(b)
  <2>1. /\ c.auth = b.auth /\ c.returned = b.returned /\ c.cached = b.cached /\ c.iter = b.iter
        /\ c.state = "REQUESTING"
    BY DEF Restart, KbNames
  <2> HIDE DEF c
  <2> QED
    BY <1>0, <2>1, OutKept DEF BrokerOut, c
<1>3. BrokerOut(Filter(b), h)
  <2> DEFINE c == Filter(b)
  <2>1. /\ c.auth = b.auth /\ c.returned = b.returned /\ c.cached = b.cached /\ c.iter = b.iter
        /\ c.state = b.state
    BY DEF Filter, KbNames
  <2> HIDE DEF c
  <2> QED
    BY <1>0, <2>1, OutKept DEF BrokerOut, c
<1>4. /\ BrokerOut(DocsDone(b), h) \/ DocsDone(b).state = "ERROR"
      /\ DocsDone(b).state \in {"AUTHENTICATING", "DECRYPTING_KEY_MATERIAL", "DONE", "ERROR"}
  <2> DEFINE c == DocsDone(b)
             waits == \E i \in DOMAIN b.returned : b.returned[i].needsAuth
             st == IF waits THEN "AUTHENTICATING"
                   ELSE IF \E i \in DOMAIN b.returned : ~ b.returned[i].decrypted
                   THEN "DECRYPTING_KEY_MATERIAL" ELSE "DONE"
  <2>1. CASE c.state = "ERROR"
    BY <2>1
  <2>2. CASE c.state # "ERROR"
    <3>1. c = [b EXCEPT !.state = st]
      <4>1. Fail(b).state = "ERROR"
        BY DEF Fail, KbNames
      <4> QED
        BY <2>2, <4>1 DEF DocsDone
    <3>2. /\ c.auth = b.auth /\ c.returned = b.returned /\ c.cached = b.cached /\ c.iter = b.iter
          /\ c.state = st
      <4> HIDE DEF st
      <4> QED
        BY <3>1 DEF KbNames
    <3>3. waits => b.auth # <<>>
      BY DEF BrokerOut, KeyOut
    <3>4. st = "AUTHENTICATING" => b.auth # <<>>
      BY <3>3
    <3>5. \/ st # "DECRYPTING_KEY_MATERIAL" \/ \A i \in DOMAIN b.returned : ~ b.returned[i].needsAuth
      OBVIOUS
    <3>6. st \in {"AUTHENTICATING", "DECRYPTING_KEY_MATERIAL", "DONE"}
      OBVIOUS
    <3> HIDE DEF st, waits, c
    <3>7. BrokerOut(c, h)
      BY <1>0, <3>2, <3>4, <3>5, OutKept DEF BrokerOut
    <3> QED
      BY <3>2, <3>6, <3>7 DEF c
  <2> QED
    BY <2>1, <2>2
<1> QED
  BY <1>1, <1>2, <1>3, <1>4

\* The entry of a document
LEMMA EntryIs ==
    ASSUME NEW doc, NEW token, NEW e, e = NewEntry(doc, token)
    PROVE  DOMAIN e = KeyNames /\ e.kms \in Kms /\ e.needsAuth \in BOOLEAN
<1> DEFINE p == Provider[doc.kmsid]
           wait == p \in OAuthProviders /\ ~ token
           kms == IF p = "local" \/ wait THEN KmsUnset ELSE KmsNew
<1>1. e = [doc |-> doc, decrypted |-> (p = "local"), needsAuth |-> wait, kms |-> kms]
  BY DEF NewEntry
<1>2. kms \in Kms
  BY DEF Kms, KmsUnset, KmsNew
<1>3. wait \in BOOLEAN
  OBVIOUS
<1> HIDE DEF p, wait, kms
<1> QED
  BY <1>1, <1>2, <1>3 DEF KeyNames

\* The OAuth requests with the one a new entry needs
LEMMA AuthRequested ==
    ASSUME NEW auth, Listed(auth), NEW e, NEW h,
           \A i \in DOMAIN auth : /\ DOMAIN auth[i] = AuthNames /\ auth[i].kms \in Kms
                                  /\ auth[i].returned /\ auth[i].kms.st = "pending" => <<"auth", i>> \in h,
           NEW more, more = WithAuthRequest(auth, e)
    PROVE  /\ Listed(more)
           /\ \A i \in DOMAIN more : /\ DOMAIN more[i] = AuthNames /\ more[i].kms \in Kms
                                     /\ more[i].returned /\ more[i].kms.st = "pending" => <<"auth", i>> \in h
           /\ auth # <<>> => more # <<>>
           /\ e.needsAuth => more # <<>>
<1> DEFINE a == [kmsid |-> e.doc.kmsid, returned |-> FALSE, kms |-> KmsNew, since |-> -1]
<1>1. Len(auth) \in Nat /\ DOMAIN auth = 1..Len(auth)
  BY ListIs
<1>2. CASE more = auth /\ ~ (e.needsAuth /\ \A i \in DOMAIN auth : auth[i].kmsid # e.doc.kmsid)
  <2>1. e.needsAuth => DOMAIN auth # {}
    BY <1>2
  <2>2. auth = <<>> => DOMAIN auth = {}
    BY EmptySeq, <1>1
  <2> QED
    BY <1>2, <2>1, <2>2
<1>3. CASE more = Append(auth, a)
  <2>1. DOMAIN a = AuthNames /\ a.kms = KmsNew /\ ~ a.returned
    BY DEF AuthNames
  <2>2. KmsNew \in Kms
    BY DEF Kms, KmsNew
  <2> HIDE DEF a
  <2>3. /\ Listed(more) /\ more # <<>>
        /\ DOMAIN more = 1..(Len(auth) + 1) /\ more[Len(auth) + 1] = a
        /\ \A i \in 1..Len(auth) : more[i] = auth[i]
    <3> DEFINE t == Append(auth, a)
    <3>1. Listed(t) /\ Len(t) = Len(auth) + 1
      BY ListAppend
    <3>2. DOMAIN t = 1..(Len(auth) + 1)
      BY ListAppend
    <3>3. t[Len(auth) + 1] = a
      BY ListAppend
    <3>4. t # <<>>
      BY ListAppend
    <3>5. \A i \in 1..Len(auth) : t[i] = auth[i]
      BY ListAppend
    <3> HIDE DEF t
    <3>6. more = t
      BY <1>3 DEF t
    <3> QED
      BY <3>1, <3>2, <3>3, <3>4, <3>5, <3>6
  <2>4. ASSUME NEW i \in DOMAIN more
        PROVE  /\ DOMAIN more[i] = AuthNames /\ more[i].kms \in Kms
               /\ more[i].returned /\ more[i].kms.st = "pending" => <<"auth", i>> \in h
    <3>1. CASE i = Len(auth) + 1
      BY <2>1, <2>2, <2>3, <3>1
    <3>2. CASE i # Len(auth) + 1
      <4>1. i \in DOMAIN auth /\ more[i] = auth[i]
        BY <1>1, <2>3, <2>4, <3>2
      <4> QED
        BY <4>1
    <3> QED
      BY <3>1, <3>2
  <2> QED
    BY <2>3, <2>4
<1> QED
  BY <1>2, <1>3 DEF WithAuthRequest

\* _mongocrypt_key_broker_add_doc
LEMMA OutFed ==
    ASSUME NEW b, NEW h, BrokerOut(b, h), DOMAIN b = KbNames, b.state # "DECRYPTING_KEY_MATERIAL",
           NEW item, NEW token, NEW valid, NEW n, n = AcceptDoc(b, item, token, valid)
    PROVE  DOMAIN n = KbNames /\ (n.ok => BrokerOut(n, h) /\ n.state = b.state)
<1> DEFINE e == NewEntry(item, token)
           grown == PrependReturned(b, e)
           more == WithAuthRequest(b.auth, e)
<1>0. DOMAIN e = KeyNames /\ e.kms \in Kms /\ e.needsAuth \in BOOLEAN
  BY EntryIs
<1> HIDE DEF e
<1>1. /\ DOMAIN grown = KbNames /\ grown.auth = b.auth /\ grown.cached = b.cached
      /\ grown.returned = Append(b.returned, e) /\ grown.iter = Len(b.returned) + 1
      /\ grown.state = b.state
  BY DEF PrependReturned, KbNames
<1>2. \/ n = Fail(b) \/ n = Fail(grown)
      \/ n = [grown EXCEPT !.auth = more, !.requests = MarkSatisfied(@, item)]
  BY <1>1 DEF AcceptDoc, e
<1> HIDE DEF grown
<1>3. CASE n = Fail(b) \/ n = Fail(grown)
  BY <1>1, <1>3 DEF Fail, KbNames
<1>4. CASE n = [grown EXCEPT !.auth = more, !.requests = MarkSatisfied(@, item)]
  <2>1. /\ DOMAIN n = KbNames /\ n.auth = more /\ n.cached = b.cached
        /\ n.returned = Append(b.returned, e) /\ n.iter = Len(b.returned) + 1 /\ n.state = b.state
    BY <1>1, <1>4 DEF KbNames
  <2>2. \A i \in DOMAIN b.auth :
            /\ DOMAIN b.auth[i] = AuthNames /\ b.auth[i].kms \in Kms
            /\ b.auth[i].returned /\ b.auth[i].kms.st = "pending" => <<"auth", i>> \in h
    BY DEF BrokerOut, AuthOut
  <2>3. Listed(b.auth) /\ Listed(b.returned) /\ Listed(b.cached)
    BY DEF BrokerOut
  <2>4. /\ Listed(more)
        /\ \A i \in DOMAIN more : /\ DOMAIN more[i] = AuthNames /\ more[i].kms \in Kms
                                  /\ more[i].returned /\ more[i].kms.st = "pending" => <<"auth", i>> \in h
        /\ b.auth # <<>> => more # <<>>
        /\ e.needsAuth => more # <<>>
    BY <2>2, <2>3, AuthRequested
  <2> HIDE DEF more
  <2>5. \A i \in DOMAIN n.auth : AuthOut(n, h, i)
    BY <2>1, <2>4 DEF AuthOut
  <2>6. Len(b.returned) \in Nat /\ DOMAIN b.returned = 1..Len(b.returned)
    BY <2>3, ListIs
  <2>7. /\ Listed(n.returned) /\ DOMAIN n.returned = 1..(Len(b.returned) + 1)
        /\ n.returned[Len(b.returned) + 1] = e
        /\ \A i \in 1..Len(b.returned) : n.returned[i] = b.returned[i]
    <3> DEFINE t == Append(b.returned, e)
    <3> DEFINE s == b.returned
    <3>0. Listed(s)
      BY <2>3
    <3> HIDE DEF s
    <3>1. Listed(Append(s, e)) /\ Len(Append(s, e)) = Len(s) + 1
      BY <3>0, ListAppend
    <3>2. DOMAIN Append(s, e) = 1..(Len(s) + 1)
      BY <3>0, ListAppend
    <3>3. Append(s, e)[Len(s) + 1] = e
      BY <3>0, ListAppend
    <3>4. \A i \in 1..Len(s) : Append(s, e)[i] = s[i]
      BY <3>0, ListAppend
    <3>5. t = Append(s, e) /\ s = b.returned
      BY DEF s
    <3> HIDE DEF t
    <3>6. n.returned = t
      BY <2>1 DEF t
    <3> QED
      BY <3>1, <3>2, <3>3, <3>4, <3>5, <3>6
  <2>8. ASSUME NEW i \in DOMAIN n.returned PROVE KeyOut(n, h, i)
    <3>1. i <= n.iter
      BY <2>1, <2>6, <2>7
    <3>2. CASE i = Len(b.returned) + 1
      <4>1. n.returned[i] = e
        BY <2>7, <3>2
      <4> QED
        BY <1>0, <2>1, <2>4, <3>1, <4>1 DEF KeyOut
    <3>3. CASE i # Len(b.returned) + 1
      <4>1. i \in DOMAIN b.returned /\ n.returned[i] = b.returned[i]
        BY <2>6, <2>7, <3>3
      <4>2. KeyOut(b, h, i)
        BY <4>1 DEF BrokerOut
      <4> QED
        BY <2>1, <2>4, <3>1, <4>1, <4>2 DEF KeyOut
    <3> QED
      BY <3>2, <3>3
  <2>9. n.iter \in Nat
    BY <2>1, <2>6
  <2>10. n.state = "AUTHENTICATING" => n.auth # <<>>
    BY <2>1, <2>4 DEF BrokerOut
  <2> QED
    BY <2>1, <2>3, <2>4, <2>5, <2>7, <2>8, <2>9, <2>10 DEF BrokerOut
<1> QED
  BY <1>2, <1>3, <1>4

\* A context that has been fed a document, or has failed
KeyTaken(x, h, y) ==
    \/ y.state = "ERROR"
    \/ /\ Shape(y) /\ BrokerOut(y.kb, h) /\ y.kb.state = x.kb.state
       /\ \A n \in CtxNames \ {"kb"} : y[n] = x[n]

\* _mongo_feed_keys
LEMMA OutFeedKeys ==
    ASSUME NEW g, NEW x, Shape(x), NEW h, BrokerOut(x.kb, h),
           x.kb.state \in {"ADDING_DOCS", "ADDING_DOCS_ANY"},
           NEW item, NEW valid, NEW y, y = mongo_feed_keys(g, x, item, valid)
    PROVE  KeyTaken(x, h, y)
<1> DEFINE known == RequestKnown(x.kb, item.id, item.names)
           hit == CacheGet(g.keys, item, 0)
           added == AddRequest(x.kb, item.id, item.names, hit)
           asked == IF known THEN x.kb ELSE added
           taken == AcceptDoc(asked, item, TokenAtHand(g, item.kmsid), valid)
           kb == IF x.kb.state = "ADDING_DOCS_ANY" /\ ~ known /\ hit # {} THEN asked
                 ELSE IF x.kb.state = "ADDING_DOCS" /\ ~ known THEN Fail(x.kb) ELSE taken
<1>1. y = IF kb.ok THEN [x EXCEPT !.kb = kb] ELSE CtxFail([x EXCEPT !.kb = kb])
  BY DEF mongo_feed_keys
<1>2. DOMAIN x.kb = KbNames
  BY DEF Shape
<1>3. DOMAIN added = KbNames /\ added.state = x.kb.state /\ BrokerOut(added, h)
  <2>1. /\ DOMAIN added = KbNames
        /\ \A f \in KbNames \ {"requests", "cached", "iter"} : added[f] = x.kb[f]
        /\ added.iter \in {x.kb.iter, Len(x.kb.returned)}
        /\ Listed(x.kb.cached) => Listed(added.cached)
    BY <1>2, RequestAdded
  <2> HIDE DEF added
  <2>2. added.auth = x.kb.auth /\ added.returned = x.kb.returned /\ added.state = x.kb.state
    BY <2>1 DEF KbNames
  <2>3. Listed(added.cached)
    BY <2>1 DEF BrokerOut
  <2> QED
    BY <2>1, <2>2, <2>3, OutKept
<1> HIDE DEF added
<1>4. DOMAIN asked = KbNames /\ asked.state = x.kb.state /\ BrokerOut(asked, h)
  BY <1>2, <1>3
<1> HIDE DEF asked
<1>5. DOMAIN taken = KbNames /\ (taken.ok => BrokerOut(taken, h) /\ taken.state = x.kb.state)
  <2>1. asked.state # "DECRYPTING_KEY_MATERIAL"
    BY <1>4
  <2>2. DOMAIN taken = KbNames /\ (taken.ok => BrokerOut(taken, h) /\ taken.state = asked.state)
    BY <1>4, <2>1, OutFed
  <2> QED
    BY <1>4, <2>2
<1> HIDE DEF taken
<1>6. DOMAIN Fail(x.kb) = KbNames /\ ~ Fail(x.kb).ok
  BY <1>2 DEF Fail, KbNames
<1>7. DOMAIN kb = KbNames /\ (kb.ok => BrokerOut(kb, h) /\ kb.state = x.kb.state)
  BY <1>4, <1>5, <1>6
<1> HIDE DEF kb
<1> DEFINE z == [x EXCEPT !.kb = kb]
<1>8. Shape(z) /\ z.kb = kb /\ \A n \in CtxNames \ {"kb"} : z[n] = x[n]
  BY <1>7, BrokerShape
<1> HIDE DEF z
<1>9. CtxFail(z).state = "ERROR"
  BY <1>8, FailShape
<1> QED
  BY <1>1, <1>7, <1>8, <1>9 DEF z, KeyTaken

\* The first and the last of a set of positions
LEMMA Ends1 ==
    ASSUME NEW n \in Nat, NEW S, S \subseteq 1..n, S # {}
    PROVE  /\ \E i \in S : \A j \in S : i <= j
           /\ \E i \in S : \A j \in S : j <= i
<1>1. \E i \in S : \A j \in S : i <= j
  <2>1. S \subseteq Nat
    OBVIOUS
  <2> QED
    BY <2>1, LeastNatural
<1>2. \E i \in S : \A j \in S : j <= i
  <2> DEFINE B == {m \in Nat : \A j \in S : j <= m}
  <2>1. n \in B
    OBVIOUS
  <2>2. B \subseteq Nat /\ B # {}
    BY <2>1
  <2>3. PICK m \in B : \A k \in B : m <= k
    <3> HIDE DEF B
    <3> QED
      BY <2>2, LeastNatural
  <2>4. m \in Nat /\ \A j \in S : j <= m
    OBVIOUS
  <2>5. m \in S
    <3> SUFFICES ASSUME m \notin S PROVE FALSE
      OBVIOUS
    <3>1. PICK s \in S : TRUE
      OBVIOUS
    <3>2. s \in 1..n /\ s <= m /\ s # m
      BY <2>4
    <3>3. m - 1 \in Nat
      BY <2>4, <3>2
    <3>4. \A j \in S : j <= m - 1
      <4> SUFFICES ASSUME NEW j \in S PROVE j <= m - 1
        OBVIOUS
      <4>1. j \in 1..n /\ j <= m /\ j # m
        BY <2>4
      <4> QED
        BY <2>4, <4>1
    <3>5. m - 1 \in B
      BY <3>3, <3>4
    <3>6. m <= m - 1
      BY <2>3, <3>5
    <3> QED
      BY <2>4, <3>6
  <2> QED
    BY <2>4, <2>5
<1> QED
  BY <1>1, <1>2

\* next_kms returns NULL when there is no request to hand out.
LEMMA NoneLeft ==
    ASSUME NEW b, NEW h, BrokerOut(b, h), NextKmsRef(b) = {}
    PROVE  /\ b.state = "AUTHENTICATING" => AuthToHandOut(b) = {}
           /\ b.state # "AUTHENTICATING" => KeysToRetry(b) = {} /\ KeysAhead(b) = {}
<1>1. Listed(b.auth) /\ Listed(b.returned)
  BY DEF BrokerOut
<1>2. /\ Len(b.auth) \in Nat /\ DOMAIN b.auth = 1..Len(b.auth)
      /\ Len(b.returned) \in Nat /\ DOMAIN b.returned = 1..Len(b.returned)
  BY <1>1, ListIs
<1>3. ASSUME b.state = "AUTHENTICATING", AuthToHandOut(b) # {} PROVE FALSE
  <2>1. AuthToHandOut(b) \subseteq 1..Len(b.auth)
    BY <1>2 DEF AuthToHandOut
  <2>2. PICK i \in AuthToHandOut(b) : \A j \in AuthToHandOut(b) : i <= j
    BY <1>2, <1>3, <2>1, Ends1
  <2>3. <<"auth", i>> \in NextKmsRef(b)
    BY <1>3, <2>2 DEF NextKmsRef
  <2> QED
    BY <2>3
<1>4. ASSUME b.state # "AUTHENTICATING", KeysToRetry(b) # {} \/ KeysAhead(b) # {} PROVE FALSE
  <2> DEFINE from == IF KeysToRetry(b) # {} THEN KeysToRetry(b) ELSE KeysAhead(b)
  <2>1. from \subseteq 1..Len(b.returned) /\ from # {}
    BY <1>2, <1>4 DEF KeysToRetry, KeysAhead
  <2>2. NextKmsRef(b) = {<<"key", i>> : i \in {j \in from : \A k \in from : k <= j}}
    BY <1>4 DEF NextKmsRef
  <2> HIDE DEF from
  <2>3. PICK i \in from : \A j \in from : j <= i
    BY <1>2, <2>1, Ends1
  <2>4. <<"key", i>> \in NextKmsRef(b)
    BY <2>2, <2>3
  <2> QED
    BY <2>4
<1> QED
  BY <1>3, <1>4

\* KmsHandOut gives a request that is not waiting for a retry.
LEMMA HandOut ==
    ASSUME NEW kms \in Kms
    PROVE  /\ KmsHandOut(kms) \in Kms /\ KmsHandOut(kms).st # "retry"
           /\ kms.st # "retry" => KmsHandOut(kms) = kms
           /\ KmsHandOut(kms).st \in {kms.st, "pending"}
BY DEF KmsHandOut, Kms

\* A function on the domain of a sequence
LEMMA ListMap ==
    ASSUME NEW s, Listed(s), NEW f, f = [i \in DOMAIN s |-> f[i]]
    PROVE  Listed(f) /\ DOMAIN f = DOMAIN s /\ Len(f) = Len(s)
<1>1. Len(s) \in Nat /\ DOMAIN s = 1..Len(s)
  BY ListIs
<1>2. f = [i \in 1..Len(s) |-> f[i]]
  BY <1>1
<1> QED
  BY <1>1, <1>2, ListFrom

\* A broker that is authenticating hands out a request.
LEMMA OutNextAuth ==
    ASSUME NEW b, NEW h, BrokerOut(b, h), DOMAIN b = KbNames, b.state = "AUTHENTICATING",
           NEW n, n = NextKms(b)
    PROVE  /\ n.state = b.state /\ BrokerOut(n, h \cup NextKmsRef(b))
           /\ NextKmsRef(b) = {} => NextKmsRef(n) = {}
<1> DEFINE refs == NextKmsRef(b)
           a == [i \in DOMAIN b.auth |->
                    IF <<"auth", i>> \in refs
                    THEN [b.auth[i] EXCEPT !.returned = TRUE, !.kms = KmsHandOut(@)]
                    ELSE b.auth[i]]
<1>0. b.auth # <<>>
  BY DEF BrokerOut
<1>1. n = [b EXCEPT !.auth = a]
  BY <1>0 DEF NextKms
<1>2. DOMAIN a = DOMAIN b.auth /\ a = [i \in DOMAIN b.auth |-> a[i]]
  OBVIOUS
<1>3. \A i \in DOMAIN b.auth : a[i] = IF <<"auth", i>> \in refs
                    THEN [b.auth[i] EXCEPT !.returned = TRUE, !.kms = KmsHandOut(@)]
                    ELSE b.auth[i]
  OBVIOUS
<1> HIDE DEF a, refs
<1>4. /\ n.auth = a /\ n.returned = b.returned /\ n.cached = b.cached /\ n.iter = b.iter
      /\ n.state = b.state
  BY <1>1 DEF KbNames
<1>5. Listed(a)
  <2>1. Listed(b.auth)
    BY DEF BrokerOut
  <2> QED
    BY <1>2, <2>1, ListMap
<1>6. a # <<>>
  <2>1. Listed(b.auth)
    BY DEF BrokerOut
  <2>2. DOMAIN b.auth # {}
    <3>1. PICK S : b.auth \in Seq(S)
      BY <2>1 DEF Listed
    <3>2. Len(b.auth) # 0
      BY <1>0, <3>1, EmptySeq
    <3>3. Len(b.auth) \in Nat /\ DOMAIN b.auth = 1..Len(b.auth)
      BY <2>1, ListIs
    <3>4. 1 \in DOMAIN b.auth
      BY <3>2, <3>3
    <3> QED
      BY <3>4
  <2>3. DOMAIN <<>> = {}
    OBVIOUS
  <2> QED
    BY <1>2, <2>2, <2>3
<1>7. ASSUME NEW i \in DOMAIN n.auth PROVE AuthOut(n, h \cup refs, i)
  <2>1. i \in DOMAIN b.auth /\ n.auth[i] = a[i]
    BY <1>2, <1>4, <1>7
  <2>2. AuthOut(b, h, i)
    BY <2>1 DEF BrokerOut
  <2>3. CASE <<"auth", i>> \in refs
    <3>1. a[i] = [b.auth[i] EXCEPT !.returned = TRUE, !.kms = KmsHandOut(@)]
      BY <1>3, <2>1, <2>3
    <3>2. DOMAIN b.auth[i] = AuthNames /\ b.auth[i].kms \in Kms
      BY <2>2 DEF AuthOut
    <3>3. DOMAIN a[i] = AuthNames /\ a[i].kms = KmsHandOut(b.auth[i].kms)
      BY <3>1, <3>2 DEF AuthNames
    <3>4. a[i].kms \in Kms
      BY <3>2, <3>3, HandOut
    <3> QED
      BY <2>1, <2>3, <3>3, <3>4 DEF AuthOut
  <2>4. CASE <<"auth", i>> \notin refs
    <3>1. a[i] = b.auth[i]
      BY <1>3, <2>1, <2>4
    <3> QED
      BY <2>1, <2>2, <3>1 DEF AuthOut
  <2> QED
    BY <2>3, <2>4
<1>8. ASSUME NEW i \in DOMAIN n.returned PROVE KeyOut(n, h \cup refs, i)
  <2>1. KeyOut(b, h, i)
    BY <1>4, <1>8 DEF BrokerOut
  <2> QED
    BY <1>4, <1>6, <2>1 DEF KeyOut
<1>9. ASSUME refs = {} PROVE NextKmsRef(n) = {}
  <2>1. \A i \in DOMAIN b.auth : a[i] = b.auth[i]
    BY <1>3, <1>9
  <2>2. AuthToHandOut(b) = {}
    BY <1>9, NoneLeft DEF refs
  <2>3. AuthToHandOut(n) = {}
    BY <1>2, <1>4, <2>1, <2>2 DEF AuthToHandOut
  <2> QED
    BY <1>4, <2>3 DEF NextKmsRef
<1> QED
  BY <1>4, <1>5, <1>6, <1>7, <1>8, <1>9 DEF BrokerOut, refs

\* So does one that decrypts.
LEMMA OutNextKey ==
    ASSUME NEW b, NEW h, BrokerOut(b, h), DOMAIN b = KbNames,
           b.state = "DECRYPTING_KEY_MATERIAL", NEW n, n = NextKms(b)
    PROVE  /\ n.state = b.state /\ BrokerOut(n, h \cup NextKmsRef(b))
           /\ NextKmsRef(b) = {} => NextKmsRef(n) = {}
<1> DEFINE refs == NextKmsRef(b)
<1>1. Listed(b.returned) /\ Listed(b.auth) /\ Listed(b.cached) /\ b.iter \in Nat
  BY DEF BrokerOut
<1>2. Len(b.returned) \in Nat /\ DOMAIN b.returned = 1..Len(b.returned)
  BY <1>1, ListIs
<1>3. \A i \in DOMAIN b.returned : /\ DOMAIN b.returned[i] = KeyNames /\ b.returned[i].kms \in Kms
                                   /\ ~ b.returned[i].needsAuth
  BY DEF BrokerOut, KeyOut
<1>4. CASE KeysToRetry(b) # {}
  <2> DEFINE at == ListFirst(KeysToRetry(b))
             e == [b.returned[at] EXCEPT !.kms = KmsHandOut(@)]
             r == [b.returned EXCEPT ![at] = e]
  <2>1. at \in KeysToRetry(b) /\ \A j \in KeysToRetry(b) : j <= at
    <3>1. KeysToRetry(b) \subseteq 1..Len(b.returned)
      BY <1>2 DEF KeysToRetry
    <3>2. \E i \in KeysToRetry(b) : \A j \in KeysToRetry(b) : j <= i
      BY <1>2, <1>4, <3>1, Ends1
    <3> QED
      BY <3>2 DEF ListFirst
  <2>2. n = [b EXCEPT !.returned = r]
    BY <1>4 DEF NextKms
  <2>3. <<"key", at>> \in refs
    BY <1>4, <2>1 DEF NextKmsRef
  <2> HIDE DEF at
  <2>4. at \in DOMAIN b.returned
    BY <2>1 DEF KeysToRetry
  <2>5. DOMAIN e = KeyNames /\ e.kms \in Kms /\ ~ e.needsAuth /\ e.decrypted = b.returned[at].decrypted
    <3>1. DOMAIN b.returned[at] = KeyNames /\ b.returned[at].kms \in Kms /\ ~ b.returned[at].needsAuth
      BY <1>3, <2>4
    <3>2. DOMAIN e = KeyNames /\ e.kms = KmsHandOut(b.returned[at].kms)
          /\ e.needsAuth = b.returned[at].needsAuth /\ e.decrypted = b.returned[at].decrypted
      BY <3>1 DEF KeyNames
    <3> HIDE DEF e
    <3> QED
      BY <3>1, <3>2, HandOut
  <2> HIDE DEF e
  <2>6. DOMAIN r = DOMAIN b.returned /\ r[at] = e /\ \A i \in DOMAIN b.returned \ {at} : r[i] = b.returned[i]
    BY <2>4
  <2>7. Listed(r)
    <3>1. r = [i \in DOMAIN b.returned |-> r[i]]
      OBVIOUS
    <3> HIDE DEF r
    <3> QED
      BY <1>1, <3>1, ListMap
  <2> HIDE DEF r
  <2>8. /\ n.auth = b.auth /\ n.returned = r /\ n.cached = b.cached /\ n.iter = b.iter
        /\ n.state = b.state
    BY <2>2 DEF KbNames
  <2>9. ASSUME NEW i \in DOMAIN n.auth PROVE AuthOut(n, h \cup refs, i)
    <3>1. AuthOut(b, h, i)
      BY <2>8, <2>9 DEF BrokerOut
    <3> QED
      BY <2>8, <3>1 DEF AuthOut
  <2>10. ASSUME NEW i \in DOMAIN n.returned PROVE KeyOut(n, h \cup refs, i)
    <3>1. i \in DOMAIN b.returned
      BY <2>6, <2>8, <2>10
    <3>2. KeyOut(b, h, i)
      BY <3>1 DEF BrokerOut
    <3>3. CASE i = at
      <4>1. n.returned[i] = e
        BY <2>6, <2>8, <3>3
      <4> QED
        BY <2>3, <2>5, <3>3, <4>1 DEF KeyOut
    <3>4. CASE i # at
      <4>1. n.returned[i] = b.returned[i]
        BY <2>6, <2>8, <3>1, <3>4
      <4> QED
        BY <2>8, <3>2, <4>1 DEF KeyOut
    <3> QED
      BY <3>3, <3>4
  <2>11. refs # {}
    BY <2>3
  <2> QED
    BY <1>1, <2>7, <2>8, <2>9, <2>10, <2>11 DEF BrokerOut
<1>5. CASE KeysToRetry(b) = {}
  <2> DEFINE at == IF KeysAhead(b) = {} THEN 0 ELSE ListFirst(KeysAhead(b)) - 1
  <2>1. n = [b EXCEPT !.iter = at]
    BY <1>5 DEF NextKms
  <2>2. at \in Nat /\ \A i \in KeysAhead(b) : i <= at \/ <<"key", i>> \in refs
    <3>1. CASE KeysAhead(b) = {}
      BY <3>1
    <3>2. CASE KeysAhead(b) # {}
      <4> DEFINE first == ListFirst(KeysAhead(b))
      <4>1. KeysAhead(b) \subseteq 1..Len(b.returned)
        BY <1>2 DEF KeysAhead
      <4>2. \E i \in KeysAhead(b) : \A j \in KeysAhead(b) : j <= i
        BY <1>2, <3>2, <4>1, Ends1
      <4>3. first \in KeysAhead(b) /\ \A j \in KeysAhead(b) : j <= first
        BY <4>2 DEF ListFirst
      <4>4. <<"key", first>> \in refs
        BY <1>5, <4>3 DEF NextKmsRef
      <4>5. at = first - 1
        BY <3>2
      <4> HIDE DEF first, at, refs
      <4>6. first \in 1..Len(b.returned)
        BY <4>1, <4>3
      <4>7. ASSUME NEW i \in KeysAhead(b) PROVE i <= at \/ <<"key", i>> \in refs
        <5>1. i \in 1..Len(b.returned) /\ i <= first
          BY <4>1, <4>3
        <5>2. i = first \/ i <= first - 1
          BY <1>2, <4>6, <5>1
        <5> QED
          BY <4>4, <4>5, <5>2
      <4> QED
        BY <1>2, <4>5, <4>6, <4>7
    <3> QED
      BY <3>1, <3>2
  <2>3. KeysAhead(b) = {} => at = 0
    OBVIOUS
  <2> HIDE DEF at
  <2>4. /\ n.auth = b.auth /\ n.returned = b.returned /\ n.cached = b.cached /\ n.iter = at
        /\ n.state = b.state
    BY <2>1 DEF KbNames
  <2>5. ASSUME NEW i \in DOMAIN n.auth PROVE AuthOut(n, h \cup refs, i)
    <3>1. AuthOut(b, h, i)
      BY <2>4, <2>5 DEF BrokerOut
    <3> QED
      BY <2>4, <3>1 DEF AuthOut
  <2>6. ASSUME NEW i \in DOMAIN n.returned PROVE KeyOut(n, h \cup refs, i)
    <3>1. i \in DOMAIN b.returned
      BY <2>4, <2>6
    <3>2. KeyOut(b, h, i) /\ ~ b.returned[i].needsAuth
      BY <1>3, <3>1 DEF BrokerOut
    <3>3. ASSUME ~ b.returned[i].decrypted, b.returned[i].kms.st = "pending"
          PROVE  i <= at \/ <<"key", i>> \in h \cup refs
      <4>1. i <= b.iter \/ <<"key", i>> \in h
        BY <3>2, <3>3 DEF KeyOut
      <4>2. i <= b.iter => i \in KeysAhead(b)
        BY <3>1, <3>3 DEF KeysAhead
      <4> QED
        BY <2>2, <4>1, <4>2
    <3> QED
      BY <2>4, <3>2, <3>3 DEF KeyOut
  <2>7. ASSUME refs = {} PROVE NextKmsRef(n) = {}
    <3>1. KeysAhead(b) = {}
      BY <2>7, NoneLeft
    <3>2. n.iter = 0
      BY <2>3, <2>4, <3>1
    <3>3. KeysAhead(n) = {}
      BY <1>2, <2>4, <3>2 DEF KeysAhead
    <3>4. KeysToRetry(n) = {}
      BY <1>5, <2>4 DEF KeysToRetry
    <3> QED
      BY <2>4, <3>3, <3>4 DEF NextKmsRef
  <2> QED
    BY <1>1, <2>2, <2>4, <2>5, <2>6, <2>7 DEF BrokerOut
<1> QED
  BY <1>4, <1>5

\* _mongocrypt_key_broker_kms_done
LEMMA OutKmsDone ==
    ASSUME NEW x, Shape(x), NEW h, BrokerOut(x.kb, h),
           x.kb.state \in {"AUTHENTICATING", "DECRYPTING_KEY_MATERIAL"},
           NEW y, y = KbKmsDone(x)
    PROVE  \/ Stopped(y)
           \/ /\ Shape(y) /\ BrokerOut(y.kb, h)
              /\ y.kb.state \in {"DECRYPTING_KEY_MATERIAL", "DONE"}
              /\ \A n \in CtxNames \ {"kb"} : y[n] = x[n]
<1> DEFINE b == x.kb
           rekeyed == [i \in DOMAIN b.returned |->
              IF b.returned[i].needsAuth
              THEN [b.returned[i] EXCEPT !.needsAuth = FALSE, !.kms = KmsNew]
              ELSE b.returned[i]]
           open == [b EXCEPT !.returned = rekeyed, !.state = "DECRYPTING_KEY_MATERIAL"]
           decrypted == [i \in DOMAIN b.returned |-> [b.returned[i] EXCEPT !.decrypted = TRUE]]
           full == [b EXCEPT !.state = "DONE", !.returned = decrypted]
           failed == [x EXCEPT !.kb = Fail(b)]
<1>1. DOMAIN b = KbNames /\ DOMAIN x = CtxNames
  BY DEF Shape
<1>2. \/ y = CtxAbort(x) \/ y = CtxFail(failed)
      \/ y = [x EXCEPT !.kb = open] /\ b.state = "AUTHENTICATING"
      \/ y = [x EXCEPT !.kb = full] /\ b.state = "DECRYPTING_KEY_MATERIAL"
  <2> DEFINE auths == {b.auth[i].kms.st : i \in DOMAIN b.auth}
             ready == \A i \in DOMAIN b.returned :
                        SkipsKey(b.returned[i]) \/ MaterialReady(b.returned[i])
  <2>1. y = IF b.state = "AUTHENTICATING"
            THEN IF "retry" \in auths THEN CtxAbort(x)
                 ELSE IF auths # {"done"} THEN CtxFail(failed)
                 ELSE [x EXCEPT !.kb = open]
            ELSE IF ~ ready THEN CtxFail(failed)
            ELSE [x EXCEPT !.kb = full]
    BY DEF KbKmsDone
  <2> HIDE DEF auths, ready, open, full, failed
  <2> QED
    BY <2>1
<1>3. Listed(b.returned) /\ Listed(b.auth) /\ Listed(b.cached) /\ b.iter \in Nat
  BY DEF BrokerOut
<1>4. \A i \in DOMAIN b.returned : KeyOut(b, h, i)
  BY DEF BrokerOut
<1>5. \A i \in DOMAIN b.auth : AuthOut(b, h, i)
  BY DEF BrokerOut
<1>6. CASE y = [x EXCEPT !.kb = open] /\ b.state = "AUTHENTICATING"
  <2>1. \A i \in DOMAIN b.returned : rekeyed[i] =
              IF b.returned[i].needsAuth
              THEN [b.returned[i] EXCEPT !.needsAuth = FALSE, !.kms = KmsNew]
              ELSE b.returned[i]
    OBVIOUS
  <2>2. Listed(rekeyed) /\ DOMAIN rekeyed = DOMAIN b.returned
    <3>1. rekeyed = [i \in DOMAIN b.returned |-> rekeyed[i]]
      OBVIOUS
    <3> HIDE DEF rekeyed
    <3> QED
      BY <1>3, <3>1, ListMap
  <2> HIDE DEF rekeyed
  <2>3. /\ DOMAIN open = KbNames /\ open.auth = b.auth /\ open.returned = rekeyed
        /\ open.cached = b.cached /\ open.iter = b.iter /\ open.state = "DECRYPTING_KEY_MATERIAL"
    BY <1>1 DEF KbNames
  <2> HIDE DEF open
  <2>4. ASSUME NEW i \in DOMAIN open.returned PROVE KeyOut(open, h, i)
    <3>1. i \in DOMAIN b.returned /\ open.returned[i] = rekeyed[i]
      BY <2>2, <2>3, <2>4
    <3>2. KeyOut(b, h, i)
      BY <1>4, <3>1
    <3>3. CASE b.returned[i].needsAuth
      <4>1. rekeyed[i] = [b.returned[i] EXCEPT !.needsAuth = FALSE, !.kms = KmsNew]
        BY <2>1, <3>1, <3>3
      <4>2. DOMAIN b.returned[i] = KeyNames /\ i <= b.iter
        BY <3>2, <3>3 DEF KeyOut
      <4>3. DOMAIN rekeyed[i] = KeyNames /\ rekeyed[i].kms = KmsNew /\ ~ rekeyed[i].needsAuth
        BY <4>1, <4>2 DEF KeyNames
      <4>4. KmsNew \in Kms
        BY DEF Kms, KmsNew
      <4> QED
        BY <2>3, <3>1, <4>2, <4>3, <4>4 DEF KeyOut
    <3>4. CASE ~ b.returned[i].needsAuth
      <4>1. rekeyed[i] = b.returned[i]
        BY <2>1, <3>1, <3>4
      <4> QED
        BY <2>3, <3>1, <3>2, <3>4, <4>1 DEF KeyOut
    <3> QED
      BY <3>3, <3>4
  <2>5. ASSUME NEW i \in DOMAIN open.auth PROVE AuthOut(open, h, i)
    BY <1>5, <2>3, <2>5 DEF AuthOut
  <2>6. BrokerOut(open, h)
    BY <1>3, <2>2, <2>3, <2>4, <2>5 DEF BrokerOut
  <2>7. Shape(y) /\ y.kb = open /\ \A n \in CtxNames \ {"kb"} : y[n] = x[n]
    BY <1>6, <2>3, BrokerShape
  <2> QED
    BY <2>3, <2>6, <2>7
<1>7. CASE y = [x EXCEPT !.kb = full] /\ b.state = "DECRYPTING_KEY_MATERIAL"
  <2>1. \A i \in DOMAIN b.returned : decrypted[i] = [b.returned[i] EXCEPT !.decrypted = TRUE]
    OBVIOUS
  <2>2. Listed(decrypted) /\ DOMAIN decrypted = DOMAIN b.returned
    <3>1. decrypted = [i \in DOMAIN b.returned |-> decrypted[i]]
      OBVIOUS
    <3> HIDE DEF decrypted
    <3> QED
      BY <1>3, <3>1, ListMap
  <2> HIDE DEF decrypted
  <2>3. /\ DOMAIN full = KbNames /\ full.auth = b.auth /\ full.returned = decrypted
        /\ full.cached = b.cached /\ full.iter = b.iter /\ full.state = "DONE"
    BY <1>1 DEF KbNames
  <2> HIDE DEF full
  <2>4. ASSUME NEW i \in DOMAIN full.returned PROVE KeyOut(full, h, i)
    <3>1. i \in DOMAIN b.returned /\ full.returned[i] = decrypted[i]
      BY <2>2, <2>3, <2>4
    <3>2. KeyOut(b, h, i)
      BY <1>4, <3>1
    <3>3. DOMAIN b.returned[i] = KeyNames /\ ~ b.returned[i].needsAuth /\ b.returned[i].kms \in Kms
      BY <1>7, <3>2 DEF KeyOut
    <3>4. /\ DOMAIN decrypted[i] = KeyNames /\ ~ decrypted[i].needsAuth /\ decrypted[i].decrypted
          /\ decrypted[i].kms = b.returned[i].kms
      BY <2>1, <3>1, <3>3 DEF KeyNames
    <3> QED
      BY <2>3, <3>1, <3>3, <3>4 DEF KeyOut
  <2>5. ASSUME NEW i \in DOMAIN full.auth PROVE AuthOut(full, h, i)
    BY <1>5, <2>3, <2>5 DEF AuthOut
  <2>6. BrokerOut(full, h)
    BY <1>3, <2>2, <2>3, <2>4, <2>5 DEF BrokerOut
  <2>7. Shape(y) /\ y.kb = full /\ \A n \in CtxNames \ {"kb"} : y[n] = x[n]
    BY <1>7, <2>3, BrokerShape
  <2> QED
    BY <2>3, <2>6, <2>7
<1>8. CASE y = CtxAbort(x)
  BY <1>1, <1>8 DEF CtxAbort, Stopped, CtxNames
<1>9. CASE y = CtxFail(failed)
  <2>1. DOMAIN failed = CtxNames
    BY <1>1
  <2> HIDE DEF failed
  <2> QED
    BY <1>9, <2>1 DEF CtxFail, Stopped, CtxNames
<1> QED
  BY <1>2, <1>6, <1>7, <1>8, <1>9

\* A request that has been fed is not under way.
LEMMA RequestEnds ==
    ASSUME NEW kms \in Kms, NEW retryable, NEW k \in KmsEnds(kms, retryable)
    PROVE  k \in Kms /\ k.st # "pending"
<1>1. \/ k = [kms EXCEPT !.st = "done"] \/ k = [kms EXCEPT !.st = "failed"]
      \/ k = [st |-> "retry", attempts |-> kms.attempts + 1]
  BY DEF KmsEnds
<1> QED
  BY <1>1 DEF Kms

\* An OAuth request has been fed.
LEMMA AuthCompleted ==
    ASSUME NEW b, DOMAIN b = KbNames, NEW h, BrokerOut(b, h), NEW ref, ref[1] = "auth",
           NEW r, NEW kms \in KmsEnds(b.auth[ref[2]].kms, r),
           NEW n, n = [b EXCEPT !.auth[ref[2]].kms = kms]
    PROVE  DOMAIN n = KbNames /\ BrokerOut(n, h \ {ref}) /\ n.state = b.state
<1> DEFINE at == ref[2]
           a == [b.auth EXCEPT ![at].kms = kms]
<1>1. /\ DOMAIN n = KbNames /\ n.auth = a /\ n.returned = b.returned /\ n.cached = b.cached
      /\ n.iter = b.iter /\ n.state = b.state
  BY DEF KbNames
<1>2. DOMAIN a = DOMAIN b.auth /\ a = [i \in DOMAIN b.auth |-> a[i]]
  OBVIOUS
<1>3. \A i \in DOMAIN b.auth : a[i] = IF i = at THEN [b.auth[i] EXCEPT !.kms = kms] ELSE b.auth[i]
  OBVIOUS
<1> HIDE DEF a, at
<1>4. Listed(a) /\ Len(a) = Len(b.auth)
  <2>1. Listed(b.auth)
    BY DEF BrokerOut
  <2> QED
    BY <1>2, <2>1, ListMap
<1>5. b.auth # <<>> => a # <<>>
  <2>1. Listed(b.auth)
    BY DEF BrokerOut
  <2>2. PICK S : b.auth \in Seq(S)
    BY <2>1 DEF Listed
  <2>3. b.auth # <<>> => Len(b.auth) # 0
    BY <2>2, EmptySeq
  <2>4. Len(<<>>) = 0
    OBVIOUS
  <2> QED
    BY <1>4, <2>3, <2>4
<1>6. ASSUME NEW i \in DOMAIN n.auth PROVE AuthOut(n, h \ {ref}, i)
  <2>1. i \in DOMAIN b.auth /\ n.auth[i] = a[i]
    BY <1>1, <1>2, <1>6
  <2>2. AuthOut(b, h, i)
    BY <2>1 DEF BrokerOut
  <2>3. CASE i = at
    <3>1. a[i] = [b.auth[i] EXCEPT !.kms = kms]
      BY <1>3, <2>1, <2>3
    <3>2. DOMAIN b.auth[i] = AuthNames /\ b.auth[i].kms \in Kms
      BY <2>2 DEF AuthOut
    <3>3. kms \in Kms /\ kms.st # "pending"
      BY <2>3, <3>2, RequestEnds DEF at
    <3>4. DOMAIN a[i] = AuthNames /\ a[i].kms = kms
      BY <3>1, <3>2 DEF AuthNames
    <3> QED
      BY <2>1, <3>3, <3>4 DEF AuthOut
  <2>4. CASE i # at
    <3>1. a[i] = b.auth[i]
      BY <1>3, <2>1, <2>4
    <3>2. <<"auth", i>> # ref
      BY <2>4 DEF at
    <3> QED
      BY <2>1, <2>2, <3>1, <3>2 DEF AuthOut
  <2> QED
    BY <2>3, <2>4
<1>7. ASSUME NEW i \in DOMAIN n.returned PROVE KeyOut(n, h \ {ref}, i)
  <2>1. KeyOut(b, h, i)
    BY <1>1, <1>7 DEF BrokerOut
  <2>2. <<"key", i>> # ref
    OBVIOUS
  <2> QED
    BY <1>1, <1>5, <2>1, <2>2 DEF KeyOut
<1> QED
  BY <1>1, <1>4, <1>5, <1>6, <1>7 DEF BrokerOut

\* The request of a key has been fed.
LEMMA KeyCompleted ==
    ASSUME NEW b, DOMAIN b = KbNames, NEW h, BrokerOut(b, h), NEW ref, ref[1] = "key",
           NEW r, NEW kms \in KmsEnds(b.returned[ref[2]].kms, r),
           NEW n, n = [b EXCEPT !.returned[ref[2]].kms = kms]
    PROVE  DOMAIN n = KbNames /\ BrokerOut(n, h \ {ref}) /\ n.state = b.state
<1> DEFINE at == ref[2]
           a == [b.returned EXCEPT ![at].kms = kms]
<1>1. /\ DOMAIN n = KbNames /\ n.auth = b.auth /\ n.returned = a /\ n.cached = b.cached
      /\ n.iter = b.iter /\ n.state = b.state
  BY DEF KbNames
<1>2. DOMAIN a = DOMAIN b.returned /\ a = [i \in DOMAIN b.returned |-> a[i]]
  OBVIOUS
<1>3. \A i \in DOMAIN b.returned :
        a[i] = IF i = at THEN [b.returned[i] EXCEPT !.kms = kms] ELSE b.returned[i]
  OBVIOUS
<1> HIDE DEF a, at
<1>4. Listed(a)
  <2>1. Listed(b.returned)
    BY DEF BrokerOut
  <2> QED
    BY <1>2, <2>1, ListMap
<1>5. ASSUME NEW i \in DOMAIN n.auth PROVE AuthOut(n, h \ {ref}, i)
  <2>1. AuthOut(b, h, i)
    BY <1>1, <1>5 DEF BrokerOut
  <2>2. <<"auth", i>> # ref
    OBVIOUS
  <2> QED
    BY <1>1, <2>1, <2>2 DEF AuthOut
<1>6. ASSUME NEW i \in DOMAIN n.returned PROVE KeyOut(n, h \ {ref}, i)
  <2>1. i \in DOMAIN b.returned /\ n.returned[i] = a[i]
    BY <1>1, <1>2, <1>6
  <2>2. KeyOut(b, h, i)
    BY <2>1 DEF BrokerOut
  <2>3. CASE i = at
    <3>1. a[i] = [b.returned[i] EXCEPT !.kms = kms]
      BY <1>3, <2>1, <2>3
    <3>2. DOMAIN b.returned[i] = KeyNames /\ b.returned[i].kms \in Kms
      BY <2>2 DEF KeyOut
    <3>3. kms \in Kms /\ kms.st # "pending"
      BY <2>3, <3>2, RequestEnds DEF at
    <3>4. DOMAIN a[i] = KeyNames /\ a[i].kms = kms /\ a[i].needsAuth = b.returned[i].needsAuth
      BY <3>1, <3>2 DEF KeyNames
    <3> QED
      BY <1>1, <2>1, <2>2, <3>3, <3>4 DEF KeyOut
  <2>4. CASE i # at
    <3>1. a[i] = b.returned[i]
      BY <1>3, <2>1, <2>4
    <3>2. <<"key", i>> # ref
      BY <2>4 DEF at
    <3> QED
      BY <1>1, <2>1, <2>2, <3>1, <3>2 DEF KeyOut
  <2> QED
    BY <2>3, <2>4
<1> QED
  BY <1>1, <1>4, <1>5, <1>6 DEF BrokerOut

-----------------------------------------------------------------------------
(***************************************************************************)
(* The sub-contexts that encrypt data keys again (mongocrypt-ctx-rewrap-   *)
(* many-datakey.c), whose iterator counts up.                              *)
(***************************************************************************)
\* A sub-context whose request, if it has one, is still to be handed out
SubNew(e) ==
    /\ DOMAIN e = DkNames /\ e.kms \in Kms /\ e.state \in {"NEED_KMS", "READY", "ERROR"}
    /\ e.state = "NEED_KMS" =>
            /\ e.type \in {"OAUTH", "WRAP", "REGISTER", "CREATE", "ACTIVATE", "GET", "ENCRYPT"}
            /\ e.opts.provider \in KmsProviders /\ ~ e.returned

\* A request of a data key
LEMMA SubSends ==
    ASSUME NEW d, DOMAIN d = DkNames, d.opts.provider \in KmsProviders, ~ d.returned,
           NEW type \in {"OAUTH", "WRAP", "REGISTER", "CREATE", "ACTIVATE", "GET", "ENCRYPT"},
           NEW e, e = DK!Sends(d, type)
    PROVE  SubNew(e)
<1>1. e = [d EXCEPT !.type = type, !.kms = DK!KmsNew, !.state = "NEED_KMS"]
  BY DEF DK!Sends
<1>2. /\ DOMAIN e = DkNames /\ e.kms = DK!KmsNew /\ e.type = type /\ e.opts = d.opts
      /\ e.returned = d.returned /\ e.state = "NEED_KMS"
  BY <1>1 DEF DkNames
<1>3. DK!KmsNew \in Kms
  BY DEF Kms, DK!KmsNew
<1> QED
  BY <1>2, <1>3 DEF SubNew

\* _kms_start
LEMMA SubStarts ==
    ASSUME NEW d, DOMAIN d = DkNames, d.kms \in Kms,
           d.opts.configured => d.opts.provider \in KmsProviders,
           NEW cached, NEW e, e = DK!KmsStart(d, cached, TRUE)
    PROVE  SubNew(e)
<1> DEFINE clear == [d EXCEPT !.type = "NONE", !.kms = DK!KmsUnset, !.returned = FALSE, !.pc = "idle"]
           p == d.opts.provider
<1>1. CASE ~ d.opts.configured
  <2>1. e = [d EXCEPT !.state = "ERROR", !.pc = "idle"]
    BY <1>1 DEF DK!KmsStart, DK!Fail
  <2>2. DOMAIN e = DkNames /\ e.kms = d.kms /\ e.state = "ERROR"
    BY <2>1 DEF DkNames
  <2> QED
    BY <2>2 DEF SubNew
<1>2. CASE d.opts.configured
  <2>1. e = CASE p = "local" -> [clear EXCEPT !.material = TRUE, !.state = "READY"]
              [] p = "aws" -> DK!Sends(clear, "WRAP")
              [] p \in DK!OAuthProviders ->
                    DK!Sends(clear, IF d.opts.token \/ cached THEN "WRAP" ELSE "OAUTH")
              [] p = "kmip" -> DK!KmipStart(clear)
    BY <1>2 DEF DK!KmsStart
  <2>2. DOMAIN clear = DkNames /\ clear.opts = d.opts /\ ~ clear.returned /\ clear.kms = DK!KmsUnset
    BY DEF DkNames
  <2>3. DK!KmsUnset \in Kms
    BY DEF Kms, DK!KmsUnset
  <2>4. p \in KmsProviders
    BY <1>2
  <2> HIDE DEF clear
  <2>5. CASE p = "local"
    <3>1. e = [clear EXCEPT !.material = TRUE, !.state = "READY"]
      BY <2>1, <2>5 DEF DK!OAuthProviders
    <3> QED
      BY <2>2, <2>3, <3>1 DEF SubNew, DkNames
  <2>6. CASE p = "aws"
    <3>1. e = DK!Sends(clear, "WRAP")
      BY <2>1, <2>6 DEF DK!OAuthProviders
    <3> QED
      BY <2>2, <2>4, <3>1, SubSends
  <2>7. CASE p \in {"azure", "gcp"}
    <3> DEFINE type == IF d.opts.token \/ cached THEN "WRAP" ELSE "OAUTH"
    <3>1. e = DK!Sends(clear, type)
      BY <2>1, <2>7 DEF DK!OAuthProviders
    <3>2. type \in {"OAUTH", "WRAP", "REGISTER", "CREATE", "ACTIVATE", "GET", "ENCRYPT"}
      OBVIOUS
    <3> HIDE DEF type
    <3> QED
      BY <2>2, <2>4, <3>1, <3>2, SubSends
  <2>8. CASE p = "kmip"
    <3> DEFINE f == IF clear.opts.keyId /\ ~ clear.uid
                    THEN [clear EXCEPT !.uid = TRUE, !.activated = TRUE] ELSE clear
               ready == [f EXCEPT !.material = TRUE, !.masterKey = TRUE, !.state = "READY"]
    <3>1. e = DK!KmipStart(clear)
      BY <2>1, <2>8 DEF DK!OAuthProviders
    <3>2. e = IF ~ f.uid
              THEN DK!Sends(f, IF f.opts.delegated THEN "CREATE" ELSE "REGISTER")
              ELSE IF ~ f.activated THEN DK!Sends(f, "ACTIVATE")
              ELSE IF f.opts.delegated /\ ~ f.material THEN DK!Sends(f, "ENCRYPT")
              ELSE IF ~ f.opts.delegated /\ ~ f.secretdata THEN DK!Sends(f, "GET")
              ELSE ready
      BY <3>1 DEF DK!KmipStart
    <3>3. DOMAIN f = DkNames /\ f.opts = d.opts /\ ~ f.returned /\ f.kms = DK!KmsUnset
      BY <2>2 DEF DkNames
    <3>4. \/ e = ready
          \/ \E type \in {"REGISTER", "CREATE", "ACTIVATE", "GET", "ENCRYPT"} : e = DK!Sends(f, type)
      <4> HIDE DEF f, ready
      <4> QED
        BY <3>2
    <3> HIDE DEF f
    <3>5. CASE e = ready
      BY <2>3, <3>3, <3>5 DEF SubNew, DkNames
    <3>6. CASE \E type \in {"REGISTER", "CREATE", "ACTIVATE", "GET", "ENCRYPT"} : e = DK!Sends(f, type)
      BY <2>4, <3>3, <3>6, SubSends
    <3> QED
      BY <3>4, <3>5, <3>6
  <2> QED
    BY <2>4, <2>5, <2>6, <2>7, <2>8 DEF KmsProviders, HttpProviders, OAuthProviders
<1> QED
  BY <1>1, <1>2

\* mongocrypt_ctx_kms_done of a sub-context
LEMMA SubDone ==
    ASSUME NEW g, NEW d, SubOK(d), NEW e, e = SubKmsDone(g, d)
    PROVE  SubOK(e) /\ (e.dk.state = "NEED_KMS" => ~ e.dk.returned)
<1>1. CASE d.dk.state # "NEED_KMS"
  BY <1>1 DEF SubKmsDone
<1>2. CASE d.dk.state = "NEED_KMS"
  <2> DEFINE f == DK!KmsDoneWith(d.dk, TRUE)
             k == Started(g, f, d.kek)
  <2>1. e = [d EXCEPT !.dk = k]
    BY <1>2 DEF SubKmsDone
  <2>2. /\ DOMAIN d = SubNames /\ DOMAIN d.dk = DkNames /\ d.dk.kms \in Kms
        /\ d.dk.type \in {"OAUTH", "WRAP", "REGISTER", "CREATE", "ACTIVATE", "GET", "ENCRYPT"}
        /\ d.dk.opts.provider \in KmsProviders
    BY <1>2 DEF SubOK
  <2>3. /\ DOMAIN f = DkNames /\ f.kms = d.dk.kms /\ f.opts = d.dk.opts
        /\ f.pc = "start" \/ f.state = "READY"
    <3>1. \/ f = [d.dk EXCEPT !.material = TRUE, !.state = "READY"]
          \/ f = [d.dk EXCEPT !.pc = "start"]
          \/ f = [d.dk EXCEPT !.uid = TRUE, !.pc = "start"]
          \/ f = [d.dk EXCEPT !.activated = TRUE, !.pc = "start"]
          \/ f = [d.dk EXCEPT !.secretdata = TRUE, !.pc = "start"]
          \/ f = [d.dk EXCEPT !.material = TRUE, !.pc = "start"]
      BY <2>2 DEF DK!KmsDoneWith
    <3> HIDE DEF f
    <3> QED
      BY <2>2, <3>1 DEF DkNames
  <2> HIDE DEF f
  <2>4. SubNew(k)
    <3>1. CASE f.pc = "start"
      <4>1. k = DK!KmsStart(f, TokenAtHand(g, d.kek), TRUE)
        BY <3>1 DEF Started
      <4> HIDE DEF k
      <4> QED
        BY <2>2, <2>3, <4>1, SubStarts
    <3>2. CASE f.pc # "start"
      <4>1. k = f
        BY <3>2 DEF Started
      <4> QED
        BY <2>2, <2>3, <3>2, <4>1 DEF SubNew
    <3> QED
      BY <3>1, <3>2
  <2> HIDE DEF k
  <2>5. DOMAIN e = SubNames /\ e.dk = k
    BY <2>1, <2>2 DEF SubNames
  <2> QED
    BY <2>4, <2>5 DEF SubNew, SubOK
<1> QED
  BY <1>1, <1>2

\* A new sub-context
LEMMA SubAdded ==
    ASSUME NEW g, NEW x, NEW doc,
           NEW opts, opts = [provider |-> Provider[KekOf(x, doc)], delegated |-> FALSE, keyId |-> FALSE,
                             configured |-> KekOf(x, doc) \in Configured, onDemand |-> g.creds,
                             token |-> KekOf(x, doc) \in DirectToken],
           NEW new, new = DK!DatakeyInit(opts),
           NEW e, e = Started(g, IF new.state = "NEED_KMS_CREDENTIALS"
                                 THEN [new EXCEPT !.pc = "start"] ELSE new, KekOf(x, doc))
    PROVE  SubNew(e)
<1> DEFINE base == [DK!NewCtx EXCEPT !.initialized = TRUE, !.opts = opts, !.masterKey = opts.keyId]
           first == IF new.state = "NEED_KMS_CREDENTIALS" THEN [new EXCEPT !.pc = "start"] ELSE new
<1>1. /\ DOMAIN base = DkNames /\ base.opts = opts /\ base.kms = DK!KmsUnset /\ base.state = "DONE"
  BY DEF DK!NewCtx, DkNames
<1>2. opts.configured => opts.provider \in KmsProviders
  <2>1. opts.configured => KekOf(x, doc) \in Configured
    OBVIOUS
  <2>2. \A k \in KmsIds : Provider[k] \in KmsProviders
    BY KeyBrokerAssumption DEF KmsProviders
  <2> QED
    BY <2>1, <2>2, KeyBrokerAssumption
<1>3. \/ new = [base EXCEPT !.state = "ERROR", !.pc = "idle"]
      \/ new = [base EXCEPT !.state = "NEED_KMS_CREDENTIALS"]
      \/ new = [base EXCEPT !.pc = "start"]
  <2> HIDE DEF base
  <2> QED
    BY DEF DK!DatakeyInit, DK!Fail, base
<1> HIDE DEF base
<1>4. DK!KmsUnset \in Kms
  BY DEF Kms, DK!KmsUnset
<1>5. /\ DOMAIN first = DkNames /\ first.opts = opts /\ first.kms \in Kms
      /\ first.state = "ERROR" \/ first.pc = "start"
  BY <1>1, <1>3, <1>4 DEF DkNames
<1> HIDE DEF first
<1>6. e = Started(g, first, KekOf(x, doc))
  BY DEF first
<1>7. CASE first.pc = "start"
  <2>1. e = DK!KmsStart(first, TokenAtHand(g, KekOf(x, doc)), TRUE)
    BY <1>6, <1>7 DEF Started
  <2> QED
    BY <1>2, <1>5, <2>1, SubStarts
<1>8. CASE first.pc # "start"
  <2>1. e = first
    BY <1>6, <1>8 DEF Started
  <2> QED
    BY <1>5, <1>8, <2>1 DEF SubNew
<1> QED
  BY <1>7, <1>8

\* The first position from a given one that is not in a set, or the end
LEMMA FirstIs ==
    ASSUME NEW n \in Nat, NEW from \in 1..(n + 1), NEW S
    PROVE  \E i \in from..(n + 1) : /\ i = n + 1 \/ i \notin S
                                    /\ \A j \in from..(i - 1) : j \in S
<1> DEFINE T == {i \in from..(n + 1) : i = n + 1 \/ i \notin S}
<1>1. T \subseteq Nat /\ n + 1 \in T
  OBVIOUS
<1>2. PICK i \in T : \A j \in T : i <= j
  <2> HIDE DEF T
  <2> QED
    BY <1>1, LeastNatural
<1>3. ASSUME NEW j \in from..(i - 1) PROVE j \in S
  <2>1. i \in from..(n + 1) /\ j \in from..(n + 1) /\ j < i
    OBVIOUS
  <2>2. j \notin T
    BY <1>2, <2>1
  <2> QED
    BY <2>1, <2>2
<1> QED
  BY <1>2, <1>3

\* The request of a sub-context has been fed.
LEMMA SubCompleted ==
    ASSUME NEW x, Shape(x), NEW h, Listed(x.datakeys),
           \A i \in DOMAIN x.datakeys : SubOK(x.datakeys[i]),
           NEW ref, ref[1] = "sub", NEW r, NEW kms \in KmsEnds(x.datakeys[ref[2]].dk.kms, r),
           NEW y, y = [x EXCEPT !.datakeys[ref[2]].dk.kms = kms]
    PROVE  /\ Shape(y) /\ \A n \in CtxNames \ {"datakeys"} : y[n] = x[n]
           /\ Listed(y.datakeys) /\ \A i \in DOMAIN y.datakeys : SubOK(y.datakeys[i])
           /\ SubsOut(x, h) => SubsOut(y, h \ {ref})
<1> DEFINE at == ref[2]
           a == [x.datakeys EXCEPT ![at].dk.kms = kms]
<1>1. y = [x EXCEPT !.datakeys = a] /\ DOMAIN x = CtxNames
  BY DEF Shape
<1>2. DOMAIN a = DOMAIN x.datakeys /\ a = [i \in DOMAIN x.datakeys |-> a[i]]
  OBVIOUS
<1>3. \A i \in DOMAIN x.datakeys :
        a[i] = IF i = at THEN [x.datakeys[i] EXCEPT !.dk.kms = kms] ELSE x.datakeys[i]
  OBVIOUS
<1> HIDE DEF a, at
<1>4. DOMAIN y = CtxNames /\ y.datakeys = a /\ \A n \in CtxNames \ {"datakeys"} : y[n] = x[n]
  BY <1>1 DEF CtxNames
<1>5. y.kb = x.kb /\ y.iter = x.iter
  BY <1>4 DEF CtxNames
<1>6. Listed(a) /\ DOMAIN a = DOMAIN x.datakeys
  BY <1>2, ListMap
<1>7. ASSUME NEW i \in DOMAIN x.datakeys
      PROVE  /\ SubOK(a[i]) /\ a[i].dk.state = x.datakeys[i].dk.state
             /\ a[i].dk.returned = x.datakeys[i].dk.returned
             /\ i # at => a[i] = x.datakeys[i]
             /\ i = at => a[i].dk.kms.st # "pending"
  <2>1. SubOK(x.datakeys[i])
    OBVIOUS
  <2>2. CASE i = at
    <3> DEFINE d == x.datakeys[i]
    <3>1. a[i] = [d EXCEPT !.dk.kms = kms]
      BY <1>3, <2>2
    <3>2. DOMAIN d = SubNames /\ DOMAIN d.dk = DkNames /\ d.dk.kms \in Kms
      BY <2>1 DEF SubOK
    <3>3. kms \in Kms /\ kms.st # "pending"
      BY <2>2, <3>2, RequestEnds DEF at
    <3> DEFINE e == [d.dk EXCEPT !.kms = kms]
    <3>4. a[i] = [d EXCEPT !.dk = e]
      BY <3>1
    <3>5. /\ DOMAIN e = DkNames /\ e.kms = kms /\ e.state = d.dk.state /\ e.returned = d.dk.returned
          /\ e.type = d.dk.type /\ e.opts = d.dk.opts
      BY <3>2 DEF DkNames
    <3> HIDE DEF e
    <3>6. DOMAIN a[i] = SubNames /\ a[i].dk = e
      BY <3>2, <3>4 DEF SubNames
    <3> QED
      BY <2>1, <2>2, <3>3, <3>5, <3>6 DEF SubOK
  <2>3. CASE i # at
    <3>1. a[i] = x.datakeys[i]
      BY <1>3, <2>3
    <3> QED
      BY <2>1, <2>3, <3>1
  <2> QED
    BY <2>2, <2>3
<1>8. ASSUME SubsOut(x, h) PROVE SubsOut(y, h \ {ref})
  <2>1. \A i \in DOMAIN x.datakeys : NeedsKms(y, i) <=> NeedsKms(x, i)
    BY <1>4, <1>7 DEF NeedsKms
  <2>2. ASSUME NEW i \in DOMAIN y.datakeys PROVE SubOut(y, h \ {ref}, i)
    <3>1. i \in DOMAIN x.datakeys
      BY <1>4, <1>6, <2>2
    <3>2. SubOut(x, h, i)
      BY <1>8, <3>1 DEF SubsOut
    <3>3. CASE i = at
      BY <1>4, <1>5, <1>7, <2>1, <3>1, <3>2, <3>3 DEF SubOut
    <3>4. CASE i # at
      <4>1. <<"sub", i>> # ref
        BY <3>4 DEF at
      <4>2. y.datakeys[i] = x.datakeys[i]
        BY <1>4, <1>7, <3>1, <3>4
      <4> QED
        BY <1>5, <2>1, <3>1, <3>2, <4>1, <4>2 DEF SubOut
    <3> QED
      BY <3>3, <3>4
  <2>3. /\ y.iter \in Nat /\ y.iter # 0 /\ (y.iter \in DOMAIN y.datakeys => NeedsKms(y, y.iter))
    BY <1>4, <1>5, <1>6, <1>8, <2>1 DEF SubsOut
  <2> QED
    BY <2>2, <2>3 DEF SubsOut
<1> QED
  BY <1>4, <1>5, <1>6, <1>7, <1>8 DEF Shape

\* What the end of a request that was out leaves of a context
RequestEnded(x, h, ref, y) ==
    /\ Shape(y) /\ \A n \in CtxNames \ {"kb", "datakeys"} : y[n] = x[n]
    /\ BrokerOut(y.kb, h \ {ref}) /\ y.kb.state = x.kb.state
    /\ Listed(y.datakeys) /\ \A i \in DOMAIN y.datakeys : SubOK(y.datakeys[i])
    /\ SubsOut(x, h) => SubsOut(y, h \ {ref})
    /\ x.datakeys = <<>> => y.datakeys = <<>>

\* A KMS context has been fed.
LEMMA OutCompleted ==
    ASSUME NEW x, Shape(x), NEW h, BrokerOut(x.kb, h), Listed(x.datakeys),
           \A i \in DOMAIN x.datakeys : SubOK(x.datakeys[i]),
           NEW ref, ref[1] \in RefKinds, NEW r, NEW kms \in KmsEnds(RequestOf(x, ref), r),
           NEW y, y = WithRequest(x, ref, kms)
    PROVE  RequestEnded(x, h, ref, y)
<1> SUFFICES /\ Shape(y) /\ \A n \in CtxNames \ {"kb", "datakeys"} : y[n] = x[n]
             /\ BrokerOut(y.kb, h \ {ref}) /\ y.kb.state = x.kb.state
             /\ Listed(y.datakeys) /\ \A i \in DOMAIN y.datakeys : SubOK(y.datakeys[i])
             /\ SubsOut(x, h) => SubsOut(y, h \ {ref})
             /\ x.datakeys = <<>> => y.datakeys = <<>>
  BY DEF RequestEnded
<1>0. DOMAIN x.kb = KbNames
  BY DEF Shape
<1>1. CASE ref[1] \in {"auth", "key"}
  <2> DEFINE b == IF ref[1] = "auth" THEN [x.kb EXCEPT !.auth[ref[2]].kms = kms]
                  ELSE [x.kb EXCEPT !.returned[ref[2]].kms = kms]
  <2>1. y = [x EXCEPT !.kb = b]
    BY <1>1 DEF WithRequest
  <2>2. DOMAIN b = KbNames /\ BrokerOut(b, h \ {ref}) /\ b.state = x.kb.state
    <3>1. CASE ref[1] = "auth"
      <4> DEFINE k == x.kb
      <4>1. kms \in KmsEnds(k.auth[ref[2]].kms, r)
        BY <3>1 DEF RequestOf
      <4>2. b = [k EXCEPT !.auth[ref[2]].kms = kms]
        BY <3>1
      <4>3. DOMAIN k = KbNames /\ BrokerOut(k, h)
        BY <1>0
      <4> HIDE DEF b, k
      <4>4. DOMAIN b = KbNames /\ BrokerOut(b, h \ {ref}) /\ b.state = k.state
        BY <3>1, <4>1, <4>2, <4>3, AuthCompleted
      <4> QED
        BY <4>4 DEF k
    <3>2. CASE ref[1] = "key"
      <4>1. kms \in KmsEnds(x.kb.returned[ref[2]].kms, r)
        BY <3>2 DEF RequestOf
      <4>2. b = [x.kb EXCEPT !.returned[ref[2]].kms = kms]
        BY <3>2
      <4> HIDE DEF b
      <4> QED
        BY <1>0, <3>2, <4>1, <4>2, KeyCompleted
    <3> QED
      BY <1>1, <3>1, <3>2
  <2> HIDE DEF b
  <2>3. Shape(y) /\ y.kb = b /\ \A n \in CtxNames \ {"kb"} : y[n] = x[n]
    BY <2>1, <2>2, BrokerShape
  <2>4. y.datakeys = x.datakeys /\ y.iter = x.iter
    BY <2>3 DEF CtxNames
  <2>5. ASSUME SubsOut(x, h) PROVE SubsOut(y, h \ {ref})
    <3>1. \A i : NeedsKms(y, i) <=> NeedsKms(x, i)
      BY <2>4 DEF NeedsKms
    <3>2. \A i : <<"sub", i>> # ref
      BY <1>1
    <3>3. \A i \in DOMAIN x.datakeys : SubOut(x, h, i)
      BY <2>5 DEF SubsOut
    <3>4. \A i \in DOMAIN y.datakeys : SubOut(y, h \ {ref}, i)
      BY <2>4, <3>1, <3>2, <3>3 DEF SubOut
    <3> QED
      BY <2>4, <2>5, <3>1, <3>4 DEF SubsOut
  <2> QED
    BY <2>2, <2>3, <2>4, <2>5
<1>2. CASE ref[1] = "sub"
  <2>1. y = [x EXCEPT !.datakeys[ref[2]].dk.kms = kms]
    BY <1>2 DEF WithRequest
  <2>2. kms \in KmsEnds(x.datakeys[ref[2]].dk.kms, r)
    BY <1>2 DEF RequestOf
  <2>3. /\ Shape(y) /\ \A n \in CtxNames \ {"datakeys"} : y[n] = x[n]
        /\ Listed(y.datakeys) /\ \A i \in DOMAIN y.datakeys : SubOK(y.datakeys[i])
        /\ SubsOut(x, h) => SubsOut(y, h \ {ref})
    BY <1>2, <2>1, <2>2, SubCompleted
  <2>4. y.kb = x.kb
    BY <2>3 DEF CtxNames
  <2>5. BrokerOut(y.kb, h \ {ref})
    <3>1. \A i : <<"auth", i>> # ref /\ <<"key", i>> # ref
      BY <1>2
    <3> QED
      BY <2>4, <3>1 DEF BrokerOut, AuthOut, KeyOut
  <2>6. x.datakeys = <<>> => y.datakeys = <<>>
    <3>1. ASSUME x.datakeys = <<>> PROVE y.datakeys = <<>>
      <4> DEFINE a == [x.datakeys EXCEPT ![ref[2]].dk.kms = kms]
      <4>1. y.datakeys = a
        <5> HIDE DEF a
        <5>1. y = [x EXCEPT !.datakeys = a]
          BY <2>1 DEF a
        <5> QED
          BY <5>1 DEF Shape, CtxNames
      <4>2. a = [i \in DOMAIN x.datakeys |-> a[i]]
        OBVIOUS
      <4>3. DOMAIN x.datakeys = {}
        BY <3>1
      <4> HIDE DEF a
      <4>4. a = x.datakeys
        BY <3>1, <4>2, <4>3
      <4> QED
        BY <3>1, <4>1, <4>4
    <3> QED
      BY <3>1
  <2> QED
    BY <2>3, <2>4, <2>5, <2>6
<1> QED
  BY <1>1, <1>2 DEF RefKinds

\* A sub-context is handed out.
LEMMA SubHanded ==
    ASSUME NEW d, SubOK(d), NEW e,
           \/ e = [d EXCEPT !.dk.kms = KmsHandOut(@)]
           \/ e = [d EXCEPT !.dk = DK!NextKmsCtx(@)]
    PROVE  /\ SubOK(e) /\ e.dk.state = d.dk.state
           /\ e = [d EXCEPT !.dk.kms = KmsHandOut(@)] => e.dk.returned = d.dk.returned
<1>1. DOMAIN d = SubNames /\ DOMAIN d.dk = DkNames /\ d.dk.kms \in Kms
  BY DEF SubOK
<1>2. CASE e = [d EXCEPT !.dk.kms = KmsHandOut(@)]
  <2> DEFINE k == KmsHandOut(d.dk.kms)
             f == [d.dk EXCEPT !.kms = k]
  <2>1. e = [d EXCEPT !.dk = f]
    BY <1>2
  <2>2. k \in Kms
    BY <1>1, HandOut
  <2> HIDE DEF k
  <2>3. /\ DOMAIN f = DkNames /\ f.kms = k /\ f.state = d.dk.state /\ f.type = d.dk.type
        /\ f.opts = d.dk.opts /\ f.returned = d.dk.returned
    BY <1>1 DEF DkNames
  <2> HIDE DEF f
  <2>4. DOMAIN e = SubNames /\ e.dk = f
    BY <1>1, <2>1 DEF SubNames
  <2> QED
    BY <2>2, <2>3, <2>4 DEF SubOK
<1>3. CASE e = [d EXCEPT !.dk = DK!NextKmsCtx(@)]
  <2> DEFINE f == DK!NextKmsCtx(d.dk)
             k == DK!KmsHandOut(d.dk.kms)
             flow == IF d.dk.type \in DK!KmipTypes THEN Append(d.dk.flow, d.dk.type) ELSE d.dk.flow
  <2>1. e = [d EXCEPT !.dk = f]
    BY <1>3
  <2>2. k \in Kms
    BY <1>1 DEF DK!KmsHandOut, Kms
  <2>3. f = d.dk \/ f = [d.dk EXCEPT !.kms = k, !.returned = TRUE, !.flow = flow]
    BY DEF DK!NextKmsCtx
  <2> HIDE DEF f, k, flow
  <2>4. /\ DOMAIN f = DkNames /\ f.kms \in Kms /\ f.state = d.dk.state /\ f.type = d.dk.type
        /\ f.opts = d.dk.opts
    BY <1>1, <2>2, <2>3 DEF DkNames
  <2>5. DOMAIN e = SubNames /\ e.dk = f
    BY <1>1, <2>1 DEF SubNames
  <2>6. SubOK(e) /\ e.dk.state = d.dk.state
    BY <2>4, <2>5 DEF SubOK
  <2>7. e = [d EXCEPT !.dk.kms = KmsHandOut(@)] => e.dk.returned = d.dk.returned
    <3> SUFFICES ASSUME e = [d EXCEPT !.dk.kms = KmsHandOut(@)] PROVE e.dk.returned = d.dk.returned
      OBVIOUS
    <3> DEFINE u == [d.dk EXCEPT !.kms = KmsHandOut(d.dk.kms)]
    <3>1. e = [d EXCEPT !.dk = u]
      OBVIOUS
    <3>2. u.returned = d.dk.returned
      BY <1>1 DEF DkNames
    <3> HIDE DEF u
    <3>3. e.dk = u
      BY <1>1, <3>1 DEF SubNames
    <3> QED
      BY <3>2, <3>3
  <2> QED
    BY <2>6, <2>7
<1> QED
  BY <1>2, <1>3

\* One sub-context of a list is another.
LEMMA SubReplaced ==
    ASSUME NEW s, Listed(s), \A i \in DOMAIN s : SubOK(s[i]),
           NEW at \in DOMAIN s, NEW e, SubOK(e), e.dk.state = s[at].dk.state
    PROVE  \A a : a = [s EXCEPT ![at] = e] =>
              /\ Listed(a) /\ DOMAIN a = DOMAIN s /\ Len(a) = Len(s)
              /\ \A i \in DOMAIN a : SubOK(a[i]) /\ a[i].dk.state = s[i].dk.state
              /\ a[at] = e /\ \A i \in DOMAIN s \ {at} : a[i] = s[i]
<1> SUFFICES ASSUME NEW a, a = [s EXCEPT ![at] = e]
             PROVE  /\ Listed(a) /\ DOMAIN a = DOMAIN s /\ Len(a) = Len(s)
                    /\ \A i \in DOMAIN a : SubOK(a[i]) /\ a[i].dk.state = s[i].dk.state
                    /\ a[at] = e /\ \A i \in DOMAIN s \ {at} : a[i] = s[i]
  OBVIOUS
<1>1. DOMAIN a = DOMAIN s /\ a[at] = e /\ \A i \in DOMAIN s \ {at} : a[i] = s[i]
  OBVIOUS
<1>2. a = [i \in DOMAIN s |-> a[i]]
  OBVIOUS
<1>3. Listed(a) /\ Len(a) = Len(s)
  BY <1>2, ListMap
<1>4. \A i \in DOMAIN s : SubOK(a[i]) /\ a[i].dk.state = s[i].dk.state
  BY <1>1
<1> QED
  BY <1>1, <1>3, <1>4

\* The iterator is at the first sub-context with a request, from a position on.
LEMMA FirstWithRequest ==
    ASSUME NEW x, Listed(x.datakeys), NEW from \in 1..(Len(x.datakeys) + 1),
           NEW i, i = First(x, from, LAMBDA k : ~ NeedsKms(x, k))
    PROVE  /\ i \in from..(Len(x.datakeys) + 1)
           /\ i = Len(x.datakeys) + 1 \/ NeedsKms(x, i)
           /\ \A j \in from..(i - 1) : ~ NeedsKms(x, j)
<1> DEFINE n == Len(x.datakeys)
           S == {k \in 1..(n + 1) : ~ NeedsKms(x, k)}
           At(k) == /\ k = n + 1 \/ NeedsKms(x, k)
                    /\ \A j \in from..(k - 1) : ~ NeedsKms(x, j)
<1>1. n \in Nat
  BY ListIs
<1>2. i = CHOOSE k \in from..(n + 1) : At(k)
  BY DEF First
<1> HIDE DEF n
<1>3. PICK k \in from..(n + 1) : (k = n + 1 \/ k \notin S) /\ \A j \in from..(k - 1) : j \in S
  <2> HIDE DEF S
  <2>1. from \in 1..(n + 1)
    BY DEF n
  <2> QED
    BY <1>1, <2>1, FirstIs
<1>4. At(k)
  <2>1. k \in 1..(n + 1)
    BY <1>1 DEF n
  <2> QED
    BY <1>3, <2>1
<1> HIDE DEF At
<1>5. i \in from..(n + 1) /\ At(i)
  BY <1>2, <1>4, Zenon
<1> QED
  BY <1>5 DEF At, n

\* _next_kms_ctx_encrypt
LEMMA OutNextSub ==
    ASSUME NEW x, Shape(x), x.encrypting, Listed(x.datakeys),
           \A i \in DOMAIN x.datakeys : SubOK(x.datakeys[i]),
           NEW h, SubsOut(x, h), NEW y, y = next_kms_ctx_encrypt(x)
    PROVE  /\ Shape(y) /\ \A n \in CtxNames \ {"datakeys", "iter"} : y[n] = x[n]
           /\ Listed(y.datakeys) /\ \A i \in DOMAIN y.datakeys : SubOK(y.datakeys[i])
           /\ SubsOut(y, h \cup NextRef(x))
           /\ NextRef(x) = {} => y = x
<1> DEFINE refs == NextRef(x)
<1>1. Len(x.datakeys) \in Nat /\ DOMAIN x.datakeys = 1..Len(x.datakeys)
  BY ListIs
<1>2. /\ x.iter \in Nat /\ x.iter # 0 /\ (x.iter \in DOMAIN x.datakeys => NeedsKms(x, x.iter))
      /\ \A i \in DOMAIN x.datakeys : SubOut(x, h, i)
  BY DEF SubsOut
<1>3. refs = {<<"sub", i>> : i \in SubKmsRef(x)}
  BY DEF NextRef
<1>4. CASE ToRetry(x) # {}
  <2> DEFINE at == CHOOSE i \in ToRetry(x) : \A j \in ToRetry(x) : i <= j
             e == [x.datakeys[at] EXCEPT !.dk.kms = KmsHandOut(@)]
             alt == CHOOSE i \in SubKmsRef(x) : TRUE
  <2>1. at \in ToRetry(x)
    <3>1. ToRetry(x) \subseteq 1..Len(x.datakeys)
      BY <1>1 DEF ToRetry
    <3>2. \E i \in ToRetry(x) : \A j \in ToRetry(x) : i <= j
      BY <1>1, <1>4, <3>1, Ends1
    <3> QED
      BY <3>2
  <2>2. SubKmsRef(x) = {at}
    BY <1>4 DEF SubKmsRef
  <2> HIDE DEF at
  <2>3. at \in DOMAIN x.datakeys /\ refs = {<<"sub", at>>}
    BY <1>3, <2>1, <2>2 DEF ToRetry
  <2> HIDE DEF refs
  <2>4. alt = at
    BY <2>2
  <2>5. y = [x EXCEPT !.datakeys[alt].dk.kms = KmsHandOut(@)]
    BY <1>4 DEF next_kms_ctx_encrypt
  <2> HIDE DEF alt
  <2>6. y = [x EXCEPT !.datakeys[at].dk.kms = KmsHandOut(@)]
    BY <2>4, <2>5
  <2> DEFINE a == [x.datakeys EXCEPT ![at] = e]
  <2>7. y = [x EXCEPT !.datakeys = a, !.iter = x.iter]
    BY <2>6 DEF Shape, CtxNames
  <2>8. SubOK(e) /\ e.dk.state = x.datakeys[at].dk.state /\ e.dk.returned = x.datakeys[at].dk.returned
    <3> DEFINE d == x.datakeys[at]
    <3>1. SubOK(d) /\ e = [d EXCEPT !.dk.kms = KmsHandOut(@)]
      BY <2>3
    <3> HIDE DEF d, e
    <3>2. SubOK(e) /\ e.dk.state = d.dk.state /\ e.dk.returned = d.dk.returned
      BY <3>1, SubHanded
    <3> QED
      BY <3>2 DEF d
  <2> HIDE DEF e
  <2>9. /\ Shape(y) /\ \A n \in CtxNames \ {"datakeys", "iter"} : y[n] = x[n]
        /\ y.iter = x.iter /\ Listed(y.datakeys) /\ DOMAIN y.datakeys = DOMAIN x.datakeys
        /\ \A i \in DOMAIN y.datakeys : SubOK(y.datakeys[i])
        /\ y.datakeys[at] = e /\ \A i \in DOMAIN x.datakeys \ {at} : y.datakeys[i] = x.datakeys[i]
        /\ \A i \in DOMAIN x.datakeys : NeedsKms(y, i) <=> NeedsKms(x, i)
    <3> DEFINE s == x.datakeys
    <3>1. Listed(s) /\ at \in DOMAIN s /\ SubOK(e) /\ e.dk.state = s[at].dk.state
      BY <2>3, <2>7, <2>8
    <3>2. \A i \in DOMAIN s : SubOK(s[i])
      OBVIOUS
    <3>3. a = [s EXCEPT ![at] = e] /\ s = x.datakeys
      OBVIOUS
    <3> HIDE DEF a, s
    <3>4. /\ Listed(a) /\ DOMAIN a = DOMAIN s /\ Len(a) = Len(s)
          /\ \A i \in DOMAIN a : SubOK(a[i]) /\ a[i].dk.state = s[i].dk.state
          /\ a[at] = e /\ \A i \in DOMAIN s \ {at} : a[i] = s[i]
      BY <3>1, <3>2, <3>3, SubReplaced
    <3>5. /\ DOMAIN y = CtxNames /\ \A n \in CtxNames \ {"datakeys", "iter"} : y[n] = x[n]
          /\ y.datakeys = a /\ y.iter = x.iter
      BY <2>7 DEF Shape, CtxNames
    <3>6. y.kb = x.kb
      BY <3>5 DEF CtxNames
    <3>7. Shape(y)
      BY <3>5, <3>6 DEF Shape
    <3>8. \A i \in DOMAIN x.datakeys : NeedsKms(y, i) <=> NeedsKms(x, i)
      BY <3>3, <3>4, <3>5 DEF NeedsKms
    <3> QED
      BY <3>3, <3>4, <3>5, <3>7, <3>8
  <2>10. ASSUME NEW i \in DOMAIN y.datakeys PROVE SubOut(y, h \cup refs, i)
    <3>1. i \in DOMAIN x.datakeys /\ SubOut(x, h, i) /\ (NeedsKms(y, i) <=> NeedsKms(x, i))
      BY <1>2, <2>9, <2>10
    <3>2. CASE i = at
      BY <2>3, <2>8, <2>9, <3>1, <3>2 DEF SubOut
    <3>3. CASE i # at
      <4>1. y.datakeys[i] = x.datakeys[i]
        BY <2>9, <3>1, <3>3
      <4> QED
        BY <2>9, <3>1, <4>1 DEF SubOut
    <3> QED
      BY <3>2, <3>3
  <2>11. SubsOut(y, h \cup refs)
    BY <1>2, <2>9, <2>10 DEF SubsOut
  <2>12. refs # {}
    BY <2>3
  <2> QED
    BY <2>9, <2>11, <2>12 DEF refs
<1>5. CASE ToRetry(x) = {} /\ x.iter \notin DOMAIN x.datakeys
  <2>1. y = x
    BY <1>1, <1>2, <1>5 DEF next_kms_ctx_encrypt
  <2>2. \A i \in DOMAIN x.datakeys : SubOut(x, h \cup refs, i)
    BY <1>2 DEF SubOut
  <2> QED
    BY <1>2, <2>1, <2>2 DEF SubsOut
<1>6. CASE ToRetry(x) = {} /\ x.iter \in DOMAIN x.datakeys
  <2> DEFINE at == x.iter
             moved == First(x, at + 1, LAMBDA i : ~ NeedsKms(x, i))
             e == [x.datakeys[at] EXCEPT !.dk = DK!NextKmsCtx(@)]
  <2>1. y = [x EXCEPT !.datakeys[x.iter].dk = DK!NextKmsCtx(@), !.iter = moved]
    BY <1>1, <1>6 DEF next_kms_ctx_encrypt
  <2>2. /\ moved \in (at + 1)..(Len(x.datakeys) + 1)
        /\ moved = Len(x.datakeys) + 1 \/ NeedsKms(x, moved)
        /\ \A j \in (at + 1)..(moved - 1) : ~ NeedsKms(x, j)
    <3> DEFINE from == at + 1
    <3>1. from \in 1..(Len(x.datakeys) + 1)
      BY <1>1, <1>6
    <3> HIDE DEF from
    <3>2. moved = First(x, from, LAMBDA i : ~ NeedsKms(x, i))
      BY DEF from
    <3> HIDE DEF moved
    <3>3. /\ moved \in from..(Len(x.datakeys) + 1)
          /\ moved = Len(x.datakeys) + 1 \/ NeedsKms(x, moved)
          /\ \A j \in from..(moved - 1) : ~ NeedsKms(x, j)
      BY <3>1, <3>2, FirstWithRequest
    <3> QED
      BY <3>3 DEF from
  <2> HIDE DEF moved
  <2> DEFINE a == [x.datakeys EXCEPT ![at] = e]
  <2>3. y = [x EXCEPT !.datakeys = a, !.iter = moved]
    BY <2>1
  <2>4. NeedsKms(x, at) /\ ~ x.datakeys[at].dk.returned
    <3>1. NeedsKms(x, x.iter) /\ SubOut(x, h, x.iter)
      BY <1>2, <1>6
    <3>2. x.iter >= x.iter
      BY <1>2
    <3> QED
      BY <3>1, <3>2 DEF SubOut
  <2>5. refs = {<<"sub", at>>}
    <3>1. DK!HasNextKms(x.datakeys[at].dk)
      BY <2>4 DEF DK!HasNextKms
    <3>2. SubKmsRef(x) = {at}
      BY <1>6, <3>1 DEF SubKmsRef
    <3> QED
      BY <1>3, <3>2
  <2> HIDE DEF refs
  <2>6. SubOK(e) /\ e.dk.state = x.datakeys[at].dk.state
    <3> DEFINE d == x.datakeys[at]
    <3>1. SubOK(d) /\ e = [d EXCEPT !.dk = DK!NextKmsCtx(@)]
      BY <1>6
    <3> HIDE DEF d, e
    <3>2. SubOK(e) /\ e.dk.state = d.dk.state
      BY <3>1, SubHanded
    <3> QED
      BY <3>2 DEF d
  <2> HIDE DEF e
  <2>7. at \in DOMAIN x.datakeys
    BY <1>6
  <2>8. at \in 1..Len(x.datakeys)
    BY <1>1, <1>6
  <2> HIDE DEF at
  <2>9. /\ Shape(y) /\ \A n \in CtxNames \ {"datakeys", "iter"} : y[n] = x[n]
        /\ y.iter = moved /\ Listed(y.datakeys) /\ DOMAIN y.datakeys = DOMAIN x.datakeys
        /\ Len(y.datakeys) = Len(x.datakeys)
        /\ \A i \in DOMAIN y.datakeys : SubOK(y.datakeys[i])
        /\ y.datakeys[at] = e /\ \A i \in DOMAIN x.datakeys \ {at} : y.datakeys[i] = x.datakeys[i]
        /\ \A i \in DOMAIN x.datakeys : NeedsKms(y, i) <=> NeedsKms(x, i)
    <3> DEFINE s == x.datakeys
    <3>1. Listed(s) /\ at \in DOMAIN s /\ SubOK(e) /\ e.dk.state = s[at].dk.state
      BY <2>3, <2>6, <2>7
    <3>2. \A i \in DOMAIN s : SubOK(s[i])
      OBVIOUS
    <3>3. a = [s EXCEPT ![at] = e] /\ s = x.datakeys
      OBVIOUS
    <3> HIDE DEF a, s
    <3>4. /\ Listed(a) /\ DOMAIN a = DOMAIN s /\ Len(a) = Len(s)
          /\ \A i \in DOMAIN a : SubOK(a[i]) /\ a[i].dk.state = s[i].dk.state
          /\ a[at] = e /\ \A i \in DOMAIN s \ {at} : a[i] = s[i]
      BY <3>1, <3>2, <3>3, SubReplaced
    <3>5. /\ DOMAIN y = CtxNames /\ \A n \in CtxNames \ {"datakeys", "iter"} : y[n] = x[n]
          /\ y.datakeys = a /\ y.iter = moved
      BY <2>3 DEF Shape, CtxNames
    <3>6. y.kb = x.kb
      BY <3>5 DEF CtxNames
    <3>7. Shape(y)
      BY <3>5, <3>6 DEF Shape
    <3>8. \A i \in DOMAIN x.datakeys : NeedsKms(y, i) <=> NeedsKms(x, i)
      BY <3>3, <3>4, <3>5 DEF NeedsKms
    <3> QED
      BY <3>3, <3>4, <3>5, <3>7, <3>8
  <2>10. ASSUME NEW i \in DOMAIN y.datakeys PROVE SubOut(y, h \cup refs, i)
    <3>1. i \in DOMAIN x.datakeys /\ SubOut(x, h, i) /\ (NeedsKms(y, i) <=> NeedsKms(x, i))
      BY <1>2, <2>9, <2>10
    <3>2. i \in 1..Len(x.datakeys) /\ moved \in Nat /\ at < moved
      BY <1>1, <2>2, <2>8, <3>1
    <3>3. CASE i = at
      BY <2>5, <2>9, <3>2, <3>3 DEF SubOut
    <3>4. CASE i # at
      <4>1. y.datakeys[i] = x.datakeys[i]
        BY <2>9, <3>1, <3>4
      <4>2. i >= moved => i >= x.iter
        <5>1. i >= moved => i >= at
          BY <1>1, <2>8, <3>2
        <5> QED
          BY <5>1 DEF at
      <4>3. NeedsKms(x, i) => (i >= x.iter => i >= moved)
        <5>1. i < moved /\ i > at => i \in (at + 1)..(moved - 1)
          BY <1>1, <2>8, <3>2
        <5>2. i >= at => i > at
          BY <1>1, <2>8, <3>2, <3>4
        <5>3. NeedsKms(x, i) => ~ (i < moved /\ i > at)
          BY <2>2, <5>1
        <5>4. i < moved \/ i >= moved
          BY <3>2
        <5> QED
          BY <5>2, <5>3, <5>4 DEF at
      <4> QED
        BY <2>9, <3>1, <4>1, <4>2, <4>3 DEF SubOut
    <3> QED
      BY <3>3, <3>4
  <2>11. SubsOut(y, h \cup refs)
    <3>1. y.iter \in Nat /\ y.iter # 0
      BY <1>1, <2>2, <2>8, <2>9
    <3>2. y.iter \in DOMAIN y.datakeys => NeedsKms(y, y.iter)
      <4>1. moved \in DOMAIN x.datakeys => moved # Len(x.datakeys) + 1
        BY <1>1
      <4> QED
        BY <2>2, <2>9, <4>1
    <3> QED
      BY <2>10, <3>1, <3>2 DEF SubsOut
  <2>12. refs # {}
    BY <2>5
  <2> QED
    BY <2>9, <2>11, <2>12 DEF refs
<1> QED
  BY <1>4, <1>5, <1>6

\* Taking the last position out of a set
LEMMA LastOut ==
    ASSUME NEW n \in Nat, NEW S \in SUBSET (1..n), S # {}
    PROVE  /\ Max(S) \in S /\ n # 0
           /\ S \ {Max(S)} \in SUBSET (1..(n - 1)) /\ S \ {Max(S)} \in SUBSET (1..n)
<1>1. \E i \in S : \A j \in S : j <= i
  BY Ends1
<1>2. \E i \in S : \A j \in S : i >= j
  BY <1>1
<1>3. Max(S) \in S /\ \A j \in S : Max(S) >= j
  BY <1>2 DEF Max
<1>4. \A j \in S \ {Max(S)} : j \in 1..(n - 1)
  <2> DEFINE m == Max(S)
  <2>1. m \in 1..n
    BY <1>3
  <2>2. \A j \in S : j \in 1..n /\ m >= j
    BY <1>3
  <2> HIDE DEF m
  <2>3. \A j \in S \ {m} : j \in 1..(n - 1)
    BY <2>1, <2>2
  <2> QED
    BY <2>3 DEF m
<1>5. n # 0
  <2>1. PICK i \in S : i \in 1..n
    OBVIOUS
  <2> QED
    BY <2>1
<1>6. S \ {Max(S)} \subseteq 1..(n - 1) /\ S \ {Max(S)} \subseteq 1..n
  BY <1>4
<1> HIDE DEF Max
<1> QED
  BY <1>3, <1>5, <1>6

\* f is the fold of F from the first position to the last.
FoldsTo(f, F, base, n) ==
    \A S \in SUBSET (1..n) :
        f[S] = IF S = {} THEN base ELSE F[<<f[S \ {Max(S)}], Max(S)>>]

\* The function behind a fold over a sequence of length n exists.
LEMMA FoldExists ==
    ASSUME NEW n \in Nat, NEW U, NEW base \in U, NEW F \in [U \X (1..n) -> U]
    PROVE  \E f \in [SUBSET (1..n) -> U] : FoldsTo(f, F, base, n)
<1> DEFINE Has(m) == m <= n => \E f \in [SUBSET (1..m) -> U] : FoldsTo(f, F, base, m)
           Kept == {m \in Nat : Has(m)}
<1>1. 0 \in Kept
  <2> DEFINE f == [S \in SUBSET (1..0) |-> base]
  <2>1. f \in [SUBSET (1..0) -> U]
    OBVIOUS
  <2>2. \A S \in SUBSET (1..0) : S = {} /\ f[S] = base
    OBVIOUS
  <2> HIDE DEF f
  <2>3. FoldsTo(f, F, base, 0)
    BY <2>2 DEF FoldsTo
  <2> QED
    BY <2>1, <2>3
<1>2. ASSUME NEW m \in Nat, m \in Kept PROVE m + 1 \in Kept
  <2>0. Has(m) /\ m + 1 \in Nat
    <3> HIDE DEF Has
    <3> QED
      BY <1>2
  <2> SUFFICES Has(m + 1)
    <3> HIDE DEF Has
    <3> QED
      BY <2>0
  <2> SUFFICES ASSUME m + 1 <= n
               PROVE  \E h \in [SUBSET (1..(m + 1)) -> U] : FoldsTo(h, F, base, m + 1)
    OBVIOUS
  <2>1. PICK f \in [SUBSET (1..m) -> U] : FoldsTo(f, F, base, m)
    <3>1. m <= n
      OBVIOUS
    <3> QED
      BY <2>0, <3>1
  <2> DEFINE D == SUBSET (1..(m + 1))
             h == [S \in D |-> IF S = {} THEN base ELSE F[<<f[S \ {Max(S)}], Max(S)>>]]
  <2>2. \A S \in D : S # {} => /\ S \ {Max(S)} \in SUBSET (1..m) /\ Max(S) \in 1..(m + 1)
                               /\ S \ {Max(S)} \in D
    <3> SUFFICES ASSUME NEW S \in D, S # {}
                 PROVE  /\ S \ {Max(S)} \in SUBSET (1..m) /\ Max(S) \in 1..(m + 1)
                        /\ S \ {Max(S)} \in D
      OBVIOUS
    <3>1. m + 1 \in Nat /\ (m + 1) - 1 = m
      OBVIOUS
    <3> QED
      BY <3>1, LastOut
  <2>3. h \in [D -> U]
    <3> SUFFICES ASSUME NEW S \in D, S # {} PROVE F[<<f[S \ {Max(S)}], Max(S)>>] \in U
      OBVIOUS
    <3>1. f[S \ {Max(S)}] \in U
      BY <2>1, <2>2
    <3>2. Max(S) \in 1..n
      <4>1. 1..(m + 1) \subseteq 1..n
        OBVIOUS
      <4> QED
        BY <2>2, <4>1
    <3> QED
      BY <3>1, <3>2
  <2>4. \A S \in D : h[S] = IF S = {} THEN base ELSE F[<<f[S \ {Max(S)}], Max(S)>>]
    OBVIOUS
  <2> HIDE DEF h
  <2>5. \A S \in SUBSET (1..m) : h[S] = f[S]
    <3>1. SUBSET (1..m) \subseteq D
      OBVIOUS
    <3> QED
      BY <2>1, <2>4, <3>1 DEF FoldsTo
  <2>6. \A S \in D : h[S] = IF S = {} THEN base ELSE F[<<h[S \ {Max(S)}], Max(S)>>]
    BY <2>2, <2>4, <2>5
  <2>7. FoldsTo(h, F, base, m + 1)
    BY <2>6 DEF FoldsTo
  <2> QED
    BY <2>3, <2>7
<1>3. Nat \subseteq Kept
  <2> HIDE DEF Kept
  <2> QED
    BY <1>1, <1>2, NatSetInduction
<1>4. Has(n)
  <2> HIDE DEF Has
  <2> QED
    BY <1>3
<1>5. n <= n
  OBVIOUS
<1> QED
  BY <1>4, <1>5

\* What every element of the sequence keeps, the fold has.
LEMMA FoldKeeps ==
    ASSUME NEW n \in Nat, NEW U, NEW f, f[{}] \in U,
           \A S \in SUBSET (1..n) : S # {} /\ f[S \ {Max(S)}] \in U => f[S] \in U
    PROVE  f[1..n] \in U
<1> DEFINE Has(m) == m <= n => \A S \in SUBSET (1..m) : f[S] \in U
           Kept == {m \in Nat : Has(m)}
<1>1. 0 \in Kept
  <2>1. \A S \in SUBSET (1..0) : S = {}
    OBVIOUS
  <2> QED
    BY <2>1
<1>2. ASSUME NEW m \in Nat, m \in Kept PROVE m + 1 \in Kept
  <2>0. Has(m) /\ m + 1 \in Nat
    <3> HIDE DEF Has
    <3> QED
      BY <1>2
  <2> SUFFICES Has(m + 1)
    <3> HIDE DEF Has
    <3> QED
      BY <2>0
  <2> SUFFICES ASSUME m + 1 <= n, NEW S \in SUBSET (1..(m + 1)), S # {} PROVE f[S] \in U
    <3>1. \A S \in SUBSET (1..(m + 1)) : S = {} => f[S] \in U
      OBVIOUS
    <3> QED
      BY <3>1
  <2>1. m + 1 \in Nat /\ (m + 1) - 1 = m
    OBVIOUS
  <2>2. S \ {Max(S)} \in SUBSET (1..m)
    BY <2>1, LastOut
  <2>3. f[S \ {Max(S)}] \in U
    <3>1. m <= n
      OBVIOUS
    <3> QED
      BY <2>0, <2>2, <3>1
  <2>4. S \in SUBSET (1..n)
    OBVIOUS
  <2> QED
    BY <2>3, <2>4
<1>3. Nat \subseteq Kept
  <2> HIDE DEF Kept
  <2> QED
    BY <1>1, <1>2, NatSetInduction
<1>4. Has(n)
  <2> HIDE DEF Has
  <2> QED
    BY <1>3
<1> QED
  BY <1>4

\* The sub-context for a key document
NewDk(g, x, doc) ==
    LET opts == [provider |-> Provider[KekOf(x, doc)], delegated |-> FALSE, keyId |-> FALSE,
                 configured |-> KekOf(x, doc) \in Configured, onDemand |-> g.creds,
                 token |-> KekOf(x, doc) \in DirectToken]
        new == DK!DatakeyInit(opts)
    IN  Started(g, IF new.state = "NEED_KMS_CREDENTIALS" THEN [new EXCEPT !.pc = "start"] ELSE new,
                KekOf(x, doc))
NewSub(g, x, doc) == [doc |-> doc, kek |-> KekOf(x, doc), dk |-> NewDk(g, x, doc)]

\* It has a request to hand out, unless it is ready or has failed.
LEMMA NewSubIs ==
    ASSUME NEW g, NEW x, NEW doc, NEW d, d = NewSub(g, x, doc)
    PROVE  SubNew(d.dk) /\ DOMAIN d = SubNames /\ SubOK(d)
<1> DEFINE opts == [provider |-> Provider[KekOf(x, doc)], delegated |-> FALSE, keyId |-> FALSE,
                    configured |-> KekOf(x, doc) \in Configured, onDemand |-> g.creds,
                    token |-> KekOf(x, doc) \in DirectToken]
           new == DK!DatakeyInit(opts)
           e == Started(g, IF new.state = "NEED_KMS_CREDENTIALS"
                           THEN [new EXCEPT !.pc = "start"] ELSE new, KekOf(x, doc))
<1>1. d = [doc |-> doc, kek |-> KekOf(x, doc), dk |-> e]
  BY DEF NewSub, NewDk
<1>2. SubNew(e)
  <2> HIDE DEF e
  <2>1. e = Started(g, IF new.state = "NEED_KMS_CREDENTIALS"
                       THEN [new EXCEPT !.pc = "start"] ELSE new, KekOf(x, doc))
    BY DEF e
  <2>2. new = DK!DatakeyInit(opts)
    OBVIOUS
  <2> HIDE DEF new
  <2>3. opts = [provider |-> Provider[KekOf(x, doc)], delegated |-> FALSE, keyId |-> FALSE,
                configured |-> KekOf(x, doc) \in Configured, onDemand |-> g.creds,
                token |-> KekOf(x, doc) \in DirectToken]
    OBVIOUS
  <2> HIDE DEF opts
  <2> QED
    BY <2>1, <2>2, <2>3, SubAdded
<1> HIDE DEF e
<1>3. DOMAIN d = SubNames /\ d.dk = e
  BY <1>1 DEF SubNames
<1> QED
  BY <1>2, <1>3 DEF SubNew, SubOK

\* A context that has been given sub-contexts for some key documents
Subs(g, x, docs) == {NewSub(g, x, doc) : doc \in docs}
Grown(g, x, docs) ==
    {x} \cup
    {[x EXCEPT !.datakeys = ds] : ds \in Seq({d \in Subs(g, x, docs) : d.dk.state # "ERROR"})}
    \cup {[x EXCEPT !.datakeys = ds, !.state = "ERROR"] : ds \in Seq(Subs(g, x, docs))}

\* _add_new_datakey
LEMMA GrownByOne ==
    ASSUME NEW g, NEW x, Shape(x), ~ Stopped(x), x.datakeys = <<>>, NEW docs, NEW doc \in docs,
           NEW z \in Grown(g, x, docs)
    PROVE  add_new_datakey(g, z, doc) \in Grown(g, x, docs)
<1> DEFINE T == Subs(g, x, docs)
           V == {d \in T : d.dk.state # "ERROR"}
           y == add_new_datakey(g, z, doc)
           d == NewSub(g, x, doc)
<1>1. CASE \E ds \in Seq(T) : z = [x EXCEPT !.datakeys = ds, !.state = "ERROR"]
  <2>1. z.state = "ERROR"
    BY <1>1 DEF Shape, CtxNames
  <2>2. y = z
    BY <2>1 DEF add_new_datakey, Stopped
  <2> QED
    BY <2>2
<1>2. CASE z = x \/ \E ds \in Seq(V) : z = [x EXCEPT !.datakeys = ds]
  <2>1. PICK ds \in Seq(V) : z = [x EXCEPT !.datakeys = ds] \/ (z = x /\ ds = <<>>)
    <3> HIDE DEF V
    <3>1. <<>> \in Seq(V)
      OBVIOUS
    <3> QED
      BY <1>2, <3>1
  <2>2. d \in T /\ V \subseteq T
    BY DEF Subs
  <2>3. /\ z.kek = x.kek /\ z.state = x.state /\ z.abort = x.abort /\ z.datakeys = ds
    BY <2>1 DEF Shape, CtxNames
  <2>4. ~ Stopped(z)
    BY <2>3 DEF Stopped
  <2>5. KekOf(z, doc) = KekOf(x, doc)
    BY <2>3 DEF KekOf
  <2> DEFINE more == <<d>> \o ds
             w == [z EXCEPT !.datakeys = more]
  <2>6. d.dk = NewDk(g, x, doc) /\ NewSub(g, z, doc) = d /\ NewDk(g, z, doc) = NewDk(g, x, doc)
    BY <2>5 DEF NewSub, NewDk
  <2>7. y = IF NewDk(g, z, doc).state = "ERROR"
            THEN CtxFail([z EXCEPT !.datakeys = <<NewSub(g, z, doc)>> \o @])
            ELSE [z EXCEPT !.datakeys = <<NewSub(g, z, doc)>> \o @]
    BY <2>4 DEF add_new_datakey, NewDk, NewSub
  <2>8. y = IF d.dk.state = "ERROR" THEN CtxFail(w) ELSE w
    BY <2>3, <2>6, <2>7
  <2> HIDE DEF d, T, V, y
  <2>9. w = [x EXCEPT !.datakeys = more] /\ CtxFail(w) = [x EXCEPT !.datakeys = more, !.state = "ERROR"]
    <3> HIDE DEF more
    <3> QED
      BY <2>1 DEF Shape, CtxNames, CtxFail
  <2>10. more \in Seq(T) /\ (d \in V => more \in Seq(V))
    <3>1. ds \in Seq(T)
      BY <2>2, SeqMonotonic
    <3>2. <<d>> \in Seq(T) /\ (d \in V => <<d>> \in Seq(V))
      BY <2>2
    <3> QED
      BY <3>1, <3>2, ConcatProperties
  <2> HIDE DEF more, w
  <2>11. d.dk.state # "ERROR" => d \in V
    BY <2>2 DEF V
  <2>12. Grown(g, x, docs) = {x} \cup {[x EXCEPT !.datakeys = s] : s \in Seq(V)}
                             \cup {[x EXCEPT !.datakeys = s, !.state = "ERROR"] : s \in Seq(T)}
    BY DEF Grown, T, V
  <2>13. CASE d.dk.state = "ERROR"
    <3>1. y = [x EXCEPT !.datakeys = more, !.state = "ERROR"]
      BY <2>8, <2>9, <2>13
    <3> QED
      BY <2>10, <2>12, <3>1 DEF y
  <2>14. CASE d.dk.state # "ERROR"
    <3>1. y = [x EXCEPT !.datakeys = more]
      BY <2>8, <2>9, <2>14
    <3> QED
      BY <2>10, <2>11, <2>12, <2>14, <3>1 DEF y
  <2> QED
    BY <2>13, <2>14
<1> QED
  BY <1>1, <1>2 DEF Grown

\* _add_new_datakey for every document of a list
LEMMA GrownByAll ==
    ASSUME NEW g, NEW x, Shape(x), ~ Stopped(x), x.datakeys = <<>>, NEW docs, Listed(docs),
           NEW y, y = FoldLeft(LAMBDA z, doc : add_new_datakey(g, z, doc), x, docs)
    PROVE  y \in Grown(g, x, Range(docs))
<1> DEFINE n == Len(docs)
           U == Grown(g, x, Range(docs))
           F == [p \in U \X (1..n) |-> add_new_datakey(g, p[1], docs[p[2]])]
           Fold(f) == f = [S \in SUBSET (DOMAIN docs) |-> IF S = {} THEN x
                              ELSE add_new_datakey(g, f[S \ {Max(S)}], docs[Max(S)])]
           f == CHOOSE h : Fold(h)
<1>1. y = f[DOMAIN docs]
  BY Zenon DEF FoldLeft, MapThenFoldSet
<1>2. n \in Nat /\ DOMAIN docs = 1..n
  BY ListIs
<1>3. \A i \in 1..n : docs[i] \in Range(docs)
  BY <1>2 DEF Range
<1>4. x \in U
  BY DEF Grown
<1>5. \A z \in U, i \in 1..n : add_new_datakey(g, z, docs[i]) \in U
  BY <1>3, GrownByOne
<1> HIDE DEF U
<1>6. F \in [U \X (1..n) -> U]
  BY <1>5
<1>7. \A z \in U, i \in 1..n : F[<<z, i>>] = add_new_datakey(g, z, docs[i])
  OBVIOUS
<1> HIDE DEF F, n
<1>8. PICK h \in [SUBSET (1..n) -> U] : FoldsTo(h, F, x, n)
  BY <1>2, <1>4, <1>6, FoldExists
<1>9. \A S \in SUBSET (1..n) :
        h[S] = IF S = {} THEN x ELSE add_new_datakey(g, h[S \ {Max(S)}], docs[Max(S)])
  <2> SUFFICES ASSUME NEW S \in SUBSET (1..n)
               PROVE  h[S] = IF S = {} THEN x ELSE add_new_datakey(g, h[S \ {Max(S)}], docs[Max(S)])
    OBVIOUS
  <2>1. CASE S = {}
    BY <1>8, <2>1 DEF FoldsTo
  <2>2. CASE S # {}
    <3>1. S \ {Max(S)} \in SUBSET (1..n) /\ Max(S) \in 1..n
      BY <1>2, <2>2, LastOut
    <3>2. h[S \ {Max(S)}] \in U
      BY <1>8, <3>1
    <3>3. h[S] = F[<<h[S \ {Max(S)}], Max(S)>>]
      BY <1>8, <2>2 DEF FoldsTo
    <3> HIDE DEF Max
    <3> QED
      BY <1>7, <2>2, <3>1, <3>2, <3>3
  <2> QED
    BY <2>1, <2>2
<1>10. Fold(h)
  <2>1. h = [S \in SUBSET (1..n) |-> h[S]]
    BY <1>8
  <2> QED
    BY <1>2, <1>9, <2>1
<1> HIDE DEF Fold
<1>11. Fold(f)
  BY <1>10, Zenon
<1> HIDE DEF f
<1>12. \A S \in SUBSET (1..n) :
        f[S] = IF S = {} THEN x ELSE add_new_datakey(g, f[S \ {Max(S)}], docs[Max(S)])
  BY <1>2, <1>11 DEF Fold
<1>13. f[{}] \in U
  BY <1>4, <1>12
<1>14. ASSUME NEW S \in SUBSET (1..n), S # {}, f[S \ {Max(S)}] \in U PROVE f[S] \in U
  <2>1. Max(S) \in 1..n
    BY <1>2, <1>14, LastOut
  <2> QED
    BY <1>5, <1>12, <1>14, <2>1
<1>15. f[1..n] \in U
  BY <1>2, <1>13, <1>14, FoldKeeps
<1> QED
  BY <1>1, <1>2, <1>15 DEF U

-----------------------------------------------------------------------------
(***************************************************************************)
(* What a call leaves of a context, at the start of its driver's loop.     *)
(***************************************************************************)
\* A context outside of NEED_KMS, while a call is at it
Plain(x) == Core(x, {}) /\ ~ x.encrypting /\ x.datakeys = <<>>

\* A context that a call has left to a driver at the start of its loop
Settled(x) ==
    \/ Ends(x)
    \/ /\ Core(x, {}) /\ Control(x)
       /\ x.state = "NEED_KMS" /\ x.encrypting => SubsOut(x, {})

\* A context that differs in what does not matter for its requests
LEMMA PlainKept ==
    ASSUME NEW x, Plain(x), NEW y, Shape(y), y.kind = x.kind, y.encrypting = x.encrypting,
           y.datakeys = x.datakeys, y.kb = x.kb, y.cmd = x.cmd, y.sb = x.sb, y.doc = x.doc
    PROVE  Plain(y)
BY DEF Plain, Core

\* A context with another broker
LEMMA PlainBroker ==
    ASSUME NEW x, Plain(x), NEW kb, DOMAIN kb = KbNames, BrokerOut(kb, {}),
           NEW y, y = [x EXCEPT !.kb = kb]
    PROVE  Plain(y) /\ y.kb = kb /\ \A n \in CtxNames \ {"kb"} : y[n] = x[n]
<1>1. Shape(y) /\ y.kb = kb /\ \A n \in CtxNames \ {"kb"} : y[n] = x[n]
  BY BrokerShape DEF Plain, Core
<1>2. /\ y.kind = x.kind /\ y.encrypting = x.encrypting /\ y.datakeys = x.datakeys
      /\ y.cmd = x.cmd /\ y.sb = x.sb /\ y.doc = x.doc
  BY <1>1 DEF CtxNames
<1> QED
  BY <1>1, <1>2 DEF Plain, Core

\* A context in another state
LEMMA PlainState ==
    ASSUME NEW x, Plain(x), NEW st, NEW y, y = [x EXCEPT !.state = st]
    PROVE  /\ Plain(y) /\ y.state = st /\ y.kb = x.kb
           /\ \A n \in CtxNames \ {"state"} : y[n] = x[n]
<1>1. DOMAIN x = CtxNames /\ DOMAIN x.kb = KbNames
  BY DEF Plain, Core, Shape
<1>2. DOMAIN y = CtxNames /\ y.state = st /\ \A n \in CtxNames \ {"state"} : y[n] = x[n]
  BY <1>1 DEF CtxNames
<1>3. /\ y.kind = x.kind /\ y.encrypting = x.encrypting /\ y.datakeys = x.datakeys /\ y.kb = x.kb
      /\ y.cmd = x.cmd /\ y.sb = x.sb /\ y.doc = x.doc
  BY <1>2 DEF CtxNames
<1>4. Shape(y)
  BY <1>1, <1>2, <1>3 DEF Shape
<1> QED
  BY <1>2, <1>3, <1>4, PlainKept

\* A failed context has ended.
LEMMA FailEnds ==
    ASSUME NEW x, Shape(x)
    PROVE  /\ Ends(CtxFail(x)) /\ Ends(CtxAbort(x))
           /\ Stopped(CtxFail(x)) /\ Stopped(CtxAbort(x))
<1>1. CtxFail(x).state = "ERROR"
  BY DEF CtxFail, Shape, CtxNames
<1>2. CtxAbort(x).abort
  BY DEF CtxAbort, Shape, CtxNames
<1> QED
  BY <1>1, <1>2 DEF Ends, Stopped

\* _mongocrypt_ctx_state_from_key_broker
LEMMA FromBroker ==
    ASSUME NEW g, NEW x, Plain(x), x.kind = "rewrap" => x.kb.state # "ADDING_DOCS",
           NEW y, y = state_from_key_broker(g, x)
    PROVE  /\ Stopped(y) \/ (Plain(y) /\ Control(y))
           /\ y.kb = x.kb /\ y.kind = x.kind /\ y.abort = x.abort
           /\ x.state # "ERROR" =>
                /\ y.state = "READY" <=> x.kb.state = "DONE"
                /\ y.state = "NEED_KMS" <=> x.kb.state \in {"AUTHENTICATING", "DECRYPTING_KEY_MATERIAL"}
           /\ Stopped(y) \/ y.state \in {"NEED_KMS_CREDENTIALS", "NEED_MONGO_KEYS", "NEED_KMS", "READY"}
<1>0. DOMAIN x = CtxNames /\ Shape(x)
  BY DEF Plain, Core, Shape
<1>1. CASE x.state = "ERROR"
  BY <1>1 DEF state_from_key_broker, Stopped
<1>2. ASSUME x.state # "ERROR", NEW st \in {"NEED_KMS_CREDENTIALS", "NEED_MONGO_KEYS", "NEED_KMS"},
             y = [x EXCEPT !.state = st],
             st = "NEED_KMS_CREDENTIALS" => x.kb.state = "ADDING_DOCS",
             st = "NEED_MONGO_KEYS" => x.kb.state \in {"ADDING_DOCS", "ADDING_DOCS_ANY"},
             st = "NEED_KMS" <=> x.kb.state \in {"AUTHENTICATING", "DECRYPTING_KEY_MATERIAL"},
             x.kb.state # "DONE"
      PROVE  /\ Plain(y) /\ Control(y) /\ y.kb = x.kb /\ y.kind = x.kind /\ y.abort = x.abort
             /\ y.state = st
  <2>1. /\ Plain(y) /\ y.state = st /\ y.kb = x.kb
        /\ \A n \in CtxNames \ {"state"} : y[n] = x[n]
    BY <1>2, PlainState
  <2>2. y.kind = x.kind /\ y.abort = x.abort
    BY <2>1 DEF CtxNames
  <2>3. ~ y.encrypting /\ y.datakeys = <<>>
    BY <2>1 DEF Plain
  <2>4. Control(y)
    BY <1>2, <2>1, <2>2, <2>3 DEF Control, CollinfoStates
  <2> QED
    BY <2>1, <2>2, <2>4
<1>3. CASE x.state # "ERROR" /\ x.kb.state = "ADDING_DOCS"
  <2> DEFINE st == IF g.creds THEN "NEED_KMS_CREDENTIALS" ELSE "NEED_MONGO_KEYS"
  <2>1. y = [x EXCEPT !.state = st] /\ st \in {"NEED_KMS_CREDENTIALS", "NEED_MONGO_KEYS"}
    BY <1>3 DEF state_from_key_broker
  <2> HIDE DEF st
  <2>2. /\ Plain(y) /\ Control(y) /\ y.kb = x.kb /\ y.kind = x.kind /\ y.abort = x.abort
        /\ y.state = st
    BY <1>2, <1>3, <2>1
  <2> QED
    BY <1>3, <2>1, <2>2
<1>4. CASE x.state # "ERROR" /\ x.kb.state = "ADDING_DOCS_ANY"
  <2>1. y = [x EXCEPT !.state = "NEED_MONGO_KEYS"]
    BY <1>4 DEF state_from_key_broker
  <2>2. /\ Plain(y) /\ Control(y) /\ y.kb = x.kb /\ y.kind = x.kind /\ y.abort = x.abort
        /\ y.state = "NEED_MONGO_KEYS"
    BY <1>2, <1>4, <2>1
  <2> QED
    BY <1>4, <2>2
<1>5. CASE x.state # "ERROR" /\ x.kb.state \in {"AUTHENTICATING", "DECRYPTING_KEY_MATERIAL"}
  <2>1. y = [x EXCEPT !.state = "NEED_KMS"]
    BY <1>5 DEF state_from_key_broker
  <2>2. /\ Plain(y) /\ Control(y) /\ y.kb = x.kb /\ y.kind = x.kind /\ y.abort = x.abort
        /\ y.state = "NEED_KMS"
    BY <1>2, <1>5, <2>1
  <2> QED
    BY <1>5, <2>2
<1>6. CASE x.state # "ERROR" /\ x.kb.state = "DONE"
  <2> DEFINE none == x.nothing_to_do \/ x.kb.requests = {}
  <2>1. y = [x EXCEPT !.state = "READY", !.nothing_to_do = none]
    BY <1>6 DEF state_from_key_broker
  <2> HIDE DEF none
  <2>2. /\ DOMAIN y = CtxNames /\ y.state = "READY"
        /\ y.kind = x.kind /\ y.encrypting = x.encrypting /\ y.datakeys = x.datakeys /\ y.kb = x.kb
        /\ y.cmd = x.cmd /\ y.sb = x.sb /\ y.doc = x.doc /\ y.abort = x.abort
    BY <1>0, <2>1 DEF CtxNames
  <2>3. Shape(y)
    BY <1>0, <2>2 DEF Shape
  <2>4. Plain(y)
    BY <2>2, <2>3, PlainKept
  <2>5. Control(y)
    BY <2>2, <2>4 DEF Control, CollinfoStates, Plain
  <2> QED
    BY <1>6, <2>2, <2>4, <2>5
<1>7. CASE x.state # "ERROR" /\ x.kb.state \notin {"ADDING_DOCS", "ADDING_DOCS_ANY", "AUTHENTICATING",
                                                   "DECRYPTING_KEY_MATERIAL", "DONE"}
  <2>1. y = [x EXCEPT !.state = "ERROR"]
    BY <1>7 DEF state_from_key_broker, CtxFail
  <2>2. y.state = "ERROR" /\ y.kb = x.kb /\ y.kind = x.kind /\ y.abort = x.abort
    BY <1>0, <2>1 DEF CtxNames
  <2> QED
    BY <1>7, <2>2 DEF Stopped
<1> QED
  BY <1>1, <1>3, <1>4, <1>5, <1>6, <1>7

\* What is plain and where it should be is settled.
LEMMA PlainSettled ==
    ASSUME NEW x, Stopped(x) \/ (Plain(x) /\ Control(x))
    PROVE  Settled(x)
BY DEF Settled, Ends, Plain

\* The iterator is at the first sub-context that is not ready.
LEMMA FirstToWait ==
    ASSUME NEW x, Listed(x.datakeys), NEW i,
           i = First(x, 1, LAMBDA k : x.datakeys[k].dk.state = "READY")
    PROVE  /\ i \in 1..(Len(x.datakeys) + 1)
           /\ i = Len(x.datakeys) + 1 \/ x.datakeys[i].dk.state # "READY"
           /\ \A j \in 1..(i - 1) : x.datakeys[j].dk.state = "READY"
<1> DEFINE n == Len(x.datakeys)
           S == {k \in 1..(n + 1) : x.datakeys[k].dk.state = "READY"}
           At(k) == /\ k = n + 1 \/ x.datakeys[k].dk.state # "READY"
                    /\ \A j \in 1..(k - 1) : x.datakeys[j].dk.state = "READY"
<1>1. n \in Nat
  BY ListIs
<1>2. i = CHOOSE k \in 1..(n + 1) : At(k)
  BY DEF First
<1> HIDE DEF n
<1>3. PICK k \in 1..(n + 1) : (k = n + 1 \/ k \notin S) /\ \A j \in 1..(k - 1) : j \in S
  <2> HIDE DEF S
  <2>1. 1 \in 1..(n + 1)
    BY <1>1
  <2> QED
    BY <1>1, <2>1, FirstIs
<1>4. At(k)
  BY <1>3
<1> HIDE DEF At
<1>5. i \in 1..(n + 1) /\ At(i)
  BY <1>2, <1>4, Zenon
<1> QED
  BY <1>5 DEF At, n

\* The list of key documents to rewrap
LEMMA DocsListed ==
    ASSUME NEW b, NEW h, BrokerOut(b, h)
    PROVE  Listed(Reverse(b.cached) \o Reverse([i \in DOMAIN b.returned |-> b.returned[i].doc]))
<1> DEFINE f == [i \in DOMAIN b.returned |-> b.returned[i].doc]
<1>1. Listed(b.returned) /\ Listed(b.cached)
  BY DEF BrokerOut
<1>2. f = [i \in DOMAIN b.returned |-> f[i]]
  OBVIOUS
<1> HIDE DEF f
<1>3. Listed(f)
  BY <1>1, <1>2, ListMap
<1>4. Listed(Reverse(b.cached)) /\ Listed(Reverse(f))
  BY <1>1, <1>3, ListReverse
<1>5. Listed(Reverse(b.cached) \o Reverse(f))
  BY <1>4, ListConcat
<1> QED
  BY <1>5 DEF f

\* A context that differs in its sub-contexts
LEMMA WithSubs ==
    ASSUME NEW x, Core(x, {}), x.kind = "rewrap", NEW y, DOMAIN y = CtxNames, y.kb = x.kb, y.kind = x.kind,
           y.state \in {"NEED_KMS", "READY"},
           y.state = "NEED_KMS" => y.encrypting /\ SubsOut(y, {}),
           Listed(y.datakeys), \A i \in DOMAIN y.datakeys : SubOK(y.datakeys[i])
    PROVE  Settled(y)
<1>1. Shape(y)
  BY DEF Core, Shape
<1>2. Core(y, {})
  BY <1>1 DEF Core
<1>3. Control(y)
  BY DEF Control, CollinfoStates
<1> QED
  BY <1>2, <1>3 DEF Settled

\* _start_kms_encrypt
LEMMA StartsEncrypting ==
    ASSUME NEW g, NEW x, Plain(x), x.kind = "rewrap", ~ Stopped(x),
           NEW y, y = start_kms_encrypt(g, x)
    PROVE  Settled(y)
<1> DEFINE docs == Reverse(x.kb.cached) \o Reverse([i \in DOMAIN x.kb.returned |-> x.kb.returned[i].doc])
           z == FoldLeft(LAMBDA w, doc : add_new_datakey(g, w, doc), x, docs)
           at == First(z, 1, LAMBDA i : z.datakeys[i].dk.state = "READY")
           V == {d \in Subs(g, x, Range(docs)) : d.dk.state # "ERROR"}
<1>0. Shape(x) /\ DOMAIN x = CtxNames /\ x.datakeys = <<>> /\ ~ x.encrypting /\ Core(x, {})
  BY DEF Plain, Core, Shape
<1>1. Listed(docs)
  BY DocsListed DEF Plain, Core
<1>2. \/ y = CtxAbort(x)
      \/ y = z /\ Stopped(z)
      \/ /\ ~ Stopped(z) /\ x.state = "READY"
         /\ at > Len(z.datakeys) => y = [z EXCEPT !.iter = at, !.state = "READY"]
         /\ ~ (at > Len(z.datakeys)) =>
                y = [z EXCEPT !.iter = at, !.state = "NEED_KMS", !.encrypting = TRUE]
  BY DEF start_kms_encrypt
<1>3. CASE y = CtxAbort(x)
  BY <1>0, <1>3, FailEnds DEF Settled
<1>4. CASE y = z /\ Stopped(z)
  BY <1>4 DEF Settled, Ends
<1>5. CASE /\ ~ Stopped(z) /\ x.state = "READY"
           /\ at > Len(z.datakeys) => y = [z EXCEPT !.iter = at, !.state = "READY"]
           /\ ~ (at > Len(z.datakeys)) =>
                y = [z EXCEPT !.iter = at, !.state = "NEED_KMS", !.encrypting = TRUE]
  <2>1. z \in Grown(g, x, Range(docs))
    <3> HIDE DEF docs
    <3>1. z = FoldLeft(LAMBDA w, doc : add_new_datakey(g, w, doc), x, docs)
      OBVIOUS
    <3> HIDE DEF z
    <3> QED
      BY <1>0, <1>1, <3>1, GrownByAll
  <2>2. \A d \in V : SubOK(d) /\ SubNew(d.dk) /\ d.dk.state # "ERROR"
    <3>1. \A d \in Subs(g, x, Range(docs)) : \E doc : d = NewSub(g, x, doc)
      BY DEF Subs
    <3> QED
      BY <3>1, NewSubIs
  <2>3. <<>> \in Seq(V)
    OBVIOUS
  <2>4. \E ds \in Seq(V) : z.datakeys = ds /\ DOMAIN z = CtxNames /\ z.kb = x.kb /\ z.kind = x.kind
                           /\ z.state = x.state /\ z.encrypting = x.encrypting
    <3> HIDE DEF z, docs
    <3>1. ASSUME NEW ds, z = [x EXCEPT !.datakeys = ds, !.state = "ERROR"] PROVE FALSE
      <4>1. z.state = "ERROR"
        BY <1>0, <3>1 DEF CtxNames
      <4> QED
        BY <1>5, <4>1 DEF Stopped
    <3>2. CASE z = x
      BY <1>0, <2>3, <3>2
    <3>3. CASE \E ds \in Seq(V) : z = [x EXCEPT !.datakeys = ds]
      <4> HIDE DEF V
      <4> QED
        BY <1>0, <3>3 DEF CtxNames
    <3> QED
      BY <2>1, <3>1, <3>2, <3>3 DEF Grown
  <2> HIDE DEF V
  <2>5. at = First(z, 1, LAMBDA i : z.datakeys[i].dk.state = "READY")
    OBVIOUS
  <2> HIDE DEF z, at
  <2>6. /\ z.datakeys \in Seq(V) /\ Listed(z.datakeys) /\ DOMAIN z = CtxNames /\ z.kb = x.kb
        /\ z.kind = x.kind /\ z.state = x.state /\ z.encrypting = x.encrypting
    BY <2>4 DEF Listed
  <2>7. /\ at \in 1..(Len(z.datakeys) + 1)
        /\ at = Len(z.datakeys) + 1 \/ z.datakeys[at].dk.state # "READY"
        /\ \A j \in 1..(at - 1) : z.datakeys[j].dk.state = "READY"
    BY <2>5, <2>6, FirstToWait
  <2>8. Len(z.datakeys) \in Nat /\ DOMAIN z.datakeys = 1..Len(z.datakeys)
    BY <2>6, ListIs
  <2>9. \A i \in DOMAIN z.datakeys : z.datakeys[i] \in V
    BY <2>6, <2>8, ElementOfSeq
  <2>10. \A i \in DOMAIN z.datakeys :
            /\ SubOK(z.datakeys[i]) /\ z.datakeys[i].dk.state \in {"NEED_KMS", "READY"}
            /\ z.datakeys[i].dk.state = "NEED_KMS" => ~ z.datakeys[i].dk.returned
    BY <2>2, <2>9 DEF SubNew
  <2>11. CASE at > Len(z.datakeys)
    <3>1. y = [z EXCEPT !.iter = at, !.state = "READY"]
      BY <1>5, <2>11
    <3>2. /\ DOMAIN y = CtxNames /\ y.kb = x.kb /\ y.kind = x.kind /\ y.state = "READY"
          /\ y.encrypting = x.encrypting /\ y.datakeys = z.datakeys
      BY <2>6, <3>1 DEF CtxNames
    <3> QED
      BY <1>0, <2>6, <2>10, <3>2, WithSubs
  <2>12. CASE ~ (at > Len(z.datakeys))
    <3>1. y = [z EXCEPT !.iter = at, !.state = "NEED_KMS", !.encrypting = TRUE]
      BY <1>5, <2>12
    <3>2. /\ DOMAIN y = CtxNames /\ y.kb = x.kb /\ y.kind = x.kind /\ y.state = "NEED_KMS"
          /\ y.encrypting = TRUE /\ y.datakeys = z.datakeys /\ y.iter = at
      BY <2>6, <3>1 DEF CtxNames
    <3>3. at \in DOMAIN z.datakeys /\ at \in Nat /\ at # 0 /\ z.datakeys[at].dk.state = "NEED_KMS"
      BY <2>7, <2>8, <2>10, <2>12
    <3>4. ASSUME NEW i \in DOMAIN z.datakeys, z.datakeys[i].dk.state = "NEED_KMS" PROVE i >= at
      BY <2>7, <2>8, <3>3, <3>4
    <3>5. SubsOut(y, {})
      BY <2>10, <3>2, <3>3, <3>4 DEF SubsOut, SubOut, NeedsKms
    <3> QED
      BY <1>0, <2>6, <2>10, <3>2, <3>5, WithSubs
  <2> QED
    BY <2>11, <2>12
<1> QED
  BY <1>2, <1>3, <1>4, <1>5

\* A sub-context that is still waiting has been given a new request.
LEMMA SubsDone ==
    ASSUME NEW g, NEW s, Listed(s), \A i \in DOMAIN s : SubOK(s[i]),
           NEW t, t = [i \in DOMAIN s |-> SubKmsDone(g, s[i])]
    PROVE  /\ Listed(t) /\ DOMAIN t = DOMAIN s
           /\ \A i \in DOMAIN t : SubOK(t[i]) /\ (t[i].dk.state = "NEED_KMS" => ~ t[i].dk.returned)
<1>1. t = [i \in DOMAIN s |-> t[i]]
  OBVIOUS
<1>2. Listed(t) /\ DOMAIN t = DOMAIN s
  BY <1>1, ListMap
<1>3. ASSUME NEW i \in DOMAIN s
      PROVE  SubOK(t[i]) /\ (t[i].dk.state = "NEED_KMS" => ~ t[i].dk.returned)
  <2>1. t[i] = SubKmsDone(g, s[i]) /\ SubOK(s[i])
    OBVIOUS
  <2> QED
    BY <2>1, SubDone
<1> QED
  BY <1>2, <1>3

\* _kms_done_encrypt
LEMMA EncryptDone ==
    ASSUME NEW g, NEW x, Core(x, {}), Control(x), x.encrypting, x.state = "NEED_KMS",
           NEW y, y = kms_done_encrypt(g, x)
    PROVE  Settled(y)
<1> DEFINE h == [g EXCEPT !.tokens = @ \cup SubTokens(x)]
           t == [i \in DOMAIN x.datakeys |-> SubKmsDone(h, x.datakeys[i])]
           w == [x EXCEPT !.datakeys = t]
           at == First(w, 1, LAMBDA i : ~ NeedsKms(w, i))
           z == [w EXCEPT !.iter = at]
<1>0. Shape(x) /\ DOMAIN x = CtxNames /\ x.kind = "rewrap"
  BY DEF Core, Shape, Control
<1>1. \/ y = CtxAbort(x) \/ y = CtxFail(x) \/ y = CtxFail(z)
      \/ /\ z.iter > Len(z.datakeys) => y = [z EXCEPT !.state = "READY"]
         /\ ~ (z.iter > Len(z.datakeys)) => y = z
  BY DEF kms_done_encrypt, IterFromStart
<1>2. /\ Listed(t)
      /\ \A i \in DOMAIN t : SubOK(t[i]) /\ (t[i].dk.state = "NEED_KMS" => ~ t[i].dk.returned)
  <2> DEFINE s == x.datakeys
  <2>1. Listed(s) /\ \A i \in DOMAIN s : SubOK(s[i])
    BY DEF Core
  <2>2. t = [i \in DOMAIN s |-> SubKmsDone(h, s[i])]
    OBVIOUS
  <2> HIDE DEF t, s, h
  <2> QED
    BY <2>1, <2>2, SubsDone
<1> HIDE DEF t
<1>3. /\ DOMAIN w = CtxNames /\ w.kb = x.kb /\ w.kind = x.kind /\ w.state = x.state
      /\ w.encrypting = x.encrypting /\ w.datakeys = t
  BY <1>0 DEF CtxNames
<1>4. at = First(w, 1, LAMBDA i : ~ NeedsKms(w, i))
  OBVIOUS
<1> HIDE DEF w, at
<1>5. /\ at \in 1..(Len(t) + 1) /\ (at = Len(t) + 1 \/ NeedsKms(w, at))
      /\ \A j \in 1..(at - 1) : ~ NeedsKms(w, j)
  <2>1. Len(w.datakeys) \in Nat
    BY <1>2, <1>3, ListIs
  <2>2. 1 \in 1..(Len(w.datakeys) + 1)
    BY <2>1
  <2>3. Listed(w.datakeys)
    BY <1>2, <1>3
  <2>4. /\ at \in 1..(Len(w.datakeys) + 1) /\ (at = Len(w.datakeys) + 1 \/ NeedsKms(w, at))
        /\ \A j \in 1..(at - 1) : ~ NeedsKms(w, j)
    BY <1>4, <2>2, <2>3, FirstWithRequest
  <2> QED
    BY <1>3, <2>4
<1>6. /\ DOMAIN z = CtxNames /\ z.kb = x.kb /\ z.kind = x.kind /\ z.state = x.state
      /\ z.encrypting = x.encrypting /\ z.datakeys = t /\ z.iter = at
  BY <1>3 DEF CtxNames
<1> HIDE DEF z
<1>7. Shape(z)
  BY <1>0, <1>6 DEF Shape
<1>8. Len(t) \in Nat /\ DOMAIN t = 1..Len(t)
  BY <1>2, ListIs
<1>9. CASE y = CtxAbort(x) \/ y = CtxFail(x) \/ y = CtxFail(z)
  BY <1>0, <1>7, <1>9, FailEnds DEF Settled
<1>10. CASE z.iter > Len(z.datakeys) /\ y = [z EXCEPT !.state = "READY"]
  <2>1. /\ DOMAIN y = CtxNames /\ y.kb = x.kb /\ y.kind = x.kind /\ y.state = "READY"
        /\ y.datakeys = t
    BY <1>6, <1>10 DEF CtxNames
  <2> QED
    BY <1>0, <1>2, <2>1, WithSubs
<1>11. CASE ~ (z.iter > Len(z.datakeys)) /\ y = z
  <2>1. at \in DOMAIN t /\ at \in Nat /\ at # 0 /\ t[at].dk.state = "NEED_KMS"
    BY <1>3, <1>5, <1>6, <1>8, <1>11 DEF NeedsKms
  <2>2. ASSUME NEW i \in DOMAIN t, t[i].dk.state = "NEED_KMS" PROVE i >= at
    <3>1. i \in 1..(at - 1) => ~ NeedsKms(w, i)
      BY <1>5
    <3>2. NeedsKms(w, i)
      BY <1>3, <2>2 DEF NeedsKms
    <3> QED
      BY <1>8, <2>1, <3>1, <3>2
  <2>3. SubsOut(y, {})
    BY <1>2, <1>6, <1>11, <2>1, <2>2 DEF SubsOut, SubOut, NeedsKms
  <2> QED
    BY <1>0, <1>2, <1>6, <1>11, <2>3, WithSubs
<1> QED
  BY <1>1, <1>9, <1>10, <1>11

\* A key broker that has failed fails the context.
LEMMA BrokerFailed ==
    ASSUME NEW g, NEW x, Shape(x), x.kb.state = "ERROR"
    PROVE  Stopped(state_from_key_broker(g, x))
<1>1. CASE x.state = "ERROR"
  BY <1>1 DEF state_from_key_broker, Stopped
<1>2. CASE x.state # "ERROR"
  <2>1. state_from_key_broker(g, x) = CtxFail(x)
    BY <1>2 DEF state_from_key_broker
  <2> QED
    BY <2>1, FailEnds
<1> QED
  BY <1>1, <1>2

\* kms_done of a context that rewraps
LEMMA RewrapDone ==
    ASSUME NEW g, NEW x, Core(x, {}), Control(x), x.kind = "rewrap", x.state = "NEED_KMS",
           NEW y, y = rewrap_kms_done(g, x)
    PROVE  Settled(y)
<1>1. CASE x.encrypting
  BY <1>1, EncryptDone DEF rewrap_kms_done
<1>2. CASE ~ x.encrypting
  <2> DEFINE w == KbKmsDone(x)
             z == state_from_key_broker(g, w)
  <2>1. Plain(x) /\ Shape(x) /\ BrokerOut(x.kb, {})
        /\ x.kb.state \in {"AUTHENTICATING", "DECRYPTING_KEY_MATERIAL"}
    BY <1>2 DEF Plain, Core, Control
  <2>2. y = IF Stopped(w) THEN w
            ELSE IF Stopped(z) \/ z.state = "NEED_KMS" THEN z ELSE start_kms_encrypt(g, z)
    BY <1>2 DEF rewrap_kms_done, RewrapKmsDoneDecrypt
  <2>3. w = KbKmsDone(x)
    OBVIOUS
  <2> HIDE DEF w
  <2>4. \/ Stopped(w)
        \/ /\ Shape(w) /\ BrokerOut(w.kb, {})
           /\ w.kb.state \in {"DECRYPTING_KEY_MATERIAL", "DONE"}
           /\ \A n \in CtxNames \ {"kb"} : w[n] = x[n]
    BY <2>1, <2>3, OutKmsDone
  <2>5. CASE Stopped(w)
    BY <2>2, <2>5 DEF Settled, Ends
  <2>6. CASE ~ Stopped(w)
    <3>1. /\ w.kind = x.kind /\ w.encrypting = x.encrypting /\ w.datakeys = x.datakeys
          /\ w.cmd = x.cmd /\ w.sb = x.sb /\ w.doc = x.doc
      BY <2>4, <2>6 DEF CtxNames
    <3>2. Plain(w) /\ w.kind = "rewrap" /\ w.kb.state # "ADDING_DOCS"
      BY <2>1, <2>4, <2>6, <3>1 DEF Plain, Core
    <3>3. z = state_from_key_broker(g, w)
      OBVIOUS
    <3> HIDE DEF z
    <3>4. (Stopped(z) \/ (Plain(z) /\ Control(z))) /\ z.kind = w.kind
      BY <3>2, <3>3, FromBroker
    <3>5. CASE Stopped(z) \/ z.state = "NEED_KMS"
      BY <2>2, <2>6, <3>4, <3>5, PlainSettled
    <3>6. CASE ~ (Stopped(z) \/ z.state = "NEED_KMS")
      <4>1. Plain(z) /\ z.kind = "rewrap" /\ ~ Stopped(z) /\ y = start_kms_encrypt(g, z)
        BY <2>2, <2>6, <3>2, <3>4, <3>6
      <4> QED
        BY <4>1, StartsEncrypting
    <3> QED
      BY <3>5, <3>6
  <2> QED
    BY <2>5, <2>6
<1> QED
  BY <1>1, <1>2

\* mongo_done of a context that rewraps
LEMMA RewrapDocs ==
    ASSUME NEW g, NEW x, Plain(x), x.kind = "rewrap", NEW y, y = rewrap_mongo_done_keys(g, x)
    PROVE  Settled(y)
<1> DEFINE w == KbDocsDone(x)
           z == state_from_key_broker(g, w)
           kb == DocsDone(x.kb)
<1>1. Shape(x) /\ BrokerOut(x.kb, {}) /\ DOMAIN x.kb = KbNames
  BY DEF Plain, Core, Shape
<1>2. /\ BrokerOut(kb, {}) \/ kb.state = "ERROR"
      /\ kb.state \in {"AUTHENTICATING", "DECRYPTING_KEY_MATERIAL", "DONE", "ERROR"}
      /\ DOMAIN kb = KbNames
  <2> DEFINE b == x.kb
  <2>1. BrokerOut(b, {}) /\ DOMAIN b = KbNames
    BY <1>1
  <2> HIDE DEF b
  <2>2. /\ BrokerOut(DocsDone(b), {}) \/ DocsDone(b).state = "ERROR"
        /\ DocsDone(b).state \in {"AUTHENTICATING", "DECRYPTING_KEY_MATERIAL", "DONE", "ERROR"}
        /\ DOMAIN DocsDone(b) = KbNames
    BY <2>1, OutCalls, BrokerCallsKeep
  <2> QED
    BY <2>2 DEF b
<1>3. w = [x EXCEPT !.kb = kb]
  BY DEF KbDocsDone
<1> HIDE DEF kb, w
<1>4. y = IF Stopped(z) THEN z
          ELSE IF z.kb.requests = {} THEN [z EXCEPT !.state = "DONE"]
          ELSE IF z.state = "READY" THEN start_kms_encrypt(g, z)
          ELSE IF z.state # "NEED_KMS" THEN CtxAbort(z) ELSE z
  BY DEF rewrap_mongo_done_keys, w
<1>5. CASE kb.state = "ERROR"
  <2>1. Shape(w) /\ w.kb = kb
    BY <1>1, <1>2, <1>3, BrokerShape
  <2>2. Stopped(z)
    BY <1>5, <2>1, BrokerFailed
  <2> HIDE DEF z
  <2> QED
    BY <1>4, <2>2 DEF Settled, Ends
<1>6. CASE kb.state # "ERROR"
  <2>1. Plain(w) /\ w.kb = kb /\ \A n \in CtxNames \ {"kb"} : w[n] = x[n]
    BY <1>2, <1>3, <1>6, PlainBroker
  <2>2. w.kind = "rewrap" /\ w.kb.state # "ADDING_DOCS"
    BY <1>2, <2>1 DEF CtxNames
  <2>3. z = state_from_key_broker(g, w)
    OBVIOUS
  <2> HIDE DEF z
  <2>4. (Stopped(z) \/ (Plain(z) /\ Control(z))) /\ z.kind = w.kind
    BY <2>1, <2>2, <2>3, FromBroker
  <2>5. CASE Stopped(z)
    BY <1>4, <2>5 DEF Settled, Ends
  <2>6. CASE ~ Stopped(z)
    <3>1. Plain(z) /\ Shape(z) /\ z.kind = "rewrap"
      BY <2>2, <2>4, <2>6 DEF Plain, Core
    <3>2. CASE y = [z EXCEPT !.state = "DONE"]
      <4>1. y.state = "DONE" /\ DOMAIN y = CtxNames
        BY <3>1, <3>2 DEF Shape, CtxNames
      <4> QED
        BY <4>1 DEF Settled, Ends
    <3>3. CASE y = start_kms_encrypt(g, z)
      BY <2>6, <3>1, <3>3, StartsEncrypting
    <3>4. CASE y = CtxAbort(z)
      BY <3>1, <3>4, FailEnds DEF Settled
    <3>5. CASE y = z
      BY <2>4, <3>5, PlainSettled
    <3> QED
      BY <1>4, <2>6, <3>2, <3>3, <3>4, <3>5
  <2> QED
    BY <2>5, <2>6
<1> QED
  BY <1>5, <1>6

\* _kms_start_decrypt: any key is asked for.
LEMMA RewrapAsks ==
    ASSUME NEW g, NEW x, Plain(x), x.kind = "rewrap", x.kb = NewBroker,
           NEW y, y = kms_start_decrypt(g, x)
    PROVE  Settled(y)
<1> DEFINE kb == RequestAny(x.kb)
           w == [x EXCEPT !.kb = kb]
<1>1. kb = [NewBroker EXCEPT !.state = "ADDING_DOCS_ANY", !.any = TRUE]
  BY DEF RequestAny, NewBroker
<1>2. /\ DOMAIN kb = KbNames /\ kb.state = "ADDING_DOCS_ANY" /\ kb.ok
      /\ kb.auth = <<>> /\ kb.returned = <<>> /\ kb.cached = <<>> /\ kb.iter = 0
  BY <1>1 DEF NewBroker, KbNames
<1>3. BrokerOut(kb, {})
  <2>1. Listed(<<>>) /\ DOMAIN <<>> = {}
    BY DEF Listed
  <2> QED
    BY <1>2, <2>1 DEF BrokerOut
<1> HIDE DEF kb
<1>4. w = [x EXCEPT !.kb = kb]
  OBVIOUS
<1>5. y = IF w.kb.ok THEN state_from_key_broker(g, w) ELSE w
  BY DEF kms_start_decrypt, kb
<1> HIDE DEF w
<1>6. Plain(w) /\ w.kb = kb /\ \A n \in CtxNames \ {"kb"} : w[n] = x[n]
  BY <1>2, <1>3, <1>4, PlainBroker
<1>7. y = state_from_key_broker(g, w) /\ w.kb.state # "ADDING_DOCS"
  BY <1>2, <1>5, <1>6
<1>8. Stopped(y) \/ (Plain(y) /\ Control(y))
  BY <1>6, <1>7, FromBroker
<1> QED
  BY <1>8, PlainSettled

\* A new context is plain, whatever its kind, command, document and schemas.
LEMMA NewPlain ==
    ASSUME NEW x, DOMAIN x = CtxNames, x.kb = NewBroker, ~ x.encrypting, x.datakeys = <<>>,
           x.kind \in Kinds, x.kind = "encrypt" => SbOK(x.sb) /\ FiniteInfo(x.cmd),
           x.kind = "decrypt" => IsFiniteSet(x.doc)
    PROVE  Plain(x)
<1>1. Shape(x)
  BY DEF Shape, NewBroker, KbNames
<1>2. Listed(<<>>) /\ DOMAIN <<>> = {}
  BY DEF Listed
<1>3. /\ NewBroker.auth = <<>> /\ NewBroker.returned = <<>> /\ NewBroker.cached = <<>>
      /\ NewBroker.iter = 0 /\ NewBroker.state = "REQUESTING"
  BY DEF NewBroker
<1>4. BrokerOut(x.kb, {})
  BY <1>2, <1>3 DEF BrokerOut
<1> QED
  BY <1>1, <1>2, <1>4 DEF Plain, Core

\* mongocrypt_ctx_rewrap_many_datakey_init
LEMMA RewrapStarts ==
    ASSUME NEW g, NEW kek, NEW y, y = rewrap_init(g, kek)
    PROVE  Settled(y)
<1> DEFINE x == [mongocrypt_ctx_new EXCEPT !.kind = "rewrap", !.kek = kek, !.state = "NEED_MONGO_KEYS"]
           w == [x EXCEPT !.state = "NEED_KMS_CREDENTIALS"]
<1>1. y = IF g.creds THEN w ELSE kms_start_decrypt(g, x)
  BY DEF rewrap_init
<1>2. /\ DOMAIN x = CtxNames /\ x.kb = NewBroker /\ ~ x.encrypting /\ x.datakeys = <<>>
      /\ x.kind = "rewrap"
  BY DEF mongocrypt_ctx_new, CtxNames
<1>3. Plain(x)
  BY <1>2, NewPlain DEF Kinds
<1> HIDE DEF x
<1>4. CASE g.creds
  <2>0. w = [x EXCEPT !.state = "NEED_KMS_CREDENTIALS"]
    OBVIOUS
  <2> HIDE DEF w
  <2>1. Plain(w) /\ w.state = "NEED_KMS_CREDENTIALS" /\ w.kb = x.kb
        /\ \A n \in CtxNames \ {"state"} : w[n] = x[n]
    BY <1>3, <2>0, PlainState
  <2>2. w.kind = "rewrap" /\ ~ w.encrypting /\ w.datakeys = <<>> /\ w.kb = NewBroker
    BY <1>2, <2>1 DEF Plain, CtxNames
  <2>3. Control(w)
    BY <2>1, <2>2 DEF Control, CollinfoStates
  <2>4. Settled(w)
    BY <2>1, <2>3, PlainSettled
  <2> QED
    BY <1>1, <1>4, <2>4 DEF w
<1>5. CASE ~ g.creds
  BY <1>1, <1>2, <1>3, <1>5, RewrapAsks
<1> QED
  BY <1>4, <1>5

\* mongocrypt_ctx_provide_kms_providers
LEMMA Provided ==
    ASSUME NEW g, NEW x, Core(x, {}), Control(x), x.state = "NEED_KMS_CREDENTIALS",
           NEW z, z = ProvideState(x),
           NEW y, y = IF z.kind = "rewrap" THEN kms_start_decrypt(g, z) ELSE z
    PROVE  Settled(y)
<1> DEFINE st == IF x.kb.state = "ADDING_DOCS" THEN "NEED_MONGO_KEYS" ELSE "NEED_KMS"
<1>1. ~ x.encrypting /\ x.datakeys = <<>>
  BY DEF Control
<1>2. Plain(x)
  BY <1>1 DEF Plain
<1>3. z = [x EXCEPT !.state = st]
  BY DEF ProvideState
<1>4. x.kb.state = "ADDING_DOCS" => st = "NEED_MONGO_KEYS"
  OBVIOUS
<1> HIDE DEF st
<1>5. /\ Plain(z) /\ z.state = st /\ z.kb = x.kb
      /\ \A n \in CtxNames \ {"state"} : z[n] = x[n]
  BY <1>2, <1>3, PlainState
<1>6. z.kind = x.kind /\ ~ z.encrypting /\ z.datakeys = <<>>
  BY <1>1, <1>5 DEF CtxNames
<1>7. CASE x.kind = "rewrap"
  <2>1. z.kb = NewBroker
    BY <1>5, <1>7 DEF Control
  <2> QED
    BY <1>5, <1>6, <1>7, <2>1, RewrapAsks
<1>8. CASE x.kind # "rewrap"
  <2>1. x.kb.state = "ADDING_DOCS"
    BY <1>8 DEF Control
  <2>2. Control(z)
    BY <1>4, <1>5, <1>6, <2>1 DEF Control, CollinfoStates
  <2> QED
    BY <1>5, <1>6, <1>8, <2>2, PlainSettled
<1> QED
  BY <1>7, <1>8

-----------------------------------------------------------------------------
(***************************************************************************)
(* Encryption: the schemas a context gets are finite, so are its           *)
(* markings, and so are the keys it asks for (mongocrypt-ctx-encrypt.c,    *)
(* mc-schema-broker.c).                                                    *)
(***************************************************************************)
\* The schemas the application gives and those in the cache are finite.
Finite(g) ==
    /\ \A ns \in DOMAIN g.colls : FiniteInfo(g.colls[ns])
    /\ \A map \in {g.efcMap, g.schemaMap} : \A ns \in DOMAIN map : IsFiniteSet(map[ns])

\* Schema entries, each replaced by what was got for it
LEMMA SbGot ==
    ASSUME NEW sb, SbOK(sb), NEW got, got = [i \in DOMAIN sb.entries |-> got[i]],
           \A i \in DOMAIN sb.entries : got[i].ok => EntryOK(got[i].se),
           NEW r, r = IF \E i \in DOMAIN got : ~ got[i].ok THEN SbFails(sb)
                      ELSE [sb EXCEPT !.entries = [i \in DOMAIN got |-> got[i].se]]
    PROVE  SbOK(r)
<1>1. DOMAIN sb = SbNames /\ Listed(sb.entries) /\ \A i \in DOMAIN sb.entries : EntryOK(sb.entries[i])
  BY DEF SbOK
<1>2. CASE r = SbFails(sb)
  <2>1. DOMAIN r = SbNames /\ r.entries = sb.entries
    BY <1>1, <1>2 DEF SbFails, SbNames
  <2> QED
    BY <1>1, <2>1 DEF SbOK
<1>3. CASE ~ \E i \in DOMAIN got : ~ got[i].ok
  <2> DEFINE e == [i \in DOMAIN got |-> got[i].se]
  <2>1. DOMAIN got = DOMAIN sb.entries
    OBVIOUS
  <2>2. e = [i \in DOMAIN sb.entries |-> e[i]] /\ \A i \in DOMAIN sb.entries : e[i] = got[i].se
    BY <2>1
  <2>3. r = [sb EXCEPT !.entries = e]
    BY <1>3
  <2> HIDE DEF e
  <2>4. Listed(e) /\ DOMAIN e = DOMAIN sb.entries
    <3> DEFINE s == sb.entries
    <3>1. Listed(s) /\ e = [i \in DOMAIN s |-> e[i]]
      BY <1>1, <2>2
    <3> HIDE DEF s
    <3>2. Listed(e) /\ DOMAIN e = DOMAIN s
      BY <3>1, ListMap
    <3> QED
      BY <3>2 DEF s
  <2>5. DOMAIN r = SbNames /\ r.entries = e
    BY <1>1, <2>3 DEF SbNames
  <2>6. \A i \in DOMAIN e : EntryOK(e[i])
    BY <1>3, <2>1, <2>2, <2>4
  <2> QED
    BY <2>4, <2>5, <2>6 DEF SbOK
<1> QED
  BY <1>2, <1>3

\* An entry with encryptedFields
LEMMA EntryEfc ==
    ASSUME NEW se, EntryOK(se), NEW efc, FiniteSchema(efc)
    PROVE  /\ EntryOK([se EXCEPT !.efc = efc, !.satisfied = TRUE])
           /\ EntryOK([se EXCEPT !.efc = efc])
<1> DEFINE e1 == [se EXCEPT !.efc = efc, !.satisfied = TRUE]
           e2 == [se EXCEPT !.efc = efc]
<1>1. DOMAIN se = EntryNames /\ FiniteSchema(se.json)
  BY DEF EntryOK, FiniteInfo
<1>2. DOMAIN e1 = EntryNames /\ e1.efc = efc /\ e1.json = se.json
  BY <1>1 DEF EntryNames
<1>3. DOMAIN e2 = EntryNames /\ e2.efc = efc /\ e2.json = se.json
  BY <1>1 DEF EntryNames
<1> HIDE DEF e1, e2
<1>4. EntryOK(e1) /\ EntryOK(e2)
  BY <1>1, <1>2, <1>3 DEF EntryOK, FiniteInfo
<1> QED
  BY <1>4 DEF e1, e2

\* An entry with a $jsonSchema
LEMMA EntryJson ==
    ASSUME NEW se, EntryOK(se), NEW json, FiniteSchema(json)
    PROVE  /\ EntryOK([se EXCEPT !.json = json, !.satisfied = TRUE])
           /\ EntryOK([se EXCEPT !.json = json])
<1> DEFINE e1 == [se EXCEPT !.json = json, !.satisfied = TRUE]
           e2 == [se EXCEPT !.json = json]
<1>1. DOMAIN se = EntryNames /\ FiniteSchema(se.efc)
  BY DEF EntryOK, FiniteInfo
<1>2. DOMAIN e1 = EntryNames /\ e1.efc = se.efc /\ e1.json = json
  BY <1>1 DEF EntryNames
<1>3. DOMAIN e2 = EntryNames /\ e2.efc = se.efc /\ e2.json = json
  BY <1>1 DEF EntryNames
<1> HIDE DEF e1, e2
<1>4. EntryOK(e1) /\ EntryOK(e2)
  BY <1>1, <1>2, <1>3 DEF EntryOK, FiniteInfo
<1> QED
  BY <1>4 DEF e1, e2

\* An entry that is to have no schema
LEMMA EntryWithout ==
    ASSUME NEW se, EntryOK(se)
    PROVE  EntryOK([se EXCEPT !.satisfied = TRUE])
<1> DEFINE e == [se EXCEPT !.satisfied = TRUE]
<1>1. DOMAIN se = EntryNames /\ FiniteSchema(se.efc) /\ FiniteSchema(se.json)
  BY DEF EntryOK, FiniteInfo
<1>2. DOMAIN e = EntryNames /\ e.efc = se.efc /\ e.json = se.json
  BY <1>1 DEF EntryNames
<1> HIDE DEF e
<1>3. EntryOK(e)
  BY <1>1, <1>2 DEF EntryOK, FiniteInfo
<1> QED
  BY <1>3 DEF e

\* An entry and the schemas of a collection info
LEMMA EntryFromInfo ==
    ASSUME NEW se, EntryOK(se), NEW info, FiniteInfo(info),
           NEW got, got = mc_schema_entry_satisfy_from_collinfo(se, info)
    PROVE  EntryOK(got.se)
<1> DEFINE mid == [se EXCEPT !.json = info.json]
           last == [mid EXCEPT !.efc = info.efc, !.satisfied = TRUE]
<1>1. FiniteSchema(info.efc) /\ FiniteSchema(info.json)
  BY DEF FiniteInfo
<1>2. EntryOK(mid)
  BY <1>1, EntryJson
<1>3. got.se = se \/ got.se = last
  BY DEF mc_schema_entry_satisfy_from_collinfo, WithEfc
<1> HIDE DEF mid
<1>4. EntryOK(last)
  BY <1>1, <1>2, EntryEfc
<1> QED
  BY <1>3, <1>4

\* What an entry gets of the encryptedFieldsMap
LEMMA EntryWithEfc ==
    ASSUME NEW se, EntryOK(se), NEW efc, FiniteSchema(efc)
    PROVE  EntryOK(WithEfc(se, efc).se)
<1> DEFINE e == [se EXCEPT !.efc = efc, !.satisfied = TRUE]
<1>1. WithEfc(se, efc).se = e
  BY DEF WithEfc
<1>2. EntryOK(e)
  BY EntryEfc
<1> QED
  BY <1>1, <1>2

\* mc_schema_broker_satisfy_from_encryptedFieldsMap, _from_schemaMap, _from_cache,
\* _from_create_or_collMod and _remaining_with_empty_schemas
LEMMA SbSatisfied ==
    ASSUME NEW g, Finite(g), NEW sb, SbOK(sb), NEW cmd, FiniteInfo(cmd)
    PROVE  /\ SbOK(mc_schema_broker_satisfy_from_encryptedFieldsMap(sb, g.efcMap))
           /\ SbOK(mc_schema_broker_satisfy_from_schemaMap(sb, g.schemaMap))
           /\ SbOK(mc_schema_broker_satisfy_from_cache(sb, g.colls))
           /\ SbOK(mc_schema_broker_satisfy_from_create_or_collMod(sb, cmd))
           /\ SbOK(mc_schema_broker_satisfy_remaining_with_empty_schemas(sb))
<1> DEFINE At(i) == sb.entries[i]
           Kept(i) == [ok |-> TRUE, se |-> At(i)]
<1>0. \A i \in DOMAIN sb.entries : EntryOK(At(i))
  BY DEF SbOK
<1>1. \A s : IsFiniteSet(s) => FiniteSchema(<<s>>)
  BY DEF FiniteSchema
<1>2. FiniteSchema(cmd.json) /\ FiniteSchema(cmd.efc) /\ FiniteSchema(<<>>)
  BY DEF FiniteInfo, FiniteSchema
<1>3. SbOK(mc_schema_broker_satisfy_from_encryptedFieldsMap(sb, g.efcMap))
  <2> DEFINE From(se) == IF <<sb.db, se.coll>> \notin DOMAIN g.efcMap THEN Unchanged(se)
                         ELSE WithEfc(se, <<g.efcMap[<<sb.db, se.coll>>]>>)
             got == [i \in DOMAIN sb.entries |-> IF At(i).satisfied THEN Kept(i) ELSE From(At(i))]
             r == mc_schema_broker_satisfy_from_encryptedFieldsMap(sb, g.efcMap)
  <2>1. r = IF \E i \in DOMAIN got : ~ got[i].ok THEN SbFails(sb)
            ELSE [sb EXCEPT !.entries = [i \in DOMAIN got |-> got[i].se]]
    BY DEF mc_schema_broker_satisfy_from_encryptedFieldsMap, Satisfy
  <2>2. ASSUME NEW i \in DOMAIN sb.entries PROVE EntryOK(got[i].se)
    <3>1. EntryOK(At(i))
      BY <1>0
    <3>2. CASE got[i] = Kept(i) \/ got[i] = Unchanged(At(i))
      BY <3>1, <3>2 DEF Unchanged
    <3>3. CASE /\ <<sb.db, At(i).coll>> \in DOMAIN g.efcMap
               /\ got[i] = WithEfc(At(i), <<g.efcMap[<<sb.db, At(i).coll>>]>>)
      <4>1. FiniteSchema(<<g.efcMap[<<sb.db, At(i).coll>>]>>)
        BY <1>1, <3>3 DEF Finite
      <4> HIDE DEF At, got
      <4> QED
        BY <3>1, <3>3, <4>1, EntryWithEfc
    <3> QED
      BY <3>2, <3>3
  <2>3. got = [i \in DOMAIN sb.entries |-> got[i]]
    OBVIOUS
  <2> HIDE DEF got, r
  <2>4. SbOK(r)
    BY <2>1, <2>2, <2>3, SbGot
  <2> QED
    BY <2>4 DEF r
<1>4. SbOK(mc_schema_broker_satisfy_from_schemaMap(sb, g.schemaMap))
  <2> DEFINE From(se) == IF <<sb.db, se.coll>> \notin DOMAIN g.schemaMap THEN Unchanged(se)
                         ELSE Unchanged([se EXCEPT !.json = <<g.schemaMap[<<sb.db, se.coll>>]>>,
                                                   !.satisfied = TRUE])
             got == [i \in DOMAIN sb.entries |-> IF At(i).satisfied THEN Kept(i) ELSE From(At(i))]
             r == mc_schema_broker_satisfy_from_schemaMap(sb, g.schemaMap)
  <2>1. r = IF \E i \in DOMAIN got : ~ got[i].ok THEN SbFails(sb)
            ELSE [sb EXCEPT !.entries = [i \in DOMAIN got |-> got[i].se]]
    BY DEF mc_schema_broker_satisfy_from_schemaMap, Satisfy
  <2>2. ASSUME NEW i \in DOMAIN sb.entries PROVE EntryOK(got[i].se)
    <3>1. EntryOK(At(i))
      BY <1>0
    <3>2. CASE got[i] = Kept(i) \/ got[i] = Unchanged(At(i))
      BY <3>1, <3>2 DEF Unchanged
    <3> DEFINE json == <<g.schemaMap[<<sb.db, At(i).coll>>]>>
               e == [At(i) EXCEPT !.json = json, !.satisfied = TRUE]
    <3>3. CASE <<sb.db, At(i).coll>> \in DOMAIN g.schemaMap /\ got[i] = Unchanged(e)
      <4>1. FiniteSchema(json)
        BY <1>1, <3>3 DEF Finite
      <4>2. got[i].se = e
        BY <3>3 DEF Unchanged
      <4> HIDE DEF At, got, json
      <4>3. EntryOK(e)
        BY <3>1, <4>1, EntryJson
      <4> QED
        BY <4>2, <4>3
    <3> QED
      BY <3>2, <3>3
  <2>3. got = [i \in DOMAIN sb.entries |-> got[i]]
    OBVIOUS
  <2> HIDE DEF got, r
  <2>4. SbOK(r)
    BY <2>1, <2>2, <2>3, SbGot
  <2> QED
    BY <2>4 DEF r
<1>5. SbOK(mc_schema_broker_satisfy_from_cache(sb, g.colls))
  <2> DEFINE From(se) == IF <<sb.db, se.coll>> \notin DOMAIN g.colls THEN Unchanged(se)
                         ELSE mc_schema_entry_satisfy_from_collinfo(se, g.colls[<<sb.db, se.coll>>])
             got == [i \in DOMAIN sb.entries |-> IF At(i).satisfied THEN Kept(i) ELSE From(At(i))]
             r == mc_schema_broker_satisfy_from_cache(sb, g.colls)
  <2>1. r = IF \E i \in DOMAIN got : ~ got[i].ok THEN SbFails(sb)
            ELSE [sb EXCEPT !.entries = [i \in DOMAIN got |-> got[i].se]]
    BY DEF mc_schema_broker_satisfy_from_cache, Satisfy
  <2>2. ASSUME NEW i \in DOMAIN sb.entries PROVE EntryOK(got[i].se)
    <3>1. EntryOK(At(i))
      BY <1>0
    <3>2. CASE got[i] = Kept(i) \/ got[i] = Unchanged(At(i))
      BY <3>1, <3>2 DEF Unchanged
    <3> DEFINE info == g.colls[<<sb.db, At(i).coll>>]
    <3>3. CASE /\ <<sb.db, At(i).coll>> \in DOMAIN g.colls
               /\ got[i] = mc_schema_entry_satisfy_from_collinfo(At(i), info)
      <4>1. FiniteInfo(info)
        BY <3>3 DEF Finite
      <4> HIDE DEF At, got, info
      <4> QED
        BY <3>1, <3>3, <4>1, EntryFromInfo
    <3> QED
      BY <3>2, <3>3
  <2>3. got = [i \in DOMAIN sb.entries |-> got[i]]
    OBVIOUS
  <2> HIDE DEF got, r
  <2>4. SbOK(r)
    BY <2>1, <2>2, <2>3, SbGot
  <2> QED
    BY <2>4 DEF r
<1>6. SbOK(mc_schema_broker_satisfy_from_create_or_collMod(sb, cmd))
  <2> DEFINE From(se) == IF cmd.name \notin {"create", "collMod"} \/ se.coll # cmd.coll THEN Unchanged(se)
                         ELSE IF cmd.json # <<>>
                         THEN Unchanged([se EXCEPT !.json = cmd.json, !.satisfied = TRUE])
                         ELSE IF cmd.efc # <<>> THEN WithEfc(se, cmd.efc)
                         ELSE Unchanged(se)
             got == [i \in DOMAIN sb.entries |-> IF At(i).satisfied THEN Kept(i) ELSE From(At(i))]
             r == mc_schema_broker_satisfy_from_create_or_collMod(sb, cmd)
  <2>1. r = IF \E i \in DOMAIN got : ~ got[i].ok THEN SbFails(sb)
            ELSE [sb EXCEPT !.entries = [i \in DOMAIN got |-> got[i].se]]
    BY DEF mc_schema_broker_satisfy_from_create_or_collMod, Satisfy
  <2>2. ASSUME NEW i \in DOMAIN sb.entries PROVE EntryOK(got[i].se)
    <3>1. EntryOK(At(i))
      BY <1>0
    <3> DEFINE e == [At(i) EXCEPT !.json = cmd.json, !.satisfied = TRUE]
    <3>2. \/ got[i] = Kept(i) \/ got[i] = Unchanged(At(i)) \/ got[i] = Unchanged(e)
          \/ got[i] = WithEfc(At(i), cmd.efc)
      OBVIOUS
    <3>3. EntryOK(e)
      <4> HIDE DEF At
      <4> QED
        BY <1>2, <3>1, EntryJson
    <3>4. CASE got[i] = WithEfc(At(i), cmd.efc)
      <4> DEFINE efc == cmd.efc
      <4>1. FiniteSchema(efc) /\ got[i] = WithEfc(At(i), efc)
        BY <1>2, <3>4
      <4> HIDE DEF At, got, efc
      <4>2. EntryOK(WithEfc(At(i), efc).se)
        BY <3>1, <4>1, EntryWithEfc
      <4> QED
        BY <4>1, <4>2
    <3>5. CASE got[i] = Kept(i) \/ got[i] = Unchanged(At(i)) \/ got[i] = Unchanged(e)
      <4> HIDE DEF At, got, e
      <4>1. got[i].se = At(i) \/ got[i].se = e
        BY <3>5 DEF Unchanged
      <4> QED
        BY <3>1, <3>3, <4>1
    <3> QED
      BY <3>2, <3>4, <3>5
  <2>3. got = [i \in DOMAIN sb.entries |-> got[i]]
    OBVIOUS
  <2> HIDE DEF got, r
  <2>4. SbOK(r)
    BY <2>1, <2>2, <2>3, SbGot
  <2> QED
    BY <2>4 DEF r
<1>7. SbOK(mc_schema_broker_satisfy_remaining_with_empty_schemas(sb))
  <2> DEFINE From(se) == Unchanged([se EXCEPT !.satisfied = TRUE])
             got == [i \in DOMAIN sb.entries |-> IF At(i).satisfied THEN Kept(i) ELSE From(At(i))]
             r == mc_schema_broker_satisfy_remaining_with_empty_schemas(sb)
  <2>1. r = IF \E i \in DOMAIN got : ~ got[i].ok THEN SbFails(sb)
            ELSE [sb EXCEPT !.entries = [i \in DOMAIN got |-> got[i].se]]
    BY DEF mc_schema_broker_satisfy_remaining_with_empty_schemas, Satisfy
  <2>2. ASSUME NEW i \in DOMAIN sb.entries PROVE EntryOK(got[i].se)
    <3>1. EntryOK(At(i))
      BY <1>0
    <3> DEFINE e == [At(i) EXCEPT !.satisfied = TRUE]
    <3>2. got[i].se = At(i) \/ got[i].se = e
      BY DEF Unchanged
    <3> HIDE DEF At, got
    <3>3. EntryOK(e)
      BY <3>1, EntryWithout
    <3> QED
      BY <3>1, <3>2, <3>3
  <2>3. got = [i \in DOMAIN sb.entries |-> got[i]]
    OBVIOUS
  <2> HIDE DEF got, r
  <2>4. SbOK(r)
    BY <2>1, <2>2, <2>3, SbGot
  <2> QED
    BY <2>4 DEF r
<1> QED
  BY <1>3, <1>4, <1>5, <1>6, <1>7

\* mc_schema_broker_satisfy_from_collinfo
LEMMA SbFromInfo ==
    ASSUME NEW sb, SbOK(sb), NEW info, FiniteInfo(info),
           NEW r, r = mc_schema_broker_satisfy_from_collinfo(sb, info)
    PROVE  SbOK(r)
<1> DEFINE at == {i \in DOMAIN sb.entries : sb.entries[i].coll = info.name}
           i == CHOOSE j \in at : TRUE
           se == sb.entries[i]
           got == mc_schema_entry_satisfy_from_collinfo(se, info)
<1>1. DOMAIN sb = SbNames /\ Listed(sb.entries) /\ \A k \in DOMAIN sb.entries : EntryOK(sb.entries[k])
  BY DEF SbOK
<1>2. r = SbFails(sb) \/ (at # {} /\ r = [sb EXCEPT !.entries[i] = got.se])
  BY DEF mc_schema_broker_satisfy_from_collinfo
<1>3. CASE r = SbFails(sb)
  <2>1. DOMAIN r = SbNames /\ r.entries = sb.entries
    BY <1>1, <1>3 DEF SbFails, SbNames
  <2> QED
    BY <1>1, <2>1 DEF SbOK
<1>4. CASE at # {} /\ r = [sb EXCEPT !.entries[i] = got.se]
  <2> DEFINE s == sb.entries
             e == [s EXCEPT ![i] = got.se]
  <2>1. i \in DOMAIN s
    BY <1>4
  <2> HIDE DEF i
  <2>2. EntryOK(got.se)
    <3>1. EntryOK(se)
      BY <1>1, <2>1
    <3> HIDE DEF se
    <3> QED
      BY <3>1, EntryFromInfo
  <2>3. r = [sb EXCEPT !.entries = e]
    BY <1>4
  <2> HIDE DEF got
  <2>4. e = [k \in DOMAIN s |-> e[k]] /\ \A k \in DOMAIN s : e[k] = s[k] \/ e[k] = got.se
    BY <2>1
  <2> HIDE DEF e
  <2>5. Listed(e) /\ DOMAIN e = DOMAIN s
    <3>1. Listed(s)
      BY <1>1
    <3> HIDE DEF s
    <3> QED
      BY <2>4, <3>1, ListMap
  <2>6. DOMAIN r = SbNames /\ r.entries = e
    BY <1>1, <2>3 DEF SbNames
  <2>7. \A k \in DOMAIN e : EntryOK(e[k])
    BY <1>1, <2>2, <2>4, <2>5
  <2> QED
    BY <2>5, <2>6, <2>7 DEF SbOK
<1> QED
  BY <1>2, <1>3, <1>4

\* What a function has of a finite set is finite.
LEMMA ImageFinite ==
    ASSUME NEW S, IsFiniteSet(S), NEW f, DOMAIN f = S, NEW T, T = {f[s] : s \in S}
    PROVE  IsFiniteSet(T)
<1> DEFINE h == [s \in S |-> f[s]]
<1>1. h \in Surjection(S, T)
  BY DEF Surjection
<1> QED
  BY <1>1, FS_Surjection

\* Schemas a command is given
SchemasOK(schemas) == IsFiniteSet(schemas) /\ \A s \in schemas : IsFiniteSet(s.fields)

\* encryptionInformation and csfleEncryptionSchemas of finite schemas
LEMMA SchemasFinite ==
    ASSUME NEW entries, Listed(entries), \A i \in DOMAIN entries : EntryOK(entries[i])
    PROVE  /\ SchemasOK(append_encryptionInformation(entries))
           /\ SchemasOK(insert_csfleEncryptionSchemas(entries))
<1> DEFINE R == Range(entries)
<1>1. IsFiniteSet(R) /\ \A se \in R : EntryOK(se)
  <2>1. IsFiniteSet(DOMAIN entries)
    BY ListIs
  <2>2. R = {entries[i] : i \in DOMAIN entries}
    BY DEF Range
  <2> HIDE DEF R
  <2>3. IsFiniteSet(R)
    BY <2>1, <2>2, ImageFinite
  <2> QED
    BY <2>2, <2>3
<1> HIDE DEF R
<1>2. \A se \in R : /\ se.efc # <<>> => IsFiniteSet(se.efc[1])
                    /\ se.json # <<>> => IsFiniteSet(se.json[1])
  BY <1>1 DEF EntryOK, FiniteInfo, FiniteSchema
<1>3. SchemasOK(append_encryptionInformation(entries))
  <2> DEFINE S == {e \in R : ~ (e.efc = <<>> /\ e.json # <<>>)}
             f == [se \in S |-> EncryptedFieldsFor(se.coll, IF se.efc = <<>> THEN {} ELSE se.efc[1])]
             T == append_encryptionInformation(entries)
  <2>1. T = {f[se] : se \in S}
    BY DEF append_encryptionInformation, R
  <2>2. IsFiniteSet(S)
    BY <1>1, FS_Subset
  <2>3. \A se \in S : IsFiniteSet(f[se].fields)
    BY <1>2, FS_EmptySet DEF EncryptedFieldsFor
  <2>4. DOMAIN f = S
    OBVIOUS
  <2> HIDE DEF S, f, T
  <2>5. IsFiniteSet(T)
    BY <2>1, <2>2, <2>4, ImageFinite
  <2>6. \A s \in T : IsFiniteSet(s.fields)
    BY <2>1, <2>3
  <2>7. SchemasOK(T)
    BY <2>5, <2>6 DEF SchemasOK
  <2> QED
    BY <2>7 DEF T
<1>4. SchemasOK(insert_csfleEncryptionSchemas(entries))
  <2> DEFINE skip == \E i \in DOMAIN entries : entries[i].efc # <<>>
             S == {e \in R : e.efc = <<>> /\ (e.json # <<>> \/ ~ skip)}
             f == [se \in S |-> [coll |-> se.coll, qe |-> FALSE, version |-> 0,
                                 fields |-> IF se.json = <<>> THEN {} ELSE se.json[1]]]
             T == insert_csfleEncryptionSchemas(entries)
  <2>1. T = {f[se] : se \in S}
    BY DEF insert_csfleEncryptionSchemas, R
  <2>2. IsFiniteSet(S)
    BY <1>1, FS_Subset
  <2>3. \A se \in S : IsFiniteSet(f[se].fields)
    BY <1>2, FS_EmptySet
  <2>4. DOMAIN f = S
    OBVIOUS
  <2> HIDE DEF S, f, T
  <2>5. IsFiniteSet(T)
    BY <2>1, <2>2, <2>4, ImageFinite
  <2>6. \A s \in T : IsFiniteSet(s.fields)
    BY <2>1, <2>3
  <2>7. SchemasOK(T)
    BY <2>5, <2>6 DEF SchemasOK
  <2> QED
    BY <2>7 DEF T
<1> QED
  BY <1>3, <1>4

\* mc_translate_fields_keyAltName_to_keyId
LEMMA TranslatedFinite ==
    ASSUME NEW kb, NEW fields, IsFiniteSet(fields)
    PROVE  IsFiniteSet(mc_translate_fields_keyAltName_to_keyId(kb, fields))
<1> DEFINE f == [h \in fields |->
                    IF h.id = NoId THEN [h EXCEPT !.id = KeyFound(kb, NoId, h.names).id] ELSE h]
           T == mc_translate_fields_keyAltName_to_keyId(kb, fields)
<1>1. T = {f[h] : h \in fields}
  BY DEF mc_translate_fields_keyAltName_to_keyId
<1>2. DOMAIN f = fields
  OBVIOUS
<1> HIDE DEF f, T
<1>3. IsFiniteSet(T)
  BY <1>1, <1>2, ImageFinite
<1> QED
  BY <1>3 DEF T

\* mc_schema_broker_add_schemas_to_cmd
LEMMA SbAdds ==
    ASSUME NEW sb, SbOK(sb), NEW kb, NEW name, NEW target,
           NEW r, r = mc_schema_broker_add_schemas_to_cmd(sb, kb, name, target)
    PROVE  SbOK(r.sb) /\ SchemasOK(r.schemas)
<1> DEFINE s == sb.entries
           qe == {i \in DOMAIN s : s[i].efc # <<>>}
           entries == [i \in DOMAIN s |->
                IF i \notin qe THEN s[i]
                ELSE [s[i] EXCEPT !.efc = <<mc_translate_fields_keyAltName_to_keyId(kb, @[1])>>]]
           ei == append_encryptionInformation(entries)
           ces == IF target = "server" THEN {} ELSE insert_csfleEncryptionSchemas(entries)
           next == [sb EXCEPT !.entries = entries]
<1>1. DOMAIN sb = SbNames /\ Listed(s) /\ \A i \in DOMAIN s : EntryOK(s[i])
  BY DEF SbOK
<1>2. \/ r.sb = sb /\ r.schemas = {}
      \/ r.sb = next /\ r.schemas \in {ei, ces, ei \union ces}
  BY DEF mc_schema_broker_add_schemas_to_cmd
<1>3. ASSUME NEW i \in DOMAIN s PROVE EntryOK(entries[i])
  <2>1. CASE i \notin qe
    BY <1>1, <2>1
  <2>2. CASE i \in qe
    <3> DEFINE se == s[i]
               fields == mc_translate_fields_keyAltName_to_keyId(kb, se.efc[1])
               efc == <<fields>>
    <3>1. entries[i] = [se EXCEPT !.efc = efc]
      BY <2>2
    <3>2. EntryOK(se) /\ se.efc # <<>>
      BY <1>1, <2>2
    <3> HIDE DEF se
    <3>3. IsFiniteSet(se.efc[1])
      BY <3>2 DEF EntryOK, FiniteInfo, FiniteSchema
    <3>4. IsFiniteSet(fields)
      BY <3>3, TranslatedFinite
    <3> HIDE DEF fields
    <3>5. FiniteSchema(efc)
      BY <3>4 DEF FiniteSchema
    <3> HIDE DEF efc, entries
    <3> DEFINE e == [se EXCEPT !.efc = efc]
    <3>6. EntryOK(e)
      BY <3>2, <3>5, EntryEfc
    <3> QED
      BY <3>1, <3>6
  <2> QED
    BY <2>1, <2>2
<1>4. entries = [i \in DOMAIN s |-> entries[i]]
  OBVIOUS
<1> HIDE DEF entries
<1>5. Listed(entries) /\ DOMAIN entries = DOMAIN s
  <2>1. Listed(s)
    BY <1>1
  <2> HIDE DEF s
  <2> QED
    BY <1>4, <2>1, ListMap
<1>6. \A i \in DOMAIN entries : EntryOK(entries[i])
  BY <1>3, <1>5
<1>7. DOMAIN next = SbNames /\ next.entries = entries
  BY <1>1 DEF SbNames
<1> HIDE DEF next
<1>8. SbOK(next)
  BY <1>5, <1>6, <1>7 DEF SbOK
<1>9. SchemasOK({})
  BY FS_EmptySet DEF SchemasOK
<1>10. SchemasOK(ei) /\ SchemasOK(ces)
  BY <1>5, <1>6, <1>9, SchemasFinite
<1> HIDE DEF ei, ces
<1>11. SchemasOK(ei \union ces)
  BY <1>10, FS_Union DEF SchemasOK
<1> QED
  BY <1>2, <1>8, <1>9, <1>10, <1>11

\* Query analysis marks finitely many values.
LEMMA MarksFinite ==
    ASSUME NEW cmd, NEW made, SchemasOK(made.schemas), NEW verbose
    PROVE  IsFiniteSet(Analyze(cmd, made, verbose).result.marks)
<1> DEFINE Mark(s, f) == [coll |-> s.coll, path |-> f.path, qe |-> s.qe, id |-> f.id,
                          names |-> f.names, query |-> f.query]
           Hit(s) == {h \in s.fields : [coll |-> s.coll, path |-> h.path] \in cmd.values}
           Of(s) == {Mark(s, f) : f \in Hit(s)}
           fun == [s \in made.schemas |-> Of(s)]
           all == {Of(s) : s \in made.schemas}
<1>1. Analyze(cmd, made, verbose).result.marks = UNION all
  BY DEF Analyze
<1>2. IsFiniteSet(made.schemas) /\ \A s \in made.schemas : IsFiniteSet(s.fields)
  BY DEF SchemasOK
<1>3. ASSUME NEW s \in made.schemas PROVE IsFiniteSet(Of(s))
  <2> DEFINE S == Hit(s)
             g == [f \in S |-> Mark(s, f)]
             T == Of(s)
  <2>1. IsFiniteSet(S)
    BY <1>2, FS_Subset
  <2>2. T = {g[f] : f \in S} /\ DOMAIN g = S
    OBVIOUS
  <2> HIDE DEF S, g, T
  <2>3. IsFiniteSet(T)
    BY <2>1, <2>2, ImageFinite
  <2> QED
    BY <2>3 DEF T
<1>4. all = {fun[s] : s \in made.schemas} /\ DOMAIN fun = made.schemas
  OBVIOUS
<1>5. \A T \in all : IsFiniteSet(T)
  BY <1>3
<1> HIDE DEF all, fun
<1>6. IsFiniteSet(all)
  BY <1>2, <1>4, ImageFinite
<1>7. IsFiniteSet(UNION all)
  BY <1>5, <1>6, FS_UNION
<1> QED
  BY <1>1, <1>7

\* Schema brokers that have been asked for some collections of a database
Asked(db, colls) ==
    [db : {NoDb, db}, entries : Seq({NewEntryFor(coll) : coll \in colls}), mixing : {FALSE}, ok : BOOLEAN]

\* mc_schema_broker_request
LEMMA SchemaAsked ==
    ASSUME NEW db, NEW colls, NEW sb \in Asked(db, colls), NEW coll \in colls
    PROVE  mc_schema_broker_request(sb, db, coll) \in Asked(db, colls)
<1> DEFINE E == {NewEntryFor(c) : c \in colls}
           e == NewEntryFor(coll)
           more == Append(sb.entries, e)
<1>1. e \in E
  OBVIOUS
<1>2. sb \in [db : {NoDb, db}, entries : Seq(E), mixing : {FALSE}, ok : BOOLEAN]
  BY DEF Asked
<1> HIDE DEF E, e
<1>3. more \in Seq(E)
  BY <1>1, <1>2
<1>4. SbFails(sb) \in [db : {NoDb, db}, entries : Seq(E), mixing : {FALSE}, ok : BOOLEAN]
  BY <1>2 DEF SbFails
<1>5. [sb EXCEPT !.db = db, !.entries = more]
        \in [db : {NoDb, db}, entries : Seq(E), mixing : {FALSE}, ok : BOOLEAN]
  <2> HIDE DEF more
  <2> QED
    BY <1>2, <1>3
<1> DEFINE r == mc_schema_broker_request(sb, db, coll)
<1>6. r \in {sb, SbFails(sb), [sb EXCEPT !.db = db, !.entries = more]}
  BY DEF mc_schema_broker_request, e
<1> HIDE DEF more, r
<1>7. r \in [db : {NoDb, db}, entries : Seq(E), mixing : {FALSE}, ok : BOOLEAN]
  BY <1>2, <1>4, <1>5, <1>6
<1> QED
  BY <1>7 DEF Asked, E, r

\* What has been asked for is finite.
LEMMA AskedIsOK ==
    ASSUME NEW db, NEW colls, NEW sb \in Asked(db, colls)
    PROVE  SbOK(sb)
<1> DEFINE E == {NewEntryFor(c) : c \in colls}
<1>1. \A e \in E : EntryOK(e)
  BY DEF EntryOK, NewEntryFor, EntryNames, FiniteInfo, FiniteSchema
<1>2. sb \in [db : {NoDb, db}, entries : Seq(E), mixing : {FALSE}, ok : BOOLEAN]
  BY DEF Asked
<1> HIDE DEF E
<1>3. DOMAIN sb = SbNames /\ sb.entries \in Seq(E)
  BY <1>2 DEF SbNames
<1>4. Listed(sb.entries)
  BY <1>3 DEF Listed
<1>5. \A i \in DOMAIN sb.entries : sb.entries[i] \in E
  <2>1. DOMAIN sb.entries = 1..Len(sb.entries)
    BY <1>3
  <2> QED
    BY <1>3, <2>1, ElementOfSeq
<1> QED
  BY <1>1, <1>3, <1>4, <1>5 DEF SbOK

\* mc_schema_broker_request for every collection of a command
LEMMA SchemasAsked ==
    ASSUME NEW db, NEW docs, Listed(docs), NEW x \in Asked(db, Range(docs)),
           NEW y, y = FoldLeft(LAMBDA sb, coll : mc_schema_broker_request(sb, db, coll), x, docs)
    PROVE  y \in Asked(db, Range(docs))
<1> DEFINE n == Len(docs)
           U == Asked(db, Range(docs))
           F == [p \in U \X (1..n) |-> mc_schema_broker_request(p[1], db, docs[p[2]])]
           Fold(f) == f = [S \in SUBSET (DOMAIN docs) |-> IF S = {} THEN x
                              ELSE mc_schema_broker_request(f[S \ {Max(S)}], db, docs[Max(S)])]
           f == CHOOSE h : Fold(h)
<1>1. y = f[DOMAIN docs]
  BY Zenon DEF FoldLeft, MapThenFoldSet
<1>2. n \in Nat /\ DOMAIN docs = 1..n
  BY ListIs
<1>3. \A i \in 1..n : docs[i] \in Range(docs)
  BY <1>2 DEF Range
<1>4. x \in U
  OBVIOUS
<1>5. \A z \in U, i \in 1..n : mc_schema_broker_request(z, db, docs[i]) \in U
  BY <1>3, SchemaAsked
<1> HIDE DEF U
<1>6. F \in [U \X (1..n) -> U]
  BY <1>5
<1>7. \A z \in U, i \in 1..n : F[<<z, i>>] = mc_schema_broker_request(z, db, docs[i])
  OBVIOUS
<1> HIDE DEF F, n
<1>8. PICK h \in [SUBSET (1..n) -> U] : FoldsTo(h, F, x, n)
  BY <1>2, <1>4, <1>6, FoldExists
<1>9. \A S \in SUBSET (1..n) :
        h[S] = IF S = {} THEN x ELSE mc_schema_broker_request(h[S \ {Max(S)}], db, docs[Max(S)])
  <2> SUFFICES ASSUME NEW S \in SUBSET (1..n)
               PROVE  h[S] = IF S = {} THEN x
                             ELSE mc_schema_broker_request(h[S \ {Max(S)}], db, docs[Max(S)])
    OBVIOUS
  <2>1. CASE S = {}
    BY <1>8, <2>1 DEF FoldsTo
  <2>2. CASE S # {}
    <3>1. S \ {Max(S)} \in SUBSET (1..n) /\ Max(S) \in 1..n
      BY <1>2, <2>2, LastOut
    <3>2. h[S \ {Max(S)}] \in U
      BY <1>8, <3>1
    <3>3. h[S] = F[<<h[S \ {Max(S)}], Max(S)>>]
      BY <1>8, <2>2 DEF FoldsTo
    <3> HIDE DEF Max
    <3> QED
      BY <1>7, <2>2, <3>1, <3>2, <3>3
  <2> QED
    BY <2>1, <2>2
<1>10. Fold(h)
  <2>1. h = [S \in SUBSET (1..n) |-> h[S]]
    BY <1>8
  <2> QED
    BY <1>2, <1>9, <2>1
<1> HIDE DEF Fold
<1>11. Fold(f)
  BY <1>10, Zenon
<1> HIDE DEF f
<1>12. \A S \in SUBSET (1..n) :
        f[S] = IF S = {} THEN x ELSE mc_schema_broker_request(f[S \ {Max(S)}], db, docs[Max(S)])
  BY <1>2, <1>11 DEF Fold
<1>13. f[{}] \in U
  BY <1>4, <1>12
<1>14. ASSUME NEW S \in SUBSET (1..n), S # {}, f[S \ {Max(S)}] \in U PROVE f[S] \in U
  <2>1. Max(S) \in 1..n
    BY <1>2, <1>14, LastOut
  <2> QED
    BY <1>5, <1>12, <1>14, <2>1
<1>15. f[1..n] \in U
  BY <1>2, <1>13, <1>14, FoldKeeps
<1> QED
  BY <1>1, <1>2, <1>15 DEF U

-----------------------------------------------------------------------------
\* A context that encrypts, while a call is at it
Enc(x) == Plain(x) /\ x.kind = "encrypt"
Seeking == CollinfoStates \cup {"NEED_MONGO_MARKINGS", "READY", "DONE", "ERROR"}
Seeks(x) == Stopped(x) \/ (Enc(x) /\ x.state \in Seeking)

\* Where such a context is does not depend on its key broker.
LEMMA SeeksSettled ==
    ASSUME NEW x, Seeks(x)
    PROVE  Settled(x)
<1>1. CASE Stopped(x)
  BY <1>1 DEF Settled, Ends
<1>2. CASE Enc(x) /\ x.state \in Seeking
  <2>1. Plain(x) /\ x.kind = "encrypt" /\ ~ x.encrypting /\ x.datakeys = <<>>
    BY <1>2 DEF Enc, Plain
  <2>2. CASE x.state = "DONE"
    BY <2>1, <2>2 DEF Plain, Core, Shape, Settled, Ends
  <2>3. CASE x.state # "DONE"
    <3>1. Control(x) \/ x.state = "ERROR"
      BY <1>2, <2>1, <2>3 DEF Control, Seeking, CollinfoStates
    <3> QED
      BY <2>1, <3>1, PlainSettled DEF Stopped
  <2> QED
    BY <2>2, <2>3
<1> QED
  BY <1>1, <1>2 DEF Seeks

\* A context in another state, or with other schemas or marks
LEMMA EncKept ==
    ASSUME NEW x, Enc(x), NEW y, DOMAIN y = CtxNames,
           \A n \in CtxNames \ {"state", "sb", "nothing_to_do", "bypass", "need_keys", "marked",
                                "ismaster", "maxwire"} : y[n] = x[n],
           SbOK(y.sb)
    PROVE  Enc(y)
<1>1. /\ Shape(x) /\ BrokerOut(x.kb, {}) /\ FiniteInfo(x.cmd) /\ x.kind = "encrypt"
      /\ ~ x.encrypting /\ x.datakeys = <<>>
  BY DEF Enc, Plain, Core
<1>2. /\ y.kind = x.kind /\ y.kb = x.kb /\ y.cmd = x.cmd /\ y.encrypting = x.encrypting
      /\ y.datakeys = x.datakeys
  BY DEF CtxNames
<1>3. Shape(y)
  BY <1>1, <1>2 DEF Shape
<1>4. Listed(y.datakeys) /\ \A i \in DOMAIN y.datakeys : SubOK(y.datakeys[i])
  BY <1>2 DEF Enc, Plain, Core
<1> QED
  BY <1>1, <1>2, <1>3, <1>4 DEF Enc, Plain, Core, Kinds

\* A context that has asked for keys
LEMMA EncAsked ==
    ASSUME NEW g, NEW x, Enc(x), NEW keys, IsFiniteSet(keys), NEW y, y = RequestKeys(g, x, keys)
    PROVE  Enc(y) /\ y.state \in {x.state, "ERROR"} /\ y.ismaster = x.ismaster
<1>1. /\ Shape(x) /\ BrokerOut(x.kb, {}) /\ FiniteInfo(x.cmd) /\ x.kind = "encrypt" /\ SbOK(x.sb)
      /\ ~ x.encrypting /\ x.datakeys = <<>>
  BY DEF Enc, Plain, Core
<1>2. AskedMore(x, y)
  BY <1>1, RequestKeysKeeps
<1>3. BrokerOut(y.kb, {})
  BY <1>1, <1>2, OutAsked
<1>4. /\ y.kind = x.kind /\ y.cmd = x.cmd /\ y.encrypting = x.encrypting /\ y.sb = x.sb
      /\ y.datakeys = x.datakeys /\ Shape(y) /\ y.state \in {x.state, "ERROR"}
      /\ y.ismaster = x.ismaster
  BY <1>2 DEF AskedMore, CtxNames
<1>5. Listed(y.datakeys) /\ \A i \in DOMAIN y.datakeys : SubOK(y.datakeys[i])
  BY <1>4 DEF Enc, Plain, Core
<1> QED
  BY <1>1, <1>3, <1>4, <1>5 DEF Enc, Plain, Core, Kinds

\* The state of the broker becomes that of the context.
LEMMA EncFromBroker ==
    ASSUME NEW g, NEW x, Enc(x), NEW y, y = state_from_key_broker(g, x)
    PROVE  Settled(y)
<1>1. Plain(x) /\ x.kind # "rewrap"
  BY DEF Enc
<1>2. Stopped(y) \/ (Plain(y) /\ Control(y))
  BY <1>1, FromBroker
<1> QED
  BY <1>2, PlainSettled

\* All keys have been asked for.
LEMMA EncRequestsDone ==
    ASSUME NEW x, Enc(x)
    PROVE  Enc(KbRequestsDone(x)) /\ KbRequestsDone(x).state = x.state
<1> DEFINE b == x.kb
           kb == RequestsDone(b)
           y == KbRequestsDone(x)
<1>1. Plain(x) /\ BrokerOut(b, {}) /\ DOMAIN b = KbNames /\ x.kind = "encrypt"
  BY DEF Enc, Plain, Core, Shape
<1>2. y = [x EXCEPT !.kb = kb]
  BY DEF KbRequestsDone
<1> HIDE DEF b
<1>3. BrokerOut(kb, {}) /\ DOMAIN kb = KbNames
  BY <1>1, OutCalls, BrokerCallsKeep
<1> HIDE DEF kb, y
<1>4. Plain(y) /\ \A n \in CtxNames \ {"kb"} : y[n] = x[n]
  BY <1>1, <1>2, <1>3, PlainBroker
<1>5. y.kind = x.kind /\ y.state = x.state
  BY <1>4 DEF CtxNames
<1> QED
  BY <1>1, <1>4, <1>5 DEF Enc, y

\* A context after one of its schema sources
LEMMA TriedSeeks ==
    ASSUME NEW x, Enc(x), x.state \in Seeking, NEW sb, SbOK(sb)
    PROVE  Seeks(Tried(x, sb))
<1> DEFINE y1 == [x EXCEPT !.sb = sb]
           y2 == [x EXCEPT !.sb = sb, !.state = "NEED_MONGO_MARKINGS"]
<1>0. DOMAIN x = CtxNames /\ Shape(x)
  BY DEF Enc, Plain, Core, Shape
<1>1. /\ DOMAIN y1 = CtxNames /\ y1.sb = sb /\ y1.state = x.state
      /\ \A n \in CtxNames \ {"state", "sb"} : y1[n] = x[n]
  BY <1>0 DEF CtxNames
<1>2. /\ DOMAIN y2 = CtxNames /\ y2.sb = sb /\ y2.state = "NEED_MONGO_MARKINGS"
      /\ \A n \in CtxNames \ {"state", "sb"} : y2[n] = x[n]
  BY <1>0 DEF CtxNames
<1> HIDE DEF y1, y2
<1>3. Enc(y1) /\ Enc(y2)
  BY <1>1, <1>2, EncKept
<1>4. Tried(x, sb) \in {CtxFail(x), y1, y2}
  BY DEF Tried, y1, y2
<1>5. Stopped(CtxFail(x))
  BY <1>0, FailEnds
<1> QED
  BY <1>1, <1>2, <1>3, <1>4, <1>5 DEF Seeks, Seeking

\* The server is asked for the schemas that are missing.
LEMMA AskSeeks ==
    ASSUME NEW g, NEW x, Enc(x)
    PROVE  Seeks(AskServer(g, x))
<1> DEFINE y1 == [x EXCEPT !.state = "NEED_MONGO_COLLINFO"]
           y2 == [x EXCEPT !.state = "NEED_MONGO_COLLINFO_WITH_DB"]
<1>0. DOMAIN x = CtxNames /\ Shape(x) /\ SbOK(x.sb)
  BY DEF Enc, Plain, Core, Shape
<1>1. /\ DOMAIN y1 = CtxNames /\ y1.state = "NEED_MONGO_COLLINFO"
      /\ \A n \in CtxNames \ {"state"} : y1[n] = x[n]
  BY <1>0 DEF CtxNames
<1>2. /\ DOMAIN y2 = CtxNames /\ y2.state = "NEED_MONGO_COLLINFO_WITH_DB"
      /\ \A n \in CtxNames \ {"state"} : y2[n] = x[n]
  BY <1>0 DEF CtxNames
<1> HIDE DEF y1, y2
<1>3. y1.sb = x.sb /\ y2.sb = x.sb
  BY <1>1, <1>2 DEF CtxNames
<1>4. Enc(y1) /\ Enc(y2)
  BY <1>0, <1>1, <1>2, <1>3, EncKept
<1>5. AskServer(g, x) \in {CtxFail(x), y1, y2}
  BY DEF AskServer, y1, y2
<1>6. Stopped(CtxFail(x))
  BY <1>0, FailEnds
<1> QED
  BY <1>1, <1>2, <1>4, <1>5, <1>6 DEF Seeks, Seeking, CollinfoStates

\* What goes on has not been stopped.
LEMMA SeeksOn ==
    ASSUME NEW x, Seeks(x), ~ Stopped(x)
    PROVE  Enc(x) /\ x.state \in Seeking /\ SbOK(x.sb) /\ FiniteInfo(x.cmd)
BY DEF Seeks, Enc, Plain, Core

\* mongocrypt_ctx_encrypt_ismaster_done: the sources of schemas
LEMMA FindSeeks ==
    ASSUME NEW g, Finite(g), NEW x0, Enc(x0), x0.state \in Seeking,
           NEW y, y = FindSchemas(g, x0)
    PROVE  Seeks(y)
<1> DEFINE x1 == try_encrypted_field_config_from_map(g, x0)
           x2 == IfMissing(x1, LAMBDA x : try_schema_from_create_or_collMod_cmd(g, x))
           x3 == IfMissing(x2, LAMBDA x : try_schema_from_schema_map(g, x))
           x4 == IfMissing(x3, LAMBDA x : try_schema_from_cache(g, x))
           x5 == IfMissing(x4, LAMBDA x : try_empty_schema_for_create(g, x))
<1>1. y = IfMissing(x5, LAMBDA x : AskServer(g, x))
  BY DEF FindSchemas
<1>2. Seeks(x1)
  <2>1. SbOK(x0.sb) /\ FiniteInfo(x0.cmd) /\ Seeks(x0)
    BY DEF Enc, Plain, Core, Seeks
  <2>2. SbOK(mc_schema_broker_satisfy_from_encryptedFieldsMap(x0.sb, g.efcMap))
    <3> DEFINE sb == x0.sb
               cmd == x0.cmd
    <3>1. SbOK(sb) /\ FiniteInfo(cmd)
      BY <2>1
    <3> HIDE DEF sb, cmd
    <3>2. SbOK(mc_schema_broker_satisfy_from_encryptedFieldsMap(sb, g.efcMap))
      BY <3>1, SbSatisfied
    <3> QED
      BY <3>2 DEF sb
  <2>3. Seeks(Tried(x0, mc_schema_broker_satisfy_from_encryptedFieldsMap(x0.sb, g.efcMap)))
    BY <2>2, TriedSeeks
  <2> QED
    BY <2>1, <2>3 DEF try_encrypted_field_config_from_map
<1>3. ASSUME NEW x, Seeks(x), ~ Stopped(x)
      PROVE  /\ Seeks(try_schema_from_create_or_collMod_cmd(g, x))
             /\ Seeks(try_schema_from_schema_map(g, x))
             /\ Seeks(try_schema_from_cache(g, x))
             /\ Seeks(try_empty_schema_for_create(g, x))
             /\ Seeks(AskServer(g, x))
  <2>1. Enc(x) /\ x.state \in Seeking /\ SbOK(x.sb) /\ FiniteInfo(x.cmd)
    BY <1>3, SeeksOn
  <2> DEFINE sb == x.sb
             cmd == x.cmd
             sb1 == mc_schema_broker_satisfy_from_create_or_collMod(sb, cmd)
             sb2 == mc_schema_broker_satisfy_from_schemaMap(sb, g.schemaMap)
             sb3 == mc_schema_broker_satisfy_from_cache(sb, g.colls)
             sb4 == mc_schema_broker_satisfy_remaining_with_empty_schemas(sb)
             z == Tried(x, sb3)
  <2>2. SbOK(sb1) /\ SbOK(sb2) /\ SbOK(sb3) /\ SbOK(sb4)
    <3>1. SbOK(sb) /\ FiniteInfo(cmd)
      BY <2>1
    <3> HIDE DEF sb, cmd
    <3> QED
      BY <3>1, SbSatisfied
  <2>3. /\ try_schema_from_create_or_collMod_cmd(g, x) \in {x, Tried(x, sb1)}
        /\ try_schema_from_schema_map(g, x) \in {x, Tried(x, sb2)}
        /\ try_schema_from_cache(g, x) = (IF Stopped(z) \/ ~ mc_schema_broker_need_more_schemas(z.sb)
                                          THEN z ELSE AskServer(g, z))
        /\ try_empty_schema_for_create(g, x) \in {x, Tried(x, sb4)}
    BY DEF try_schema_from_create_or_collMod_cmd, try_schema_from_schema_map, try_schema_from_cache,
           try_empty_schema_for_create
  <2> HIDE DEF sb1, sb2, sb3, sb4
  <2>4. Seeks(Tried(x, sb1)) /\ Seeks(Tried(x, sb2)) /\ Seeks(z) /\ Seeks(Tried(x, sb4))
    BY <2>1, <2>2, TriedSeeks
  <2>5. Seeks(AskServer(g, x))
    BY <2>1, AskSeeks
  <2> HIDE DEF z
  <2>6. ~ Stopped(z) => Seeks(AskServer(g, z))
    BY <2>4, SeeksOn, AskSeeks
  <2> QED
    BY <1>3, <2>3, <2>4, <2>5, <2>6
<1> HIDE DEF x1
<1>4. Seeks(x2)
  BY <1>2, <1>3 DEF IfMissing
<1> HIDE DEF x2
<1>5. Seeks(x3)
  BY <1>4, <1>3 DEF IfMissing
<1> HIDE DEF x3
<1>6. Seeks(x4)
  BY <1>5, <1>3 DEF IfMissing
<1> HIDE DEF x4
<1>7. Seeks(x5)
  BY <1>6, <1>3 DEF IfMissing
<1> HIDE DEF x5
<1> QED
  BY <1>1, <1>3, <1>7 DEF IfMissing

\* A broker that has failed, or that allows both kinds of schema
LEMMA SbKept ==
    ASSUME NEW sb, SbOK(sb)
    PROVE  SbOK([sb EXCEPT !.mixing = TRUE])
<1> DEFINE r == [sb EXCEPT !.mixing = TRUE]
<1>1. DOMAIN sb = SbNames
  BY DEF SbOK
<1>2. DOMAIN r = SbNames /\ r.entries = sb.entries
  BY <1>1 DEF SbNames
<1> HIDE DEF r
<1>3. SbOK(r)
  BY <1>2 DEF SbOK
<1> QED
  BY <1>3 DEF r

\* mongocrypt_ctx_encrypt_ismaster_done: what the analysis can do
LEMMA CheckSeeks ==
    ASSUME NEW g, Finite(g), NEW x, Enc(x), NEW y, y = CheckAnalyzer(g, x)
    PROVE  Enc(y) /\ y.state \in {x.state, "READY", "ERROR"}
<1> DEFINE sb1 == mc_schema_broker_satisfy_remaining_with_empty_schemas(x.sb)
           sb2 == [x.sb EXCEPT !.mixing = TRUE]
<1>0. DOMAIN x = CtxNames /\ SbOK(x.sb) /\ FiniteInfo(x.cmd)
  BY DEF Enc, Plain, Core, Shape
<1>1. SbOK(sb1) /\ SbOK(sb2)
  <2> DEFINE sb == x.sb
             cmd == x.cmd
  <2>1. SbOK(sb) /\ FiniteInfo(cmd)
    BY <1>0
  <2> HIDE DEF sb, cmd
  <2>2. /\ SbOK(mc_schema_broker_satisfy_remaining_with_empty_schemas(sb))
        /\ SbOK([sb EXCEPT !.mixing = TRUE])
    BY <2>1, SbSatisfied, SbKept
  <2> QED
    BY <2>2 DEF sb
<1>2. \/ y = [x EXCEPT !.sb = sb1, !.nothing_to_do = TRUE, !.state = "READY"]
      \/ y = CtxFail(x) \/ y = x \/ y = [x EXCEPT !.sb = sb2]
  <2>1. [x EXCEPT !.sb.mixing = TRUE] = [x EXCEPT !.sb = sb2]
    OBVIOUS
  <2>2. [x EXCEPT !.sb = mc_schema_broker_satisfy_remaining_with_empty_schemas(@),
                  !.nothing_to_do = TRUE, !.state = "READY"]
        = [x EXCEPT !.sb = sb1, !.nothing_to_do = TRUE, !.state = "READY"]
    OBVIOUS
  <2> HIDE DEF sb1, sb2
  <2> QED
    BY <2>1, <2>2 DEF CheckAnalyzer
<1> HIDE DEF sb1, sb2
<1>3. CASE y = [x EXCEPT !.sb = sb1, !.nothing_to_do = TRUE, !.state = "READY"]
  <2>1. /\ DOMAIN y = CtxNames /\ y.sb = sb1 /\ y.state = "READY"
        /\ \A n \in CtxNames \ {"state", "sb", "nothing_to_do"} : y[n] = x[n]
    BY <1>0, <1>3 DEF CtxNames
  <2> QED
    BY <1>1, <2>1, EncKept
<1>4. CASE y = CtxFail(x)
  <2>1. /\ DOMAIN y = CtxNames /\ y.sb = x.sb /\ y.state = "ERROR"
        /\ \A n \in CtxNames \ {"state", "sb", "nothing_to_do"} : y[n] = x[n]
    BY <1>0, <1>4 DEF CtxNames, CtxFail
  <2> QED
    BY <1>0, <2>1, EncKept
<1>5. CASE y = [x EXCEPT !.sb = sb2]
  <2>1. /\ DOMAIN y = CtxNames /\ y.sb = sb2 /\ y.state = x.state
        /\ \A n \in CtxNames \ {"state", "sb", "nothing_to_do"} : y[n] = x[n]
    BY <1>0, <1>5 DEF CtxNames
  <2> QED
    BY <1>1, <2>1, EncKept
<1> QED
  BY <1>2, <1>3, <1>4, <1>5

\* _create_markings_cmd_bson
LEMMA MarkingsMade ==
    ASSUME NEW g, NEW x, Enc(x), NEW made, made = create_markings_cmd(g, x)
    PROVE  /\ SchemasOK(made.schemas)
           /\ Stopped(made.x) \/ (Enc(made.x) /\ made.x.state = x.state)
<1> DEFINE target == IF g.csfle # 0 THEN "crypt_shared" ELSE "mongocryptd"
           sb == x.sb
           kb == x.kb
           name == x.cmd.name
           r == mc_schema_broker_add_schemas_to_cmd(sb, kb, name, target)
           y == [x EXCEPT !.sb = r.sb]
<1>0. DOMAIN x = CtxNames /\ Shape(x) /\ SbOK(sb)
  BY DEF Enc, Plain, Core, Shape
<1>1. made.schemas = r.schemas /\ made.x \in {CtxAbort(x), CtxFail(x), y}
  BY DEF create_markings_cmd
<1>2. SbOK(r.sb) /\ SchemasOK(r.schemas)
  <2> HIDE DEF sb, kb, name, target
  <2> QED
    BY <1>0, SbAdds
<1> HIDE DEF r
<1>3. DOMAIN y = CtxNames /\ y.sb = r.sb /\ y.state = x.state /\ \A n \in CtxNames \ {"sb"} : y[n] = x[n]
  BY <1>0 DEF CtxNames
<1> HIDE DEF y
<1>4. Enc(y)
  BY <1>2, <1>3, EncKept
<1>5. Stopped(CtxAbort(x)) /\ Stopped(CtxFail(x))
  BY <1>0, FailEnds
<1> QED
  BY <1>1, <1>2, <1>3, <1>4, <1>5

\* _mongo_feed_markings
LEMMA MarkingsFed ==
    ASSUME NEW g, NEW x, Enc(x), NEW reply, ~ x.ismaster => IsFiniteSet(reply.result.marks),
           NEW y, y = mongo_feed_markings(g, x, reply)
    PROVE  Enc(y) /\ y.state \in {x.state, "ERROR"} /\ y.ismaster = x.ismaster
<1> DEFINE z == [x EXCEPT !.marked = <<reply.result>>]
           w == [x EXCEPT !.maxwire = reply.wire]
           e == CtxFail(x)
           marks == reply.result.marks
           keys == {MarkingKey(m) : m \in marks}
           f == [m \in marks |-> MarkingKey(m)]
<1>0. DOMAIN x = CtxNames /\ SbOK(x.sb)
  BY DEF Enc, Plain, Core, Shape
<1>1. /\ DOMAIN z = CtxNames /\ z.sb = x.sb /\ z.state = x.state
      /\ z.ismaster = x.ismaster /\ \A n \in CtxNames \ {"marked"} : z[n] = x[n]
  BY <1>0 DEF CtxNames
<1>2. /\ DOMAIN w = CtxNames /\ w.sb = x.sb /\ w.state = x.state
      /\ w.ismaster = x.ismaster /\ \A n \in CtxNames \ {"maxwire"} : w[n] = x[n]
  BY <1>0 DEF CtxNames
<1>7. /\ DOMAIN e = CtxNames /\ e.sb = x.sb /\ e.state = "ERROR"
      /\ e.ismaster = x.ismaster /\ \A n \in CtxNames \ {"state"} : e[n] = x[n]
  BY <1>0 DEF CtxNames, CtxFail
<1> HIDE DEF z, w, e
<1>3. Enc(z) /\ Enc(w) /\ Enc(e)
  BY <1>0, <1>1, <1>2, <1>7, EncKept
<1>4. keys = {f[m] : m \in marks} /\ DOMAIN f = marks
  OBVIOUS
<1>5. \/ y = w \/ y = x \/ y = e
      \/ ~ x.ismaster /\ y = RequestKeys(g, z, keys)
  BY DEF mongo_feed_markings, z, w, e
<1> HIDE DEF f, keys
<1>6. CASE ~ x.ismaster /\ y = RequestKeys(g, z, keys)
  <2>1. IsFiniteSet(marks)
    BY <1>6
  <2> HIDE DEF marks
  <2>2. IsFiniteSet(keys)
    BY <1>4, <2>1, ImageFinite
  <2>3. Enc(y) /\ y.state \in {z.state, "ERROR"} /\ y.ismaster = z.ismaster
    BY <1>3, <1>6, <2>2, EncAsked
  <2> QED
    BY <1>1, <2>3
<1> QED
  BY <1>2, <1>3, <1>5, <1>6, <1>7

\* _mongo_done_markings after markings
LEMMA MarkingsFinished ==
    ASSUME NEW g, NEW x, Enc(x), NEW y, y = FinishMarkings(g, x)
    PROVE  Settled(y)
<1> DEFINE w == KbRequestsDone(x)
           z == [w EXCEPT !.need_keys = FALSE]
<1>1. Enc(w)
  BY EncRequestsDone
<1>2. y = state_from_key_broker(g, z)
  BY DEF FinishMarkings
<1> HIDE DEF w
<1>3. DOMAIN w = CtxNames /\ SbOK(w.sb)
  BY <1>1 DEF Enc, Plain, Core, Shape
<1>4. DOMAIN z = CtxNames /\ z.sb = w.sb /\ \A n \in CtxNames \ {"need_keys"} : z[n] = w[n]
  BY <1>3 DEF CtxNames
<1> HIDE DEF z
<1>5. Enc(z)
  BY <1>1, <1>3, <1>4, EncKept
<1> QED
  BY <1>2, <1>5, EncFromBroker

\* _try_run_csfle_marking
LEMMA MarkingsTried ==
    ASSUME NEW g, NEW x, Enc(x), x.state \in Seeking, NEW y, y = try_run_csfle_marking(g, x)
    PROVE  Settled(y)
<1> DEFINE made == create_markings_cmd(g, x)
           reply == Analyze(x.cmd, made, g.verbose)
           z == made.x
           fed == mongo_feed_markings(g, z, reply)
<1>0. Shape(x)
  BY DEF Enc, Plain, Core
<1>1. \/ y = CtxAbort(x) \/ y = x
      \/ y = z /\ Stopped(z)
      \/ ~ Stopped(z) /\ y = CtxFail(z)
      \/ ~ Stopped(z) /\ y = fed /\ Stopped(fed)
      \/ ~ Stopped(z) /\ y = FinishMarkings(g, fed)
  BY DEF try_run_csfle_marking
<1>2. CASE y = CtxAbort(x)
  BY <1>0, <1>2, FailEnds DEF Settled
<1>3. CASE y = x
  BY <1>3, SeeksSettled DEF Seeks
<1>4. CASE y = z /\ Stopped(z)
  <2> HIDE DEF z
  <2> QED
    BY <1>4 DEF Settled, Ends
<1>5. SchemasOK(made.schemas) /\ (Stopped(z) \/ (Enc(z) /\ z.state = x.state))
  <2> HIDE DEF made
  <2>1. made = create_markings_cmd(g, x)
    BY DEF made
  <2> QED
    BY <2>1, MarkingsMade
<1>6. IsFiniteSet(reply.result.marks)
  <2> DEFINE cmd == x.cmd
             verbose == g.verbose
  <2> HIDE DEF made, cmd, verbose
  <2>1. IsFiniteSet(Analyze(cmd, made, verbose).result.marks)
    BY <1>5, MarksFinite
  <2> QED
    BY <2>1 DEF cmd, verbose
<1> HIDE DEF made, reply
<1>7. fed = mongo_feed_markings(g, z, reply)
  OBVIOUS
<1> HIDE DEF z, fed
<1>8. ~ Stopped(z) => Enc(fed)
  BY <1>5, <1>6, <1>7, MarkingsFed
<1>9. CASE ~ Stopped(z) /\ y = CtxFail(z)
  <2>1. Shape(z)
    BY <1>5, <1>9 DEF Enc, Plain, Core
  <2> QED
    BY <1>9, <2>1, FailEnds DEF Settled
<1>10. CASE ~ Stopped(z) /\ y = fed /\ Stopped(fed)
  BY <1>10 DEF Settled, Ends
<1>11. CASE ~ Stopped(z) /\ y = FinishMarkings(g, fed)
  BY <1>8, <1>11, MarkingsFinished
<1> QED
  BY <1>1, <1>2, <1>3, <1>4, <1>9, <1>10, <1>11

\* The encryptedFields of a collection are finite.
LEMMA EfcFinite ==
    ASSUME NEW sb, SbOK(sb), NEW coll
    PROVE  FiniteSchema(mc_schema_broker_maybe_get_encryptedFields(sb, coll))
<1> DEFINE at == Matching(sb, coll)
           i == CHOOSE j \in at : TRUE
<1>1. mc_schema_broker_maybe_get_encryptedFields(sb, coll) = IF at = {} THEN <<>> ELSE sb.entries[i].efc
  BY DEF mc_schema_broker_maybe_get_encryptedFields
<1>2. CASE at = {}
  BY <1>1, <1>2 DEF FiniteSchema
<1>3. CASE at # {}
  <2>1. i \in DOMAIN sb.entries
    BY <1>3 DEF Matching
  <2> HIDE DEF i
  <2>2. FiniteSchema(sb.entries[i].efc)
    BY <2>1 DEF SbOK, EntryOK, FiniteInfo
  <2> QED
    BY <1>1, <1>3, <2>2
<1> QED
  BY <1>2, <1>3

\* The keys of some fields
LEMMA FieldKeysFinite ==
    ASSUME NEW fields, IsFiniteSet(fields)
    PROVE  IsFiniteSet({KeyOf(f) : f \in fields})
<1> DEFINE h == [f \in fields |-> KeyOf(f)]
           T == {KeyOf(f) : f \in fields}
<1>1. T = {h[f] : f \in fields} /\ DOMAIN h = fields
  OBVIOUS
<1> HIDE DEF h, T
<1>2. IsFiniteSet(T)
  BY <1>1, ImageFinite
<1> QED
  BY <1>2 DEF T

\* _fle2_collect_keys_for_compaction
LEMMA CompactionSeeks ==
    ASSUME NEW g, NEW x, Enc(x), x.state \in Seeking, NEW y, y = collect_keys_for_compaction(g, x)
    PROVE  Seeks(y)
<1> DEFINE efc == mc_schema_broker_get_encryptedFields(x.sb, x.cmd.coll)
           z == [x EXCEPT !.bypass = TRUE]
           keys == {KeyOf(f) : f \in efc[1]}
<1>0. DOMAIN x = CtxNames /\ Shape(x) /\ SbOK(x.sb)
  BY DEF Enc, Plain, Core, Shape
<1>1. \/ y = CtxAbort(x) \/ y = x \/ y = CtxFail(z)
      \/ efc # <<>> /\ y = RequestKeys(g, z, keys)
  BY DEF collect_keys_for_compaction
<1>2. FiniteSchema(efc)
  <2> DEFINE sb == x.sb
             coll == x.cmd.coll
  <2>1. SbOK(sb)
    BY <1>0
  <2> HIDE DEF sb, coll
  <2>2. FiniteSchema(mc_schema_broker_maybe_get_encryptedFields(sb, coll))
    BY <2>1, EfcFinite
  <2> QED
    BY <2>2 DEF sb, coll, mc_schema_broker_get_encryptedFields
<1> HIDE DEF efc
<1>3. /\ DOMAIN z = CtxNames /\ z.sb = x.sb /\ z.state = x.state
      /\ \A n \in CtxNames \ {"bypass"} : z[n] = x[n]
  BY <1>0 DEF CtxNames
<1> HIDE DEF z
<1>4. Enc(z)
  BY <1>0, <1>3, EncKept
<1>5. CASE y = CtxAbort(x) \/ y = x \/ y = CtxFail(z)
  <2>1. Shape(z)
    BY <1>4 DEF Enc, Plain, Core
  <2> QED
    BY <1>0, <1>5, <2>1, FailEnds DEF Seeks
<1>6. CASE efc # <<>> /\ y = RequestKeys(g, z, keys)
  <2> DEFINE fields == efc[1]
  <2>1. IsFiniteSet(fields)
    BY <1>2, <1>6 DEF FiniteSchema
  <2> HIDE DEF fields
  <2>2. IsFiniteSet({KeyOf(f) : f \in fields})
    BY <2>1, FieldKeysFinite
  <2>3. IsFiniteSet(keys)
    BY <2>2 DEF fields
  <2> HIDE DEF keys
  <2>4. Enc(y) /\ y.state \in {z.state, "ERROR"}
    BY <1>4, <1>6, <2>3, EncAsked
  <2> QED
    BY <1>3, <2>4 DEF Seeks, Stopped
<1> QED
  BY <1>1, <1>5, <1>6

\* _fle2_collect_keys_for_encrypted_fields
LEMMA NamesSeek ==
    ASSUME NEW g, NEW x, Enc(x), x.state \in Seeking,
           NEW y, y = collect_keys_for_encrypted_fields(g, x)
    PROVE  Seeks(y)
<1> DEFINE efc == mc_schema_broker_maybe_get_encryptedFields(x.sb, x.cmd.coll)
           need == x.need_keys \/ NamedFields(x) # {}
           z == [x EXCEPT !.need_keys = need]
           fields == NamedFields(x)
           keys == {KeyOf(f) : f \in fields}
<1>0. DOMAIN x = CtxNames /\ SbOK(x.sb)
  BY DEF Enc, Plain, Core, Shape
<1>1. y = RequestKeys(g, z, keys)
  BY DEF collect_keys_for_encrypted_fields
<1>2. FiniteSchema(efc)
  <2> DEFINE sb == x.sb
             coll == x.cmd.coll
  <2>1. SbOK(sb)
    BY <1>0
  <2> HIDE DEF sb, coll
  <2>2. FiniteSchema(mc_schema_broker_maybe_get_encryptedFields(sb, coll))
    BY <2>1, EfcFinite
  <2> QED
    BY <2>2 DEF sb, coll
<1>3. fields = IF efc = <<>> THEN {} ELSE {f \in efc[1] : f.names # {}}
  BY DEF NamedFields
<1> HIDE DEF efc, need
<1>4. IsFiniteSet(fields)
  <2>1. CASE efc = <<>>
    BY <1>3, <2>1, FS_EmptySet
  <2>2. CASE efc # <<>>
    <3>1. IsFiniteSet(efc[1]) /\ fields \subseteq efc[1]
      BY <1>2, <1>3, <2>2 DEF FiniteSchema
    <3> HIDE DEF fields
    <3> QED
      BY <3>1, FS_Subset
  <2> QED
    BY <2>1, <2>2
<1> HIDE DEF fields
<1>5. IsFiniteSet(keys)
  BY <1>4, FieldKeysFinite
<1>6. /\ DOMAIN z = CtxNames /\ z.sb = x.sb /\ z.state = x.state
      /\ \A n \in CtxNames \ {"need_keys"} : z[n] = x[n]
  BY <1>0 DEF CtxNames
<1> HIDE DEF z, keys
<1>7. Enc(z)
  BY <1>0, <1>6, EncKept
<1>8. Enc(y) /\ y.state \in {z.state, "ERROR"}
  BY <1>1, <1>5, <1>7, EncAsked
<1> QED
  BY <1>6, <1>8 DEF Seeks, Stopped

\* mongocrypt_ctx_encrypt_ismaster_done
LEMMA IsmasterSettled ==
    ASSUME NEW g, Finite(g), NEW x, Enc(x), x.state \in Seeking, ~ x.abort,
           NEW y, y = ismaster_done(g, x)
    PROVE  Settled(y)
<1> DEFINE known == IsmasterKnown(x)
           checked == CheckAnalyzer(g, known)
           found == FindSchemas(g, checked)
           x1 == IF mc_schema_broker_need_more_schemas(found.sb) THEN found
                 ELSE collect_keys_for_compaction(g, found)
           x2 == collect_keys_for_encrypted_fields(g, x1)
           x3 == KbRequestsDone(x2)
<1>0. DOMAIN x = CtxNames /\ SbOK(x.sb)
  BY DEF Enc, Plain, Core, Shape
<1>1. \/ checked.state \in {"READY", "ERROR"} /\ y = checked
      \/ Stopped(found) /\ y = found
      \/ ~ Stopped(found) /\ Stopped(x1) /\ y = x1
      \/ ~ Stopped(found) /\ ~ Stopped(x1) /\ y = x2
      \/ /\ ~ Stopped(found) /\ ~ Stopped(x1) /\ ~ Stopped(x2)
         /\ y = try_run_csfle_marking(g, x2) \/ y = state_from_key_broker(g, x3)
  BY DEF ismaster_done
<1>2. /\ DOMAIN known = CtxNames /\ known.sb = x.sb /\ known.state = x.state
      /\ \A n \in CtxNames \ {"ismaster"} : known[n] = x[n]
  BY <1>0 DEF CtxNames, IsmasterKnown
<1> HIDE DEF known
<1>3. Enc(known)
  BY <1>0, <1>2, EncKept
<1>4. checked = CheckAnalyzer(g, known)
  OBVIOUS
<1> HIDE DEF checked
<1>5. Enc(checked) /\ checked.state \in Seeking
  <2>1. Enc(checked) /\ checked.state \in {known.state, "READY", "ERROR"}
    BY <1>3, <1>4, CheckSeeks
  <2> QED
    BY <1>2, <2>1 DEF Seeking
<1>6. found = FindSchemas(g, checked)
  OBVIOUS
<1> HIDE DEF found
<1>7. Seeks(found)
  BY <1>5, <1>6, FindSeeks
<1>8. ~ Stopped(found) => Seeks(x1)
  <2>1. ~ Stopped(found) => Seeks(collect_keys_for_compaction(g, found))
    BY <1>7, SeeksOn, CompactionSeeks
  <2> QED
    BY <1>7, <2>1
<1> HIDE DEF x1
<1>9. ~ Stopped(found) /\ ~ Stopped(x1) => Seeks(x2)
  BY <1>8, SeeksOn, NamesSeek
<1> HIDE DEF x2
<1>10. CASE checked.state \in {"READY", "ERROR"} /\ y = checked
  BY <1>5, <1>10, SeeksSettled DEF Seeks
<1>11. CASE Stopped(found) /\ y = found
  BY <1>11 DEF Settled, Ends
<1>12. CASE ~ Stopped(found) /\ Stopped(x1) /\ y = x1
  BY <1>12 DEF Settled, Ends
<1>13. CASE ~ Stopped(found) /\ ~ Stopped(x1) /\ y = x2
  BY <1>9, <1>13, SeeksSettled
<1>14. CASE /\ ~ Stopped(found) /\ ~ Stopped(x1) /\ ~ Stopped(x2)
            /\ y = try_run_csfle_marking(g, x2) \/ y = state_from_key_broker(g, x3)
  <2>1. Enc(x2) /\ x2.state \in Seeking
    BY <1>9, <1>14, SeeksOn
  <2>2. CASE y = try_run_csfle_marking(g, x2)
    BY <2>1, <2>2, MarkingsTried
  <2>3. CASE y = state_from_key_broker(g, x3)
    <3>1. Enc(x3)
      BY <2>1, EncRequestsDone
    <3> HIDE DEF x3
    <3> QED
      BY <2>3, <3>1, EncFromBroker
  <2> QED
    BY <1>14, <2>2, <2>3
<1> QED
  BY <1>1, <1>10, <1>11, <1>12, <1>13, <1>14

\* mongo_done of the markings, or of the answer to isMaster
LEMMA MarkingsDone ==
    ASSUME NEW g, Finite(g), NEW x, Enc(x), x.state = "NEED_MONGO_MARKINGS", ~ x.abort,
           NEW y, y = mongo_done_markings(g, x)
    PROVE  Settled(y)
<1>1. x.state \in Seeking
  BY DEF Seeking
<1>2. CASE x.ismaster
  <2>1. y = ismaster_done(g, x)
    BY <1>2 DEF mongo_done_markings
  <2> QED
    BY <1>1, <2>1, IsmasterSettled
<1>3. CASE ~ x.ismaster
  <2>1. y = FinishMarkings(g, x)
    BY <1>3 DEF mongo_done_markings
  <2> QED
    BY <2>1, MarkingsFinished
<1> QED
  BY <1>2, <1>3

\* mongo_done of the collection infos
LEMMA CollinfoDone ==
    ASSUME NEW g, Finite(g), NEW x, Enc(x), x.state \in CollinfoStates, NEW y, y = mongo_done_collinfo(g, x)
    PROVE  Settled(y)
<1> DEFINE sb == mc_schema_broker_satisfy_remaining_with_empty_schemas(x.sb)
           w == [x EXCEPT !.sb = sb]
           z == collect_keys_for_compaction(g, w)
           r == KbRequestsDone(z)
           m == [z EXCEPT !.state = "NEED_MONGO_MARKINGS"]
<1>0. DOMAIN x = CtxNames /\ SbOK(x.sb) /\ FiniteInfo(x.cmd)
  BY DEF Enc, Plain, Core, Shape
<1>1. SbOK(sb)
  <2> DEFINE s == x.sb
             cmd == x.cmd
  <2>1. SbOK(s) /\ FiniteInfo(cmd)
    BY <1>0
  <2> HIDE DEF s, cmd
  <2>2. SbOK(mc_schema_broker_satisfy_remaining_with_empty_schemas(s))
    BY <2>1, SbSatisfied
  <2> QED
    BY <2>2 DEF s
<1>2. [x EXCEPT !.sb = mc_schema_broker_satisfy_remaining_with_empty_schemas(@)] = w
  OBVIOUS
<1> HIDE DEF sb
<1>3. \/ Stopped(z) /\ y = z
      \/ ~ Stopped(z) /\ (y = state_from_key_broker(g, r) \/ y = try_run_csfle_marking(g, m))
  BY <1>2 DEF mongo_done_collinfo
<1>4. /\ DOMAIN w = CtxNames /\ w.sb = sb /\ w.state = x.state
      /\ \A n \in CtxNames \ {"sb"} : w[n] = x[n]
  BY <1>0 DEF CtxNames
<1> HIDE DEF w
<1>5. Enc(w) /\ w.state \in Seeking
  BY <1>1, <1>4, EncKept DEF Seeking
<1>6. Seeks(z)
  BY <1>5, CompactionSeeks
<1> HIDE DEF z
<1>7. CASE Stopped(z) /\ y = z
  BY <1>7 DEF Settled, Ends
<1>8. CASE ~ Stopped(z) /\ (y = state_from_key_broker(g, r) \/ y = try_run_csfle_marking(g, m))
  <2>1. Enc(z) /\ SbOK(z.sb)
    BY <1>6, <1>8, SeeksOn
  <2>2. Enc(r)
    BY <2>1, EncRequestsDone
  <2>3. DOMAIN z = CtxNames
    BY <2>1 DEF Enc, Plain, Core, Shape
  <2>4. /\ DOMAIN m = CtxNames /\ m.sb = z.sb /\ m.state = "NEED_MONGO_MARKINGS"
        /\ \A n \in CtxNames \ {"state"} : m[n] = z[n]
    BY <2>3 DEF CtxNames
  <2> HIDE DEF m, r
  <2>5. Enc(m) /\ m.state \in Seeking
    BY <2>1, <2>4, EncKept DEF Seeking
  <2> QED
    BY <1>8, <2>2, <2>5, EncFromBroker, MarkingsTried
<1> QED
  BY <1>3, <1>7, <1>8

\* What an encryption does once its broker has been asked, fed or has decrypted
LEMMA KeysThere ==
    ASSUME NEW g, NEW x, Enc(x), NEW y, y = AfterKeys(g, x)
    PROVE  Settled(y)
<1> DEFINE z == [x EXCEPT !.need_keys = FALSE]
           kb == Restart(z.kb)
           w == [z EXCEPT !.kb = kb]
           m == [w EXCEPT !.state = "NEED_MONGO_MARKINGS"]
<1>0. DOMAIN x = CtxNames /\ Shape(x) /\ SbOK(x.sb) /\ BrokerOut(x.kb, {})
  BY DEF Enc, Plain, Core, Shape
<1>1. /\ DOMAIN z = CtxNames /\ z.sb = x.sb /\ z.kb = x.kb
      /\ \A n \in CtxNames \ {"need_keys"} : z[n] = x[n]
  BY <1>0 DEF CtxNames
<1>2. [z EXCEPT !.kb = Restart(@), !.state = "NEED_MONGO_MARKINGS"] = m
  OBVIOUS
<1>3. \/ y = state_from_key_broker(g, x) \/ y = state_from_key_broker(g, z)
      \/ y = try_run_csfle_marking(g, m)
  <2> HIDE DEF m
  <2> QED
    BY <1>2 DEF AfterKeys
<1> HIDE DEF z
<1>4. Enc(z)
  BY <1>0, <1>1, EncKept
<1>5. BrokerOut(kb, {}) /\ DOMAIN kb = KbNames
  <2> DEFINE b == z.kb
  <2>1. BrokerOut(b, {}) /\ DOMAIN b = KbNames
    BY <1>0, <1>1 DEF Shape
  <2> HIDE DEF b
  <2>2. BrokerOut(Restart(b), {}) /\ DOMAIN Restart(b) = KbNames
    BY <2>1, OutCalls, BrokerCallsKeep
  <2> QED
    BY <2>2 DEF b
<1> HIDE DEF kb
<1>6. Plain(w) /\ w.kb = kb /\ \A n \in CtxNames \ {"kb"} : w[n] = z[n]
  <2>1. Plain(z)
    BY <1>4 DEF Enc
  <2>2. w = [z EXCEPT !.kb = kb]
    OBVIOUS
  <2> HIDE DEF w
  <2> QED
    BY <1>5, <2>1, <2>2, PlainBroker
<1> HIDE DEF w
<1>7. Enc(w) /\ SbOK(w.sb) /\ DOMAIN w = CtxNames
  <2>1. w.kind = z.kind /\ w.sb = z.sb
    BY <1>6 DEF CtxNames
  <2> QED
    BY <1>0, <1>1, <1>4, <1>6, <2>1 DEF Enc, Plain, Core, Shape
<1>8. /\ DOMAIN m = CtxNames /\ m.sb = w.sb /\ m.state = "NEED_MONGO_MARKINGS"
      /\ \A n \in CtxNames \ {"state"} : m[n] = w[n]
  BY <1>7 DEF CtxNames
<1> HIDE DEF m
<1>9. Enc(m) /\ m.state \in Seeking
  BY <1>7, <1>8, EncKept DEF Seeking
<1> QED
  BY <1>3, <1>4, <1>9, EncFromBroker, MarkingsTried

\* mongo_done of the keys, for every kind of context: the broker has its documents.
LEMMA DocsThere ==
    ASSUME NEW x, Plain(x), NEW w, w = KbDocsDone(x)
    PROVE  /\ Shape(w) /\ \A n \in CtxNames \ {"kb"} : w[n] = x[n]
           /\ w.kb.state \in {"AUTHENTICATING", "DECRYPTING_KEY_MATERIAL", "DONE", "ERROR"}
           /\ w.kb.state # "ERROR" => Plain(w)
<1> DEFINE b == x.kb
           kb == DocsDone(b)
<1>1. Shape(x) /\ BrokerOut(b, {}) /\ DOMAIN b = KbNames
  BY DEF Plain, Core, Shape
<1>2. w = [x EXCEPT !.kb = kb]
  BY DEF KbDocsDone
<1> HIDE DEF b
<1>3. /\ BrokerOut(kb, {}) \/ kb.state = "ERROR"
      /\ kb.state \in {"AUTHENTICATING", "DECRYPTING_KEY_MATERIAL", "DONE", "ERROR"}
      /\ DOMAIN kb = KbNames
  BY <1>1, OutCalls, BrokerCallsKeep
<1> HIDE DEF kb
<1>4. Shape(w) /\ w.kb = kb /\ \A n \in CtxNames \ {"kb"} : w[n] = x[n]
  BY <1>1, <1>2, <1>3, BrokerShape
<1>5. kb.state # "ERROR" => Plain(w)
  BY <1>2, <1>3, PlainBroker
<1> QED
  BY <1>3, <1>4, <1>5

\* mongo_done of the keys of an encryption
LEMMA EncDocs ==
    ASSUME NEW g, NEW x, Enc(x), NEW y, y = encrypt_mongo_done_keys(g, x)
    PROVE  Settled(y)
<1> DEFINE w == KbDocsDone(x)
<1>1. y = AfterKeys(g, w)
  BY DEF encrypt_mongo_done_keys
<1>2. w = KbDocsDone(x) /\ Plain(x) /\ x.kind = "encrypt"
  BY DEF Enc
<1> HIDE DEF w
<1>3. /\ Shape(w) /\ \A n \in CtxNames \ {"kb"} : w[n] = x[n]
      /\ w.kb.state # "ERROR" => Plain(w)
  BY <1>2, DocsThere
<1>4. w.kind = "encrypt"
  BY <1>2, <1>3 DEF CtxNames
<1>5. CASE w.kb.state = "ERROR"
  <2>1. y = state_from_key_broker(g, w)
    BY <1>1, <1>5 DEF AfterKeys
  <2> QED
    BY <1>3, <1>5, <2>1, BrokerFailed DEF Settled, Ends
<1>6. CASE w.kb.state # "ERROR"
  <2>1. Enc(w)
    BY <1>3, <1>4, <1>6 DEF Enc
  <2> QED
    BY <1>1, <2>1, KeysThere
<1> QED
  BY <1>5, <1>6

\* A context whose broker is done with its KMS requests
LEMMA KmsThere ==
    ASSUME NEW x, Plain(x), x.kb.state \in {"AUTHENTICATING", "DECRYPTING_KEY_MATERIAL"},
           NEW y, y = KbKmsDone(x)
    PROVE  Stopped(y) \/ (Plain(y) /\ \A n \in CtxNames \ {"kb"} : y[n] = x[n])
<1>1. Shape(x) /\ BrokerOut(x.kb, {})
  BY DEF Plain, Core
<1>2. \/ Stopped(y)
      \/ /\ Shape(y) /\ BrokerOut(y.kb, {})
         /\ \A n \in CtxNames \ {"kb"} : y[n] = x[n]
  BY <1>1, OutKmsDone
<1>3. CASE Stopped(y)
  BY <1>3
<1>4. CASE /\ Shape(y) /\ BrokerOut(y.kb, {})
           /\ \A n \in CtxNames \ {"kb"} : y[n] = x[n]
  <2>1. /\ y.kind = x.kind /\ y.encrypting = x.encrypting /\ y.datakeys = x.datakeys
        /\ y.cmd = x.cmd /\ y.sb = x.sb /\ y.doc = x.doc
    BY <1>4 DEF CtxNames
  <2>2. Plain(y)
    BY <1>4, <2>1 DEF Plain, Core
  <2> QED
    BY <1>4, <2>2
<1> QED
  BY <1>2, <1>3, <1>4

\* kms_done of an encryption
LEMMA EncKmsDone ==
    ASSUME NEW g, NEW x, Enc(x), x.kb.state \in {"AUTHENTICATING", "DECRYPTING_KEY_MATERIAL"},
           NEW y, y = encrypt_kms_done(g, x)
    PROVE  Settled(y)
<1> DEFINE w == KbKmsDone(x)
<1>1. y = IF Stopped(w) THEN w ELSE AfterKeys(g, w)
  BY DEF encrypt_kms_done
<1>2. w = KbKmsDone(x) /\ Plain(x) /\ x.kind = "encrypt"
  BY DEF Enc
<1> HIDE DEF w
<1>3. Stopped(w) \/ (Plain(w) /\ \A n \in CtxNames \ {"kb"} : w[n] = x[n])
  BY <1>2, KmsThere
<1>4. CASE Stopped(w)
  BY <1>1, <1>4 DEF Settled, Ends
<1>5. CASE ~ Stopped(w)
  <2>1. w.kind = x.kind
    BY <1>3, <1>5 DEF CtxNames
  <2>2. Enc(w)
    BY <1>2, <1>3, <1>5, <2>1 DEF Enc
  <2> QED
    BY <1>1, <1>5, <2>2, KeysThere
<1> QED
  BY <1>4, <1>5

\* mongocrypt_ctx_encrypt_init
LEMMA EncStarts ==
    ASSUME NEW g, Finite(g), NEW cmd, FiniteInfo(cmd), cmd.others \in Seq(Range(cmd.others)),
           NEW y, y = encrypt_init(g, cmd)
    PROVE  Settled(y)
<1> DEFINE x == [mongocrypt_ctx_new EXCEPT !.kind = "encrypt", !.cmd = cmd, !.bypass = g.bypass]
           z == RequestSchemas(x)
           ready == [x EXCEPT !.nothing_to_do = TRUE, !.state = "READY"]
           asks == [z EXCEPT !.ismaster = TRUE, !.state = "NEED_MONGO_MARKINGS"]
           db == IF cmd.name = "bulkWrite" THEN cmd.targetDb ELSE cmd.db
           others == IF cmd.name = "aggregate" THEN cmd.others ELSE <<>>
           docs == <<cmd.coll>> \o others
           sb == FoldLeft(LAMBDA s, coll : mc_schema_broker_request(s, db, coll),
                          mc_schema_broker_new, docs)
<1>1. y \in {CtxFail(x), ready, CtxFail(z), asks, ismaster_done(g, z)}
  BY DEF encrypt_init
<1>2. /\ DOMAIN x = CtxNames /\ x.kb = NewBroker /\ ~ x.encrypting /\ x.datakeys = <<>>
      /\ x.kind = "encrypt" /\ x.cmd = cmd /\ x.sb = mc_schema_broker_new
      /\ x.state = "DONE" /\ ~ x.abort
  BY DEF mongocrypt_ctx_new, CtxNames
<1>3. z = [x EXCEPT !.sb = sb]
  <2> HIDE DEF x
  <2> QED
    BY <1>2 DEF RequestSchemas
<1> HIDE DEF x
<1>4. SbOK(mc_schema_broker_new) /\ SbOK(sb)
  <2>1. Listed(docs)
    <3>1. Listed(<<cmd.coll>>) /\ Listed(cmd.others) /\ Listed(<<>>)
      <4>1. <<cmd.coll>> \in Seq({cmd.coll}) /\ <<>> \in Seq({})
        OBVIOUS
      <4> QED
        BY <4>1 DEF Listed
    <3>2. Listed(others)
      BY <3>1
    <3> DEFINE head == <<cmd.coll>>
    <3> HIDE DEF others, head
    <3>3. Listed(head) /\ docs = head \o others
      BY <3>1 DEF head
    <3>4. Listed(head \o others)
      BY <3>2, <3>3, ListConcat
    <3> QED
      BY <3>3, <3>4
  <2> HIDE DEF docs, db
  <2> DEFINE new == mc_schema_broker_new
             E == {NewEntryFor(coll) : coll \in Range(docs)}
  <2>2. new \in Asked(db, Range(docs))
    <3>1. <<>> \in Seq(E)
      OBVIOUS
    <3> HIDE DEF E
    <3>2. new \in [db : {NoDb, db}, entries : Seq(E), mixing : {FALSE}, ok : BOOLEAN]
      BY <3>1 DEF mc_schema_broker_new
    <3> QED
      BY <3>2 DEF Asked, E
  <2>3. sb = FoldLeft(LAMBDA s, coll : mc_schema_broker_request(s, db, coll), new, docs)
    OBVIOUS
  <2> HIDE DEF sb, new, E
  <2>4. sb \in Asked(db, Range(docs))
    BY <2>1, <2>2, <2>3, SchemasAsked
  <2>5. SbOK(sb) /\ SbOK(new)
    BY <2>2, <2>4, AskedIsOK
  <2> QED
    BY <2>5 DEF new
<1> HIDE DEF sb
<1>5. /\ DOMAIN z = CtxNames /\ z.sb = sb /\ z.state = "DONE" /\ ~ z.abort
      /\ \A n \in CtxNames \ {"sb"} : z[n] = x[n]
  BY <1>2, <1>3 DEF CtxNames
<1> HIDE DEF z
<1>6. Enc(x)
  <2>1. Plain(x)
    BY <1>2, <1>4, NewPlain DEF Kinds
  <2> QED
    BY <1>2, <2>1 DEF Enc
<1>7. Enc(z) /\ z.state \in Seeking
  BY <1>4, <1>5, <1>6, EncKept DEF Seeking
<1>8. /\ DOMAIN ready = CtxNames /\ ready.sb = x.sb /\ ready.state = "READY"
      /\ \A n \in CtxNames \ {"nothing_to_do", "state"} : ready[n] = x[n]
  BY <1>2 DEF CtxNames
<1>9. /\ DOMAIN asks = CtxNames /\ asks.sb = z.sb /\ asks.state = "NEED_MONGO_MARKINGS"
      /\ \A n \in CtxNames \ {"ismaster", "state"} : asks[n] = z[n]
  BY <1>5 DEF CtxNames
<1> HIDE DEF ready, asks
<1>10. Enc(ready) /\ Enc(asks)
  BY <1>2, <1>4, <1>5, <1>6, <1>7, <1>8, <1>9, EncKept
<1>11. Shape(x) /\ Shape(z)
  BY <1>6, <1>7 DEF Enc, Plain, Core
<1>12. CASE y = CtxFail(x) \/ y = CtxFail(z)
  BY <1>11, <1>12, FailEnds DEF Settled
<1>13. CASE y = ready \/ y = asks
  BY <1>8, <1>9, <1>10, <1>13, SeeksSettled DEF Seeks, Seeking
<1>14. CASE y = ismaster_done(g, z)
  BY <1>5, <1>7, <1>14, IsmasterSettled
<1> QED
  BY <1>1, <1>12, <1>13, <1>14

-----------------------------------------------------------------------------
(***************************************************************************)
(* Decryption (mongocrypt-ctx-decrypt.c).                                  *)
(***************************************************************************)
\* A context that decrypts, while a call is at it
Dec(x) == Plain(x) /\ x.kind = "decrypt"

\* Asking for keys
LEMMA DecAsked ==
    ASSUME NEW g, NEW x, Dec(x), NEW keys, IsFiniteSet(keys), NEW y, y = RequestKeys(g, x, keys)
    PROVE  Dec(y)
<1>1. /\ Shape(x) /\ BrokerOut(x.kb, {}) /\ x.kind = "decrypt" /\ IsFiniteSet(x.doc)
      /\ ~ x.encrypting /\ x.datakeys = <<>>
  BY DEF Dec, Plain, Core
<1>2. AskedMore(x, y)
  BY <1>1, RequestKeysKeeps
<1>3. BrokerOut(y.kb, {})
  BY <1>1, <1>2, OutAsked
<1>4. /\ y.kind = x.kind /\ y.encrypting = x.encrypting /\ y.doc = x.doc
      /\ y.datakeys = x.datakeys /\ Shape(y)
  BY <1>2 DEF AskedMore, CtxNames
<1>5. Listed(y.datakeys) /\ \A i \in DOMAIN y.datakeys : SubOK(y.datakeys[i])
  BY <1>4 DEF Dec, Plain, Core
<1> QED
  BY <1>1, <1>3, <1>4, <1>5 DEF Dec, Plain, Core, Kinds

\* With another broker
LEMMA DecBroker ==
    ASSUME NEW x, Dec(x), NEW kb, DOMAIN kb = KbNames, BrokerOut(kb, {}),
           NEW y, y = [x EXCEPT !.kb = kb]
    PROVE  Dec(y)
<1>1. Plain(y) /\ \A n \in CtxNames \ {"kb"} : y[n] = x[n]
  BY PlainBroker DEF Dec
<1>2. y.kind = x.kind
  BY <1>1 DEF CtxNames
<1> QED
  BY <1>1, <1>2 DEF Dec

\* All keys have been asked for.
LEMMA DecRequestsDone ==
    ASSUME NEW x, Dec(x)
    PROVE  Dec(KbRequestsDone(x))
<1> DEFINE b == x.kb
           kb == RequestsDone(b)
           y == KbRequestsDone(x)
<1>1. BrokerOut(b, {}) /\ DOMAIN b = KbNames
  BY DEF Dec, Plain, Core, Shape
<1>2. y = [x EXCEPT !.kb = kb]
  BY DEF KbRequestsDone
<1> HIDE DEF b
<1>3. BrokerOut(kb, {}) /\ DOMAIN kb = KbNames
  BY <1>1, OutCalls, BrokerCallsKeep
<1> HIDE DEF kb, y
<1>4. Dec(y)
  BY <1>2, <1>3, DecBroker
<1> QED
  BY <1>4 DEF y

\* _check_for_K_KeyId
LEMMA DecChecked ==
    ASSUME NEW g, NEW x, Dec(x), NEW y, y = check_for_K_KeyId(g, x)
    PROVE  Stopped(y) \/ Dec(y)
<1> DEFINE b == x.kb
           kb == Restart(b)
           z == [x EXCEPT !.kb = kb]
           keys == {ById(v.key) : v \in {c \in Ciphertexts(x) : c.kind = "iev"}}
           asked == RequestKeys(g, z, keys)
<1>1. \/ y = x \/ y = CtxFail(z)
      \/ Stopped(asked) /\ y = asked
      \/ ~ Stopped(asked) /\ y = KbRequestsDone(asked)
  BY DEF check_for_K_KeyId
<1>2. BrokerOut(b, {}) /\ DOMAIN b = KbNames /\ IsFiniteSet(x.doc)
  BY DEF Dec, Plain, Core, Shape
<1>3. z = [x EXCEPT !.kb = kb]
  OBVIOUS
<1> HIDE DEF b
<1>4. BrokerOut(kb, {}) /\ DOMAIN kb = KbNames
  BY <1>2, OutCalls, BrokerCallsKeep
<1> HIDE DEF kb, z
<1>5. Dec(z)
  BY <1>3, <1>4, DecBroker
<1>6. IsFiniteSet(keys)
  <2> DEFINE doc == x.doc
  <2>1. IsFiniteSet(doc) /\ x.doc = doc
    BY <1>2
  <2> HIDE DEF doc
  <2> QED
    BY <2>1, KeysFinite
<1> HIDE DEF keys
<1>7. asked = RequestKeys(g, z, keys)
  OBVIOUS
<1> HIDE DEF asked
<1>8. Dec(asked)
  BY <1>5, <1>6, <1>7, DecAsked
<1>9. Dec(KbRequestsDone(asked))
  BY <1>8, DecRequestsDone
<1>10. Stopped(CtxFail(z))
  BY <1>5, FailEnds DEF Dec, Plain, Core
<1> QED
  BY <1>1, <1>9, <1>10

\* ... and the state of the broker becomes that of the context
LEMMA DecWithState ==
    ASSUME NEW g, NEW x, Stopped(x) \/ Dec(x), NEW y, y = WithState(g, x)
    PROVE  Settled(y)
<1>1. CASE Stopped(x)
  BY <1>1 DEF WithState, Settled, Ends
<1>2. CASE ~ Stopped(x)
  <2>1. y = state_from_key_broker(g, x) /\ Plain(x) /\ x.kind # "rewrap"
    BY <1>2 DEF WithState, Dec
  <2>2. Stopped(y) \/ (Plain(y) /\ Control(y))
    BY <2>1, FromBroker
  <2> QED
    BY <2>2, PlainSettled
<1> QED
  BY <1>1, <1>2

\* mongocrypt_ctx_decrypt_init
LEMMA DecStarts ==
    ASSUME NEW g, NEW doc, IsFiniteSet(doc), NEW y, y = decrypt_init(g, doc)
    PROVE  Settled(y)
<1> DEFINE x == [mongocrypt_ctx_new EXCEPT !.kind = "decrypt", !.doc = doc]
           keys == {ById(FirstKey(b)) : b \in Ciphertexts(x)}
           asked == RequestKeys(g, x, keys)
           z == KbRequestsDone(asked)
           w == check_for_K_KeyId(g, z)
<1>1. y = WithState(g, w)
  BY DEF decrypt_init
<1>2. /\ DOMAIN x = CtxNames /\ x.kb = NewBroker /\ ~ x.encrypting /\ x.datakeys = <<>>
      /\ x.kind = "decrypt" /\ x.doc = doc
  BY DEF mongocrypt_ctx_new, CtxNames
<1> HIDE DEF x
<1>3. Dec(x)
  <2>1. Plain(x)
    BY <1>2, NewPlain DEF Kinds
  <2> QED
    BY <1>2, <2>1 DEF Dec
<1>4. IsFiniteSet(keys)
  BY <1>2, KeysFinite
<1> HIDE DEF keys
<1>5. Dec(asked)
  BY <1>3, <1>4, DecAsked
<1> HIDE DEF asked
<1>6. Dec(z)
  BY <1>5, DecRequestsDone
<1> HIDE DEF z
<1>7. Stopped(w) \/ Dec(w)
  BY <1>6, DecChecked
<1> HIDE DEF w
<1> QED
  BY <1>1, <1>7, DecWithState

\* mongocrypt_ctx_explicit_decrypt_init
LEMMA ExplicitStarts ==
    ASSUME NEW g, NEW value, NEW y, y = explicit_decrypt_init(g, value)
    PROVE  Settled(y)
<1>1. CASE ~ IsCiphertext(value)
  <2>1. y.state = "ERROR"
    BY <1>1 DEF explicit_decrypt_init, CtxFail, mongocrypt_ctx_new
  <2> QED
    BY <2>1 DEF Settled, Ends, Stopped
<1>2. CASE IsCiphertext(value)
  <2> DEFINE doc == {value}
  <2>1. y = decrypt_init(g, doc)
    BY <1>2 DEF explicit_decrypt_init
  <2>2. IsFiniteSet(doc)
    BY FS_Singleton
  <2> HIDE DEF doc
  <2> QED
    BY <2>1, <2>2, DecStarts
<1> QED
  BY <1>1, <1>2

\* mongo_done of the keys of a decryption
LEMMA DecDocs ==
    ASSUME NEW g, NEW x, Dec(x), NEW y, y = decrypt_mongo_done_keys(g, x)
    PROVE  Settled(y)
<1> DEFINE w == KbDocsDone(x)
           z == check_for_K_KeyId(g, w)
<1>1. y = WithState(g, z)
  BY DEF decrypt_mongo_done_keys
<1>2. w = KbDocsDone(x) /\ Plain(x)
  BY DEF Dec
<1> HIDE DEF w
<1>3. /\ Shape(w) /\ \A n \in CtxNames \ {"kb"} : w[n] = x[n]
      /\ w.kb.state # "ERROR" => Plain(w)
  BY <1>2, DocsThere
<1>4. w.kind = "decrypt"
  BY <1>3 DEF CtxNames, Dec
<1>5. CASE w.kb.state = "ERROR"
  <2>1. z = w
    BY <1>5 DEF check_for_K_KeyId
  <2>2. (y = w /\ Stopped(w)) \/ y = state_from_key_broker(g, w)
    BY <1>1, <2>1 DEF WithState
  <2>3. Stopped(y)
    BY <1>3, <1>5, <2>2, BrokerFailed
  <2> QED
    BY <2>3 DEF Settled, Ends
<1>6. CASE w.kb.state # "ERROR"
  <2>1. Dec(w)
    BY <1>3, <1>4, <1>6 DEF Dec
  <2>2. Stopped(z) \/ Dec(z)
    BY <2>1, DecChecked
  <2> HIDE DEF z
  <2> QED
    BY <1>1, <2>2, DecWithState
<1> QED
  BY <1>5, <1>6

\* kms_done of a decryption
LEMMA DecKmsDone ==
    ASSUME NEW g, NEW x, Dec(x), x.kb.state \in {"AUTHENTICATING", "DECRYPTING_KEY_MATERIAL"},
           NEW y, y = decrypt_kms_done(g, x)
    PROVE  Settled(y)
<1> DEFINE w == KbKmsDone(x)
           z == check_for_K_KeyId(g, w)
<1>1. y = IF Stopped(w) THEN w ELSE WithState(g, z)
  BY DEF decrypt_kms_done
<1>2. w = KbKmsDone(x) /\ Plain(x) /\ x.kind = "decrypt"
  BY DEF Dec
<1> HIDE DEF w
<1>3. Stopped(w) \/ (Plain(w) /\ \A n \in CtxNames \ {"kb"} : w[n] = x[n])
  BY <1>2, KmsThere
<1>4. CASE Stopped(w)
  BY <1>1, <1>4 DEF Settled, Ends
<1>5. CASE ~ Stopped(w)
  <2>1. w.kind = x.kind
    BY <1>3, <1>5 DEF CtxNames
  <2>2. Dec(w)
    BY <1>2, <1>3, <1>5, <2>1 DEF Dec
  <2>3. Stopped(z) \/ Dec(z)
    BY <2>2, DecChecked
  <2> HIDE DEF z
  <2> QED
    BY <1>1, <1>5, <2>3, DecWithState
<1> QED
  BY <1>4, <1>5

-----------------------------------------------------------------------------
(***************************************************************************)
(* The replies that a driver feeds.                                        *)
(***************************************************************************)
\* The infos a server replies with are finite.
LEMMA InfosFinite ==
    ASSUME NEW x, NEW item \in Infos(x)
    PROVE  FiniteInfo(item)
BY ContextsAssumption DEF Infos

\* So are the marks of the query analysis.
LEMMA ReplyFinite ==
    ASSUME NEW x, Enc(x), ~ x.ismaster
    PROVE  IsFiniteSet(AnalyzerReply(x).result.marks)
<1> DEFINE made == create_markings_cmd(crypt, x)
           cmd == x.cmd
           verbose == crypt.verbose
<1>1. AnalyzerReply(x) = Analyze(cmd, made, verbose)
  BY DEF AnalyzerReply
<1>2. made = create_markings_cmd(crypt, x)
  OBVIOUS
<1> HIDE DEF made, cmd, verbose
<1>3. SchemasOK(made.schemas)
  BY <1>2, MarkingsMade
<1>4. IsFiniteSet(Analyze(cmd, made, verbose).result.marks)
  BY <1>3, MarksFinite
<1> QED
  BY <1>1, <1>4

\* A context that asks the server, the analysis or the key vault
InMongo(x) == Plain(x) /\ Control(x) /\ x.state \in MongoStates

\* It has no sub-contexts.
LEMMA MongoPlain ==
    ASSUME NEW x, Core(x, {}), Control(x), x.state \in MongoStates
    PROVE  InMongo(x)
<1>1. ~ x.encrypting /\ x.datakeys = <<>>
  BY DEF Control, MongoStates
<1> QED
  BY <1>1 DEF InMongo, Plain

\* mongocrypt_ctx_mongo_op of the keys
LEMMA FilterKept ==
    ASSUME NEW x, InMongo(x), x.state = "NEED_MONGO_KEYS", NEW y, y = [x EXCEPT !.kb = Filter(@)]
    PROVE  InMongo(y) /\ y.state = x.state
<1> DEFINE b == x.kb
           kb == Filter(b)
           z == [x EXCEPT !.kb = kb]
<1>1. /\ Plain(x) /\ BrokerOut(b, {}) /\ DOMAIN b = KbNames
      /\ b.state \in {"ADDING_DOCS", "ADDING_DOCS_ANY"}
  BY DEF InMongo, Plain, Core, Shape, Control
<1>2. y = z
  OBVIOUS
<1>3. kb.state = b.state
  BY <1>1 DEF Filter, KbNames
<1> HIDE DEF b
<1>4. BrokerOut(kb, {}) /\ DOMAIN kb = KbNames
  BY <1>1, OutCalls, BrokerCallsKeep
<1>5. z = [x EXCEPT !.kb = kb]
  OBVIOUS
<1> HIDE DEF kb, z
<1>6. Plain(z) /\ z.kb = kb /\ \A n \in CtxNames \ {"kb"} : z[n] = x[n]
  BY <1>1, <1>4, <1>5, PlainBroker
<1>7. z.state = x.state /\ ~ z.encrypting /\ z.datakeys = <<>>
  BY <1>6 DEF CtxNames, Plain
<1>8. Control(z)
  BY <1>1, <1>3, <1>6, <1>7 DEF Control, CollinfoStates
<1> QED
  BY <1>2, <1>6, <1>7, <1>8 DEF InMongo, MongoStates

\* A context that encrypts and still seeks schemas or markings
LEMMA EncInMongo ==
    ASSUME NEW x, Enc(x), x.state \in CollinfoStates \cup {"NEED_MONGO_MARKINGS"}
    PROVE  InMongo(x)
<1>1. Plain(x) /\ x.kind = "encrypt" /\ ~ x.encrypting /\ x.datakeys = <<>>
  BY DEF Enc, Plain
<1>2. Control(x)
  BY <1>1 DEF Control, CollinfoStates
<1> QED
  BY <1>1, <1>2 DEF InMongo, MongoStates, CollinfoStates

\* ... and nothing but an encryption does
LEMMA InMongoEnc ==
    ASSUME NEW x, InMongo(x), x.state \in CollinfoStates \cup {"NEED_MONGO_MARKINGS"}
    PROVE  Enc(x) /\ SbOK(x.sb) /\ DOMAIN x = CtxNames
BY DEF InMongo, Control, Enc, Plain, Core, Shape

\* mongocrypt_ctx_mongo_op
LEMMA MongoOpKeeps ==
    ASSUME NEW x, InMongo(x), NEW y, y = mongo_op(x)
    PROVE  Stopped(y) \/ (InMongo(y) /\ y.state = x.state)
<1>1. CASE x.state \in CollinfoStates
  <2>1. y = x \/ y = CtxFail(x)
    BY <1>1 DEF mongo_op, mongo_op_collinfo, CollinfoStates
  <2>2. Shape(x)
    BY DEF InMongo, Plain, Core
  <2> QED
    BY <2>1, <2>2, FailEnds
<1>2. CASE x.state = "NEED_MONGO_MARKINGS"
  <2> DEFINE made == create_markings_cmd(crypt, x)
  <2>1. y = x \/ y = made.x
    BY <1>2 DEF mongo_op, mongo_op_markings, CollinfoStates
  <2>2. made = create_markings_cmd(crypt, x)
    OBVIOUS
  <2> HIDE DEF made
  <2>3. Enc(x)
    BY <1>2, InMongoEnc
  <2>4. Stopped(made.x) \/ (Enc(made.x) /\ made.x.state = x.state)
    BY <2>2, <2>3, MarkingsMade
  <2>5. CASE y = made.x /\ ~ Stopped(y)
    <3>1. Enc(y) /\ y.state = x.state
      BY <2>4, <2>5
    <3> QED
      BY <1>2, <3>1, EncInMongo
  <2> QED
    BY <2>1, <2>5
<1>3. CASE x.state = "NEED_MONGO_KEYS"
  <2>1. y = x \/ y = [x EXCEPT !.kb = Filter(@)]
    BY <1>3 DEF mongo_op, CollinfoStates
  <2> QED
    BY <1>3, <2>1, FilterKept
<1> QED
  BY <1>1, <1>2, <1>3 DEF InMongo, MongoStates, CollinfoStates

\* What comes back is fit to be fed.
LEMMA ReplyFits ==
    ASSUME NEW x, InMongo(x), NEW ids,
           NEW item \in CASE x.state \in CollinfoStates -> Infos(x)
                          [] x.state = "NEED_MONGO_MARKINGS" -> {AnalyzerReply(x)}
                          [] x.state = "NEED_MONGO_KEYS" -> KeyDocs(x, ids)
    PROVE  ReplyOK(x, item)
<1>1. CASE x.state \in CollinfoStates
  <2>1. item \in Infos(x) /\ x.state # "NEED_MONGO_MARKINGS"
    BY <1>1 DEF CollinfoStates
  <2> QED
    BY <2>1, InfosFinite DEF ReplyOK
<1>2. CASE x.state = "NEED_MONGO_MARKINGS"
  <2>1. item = AnalyzerReply(x) /\ x.state \notin CollinfoStates
    BY <1>2 DEF CollinfoStates
  <2>2. Enc(x)
    BY <1>2, InMongoEnc
  <2> QED
    BY <2>1, <2>2, ReplyFinite DEF ReplyOK
<1>3. CASE x.state = "NEED_MONGO_KEYS"
  BY <1>3 DEF ReplyOK, CollinfoStates
<1> QED
  BY <1>1, <1>2, <1>3 DEF InMongo, MongoStates, CollinfoStates

\* _mongo_feed_collinfo
LEMMA CollinfoFed ==
    ASSUME NEW x, Enc(x), x.state \in CollinfoStates, NEW info, FiniteInfo(info),
           NEW y, y = mongo_feed_collinfo(x, info)
    PROVE  Stopped(y) \/ (Enc(y) /\ y.state = x.state)
<1> DEFINE old == x.sb
           sb == mc_schema_broker_satisfy_from_collinfo(old, info)
           z == [x EXCEPT !.sb = sb]
<1>1. DOMAIN x = CtxNames /\ Shape(x) /\ SbOK(old)
  BY DEF Enc, Plain, Core, Shape
<1>2. y = z \/ y = CtxFail(x)
  BY DEF mongo_feed_collinfo
<1>3. sb = mc_schema_broker_satisfy_from_collinfo(old, info)
  OBVIOUS
<1> HIDE DEF old, sb
<1>4. SbOK(sb)
  BY <1>1, <1>3, SbFromInfo
<1>5. DOMAIN z = CtxNames /\ z.sb = sb /\ z.state = x.state /\ \A n \in CtxNames \ {"sb"} : z[n] = x[n]
  BY <1>1 DEF CtxNames
<1> HIDE DEF z
<1>6. Enc(z)
  BY <1>4, <1>5, EncKept
<1> QED
  BY <1>1, <1>2, <1>5, <1>6, FailEnds

\* _mongo_feed_keys
LEMMA KeyFed ==
    ASSUME NEW g, NEW x, InMongo(x), x.state = "NEED_MONGO_KEYS", NEW doc,
           NEW y, y = mongo_feed_keys(g, x, doc, TRUE)
    PROVE  Stopped(y) \/ (InMongo(y) /\ y.state = x.state)
<1>1. /\ Shape(x) /\ BrokerOut(x.kb, {}) /\ x.kb.state \in {"ADDING_DOCS", "ADDING_DOCS_ANY"}
      /\ ~ x.encrypting /\ x.datakeys = <<>>
  BY DEF InMongo, Plain, Core, Shape, Control
<1>2. \/ y.state = "ERROR"
      \/ /\ Shape(y) /\ BrokerOut(y.kb, {}) /\ y.kb.state = x.kb.state
         /\ \A n \in CtxNames \ {"kb"} : y[n] = x[n]
  <2> DEFINE valid == TRUE
             h == {}
  <2>1. y = mongo_feed_keys(g, x, doc, valid) /\ BrokerOut(x.kb, h)
    BY <1>1
  <2> HIDE DEF valid, h
  <2>2. KeyTaken(x, h, y)
    BY <1>1, <2>1, OutFeedKeys
  <2> QED
    BY <2>2 DEF h, KeyTaken
<1>3. CASE /\ Shape(y) /\ BrokerOut(y.kb, {}) /\ y.kb.state = x.kb.state
           /\ \A n \in CtxNames \ {"kb"} : y[n] = x[n]
  <2>1. /\ y.kind = x.kind /\ y.encrypting = x.encrypting /\ y.datakeys = x.datakeys
        /\ y.cmd = x.cmd /\ y.sb = x.sb /\ y.doc = x.doc /\ y.state = x.state
    BY <1>3 DEF CtxNames
  <2>2. Plain(y)
    BY <1>3, <2>1 DEF InMongo, Plain, Core
  <2>3. Control(y)
    BY <1>1, <1>3, <2>1 DEF Control, CollinfoStates
  <2> QED
    BY <2>1, <2>2, <2>3 DEF InMongo, MongoStates
<1> QED
  BY <1>2, <1>3 DEF Stopped

\* mongocrypt_ctx_finalize
LEMMA Finalized ==
    ASSUME NEW x, Shape(x),
           NEW y, y \in {encrypt_finalize(x), decrypt_finalize(x), rewrap_finalize(x)}
    PROVE  Ends(y)
<1>1. Ends(CtxFail(x)) /\ Ends(CtxAbort(x))
  BY FailEnds
<1>2. ASSUME NEW out PROVE Ends([x EXCEPT !.state = "DONE", !.out = out])
  BY DEF Ends, Shape, CtxNames
<1>3. CASE y = decrypt_finalize(x)
  BY <1>1, <1>2, <1>3 DEF decrypt_finalize
<1>4. CASE y = rewrap_finalize(x)
  BY <1>1, <1>2, <1>4 DEF rewrap_finalize
<1>5. ASSUME y = fle2_finalize(x) PROVE Ends(y)
  <2>1. y = CtxFail(x) \/ y = CtxAbort(x) \/ \E out : y = [x EXCEPT !.state = "DONE", !.out = out]
    BY <1>5, Zenon DEF fle2_finalize
  <2> QED
    BY <1>1, <1>2, <2>1
<1>6. CASE y = encrypt_finalize(x)
  <2>1. \/ y = CtxFail(x) \/ y = CtxAbort(x) \/ y = fle2_finalize(x)
        \/ \E out : y = [x EXCEPT !.state = "DONE", !.out = out]
    BY <1>6, Zenon DEF encrypt_finalize
  <2> QED
    BY <1>1, <1>2, <1>5, <2>1
<1> QED
  BY <1>3, <1>4, <1>6

-----------------------------------------------------------------------------
(***************************************************************************)
(* The caches, and the other contexts.                                     *)
(***************************************************************************)
\* The caches and options after a step
LEMMA CryptKept ==
    ASSUME CryptOK, jobs' = jobs, DOMAIN crypt' = DOMAIN crypt,
           crypt'.efcMap = crypt.efcMap, crypt'.schemaMap = crypt.schemaMap,
           \A ns \in DOMAIN crypt'.colls : FiniteInfo(crypt'.colls[ns])
    PROVE  CryptOK'
<1>1. (\A ns \in DOMAIN crypt.colls : FiniteInfo(crypt.colls[ns]))'
  BY DEF FiniteInfo, FiniteSchema
<1>2. (\A map \in {crypt.efcMap, crypt.schemaMap} : \A ns \in DOMAIN map : IsFiniteSet(map[ns]))'
  BY DEF CryptOK
<1> QED
  BY <1>1, <1>2 DEF CryptOK

\* ... which changes nothing of them
LEMMA CryptSame ==
    ASSUME CryptOK, jobs' = jobs, crypt' = crypt
    PROVE  CryptOK'
BY CryptKept DEF CryptOK

\* Other keys or tokens
LEMMA CryptKeys ==
    ASSUME CryptOK, jobs' = jobs, NEW keys, NEW tokens,
           crypt' \in {[crypt EXCEPT !.keys = keys], [crypt EXCEPT !.tokens = tokens],
                       [crypt EXCEPT !.keys = keys, !.tokens = tokens],
                       [crypt EXCEPT !.tokens = tokens, !.keys = keys]}
    PROVE  CryptOK'
<1>1. /\ DOMAIN crypt' = DOMAIN crypt /\ crypt'.efcMap = crypt.efcMap
      /\ crypt'.schemaMap = crypt.schemaMap /\ crypt'.colls = crypt.colls
  BY DEF CryptOK
<1> QED
  BY <1>1, CryptKept DEF CryptOK

\* Other collection infos
LEMMA CryptColls ==
    ASSUME CryptOK, jobs' = jobs, NEW colls, crypt' = [crypt EXCEPT !.colls = colls],
           \A ns \in DOMAIN colls : FiniteInfo(colls[ns])
    PROVE  CryptOK'
<1>1. /\ DOMAIN crypt' = DOMAIN crypt /\ crypt'.efcMap = crypt.efcMap
      /\ crypt'.schemaMap = crypt.schemaMap /\ crypt'.colls = colls
  BY DEF CryptOK
<1> QED
  BY <1>1, CryptKept

\* Some collection infos go to the cache.
LEMMA CryptInfos ==
    ASSUME CryptOK, jobs' = jobs, NEW infos, \A ns \in DOMAIN infos : FiniteInfo(infos[ns]),
           crypt' = [crypt EXCEPT !.colls = CacheInfos(infos)]
    PROVE  CryptOK'
<1> DEFINE colls == CacheInfos(infos)
<1>1. \A ns \in DOMAIN crypt.colls : FiniteInfo(crypt.colls[ns])
  BY DEF CryptOK
<1>2. \A ns \in DOMAIN colls : FiniteInfo(colls[ns])
  BY <1>1 DEF CacheInfos
<1> HIDE DEF colls
<1>3. crypt' = [crypt EXCEPT !.colls = colls]
  BY DEF colls
<1> QED
  BY <1>2, <1>3, CryptColls

\* What the calls get of the library
LEMMA CryptFinite ==
    ASSUME CryptOK, NEW tokens
    PROVE  Finite(crypt) /\ Finite([crypt EXCEPT !.tokens = tokens])
BY DEF CryptOK, Finite

\* The job of a context
LEMMA JobIs ==
    ASSUME CryptOK, NEW c \in Ctxs
    PROVE  /\ jobs[c].kind \in {"encrypt", "decrypt", "explicit", "rewrap"}
           /\ IsFiniteSet(jobs[c].doc)
           /\ FiniteInfo(jobs[c].cmd) /\ jobs[c].cmd.others \in Seq(Range(jobs[c].cmd.others))
<1>1. PICK s \in Scenarios : jobs = s.jobs
  BY DEF CryptOK
<1> QED
  BY <1>1, ContextsAssumption

-----------------------------------------------------------------------------
\* What one context and its driver do leaves the others where they were.
LEMMA RoundKeeps ==
    ASSUME RoundInv, NEW c \in Ctxs, NEW y, NEW d, CryptOK',
           ctx' = [ctx EXCEPT ![c] = y], drv' = [drv EXCEPT ![c] = d],
           DOMAIN d = DrvNames, d.started => Round(y, d)
    PROVE  RoundInv'
<1>1. DOMAIN ctx = Ctxs /\ DOMAIN drv = Ctxs
  BY DEF RoundInv
<1>2. DOMAIN ctx' = Ctxs /\ DOMAIN drv' = Ctxs /\ ctx'[c] = y /\ drv'[c] = d
  BY <1>1
<1>3. \A e \in Ctxs \ {c} : ctx'[e] = ctx[e] /\ drv'[e] = drv[e]
  BY <1>1
<1>4. \A e \in Ctxs : DOMAIN drv'[e] = DrvNames
  BY <1>2, <1>3 DEF RoundInv
<1>5. \A e \in Ctxs : drv'[e].started => Round(ctx'[e], drv'[e])
  BY <1>2, <1>3 DEF RoundInv
<1>6. (\A e \in Ctxs : DOMAIN drv[e] = DrvNames)'
  BY <1>4
<1>7. (\A e \in Ctxs : drv[e].started => Round(ctx[e], drv[e]))'
  BY <1>5 DEF Round
<1> QED
  BY <1>2, <1>6, <1>7 DEF RoundInv

\* A context that a call leaves to a driver at the start of its loop
LEMMA SettledMoves ==
    ASSUME RoundInv, NEW c \in Ctxs, NEW y, CryptOK', Moves(c, y), Settled(y)
    PROVE  RoundInv'
<1>1. DOMAIN Idle = DrvNames /\ Idle.held = {} /\ Idle.batch = {} /\ ~ Idle.drained
  BY DEF Idle, NewDriver, DrvNames
<1>2. Round(y, Idle)
  <2>1. CASE Ends(y)
    BY <2>1 DEF Round
  <2>2. CASE ~ Ends(y)
    <3>1. /\ Core(y, {}) /\ Control(y)
          /\ y.state = "NEED_KMS" /\ y.encrypting => SubsOut(y, {})
      BY <2>2 DEF Settled
    <3> QED
      BY <1>1, <3>1 DEF Round
  <2> QED
    BY <2>1, <2>2
<1>3. ctx' = [ctx EXCEPT ![c] = y] /\ drv' = [drv EXCEPT ![c] = Idle]
  BY DEF Moves
<1> HIDE DEF Idle
<1> QED
  BY <1>1, <1>2, <1>3, RoundKeeps

\* A context that is called has not ended.
LEMMA RoundCalled ==
    ASSUME RoundInv, NEW c \in Ctxs, NEW states, In(c, states), states \cap {"DONE", "ERROR"} = {}
    PROVE  LET x == ctx[c]
               d == drv[c]
           IN  /\ Core(x, d.held) /\ Control(x) /\ ~ Ends(x) /\ ~ x.abort /\ x.state \in states
               /\ x.state # "NEED_KMS" => d.held = {}
               /\ x.state = "NEED_KMS" /\ x.encrypting => SubsOut(x, d.held)
               /\ x.state = "NEED_KMS" /\ d.drained => NextRef(x) = {}
               /\ \A item \in d.batch : ReplyOK(x, item)
               /\ DOMAIN d = DrvNames /\ d.started
BY DEF RoundInv, Round, In, Ends, Stopped

-----------------------------------------------------------------------------
(***************************************************************************)
(* The steps of a driver, and the rounds of requests.                      *)
(***************************************************************************)
\* The init calls
LEMMA StartRound ==
    ASSUME RoundInv, NEW c \in Ctxs, StartCtx(c)
    PROVE  RoundInv'
<1> DEFINE job == jobs[c]
           value == CHOOSE b \in job.doc : TRUE
           y == CASE job.kind = "encrypt" -> encrypt_init(crypt, job.cmd)
                  [] job.kind = "decrypt" -> decrypt_init(crypt, job.doc)
                  [] job.kind = "explicit" -> explicit_decrypt_init(crypt, value)
                  [] job.kind = "rewrap" -> rewrap_init(crypt, job.kek)
           cmd == job.cmd
           doc == job.doc
           kek == job.kek
<1>1. Moves(c, y) /\ jobs' = jobs /\ crypt' = crypt
  BY DEF StartCtx
<1>2. CryptOK /\ CryptOK'
  BY <1>1, CryptSame DEF RoundInv
<1>3. /\ job.kind \in {"encrypt", "decrypt", "explicit", "rewrap"} /\ IsFiniteSet(doc)
      /\ FiniteInfo(cmd) /\ cmd.others \in Seq(Range(cmd.others))
  BY <1>2, JobIs
<1>4. Finite(crypt)
  BY <1>2, CryptFinite
<1>5. \/ job.kind = "encrypt" /\ y = encrypt_init(crypt, cmd)
      \/ job.kind = "decrypt" /\ y = decrypt_init(crypt, doc)
      \/ job.kind = "explicit" /\ y = explicit_decrypt_init(crypt, value)
      \/ job.kind = "rewrap" /\ y = rewrap_init(crypt, kek)
  BY <1>3
<1> HIDE DEF y, value, cmd, doc, kek
<1>6. Settled(y)
  BY <1>3, <1>4, <1>5, EncStarts, DecStarts, ExplicitStarts, RewrapStarts
<1> QED
  BY <1>1, <1>2, <1>6, SettledMoves

\* mongocrypt_ctx_mongo_op
LEMMA MongoOpRound ==
    ASSUME RoundInv, NEW c \in Ctxs, MongoOp(c)
    PROVE  RoundInv'
<1> DEFINE x == ctx[c]
           ids == jobs[c].ids
           y == mongo_op(x)
           reply == CASE y.state \in CollinfoStates -> Infos(y)
                      [] y.state = "NEED_MONGO_MARKINGS" -> {AnalyzerReply(y)}
                      [] y.state = "NEED_MONGO_KEYS" -> KeyDocs(y, ids)
           batch == IF Stopped(y) THEN {} ELSE reply
           d == [drv[c] EXCEPT !.asked = TRUE, !.batch = batch]
<1>1. /\ In(c, MongoStates) /\ jobs' = jobs /\ crypt' = crypt /\ ctx' = [ctx EXCEPT ![c] = y]
      /\ drv' = [drv EXCEPT ![c].asked = TRUE, ![c].batch = batch]
  BY DEF MongoOp
<1>2. CryptOK' /\ DOMAIN drv = Ctxs
  BY <1>1, CryptSame DEF RoundInv
<1> HIDE DEF batch
<1>3. /\ Core(x, drv[c].held) /\ Control(x) /\ x.state \in MongoStates /\ drv[c].held = {}
      /\ DOMAIN drv[c] = DrvNames
  BY <1>1, RoundCalled DEF MongoStates
<1>4. drv' = [drv EXCEPT ![c] = d]
  BY <1>1, <1>2
<1>5. DOMAIN d = DrvNames /\ d.held = {} /\ d.batch = batch
  BY <1>3 DEF DrvNames
<1> HIDE DEF d, x
<1>6. InMongo(x)
  BY <1>3, MongoPlain
<1>7. y = mongo_op(x)
  OBVIOUS
<1> HIDE DEF y
<1>8. Stopped(y) \/ (InMongo(y) /\ y.state = x.state)
  BY <1>6, <1>7, MongoOpKeeps
<1>9. Round(y, d)
  <2>1. CASE Stopped(y)
    BY <2>1 DEF Round, Ends
  <2>2. CASE ~ Stopped(y)
    <3>1. InMongo(y) /\ batch = reply
      BY <1>8, <2>2 DEF batch
    <3>2. \A item \in reply : ReplyOK(y, item)
      BY <3>1, ReplyFits
    <3>3. Core(y, {}) /\ Control(y) /\ y.state # "NEED_KMS"
      BY <3>1 DEF InMongo, Plain, MongoStates
    <3> HIDE DEF reply
    <3> QED
      BY <1>5, <3>1, <3>2, <3>3 DEF Round
  <2> QED
    BY <2>1, <2>2
<1> QED
  BY <1>1, <1>2, <1>4, <1>5, <1>9, RoundKeeps

\* A context that has been fed, with what is left of the reply
LEMMA FedRound ==
    ASSUME NEW x, InMongo(x), NEW d, \A item \in d.batch : ReplyOK(x, item),
           NEW e, e.held = {}, e.batch \subseteq d.batch,
           NEW y, Stopped(y) \/ (InMongo(y) /\ y.state = x.state),
           x.state = "NEED_MONGO_MARKINGS" => y.ismaster = x.ismaster
    PROVE  Round(y, e)
<1>1. CASE Stopped(y)
  BY <1>1 DEF Round, Ends
<1>2. CASE ~ Stopped(y)
  <2>1. Core(y, {}) /\ Control(y) /\ y.state # "NEED_KMS" /\ y.state = x.state
    BY <1>2 DEF InMongo, Plain, MongoStates
  <2>2. \A item \in e.batch : ReplyOK(y, item)
    BY <2>1 DEF ReplyOK
  <2> QED
    BY <2>1, <2>2 DEF Round
<1> QED
  BY <1>1, <1>2

\* mongocrypt_ctx_mongo_feed
LEMMA MongoFeedRound ==
    ASSUME RoundInv, NEW c \in Ctxs, MongoFeed(c)
    PROVE  RoundInv'
<1> DEFINE x == ctx[c]
<1>1. PICK item \in drv[c].batch :
        /\ drv' = [drv EXCEPT ![c].batch = @ \ {item}]
        /\ CASE x.state \in CollinfoStates ->
                  /\ ctx' = [ctx EXCEPT ![c] = mongo_feed_collinfo(@, item)]
                  /\ crypt' = [crypt EXCEPT !.colls =
                                  CacheInfos([ns \in {<<x.sb.db, item.name>>} |-> item])]
             [] x.state = "NEED_MONGO_MARKINGS" ->
                  /\ ctx' = [ctx EXCEPT ![c] = mongo_feed_markings(crypt, @, item)]
                  /\ UNCHANGED crypt
             [] x.state = "NEED_MONGO_KEYS" ->
                  LET y == mongo_feed_keys(crypt, x, item, TRUE)
                  IN  /\ ctx' = [ctx EXCEPT ![c] = y]
                      /\ crypt' = [crypt EXCEPT !.keys = CacheKeys(NewKeys(x.kb, y.kb))]
  BY DEF MongoFeed
<1> DEFINE d == [drv[c] EXCEPT !.batch = @ \ {item}]
<1>2. In(c, MongoStates) /\ jobs' = jobs
  BY DEF MongoFeed
<1>3. CryptOK /\ DOMAIN ctx = Ctxs /\ DOMAIN drv = Ctxs
  BY DEF RoundInv
<1>4. /\ Core(x, drv[c].held) /\ Control(x) /\ x.state \in MongoStates /\ drv[c].held = {}
      /\ DOMAIN drv[c] = DrvNames /\ \A i \in drv[c].batch : ReplyOK(x, i)
  BY <1>2, RoundCalled DEF MongoStates
<1>5. drv' = [drv EXCEPT ![c] = d]
  BY <1>1, <1>3
<1>6. DOMAIN d = DrvNames /\ d.held = {} /\ d.batch \subseteq drv[c].batch
  BY <1>4 DEF DrvNames
<1> HIDE DEF d
<1>7. InMongo(x) /\ ReplyOK(x, item)
  BY <1>1, <1>4, MongoPlain
<1>8. ASSUME NEW y, ctx' = [ctx EXCEPT ![c] = y], CryptOK',
             Stopped(y) \/ (InMongo(y) /\ y.state = x.state),
             x.state = "NEED_MONGO_MARKINGS" => y.ismaster = x.ismaster
      PROVE  RoundInv'
  <2> HIDE DEF x
  <2>1. Round(y, d)
    BY <1>4, <1>6, <1>7, <1>8, FedRound
  <2> QED
    BY <1>5, <1>6, <1>8, <2>1, RoundKeeps
<1>9. CASE x.state \in CollinfoStates
  <2> DEFINE y == mongo_feed_collinfo(x, item)
             infos == [ns \in {<<x.sb.db, item.name>>} |-> item]
  <2>1. /\ ctx' = [ctx EXCEPT ![c] = y] /\ crypt' = [crypt EXCEPT !.colls = CacheInfos(infos)]
        /\ x.state # "NEED_MONGO_MARKINGS"
    BY <1>1, <1>3, <1>9 DEF CollinfoStates
  <2>2. FiniteInfo(item) /\ Enc(x)
    BY <1>7, <1>9, InMongoEnc DEF ReplyOK
  <2>3. \A ns \in DOMAIN infos : FiniteInfo(infos[ns])
    BY <2>2
  <2> HIDE DEF infos
  <2>4. CryptOK'
    BY <1>2, <1>3, <2>1, <2>3, CryptInfos
  <2>5. y = mongo_feed_collinfo(x, item)
    OBVIOUS
  <2> HIDE DEF y, x
  <2>6. Stopped(y) \/ (Enc(y) /\ y.state = x.state)
    BY <1>9, <2>2, <2>5, CollinfoFed
  <2>7. Stopped(y) \/ (InMongo(y) /\ y.state = x.state)
    BY <1>9, <2>6, EncInMongo
  <2> QED
    BY <1>8, <2>1, <2>4, <2>7
<1>10. CASE x.state = "NEED_MONGO_MARKINGS"
  <2> DEFINE y == mongo_feed_markings(crypt, x, item)
  <2>1. ctx' = [ctx EXCEPT ![c] = y] /\ crypt' = crypt
    BY <1>1, <1>3, <1>10 DEF CollinfoStates
  <2>2. (~ x.ismaster => IsFiniteSet(item.result.marks)) /\ Enc(x)
    BY <1>7, <1>10, InMongoEnc DEF ReplyOK
  <2>3. CryptOK'
    BY <1>2, <1>3, <2>1, CryptSame
  <2>4. y = mongo_feed_markings(crypt, x, item)
    OBVIOUS
  <2> HIDE DEF y, x
  <2>5. Enc(y) /\ y.state \in {x.state, "ERROR"} /\ y.ismaster = x.ismaster
    BY <2>2, <2>4, MarkingsFed
  <2>6. Stopped(y) \/ (InMongo(y) /\ y.state = x.state)
    BY <1>10, <2>5, EncInMongo DEF Stopped
  <2> QED
    BY <1>8, <2>1, <2>3, <2>5, <2>6
<1>11. CASE x.state = "NEED_MONGO_KEYS"
  <2> DEFINE y == mongo_feed_keys(crypt, x, item, TRUE)
             keys == CacheKeys(NewKeys(x.kb, y.kb))
  <2>1. ctx' = [ctx EXCEPT ![c] = y] /\ crypt' = [crypt EXCEPT !.keys = keys]
    BY <1>1, <1>11 DEF CollinfoStates
  <2> HIDE DEF keys
  <2>2. CryptOK'
    BY <1>2, <1>3, <2>1, CryptKeys
  <2>3. y = mongo_feed_keys(crypt, x, item, TRUE)
    OBVIOUS
  <2> HIDE DEF y, x
  <2>4. Stopped(y) \/ (InMongo(y) /\ y.state = x.state)
    BY <1>7, <1>11, <2>3, KeyFed
  <2> QED
    BY <1>8, <1>11, <2>1, <2>2, <2>4
<1> QED
  BY <1>4, <1>9, <1>10, <1>11 DEF MongoStates, CollinfoStates

\* mongocrypt_ctx_mongo_done
LEMMA MongoDoneRound ==
    ASSUME RoundInv, NEW c \in Ctxs, MongoDone(c)
    PROVE  RoundInv'
<1> DEFINE x == ctx[c]
           y == CASE x.state \in CollinfoStates -> mongo_done_collinfo(crypt, x)
                  [] x.state = "NEED_MONGO_MARKINGS" -> mongo_done_markings(crypt, x)
                  [] x.state = "NEED_MONGO_KEYS" -> mongo_done_keys(crypt, x)
           infos == EmptyInfos(x.sb)
<1>1. /\ In(c, MongoStates) /\ Moves(c, y) /\ jobs' = jobs
      /\ crypt' = crypt \/ crypt' = [crypt EXCEPT !.colls = CacheInfos(infos)]
  BY DEF MongoDone
<1>2. \A ns \in DOMAIN infos : FiniteInfo(infos[ns])
  BY DEF EmptyInfos, EmptyInfo, FiniteInfo, FiniteSchema
<1> HIDE DEF infos
<1>3. CryptOK /\ CryptOK' /\ Finite(crypt)
  BY <1>1, <1>2, CryptSame, CryptInfos, CryptFinite DEF RoundInv
<1>4. /\ Core(x, drv[c].held) /\ Control(x) /\ x.state \in MongoStates /\ drv[c].held = {}
      /\ ~ x.abort
  BY <1>1, RoundCalled DEF MongoStates
<1>5. \/ x.state \in CollinfoStates /\ y = mongo_done_collinfo(crypt, x)
      \/ x.state = "NEED_MONGO_MARKINGS" /\ y = mongo_done_markings(crypt, x)
      \/ x.state = "NEED_MONGO_KEYS" /\ y = mongo_done_keys(crypt, x)
  BY <1>4 DEF MongoStates, CollinfoStates
<1> HIDE DEF x, y
<1>6. InMongo(x)
  BY <1>4, MongoPlain
<1>7. CASE x.state \in CollinfoStates /\ y = mongo_done_collinfo(crypt, x)
  BY <1>1, <1>3, <1>6, <1>7, InMongoEnc, CollinfoDone, SettledMoves
<1>8. CASE x.state = "NEED_MONGO_MARKINGS" /\ y = mongo_done_markings(crypt, x)
  BY <1>1, <1>3, <1>4, <1>6, <1>8, InMongoEnc, MarkingsDone, SettledMoves
<1>9. CASE x.state = "NEED_MONGO_KEYS" /\ y = mongo_done_keys(crypt, x)
  <2>1. Plain(x) /\ x.kind \in Kinds
    BY <1>6 DEF InMongo, Plain, Core
  <2>2. \/ Enc(x) /\ y = encrypt_mongo_done_keys(crypt, x)
        \/ Dec(x) /\ y = decrypt_mongo_done_keys(crypt, x)
        \/ x.kind = "rewrap" /\ y = rewrap_mongo_done_keys(crypt, x)
    BY <1>9, <2>1 DEF mongo_done_keys, Kinds, Enc, Dec
  <2>3. Settled(y)
    BY <2>1, <2>2, EncDocs, DecDocs, RewrapDocs
  <2> QED
    BY <1>1, <1>3, <2>3, SettledMoves
<1> QED
  BY <1>5, <1>7, <1>8, <1>9

\* mongocrypt_ctx_provide_kms_providers
LEMMA ProvideRound ==
    ASSUME RoundInv, NEW c \in Ctxs, ProvideKmsProviders(c)
    PROVE  RoundInv'
<1> DEFINE x == ctx[c]
           z == ProvideState(x)
           y == IF z.kind = "rewrap" THEN kms_start_decrypt(crypt, z) ELSE z
<1>1. In(c, {"NEED_KMS_CREDENTIALS"}) /\ Moves(c, y) /\ jobs' = jobs /\ crypt' = crypt
  BY DEF ProvideKmsProviders
<1>2. CryptOK'
  BY <1>1, CryptSame DEF RoundInv
<1>3. /\ Core(x, drv[c].held) /\ Control(x) /\ x.state \in {"NEED_KMS_CREDENTIALS"}
      /\ x.state # "NEED_KMS" => drv[c].held = {}
  BY <1>1, RoundCalled
<1>4. z = ProvideState(x)
  OBVIOUS
<1> HIDE DEF x, z
<1>5. Settled(y)
  <2>1. Core(x, {}) /\ x.state = "NEED_KMS_CREDENTIALS"
    BY <1>3
  <2> QED
    BY <1>3, <1>4, <2>1, Provided
<1> HIDE DEF y
<1> QED
  BY <1>1, <1>2, <1>5, SettledMoves

\* A context that waits for its KMS requests, after a call that leaves it there
LEMMA WaitsOn ==
    ASSUME NEW x, NEW h, Core(x, h), Control(x), x.state = "NEED_KMS",
           NEW y, Shape(y), \A n \in CtxNames \ {"kb", "datakeys", "iter"} : y[n] = x[n],
           NEW k, BrokerOut(y.kb, k), y.kb.state = x.kb.state,
           Listed(y.datakeys), \A i \in DOMAIN y.datakeys : SubOK(y.datakeys[i]),
           x.datakeys = <<>> => y.datakeys = <<>>
    PROVE  /\ Core(y, k) /\ Control(y) /\ y.state = "NEED_KMS" /\ y.encrypting = x.encrypting
           /\ \A item : ReplyOK(y, item)
<1>1. /\ y.state = "NEED_KMS" /\ y.encrypting = x.encrypting /\ y.kind = x.kind /\ y.cmd = x.cmd
      /\ y.sb = x.sb /\ y.doc = x.doc
  BY DEF CtxNames
<1>2. Core(y, k)
  BY <1>1 DEF Core
<1>3. Control(y)
  BY <1>1 DEF Control, CollinfoStates
<1>4. \A item : ReplyOK(y, item)
  BY <1>1 DEF ReplyOK, CollinfoStates
<1> QED
  BY <1>1, <1>2, <1>3, <1>4

\* _mongocrypt_key_broker_next_kms
LEMMA BrokerHands ==
    ASSUME NEW x, NEW h, Core(x, h), Control(x), x.state = "NEED_KMS", ~ x.encrypting,
           NEW y, y = [x EXCEPT !.kb = NextKms(x.kb)],
           NEW refs, refs = NextRef(x)
    PROVE  /\ Core(y, h \cup refs) /\ Control(y) /\ y.state = "NEED_KMS" /\ ~ y.encrypting
           /\ \A item : ReplyOK(y, item)
           /\ refs = {} => NextRef(y) = {}
<1> DEFINE b == x.kb
           kb == NextKms(b)
           z == [x EXCEPT !.kb = kb]
<1>1. /\ Shape(x) /\ BrokerOut(b, h) /\ DOMAIN b = KbNames
      /\ b.state \in {"AUTHENTICATING", "DECRYPTING_KEY_MATERIAL"}
      /\ Listed(x.datakeys) /\ \A i \in DOMAIN x.datakeys : SubOK(x.datakeys[i])
  BY DEF Core, Shape, Control
<1>2. y = z /\ z = [x EXCEPT !.kb = kb] /\ refs = NextKmsRef(b)
  BY DEF NextRef
<1>3. kb = NextKms(b)
  OBVIOUS
<1> HIDE DEF b, kb, z
<1>4. /\ kb.state = b.state /\ BrokerOut(kb, h \cup NextKmsRef(b))
      /\ NextKmsRef(b) = {} => NextKmsRef(kb) = {}
  BY <1>1, <1>3, OutNextAuth, OutNextKey
<1>5. DOMAIN kb = KbNames
  BY <1>1, <1>3, NextKmsKeeps
<1>6. Shape(z) /\ z.kb = kb /\ \A n \in CtxNames \ {"kb"} : z[n] = x[n]
  BY <1>1, <1>2, <1>5, BrokerShape
<1>7. z.encrypting = x.encrypting /\ z.datakeys = x.datakeys
  BY <1>6 DEF CtxNames
<1>8. BrokerOut(z.kb, h \cup refs) /\ z.kb.state = x.kb.state
  BY <1>2, <1>4, <1>6 DEF b
<1> DEFINE k == h \cup refs
<1> HIDE DEF k
<1>9. BrokerOut(z.kb, k)
  BY <1>8 DEF k
<1>10. /\ Core(z, k) /\ Control(z) /\ z.state = "NEED_KMS" /\ z.encrypting = x.encrypting
       /\ \A item : ReplyOK(z, item)
  BY <1>1, <1>6, <1>7, <1>8, <1>9, WaitsOn
<1>11. refs = {} => NextRef(z) = {}
  BY <1>2, <1>4, <1>6, <1>7 DEF NextRef
<1> QED
  BY <1>2, <1>10, <1>11 DEF k

\* _next_kms_ctx_encrypt
LEMMA SubHands ==
    ASSUME NEW x, NEW h, Core(x, h), Control(x), x.state = "NEED_KMS", x.encrypting, SubsOut(x, h),
           NEW y, y = next_kms_ctx_encrypt(x),
           NEW refs, refs = NextRef(x)
    PROVE  /\ Core(y, h \cup refs) /\ Control(y) /\ y.state = "NEED_KMS" /\ y.encrypting
           /\ \A item : ReplyOK(y, item)
           /\ SubsOut(y, h \cup refs)
           /\ refs = {} => NextRef(y) = {}
<1>1. /\ Shape(x) /\ BrokerOut(x.kb, h) /\ Listed(x.datakeys)
      /\ \A i \in DOMAIN x.datakeys : SubOK(x.datakeys[i])
  BY DEF Core
<1>2. /\ Shape(y) /\ \A n \in CtxNames \ {"datakeys", "iter"} : y[n] = x[n]
      /\ Listed(y.datakeys) /\ \A i \in DOMAIN y.datakeys : SubOK(y.datakeys[i])
      /\ SubsOut(y, h \cup NextRef(x))
      /\ NextRef(x) = {} => y = x
  BY <1>1, OutNextSub
<1>3. y.kb = x.kb
  BY <1>2 DEF CtxNames
<1> DEFINE k == h \cup refs
<1>4. BrokerOut(y.kb, k)
  BY <1>1, <1>3, OutHeld
<1>5. SubsOut(y, k)
  BY <1>2
<1> HIDE DEF k
<1>6. y.datakeys = <<>> \/ x.datakeys # <<>>
  <2>1. CASE x.datakeys = <<>>
    <3>1. DOMAIN x.datakeys = {}
      BY <2>1
    <3>2. NextRef(x) = {}
      BY <3>1 DEF NextRef, SubKmsRef, ToRetry
    <3> QED
      BY <1>2, <2>1, <3>2
  <2> QED
    BY <2>1
<1>7. /\ Core(y, k) /\ Control(y) /\ y.state = "NEED_KMS" /\ y.encrypting = x.encrypting
      /\ \A item : ReplyOK(y, item)
  BY <1>1, <1>2, <1>3, <1>4, <1>6, WaitsOn
<1> QED
  BY <1>2, <1>5, <1>7 DEF k

\* mongocrypt_ctx_next_kms_ctx
LEMMA NextKmsRound ==
    ASSUME RoundInv, NEW c \in Ctxs, GetNextKms(c)
    PROVE  RoundInv'
<1> DEFINE x == ctx[c]
           y == IF x.encrypting THEN next_kms_ctx_encrypt(x) ELSE [x EXCEPT !.kb = NextKms(@)]
           refs == NextRef(x)
           d == [drv[c] EXCEPT !.held = @ \cup refs, !.drained = (refs = {})]
           h == drv[c].held
<1>1. /\ In(c, {"NEED_KMS"}) /\ jobs' = jobs /\ crypt' = crypt /\ ctx' = [ctx EXCEPT ![c] = y]
      /\ drv' = [drv EXCEPT ![c].held = @ \cup refs, ![c].drained = (refs = {})]
  BY DEF GetNextKms
<1>2. CryptOK' /\ DOMAIN drv = Ctxs
  BY <1>1, CryptSame DEF RoundInv
<1>3. refs = NextRef(x)
  OBVIOUS
<1> HIDE DEF refs
<1>4. drv' = [drv EXCEPT ![c] = d]
  BY <1>1, <1>2
<1>5. /\ Core(x, h) /\ Control(x) /\ x.state \in {"NEED_KMS"}
      /\ x.state = "NEED_KMS" /\ x.encrypting => SubsOut(x, h)
      /\ DOMAIN drv[c] = DrvNames
  BY <1>1, RoundCalled
<1>6. DOMAIN d = DrvNames /\ d.held = h \cup refs /\ (d.drained <=> refs = {})
  BY <1>5 DEF DrvNames
<1> HIDE DEF d, h
<1>7. /\ Core(y, h \cup refs) /\ Control(y) /\ y.state = "NEED_KMS"
      /\ \A item : ReplyOK(y, item)
      /\ y.encrypting => SubsOut(y, h \cup refs)
      /\ refs = {} => NextRef(y) = {}
  <2> HIDE DEF x
  <2>1. x.state = "NEED_KMS"
    BY <1>5
  <2>2. CASE x.encrypting
    <3>1. y = next_kms_ctx_encrypt(x) /\ SubsOut(x, h)
      BY <1>5, <2>1, <2>2
    <3> HIDE DEF y
    <3> QED
      BY <1>3, <1>5, <2>1, <2>2, <3>1, SubHands
  <2>3. CASE ~ x.encrypting
    <3>1. y = [x EXCEPT !.kb = NextKms(x.kb)]
      BY <2>3
    <3> HIDE DEF y
    <3> QED
      BY <1>3, <1>5, <2>1, <2>3, <3>1, BrokerHands
  <2> QED
    BY <2>2, <2>3
<1> HIDE DEF y, x
<1>8. Round(y, d)
  BY <1>6, <1>7 DEF Round
<1> QED
  BY <1>1, <1>2, <1>4, <1>6, <1>8, RoundKeeps

\* A KMS request is fed to its end.
LEMMA CompleteRound ==
    ASSUME DecryptInv, RoundInv, NEW c \in Ctxs, Complete(c)
    PROVE  RoundInv'
<1> DEFINE x == ctx[c]
           h == drv[c].held
<1>1. In(c, {"NEED_KMS"}) /\ jobs' = jobs /\ crypt' = crypt
  BY DEF Complete
<1>2. PICK ref \in h : \E kms \in KmsEnds(RequestOf(x, ref), Retryable(x, ref)) :
        /\ ctx' = [ctx EXCEPT ![c] = WithRequest(@, ref, kms)]
        /\ drv' = [drv EXCEPT ![c].held = @ \ {ref}, ![c].drained = FALSE]
  BY DEF Complete
<1> DEFINE r == Retryable(x, ref)
<1>3. PICK kms \in KmsEnds(RequestOf(x, ref), r) :
        /\ ctx' = [ctx EXCEPT ![c] = WithRequest(@, ref, kms)]
        /\ drv' = [drv EXCEPT ![c].held = @ \ {ref}, ![c].drained = FALSE]
  BY <1>2
<1> HIDE DEF r
<1> DEFINE y == WithRequest(x, ref, kms)
           d == [drv[c] EXCEPT !.held = @ \ {ref}, !.drained = FALSE]
<1>4. CryptOK' /\ DOMAIN drv = Ctxs /\ DOMAIN ctx = Ctxs
  BY <1>1, CryptSame DEF RoundInv
<1>5. ctx' = [ctx EXCEPT ![c] = y] /\ drv' = [drv EXCEPT ![c] = d]
  BY <1>3, <1>4
<1>6. /\ Core(x, h) /\ Control(x) /\ x.state \in {"NEED_KMS"}
      /\ x.state = "NEED_KMS" /\ x.encrypting => SubsOut(x, h)
      /\ DOMAIN drv[c] = DrvNames
  BY <1>1, RoundCalled
<1>7. ref[1] \in RefKinds
  BY DEF DecryptInv, DriverOK
<1>8. DOMAIN d = DrvNames /\ d.held = h \ {ref} /\ d.drained = FALSE
  BY <1>6 DEF DrvNames
<1>9. y = WithRequest(x, ref, kms) /\ kms \in KmsEnds(RequestOf(x, ref), r)
  BY <1>3
<1> HIDE DEF d, h, y, x
<1>10. /\ Shape(x) /\ BrokerOut(x.kb, h) /\ Listed(x.datakeys)
       /\ \A i \in DOMAIN x.datakeys : SubOK(x.datakeys[i])
  BY <1>6 DEF Core
<1>11a. RequestEnded(x, h, ref, y)
  BY <1>7, <1>9, <1>10, OutCompleted
<1>11. /\ Shape(y) /\ \A n \in CtxNames \ {"kb", "datakeys"} : y[n] = x[n]
       /\ BrokerOut(y.kb, h \ {ref}) /\ y.kb.state = x.kb.state
       /\ Listed(y.datakeys) /\ \A i \in DOMAIN y.datakeys : SubOK(y.datakeys[i])
       /\ SubsOut(x, h) => SubsOut(y, h \ {ref})
       /\ x.datakeys = <<>> => y.datakeys = <<>>
  BY <1>11a DEF RequestEnded
<1> DEFINE k == h \ {ref}
<1>12. BrokerOut(y.kb, k) /\ (SubsOut(x, h) => SubsOut(y, k)) /\ d.held = k
  BY <1>8, <1>11
<1> HIDE DEF k
<1>13. /\ Core(y, k) /\ Control(y) /\ y.state = "NEED_KMS" /\ y.encrypting = x.encrypting
       /\ \A item : ReplyOK(y, item)
  BY <1>6, <1>11, <1>12, WaitsOn
<1>14. Round(y, d)
  BY <1>6, <1>8, <1>12, <1>13 DEF Round
<1> QED
  BY <1>4, <1>5, <1>8, <1>14, RoundKeeps

\* mongocrypt_ctx_kms_done
LEMMA KmsDoneRound ==
    ASSUME RoundInv, NEW c \in Ctxs, KmsDone(c)
    PROVE  RoundInv'
<1> DEFINE x == ctx[c]
           tokens == crypt.tokens \cup TokensGot(x)
           keys == CacheKeys(KeysGot(x))
           g == [crypt EXCEPT !.tokens = tokens]
           y == kms_done(g, x)
<1>1. /\ In(c, {"NEED_KMS"}) /\ Moves(c, y) /\ jobs' = jobs /\ drv[c].held = {}
      /\ crypt' = [crypt EXCEPT !.tokens = tokens, !.keys = keys]
  BY DEF KmsDone
<1> HIDE DEF tokens, keys
<1>2. CryptOK'
  <2>1. CryptOK /\ jobs' = jobs
    BY <1>1 DEF RoundInv
  <2>2. /\ DOMAIN crypt' = DOMAIN crypt /\ crypt'.efcMap = crypt.efcMap
        /\ crypt'.schemaMap = crypt.schemaMap /\ crypt'.colls = crypt.colls
    BY <1>1, <2>1 DEF CryptOK
  <2> QED
    BY <2>1, <2>2, CryptKept DEF CryptOK
<1>3. /\ Core(x, drv[c].held) /\ Control(x) /\ x.state \in {"NEED_KMS"}
  BY <1>1, RoundCalled
<1>4. y = kms_done(g, x)
  OBVIOUS
<1> HIDE DEF x, y, g
<1>5. Core(x, {}) /\ x.state = "NEED_KMS" /\ x.kind \in Kinds
  BY <1>1, <1>3 DEF Core
<1>6. CASE x.kind = "rewrap"
  <2>1. y = rewrap_kms_done(g, x)
    BY <1>4, <1>6 DEF kms_done
  <2> QED
    BY <1>1, <1>2, <1>3, <1>5, <1>6, <2>1, RewrapDone, SettledMoves
<1>7. CASE x.kind \in {"encrypt", "decrypt"}
  <2>1. /\ Plain(x)
        /\ x.kb.state \in {"AUTHENTICATING", "DECRYPTING_KEY_MATERIAL"}
    BY <1>3, <1>5, <1>7 DEF Control, Plain
  <2>2. \/ Enc(x) /\ y = encrypt_kms_done(g, x)
        \/ Dec(x) /\ y = decrypt_kms_done(g, x)
    BY <1>4, <1>7, <2>1 DEF kms_done, Enc, Dec
  <2>3. Settled(y)
    BY <2>1, <2>2, EncKmsDone, DecKmsDone
  <2> QED
    BY <1>1, <1>2, <2>3, SettledMoves
<1> QED
  BY <1>5, <1>6, <1>7 DEF Kinds

\* mongocrypt_ctx_finalize
LEMMA FinalizeRound ==
    ASSUME RoundInv, NEW c \in Ctxs, Finalize(c)
    PROVE  RoundInv'
<1> DEFINE x == ctx[c]
           y == CASE x.kind = "encrypt" -> encrypt_finalize(x)
                  [] x.kind = "decrypt" -> decrypt_finalize(x)
                  [] x.kind = "rewrap" -> rewrap_finalize(x)
<1>1. In(c, {"READY"}) /\ Moves(c, y) /\ jobs' = jobs /\ crypt' = crypt
  BY DEF Finalize
<1>2. CryptOK'
  BY <1>1, CryptSame DEF RoundInv
<1>3. Core(x, drv[c].held)
  BY <1>1, RoundCalled
<1> HIDE DEF x
<1>4. Shape(x) /\ x.kind \in Kinds
  BY <1>3 DEF Core
<1>5. y \in {encrypt_finalize(x), decrypt_finalize(x), rewrap_finalize(x)}
  BY <1>4 DEF Kinds
<1> HIDE DEF y
<1>6. Settled(y)
  BY <1>4, <1>5, Finalized DEF Settled
<1> QED
  BY <1>1, <1>2, <1>6, SettledMoves

\* The faults of drivers and of what they talk to
LEMMA FaultRound ==
    ASSUME RoundInv, NEW c \in Ctxs, FeedMalformed(c) \/ KeyMissing(c) \/ CallInWrongState(c)
    PROVE  RoundInv'
<1> DEFINE x == ctx[c]
<1>1. jobs' = jobs /\ crypt' = crypt
  BY DEF FeedMalformed, KeyMissing, CallInWrongState
<1>2. CryptOK'
  BY <1>1, CryptSame DEF RoundInv
<1>3. CASE FeedMalformed(c) \/ CallInWrongState(c)
  <2>1. In(c, CtxStates \ {"ERROR"}) /\ Moves(c, CtxFail(x))
    BY <1>3 DEF FeedMalformed, CallInWrongState, In, CtxStates, MongoStates
  <2>2. Ends(x) \/ Core(x, drv[c].held)
    BY <2>1 DEF RoundInv, In, Round
  <2>3. DOMAIN x = CtxNames
    BY <2>1, <2>2 DEF In, Ends, Stopped, Core, Shape
  <2> DEFINE y == CtxFail(x)
  <2>4. y.state = "ERROR"
    BY <2>3 DEF CtxFail, CtxNames
  <2> HIDE DEF x, y
  <2>5. Settled(y)
    BY <2>4 DEF Settled, Ends, Stopped
  <2> QED
    BY <1>2, <2>1, <2>5, SettledMoves DEF y
<1>4. CASE KeyMissing(c)
  <2>1. PICK doc \in drv[c].batch : drv' = [drv EXCEPT ![c].batch = @ \ {doc}]
    BY <1>4 DEF KeyMissing
  <2> DEFINE d == [drv[c] EXCEPT !.batch = @ \ {doc}]
  <2>2. In(c, {"NEED_MONGO_KEYS"}) /\ ctx' = ctx
    BY <1>4 DEF KeyMissing
  <2>3. DOMAIN drv = Ctxs /\ DOMAIN ctx = Ctxs
    BY DEF RoundInv
  <2>4. drv' = [drv EXCEPT ![c] = d]
    BY <2>1, <2>3
  <2>5. /\ Core(x, drv[c].held) /\ Control(x) /\ x.state \in {"NEED_MONGO_KEYS"}
        /\ x.state # "NEED_KMS" => drv[c].held = {}
        /\ DOMAIN drv[c] = DrvNames
    BY <2>2, RoundCalled
  <2>6. DOMAIN d = DrvNames /\ d.held = {}
    BY <2>5 DEF DrvNames
  <2>7. \A item : ReplyOK(x, item)
    BY <2>5 DEF ReplyOK, CollinfoStates
  <2> HIDE DEF d
  <2>8. DOMAIN drv' = Ctxs /\ drv'[c] = d /\ \A e \in Ctxs \ {c} : drv'[e] = drv[e]
    BY <2>3, <2>4
  <2>9. Round(x, d)
    BY <2>5, <2>6, <2>7 DEF Round
  <2>10. (\A e \in Ctxs : drv[e].started => Round(ctx[e], drv[e]))'
    <3>1. \A e \in Ctxs : drv'[e].started => Round(ctx[e], drv'[e])
      BY <2>8, <2>9 DEF RoundInv
    <3> QED
      BY <2>2, <3>1 DEF Round
  <2>11. (\A e \in Ctxs : DOMAIN drv[e] = DrvNames)'
    BY <2>6, <2>8 DEF RoundInv
  <2> QED
    BY <1>2, <2>2, <2>3, <2>8, <2>10, <2>11 DEF RoundInv
<1> QED
  BY <1>3, <1>4

-----------------------------------------------------------------------------
(***************************************************************************)
(* RoundInv holds from the start, every step keeps it, and it is enough.   *)
(***************************************************************************)
\* The entries of a cache reach their age.
LEMMA ExpireRound ==
    ASSUME RoundInv, Expire
    PROVE  RoundInv'
<1>1. jobs' = jobs /\ ctx' = ctx /\ drv' = drv /\ CryptOK
  BY DEF Expire, RoundInv
<1>2. \/ crypt' = [crypt EXCEPT !.keys = {}] \/ crypt' = [crypt EXCEPT !.colls = <<>>]
      \/ crypt' = [crypt EXCEPT !.tokens = {}]
  BY DEF Expire
<1>3. /\ DOMAIN crypt' = DOMAIN crypt /\ crypt'.efcMap = crypt.efcMap
      /\ crypt'.schemaMap = crypt.schemaMap /\ crypt'.colls \in {crypt.colls, <<>>}
  BY <1>1, <1>2 DEF CryptOK
<1>4. \A ns \in DOMAIN crypt'.colls : FiniteInfo(crypt'.colls[ns])
  <2>1. CASE crypt'.colls = crypt.colls
    BY <1>1, <2>1 DEF CryptOK
  <2>2. CASE crypt'.colls = <<>>
    <3>1. DOMAIN crypt'.colls = {}
      BY <2>2
    <3> QED
      BY <3>1
  <2> QED
    BY <1>3, <2>1, <2>2
<1>5. CryptOK'
  BY <1>1, <1>3, <1>4, CryptKept
<1> QED
  BY <1>1, <1>5 DEF RoundInv, Round

\* Every step keeps RoundInv.
LEMMA RoundStep ==
    ASSUME DecryptInv, RoundInv, [Next]_vars
    PROVE  RoundInv'
<1>1. CASE \E c \in Ctxs : \/ Advance(c)
                          \/ FeedMalformed(c) \/ KeyMissing(c) \/ CallInWrongState(c)
  BY <1>1, StartRound, MongoOpRound, MongoFeedRound, MongoDoneRound, ProvideRound, NextKmsRound,
     CompleteRound, KmsDoneRound, FinalizeRound, FaultRound, Zenon DEF Advance
<1>2. CASE UNCHANGED vars
  <2>1. jobs' = jobs /\ ctx' = ctx /\ drv' = drv /\ crypt' = crypt
    BY <1>2 DEF vars
  <2>2. CryptOK'
    BY <2>1, CryptSame DEF RoundInv
  <2> QED
    BY <2>1, <2>2 DEF RoundInv, Round
<1> QED
  BY <1>1, <1>2, ExpireRound DEF Next

\* No context has been started.
LEMMA RoundStarts ==
    ASSUME Init
    PROVE  RoundInv
<1>1. /\ DOMAIN ctx = Ctxs /\ DOMAIN drv = Ctxs /\ \A c \in Ctxs : drv[c] = NewDriver
      /\ DOMAIN NewDriver = DrvNames /\ ~ NewDriver.started
  BY DEF Init, NewDriver, DrvNames
<1>2. CryptOK
  <2>1. PICK s \in Scenarios : crypt = s.crypt /\ jobs = s.jobs
    BY DEF Init
  <2>2. DOMAIN crypt.colls = {}
    BY <2>1, ContextsAssumption
  <2> QED
    BY <2>1, <2>2, ContextsAssumption DEF CryptOK
<1> QED
  BY <1>1, <1>2 DEF RoundInv

\* A driver that got no more requests of the broker, and holds none
LEMMA BrokerDrained ==
    ASSUME NEW b, BrokerOut(b, {}), NextKmsRef(b) = {}
    PROVE  IF b.state = "AUTHENTICATING"
           THEN \A i \in DOMAIN b.auth : b.auth[i].kms.st \notin {"pending", "retry"}
           ELSE \A i \in DOMAIN b.returned :
                    ~ b.returned[i].decrypted => b.returned[i].kms.st \notin {"pending", "retry"}
<1>1. CASE b.state = "AUTHENTICATING"
  <2>1. AuthToHandOut(b) = {}
    BY <1>1, NoneLeft
  <2> SUFFICES ASSUME NEW i \in DOMAIN b.auth PROVE b.auth[i].kms.st \notin {"pending", "retry"}
    BY <1>1
  <2>2. AuthOut(b, {}, i)
    BY DEF BrokerOut
  <2> QED
    BY <2>1, <2>2 DEF AuthToHandOut, AuthOut
<1>2. CASE b.state # "AUTHENTICATING"
  <2>1. KeysToRetry(b) = {} /\ KeysAhead(b) = {}
    BY <1>2, NoneLeft
  <2> SUFFICES ASSUME NEW i \in DOMAIN b.returned, ~ b.returned[i].decrypted
               PROVE  b.returned[i].kms.st \notin {"pending", "retry"}
    BY <1>2
  <2>2. KeyOut(b, {}, i)
    BY DEF BrokerOut
  <2> QED
    BY <2>1, <2>2 DEF KeysToRetry, KeysAhead, KeyOut
<1> QED
  BY <1>1, <1>2

\* ... of the sub-contexts
LEMMA SubsDrained ==
    ASSUME NEW x, Listed(x.datakeys), SubsOut(x, {}), SubKmsRef(x) = {},
           NEW i \in DOMAIN x.datakeys, NeedsKms(x, i)
    PROVE  x.datakeys[i].dk.kms.st \notin {"pending", "retry"}
<1>1. Len(x.datakeys) \in Nat /\ DOMAIN x.datakeys = 1..Len(x.datakeys)
  BY ListIs
<1>2. ToRetry(x) = {}
  BY DEF SubKmsRef
<1>3. x.iter \notin DOMAIN x.datakeys
  <2> SUFFICES ASSUME x.iter \in DOMAIN x.datakeys PROVE FALSE
    OBVIOUS
  <2>1. NeedsKms(x, x.iter) /\ SubOut(x, {}, x.iter)
    BY DEF SubsOut
  <2>2. ~ x.datakeys[x.iter].dk.returned
    BY <1>1, <2>1 DEF SubOut
  <2>3. DK!HasNextKms(x.datakeys[x.iter].dk)
    BY <2>2 DEF DK!HasNextKms
  <2>4. x.iter \in SubKmsRef(x)
    BY <1>2, <2>3 DEF SubKmsRef
  <2> QED
    BY <2>4
<1>4. ~ (i >= x.iter)
  BY <1>1, <1>3 DEF SubsOut
<1>5. SubOut(x, {}, i)
  BY DEF SubsOut
<1> QED
  BY <1>2, <1>4, <1>5 DEF SubOut, ToRetry

\* RoundInv leaves no request behind.
LEMMA RoundForgetsNone ==
    ASSUME RoundInv
    PROVE  NoKmsForgotten
<1> SUFFICES ASSUME NEW c \in Ctxs, In(c, {"NEED_KMS"}), drv[c].drained, drv[c].held = {}
             PROVE  LET x == ctx[c]
                        left == {"pending", "retry"}
                    IN  IF x.encrypting
                        THEN \A i \in DOMAIN x.datakeys :
                                NeedsKms(x, i) => x.datakeys[i].dk.kms.st \notin left
                        ELSE IF x.kb.state = "AUTHENTICATING"
                        THEN \A i \in DOMAIN x.kb.auth : x.kb.auth[i].kms.st \notin left
                        ELSE \A i \in DOMAIN x.kb.returned :
                                ~ x.kb.returned[i].decrypted => x.kb.returned[i].kms.st \notin left
  BY DEF NoKmsForgotten
<1> DEFINE x == ctx[c]
           h == drv[c].held
<1>1. /\ Core(x, h) /\ x.state \in {"NEED_KMS"} /\ h = {}
      /\ x.state = "NEED_KMS" /\ x.encrypting => SubsOut(x, h)
      /\ x.state = "NEED_KMS" /\ drv[c].drained => NextRef(x) = {}
  BY RoundCalled
<1> HIDE DEF x, h
<1>2. /\ BrokerOut(x.kb, {}) /\ Listed(x.datakeys) /\ NextRef(x) = {}
      /\ x.encrypting => SubsOut(x, {})
  BY <1>1 DEF Core
<1>3. CASE x.encrypting
  <2>1. SubKmsRef(x) = {}
    BY <1>2, <1>3 DEF NextRef
  <2> QED
    BY <1>2, <1>3, <2>1, SubsDrained DEF x
<1>4. CASE ~ x.encrypting
  <2> DEFINE b == x.kb
  <2>1. BrokerOut(b, {}) /\ NextKmsRef(b) = {}
    BY <1>2, <1>4 DEF NextRef
  <2> HIDE DEF b
  <2>2. IF b.state = "AUTHENTICATING"
        THEN \A i \in DOMAIN b.auth : b.auth[i].kms.st \notin {"pending", "retry"}
        ELSE \A i \in DOMAIN b.returned :
                 ~ b.returned[i].decrypted => b.returned[i].kms.st \notin {"pending", "retry"}
    BY <2>1, BrokerDrained
  <2> QED
    BY <1>4, <2>2 DEF x, b
<1> QED
  BY <1>3, <1>4

(***************************************************************************)
(* No request to KMS is forgotten, for every set of contexts, of jobs and  *)
(* of key documents, and in whatever order the contexts are called: a      *)
(* driver that mongocrypt_ctx_next_kms_ctx gave no more requests, and that *)
(* has fed all it got, left none of them pending or to be retried          *)
(* (mongocrypt-key-broker.c: _mongocrypt_key_broker_next_kms, whose        *)
(* iterator an AUTHENTICATING broker does not move;                        *)
(* mongocrypt-ctx-rewrap-many-datakey.c: _next_kms_ctx_encrypt).           *)
(***************************************************************************)
THEOREM KmsNeverForgotten == Spec => []NoKmsForgotten
<1>1. Init => DecryptInv /\ RoundInv
  BY DecryptStarts, RoundStarts
<1>2. DecryptInv /\ RoundInv /\ [Next]_vars => (DecryptInv /\ RoundInv)'
  BY DecryptStep, RoundStep
<1>3. DecryptInv /\ RoundInv => NoKmsForgotten
  BY RoundForgetsNone
<1> QED
  BY <1>1, <1>2, <1>3, PTL DEF Spec
=============================================================================
