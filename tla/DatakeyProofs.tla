--------------------------- MODULE DatakeyProofs ---------------------------
(***************************************************************************)
(* Proofs about DatakeyCtx for every set of contexts and of providers, for *)
(* any bound on the clock and on retries, and for a driver that drains     *)
(* next_kms_ctx as well as for one that does not.                          *)
(*                                                                         *)
(* The argument is local to a context and its driver: Sound(d) relates the *)
(* request of the moment, the results taken so far and the requests handed *)
(* out; DriverSound adds what the driver knows.  There is one lemma per    *)
(* operator of DatakeyCtx.                                                 *)
(***************************************************************************)
EXTENDS DatakeyCtx, SequenceTheorems, TLAPS

-----------------------------------------------------------------------------
(***************************************************************************)
(* The flow of a KMIP context, by how many of its requests are done.       *)
(***************************************************************************)
\* The result of the last request of the flow is there.
LastDone(d) == IF d.opts.delegated THEN d.material ELSE d.secretdata

\* The number of requests whose result was taken
FlowDone(d) ==
    IF d.opts.keyId THEN IF LastDone(d) THEN 1 ELSE 0
    ELSE IF LastDone(d) THEN 3 ELSE IF d.activated THEN 2 ELSE IF d.uid THEN 1 ELSE 0

FlowLen(o) == IF o.keyId THEN 1 ELSE 3

FirstType(o) == IF o.delegated THEN "CREATE" ELSE "REGISTER"
LastType(o) == IF o.delegated THEN "ENCRYPT" ELSE "GET"

\* The first n requests of the flow
FlowUpTo(o, n) ==
    IF n = 0 THEN <<>>
    ELSE IF o.keyId THEN <<LastType(o)>>
    ELSE IF n = 1 THEN <<FirstType(o)>>
    ELSE IF n = 2 THEN <<FirstType(o), "ACTIVATE">>
    ELSE <<FirstType(o), "ACTIVATE", LastType(o)>>

\* The request that follows n others
FlowNext(o, n) ==
    IF o.keyId \/ n = 2 THEN LastType(o) ELSE IF n = 0 THEN FirstType(o) ELSE "ACTIVATE"

-----------------------------------------------------------------------------
(***************************************************************************)
(* The inductive invariant of one context.                                 *)
(***************************************************************************)
Waiting(d) == d.pc = "idle" /\ d.state = "NEED_KMS"
Finished(d) == d.initialized /\ d.pc = "idle" /\ d.state \in {"READY", "DONE"}

\* A context is new, or initialised, and has its key when it is finished.
LifeSound(d) ==
    /\ ~ d.initialized => d = NewCtx
    /\ Finished(d) => d.material

\* Only KMIP contexts go through a flow.
OtherSound(d) ==
    d.opts.provider # "kmip" => d.flow = <<>> /\ d.type \notin KmipTypes

\* What a KMIP context has handed out agrees with what it has got back.
KmipSound(d) ==
    d.opts.provider = "kmip" =>
        /\ d.type \in {"NONE"} \cup KmipTypes
        /\ LastDone(d) => d.activated
        /\ d.activated => d.uid
        /\ d.opts.keyId /\ d.uid => d.activated
        /\ \E n \in 0..FlowLen(d.opts) : d.flow = FlowUpTo(d.opts, n)
        /\ d.pc = "start" \/ d.state = "NEED_KMS_CREDENTIALS" =>
                d.flow = FlowUpTo(d.opts, FlowDone(d))
        /\ Waiting(d) =>
                /\ d.opts.keyId => d.activated
                /\ FlowDone(d) < FlowLen(d.opts)
                /\ d.type = FlowNext(d.opts, FlowDone(d))
                /\ d.flow = FlowUpTo(d.opts, IF d.returned THEN FlowDone(d) + 1 ELSE FlowDone(d))
        /\ Finished(d) => d.flow = FlowUpTo(d.opts, FlowLen(d.opts)) /\ d.masterKey

\* In NEED_KMS there is a request; one that has got anywhere was handed out.
RequestSound(d) ==
    Waiting(d) =>
        /\ d.kms.st # "unset" /\ d.type # "NONE"
        /\ d.type \in KmipTypes => d.kms.st # "retry"
        /\ d.kms.st # "pending" => d.returned

Sound(d) ==
    d \in Ctx /\ LifeSound(d) /\ OtherSound(d) /\ KmipSound(d) /\ RequestSound(d)

\* The driver works on requests handed out ("h"), has everything that is handed
\* out once it has drained the context ("r"), and no request is out of its hands.
DriverSound(d, h, r) ==
    /\ h \/ r => d.pc = "idle" /\ d.state \in {"NEED_KMS", "ERROR"}
    /\ Waiting(d) =>
        /\ h => d.returned
        /\ r => d.returned /\ d.kms.st # "retry"
        /\ d.returned /\ d.kms.st = "pending" => h

Inv ==
    /\ TypeOK
    /\ \A c \in Ctxs : Sound(dk[c]) /\ DriverSound(dk[c], held[c], drained[c])

-----------------------------------------------------------------------------
\* The beginnings of the two flows and what follows each.
LEMMA FlowValues ==
    ASSUME NEW o
    PROVE  /\ FlowUpTo(o, 0) = <<>>
           /\ o.keyId => /\ FlowUpTo(o, 1) = <<LastType(o)>>
                         /\ FlowNext(o, 0) = LastType(o)
           /\ ~ o.keyId => /\ FlowUpTo(o, 1) = <<FirstType(o)>>
                           /\ FlowUpTo(o, 2) = <<FirstType(o), "ACTIVATE">>
                           /\ FlowUpTo(o, 3) = <<FirstType(o), "ACTIVATE", LastType(o)>>
                           /\ FlowNext(o, 0) = FirstType(o)
                           /\ FlowNext(o, 1) = "ACTIVATE"
                           /\ FlowNext(o, 2) = LastType(o)
<1>1. 1 # 0 /\ 2 # 0 /\ 3 # 0 /\ 2 # 1 /\ 3 # 1 /\ 3 # 2
  OBVIOUS
<1> QED BY ONLY <1>1, Zenon DEF FlowUpTo, FlowNext

\* FlowUpTo gives the beginnings of the flow in the comments of the code.
LEMMA FlowPrefix ==
    ASSUME NEW o \in Opts, NEW n \in 0..FlowLen(o)
    PROVE  /\ n <= Len(KmipFlow(o))
           /\ Len(FlowUpTo(o, n)) = n
           /\ FlowUpTo(o, n) = SubSeq(KmipFlow(o), 1, n)
           /\ FlowUpTo(o, FlowLen(o)) = KmipFlow(o)
<1> DEFINE s == FlowUpTo(o, n)
           p == KmipFlow(o)
           first == FirstType(o)
           last == LastType(o)
<1>0. o.keyId \in BOOLEAN
  BY DEF Opts
<1>1. first \in KmipTypes /\ last \in KmipTypes /\ "ACTIVATE" \in KmipTypes
  BY DEF FirstType, LastType, KmipTypes
<1>2. p = IF o.keyId THEN <<last>> ELSE <<first, "ACTIVATE", last>>
  BY DEF KmipFlow, FirstType, LastType
<1> HIDE DEF p
<1>3. FlowUpTo(o, FlowLen(o)) = p
  BY <1>0, <1>2, FlowValues DEF FlowLen
<1>4. /\ n = 0 => s = <<>>
      /\ o.keyId /\ n = 1 => s = <<last>>
      /\ ~ o.keyId /\ n = 1 => s = <<first>>
      /\ ~ o.keyId /\ n = 2 => s = <<first, "ACTIVATE">>
      /\ ~ o.keyId /\ n = 3 => s = <<first, "ACTIVATE", last>>
  BY FlowValues, Zenon
<1> HIDE DEF s, first, last
<1>5. Len(p) = FlowLen(o) /\ p \in Seq(KmipTypes)
  <2>1. CASE o.keyId
    BY <1>1, <1>2, <2>1 DEF FlowLen
  <2>2. CASE ~ o.keyId
    <3>1. p = <<first, "ACTIVATE", last>>
      BY <1>2, <2>2
    <3> QED BY <1>1, <3>1, <2>2 DEF FlowLen
  <2> QED BY <1>0, <2>1, <2>2
<1>6. s \in Seq(KmipTypes) /\ Len(s) = n /\ \A i \in 1..n : s[i] = p[i]
  <2>1. CASE n = 0
    BY <1>4, <2>1
  <2>2. CASE o.keyId /\ n = 1
    <3>1. s = p /\ s = <<last>>
      BY <1>2, <1>4, <2>2
    <3>2. s \in Seq(KmipTypes) /\ Len(s) = 1
      BY <1>1, <3>1
    <3> QED BY <2>2, <3>1, <3>2
  <2>3. CASE ~ o.keyId /\ n \in 1..3
    <3>1. p = <<first, "ACTIVATE", last>>
      BY <1>2, <2>3
    <3>2. CASE n = 1
      <4>1. s = <<first>>
        BY <1>4, <2>3, <3>1, <3>2
      <4>2. s \in Seq(KmipTypes) /\ Len(s) = 1 /\ s[1] = p[1]
        BY <1>1, <3>1, <4>1
      <4> QED BY <3>2, <4>1, <4>2
    <3>3. CASE n = 2
      <4>1. s = <<first, "ACTIVATE">>
        BY <1>4, <2>3, <3>1, <3>3
      <4>2. s \in Seq(KmipTypes) /\ Len(s) = 2 /\ s[1] = p[1] /\ s[2] = p[2]
        BY <1>1, <3>1, <4>1
      <4> QED BY <3>3, <4>1, <4>2
    <3>4. CASE n = 3
      <4>1. s = p
        BY <1>4, <2>3, <3>1, <3>4
      <4>2. s \in Seq(KmipTypes) /\ Len(s) = 3 /\ s[1] = p[1] /\ s[2] = p[2] /\ s[3] = p[3]
        BY <1>1, <3>1, <4>1
      <4> QED BY <3>4, <4>1, <4>2
    <3> QED BY <2>3, <3>2, <3>3, <3>4
  <2> QED BY <1>0, <2>1, <2>2, <2>3 DEF FlowLen
<1>7. n \in 0..Len(p)
  BY <1>5
<1>8. s = SubSeq(p, 1, n)
  <2>1. /\ SubSeq(p, 1, n) \in Seq(KmipTypes)
        /\ Len(SubSeq(p, 1, n)) = n
        /\ \A i \in 1..n : SubSeq(p, 1, n)[i] = p[i]
    BY <1>5, <1>7
  <2> QED BY <1>6, <2>1, SeqEqual
<1> QED BY <1>3, <1>6, <1>7, <1>8 DEF s, p

\* Appending to the short sequences a flow is made of.
LEMMA AppendShort ==
    ASSUME NEW S, NEW a \in S, NEW b \in S, NEW c \in S
    PROVE  /\ Append(<<>>, c) = <<c>>
           /\ Append(<<a>>, c) = <<a, c>>
           /\ Append(<<a, b>>, c) = <<a, b, c>>
<1>1. ASSUME NEW s \in Seq(S), NEW t \in Seq(S), Len(s) = Len(t),
             \A i \in 1..Len(t) : s[i] = t[i]
      PROVE  s = t
  BY <1>1, SeqEqual
<1>2. Append(<<>>, c) = <<c>>
  OBVIOUS
<1>3. Append(<<a>>, c) = <<a, c>>
  <2> DEFINE s == Append(<<a>>, c)
             t == <<a, c>>
  <2>1. s \in Seq(S) /\ t \in Seq(S) /\ Len(s) = 2 /\ Len(t) = 2
    OBVIOUS
  <2>2. s[1] = t[1] /\ s[2] = t[2]
    OBVIOUS
  <2> HIDE DEF s, t
  <2>3. \A i \in 1..2 : s[i] = t[i]
    BY <2>2
  <2>4. s = t
    BY <1>1, <2>1, <2>3
  <2> QED BY <2>4 DEF s, t
<1>4. Append(<<a, b>>, c) = <<a, b, c>>
  <2> DEFINE s == Append(<<a, b>>, c)
             t == <<a, b, c>>
  <2>1. s \in Seq(S) /\ t \in Seq(S) /\ Len(s) = 3 /\ Len(t) = 3
    OBVIOUS
  <2>2. s[1] = t[1] /\ s[2] = t[2] /\ s[3] = t[3]
    OBVIOUS
  <2> HIDE DEF s, t
  <2>3. \A i \in 1..3 : s[i] = t[i]
    BY <2>2
  <2>4. s = t
    BY <1>1, <2>1, <2>3
  <2> QED BY <2>4 DEF s, t
<1> QED BY <1>2, <1>3, <1>4

\* The next request of the flow makes the next beginning.
LEMMA FlowGrows ==
    ASSUME NEW o \in Opts, NEW n \in 0..FlowLen(o), n < FlowLen(o)
    PROVE  /\ Append(FlowUpTo(o, n), FlowNext(o, n)) = FlowUpTo(o, n + 1)
           /\ FlowNext(o, n) \in KmipTypes
<1> DEFINE first == FirstType(o)
           last == LastType(o)
<1>0. o.keyId \in BOOLEAN
  BY DEF Opts
<1>1. first \in KmipTypes /\ last \in KmipTypes /\ "ACTIVATE" \in KmipTypes
  BY DEF FirstType, LastType, KmipTypes
<1>2. /\ Append(<<>>, first) = <<first>> /\ Append(<<>>, last) = <<last>>
      /\ Append(<<first>>, "ACTIVATE") = <<first, "ACTIVATE">>
      /\ Append(<<first, "ACTIVATE">>, last) = <<first, "ACTIVATE", last>>
  <2> HIDE DEF first, last
  <2> QED BY <1>1, AppendShort
<1>3. n = 0 \/ (~ o.keyId /\ n = 1) \/ (~ o.keyId /\ n = 2)
  BY <1>0 DEF FlowLen
<1>4. 0 + 1 = 1 /\ 1 + 1 = 2 /\ 2 + 1 = 3
  OBVIOUS
<1> QED BY <1>0, <1>1, <1>2, <1>3, <1>4, FlowValues, Zenon

\* The number of requests done lies within the flow.
LEMMA FlowDoneType ==
    ASSUME NEW d \in Ctx
    PROVE  FlowDone(d) \in 0..FlowLen(d.opts)
<1>1. /\ d.opts \in Opts /\ d.opts.keyId \in BOOLEAN
      /\ LastDone(d) \in BOOLEAN
  BY DEF Ctx, Opts, LastDone
<1> QED BY <1>1 DEF FlowDone, FlowLen

-----------------------------------------------------------------------------
(***************************************************************************)
(* One lemma per operator.                                                 *)
(***************************************************************************)
\* There are options without credentials.
LEMMA SomeOptsType == SomeOpts \in Opts
<1>1. PICK p \in Providers : TRUE
  BY DatakeyAssumption
<1> DEFINE o == [provider |-> p, delegated |-> FALSE, keyId |-> FALSE,
                 configured |-> FALSE, onDemand |-> FALSE, token |-> FALSE]
<1>2. o \in Opts /\ ~ o.configured /\ ~ o.onDemand
  BY DEF Opts
<1> HIDE DEF o
<1> QED BY <1>2 DEF SomeOpts

\* mongocrypt_ctx_new
LEMMA NewSound == Sound(NewCtx) /\ DriverSound(NewCtx, FALSE, FALSE)
<1>1. NewCtx \in Ctx
  BY SomeOptsType DEF NewCtx, Ctx, CtxStates, RequestTypes, Kms, KmsUnset
<1> DEFINE n == NewCtx
<1>2. /\ ~ n.initialized /\ n.pc = "idle" /\ n.state = "DONE" /\ n.type = "NONE"
      /\ ~ n.uid /\ ~ n.activated /\ ~ n.secretdata /\ ~ n.material /\ n.flow = <<>>
  BY DEF NewCtx
<1>3. LifeSound(n) /\ ~ Waiting(n) /\ ~ Finished(n)
  BY <1>2 DEF LifeSound, Waiting, Finished
<1>4. n.opts \in Opts /\ FlowUpTo(n.opts, 0) = <<>> /\ 0 \in 0..FlowLen(n.opts)
  BY <1>1 DEF Ctx, FlowUpTo, FlowLen
<1> HIDE DEF n
<1>5. OtherSound(n)
  BY <1>2 DEF OtherSound, KmipTypes
<1>6. KmipSound(n)
  BY <1>2, <1>3, <1>4 DEF KmipSound, LastDone
<1>7. RequestSound(n) /\ DriverSound(n, FALSE, FALSE)
  BY <1>2, <1>3 DEF RequestSound, DriverSound
<1> QED BY <1>1, <1>3, <1>5, <1>6, <1>7 DEF Sound, n

\* _mongocrypt_ctx_fail keeps what was handed out.
LEMMA FailSound ==
    ASSUME NEW d, Sound(d), d.initialized, NEW h, NEW r
    PROVE  Sound(Fail(d)) /\ DriverSound(Fail(d), h, r)
<1> DEFINE n == Fail(d)
<1>0. d \in Ctx
  BY DEF Sound
<1>1. /\ n \in Ctx /\ n.initialized /\ n.pc = "idle" /\ n.state = "ERROR"
      /\ n.opts = d.opts /\ n.type = d.type /\ n.uid = d.uid /\ n.activated = d.activated
      /\ n.secretdata = d.secretdata /\ n.material = d.material /\ n.flow = d.flow
  BY <1>0 DEF Fail, Ctx, CtxStates
<1> HIDE DEF n
<1>2. ~ Waiting(n) /\ ~ Finished(n)
  BY <1>1 DEF Waiting, Finished
<1>3. LifeSound(n) /\ RequestSound(n) /\ DriverSound(n, h, r)
  BY <1>1, <1>2 DEF LifeSound, RequestSound, DriverSound
<1>4. OtherSound(n)
  BY <1>1 DEF OtherSound, Sound
<1>5. KmipSound(n)
  BY <1>1, <1>2 DEF KmipSound, Sound, LastDone
<1> QED BY <1>1, <1>3, <1>4, <1>5 DEF Sound, n

\* mongocrypt_ctx_datakey_init
LEMMA DatakeyInitSound ==
    ASSUME NEW o \in Opts
    PROVE  Sound(DatakeyInit(o)) /\ DriverSound(DatakeyInit(o), FALSE, FALSE)
<1> DEFINE n == DatakeyInit(o)
<1>0. /\ NewCtx \in Ctx /\ o.keyId \in BOOLEAN /\ o.configured \in BOOLEAN
      /\ o.onDemand \in BOOLEAN
  BY NewSound DEF Sound, Opts
<1>1. /\ n \in Ctx /\ n.initialized /\ n.opts = o /\ n.type = "NONE"
      /\ ~ n.uid /\ ~ n.activated /\ ~ n.secretdata /\ ~ n.material /\ n.flow = <<>>
      /\ \/ n.pc = "idle" /\ n.state \in {"ERROR", "NEED_KMS_CREDENTIALS"}
         \/ n.pc = "start"
  <2> DEFINE d == [NewCtx EXCEPT !.initialized = TRUE, !.opts = o, !.masterKey = o.keyId]
  <2>1. /\ d \in Ctx /\ d.initialized /\ d.opts = o /\ d.type = "NONE" /\ d.pc = "idle"
        /\ ~ d.uid /\ ~ d.activated /\ ~ d.secretdata /\ ~ d.material /\ d.flow = <<>>
    BY <1>0 DEF Ctx, NewCtx
  <2>2. n \in {Fail(d), [d EXCEPT !.state = "NEED_KMS_CREDENTIALS"], [d EXCEPT !.pc = "start"]}
    BY DEF DatakeyInit
  <2> HIDE DEF d, n
  <2> QED BY <2>1, <2>2 DEF Fail, Ctx, CtxStates
<1> HIDE DEF n
<1>2. ~ Waiting(n) /\ ~ Finished(n)
  BY <1>1 DEF Waiting, Finished
<1>3. LifeSound(n) /\ RequestSound(n) /\ DriverSound(n, FALSE, FALSE)
  BY <1>1, <1>2 DEF LifeSound, RequestSound, DriverSound
<1>4. OtherSound(n)
  BY <1>1 DEF OtherSound, KmipTypes
<1>5. KmipSound(n)
  <2>1. FlowDone(n) = 0 /\ ~ LastDone(n)
    BY <1>0, <1>1 DEF FlowDone, LastDone
  <2>2. 0 \in 0..FlowLen(n.opts)
    BY <1>0, <1>1 DEF FlowLen
  <2>3. FlowUpTo(n.opts, 0) = <<>>
    BY FlowValues
  <2> QED BY <1>1, <1>2, <2>1, <2>2, <2>3 DEF KmipSound
<1> QED BY <1>1, <1>3, <1>4, <1>5 DEF Sound, n

\* mongocrypt_ctx_provide_kms_providers
LEMMA ProvideSound ==
    ASSUME NEW d, Sound(d), d.initialized, d.state = "NEED_KMS_CREDENTIALS", d.pc = "idle",
           NEW configured \in BOOLEAN
    PROVE  Sound(Provide(d, configured)) /\ DriverSound(Provide(d, configured), FALSE, FALSE)
<1> DEFINE n == Provide(d, configured)
<1>0. d \in Ctx /\ d.opts \in Opts
  BY DEF Sound, Ctx
<1>1. /\ n \in Ctx /\ n.initialized /\ n.pc = "start"
      /\ n.type = d.type /\ n.uid = d.uid /\ n.activated = d.activated
      /\ n.secretdata = d.secretdata /\ n.material = d.material /\ n.flow = d.flow
      /\ n.opts = [d.opts EXCEPT !.configured = configured]
  BY <1>0 DEF Provide, Ctx, CtxStates, Opts
<1>2. /\ n.opts.keyId = d.opts.keyId /\ n.opts.delegated = d.opts.delegated
      /\ n.opts.provider = d.opts.provider
  BY <1>0, <1>1 DEF Opts
<1> HIDE DEF n
<1>3. ~ Waiting(n) /\ ~ Finished(n)
  BY <1>1 DEF Waiting, Finished
<1>4. LifeSound(n) /\ RequestSound(n) /\ DriverSound(n, FALSE, FALSE)
  BY <1>1, <1>3 DEF LifeSound, RequestSound, DriverSound
<1>5. OtherSound(n)
  BY <1>1, <1>2 DEF OtherSound, Sound
<1>6. KmipSound(n)
  <2>1. LastDone(n) = LastDone(d)
    BY <1>1, <1>2 DEF LastDone
  <2>2. FlowDone(n) = FlowDone(d) /\ FlowLen(n.opts) = FlowLen(d.opts)
    BY <1>1, <1>2, <2>1 DEF FlowDone, FlowLen
  <2>3. \A k : FlowUpTo(n.opts, k) = FlowUpTo(d.opts, k)
    BY <1>2 DEF FlowUpTo, FirstType, LastType
  <2> QED BY <1>1, <1>2, <1>3, <2>1, <2>2, <2>3 DEF KmipSound, Sound
<1> QED BY <1>1, <1>4, <1>5, <1>6 DEF Sound, n

-----------------------------------------------------------------------------
\* What a KMIP context has when the next request is chosen.
KmipProgress(d) ==
    /\ LastDone(d) => d.activated
    /\ d.activated => d.uid
    /\ d.opts.keyId /\ d.uid => d.activated
    /\ d.flow = FlowUpTo(d.opts, FlowDone(d))

\* A context between requests: _kms_start has cleared the last one.
Cleared(d) ==
    /\ d \in Ctx /\ d.initialized /\ d.pc = "idle" /\ ~ d.returned /\ d.type = "NONE"
    /\ d.opts.provider = "kmip" => KmipProgress(d)
    /\ d.opts.provider # "kmip" => d.flow = <<>>

\* Sending the right request
LEMMA SendsSound ==
    ASSUME NEW d, Cleared(d), NEW t \in RequestTypes \ {"NONE"},
           IF d.opts.provider = "kmip"
           THEN /\ d.opts.keyId => d.activated
                /\ FlowDone(d) < FlowLen(d.opts)
                /\ t = FlowNext(d.opts, FlowDone(d))
           ELSE t \notin KmipTypes
    PROVE  Sound(Sends(d, t)) /\ DriverSound(Sends(d, t), FALSE, FALSE)
<1> DEFINE n == Sends(d, t)
<1>0. d \in Ctx
  BY DEF Cleared
<1>1. /\ n \in Ctx /\ n.initialized /\ n.pc = "idle" /\ n.state = "NEED_KMS"
      /\ n.type = t /\ n.kms.st = "pending" /\ ~ n.returned
      /\ n.uid = d.uid /\ n.activated = d.activated /\ n.opts = d.opts
      /\ n.secretdata = d.secretdata /\ n.material = d.material /\ n.flow = d.flow
  BY <1>0 DEF Sends, Ctx, CtxStates, KmsNew, Kms, Cleared
<1> HIDE DEF n
<1>2. Waiting(n) /\ ~ Finished(n)
  BY <1>1 DEF Waiting, Finished
<1>3. LifeSound(n) /\ RequestSound(n) /\ DriverSound(n, FALSE, FALSE)
  BY <1>1, <1>2 DEF LifeSound, RequestSound, DriverSound
<1>4. OtherSound(n)
  BY <1>1 DEF OtherSound, Cleared
<1>5. KmipSound(n)
  <2>1. LastDone(n) = LastDone(d) /\ FlowDone(n) = FlowDone(d)
    BY <1>1 DEF LastDone, FlowDone
  <2>2. FlowDone(d) \in 0..FlowLen(d.opts) /\ d.opts \in Opts
    BY <1>0, FlowDoneType DEF Ctx
  <2>3. d.opts.provider = "kmip" => t \in KmipTypes
    BY <2>2, FlowGrows
  <2> QED BY <1>1, <1>2, <2>1, <2>2, <2>3 DEF KmipSound, KmipProgress, Cleared
<1> QED BY <1>1, <1>3, <1>4, <1>5 DEF Sound, n

\* _kms_kmip_start sends the next request of the flow, or the flow is complete.
LEMMA KmipStartSound ==
    ASSUME NEW e, Cleared(e), e.opts.provider = "kmip"
    PROVE  Sound(KmipStart(e)) /\ DriverSound(KmipStart(e), FALSE, FALSE)
<1> DEFINE d == IF e.opts.keyId /\ ~ e.uid
                THEN [e EXCEPT !.uid = TRUE, !.activated = TRUE] ELSE e
           ready == [d EXCEPT !.material = TRUE, !.masterKey = TRUE, !.state = "READY"]
<1>0. e \in Ctx /\ e.opts \in Opts /\ KmipProgress(e)
  BY DEF Cleared, Ctx
<1>1. /\ d \in Ctx /\ d.initialized /\ d.pc = "idle" /\ ~ d.returned /\ d.type = "NONE"
      /\ d.opts = e.opts /\ d.flow = e.flow /\ d.material = e.material
      /\ d.secretdata = e.secretdata
      /\ d.uid = (e.uid \/ e.opts.keyId)
      /\ d.activated = (e.activated \/ (e.opts.keyId /\ ~ e.uid))
  <2>0. e.opts.keyId \in BOOLEAN /\ e.uid \in BOOLEAN /\ e.activated \in BOOLEAN
    BY <1>0 DEF Ctx, Opts
  <2>1. CASE e.opts.keyId /\ ~ e.uid
    BY <2>0, <2>1, <1>0 DEF Ctx, Cleared
  <2>2. CASE ~ (e.opts.keyId /\ ~ e.uid)
    BY <2>0, <2>2, <1>0 DEF Ctx, Cleared
  <2> QED BY <2>1, <2>2
<1>2. KmipStart(e) = IF ~ d.uid
        THEN Sends(d, FirstType(d.opts))
        ELSE IF ~ d.activated THEN Sends(d, "ACTIVATE")
        ELSE IF d.opts.delegated /\ ~ d.material THEN Sends(d, "ENCRYPT")
        ELSE IF ~ d.opts.delegated /\ ~ d.secretdata THEN Sends(d, "GET")
        ELSE ready
  BY DEF KmipStart, FirstType
<1> HIDE DEF d
<1>3. /\ d.opts.keyId \in BOOLEAN /\ d.opts.delegated \in BOOLEAN /\ d.uid \in BOOLEAN
      /\ d.activated \in BOOLEAN /\ d.secretdata \in BOOLEAN /\ d.material \in BOOLEAN
      /\ LastDone(d) \in BOOLEAN
  BY <1>1, <1>0 DEF Ctx, Opts, LastDone
<1>4. LastDone(d) = LastDone(e) /\ FlowDone(d) = FlowDone(e)
  <2>1. LastDone(d) = LastDone(e)
    BY <1>1 DEF LastDone
  <2>2. ~ e.opts.keyId => d.uid = e.uid /\ d.activated = e.activated
    BY <1>1, <1>0 DEF Ctx
  <2> QED BY <1>1, <2>1, <2>2 DEF FlowDone
<1>5. KmipProgress(d)
  BY <1>0, <1>1, <1>4 DEF KmipProgress
<1>6. Cleared(d) /\ (d.opts.keyId => d.uid /\ d.activated)
  BY <1>0, <1>1, <1>5 DEF Cleared, KmipProgress
<1>7. d.opts \in Opts /\ "ACTIVATE" \in RequestTypes \ {"NONE"}
      /\ FirstType(d.opts) \in RequestTypes \ {"NONE"}
      /\ LastType(d.opts) \in RequestTypes \ {"NONE"}
  BY <1>1 DEF Ctx, RequestTypes, KmipTypes, FirstType, LastType
<1>8. CASE ~ d.uid
  <2>1. FlowDone(d) = 0 /\ ~ d.opts.keyId
    BY <1>3, <1>5, <1>6, <1>8 DEF FlowDone, KmipProgress
  <2>2. FlowDone(d) < FlowLen(d.opts) /\ FlowNext(d.opts, FlowDone(d)) = FirstType(d.opts)
    BY <2>1, FlowValues DEF FlowLen
  <2> QED BY <1>1, <1>2, <1>6, <1>7, <1>8, <2>2, SendsSound
<1>9. CASE d.uid /\ ~ d.activated
  <2>1. FlowDone(d) = 1 /\ ~ d.opts.keyId
    BY <1>3, <1>5, <1>6, <1>9 DEF FlowDone, KmipProgress
  <2>2. FlowDone(d) < FlowLen(d.opts) /\ FlowNext(d.opts, FlowDone(d)) = "ACTIVATE"
    BY <2>1, FlowValues DEF FlowLen
  <2> QED BY <1>1, <1>2, <1>6, <1>7, <1>9, <2>2, SendsSound
<1>a. CASE d.uid /\ d.activated /\ ~ LastDone(d)
  <2>1. FlowDone(d) = IF d.opts.keyId THEN 0 ELSE 2
    BY <1>3, <1>a DEF FlowDone
  <2>2. FlowDone(d) < FlowLen(d.opts) /\ FlowNext(d.opts, FlowDone(d)) = LastType(d.opts)
    BY <1>3, <2>1, FlowValues DEF FlowLen
  <2>3. KmipStart(e) = Sends(d, LastType(d.opts))
    BY <1>2, <1>3, <1>a DEF LastDone, LastType
  <2> QED BY <1>1, <1>6, <1>7, <2>2, <2>3, SendsSound
<1>b. CASE d.uid /\ d.activated /\ LastDone(d)
  <2>1. KmipStart(e) = ready
    BY <1>2, <1>3, <1>b DEF LastDone
  <2>2. FlowDone(d) = FlowLen(d.opts)
    BY <1>3, <1>b DEF FlowDone, FlowLen
  <2>3. /\ ready \in Ctx /\ ready.initialized /\ ready.pc = "idle" /\ ready.state = "READY"
        /\ ready.type = "NONE" /\ ready.opts = d.opts /\ ready.flow = d.flow
        /\ ready.material /\ ready.masterKey /\ ready.uid = d.uid
        /\ ready.activated = d.activated /\ ready.secretdata = d.secretdata
    BY <1>1 DEF Ctx, CtxStates
  <2> HIDE DEF ready
  <2>4. ~ Waiting(ready) /\ FlowLen(d.opts) \in 0..FlowLen(d.opts)
    BY <2>3 DEF Waiting, FlowLen
  <2>5. LifeSound(ready) /\ RequestSound(ready) /\ DriverSound(ready, FALSE, FALSE)
    BY <2>3, <2>4 DEF LifeSound, RequestSound, DriverSound
  <2>6. OtherSound(ready) /\ KmipSound(ready)
    <3>1. d.flow = FlowUpTo(d.opts, FlowLen(d.opts))
      BY <1>5, <2>2 DEF KmipProgress
    <3>2. ready.pc # "start" /\ ready.state # "NEED_KMS_CREDENTIALS"
      BY <2>3
    <3> QED BY <1>1, <1>b, <2>3, <2>4, <3>1, <3>2 DEF OtherSound, KmipSound
  <2> QED BY <2>1, <2>3, <2>5, <2>6 DEF Sound
<1> QED BY <1>3, <1>8, <1>9, <1>a, <1>b

\* _kms_start fails, has the key at once, or sends one request.
LEMMA KmsStartSound ==
    ASSUME NEW d, Sound(d), d.pc = "start", NEW cached \in BOOLEAN, NEW valid \in BOOLEAN
    PROVE  Sound(KmsStart(d, cached, valid)) /\ DriverSound(KmsStart(d, cached, valid), FALSE, FALSE)
<1> DEFINE clear == [d EXCEPT !.type = "NONE", !.kms = KmsUnset,
                              !.returned = FALSE, !.pc = "idle"]
           p == d.opts.provider
           n == KmsStart(d, cached, valid)
<1>0. d \in Ctx /\ d.opts \in Opts
  BY DEF Sound, Ctx
<1>1. d.initialized
  BY DEF Sound, LifeSound, NewCtx
<1>2. /\ clear \in Ctx /\ clear.initialized /\ clear.pc = "idle" /\ ~ clear.returned
      /\ clear.type = "NONE" /\ clear.opts = d.opts /\ clear.flow = d.flow
      /\ clear.uid = d.uid /\ clear.activated = d.activated
      /\ clear.secretdata = d.secretdata /\ clear.material = d.material
  BY <1>0, <1>1 DEF Ctx, RequestTypes, KmsUnset, Kms
<1>3. n = IF ~ d.opts.configured THEN Fail(d)
          ELSE IF ~ valid THEN Fail(clear)
          ELSE CASE p = "local" -> [clear EXCEPT !.material = TRUE, !.state = "READY"]
                 [] p = "aws" -> Sends(clear, "WRAP")
                 [] p \in OAuthProviders ->
                      Sends(clear, IF d.opts.token \/ cached THEN "WRAP" ELSE "OAUTH")
                 [] p = "kmip" -> KmipStart(clear)
  BY DEF KmsStart
<1> HIDE DEF clear, n
<1>4. Cleared(clear)
  <2>1. LastDone(clear) = LastDone(d) /\ FlowDone(clear) = FlowDone(d)
    BY <1>2 DEF LastDone, FlowDone
  <2> QED BY <1>2, <2>1 DEF Cleared, KmipProgress, Sound, KmipSound, OtherSound
<1>5. CASE ~ d.opts.configured
  <2>1. n = Fail(d)
    BY <1>3, <1>5
  <2> QED BY <1>1, <2>1, FailSound DEF n
<1>6. CASE d.opts.configured /\ ~ valid
  <2>1. n = Fail(clear)
    BY <1>3, <1>6
  <2> DEFINE f == Fail(clear)
  <2>2. /\ f \in Ctx /\ f.initialized /\ f.pc = "idle" /\ f.state = "ERROR"
        /\ f.type = "NONE" /\ f.opts = d.opts /\ f.flow = d.flow
        /\ f.uid = d.uid /\ f.activated = d.activated
        /\ f.secretdata = d.secretdata /\ f.material = d.material
    BY <1>2 DEF Fail, Ctx, CtxStates
  <2> HIDE DEF f
  <2>3. ~ Waiting(f) /\ ~ Finished(f)
    BY <2>2 DEF Waiting, Finished
  <2>4. LifeSound(f) /\ RequestSound(f) /\ DriverSound(f, FALSE, FALSE)
    BY <2>2, <2>3 DEF LifeSound, RequestSound, DriverSound
  <2>5. OtherSound(f) /\ KmipSound(f)
    BY <2>2, <2>3 DEF Sound, OtherSound, KmipSound, LastDone, KmipTypes
  <2> QED BY <2>1, <2>2, <2>4, <2>5 DEF Sound, f, n
<1>7. CASE d.opts.configured /\ valid
  <2>0. p \in OAuthProviders \cup {"local", "aws", "kmip"}
    BY <1>0, DatakeyAssumption DEF Opts
  <2>t. /\ "WRAP" \in RequestTypes \ {"NONE"} /\ "OAUTH" \in RequestTypes \ {"NONE"}
        /\ "WRAP" \notin KmipTypes /\ "OAUTH" \notin KmipTypes
    BY DEF RequestTypes, KmipTypes
  <2>1. CASE p = "local"
    <3> DEFINE r == [clear EXCEPT !.material = TRUE, !.state = "READY"]
    <3>1. n = r
      BY <1>3, <1>7, <2>1 DEF OAuthProviders
    <3>2. /\ r \in Ctx /\ r.initialized /\ r.pc = "idle" /\ r.state = "READY"
          /\ r.type = "NONE" /\ r.opts = d.opts /\ r.flow = d.flow /\ r.material
      BY <1>2 DEF Ctx, CtxStates
    <3> HIDE DEF r
    <3>3. ~ Waiting(r) /\ p # "kmip"
      BY <3>2, <2>1 DEF Waiting
    <3>4. LifeSound(r) /\ RequestSound(r) /\ DriverSound(r, FALSE, FALSE)
      BY <3>2, <3>3 DEF LifeSound, RequestSound, DriverSound
    <3>5. OtherSound(r) /\ KmipSound(r)
      BY <3>2, <3>3 DEF Sound, OtherSound, KmipSound, KmipTypes
    <3> QED BY <3>1, <3>2, <3>4, <3>5 DEF Sound, n
  <2>2. CASE p \in {"aws"} \cup OAuthProviders
    <3>1. n = Sends(clear, "WRAP") \/ n = Sends(clear, "OAUTH")
      BY <1>3, <1>7, <2>2 DEF OAuthProviders
    <3>2. p # "kmip"
      BY <2>2 DEF OAuthProviders
    <3> QED BY <1>2, <1>4, <2>t, <3>1, <3>2, SendsSound DEF n
  <2>3. CASE p = "kmip"
    <3>1. n = KmipStart(clear)
      BY <1>3, <1>7, <2>3 DEF OAuthProviders
    <3> QED BY <1>2, <1>4, <2>3, <3>1, KmipStartSound DEF n
  <2> QED BY <2>0, <2>1, <2>2, <2>3
<1> QED BY <1>0, <1>5, <1>6, <1>7 DEF n, Opts

\* _next_kms_ctx hands a request out once, and again for a retry; a KMIP request
\* is handed out once and becomes the next of the flow.
LEMMA NextKmsSound ==
    ASSUME NEW d, NEW h \in BOOLEAN, NEW r \in BOOLEAN,
           Sound(d), DriverSound(d, h, r), Waiting(d), d.initialized
    PROVE  /\ Sound(NextKmsCtx(d))
           /\ DriverSound(NextKmsCtx(d), h \/ HasNextKms(d), ~ HasNextKms(d))
<1>0. d \in Ctx /\ d.opts \in Opts /\ d.kms \in Kms /\ d.returned \in BOOLEAN
      /\ d.flow \in Seq(KmipTypes) /\ d.type \in RequestTypes
  BY DEF Sound, Ctx
<1>1. CASE ~ HasNextKms(d)
  BY <1>0, <1>1 DEF NextKmsCtx, HasNextKms, DriverSound, Waiting
<1>2. CASE HasNextKms(d)
  <2> DEFINE flow == IF d.type \in KmipTypes THEN Append(d.flow, d.type) ELSE d.flow
             n == [d EXCEPT !.kms = KmsHandOut(@), !.returned = TRUE, !.flow = flow]
  <2>1. n = NextKmsCtx(d)
    BY <1>2 DEF NextKmsCtx
  <2>2. KmsHandOut(d.kms) \in Kms /\ KmsHandOut(d.kms).st = IF d.kms.st = "retry" THEN "pending" ELSE d.kms.st
    BY <1>0 DEF KmsHandOut, Kms
  <2>3. flow \in Seq(KmipTypes)
    BY <1>0
  <2> HIDE DEF flow
  <2>4. /\ n \in Ctx /\ n.initialized /\ n.pc = d.pc /\ n.state = d.state
        /\ n.type = d.type /\ n.kms = KmsHandOut(d.kms) /\ n.returned
        /\ n.uid = d.uid /\ n.activated = d.activated /\ n.opts = d.opts
        /\ n.secretdata = d.secretdata /\ n.material = d.material /\ n.flow = flow
        /\ n.masterKey = d.masterKey
    BY <1>0, <2>2, <2>3 DEF Ctx
  <2> HIDE DEF n
  <2>5. Waiting(n) /\ ~ Finished(n)
    BY <2>4 DEF Waiting, Finished
  <2>6. LifeSound(n) /\ RequestSound(n)
    BY <2>2, <2>4, <2>5 DEF LifeSound, RequestSound, Sound
  <2>7. DriverSound(n, TRUE, FALSE)
    BY <2>4, <2>5 DEF DriverSound, Waiting
  <2>8. OtherSound(n)
    BY <2>4 DEF OtherSound, Sound, flow
  <2>9. KmipSound(n)
    <3> SUFFICES ASSUME d.opts.provider = "kmip" PROVE KmipSound(n)
      BY <2>4 DEF KmipSound
    <3>1. d.type \in KmipTypes /\ ~ d.returned
      BY <1>2 DEF Sound, KmipSound, RequestSound, HasNextKms
    <3>2. LastDone(n) = LastDone(d) /\ FlowDone(n) = FlowDone(d)
      BY <2>4 DEF LastDone, FlowDone
    <3>3. FlowDone(d) \in 0..FlowLen(d.opts) /\ FlowDone(d) < FlowLen(d.opts)
      BY <1>0, FlowDoneType DEF Sound, KmipSound
    <3>4. d.flow = FlowUpTo(d.opts, FlowDone(d)) /\ d.type = FlowNext(d.opts, FlowDone(d))
      BY <3>1 DEF Sound, KmipSound
    <3>5. flow = FlowUpTo(d.opts, FlowDone(d) + 1)
      BY <1>0, <3>1, <3>3, <3>4, FlowGrows DEF flow
    <3>6. FlowLen(d.opts) \in Nat
      BY DEF FlowLen
    <3>7. FlowDone(d) + 1 \in 0..FlowLen(d.opts)
      BY <3>3, <3>6
    <3>8. n.pc # "start" /\ n.state # "NEED_KMS_CREDENTIALS"
      BY <2>5 DEF Waiting
    <3> QED BY <2>4, <2>5, <3>2, <3>3, <3>5, <3>7, <3>8 DEF Sound, KmipSound
  <2> QED BY <1>2, <2>1, <2>4, <2>6, <2>7, <2>8, <2>9 DEF Sound
<1> QED BY <1>1, <1>2

\* Feeding the request of the moment, or reporting a network error.
LEMMA CompleteSound ==
    ASSUME NEW d, NEW r, Sound(d), DriverSound(d, TRUE, r), Waiting(d), d.initialized,
           NEW kms \in KmsEnds(d.kms, d.type \in {"OAUTH", "WRAP"}),
           NEW h \in BOOLEAN
    PROVE  Sound([d EXCEPT !.kms = kms]) /\ DriverSound([d EXCEPT !.kms = kms], h, FALSE)
<1> DEFINE n == [d EXCEPT !.kms = kms]
<1>0. d \in Ctx /\ d.kms \in Kms /\ d.returned
  BY DEF Sound, Ctx, DriverSound
<1>1. /\ kms \in Kms /\ kms.st \in {"done", "failed", "retry"}
      /\ kms.st = "retry" => d.type \in {"OAUTH", "WRAP"}
  BY <1>0 DEF KmsEnds, Kms
<1>2. /\ n \in Ctx /\ n.initialized /\ n.pc = d.pc /\ n.state = d.state
      /\ n.type = d.type /\ n.kms = kms /\ n.returned = d.returned
      /\ n.uid = d.uid /\ n.activated = d.activated /\ n.opts = d.opts
      /\ n.secretdata = d.secretdata /\ n.material = d.material /\ n.flow = d.flow
      /\ n.masterKey = d.masterKey
  BY <1>0, <1>1 DEF Ctx
<1> HIDE DEF n
<1>3. Waiting(n) /\ ~ Finished(n)
  BY <1>2 DEF Waiting, Finished
<1>4. LifeSound(n) /\ DriverSound(n, h, FALSE)
  BY <1>0, <1>1, <1>2, <1>3 DEF LifeSound, DriverSound, Waiting
<1>5. RequestSound(n)
  BY <1>0, <1>1, <1>2, <1>3 DEF RequestSound, Sound, KmipTypes
<1>6. OtherSound(n)
  BY <1>2 DEF OtherSound, Sound
<1>7. KmipSound(n)
  <2>1. LastDone(n) = LastDone(d) /\ FlowDone(n) = FlowDone(d)
    BY <1>2 DEF LastDone, FlowDone
  <2> QED BY <1>2, <1>3, <2>1 DEF Sound, KmipSound, Waiting
<1> QED BY <1>2, <1>4, <1>5, <1>6, <1>7 DEF Sound, n

\* _finalize
LEMMA FinalizeSound ==
    ASSUME NEW d, Sound(d), Finished(d)
    PROVE  Sound([d EXCEPT !.state = "DONE"]) /\ DriverSound([d EXCEPT !.state = "DONE"], FALSE, FALSE)
<1> DEFINE n == [d EXCEPT !.state = "DONE"]
<1>0. d \in Ctx
  BY DEF Sound
<1>1. /\ n \in Ctx /\ n.initialized /\ n.pc = "idle" /\ n.state = "DONE"
      /\ n.type = d.type /\ n.uid = d.uid /\ n.activated = d.activated /\ n.opts = d.opts
      /\ n.secretdata = d.secretdata /\ n.material = d.material /\ n.flow = d.flow
      /\ n.masterKey = d.masterKey
  BY <1>0 DEF Ctx, CtxStates, Finished
<1> HIDE DEF n
<1>2. ~ Waiting(n)
  BY <1>1 DEF Waiting
<1>3. LifeSound(n) /\ RequestSound(n) /\ DriverSound(n, FALSE, FALSE)
  BY <1>1, <1>2 DEF LifeSound, RequestSound, DriverSound, Sound
<1>4. OtherSound(n)
  BY <1>1 DEF OtherSound, Sound
<1>5. KmipSound(n)
  BY <1>1, <1>2 DEF Sound, KmipSound, LastDone
<1> QED BY <1>1, <1>3, <1>4, <1>5 DEF Sound, n

\* The result of a KMIP request takes the flow one request further.
LEMMA KmipDoneSound ==
    ASSUME NEW d, Sound(d), Waiting(d), d.initialized, d.type \in KmipTypes, d.returned,
           NEW valid
    PROVE  /\ Sound(KmsDoneWith(d, valid))
           /\ DriverSound(KmsDoneWith(d, valid), FALSE, FALSE)
<1> DEFINE n == KmsDoneWith(d, valid)
           o == d.opts
<1>0. d \in Ctx /\ o \in Opts /\ o.provider = "kmip"
  BY DEF Sound, Ctx, OtherSound
<1>1. /\ o.keyId \in BOOLEAN /\ o.delegated \in BOOLEAN /\ d.uid \in BOOLEAN
      /\ d.activated \in BOOLEAN /\ d.secretdata \in BOOLEAN /\ d.material \in BOOLEAN
      /\ LastDone(d) \in BOOLEAN
  BY <1>0 DEF Ctx, Opts, LastDone
<1>2. /\ o.keyId => d.activated
      /\ FlowDone(d) < FlowLen(o) /\ d.type = FlowNext(o, FlowDone(d))
      /\ d.flow = FlowUpTo(o, FlowDone(d) + 1)
      /\ d.activated => d.uid
      /\ LastDone(d) => d.activated
  BY <1>0 DEF Sound, KmipSound
<1>3. ~ LastDone(d)
  BY <1>1, <1>2 DEF FlowDone, FlowLen
<1>4. n = CASE d.type \in {"REGISTER", "CREATE"} -> [d EXCEPT !.uid = TRUE, !.pc = "start"]
            [] d.type = "ACTIVATE" -> [d EXCEPT !.activated = TRUE, !.pc = "start"]
            [] d.type = "GET" -> [d EXCEPT !.secretdata = TRUE, !.pc = "start"]
            [] d.type = "ENCRYPT" -> [d EXCEPT !.material = TRUE, !.pc = "start"]
  BY DEF KmsDoneWith, KmipTypes
<1> HIDE DEF n
<1>5. /\ n \in Ctx /\ n.initialized /\ n.pc = "start" /\ n.type = d.type /\ n.opts = o
      /\ n.flow = d.flow
      /\ n.uid = (d.uid \/ d.type \in {"REGISTER", "CREATE"})
      /\ n.activated = (d.activated \/ d.type = "ACTIVATE")
      /\ n.secretdata = (d.secretdata \/ d.type = "GET")
      /\ n.material = (d.material \/ d.type = "ENCRYPT")
  <2>1. CASE d.type \in {"REGISTER", "CREATE"}
    BY <1>0, <1>1, <1>4, <2>1 DEF Ctx
  <2>2. CASE d.type = "ACTIVATE"
    BY <1>0, <1>1, <1>4, <2>2 DEF Ctx
  <2>3. CASE d.type = "GET"
    BY <1>0, <1>1, <1>4, <2>3 DEF Ctx
  <2>4. CASE d.type = "ENCRYPT"
    BY <1>0, <1>1, <1>4, <2>4 DEF Ctx
  <2> QED BY <2>1, <2>2, <2>3, <2>4 DEF KmipTypes
<1>6. ~ Waiting(n) /\ ~ Finished(n)
  BY <1>5 DEF Waiting, Finished
<1>7. LifeSound(n) /\ RequestSound(n) /\ DriverSound(n, FALSE, FALSE)
  BY <1>5, <1>6 DEF LifeSound, RequestSound, DriverSound
<1>8. OtherSound(n)
  BY <1>0, <1>5 DEF OtherSound
<1>9. /\ FlowDone(n) = FlowDone(d) + 1
      /\ LastDone(n) => n.activated
      /\ n.activated => n.uid
      /\ n.opts.keyId /\ n.uid => n.activated
  <2>1. CASE ~ o.keyId /\ ~ d.uid
    <3>1. FlowDone(d) = 0 /\ d.type = FirstType(o) /\ ~ d.activated
      BY <1>1, <1>2, <1>3, <2>1, FlowValues DEF FlowDone
    <3>2. n.uid /\ ~ n.activated /\ ~ LastDone(n)
      BY <1>1, <1>3, <1>5, <3>1 DEF FirstType, LastDone
    <3> QED BY <1>5, <2>1, <3>1, <3>2 DEF FlowDone
  <2>2. CASE ~ o.keyId /\ d.uid /\ ~ d.activated
    <3>1. FlowDone(d) = 1 /\ d.type = "ACTIVATE"
      BY <1>1, <1>2, <1>3, <2>2, FlowValues DEF FlowDone
    <3>2. n.uid /\ n.activated /\ ~ LastDone(n)
      BY <1>1, <1>3, <1>5, <2>2, <3>1 DEF LastDone
    <3> QED BY <1>5, <2>2, <3>1, <3>2 DEF FlowDone
  <2>3. CASE d.activated
    <3>1. FlowDone(d) = (IF o.keyId THEN 0 ELSE 2) /\ d.type = LastType(o)
      BY <1>1, <1>2, <1>3, <2>3, FlowValues DEF FlowDone
    <3>2. n.uid /\ n.activated /\ LastDone(n)
      BY <1>1, <1>2, <1>5, <2>3, <3>1 DEF LastType, LastDone
    <3> QED BY <1>1, <1>5, <3>1, <3>2 DEF FlowDone
  <2> QED BY <1>1, <1>2, <2>1, <2>2, <2>3
<1>a. FlowDone(d) + 1 \in 0..FlowLen(o)
  <2>1. FlowDone(d) \in 0..FlowLen(o) /\ FlowLen(o) \in Nat
    BY <1>0, FlowDoneType DEF FlowLen
  <2> QED BY <1>2, <2>1
<1>b. KmipSound(n)
  BY <1>2, <1>5, <1>6, <1>9, <1>a DEF KmipSound
<1> QED BY <1>5, <1>7, <1>8, <1>b DEF Sound, n

\* _kms_done with a result
LEMMA KmsDoneWithSound ==
    ASSUME NEW d, Sound(d), Waiting(d), d.initialized, d.kms.st = "done", NEW valid \in BOOLEAN
    PROVE  /\ Sound(KmsDoneWith(d, valid))
           /\ DriverSound(KmsDoneWith(d, valid), FALSE, FALSE)
<1> DEFINE n == KmsDoneWith(d, valid)
<1>0. d \in Ctx /\ d.returned /\ d.type \in {"OAUTH", "WRAP"} \cup KmipTypes
  BY DEF Sound, Ctx, RequestSound, RequestTypes
<1>1. CASE d.type \in KmipTypes
  BY <1>0, <1>1, KmipDoneSound
<1>2. CASE d.type \in {"OAUTH", "WRAP"} /\ ~ valid
  <2>1. n = Fail(d)
    BY <1>2 DEF KmsDoneWith
  <2> QED BY <2>1, FailSound
<1>3. CASE d.type \in {"OAUTH", "WRAP"} /\ valid
  <2>1. n = IF d.type = "WRAP" THEN [d EXCEPT !.material = TRUE, !.state = "READY"]
            ELSE [d EXCEPT !.pc = "start"]
    BY <1>3 DEF KmsDoneWith
  <2> HIDE DEF n
  <2>2. /\ n \in Ctx /\ n.initialized /\ n.type = d.type /\ n.opts = d.opts /\ n.flow = d.flow
        /\ \/ n.material /\ n.pc = "idle" /\ n.state = "READY"
           \/ n.pc = "start"
    BY <1>0, <1>3, <2>1 DEF Ctx, CtxStates, Waiting
  <2>3. ~ Waiting(n) /\ d.opts.provider # "kmip"
    BY <1>3, <2>2 DEF Waiting, Sound, KmipSound, KmipTypes
  <2>4. LifeSound(n) /\ RequestSound(n) /\ DriverSound(n, FALSE, FALSE)
    BY <2>2, <2>3 DEF LifeSound, RequestSound, DriverSound, Finished
  <2>5. OtherSound(n) /\ KmipSound(n)
    BY <2>2, <2>3 DEF OtherSound, KmipSound, Sound
  <2> QED BY <2>2, <2>4, <2>5 DEF Sound, n
<1> QED BY <1>0, <1>1, <1>2, <1>3

-----------------------------------------------------------------------------
(***************************************************************************)
(* The steps of the system.                                                *)
(***************************************************************************)
\* Each step changes one context and what its driver knows.
LEMMA StepInv ==
    ASSUME Inv, NEW c \in Ctxs, NEW n, NEW h \in BOOLEAN, NEW r \in BOOLEAN,
           Sound(n), DriverSound(n, h, r), Becomes(c, n),
           held' = [held EXCEPT ![c] = h], drained' = [drained EXCEPT ![c] = r],
           cacheOauth' \in [Providers -> Token \cup {NoToken}],
           now' \in 0..MaxNow, aborted' \in BOOLEAN
    PROVE  Inv'
<1>1. dk \in [Ctxs -> Ctx] /\ held \in [Ctxs -> BOOLEAN] /\ drained \in [Ctxs -> BOOLEAN]
      /\ n \in Ctx
  BY DEF Inv, TypeOK, Sound
<1>2. /\ dk' \in [Ctxs -> Ctx] /\ \A x \in Ctxs : dk'[x] = IF x = c THEN n ELSE dk[x]
      /\ held' \in [Ctxs -> BOOLEAN] /\ \A x \in Ctxs : held'[x] = IF x = c THEN h ELSE held[x]
      /\ drained' \in [Ctxs -> BOOLEAN]
      /\ \A x \in Ctxs : drained'[x] = IF x = c THEN r ELSE drained[x]
  BY <1>1 DEF Becomes
<1>3. \A x \in Ctxs : Sound(dk'[x]) /\ DriverSound(dk'[x], held'[x], drained'[x])
  BY <1>2 DEF Inv
<1> QED BY <1>2, <1>3 DEF Inv, TypeOK

\* The same for steps in which the driver learns nothing.
LEMMA LocalStepInv ==
    ASSUME Inv, NEW c \in Ctxs, NEW n, Sound(n), DriverSound(n, held[c], drained[c]),
           Becomes(c, n), UNCHANGED <<cacheOauth, now, driver, aborted>>
    PROVE  Inv'
<1>1. held \in [Ctxs -> BOOLEAN] /\ drained \in [Ctxs -> BOOLEAN]
  BY DEF Inv, TypeOK
<1>2. held' = [held EXCEPT ![c] = held[c]] /\ drained' = [drained EXCEPT ![c] = drained[c]]
  BY <1>1 DEF driver
<1>3. held[c] \in BOOLEAN /\ drained[c] \in BOOLEAN
  BY <1>1
<1>4. /\ cacheOauth' \in [Providers -> Token \cup {NoToken}]
      /\ now' \in 0..MaxNow /\ aborted' \in BOOLEAN
  BY DEF Inv, TypeOK
<1> QED BY <1>2, <1>3, <1>4, StepInv

\* Out of NEED_KMS and without an error the driver holds nothing.
LEMMA DriverIdle ==
    ASSUME Inv, NEW c \in Ctxs,
           dk[c].pc = "start" \/ dk[c].state \notin {"NEED_KMS", "ERROR"}
    PROVE  held[c] = FALSE /\ drained[c] = FALSE
<1>1. held[c] \in BOOLEAN /\ drained[c] \in BOOLEAN /\ DriverSound(dk[c], held[c], drained[c])
  BY DEF Inv, TypeOK
<1>2. dk[c].pc = "start" => dk[c].pc # "idle"
  OBVIOUS
<1> QED BY <1>1, <1>2 DEF DriverSound

\* The calls that change only the context.
LEMMA LocalCallsInv ==
    ASSUME Inv, NEW c \in Ctxs,
           \/ InitCtx(c) \/ ProvideKmsProviders(c) \/ Start(c) \/ Finalize(c)
           \/ CallInWrongState(c)
    PROVE  Inv'
<1> DEFINE d == dk[c]
<1>0. Sound(d) /\ UNCHANGED <<cacheOauth, now, driver, aborted>>
  BY DEF Inv, InitCtx, ProvideKmsProviders, Start, Finalize, CallInWrongState
<1>1. CASE InitCtx(c)
  <2>1. PICK o \in Opts : Becomes(c, DatakeyInit(o))
    BY <1>1 DEF InitCtx
  <2>2. d = NewCtx
    BY <1>0, <1>1 DEF InitCtx, Sound, LifeSound
  <2>a. d.state = "DONE"
    BY <2>2 DEF NewCtx
  <2>3. held[c] = FALSE /\ drained[c] = FALSE
    BY <2>a, DriverIdle
  <2> QED BY <1>0, <2>1, <2>3, DatakeyInitSound, LocalStepInv
<1>2. CASE ProvideKmsProviders(c)
  <2>1. PICK valid \in BOOLEAN, configured \in BOOLEAN :
            Becomes(c, IF valid THEN Provide(d, configured) ELSE Fail(d))
    BY <1>2 DEF ProvideKmsProviders
  <2>2. d.initialized /\ d.pc = "idle" /\ d.state = "NEED_KMS_CREDENTIALS"
    BY <1>2 DEF ProvideKmsProviders, In
  <2>3. held[c] = FALSE /\ drained[c] = FALSE
    BY <2>2, DriverIdle
  <2> HIDE DEF d
  <2>4. CASE valid
    <3>1. Becomes(c, Provide(d, configured))
      BY <2>1, <2>4
    <3> QED BY <1>0, <2>2, <2>3, <3>1, ProvideSound, LocalStepInv
  <2>5. CASE ~ valid
    <3>1. Becomes(c, Fail(d))
      BY <2>1, <2>5
    <3> QED BY <1>0, <2>2, <3>1, FailSound, LocalStepInv
  <2> QED BY <2>4, <2>5
<1>3. CASE Start(c)
  <2>1. PICK valid \in BOOLEAN :
            Becomes(c, KmsStart(d, HasToken(cacheOauth, d.opts.provider, now), valid))
    BY <1>3 DEF Start
  <2>2. d.pc = "start" /\ HasToken(cacheOauth, d.opts.provider, now) \in BOOLEAN
    BY <1>3 DEF Start, HasToken
  <2>3. held[c] = FALSE /\ drained[c] = FALSE
    BY <2>2, DriverIdle
  <2> HIDE DEF d
  <2> QED BY <1>0, <2>1, <2>2, <2>3, KmsStartSound, LocalStepInv
<1>4. CASE Finalize(c)
  <2>1. PICK valid \in BOOLEAN :
            Becomes(c, IF valid THEN [d EXCEPT !.state = "DONE"] ELSE Fail(d))
    BY <1>4 DEF Finalize
  <2>2. d.initialized /\ d.pc = "idle" /\ d.state = "READY"
    BY <1>4 DEF Finalize, In
  <2>3. held[c] = FALSE /\ drained[c] = FALSE
    BY <2>2, DriverIdle
  <2> HIDE DEF d
  <2>4. CASE valid
    <3>1. Becomes(c, [d EXCEPT !.state = "DONE"]) /\ Finished(d)
      BY <2>1, <2>2, <2>4 DEF Finished
    <3> QED BY <1>0, <2>3, <3>1, FinalizeSound, LocalStepInv
  <2>5. CASE ~ valid
    <3>1. Becomes(c, Fail(d))
      BY <2>1, <2>5
    <3> QED BY <1>0, <2>2, <3>1, FailSound, LocalStepInv
  <2> QED BY <2>4, <2>5
<1>5. CASE CallInWrongState(c)
  <2>1. Becomes(c, Fail(d)) /\ d.initialized
    BY <1>5 DEF CallInWrongState, In
  <2> HIDE DEF d
  <2> QED BY <1>0, <2>1, FailSound, LocalStepInv
<1> QED BY <1>1, <1>2, <1>3, <1>4, <1>5

\* The calls by which the driver serves the request of the moment.
LEMMA DriverCallsInv ==
    ASSUME Inv, NEW c \in Ctxs, GetNextKms(c) \/ Complete(c)
    PROVE  Inv'
<1> DEFINE d == dk[c]
<1>0. /\ Sound(d) /\ DriverSound(d, held[c], drained[c])
      /\ held[c] \in BOOLEAN /\ drained[c] \in BOOLEAN
  BY DEF Inv, TypeOK
<1>1. Waiting(d) /\ d.initialized /\ UNCHANGED <<cacheOauth, now, aborted>>
  BY DEF GetNextKms, Complete, In, Waiting
<1>2. /\ cacheOauth' \in [Providers -> Token \cup {NoToken}]
      /\ now' \in 0..MaxNow /\ aborted' \in BOOLEAN
  BY <1>1 DEF Inv, TypeOK
<1>3. CASE GetNextKms(c)
  <2>1. /\ Becomes(c, NextKmsCtx(d))
        /\ held' = [held EXCEPT ![c] = held[c] \/ HasNextKms(d)]
        /\ drained' = [drained EXCEPT ![c] = ~ HasNextKms(d)]
    BY <1>3 DEF GetNextKms
  <2>2. HasNextKms(d) \in BOOLEAN
    BY DEF HasNextKms
  <2> HIDE DEF d
  <2>3. /\ Sound(NextKmsCtx(d))
        /\ DriverSound(NextKmsCtx(d), held[c] \/ HasNextKms(d), ~ HasNextKms(d))
    BY <1>0, <1>1, NextKmsSound
  <2>4. (held[c] \/ HasNextKms(d)) \in BOOLEAN /\ (~ HasNextKms(d)) \in BOOLEAN
    OBVIOUS
  <2> QED BY <1>2, <2>1, <2>3, <2>4, StepInv
<1>4. CASE Complete(c)
  <2>1. PICK kms \in KmsEnds(d.kms, d.type \in {"OAUTH", "WRAP"}) :
            /\ Becomes(c, [d EXCEPT !.kms = kms])
            /\ held' \in {[held EXCEPT ![c] = FALSE], [held EXCEPT ![c] = kms.st = "retry"]}
    BY <1>4 DEF Complete
  <2>2. held[c] = TRUE /\ drained' = [drained EXCEPT ![c] = FALSE]
    BY <1>0, <1>4 DEF Complete
  <2>3. PICK h \in BOOLEAN : held' = [held EXCEPT ![c] = h]
    BY <2>1
  <2> HIDE DEF d
  <2>4. Sound([d EXCEPT !.kms = kms]) /\ DriverSound([d EXCEPT !.kms = kms], h, FALSE)
    BY <1>0, <1>1, <2>2, CompleteSound
  <2> QED BY <1>2, <2>1, <2>2, <2>3, <2>4, StepInv
<1> QED BY <1>3, <1>4

\* The lifetime of a token is a number of ticks.
LEMMA LifetimeInt ==
    ASSUME NEW life \in TokenLives
    PROVE  Lifetime(life) \in Int
<1>1. life \in Int /\ Second \in Int /\ MaxTime \in Nat
  BY OAuthCacheAssumption
<1>2. life * Second \in Int
  BY <1>1
<1> DEFINE n == life * Second
<1> HIDE DEF n
<1>3. ((n + MaxTime + 1) % (2 * (MaxTime + 1))) - (MaxTime + 1) \in Int
  BY <1>1, <1>2 DEF n
<1> QED BY <1>3 DEF Lifetime, n

\* kms_done
LEMMA KmsDoneInv ==
    ASSUME Inv, NEW c \in Ctxs, KmsDone(c)
    PROVE  Inv'
<1> DEFINE d == dk[c]
<1>0. /\ Sound(d) /\ DriverSound(d, held[c], drained[c])
      /\ cacheOauth \in [Providers -> Token \cup {NoToken}]
      /\ now \in 0..MaxNow /\ aborted \in BOOLEAN /\ dk \in [Ctxs -> Ctx]
  BY DEF Inv, TypeOK
<1>1. /\ Waiting(d) /\ d.initialized /\ UNCHANGED now
      /\ held' = [held EXCEPT ![c] = FALSE] /\ drained' = [drained EXCEPT ![c] = FALSE]
  BY DEF KmsDone, In, Waiting
<1>2. CASE Becomes(c, Fail(d)) /\ UNCHANGED <<cacheOauth, aborted>>
  <2> HIDE DEF d
  <2>1. Sound(Fail(d)) /\ DriverSound(Fail(d), FALSE, FALSE)
    BY <1>0, <1>1, FailSound
  <2> QED BY <1>0, <1>1, <1>2, <2>1, StepInv
<1>3. CASE d.kms.st # "pending" /\ aborted' = TRUE /\ UNCHANGED <<dk, cacheOauth>>
  <2>1. dk' = [dk EXCEPT ![c] = d]
    BY <1>0, <1>3
  <2> HIDE DEF d
  <2>2. DriverSound(d, FALSE, FALSE)
    BY <1>3 DEF DriverSound
  <2> QED BY <1>0, <1>1, <1>3, <2>1, <2>2, StepInv DEF Becomes
<1>4. ASSUME NEW valid \in BOOLEAN, d.kms.st = "done", Becomes(c, KmsDoneWith(d, valid)),
             cacheOauth' \in [Providers -> Token \cup {NoToken}], UNCHANGED aborted
      PROVE  Inv'
  <2> HIDE DEF d
  <2>1. /\ Sound(KmsDoneWith(d, valid))
        /\ DriverSound(KmsDoneWith(d, valid), FALSE, FALSE)
    BY <1>0, <1>1, <1>4, KmsDoneWithSound
  <2> QED BY <1>0, <1>1, <1>4, <2>1, StepInv
<1>5. ASSUME NEW life \in TokenLives,
             cacheOauth' = AddResponse(cacheOauth, d.opts.provider, now, life, now)
      PROVE  cacheOauth' \in [Providers -> Token \cup {NoToken}]
  <2> DEFINE t == [since |-> now, expires |-> now + Lifetime(life) - EvictionPeriod]
  <2>1. t \in Token
    BY <1>0, LifetimeInt, OAuthCacheAssumption DEF Token
  <2>2. cacheOauth' = [cacheOauth EXCEPT ![d.opts.provider] = t]
    BY <1>5 DEF AddResponse
  <2> HIDE DEF t
  <2> QED BY <1>0, <2>1, <2>2
<1> QED BY <1>0, <1>2, <1>3, <1>4, <1>5 DEF KmsDone

\* Destroying a context and the clock
LEMMA DestroyInv ==
    ASSUME Inv, NEW c \in Ctxs, Destroy(c)
    PROVE  Inv'
<1>1. /\ Becomes(c, NewCtx) /\ held' = [held EXCEPT ![c] = FALSE]
      /\ drained' = [drained EXCEPT ![c] = FALSE] /\ UNCHANGED <<cacheOauth, now, aborted>>
  BY DEF Destroy
<1>2. /\ cacheOauth' \in [Providers -> Token \cup {NoToken}]
      /\ now' \in 0..MaxNow /\ aborted' \in BOOLEAN
  BY <1>1 DEF Inv, TypeOK
<1> QED BY <1>1, <1>2, NewSound, StepInv

\* Nothing but the steps above happens, and an unchanged state stays good.
LEMMA NextInv == Inv /\ [Next]_vars => Inv'
<1> SUFFICES ASSUME Inv, [Next]_vars PROVE Inv'
  OBVIOUS
<1>1. CASE Tick
  <2>1. UNCHANGED <<dk, cacheOauth, held, drained, aborted>> /\ now' \in 0..MaxNow
    BY <1>1, DatakeyAssumption DEF Tick, Inv, TypeOK, driver
  <2> QED BY <2>1 DEF Inv, TypeOK
<1>2. CASE UNCHANGED vars
  BY <1>2 DEF vars, Inv, TypeOK
<1>3. ASSUME NEW c \in Ctxs,
             \/ InitCtx(c) \/ ProvideKmsProviders(c) \/ Start(c) \/ GetNextKms(c)
             \/ Complete(c) \/ KmsDone(c) \/ Finalize(c) \/ CallInWrongState(c) \/ Destroy(c)
      PROVE  Inv'
  BY <1>3, LocalCallsInv, DriverCallsInv, KmsDoneInv, DestroyInv
<1> QED BY <1>1, <1>2, <1>3 DEF Next

\* New contexts are sound.
LEMMA InitInv == Init => Inv
<1> SUFFICES ASSUME Init PROVE Inv
  OBVIOUS
<1>1. NewCtx \in Ctx
  BY NewSound DEF Sound
<1>2. TypeOK
  <2>1. now \in 0..MaxNow
    BY DatakeyAssumption DEF Init
  <2>2. dk \in [Ctxs -> Ctx] /\ cacheOauth \in [Providers -> Token \cup {NoToken}]
    BY <1>1 DEF Init
  <2>3. held \in [Ctxs -> BOOLEAN] /\ drained \in [Ctxs -> BOOLEAN] /\ aborted \in BOOLEAN
    BY DEF Init
  <2> QED BY <2>1, <2>2, <2>3 DEF TypeOK
<1>3. \A c \in Ctxs : dk[c] = NewCtx /\ held[c] = FALSE /\ drained[c] = FALSE
  BY DEF Init
<1> QED BY <1>2, <1>3, NewSound DEF Inv

-----------------------------------------------------------------------------
(***************************************************************************)
(* The theorems.                                                           *)
(***************************************************************************)
\* The inductive invariant holds in every reachable state.
THEOREM InvHolds == Spec => []Inv
BY InitInv, NextInv, PTL DEF Spec

(***************************************************************************)
(* Type correctness: in particular a context is never in a state that      *)
(* mongocrypt-ctx-datakey.c does not handle, and its flow consists of KMIP *)
(* requests.                                                               *)
(***************************************************************************)
THEOREM TypeCorrect == Spec => []TypeOK
<1>1. Inv => TypeOK
  BY DEF Inv
<1> QED BY <1>1, InvHolds, PTL

(***************************************************************************)
(* Whatever calls fail or come in the wrong order, a context hands out the *)
(* KMIP requests of its flow in order and each at most once                *)
(* (_kms_kmip_start, _kms_done).                                           *)
(***************************************************************************)
THEOREM FlowAlwaysFollowed == Spec => []KmipFlowFollowed
<1>1. Inv => KmipFlowFollowed
  <2> SUFFICES ASSUME Inv, NEW c \in Ctxs
               PROVE  /\ Len(dk[c].flow) <= Len(KmipFlow(dk[c].opts))
                      /\ dk[c].flow = SubSeq(KmipFlow(dk[c].opts), 1, Len(dk[c].flow))
    BY DEF KmipFlowFollowed
  <2> DEFINE o == dk[c].opts
  <2>0. Sound(dk[c]) /\ o \in Opts
    BY DEF Inv, Sound, Ctx
  <2>1. \E n \in 0..FlowLen(o) : dk[c].flow = FlowUpTo(o, n)
    <3>1. CASE o.provider = "kmip"
      BY <2>0, <3>1 DEF Sound, KmipSound
    <3>2. CASE o.provider # "kmip"
      <4>1. dk[c].flow = <<>> /\ 0 \in 0..FlowLen(o)
        BY <2>0, <3>2 DEF Sound, OtherSound, FlowLen
      <4> QED BY <4>1, FlowValues
    <3> QED BY <3>1, <3>2
  <2>2. PICK n \in 0..FlowLen(o) : dk[c].flow = FlowUpTo(o, n)
    BY <2>1
  <2> HIDE DEF o
  <2>3. /\ n <= Len(KmipFlow(o)) /\ Len(FlowUpTo(o, n)) = n
        /\ FlowUpTo(o, n) = SubSeq(KmipFlow(o), 1, n)
    BY <2>0, FlowPrefix
  <2> QED BY <2>2, <2>3 DEF o
<1> QED BY <1>1, InvHolds, PTL

(***************************************************************************)
(* A context that is ready, or has given its document, has a wrapped key;  *)
(* with KMIP the whole flow was gone through and the master key names the  *)
(* KMIP object (_kms_start, _kms_done, _finalize).                         *)
(***************************************************************************)
THEOREM ReadyAlwaysWrapped == Spec => []ReadyWithWrappedKey
<1>1. Inv => ReadyWithWrappedKey
  <2> SUFFICES ASSUME Inv, NEW c \in Ctxs, Finished(dk[c])
               PROVE  /\ dk[c].material
                      /\ dk[c].opts.provider = "kmip" =>
                            dk[c].flow = KmipFlow(dk[c].opts) /\ dk[c].masterKey
    BY DEF ReadyWithWrappedKey, Finished
  <2>1. Sound(dk[c]) /\ dk[c].opts \in Opts /\ 0 \in 0..FlowLen(dk[c].opts)
    BY DEF Inv, Sound, Ctx, FlowLen
  <2>2. FlowUpTo(dk[c].opts, FlowLen(dk[c].opts)) = KmipFlow(dk[c].opts)
    BY <2>1, FlowPrefix
  <2> QED BY <2>1, <2>2 DEF Sound, LifeSound, KmipSound
<1> QED BY <1>1, InvHolds, PTL

(***************************************************************************)
(* A drained context whose driver holds no request has handed its request  *)
(* out and got an end of it, for any number of retries: _kms_start resets  *)
(* kms_returned for each new request and next_kms_ctx returns retries.     *)
(***************************************************************************)
THEOREM RequestAlwaysHandedOut == Spec => []RequestHandedOut
<1>1. Inv => RequestHandedOut
  <2> SUFFICES ASSUME Inv, NEW c \in Ctxs, Waiting(dk[c]), drained[c], ~ held[c]
               PROVE  dk[c].returned /\ dk[c].kms.st \in {"done", "failed"}
    BY DEF RequestHandedOut, Waiting
  <2>1. Sound(dk[c]) /\ DriverSound(dk[c], held[c], drained[c])
        /\ dk[c].kms.st \in {"unset", "pending", "retry", "done", "failed"}
    BY DEF Inv, Sound, Ctx, Kms
  <2> QED BY <2>1 DEF DriverSound, Sound, RequestSound
<1> QED BY <1>1, InvHolds, PTL
=============================================================================
