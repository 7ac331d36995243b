------------------------ MODULE ResponseParserProofs ------------------------
(***************************************************************************)
(* Proofs about ResponseParser: for every set of responses, every way the  *)
(* stream is damaged or continued and cut into pieces, and every limit,    *)
(* the positions of the parser stay inside what has been read, the parser  *)
(* never wants a negative number of bytes, and the KMIP parser ends with   *)
(* exactly the bytes of the response.                                      *)
(***************************************************************************)
EXTENDS ResponseParser, SequenceTheorems, TLAPS

States == LineStates \cup {"CHUNK", "BODY", "DONE"}

Parser == [state : States, raw : Seq(Byte), start : Nat,
           contentLength : Nat \cup {-1}, chunked : BOOLEAN, chunkSize : Nat,
           status : Nat, body : Seq(Byte), failed : BOOLEAN, firstLen : Nat]

ParserTypeOK ==
    /\ resp \in Responses
    /\ stream \in Seq(Byte)
    /\ fed \in 0..Len(stream)
    /\ p \in Parser
    /\ curr \in Nat

(***************************************************************************)
(* The parser's positions, as long as it has not failed.  The two bytes    *)
(* that a chunk is read with beyond its size and the byte before a header  *)
(* line are what makes the bounds inductive.                               *)
(***************************************************************************)
Positions(q, c) ==
    /\ q.start <= c /\ c <= Len(q.raw)
    /\ q.state = "STATUS_LINE" => q.start = 0
    /\ q.state = "HEADER" => q.start > 0 /\ q.raw[q.start] = LF
    /\ q.state = "BODY" => q.contentLength > 0 /\ c - q.start <= q.contentLength
    /\ q.state = "CHUNK" => c - q.start <= q.chunkSize + 2

(***************************************************************************)
(* The body that has been read so far.  Until the parser is done it has    *)
(* none unless the response comes in chunks.                               *)
(***************************************************************************)
Framed(q) ==
    /\ q.state \in {"STATUS_LINE", "HEADER", "BODY"} => q.body = <<>>
    /\ q.state \in {"CHUNK_LENGTH", "CHUNK"} => q.chunked
    /\ q.state = "BODY" => ~ q.chunked
    /\ q.state = "DONE" /\ ~ q.chunked =>
          IF q.contentLength <= 0 THEN q.body = <<>>
          ELSE /\ q.start + q.contentLength <= Len(q.raw)
               /\ q.body = SubSeq(q.raw, q.start + 1, q.start + q.contentLength)

KmipPositions(q, c) ==
    /\ c = Len(q.raw)
    /\ Len(q.raw) < 8 => q.firstLen = 0
    /\ Len(q.raw) >= 8 => q.firstLen = q.raw[8][2] /\ Len(q.raw) <= q.firstLen + 8

ParserInv ==
    /\ ParserTypeOK
    /\ ~ p.failed =>
        /\ p.raw = SubSeq(stream, 1, fed)
        /\ ~ Kmip => Positions(p, curr) /\ Framed(p)
        /\ Kmip => KmipPositions(p, curr)

-----------------------------------------------------------------------------
\* Reading on: a piece of the stream behind what has been read, and the type
\* of the outcome.
LEMMA ReadOn ==
    ASSUME NEW s \in Seq(Byte), NEW f \in Nat, NEW n \in Nat, f + n <= Len(s)
    PROVE  /\ SubSeq(s, f + 1, f + n) \in Seq(Byte)
           /\ Len(SubSeq(s, f + 1, f + n)) = n
           /\ SubSeq(s, 1, f) \o SubSeq(s, f + 1, f + n) = SubSeq(s, 1, f + n)
<1>1. \A i \in f + 1 .. f + n : s[i] \in Byte
  OBVIOUS
<1>2. SubSeq(s, f + 1, f + n) \in Seq(Byte) /\ Len(SubSeq(s, f + 1, f + n)) = n
  BY <1>1, SubSeqProperties
<1>3. 1 \in 1 .. Len(s) + 1 /\ f \in 1 - 1 .. Len(s) /\ f + n \in f .. Len(s)
  OBVIOUS
<1>4. SubSeq(s, 1, f) \o SubSeq(s, f + 1, f + n) = SubSeq(s, 1, f + n)
  BY <1>3, ConcatAdjacentSubSeq
<1> QED
  BY <1>2, <1>4

\* A part of a byte sequence consists of bytes.
LEMMA PartOfBytes ==
    ASSUME NEW s \in Seq(Byte), NEW m \in Nat, NEW n \in Int, m > 0, n <= Len(s)
    PROVE  SubSeq(s, m, n) \in Seq(Byte)
<1>1. \A i \in m .. n : s[i] \in Byte
  OBVIOUS
<1> QED
  BY <1>1, SubSeqProperties

\* What the server sends, whole, continued or damaged, are bytes.
LEMMA InitStream == Init => stream \in Seq(Byte)
<1> SUFFICES ASSUME Init PROVE stream \in Seq(Byte)
  OBVIOUS
<1>1. Encode(resp) \in Seq(Byte) /\ Extras \subseteq Seq(Byte)
  BY BytesAssumption DEF Init
<1>2. CASE stream \in {Encode(resp) \o extra : extra \in Extras}
  BY <1>1, <1>2, ConcatProperties
<1>3. CASE stream \in {RemoveAt(Encode(resp), i) : i \in DOMAIN Encode(resp)}
  <2>1. PICK i \in 1 .. Len(Encode(resp)) : stream = RemoveAt(Encode(resp), i)
    BY <1>1, <1>3, LenProperties
  <2>2. /\ SubSeq(Encode(resp), 1, i - 1) \in Seq(Byte)
        /\ SubSeq(Encode(resp), i + 1, Len(Encode(resp))) \in Seq(Byte)
    <3>1. Len(Encode(resp)) \in Nat /\ i - 1 \in Int /\ i + 1 \in Nat
      BY <1>1, LenProperties
    <3> QED
      BY <1>1, <3>1, PartOfBytes
  <2> QED
    BY <2>1, <2>2, ConcatProperties DEF RemoveAt
<1> QED
  BY <1>2, <1>3 DEF Init

\* A new parser, before the first byte
LEMMA InitInv == Init => ParserInv
<1> SUFFICES ASSUME Init PROVE ParserInv
  OBVIOUS
<1>1. stream \in Seq(Byte)
  BY InitStream
<1>2. p = NewParser /\ fed = 0 /\ curr = 0 /\ resp \in Responses
  BY DEF Init
<1>3. /\ p.state = "STATUS_LINE" /\ p.raw = <<>> /\ p.start = 0 /\ p.contentLength = -1
      /\ p.chunked = FALSE /\ p.body = <<>> /\ p.firstLen = 0 /\ p.failed = FALSE
  BY <1>2 DEF NewParser
<1>4. p \in Parser
  BY <1>2 DEF NewParser, Parser, States, LineStates
<1>5. p.raw = SubSeq(stream, 1, fed)
  BY <1>2, <1>3, SubSeqEmpty
<1>6. Len(p.raw) = 0
  BY <1>3
<1> QED
  BY <1>1, <1>2, <1>3, <1>4, <1>5, <1>6
  DEF ParserInv, ParserTypeOK, Positions, Framed, KmipPositions

-----------------------------------------------------------------------------
\* What a line that could be parsed does to the parser: it changes neither
\* what has been read nor the body, and leads only to the states of the
\* response's parts in their order.
LineParsed(q, r) ==
    /\ r \in Parser
    /\ r.raw = q.raw /\ r.start = q.start /\ r.body = q.body
    /\ ~ r.failed =>
        /\ r.state \in {"HEADER", "BODY", "CHUNK_LENGTH", "CHUNK"}
        /\ r.state \in {"HEADER", "BODY"} => q.state \in {"STATUS_LINE", "HEADER"}
        /\ r.state = "BODY" => ~ r.chunked
        /\ r.state = "CHUNK_LENGTH" => r.chunked
        /\ r.state = "CHUNK" => q.state = "CHUNK_LENGTH" /\ r.chunked = q.chunked

\* What parsing the status line may change
LEMMA StatusLineParsed ==
    ASSUME NEW q \in Parser, NEW line \in Seq(Byte),
           q.state = "STATUS_LINE", ~ q.failed
    PROVE  LineParsed(q, ParseStatusLine(q, line))
<1>1. CASE line # <<>> /\ line[1][1] = "HTTP/1.1"
  <2>1. line[1] \in Byte
    BY <1>1
  <2>2. line[1][2] \in Nat
    BY <2>1 DEF Byte
  <2> DEFINE r == [q EXCEPT !.status = line[1][2], !.state = "HEADER"]
  <2>3. ParseStatusLine(q, line) = r
    BY <1>1 DEF ParseStatusLine
  <2>4. r \in Parser
    BY <2>2 DEF Parser, States, LineStates
  <2>5. r.raw = q.raw /\ r.start = q.start /\ r.body = q.body /\ r.state = "HEADER"
    BY DEF Parser
  <2> QED
    BY <2>3, <2>4, <2>5 DEF LineParsed
<1>2. CASE ~ (line # <<>> /\ line[1][1] = "HTTP/1.1")
  <2> DEFINE r == [q EXCEPT !.failed = TRUE]
  <2>1. ParseStatusLine(q, line) = r
    BY <1>2 DEF ParseStatusLine, KmsError
  <2>2. r \in Parser /\ r.raw = q.raw /\ r.start = q.start /\ r.body = q.body /\ r.failed
    BY DEF Parser
  <2> QED
    BY <2>1, <2>2 DEF LineParsed
<1> QED
  BY <1>1, <1>2

\* What failing may change
LEMMA ErrorParsed ==
    ASSUME NEW q \in Parser
    PROVE  LineParsed(q, KmsError(q)) /\ KmsError(q).failed
<1> DEFINE r == [q EXCEPT !.failed = TRUE]
<1>1. r \in Parser /\ r.raw = q.raw /\ r.start = q.start /\ r.body = q.body /\ r.failed
  BY DEF Parser
<1> QED
  BY <1>1 DEF LineParsed, KmsError

\* What parsing a header line, or the empty line behind them, may change
LEMMA HeaderParsed ==
    ASSUME NEW q \in Parser, NEW line \in Seq(Byte), q.state = "HEADER", ~ q.failed
    PROVE  LineParsed(q, ParseHeader(q, line))
<1>1. CASE line = <<>>
  <2> DEFINE s == IF q.chunked THEN "CHUNK_LENGTH" ELSE "BODY"
             r == [q EXCEPT !.state = s]
  <2>1. ParseHeader(q, line) = r
    BY <1>1 DEF ParseHeader
  <2>2. s \in States
    BY DEF States, LineStates
  <2>3. /\ r \in Parser /\ r.raw = q.raw /\ r.start = q.start /\ r.body = q.body
        /\ r.state = s /\ r.chunked = q.chunked
    BY <2>2 DEF Parser
  <2> QED
    BY <2>1, <2>3 DEF LineParsed
<1>2. CASE line # <<>> /\ line[1][1] \notin HeaderNames
  BY <1>2, ErrorParsed DEF ParseHeader
<1>3. CASE line # <<>> /\ line[1][1] \in HeaderNames
  <2> DEFINE name == line[1][1]
             value == HeaderValue(line)
             n == value[1][2]
  <2>0. LineParsed(q, q)
    BY DEF LineParsed
  <2>1. CASE name = "Content-Length:" /\ q.contentLength = -1
    <3>1. ParseHeader(q, line) =
             IF IsNumber(value) /\ n \in 0..MaxResponse
             THEN [q EXCEPT !.contentLength = n] ELSE KmsError(q)
      BY <1>3, <2>1 DEF ParseHeader
    <3>2. CASE n \in 0..MaxResponse
      <4> DEFINE r == [q EXCEPT !.contentLength = n]
      <4>0. n \in Nat \cup {-1}
        BY <3>2, ParserAssumption
      <4> HIDE DEF n
      <4>1. /\ r \in Parser /\ r.raw = q.raw /\ r.start = q.start /\ r.body = q.body
            /\ r.state = q.state
        BY <4>0 DEF Parser
      <4>2. LineParsed(q, r)
        BY <4>1 DEF LineParsed
      <4> QED
        BY <3>1, <4>2, ErrorParsed
    <3> QED
      BY <3>1, <3>2, ErrorParsed
  <2>2. CASE name = "Transfer-Encoding:"
    <3> DEFINE r == [q EXCEPT !.chunked = TRUE]
    <3>1. ParseHeader(q, line) = r \/ ParseHeader(q, line) = KmsError(q)
      BY <1>3, <2>2 DEF ParseHeader
    <3>2. /\ r \in Parser /\ r.raw = q.raw /\ r.start = q.start /\ r.body = q.body
          /\ r.state = q.state
      BY DEF Parser
    <3>3. LineParsed(q, r)
      BY <3>2 DEF LineParsed
    <3> QED
      BY <3>1, <3>3, ErrorParsed
  <2>3. CASE /\ ~ (name = "Content-Length:" /\ q.contentLength = -1)
             /\ name # "Transfer-Encoding:"
    BY <1>3, <2>0, <2>3 DEF ParseHeader
  <2> QED
    BY <2>1, <2>2, <2>3
<1> QED
  BY <1>1, <1>2, <1>3

\* What parsing the length of a chunk may change
LEMMA ChunkLengthParsed ==
    ASSUME NEW q \in Parser, NEW line, q.state = "CHUNK_LENGTH", ~ q.failed
    PROVE  LineParsed(q, ParseChunkLength(q, line))
<1> DEFINE size == IF line = <<>> THEN 0 ELSE line[1][2]
           r == [q EXCEPT !.chunkSize = size, !.state = "CHUNK"]
<1>1. CASE (line = <<>> \/ IsNumber(line)) /\ size \in 0..MaxResponse
  <2>1. ParseChunkLength(q, line) = r
    BY <1>1 DEF ParseChunkLength
  <2>0. size \in Nat /\ "CHUNK" \in States
    BY <1>1, ParserAssumption DEF States
  <2> HIDE DEF size
  <2>2. /\ r \in Parser /\ r.raw = q.raw /\ r.start = q.start /\ r.body = q.body
        /\ r.state = "CHUNK" /\ r.chunked = q.chunked
    BY <2>0 DEF Parser
  <2> QED
    BY <2>1, <2>2 DEF LineParsed
<1>2. CASE ~ ((line = <<>> \/ IsNumber(line)) /\ size \in 0..MaxResponse)
  BY <1>2, ErrorParsed DEF ParseChunkLength
<1> QED
  BY <1>1, <1>2

\* _parse_line
LEMMA LineParsedAlways ==
    ASSUME NEW q \in Parser, NEW end \in Int, end <= Len(q.raw),
           q.state \in LineStates, ~ q.failed
    PROVE  LineParsed(q, ParseLine(q, end))
<1> DEFINE line == SubSeq(q.raw, q.start + 1, end)
<1>1. q.raw \in Seq(Byte) /\ q.start \in Nat
  BY DEF Parser
<1>2. line \in Seq(Byte)
  BY <1>1, PartOfBytes
<1>3. CASE q.state = "STATUS_LINE"
  BY <1>2, <1>3, StatusLineParsed DEF ParseLine
<1>4. CASE q.state = "HEADER"
  BY <1>2, <1>4, HeaderParsed DEF ParseLine
<1>5. CASE q.state = "CHUNK_LENGTH"
  BY <1>5, ChunkLengthParsed, ErrorParsed DEF ParseLine
<1> QED
  BY <1>3, <1>4, <1>5 DEF LineStates

-----------------------------------------------------------------------------
(***************************************************************************)
(* One lemma per action.                                                   *)
(***************************************************************************)
\* kms_response_parser_wants_bytes, state by state
LEMMA HttpWants ==
    ASSUME NEW q, ~ Kmip
    PROVE  /\ q.state = "DONE" => WantsBytes(q) = 0
           /\ q.state \in LineStates => WantsBytes(q) = MaxRead
           /\ q.state = "CHUNK" =>
                WantsBytes(q) = q.chunkSize + 2 - (Len(q.raw) - q.start)
           /\ q.state = "BODY" =>
                WantsBytes(q) = q.contentLength - (Len(q.raw) - q.start)
<1>1. CASE q.state = "DONE"
  BY <1>1 DEF WantsBytes, LineStates
<1>2. CASE q.state \in LineStates
  BY <1>2 DEF WantsBytes, LineStates
<1>3. CASE q.state = "CHUNK"
  BY <1>3 DEF WantsBytes, LineStates
<1>4. CASE q.state = "BODY"
  BY <1>4 DEF WantsBytes, LineStates
<1> QED
  BY <1>1, <1>2, <1>3, <1>4 DEF LineStates

\* A parser that fails leaves nothing to show but its type.
LEMMA FailedInv ==
    ASSUME ParserInv, p' = KmsError(p), resp' = resp, stream' = stream,
           fed' \in 0..Len(stream), curr' \in Nat
    PROVE  ParserInv'
<1>1. p' \in Parser /\ p'.failed
  BY ErrorParsed DEF ParserInv, ParserTypeOK, LineParsed
<1> QED
  BY <1>1 DEF ParserInv, ParserTypeOK

\* kms_response_parser_feed before its loop
LEMMA FeedInv == ParserInv /\ Feed => ParserInv'
<1> SUFFICES ASSUME ParserInv, Feed PROVE ParserInv'
  OBVIOUS
<1>1. PICK n \in 1..MaxRead :
        /\ MayFeed(n)
        /\ p' = IF Len(p.raw) + n > MaxResponse THEN KmsError(p) ELSE Appended(n)
        /\ fed' = fed + n
  BY DEF Feed
<1>2. ~ Kmip /\ ~ Kmip' /\ resp' = resp /\ stream' = stream /\ curr' = curr
  BY DEF Feed, Kmip
<1>3. n \in Nat /\ n > 0
  BY ParserAssumption
<1>4. /\ stream \in Seq(Byte) /\ fed \in Nat /\ fed + n <= Len(stream) /\ curr \in Nat
      /\ p \in Parser /\ resp \in Responses /\ Len(stream) \in Nat
  BY <1>1, LenProperties DEF ParserInv, ParserTypeOK, MayFeed
<1>5. CASE Len(p.raw) + n > MaxResponse
  BY <1>1, <1>2, <1>3, <1>4, <1>5, FailedInv
<1>6. CASE ~ (Len(p.raw) + n > MaxResponse)
  <2> DEFINE more == SubSeq(stream, fed + 1, fed + n)
             r == [p EXCEPT !.raw = p.raw \o more]
  <2>1. p' = r
    BY <1>1, <1>6 DEF Appended
  <2>2. /\ more \in Seq(Byte) /\ Len(more) = n
        /\ SubSeq(stream, 1, fed) \o more = SubSeq(stream, 1, fed + n)
    BY <1>3, <1>4, ReadOn
  <2> HIDE DEF more
  <2>3. p.raw \in Seq(Byte) /\ p.start \in Nat
    BY <1>4 DEF Parser
  <2>4. /\ p.raw \o more \in Seq(Byte) /\ Len(p.raw \o more) = Len(p.raw) + n
        /\ \A i \in 1..Len(p.raw) : (p.raw \o more)[i] = p.raw[i]
    <3>1. /\ p.raw \o more \in Seq(Byte) /\ Len(p.raw \o more) = Len(p.raw) + Len(more)
          /\ \A i \in 1 .. Len(p.raw) + Len(more) : (p.raw \o more)[i] =
                IF i <= Len(p.raw) THEN p.raw[i] ELSE more[i - Len(p.raw)]
      BY <2>2, <2>3, ConcatProperties
    <3>2. Len(p.raw) \in Nat /\ Len(more) = n
      BY <2>2, <2>3, LenProperties
    <3> QED
      BY <1>3, <3>1, <3>2
  <2>5. /\ p' \in Parser /\ p'.raw = p.raw \o more /\ p'.failed = p.failed
        /\ p'.state = p.state /\ p'.start = p.start /\ p'.body = p.body
        /\ p'.chunked = p.chunked /\ p'.contentLength = p.contentLength
        /\ p'.chunkSize = p.chunkSize
    BY <1>4, <2>1, <2>4 DEF Parser
  <2>6. /\ ~ p.failed /\ p.raw = SubSeq(stream, 1, fed)
        /\ Positions(p, curr) /\ Framed(p) /\ curr = Len(p.raw)
        /\ n <= WantsBytes(p)
    BY <1>1, <1>2 DEF ParserInv, MayFeed, Idle
  <2>7. p.state # "DONE"
    BY <1>2, <1>3, <2>6, HttpWants
  <2>8. p'.raw = SubSeq(stream', 1, fed')
    BY <1>1, <1>2, <2>2, <2>5, <2>6
  <2>9. Positions(p', curr')
    <3>1. p.start <= curr /\ curr <= Len(p.raw) + n
      BY <1>3, <1>4, <2>6 DEF Positions
    <3>2. p.state = "HEADER" => p'.raw[p.start] = LF
      BY <2>3, <2>4, <2>5, <2>6, LenProperties DEF Positions
    <3> QED
      BY <1>2, <2>4, <2>5, <2>6, <3>1, <3>2 DEF Positions
  <2>10. Framed(p')
    BY <2>5, <2>6, <2>7 DEF Framed
  <2> QED
    BY <1>1, <1>2, <1>3, <1>4, <2>5, <2>8, <2>9, <2>10
    DEF ParserInv, ParserTypeOK
<1> QED
  BY <1>5, <1>6

\* What holds when the loop takes an iteration
LEMMA LoopFacts ==
    ASSUME NEW states, ParserInv, Loops(states)
    PROVE  /\ ~ Kmip /\ ~ p.failed /\ curr < Len(p.raw) /\ p.state \in states
           /\ Positions(p, curr) /\ Framed(p) /\ p.raw = SubSeq(stream, 1, fed)
           /\ p \in Parser /\ curr \in Nat /\ p.raw \in Seq(Byte) /\ Len(p.raw) \in Nat
           /\ p.start \in Nat /\ p.contentLength \in Nat \cup {-1} /\ p.chunkSize \in Nat
           /\ p.body \in Seq(Byte)
<1>1. p \in Parser /\ curr \in Nat
  BY DEF ParserInv, ParserTypeOK
<1>2. /\ p.raw \in Seq(Byte) /\ p.start \in Nat /\ p.contentLength \in Nat \cup {-1}
      /\ p.chunkSize \in Nat /\ p.body \in Seq(Byte)
  BY <1>1 DEF Parser
<1> QED
  BY <1>1, <1>2, LenProperties DEF ParserInv, Loops

\* The invariant after an iteration of the loop
LEMMA LoopInv ==
    ASSUME ParserInv, ~ Kmip, ~ p.failed, p' \in Parser, p'.raw = p.raw, curr' \in Nat,
           UNCHANGED <<resp, stream, fed>>,
           ~ p'.failed => Positions(p', curr') /\ Framed(p')
    PROVE  ParserInv'
BY DEF ParserInv, ParserTypeOK, Kmip

\* A position in a line state or at the end of a line
LEMMA ScanLineInv == ParserInv /\ ScanLine => ParserInv'
<1> SUFFICES ASSUME ParserInv, ScanLine PROVE ParserInv'
  OBVIOUS
<1> DEFINE parsed == ParseLine(p, curr - 1)
           moved == IF AtLineEnd
                    THEN IF parsed.failed THEN [parsed EXCEPT !.state = "DONE"]
                         ELSE [parsed EXCEPT !.start = curr + 1]
                    ELSE p
           ended == [moved EXCEPT !.state = "DONE"]
           Empty(q) == q.state = "BODY" /\ q.contentLength <= 0
<1>1. /\ p' = IF Empty(moved) THEN ended ELSE moved
      /\ curr' = curr + 1 /\ UNCHANGED <<resp, stream, fed>>
  BY DEF ScanLine
<1>2. Loops(LineStates)
  BY DEF ScanLine
<1>3. /\ ~ Kmip /\ ~ p.failed /\ curr < Len(p.raw) /\ p.state \in LineStates
      /\ Positions(p, curr) /\ Framed(p)
      /\ p \in Parser /\ curr \in Nat /\ p.raw \in Seq(Byte) /\ Len(p.raw) \in Nat
      /\ p.start \in Nat
  BY <1>2, LoopFacts
<1>4. CASE ~ AtLineEnd
  <2>1. moved = p
    BY <1>4
  <2> HIDE DEF moved
  <2>2. p' = p
    BY <1>1, <1>3, <2>1 DEF LineStates
  <2>3. Positions(p, curr + 1)
    BY <1>3 DEF Positions, LineStates
  <2>4. curr' = curr + 1
    BY <1>1
  <2>5. Positions(p', curr') /\ Framed(p') /\ p' \in Parser /\ p'.raw = p.raw /\ curr' \in Nat
    BY <1>3, <2>2, <2>3, <2>4
  <2> QED
    BY <1>1, <1>3, <2>5, LoopInv
<1>5. CASE AtLineEnd
  <2>0. LineParsed(p, parsed)
    BY <1>3, LineParsedAlways
  <2> HIDE DEF parsed
  <2>1. CASE parsed.failed
    <3>1. moved = [parsed EXCEPT !.state = "DONE"]
      BY <1>5, <2>1
    <3>2. moved \in Parser /\ moved.raw = p.raw /\ moved.failed /\ moved.state = "DONE"
      BY <2>0, <2>1, <3>1 DEF LineParsed, Parser, States
    <3>3. p' = moved
      BY <1>1, <3>2
    <3> QED
      BY <1>1, <1>3, <3>2, <3>3, LoopInv
  <2>2. CASE ~ parsed.failed
    <3>1. moved = [parsed EXCEPT !.start = curr + 1]
      BY <1>5, <2>2
    <3> HIDE DEF moved
    <3>0. /\ parsed \in Parser /\ parsed.raw = p.raw /\ parsed.body = p.body
          /\ curr + 1 \in Nat
      BY <1>3, <2>0 DEF LineParsed
    <3>2. /\ moved \in Parser /\ moved.raw = p.raw /\ moved.start = curr + 1
          /\ moved.state = parsed.state /\ moved.body = p.body /\ ~ moved.failed
          /\ moved.chunked = parsed.chunked /\ moved.chunkSize = parsed.chunkSize
          /\ moved.contentLength = parsed.contentLength
      BY <2>2, <3>0, <3>1 DEF Parser
    <3>3. /\ parsed.contentLength \in Nat \cup {-1} /\ parsed.chunkSize \in Nat
          /\ parsed.state \in {"HEADER", "BODY", "CHUNK_LENGTH", "CHUNK"}
          /\ parsed.state \in {"HEADER", "BODY"} => p.body = <<>>
          /\ parsed.state = "BODY" => ~ parsed.chunked
          /\ parsed.state \in {"CHUNK_LENGTH", "CHUNK"} => parsed.chunked
      BY <1>3, <2>0, <2>2 DEF LineParsed, Parser, Framed
    <3>4. p.raw[curr + 1] = LF
      BY <1>5 DEF AtLineEnd
    <3>5. CASE Empty(moved)
      <4>1. p' = ended
        BY <1>1, <3>5
      <4>2. /\ p' \in Parser /\ p'.raw = p.raw /\ p'.start = curr + 1 /\ p'.state = "DONE"
            /\ p'.body = p.body /\ ~ p'.failed /\ p'.contentLength <= 0
        BY <3>2, <3>5, <4>1 DEF Parser, States
      <4>3. Positions(p', curr')
        BY <1>1, <1>3, <4>2 DEF Positions
      <4>4. Framed(p')
        BY <3>2, <3>3, <3>5, <4>2 DEF Framed
      <4> QED
        BY <1>1, <1>3, <4>2, <4>3, <4>4, LoopInv
    <3>6. CASE ~ Empty(moved)
      <4>1. p' = moved
        BY <1>1, <3>6
      <4>2. Positions(moved, curr + 1)
        <5>1. moved.state = "BODY" => moved.contentLength > 0
          BY <3>2, <3>3, <3>6
        <5> QED
          BY <1>3, <3>2, <3>3, <3>4, <5>1 DEF Positions
      <4>3. Framed(moved)
        BY <3>2, <3>3 DEF Framed
      <4> QED
        BY <1>1, <1>3, <3>2, <4>1, <4>2, <4>3, LoopInv
    <3> QED
      BY <3>5, <3>6
  <2> QED
    BY <2>1, <2>2
<1> QED
  BY <1>4, <1>5

\* Taking the body behind the headers
LEMMA ReadBodyInv == ParserInv /\ ReadBody => ParserInv'
<1> SUFFICES ASSUME ParserInv, ReadBody PROVE ParserInv'
  OBVIOUS
<1> DEFINE read == Len(p.raw) - p.start
           part == SubSeq(p.raw, p.start + 1, p.start + read)
           done == [p EXCEPT !.body = part, !.state = "DONE"]
<1>1. /\ p' = IF p.contentLength = -1 \/ read > p.contentLength THEN KmsError(p)
              ELSE IF read = p.contentLength THEN done ELSE p
      /\ curr' = Len(p.raw) /\ UNCHANGED <<resp, stream, fed>>
  BY DEF ReadBody
<1>2. Loops({"BODY"})
  BY DEF ReadBody
<1>3. /\ ~ Kmip /\ ~ p.failed /\ curr < Len(p.raw) /\ p.state = "BODY"
      /\ Positions(p, curr) /\ Framed(p)
      /\ p \in Parser /\ curr \in Nat /\ p.raw \in Seq(Byte) /\ Len(p.raw) \in Nat
      /\ p.start \in Nat /\ p.contentLength \in Nat \cup {-1} /\ read \in Nat
  BY <1>2, LoopFacts DEF Positions
<1>4. part \in Seq(Byte) /\ p.start + read = Len(p.raw)
  BY <1>3, PartOfBytes
<1>5. fed \in 0..Len(stream)
  BY DEF ParserInv, ParserTypeOK
<1>6. CASE p.contentLength = -1 \/ read > p.contentLength
  BY <1>1, <1>3, <1>5, <1>6, FailedInv
<1>7. CASE read = p.contentLength /\ p.contentLength # -1
  <2>1. p' = done
    BY <1>1, <1>3, <1>7
  <2> HIDE DEF part
  <2>2. /\ p' \in Parser /\ p'.raw = p.raw /\ p'.start = p.start /\ p'.state = "DONE"
        /\ p'.body = part /\ p'.contentLength = p.contentLength /\ p'.chunked = p.chunked
    BY <1>3, <1>4, <2>1 DEF Parser, States
  <2>3. Positions(p', curr')
    BY <1>1, <1>3, <2>2 DEF Positions
  <2>4. Framed(p')
    <3>1. p.contentLength > 0 /\ p.start + p.contentLength = Len(p.raw)
      BY <1>3, <1>4, <1>7 DEF Positions
    <3>2. part = SubSeq(p.raw, p.start + 1, p.start + p.contentLength)
      BY <1>7 DEF part
    <3>3. ~ (p.contentLength <= 0) /\ p.start + p.contentLength <= Len(p.raw)
      BY <1>3, <3>1
    <3> QED
      BY <2>2, <3>2, <3>3 DEF Framed
  <2> QED
    BY <1>1, <1>3, <2>2, <2>3, <2>4, LoopInv
<1>8. CASE read < p.contentLength
  <2>1. p' = p
    BY <1>1, <1>3, <1>8
  <2>2. Positions(p, Len(p.raw))
    BY <1>3, <1>8 DEF Positions
  <2>3. Positions(p', curr') /\ Framed(p') /\ p' \in Parser /\ p'.raw = p.raw /\ curr' \in Nat
    BY <1>1, <1>3, <2>1, <2>2
  <2> QED
    BY <1>1, <1>3, <2>3, LoopInv
<1> QED
  BY <1>3, <1>6, <1>7, <1>8

\* Taking a chunk with its line end
LEMMA ReadChunkInv == ParserInv /\ ReadChunk => ParserInv'
<1> SUFFICES ASSUME ParserInv, ReadChunk PROVE ParserInv'
  OBVIOUS
<1> DEFINE end == p.start + p.chunkSize
           whole == p.body \o SubSeq(p.raw, p.start + 1, end)
           next == IF p.chunkSize = 0 THEN "DONE" ELSE "CHUNK_LENGTH"
           read == [p EXCEPT !.body = whole, !.start = end + 2, !.state = next]
<1>1. /\ IF Len(p.raw) >= end + 2 THEN p' = read /\ curr' = end + 2
         ELSE curr' = Len(p.raw) /\ p' = p
      /\ UNCHANGED <<resp, stream, fed>>
  BY DEF ReadChunk
<1>2. Loops({"CHUNK"})
  BY DEF ReadChunk
<1>3. /\ ~ Kmip /\ ~ p.failed /\ curr < Len(p.raw) /\ p.state = "CHUNK"
      /\ Positions(p, curr) /\ Framed(p)
      /\ p \in Parser /\ curr \in Nat /\ p.raw \in Seq(Byte) /\ Len(p.raw) \in Nat
      /\ p.start \in Nat /\ p.chunkSize \in Nat /\ end \in Nat /\ p.body \in Seq(Byte)
  BY <1>2, LoopFacts
<1>4. CASE Len(p.raw) >= end + 2
  <2>0. SubSeq(p.raw, p.start + 1, end) \in Seq(Byte)
    BY <1>3, <1>4, PartOfBytes
  <2>1. whole \in Seq(Byte) /\ next \in States /\ end + 2 \in Nat
    BY <1>3, <2>0, ConcatProperties DEF States, LineStates
  <2>2. p' = read /\ curr' = end + 2 /\ next \in {"DONE", "CHUNK_LENGTH"}
    BY <1>1, <1>4
  <2> HIDE DEF whole, next, end
  <2>3. /\ p' \in Parser /\ p'.raw = p.raw /\ p'.start = end + 2 /\ p'.state = next
        /\ p'.chunked = p.chunked
    BY <1>3, <2>1, <2>2 DEF Parser
  <2>4. Positions(p', curr')
    BY <1>3, <1>4, <2>1, <2>2, <2>3 DEF Positions
  <2>5. Framed(p')
    BY <1>3, <2>2, <2>3 DEF Framed
  <2> QED
    BY <1>1, <1>3, <2>1, <2>2, <2>3, <2>4, <2>5, LoopInv
<1>5. CASE ~ (Len(p.raw) >= end + 2)
  <2>1. Positions(p, Len(p.raw))
    BY <1>3, <1>5 DEF Positions
  <2>2. Positions(p', curr') /\ Framed(p') /\ p' \in Parser /\ p'.raw = p.raw /\ curr' \in Nat
    BY <1>1, <1>3, <1>5, <2>1
  <2> QED
    BY <1>1, <1>3, <2>2, LoopInv
<1> QED
  BY <1>4, <1>5

\* Bytes behind a complete response
LEMMA ExtraContentInv == ParserInv /\ ExtraContent => ParserInv'
<1> SUFFICES ASSUME ParserInv, ExtraContent PROVE ParserInv'
  OBVIOUS
<1>1. p' = KmsError(p) /\ UNCHANGED <<resp, stream, fed, curr>>
  BY DEF ExtraContent
<1>2. fed \in 0..Len(stream) /\ curr \in Nat
  BY DEF ParserInv, ParserTypeOK
<1> QED
  BY <1>1, <1>2, FailedInv

\* kms_kmip_response_parser_wants_bytes
LEMMA KmipWants ==
    ASSUME NEW q, Kmip
    PROVE  LET left == IF Len(q.raw) < 8 THEN 8 - Len(q.raw)
                       ELSE q.firstLen + 8 - Len(q.raw)
           IN  WantsBytes(q) = IF MaxRead < left THEN MaxRead ELSE left
BY DEF WantsBytes

\* kms_kmip_response_parser_feed
LEMMA FeedKmipInv == ParserInv /\ FeedKmip => ParserInv'
<1> SUFFICES ASSUME ParserInv, FeedKmip PROVE ParserInv'
  OBVIOUS
<1> DEFINE First(q) == [q EXCEPT !.firstLen = q.raw[8][2]]
           Taken(q) == IF p.firstLen > 0
                       THEN IF Len(q.raw) > p.firstLen + 8 THEN KmsError(q) ELSE q
                       ELSE IF Len(q.raw) < 8 THEN q
                       ELSE IF q.raw[8][2] > MaxResponse THEN KmsError(q)
                       ELSE First(q)
<1>1. PICK n \in 1..MaxRead :
        /\ MayFeed(n)
        /\ p' = IF Len(Appended(n).raw) > MaxResponse THEN KmsError(p)
                ELSE Taken(Appended(n))
        /\ fed' = fed + n
  BY DEF FeedKmip
<1>2. Kmip /\ Kmip' /\ resp' = resp /\ stream' = stream /\ curr' = Len(p'.raw)
  BY DEF FeedKmip, Kmip
<1>3. n \in Nat /\ n > 0
  BY ParserAssumption
<1>4. /\ stream \in Seq(Byte) /\ fed \in Nat /\ fed + n <= Len(stream)
      /\ p \in Parser /\ resp \in Responses /\ Len(stream) \in Nat
  BY <1>1, LenProperties DEF ParserInv, ParserTypeOK, MayFeed
<1>5. fed' \in 0..Len(stream)
  BY <1>1, <1>3, <1>4
<1> DEFINE more == SubSeq(stream, fed + 1, fed + n)
           q == [p EXCEPT !.raw = p.raw \o more]
<1>6. /\ more \in Seq(Byte) /\ Len(more) = n
      /\ SubSeq(stream, 1, fed) \o more = SubSeq(stream, 1, fed + n)
  BY <1>3, <1>4, ReadOn
<1>7. Appended(n) = q
  BY DEF Appended
<1> HIDE DEF more
<1>8. p.raw \in Seq(Byte) /\ p.firstLen \in Nat /\ Len(p.raw) \in Nat
  <2>1. p.raw \in Seq(Byte) /\ p.firstLen \in Nat
    BY <1>4 DEF Parser
  <2> QED
    BY <2>1, LenProperties
<1>9. /\ p.raw \o more \in Seq(Byte) /\ Len(p.raw \o more) = Len(p.raw) + n
      /\ \A i \in 1..Len(p.raw) : (p.raw \o more)[i] = p.raw[i]
  <2>1. /\ p.raw \o more \in Seq(Byte) /\ Len(p.raw \o more) = Len(p.raw) + Len(more)
        /\ \A i \in 1 .. Len(p.raw) + Len(more) : (p.raw \o more)[i] =
              IF i <= Len(p.raw) THEN p.raw[i] ELSE more[i - Len(p.raw)]
    BY <1>6, <1>8, ConcatProperties
  <2> QED
    BY <1>3, <1>6, <1>8, <2>1
<1>10. /\ q \in Parser /\ q.raw = p.raw \o more /\ q.failed = p.failed
       /\ q.firstLen = p.firstLen
  BY <1>4, <1>9 DEF Parser
<1> HIDE DEF q
<1>11. /\ ~ p.failed /\ p.raw = SubSeq(stream, 1, fed) /\ KmipPositions(p, curr)
       /\ n <= WantsBytes(p)
  BY <1>1, <1>2 DEF ParserInv, MayFeed
<1>12. q.raw = SubSeq(stream, 1, fed')
  BY <1>1, <1>6, <1>10, <1>11
<1>13. Len(q.raw) = Len(p.raw) + n
  BY <1>9, <1>10
<1>14. /\ Len(p.raw) < 8 => p.firstLen = 0 /\ Len(q.raw) <= 8
       /\ Len(p.raw) >= 8 => /\ p.firstLen = p.raw[8][2] /\ p.firstLen > 0
                             /\ Len(q.raw) <= p.firstLen + 8
  <2>1. MaxRead \in Nat
    BY ParserAssumption
  <2>2. CASE Len(p.raw) < 8
    <3>1. n <= 8 - Len(p.raw)
      BY <1>2, <1>3, <1>8, <1>11, <2>1, <2>2, KmipWants
    <3> QED
      BY <1>3, <1>8, <1>11, <1>13, <2>2, <3>1 DEF KmipPositions
  <2>3. CASE Len(p.raw) >= 8
    <3>1. n <= p.firstLen + 8 - Len(p.raw)
      BY <1>2, <1>3, <1>8, <1>11, <2>1, <2>3, KmipWants
    <3> QED
      BY <1>3, <1>8, <1>11, <1>13, <2>3, <3>1 DEF KmipPositions
  <2> QED
    BY <1>8, <2>2, <2>3
\* What is left to show: the outcome has a type, and its bounds if it is no error
<1>15. ASSUME p' \in Parser,
              ~ p'.failed => /\ p'.raw = q.raw
                             /\ Len(q.raw) < 8 => p'.firstLen = 0
                             /\ Len(q.raw) >= 8 => /\ p'.firstLen = q.raw[8][2]
                                                   /\ Len(q.raw) <= p'.firstLen + 8
       PROVE  ParserInv'
  <2>1. p'.raw \in Seq(Byte)
    BY <1>15 DEF Parser
  <2>2. curr' \in Nat
    BY <1>2, <2>1, LenProperties
  <2>3. ~ p'.failed => KmipPositions(p', curr') /\ p'.raw = SubSeq(stream', 1, fed')
    BY <1>2, <1>12, <1>15 DEF KmipPositions
  <2> QED
    BY <1>2, <1>4, <1>5, <1>15, <2>2, <2>3 DEF ParserInv, ParserTypeOK
<1>16. CASE Len(q.raw) > MaxResponse
  <2>1. p' = KmsError(p)
    BY <1>1, <1>7, <1>16
  <2> QED
    BY <1>4, <1>15, <2>1, ErrorParsed DEF LineParsed
<1>17. CASE ~ (Len(q.raw) > MaxResponse)
  <2>0. p' = Taken(q)
    BY <1>1, <1>7, <1>17
  <2>1. CASE Len(p.raw) >= 8
    <3>1. p' = q
      BY <1>8, <1>10, <1>13, <1>14, <2>0, <2>1
    <3>2. Len(q.raw) >= 8 /\ ~ (Len(q.raw) < 8) /\ q.raw[8] = p.raw[8]
      BY <1>3, <1>8, <1>9, <1>10, <1>13, <2>1
    <3> QED
      BY <1>10, <1>14, <1>15, <2>1, <3>1, <3>2
  <2>2. CASE Len(p.raw) < 8 /\ Len(q.raw) < 8
    <3>1. p' = q
      BY <1>14, <2>0, <2>2
    <3> QED
      BY <1>3, <1>8, <1>10, <1>13, <1>14, <1>15, <2>2, <3>1
  <2>3. CASE Len(p.raw) < 8 /\ ~ (Len(q.raw) < 8)
    <3>1. Len(q.raw) = 8 /\ p.firstLen = 0
      BY <1>3, <1>8, <1>13, <1>14, <2>3
    <3>2. p' = IF q.raw[8][2] > MaxResponse THEN KmsError(q) ELSE First(q)
      BY <2>0, <2>3, <3>1
    <3>3. q.raw \in Seq(Byte)
      BY <1>10 DEF Parser
    <3>4. q.raw[8] \in Byte
      BY <3>1, <3>3
    <3>5. q.raw[8][2] \in Nat
      BY <3>4 DEF Byte
    <3>6. CASE p' = KmsError(q)
      BY <1>10, <1>15, <3>6, ErrorParsed DEF LineParsed
    <3>7. CASE p' = First(q)
      <4>1. p' \in Parser /\ p'.raw = q.raw /\ p'.firstLen = q.raw[8][2]
        BY <1>10, <3>5, <3>7 DEF Parser
      <4> QED
        BY <1>15, <3>1, <3>5, <4>1
    <3> QED
      BY <3>2, <3>6, <3>7
  <2> QED
    BY <1>8, <2>1, <2>2, <2>3
<1> QED
  BY <1>16, <1>17

\* Every step of feed and of the driver keeps the invariant.
LEMMA NextInv == ParserInv /\ [Next]_vars => ParserInv'
<1> SUFFICES ASSUME ParserInv, [Next]_vars PROVE ParserInv'
  OBVIOUS
<1>1. CASE UNCHANGED vars
  BY <1>1 DEF vars, ParserInv, ParserTypeOK, Kmip
<1> QED
  BY <1>1, FeedInv, ScanLineInv, ReadBodyInv, ReadChunkInv, ExtraContentInv, FeedKmipInv
  DEF Next

(***************************************************************************)
(* The invariant of the parsers: whatever a server sends and however it is *)
(* cut into pieces, a parser that has not failed has read a prefix of the  *)
(* stream, its line or chunk starts inside it, and a body framed by its    *)
(* length is that many bytes of the stream.                                *)
(***************************************************************************)
THEOREM ParserInvHolds == Spec => []ParserInv
BY InitInv, NextInv, PTL DEF Spec

-----------------------------------------------------------------------------
(***************************************************************************)
(* What follows from the invariant.                                        *)
(***************************************************************************)
\* The number of bytes wanted is never negative.
WantsNotNegative == Idle /\ ~ p.failed => WantsBytes(p) >= 0

\* A status or header line that is parsed does not end before it starts.
LinesInOrder ==
    Loops({"STATUS_LINE", "HEADER"}) /\ AtLineEnd => p.start <= curr - 1

\* A body that is not chunked is the bytes of the stream that the length in
\* the header counts.
BodyAsFramed ==
    ~ p.failed /\ ~ Kmip /\ p.state = "DONE" /\ ~ p.chunked =>
        p.body = IF p.contentLength <= 0 THEN <<>>
                 ELSE SubSeq(p.raw, p.start + 1, p.start + p.contentLength)

\* A table over 1..k is a sequence of length k.
LEMMA TableIsSeq ==
    ASSUME NEW S, NEW k \in Nat, NEW f \in [1..k -> S]
    PROVE  f \in Seq(S) /\ Len(f) = k
OBVIOUS

\* What a parser of KMIP has of an intact response
LEMMA KmipPrefix ==
    ASSUME ParserInv, Kmip, ~ p.failed, Intact
    PROVE  LET n == Len(Body(resp))
           IN  /\ n \in Nat /\ Len(Encode(resp)) = n + 8
               /\ Len(p.raw) \in Nat /\ p.firstLen \in Nat
               /\ Len(p.raw) >= 8 => p.firstLen = n
               /\ Len(p.raw) = n + 8 => p.raw = Encode(resp)
<1> DEFINE body == Body(resp)
           n == Len(body)
           h == KmipHeader(n)
           e == Encode(resp)
<1>1. body \in Seq(Byte) /\ e \in Seq(Byte) /\ n \in Nat
  BY BytesAssumption, LenProperties DEF ParserInv, ParserTypeOK
<1>2. e = h \o body
  BY DEF Encode, Kmip
<1>3. h \in [1..8 -> {h[i] : i \in 1..8}] /\ h[8] = <<"number", n>>
  BY DEF KmipHeader, Number
<1> HIDE DEF h, e, body
<1> DEFINE S == Byte \cup {h[i] : i \in 1..8}
<1>4. h \in Seq(S) /\ Len(h) = 8 /\ body \in Seq(S)
  <2>1. h \in [1..8 -> S] /\ 8 \in Nat /\ Byte \subseteq S
    BY <1>3
  <2> HIDE DEF S
  <2>2. h \in Seq(S) /\ Len(h) = 8
    BY <2>1, TableIsSeq
  <2> QED
    BY <1>1, <2>1, <2>2, SeqMonotonic
<1> HIDE DEF S
<1>5. Len(e) = n + 8 /\ e[8] = <<"number", n>>
  <2>1. /\ Len(h \o body) = 8 + n
        /\ (h \o body)[8] = h[8]
    <3>1. /\ Len(h \o body) = Len(h) + Len(body)
          /\ \A i \in 1 .. Len(h) + Len(body) : (h \o body)[i] =
                IF i <= Len(h) THEN h[i] ELSE body[i - Len(h)]
      BY <1>1, <1>4, ConcatProperties
    <3> QED
      BY <1>1, <1>4, <3>1
  <2> QED
    BY <1>1, <1>2, <1>3, <2>1
<1>6. /\ p.raw = SubSeq(stream, 1, fed) /\ stream \in Seq(Byte) /\ fed \in 0..Len(stream)
      /\ p.raw \in Seq(Byte) /\ p.firstLen \in Nat
  <2>1. p \in Parser
    BY DEF ParserInv, ParserTypeOK
  <2> QED
    BY <2>1 DEF ParserInv, ParserTypeOK, Parser
<1>7. Len(p.raw) = fed /\ \A i \in 1..fed : p.raw[i] = stream[i]
  <2>1. \A i \in 1..fed : stream[i] \in Byte
    BY <1>6
  <2>2. fed \in Int /\ fed >= 0 /\ 1 \in Int
    BY <1>6, LenProperties
  <2>3. /\ Len(SubSeq(stream, 1, fed)) = IF 1 <= fed THEN fed - 1 + 1 ELSE 0
        /\ \A i \in 1 .. fed - 1 + 1 : SubSeq(stream, 1, fed)[i] = stream[1 + i - 1]
    BY <2>1, <2>2, SubSeqProperties
  <2> QED
    BY <1>6, <2>2, <2>3
<1>8. Len(e) <= Len(stream) /\ e = SubSeq(stream, 1, Len(e))
  BY <1>1, SubSeqFull DEF Intact, IsPrefix, e
<1>9. Len(p.raw) = n + 8 => p.raw = e
  BY <1>5, <1>6, <1>7, <1>8
<1>10. Len(p.raw) >= 8 => p.firstLen = n
  <2> SUFFICES ASSUME fed >= 8 PROVE p.firstLen = n
    BY <1>7
  <2>1. e[8] = stream[8]
    <3>1. \A i \in 1 .. Len(e) : stream[i] \in Byte
      BY <1>6, <1>8
    <3>2. Len(e) \in Int /\ 8 \in 1 .. Len(e) - 1 + 1
      BY <1>1, <1>5
    <3>3. \A i \in 1 .. Len(e) - 1 + 1 : SubSeq(stream, 1, Len(e))[i] = stream[1 + i - 1]
      BY <3>1, <3>2, SubSeqProperties
    <3>4. 1 + 8 - 1 = 8
      OBVIOUS
    <3> QED
      BY <1>8, <3>2, <3>3, <3>4
  <2>2. p.raw[8] = stream[8]
    BY <1>6, <1>7
  <2>3. p.firstLen = p.raw[8][2]
    BY <1>7 DEF ParserInv, KmipPositions
  <2> QED
    BY <1>5, <2>1, <2>2, <2>3
<1> QED
  BY <1>1, <1>5, <1>6, <1>7, <1>9, <1>10, LenProperties DEF e, body

(***************************************************************************)
(* Whatever the server sends, neither parser ever asks the driver for a    *)
(* negative number of bytes: the assertion in                              *)
(* mongocrypt_kms_ctx_bytes_needed cannot fail.                            *)
(***************************************************************************)
THEOREM NeverWantsNegative == Spec => []WantsNotNegative
<1>1. ParserInv => WantsNotNegative
  <2> SUFFICES ASSUME ParserInv, Idle, ~ p.failed PROVE WantsBytes(p) >= 0
    BY DEF WantsNotNegative
  <2>1. p \in Parser /\ curr = Len(p.raw) /\ MaxRead \in Nat
    BY ParserAssumption DEF ParserInv, ParserTypeOK, Idle
  <2>2. /\ p.raw \in Seq(Byte) /\ p.state \in States /\ p.start \in Nat
        /\ p.contentLength \in Nat \cup {-1} /\ p.chunkSize \in Nat /\ p.firstLen \in Nat
    BY <2>1 DEF Parser
  <2>3. Len(p.raw) \in Nat
    BY <2>2, LenProperties
  <2>4. CASE Kmip
    BY <2>1, <2>2, <2>3, <2>4, KmipWants DEF ParserInv, KmipPositions
  <2>5. CASE ~ Kmip
    <3>1. Positions(p, Len(p.raw))
      BY <2>1, <2>5 DEF ParserInv
    <3>2. CASE p.state = "BODY"
      BY <2>2, <2>3, <2>5, <3>1, <3>2, HttpWants DEF Positions
    <3>3. CASE p.state = "CHUNK"
      BY <2>2, <2>3, <2>5, <3>1, <3>3, HttpWants DEF Positions
    <3>4. CASE p.state \in LineStates \cup {"DONE"}
      BY <2>1, <2>5, <3>4, HttpWants
    <3> QED
      BY <2>2, <3>2, <3>3, <3>4 DEF States
  <2> QED
    BY <2>4, <2>5
<1> QED
  BY <1>1, ParserInvHolds, PTL

(***************************************************************************)
(* A status or header line never ends before it starts, whatever the       *)
(* server sends, so that _parse_line compares and copies only what has     *)
(* been read (after a chunk that is not so: its line end is not checked).  *)
(***************************************************************************)
THEOREM LinesAlwaysInOrder == Spec => []LinesInOrder
<1>1. ParserInv => LinesInOrder
  <2> SUFFICES ASSUME ParserInv, Loops({"STATUS_LINE", "HEADER"}), AtLineEnd
               PROVE  p.start <= curr - 1
    BY DEF LinesInOrder
  <2>1. /\ p.state \in {"STATUS_LINE", "HEADER"} /\ Positions(p, curr)
        /\ curr \in Nat /\ p.start \in Nat
    BY LoopFacts
  <2>2. curr > 0 /\ p.raw[curr] = CR
    BY DEF AtLineEnd
  <2>3. CR # LF
    BY DEF CR, LF
  <2> QED
    BY <2>1, <2>2, <2>3 DEF Positions
<1> QED
  BY <1>1, ParserInvHolds, PTL

(***************************************************************************)
(* The body of a response that is not chunked is exactly the bytes of the  *)
(* stream that the Content-Length counts, and empty without one.           *)
(***************************************************************************)
THEOREM BodyAlwaysAsFramed == Spec => []BodyAsFramed
<1>1. ParserInv => BodyAsFramed
  BY DEF ParserInv, BodyAsFramed, Framed
<1> QED
  BY <1>1, ParserInvHolds, PTL

(***************************************************************************)
(* The KMIP parser knows the length of the response from the first eight   *)
(* bytes and never asks for more than the rest of an intact response:      *)
(* NeverOverAsks, for every response, limit and way to cut the stream.     *)
(***************************************************************************)
THEOREM KmipNeverOverAsks == Spec => [](Kmip => NeverOverAsks)
<1>1. ParserInv /\ WantsNotNegative => (Kmip => NeverOverAsks)
  <2> SUFFICES ASSUME ParserInv, WantsNotNegative, Kmip, Idle, ~ p.failed, Intact
               PROVE  Len(p.raw) + WantsBytes(p) <= Len(Encode(resp))
    BY DEF NeverOverAsks, WantsNotNegative
  <2> DEFINE n == Len(Body(resp))
  <2>1. /\ n \in Nat /\ Len(Encode(resp)) = n + 8
        /\ Len(p.raw) \in Nat /\ p.firstLen \in Nat
        /\ Len(p.raw) >= 8 => p.firstLen = n
    BY KmipPrefix
  <2>2. MaxRead \in Nat
    BY ParserAssumption
  <2> HIDE DEF n
  <2> QED
    BY <2>1, <2>2, KmipWants
<1> QED
  BY <1>1, ParserInvHolds, NeverWantsNegative, PTL

(***************************************************************************)
(* When the KMIP parser wants no more bytes it has exactly the bytes of    *)
(* the response the server sent, also when more bytes follow:              *)
(* ResponseAsSent, for every response, limit and way to cut the stream.    *)
(***************************************************************************)
THEOREM KmipResponseAsSent == Spec => [](Kmip => ResponseAsSent)
<1>1. ParserInv => (Kmip => ResponseAsSent)
  <2> SUFFICES ASSUME ParserInv, Kmip, ~ p.failed, WantsBytes(p) = 0, Intact
               PROVE  p.raw = Encode(resp)
    BY DEF ResponseAsSent, Complete
  <2> DEFINE n == Len(Body(resp))
  <2>1. /\ n \in Nat /\ Len(Encode(resp)) = n + 8
        /\ Len(p.raw) \in Nat /\ p.firstLen \in Nat
        /\ Len(p.raw) >= 8 => p.firstLen = n
        /\ Len(p.raw) = n + 8 => p.raw = Encode(resp)
    BY KmipPrefix
  <2>2. MaxRead \in Nat /\ MaxRead > 0
    BY ParserAssumption
  <2> HIDE DEF n
  <2>3. Len(p.raw) = n + 8
    BY <2>1, <2>2, KmipWants
  <2> QED
    BY <2>1, <2>3
<1> QED
  BY <1>1, ParserInvHolds, PTL
=============================================================================
