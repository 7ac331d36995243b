--------------------------- MODULE ResponseParser ---------------------------
(***************************************************************************)
(* The incremental parsers of KMS responses: kms_response_parser.c for     *)
(* HTTP and kms_kmip_response_parser.c for KMIP, fed by a driver that      *)
(* reads a byte stream in pieces of any size up to what the parser wants.  *)
(*                                                                         *)
(* A byte is a pair <<kind, n>>.  A run of characters that the parser      *)
(* takes as a whole (a header name with its colon, a number) is one byte,  *)
(* so every place where the code looks at a character is still a place     *)
(* where a piece may end.  Positions count from 0 as in the code: byte n   *)
(* of the response is raw[n + 1].                                          *)
(***************************************************************************)
EXTENDS Integers, SequencesExt

CONSTANTS
    Responses,      \* the responses servers send (see Response)
    Extras,         \* byte sequences that may follow a response
    Damage,         \* may a response lack one of its bytes?
    MaxResponse,    \* KMS_PARSER_MAX_RESPONSE_LEN
    MaxRead         \* DEFAULT_MAX_KMS_BYTE_REQUEST

ASSUME ParserAssumption ==
    /\ Damage \in BOOLEAN
    /\ MaxResponse \in Nat
    /\ MaxRead \in Nat \ {0}

Byte == STRING \X Nat

-----------------------------------------------------------------------------
(***************************************************************************)
(* What servers send.  An HTTP response has a status, headers that do not  *)
(* concern the parser, and a body framed by its length, by chunks or not   *)
(* at all; "pad" is optional white space after a header value.  A KMIP     *)
(* response is one TTLV item, of which the parser reads only the length.   *)
(***************************************************************************)
CR == <<"CR", 0>>
LF == <<"LF", 0>>
SP == <<"SP", 0>>
Line(content) == content \o <<CR, LF>>
Number(n) == <<"number", n>>

Header(name, value, pad) ==
    Line(<<<<name, 0>>, SP, value>> \o (IF pad THEN <<SP>> ELSE <<>>))

Chunk(data) == Line(<<Number(Len(data))>>) \o Line(data)

\* The 8 bytes of tag, type and length that start a TTLV item
KmipHeader(len) == [i \in 1..8 |-> IF i = 8 THEN Number(len) ELSE <<"ttlv", i>>]

Body(r) == FlattenSeq(r.chunks)

Encode(r) ==
    IF r.framing = "kmip" THEN KmipHeader(Len(Body(r))) \o Body(r)
    ELSE Line(<<<<"HTTP/1.1", r.status>>>>)
         \o FlattenSeq([i \in 1..r.others |-> Header("Other:", <<"text", i>>, FALSE)])
         \o CASE r.framing = "length" ->
                    Header("Content-Length:", Number(Len(Body(r))), r.pad)
                    \o Line(<<>>) \o Body(r)
              [] r.framing = "chunked" ->
                    Header("Transfer-Encoding:", <<"chunked", 0>>, r.pad)
                    \o Line(<<>>)
                    \o FlattenSeq([i \in DOMAIN r.chunks |-> Chunk(r.chunks[i])])
                    \o Chunk(<<>>)
              [] r.framing = "none" -> Line(<<>>)

\* What is sent are bytes.
ASSUME BytesAssumption ==
    /\ \A r \in Responses : Body(r) \in Seq(Byte) /\ Encode(r) \in Seq(Byte)
    /\ Extras \subseteq Seq(Byte)

-----------------------------------------------------------------------------
VARIABLES
    resp,       \* the response
    stream,     \* the bytes the server sends
    fed,        \* how many of them the driver has fed
    p,          \* the parser
    curr        \* the position the loop of feed has reached

vars == <<resp, stream, fed, p, curr>>

LineStates == {"STATUS_LINE", "HEADER", "CHUNK_LENGTH"}

\* kms_response_parser_t, _parser_init; firstLen is of the KMIP parser.
NewParser == [state |-> "STATUS_LINE", raw |-> <<>>, start |-> 0,
              contentLength |-> -1, chunked |-> FALSE, chunkSize |-> 0,
              status |-> 0, body |-> <<>>, failed |-> FALSE, firstLen |-> 0]

KmsError(q) == [q EXCEPT !.failed = TRUE]

\* The driver reads again when the loop of feed has consumed everything.
Idle == curr = Len(p.raw)

Kmip == resp.framing = "kmip"

\* Variant: what has been read of a chunk is not deducted.
WantsWholeChunk(q) ==
    CASE Kmip -> IF Len(q.raw) < 8 THEN 8 - Len(q.raw) ELSE q.firstLen + 8 - Len(q.raw)
      [] ~ Kmip /\ q.state = "DONE" -> 0
      [] ~ Kmip /\ q.state \in LineStates -> MaxRead
      [] ~ Kmip /\ q.state = "CHUNK" -> q.chunkSize + 2
      [] ~ Kmip /\ q.state = "BODY" -> q.contentLength - (Len(q.raw) - q.start)

(***************************************************************************)
(* kms_response_parser_wants_bytes and the KMIP one, which caps the bytes  *)
(* it asks for.                                                            *)
(***************************************************************************)
WantsBytes(q) ==
    CASE Kmip -> LET left == IF Len(q.raw) < 8 THEN 8 - Len(q.raw)
                             ELSE q.firstLen + 8 - Len(q.raw)
                 IN  IF MaxRead < left THEN MaxRead ELSE left
      [] ~ Kmip /\ q.state = "DONE" -> 0
      [] ~ Kmip /\ q.state \in LineStates -> MaxRead
      [] ~ Kmip /\ q.state = "CHUNK" -> q.chunkSize + 2 - (Len(q.raw) - q.start)
      [] ~ Kmip /\ q.state = "BODY" -> q.contentLength - (Len(q.raw) - q.start)

(***************************************************************************)
(* _parse_line: the parser once it has the line of raw that ends before    *)
(* position end.                                                           *)
(***************************************************************************)
\* The first position from which no white space is skipped
SkipSpace(line) == SelectInSeq(line, LAMBDA b : b # SP)

(***************************************************************************)
(* A header value: leading white space is skipped.  The search backwards   *)
(* for its end starts at the CR behind the line, so it stops there at      *)
(* once.                                                                   *)
(***************************************************************************)
HeaderValue(line) ==
    LET value == Tail(line)
        first == SkipSpace(value)
    IN  IF first = 0 THEN <<>> ELSE SubSeq(value, first, Len(value))

IsNumber(value) == Len(value) = 1 /\ value[1][1] = "number"

ParseStatusLine(q, line) ==
    IF line # <<>> /\ line[1][1] = "HTTP/1.1"
    THEN [q EXCEPT !.status = line[1][2], !.state = "HEADER"]
    ELSE KmsError(q)

HeaderNames == {"Content-Length:", "Transfer-Encoding:", "Other:"}

ParseHeader(q, line) ==
    IF line = <<>>
    THEN [q EXCEPT !.state = IF q.chunked THEN "CHUNK_LENGTH" ELSE "BODY"]
    ELSE IF line[1][1] \notin HeaderNames THEN KmsError(q)
    ELSE LET name == line[1][1]
             value == HeaderValue(line)
         IN  CASE name = "Content-Length:" /\ q.contentLength = -1 ->
                    IF IsNumber(value) /\ value[1][2] \in 0..MaxResponse
                    THEN [q EXCEPT !.contentLength = value[1][2]]
                    ELSE KmsError(q)
               [] name = "Transfer-Encoding:" ->
                    IF value = <<<<"chunked", 0>>>>
                    THEN [q EXCEPT !.chunked = TRUE]
                    ELSE KmsError(q)
               [] OTHER -> q

\* An empty line has the chunk length 0 (unhexlify).
ParseChunkLength(q, line) ==
    LET size == IF line = <<>> THEN 0 ELSE line[1][2]
    IN  IF (line = <<>> \/ IsNumber(line)) /\ size \in 0..MaxResponse
        THEN [q EXCEPT !.chunkSize = size, !.state = "CHUNK"]
        ELSE KmsError(q)

\* The two bytes behind a chunk are not looked at: a line end there that lies
\* half in the next line makes that line end before it starts, which
\* _parse_hex_from_view asserts against.  The parser goes no further.
ParseLine(q, end) ==
    LET line == SubSeq(q.raw, q.start + 1, end)
    IN  CASE q.state = "STATUS_LINE" -> ParseStatusLine(q, line)
          [] q.state = "HEADER" -> ParseHeader(q, line)
          [] q.state = "CHUNK_LENGTH" ->
                IF end < q.start THEN KmsError(q) ELSE ParseChunkLength(q, line)

-----------------------------------------------------------------------------
Init ==
    /\ resp \in Responses
    /\ stream \in {Encode(resp) \o extra : extra \in Extras} \cup
                  (IF Damage THEN {RemoveAt(Encode(resp), i) : i \in DOMAIN Encode(resp)}
                   ELSE {})
    /\ fed = 0
    /\ p = NewParser
    /\ curr = 0

\* The driver may feed n bytes: mongocrypt_kms_ctx_feed checks the count.
MayFeed(n) ==
    /\ Idle /\ ~ p.failed
    /\ n <= WantsBytes(p)
    /\ fed + n <= Len(stream)

Appended(n) == [p EXCEPT !.raw = @ \o SubSeq(stream, fed + 1, fed + n)]

\* kms_response_parser_feed up to its loop
Feed ==
    /\ ~ Kmip
    /\ \E n \in 1..MaxRead :
        /\ MayFeed(n)
        /\ p' = IF Len(p.raw) + n > MaxResponse THEN KmsError(p) ELSE Appended(n)
        /\ fed' = fed + n
    /\ UNCHANGED <<resp, stream, curr>>

\* One iteration of the loop in one of these states
Loops(states) ==
    /\ ~ Kmip
    /\ ~ p.failed
    /\ curr < Len(p.raw)
    /\ p.state \in states

AtLineEnd == curr > 0 /\ p.raw[curr] = CR /\ p.raw[curr + 1] = LF

ScanLine ==
    /\ Loops(LineStates)
    /\ LET parsed == ParseLine(p, curr - 1)
           moved == IF AtLineEnd
                    THEN IF parsed.failed THEN [parsed EXCEPT !.state = "DONE"]
                         ELSE [parsed EXCEPT !.start = curr + 1]
                    ELSE p
       IN  p' = IF moved.state = "BODY" /\ moved.contentLength <= 0
                THEN [moved EXCEPT !.state = "DONE"] ELSE moved
    /\ curr' = curr + 1
    /\ UNCHANGED <<resp, stream, fed>>

\* Variant: bytes behind the body are taken for a part of it.
ReadBodyAndMore ==
    /\ Loops({"BODY"})
    /\ LET read == Len(p.raw) - p.start
       IN  p' = IF p.contentLength = -1 THEN KmsError(p)
                ELSE IF read >= p.contentLength
                THEN [p EXCEPT !.body = SubSeq(p.raw, p.start + 1, p.start + read),
                               !.state = "DONE"]
                ELSE p
    /\ curr' = Len(p.raw)
    /\ UNCHANGED <<resp, stream, fed>>

ReadBody ==
    /\ Loops({"BODY"})
    /\ LET read == Len(p.raw) - p.start
       IN  p' = IF p.contentLength = -1 \/ read > p.contentLength THEN KmsError(p)
                ELSE IF read = p.contentLength
                THEN [p EXCEPT !.body = SubSeq(p.raw, p.start + 1, p.start + read),
                               !.state = "DONE"]
                ELSE p
    /\ curr' = Len(p.raw)
    /\ UNCHANGED <<resp, stream, fed>>

\* Variant: the line end behind a chunk is not waited for.
ReadChunkNoLineEnd ==
    /\ Loops({"CHUNK"})
    /\ LET end == p.start + p.chunkSize
       IN  IF Len(p.raw) >= end
           THEN /\ p' = [p EXCEPT
                            !.body = @ \o SubSeq(p.raw, p.start + 1, end),
                            !.start = end,
                            !.state = IF p.chunkSize = 0 THEN "DONE"
                                      ELSE "CHUNK_LENGTH"]
                /\ curr' = end
           ELSE /\ curr' = Len(p.raw)
                /\ UNCHANGED p
    /\ UNCHANGED <<resp, stream, fed>>

ReadChunk ==
    /\ Loops({"CHUNK"})
    /\ LET end == p.start + p.chunkSize
       IN  IF Len(p.raw) >= end + 2
           THEN /\ p' = [p EXCEPT
                            !.body = @ \o SubSeq(p.raw, p.start + 1, end),
                            !.start = end + 2,
                            !.state = IF p.chunkSize = 0 THEN "DONE"
                                      ELSE "CHUNK_LENGTH"]
                /\ curr' = end + 2
           ELSE /\ curr' = Len(p.raw)
                /\ UNCHANGED p
    /\ UNCHANGED <<resp, stream, fed>>

ExtraContent ==
    /\ Loops({"DONE"})
    /\ p' = KmsError(p)
    /\ UNCHANGED <<resp, stream, fed, curr>>

\* kms_kmip_response_parser_feed
FeedKmip ==
    /\ Kmip
    /\ \E n \in 1..MaxRead :
        /\ MayFeed(n)
        /\ LET q == Appended(n)
               len == Len(q.raw)
           IN  p' = IF len > MaxResponse THEN KmsError(p)
                    ELSE IF p.firstLen > 0
                    THEN IF len > p.firstLen + 8 THEN KmsError(q) ELSE q
                    ELSE IF len < 8 THEN q
                    ELSE IF q.raw[8][2] > MaxResponse THEN KmsError(q)
                    ELSE [q EXCEPT !.firstLen = q.raw[8][2]]
        /\ fed' = fed + n
    /\ curr' = Len(p'.raw)
    /\ UNCHANGED <<resp, stream>>

Next == Feed \/ ScanLine \/ ReadBody \/ ReadChunk \/ ExtraContent \/ FeedKmip

Spec == Init /\ [][Next]_vars

\* The driver reads what there is to read.
FairSpec == Spec /\ WF_vars(Next)
-----------------------------------------------------------------------------
(***************************************************************************)
(* Properties.                                                             *)
(***************************************************************************)
Complete == Idle /\ ~ p.failed /\ WantsBytes(p) = 0

\* The server sends the whole response, perhaps with bytes behind it.
Intact == IsPrefix(Encode(resp), stream)

(***************************************************************************)
(* However the stream is cut into pieces, a parser that wants no more      *)
(* bytes has exactly the bytes of the response, the status and the body    *)
(* the server sent, also when more bytes follow and when the body itself   *)
(* contains line ends.                                                     *)
(***************************************************************************)
ResponseAsSent ==
    Complete /\ Intact =>
        /\ p.raw = Encode(resp)
        /\ ~ Kmip => p.status = resp.status /\ p.body = Body(resp)

(***************************************************************************)
(* The parser never asks for more than the rest of the response when it    *)
(* knows its length, so a driver that reads exactly what is wanted does    *)
(* not wait for bytes that never come; and whatever the server sends, it   *)
(* never asks for a negative number (the assertions of                     *)
(* mongocrypt_kms_ctx_bytes_needed and of the KMIP parser).                *)
(***************************************************************************)
NeverOverAsks ==
    Idle /\ ~ p.failed =>
        /\ WantsBytes(p) >= 0
        /\ Intact /\ (Kmip \/ p.state \in {"BODY", "CHUNK"}) =>
                Len(p.raw) + WantsBytes(p) <= Len(Encode(resp))

(********************************************************************************)
(* Every response that fits the limit is received in full, without an           *)
(* error, unless the driver is given bytes that follow it.  (White space behind *)
(* a header value is kept, contrary to the comment in _parse_line, and a        *)
(* Content-Length that ends in it is refused.)                                  *)
(********************************************************************************)
ResponseReceived ==
    (stream = Encode(resp) /\ Len(stream) <= MaxResponse /\ ~ resp.pad)
        => <>[] Complete
=============================================================================
