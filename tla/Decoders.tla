------------------------------ MODULE Decoders ------------------------------
(***************************************************************************)
(* The decoders that turn what arrives on a socket into the body of an     *)
(* object: the request head (src/src/protocol/http.rs), the HTTP framing   *)
(* of its entity (BodyFraming of src/src/workers/http.rs) and, inside the  *)
(* entity, the aws-chunked coding (src/src/protocol/chunked.rs).           *)
(*                                                                         *)
(* Each of them is fed whatever slices the socket returns and keeps what   *)
(* it has not used.  A stream is chosen in Init, what a client sends or    *)
(* that with a fault of the network or of the client in it; Push feeds the *)
(* next slice of any length, Eof ends the stream.                          *)
(*                                                                         *)
(* A byte is one of Bytes.  The line of a header field is one byte, so is  *)
(* a signature, the name of a checksum and a digest.                       *)
(***************************************************************************)
EXTENDS Naturals, Sequences, FiniteSets, FiniteSetsExt, SequencesExt

CONSTANTS
    Streams,          \* the streams, see StreamOK
    MaxHead,          \* HeadLimits.max_head_bytes
    MaxHeaders,       \* HeadLimits.max_headers
    MaxDigits,        \* the digits of a chunk size, and of a word: 16 of a u64
    MaxLine,          \* MAX_CHUNK_LINE_BYTES, MAX_TRAILER_LINE_BYTES, max_chunk_header_bytes
    MaxBody,          \* MAX_HTTP_BODY_BYTES, max_decoded_bytes
    MaxChunk,         \* max_chunk_bytes
    MaxTrailerBytes,  \* MAX_TRAILER_BYTES, max_trailer_bytes
    MaxTrailers,      \* MAX_TRAILERS, max_trailers
    MaxWire           \* MAX_HTTP_WIRE_BYTES

ASSUME LimitsAssumption ==
    {MaxHead, MaxHeaders, MaxDigits, MaxLine, MaxBody, MaxChunk, MaxTrailerBytes,
     MaxTrailers, MaxWire} \subseteq Nat

Digits == {"0", "1", "2"}
Fields == {"host", "length1", "length2", "chunked", "other"}
Signature == <<"s1", "s2", "s3", "s4">>
Checksums == {"crc32", "sha256"}
Bytes == {"cr", "lf", ";", ":", "t", "get", "v", "w"} \cup Digits \cup Fields
            \cup Range(Signature) \cup Checksums

CRLF == <<"cr", "lf">>
Value == [b \in Digits |-> IF b = "0" THEN 0 ELSE IF b = "1" THEN 1 ELSE 2]

\* kind: plain HTTP, or aws-chunked with signed chunks or with trailers
\* chunks: the chunks in which the client has cut, and signed, its body
\* expected: x-amz-decoded-content-length, {} when absent
\* wire: what arrives; honest: nothing has been changed on the way
StreamOK(s) ==
    /\ s.kind \in {"http", "signed", "trailer"}
    /\ s.chunks \in Seq(Seq(Bytes))
    /\ s.expected \in SUBSET Nat
    /\ s.declared \in SUBSET Checksums
    /\ s.wire \in Seq(Bytes)
    /\ s.honest \in BOOLEAN

ASSUME StreamsAssumption == \A s \in Streams : StreamOK(s)

VARIABLES
    stream,   \* the stream
    pos,      \* how much of it has been fed
    dec,      \* the decoder
    out       \* what it has passed on

vars == <<stream, pos, dec, out>>

-----------------------------------------------------------------------------
(* Lines                                                                   *)

\* The bytes of s from a to b, as many as there are.
Cut(s, a, b) == SubSeq(s, a, IF b > Len(s) THEN Len(s) ELSE b)

\* Where the first occurrence of w in s begins; 0 if there is none.
Find(s, w) ==
    SelectInSeq([i \in 1..Len(s) |-> Cut(s, i, i + Len(w) - 1)],
                LAMBDA x : x = w)

\* The value of a hexadecimal number; {} if it is not one, has too many digits
\* or does not fit a word.
Hex(line) ==
    LET size == FoldLeft(LAMBDA n, b : 16 * n + Value[b], 0, line)
    IN IF /\ line # <<>> /\ Len(line) <= MaxDigits
          /\ Range(line) \subseteq Digits
          /\ size < 16 ^ MaxDigits
       THEN {size}
       ELSE {}

Fail(d) == [d EXCEPT !.verdict = "error"]

-----------------------------------------------------------------------------
(* The request head                                                        *)

\* BodyFraming::from_head of the length headers that were found.
from_head(d, lengths, chunked) ==
    IF chunked THEN [d EXCEPT !.stage = "size"]
    ELSE IF lengths = {} THEN [d EXCEPT !.verdict = "done"]
    ELSE LET n == CHOOSE k \in lengths : TRUE
         IN IF n > MaxBody THEN Fail(d)
            ELSE [d EXCEPT !.stage = "length", !.left = n,
                           !.verdict = IF n = 0 THEN "done" ELSE "more"]

\* A request line and header fields, one host, and at most one of one
\* Content-Length and one Transfer-Encoding: chunked.
parse_complete_head(d, head) ==
    LET lines == [i \in 1..((Len(head) + 2) \div 3) |-> head[3 * i - 2]]
        shaped == /\ Len(head) % 3 = 1
                  /\ \A i \in 1..Len(head) : i % 3 # 1 => head[i] = CRLF[IF i % 3 = 2 THEN 1 ELSE 2]
        fields == IF shaped THEN Tail(lines) ELSE <<>>
        Count(S) == Cardinality({i \in DOMAIN fields : fields[i] \in S})
    IN IF \/ ~shaped \/ lines[1] # "get"
          \/ Len(fields) > MaxHeaders \/ ~(Range(fields) \subseteq Fields)
          \/ Count({"host"}) # 1
          \/ Count({"length1", "length2", "chunked"}) > 1
       THEN Fail(d)
       ELSE from_head(d, {IF f = "length1" THEN 1 ELSE 2 :
                            f \in Range(fields) \cap {"length1", "length2"}},
                      "chunked" \in Range(fields))

-----------------------------------------------------------------------------
(* HTTP framing                                                            *)

Head0 == [stage |-> "head", line |-> <<>>, left |-> 0, wire |-> 0, decoded |-> 0,
          tbytes |-> 0, trailers |-> 0, used |-> 0, got |-> <<>>, verdict |-> "more"]

\* A size, and extensions that are tokens.
parse_chunk_size_line(line) ==
    LET i == Find(line, <<";">>)
        ext == SubSeq(line, i, Len(line))
        named == \A k \in DOMAIN ext :
                    IF ext[k] = ";" THEN k < Len(ext) /\ ext[k + 1] # ";"
                    ELSE ext[k] \notin {":", "cr"}
    IN IF i = 0 THEN Hex(line)
       ELSE IF named THEN Hex(SubSeq(line, 1, i - 1)) ELSE {}

validate_trailer_line(line) ==
    LET i == Find(line, <<":">>)
    IN i > 1 /\ ";" \notin Range(SubSeq(line, 1, i - 1))

\* What a complete line of framing makes of the decoder.
size_line(d, line) ==
    LET sizes == parse_chunk_size_line(line)
    IN IF sizes = {} THEN Fail(d)
       ELSE LET n == CHOOSE k \in sizes : TRUE
            IN IF d.decoded + n > MaxBody THEN Fail(d)
               ELSE [d EXCEPT !.stage = IF n = 0 THEN "trailer" ELSE "data",
                              !.left = n, !.line = <<>>]

trailer_line(d, line) ==
    IF line = <<>> THEN [d EXCEPT !.verdict = "done"]
    ELSE IF validate_trailer_line(line) /\ d.trailers < MaxTrailers
    THEN [d EXCEPT !.trailers = @ + 1, !.line = <<>>]
    ELSE Fail(d)

\* One byte of a chunked entity.
push_byte(d0, b) ==
    LET d == [d0 EXCEPT !.wire = @ + 1, !.used = @ + 1,
                        !.tbytes = IF d0.stage = "trailer" THEN @ + 1 ELSE @]
        ends == d.line # <<>> /\ Last(d.line) = "cr"
    IN IF d0.verdict # "more" THEN d0
       ELSE IF d.wire > MaxWire \/ d.tbytes > MaxTrailerBytes THEN Fail(d)
       ELSE CASE d.stage \in {"size", "trailer"} ->
                   IF b = "lf"
                   THEN IF ~ends THEN Fail(d)
                        ELSE IF d.stage = "size" THEN size_line(d, Front(d.line))
                        ELSE trailer_line(d, Front(d.line))
                   ELSE IF ends \/ Len(d.line) >= MaxLine THEN Fail(d)
                   ELSE [d EXCEPT !.line = Append(@, b)]
              [] d.stage = "data" ->
                   [d EXCEPT !.got = Append(@, b), !.left = @ - 1, !.decoded = @ + 1,
                             !.stage = IF d.left = 1 THEN "crlf1" ELSE @]
              [] d.stage = "crlf1" ->
                   IF b = "cr" THEN [d EXCEPT !.stage = "crlf2"] ELSE Fail(d)
              [] d.stage = "crlf2" ->
                   IF b = "lf" THEN [d EXCEPT !.stage = "size"] ELSE Fail(d)

\* BodyFraming::push: the bytes of the entity, and how much was used.
push_entity(d, bytes) ==
    LET n == IF d.left < Len(bytes) THEN d.left ELSE Len(bytes)
    IN IF d.verdict # "more" THEN d
       ELSE IF d.stage = "length"
       THEN [d EXCEPT !.got = SubSeq(bytes, 1, n), !.left = @ - n, !.used = @ + n,
                      !.verdict = IF d.left = n THEN "done" ELSE "more"]
       ELSE FoldLeft(push_byte, d, bytes)

\* Variant: the end of the head is searched only in the bytes just read.
push_http_new_bytes(d, bytes) ==
    LET buffer == d.line \o bytes
        found == Find(bytes, CRLF \o CRLF)
        end == IF found = 0 THEN 0 ELSE found + Len(d.line)
        parsed == parse_complete_head([d EXCEPT !.line = <<>>, !.used = end + 3],
                                      SubSeq(buffer, 1, end - 1))
    IN IF d.stage # "head" THEN push_entity(d, bytes)
       ELSE IF end = 0
       THEN IF Len(buffer) > MaxHead THEN Fail(d) ELSE [d EXCEPT !.line = buffer]
       ELSE IF end + 3 > MaxHead THEN Fail(d)
       ELSE push_entity(parsed, SubSeq(buffer, end + 4, Len(buffer)))

\* RequestHeadParser::push; the bytes behind the head go on to the framing.
push_http(d, bytes) ==
    LET buffer == d.line \o bytes
        end == Find(buffer, CRLF \o CRLF)
        parsed == parse_complete_head([d EXCEPT !.line = <<>>, !.used = end + 3],
                                      SubSeq(buffer, 1, end - 1))
    IN IF d.stage # "head" THEN push_entity(d, bytes)
       ELSE IF end = 0
       THEN IF Len(buffer) > MaxHead THEN Fail(d) ELSE [d EXCEPT !.line = buffer]
       ELSE IF end + 3 > MaxHead THEN Fail(d)
       ELSE push_entity(parsed, SubSeq(buffer, end + 4, Len(buffer)))

-----------------------------------------------------------------------------
(* aws-chunked                                                             *)

Aws0 == [phase |-> "header", input |-> <<>>, size |-> 0, data |-> <<>>, sig |-> {},
         previous |-> "seed", trailers |-> {}, count |-> 0, tbytes |-> 0,
         got |-> <<>>, verdict |-> "more"]

\* Variant: a line that does not end is awaited without a limit.
take_line_unbounded(d, limit) ==
    LET i == Find(d.input, CRLF)
    IN IF i = 0 THEN "more" ELSE IF i - 1 > limit THEN "error" ELSE "line"

\* Variant: the limit of a line is applied to all that is buffered.
take_line_of_buffer(d, limit) ==
    LET i == Find(d.input, CRLF)
    IN IF Len(d.input) > limit THEN "error" ELSE IF i = 0 THEN "more" ELSE "line"

\* Whether the input begins with a complete line: "line", "more" or "error".
take_line(d, limit) ==
    LET i == Find(d.input, CRLF)
    IN IF i = 0 THEN IF Len(d.input) > limit THEN "error" ELSE "more"
       ELSE IF i - 1 > limit THEN "error" ELSE "line"

\* The line, and the decoder behind it: input is what has not been consumed.
Line(d) == SubSeq(d.input, 1, Find(d.input, CRLF) - 1)
Rest(d) == [d EXCEPT !.input = SubSeq(@, Find(@, CRLF) + 2, Len(@))]

\* The only extension of a chunk header is one signature.
parse_chunk_header(line) ==
    LET i == Find(line, <<";">>)
        hex == Hex(SubSeq(line, 1, i - 1))
    IN IF i = 0 THEN [size |-> Hex(line), sig |-> {}]
       ELSE IF i = Len(line) - 1 /\ Last(line) \in Range(Signature)
       THEN [size |-> hex, sig |-> {Last(line)}]
       ELSE [size |-> {}, sig |-> {}]

\* Variant: the signature of the chunk before it is not part of what is signed.
verify_chunk_signature_unchained(d, data) ==
    \E i \in 1..(Len(stream.chunks) + 1) :
        /\ d.sig = {Signature[i]}
        /\ data = IF i > Len(stream.chunks) THEN <<>> ELSE stream.chunks[i]

\* The HMAC of a chunk covers its data and the signature of the one before it:
\* the client has made one for each of its chunks and one for the empty last.
verify_chunk_signature(d, data) ==
    \E i \in 1..(Len(stream.chunks) + 1) :
        /\ d.sig = {Signature[i]}
        /\ d.previous = IF i = 1 THEN "seed" ELSE Signature[i - 1]
        /\ data = IF i > Len(stream.chunks) THEN <<>> ELSE stream.chunks[i]

Decoded(d) == Len(out) + Len(d.got)

Header(d) ==
    LET h == parse_chunk_header(Line(d))
        n == CHOOSE k \in h.size : TRUE
        e == [Rest(d) EXCEPT !.size = n, !.sig = h.sig, !.data = <<>>]
    IN IF \/ h.size = {}
          \/ n > MaxChunk
          \/ Decoded(d) + n > MaxBody
          \/ \E x \in stream.expected : Decoded(d) + n > x
          \/ (stream.kind = "signed") # (h.sig # {})
          \/ n = 0 /\ h.sig # {} /\ ~verify_chunk_signature(e, <<>>)
       THEN Fail(d)
       ELSE IF n = 0
       THEN [e EXCEPT !.phase = "trailers",
                      !.previous = IF h.sig = {} THEN @ ELSE Last(Line(d))]
       ELSE [e EXCEPT !.phase = "data"]

Data(d) ==
    LET want == d.size - Len(d.data)
        n == IF want < Len(d.input) THEN want ELSE Len(d.input)
    IN [d EXCEPT !.data = @ \o SubSeq(d.input, 1, n),
                 !.input = SubSeq(@, n + 1, Len(@)),
                 !.phase = IF n = want THEN "crlf" ELSE @]

\* The chunk is passed on once its signature has been verified.
DataCrlf(d) ==
    IF \/ Cut(d.input, 1, 2) # CRLF
       \/ d.sig # {} /\ ~verify_chunk_signature(d, d.data)
    THEN Fail(d)
    ELSE [d EXCEPT !.input = SubSeq(@, 3, Len(@)), !.phase = "header",
                   !.previous = IF d.sig = {} THEN @ ELSE CHOOSE s \in d.sig : TRUE,
                   !.got = @ \o d.data]

\* name:value, a declared checksum that has not been given before; one LF may
\* follow the value.
accept_trailer(d, line) ==
    LET value == SubSeq(line, 3, Len(line))
    IN IF \/ stream.kind = "signed" \/ d.count >= MaxTrailers
          \/ Len(line) < 3 \/ line[1] \notin stream.declared \/ line[2] # ":"
          \/ \E t \in d.trailers : t[1] = line[1]
          \/ ~(Len(value) = 1 \/ (Len(value) = 2 /\ value[2] = "lf"))
          \/ value[1] \in {"cr", "lf"}
       THEN Fail(d)
       ELSE [Rest(d) EXCEPT !.trailers = @ \cup {<<line[1], value[1]>>},
                            !.count = @ + 1]

\* The digests of what was decoded; "v" is the digest of the client's body.
calculated_checksum(d) ==
    IF out \o d.got = FlattenSeq(stream.chunks) THEN "v" ELSE "none"

finish_trailers(d) ==
    /\ \A x \in stream.expected : Decoded(d) = x
    /\ stream.kind = "trailer" =>
          \A c \in stream.declared : <<c, calculated_checksum(d)>> \in d.trailers

Trailers(d) ==
    LET line == Line(d)
        e == [d EXCEPT !.tbytes = @ + Len(line) + 2]
    IN IF e.tbytes > MaxTrailerBytes THEN Fail(d)
       ELSE IF line # <<>> THEN accept_trailer(e, line)
       ELSE IF finish_trailers(e) /\ Rest(e).input = <<>>
       THEN [Rest(e) EXCEPT !.verdict = "done"]
       ELSE Fail(d)

\* One turn of the loop of push; {} when it needs more input.
turn(d) ==
    LET line == take_line(d, IF d.phase = "header" THEN MaxLine ELSE MaxTrailerBytes)
    IN IF d.verdict # "more" THEN {}
       ELSE CASE d.phase \in {"header", "trailers"} ->
                   IF line = "more" THEN {}
                   ELSE IF line = "error" THEN {Fail(d)}
                   ELSE IF d.phase = "header" THEN {Header(d)} ELSE {Trailers(d)}
              [] d.phase = "data" -> IF d.input = <<>> THEN {} ELSE {Data(d)}
              [] d.phase = "crlf" -> IF Len(d.input) < 2 THEN {} ELSE {DataCrlf(d)}

RECURSIVE turns(_)
turns(d) == IF turn(d) = {} THEN d ELSE turns(CHOOSE e \in turn(d) : TRUE)

push_aws(d, bytes) ==
    IF d.verdict = "done" THEN IF bytes = <<>> THEN d ELSE Fail(d)
    ELSE turns([d EXCEPT !.input = @ \o bytes])

-----------------------------------------------------------------------------
Init ==
    /\ stream \in Streams
    /\ pos = 0
    /\ dec = IF stream.kind = "http" THEN Head0 ELSE Aws0
    /\ out = <<>>

\* The next slice.  What a push that fails has decoded is not passed on.
Push ==
    /\ dec.verdict = "more" \/ (stream.kind # "http" /\ dec.verdict = "done")
    /\ \E n \in 1..(Len(stream.wire) - pos) :
          LET bytes == SubSeq(stream.wire, pos + 1, pos + n)
              d == IF stream.kind = "http" THEN push_http(dec, bytes)
                   ELSE push_aws(dec, bytes)
          IN /\ pos' = pos + n
             /\ dec' = [d EXCEPT !.got = <<>>]
             /\ out' = IF d.verdict = "error" THEN out ELSE out \o d.got
    /\ UNCHANGED stream

\* The end of the stream: finish rejects what is not complete.
Eof ==
    /\ pos = Len(stream.wire)
    /\ dec.verdict = "more"
    /\ dec' = Fail(dec)
    /\ UNCHANGED <<stream, pos, out>>

Next == Push \/ Eof

Spec == Init /\ [][Next]_vars

-----------------------------------------------------------------------------
(* What a whole message means, without slices and without a state: the     *)
(* number of bytes it takes and its body, {} if it is no message.          *)

\* The number that digits denote by their positions.
Denoted(digits) ==
    MapThenSumSet(LAMBDA i : Value[digits[i]] * 16 ^ (Len(digits) - i), DOMAIN digits)

\* The sizes a line may stand for: one to MaxDigits digits, and extensions that
\* are not empty.
WholeSize(line) ==
    {Denoted(SubSeq(line, 1, k)) :
       k \in {i \in 1..Len(line) :
               LET ext == SubSeq(line, i + 1, Len(line)) IN
               /\ i <= MaxDigits /\ Range(SubSeq(line, 1, i)) \subseteq Digits
               /\ ext = <<>> \/ (ext[1] = ";" /\ Last(ext) # ";")
               /\ ":" \notin Range(ext) /\ Find(ext, <<";", ";">>) = 0}}

\* A name, a colon and a value.
WholeTrailer(line) ==
    \E i \in 2..Len(line) :
       line[i] = ":" /\ \A k \in 1..(i - 1) : line[k] \notin {":", ";"}

\* Trailer lines up to the empty one: the bytes they take.
RECURSIVE WholeTrailers(_, _)
WholeTrailers(w, n) ==
    LET i == Find(w, CRLF)
        line == SubSeq(w, 1, i - 1)
        rest == WholeTrailers(SubSeq(w, i + 2, Len(w)), n + 1)
    IN IF i = 0 \/ i > MaxLine \/ "cr" \in Range(line) \/ "lf" \in Range(line) THEN {}
       ELSE IF line = <<>> THEN {2}
       ELSE IF n >= MaxTrailers \/ ~WholeTrailer(line) THEN {}
       ELSE {i + 1 + k : k \in rest}

\* A chunked entity.
RECURSIVE WholeChunks(_, _)
WholeChunks(w, body) ==
    LET i == Find(w, CRLF)
        line == SubSeq(w, 1, i - 1)
        Chunk(n) ==
            IF n = 0
            THEN {<<i + 1 + k, body>> :
                    k \in {t \in WholeTrailers(SubSeq(w, i + 2, Len(w)), 0) :
                             t <= MaxTrailerBytes}}
            ELSE IF \/ Len(body) + n > MaxBody
                    \/ Cut(w, i + 2 + n, i + 3 + n) # CRLF
            THEN {}
            ELSE {<<i + 3 + n + r[1], r[2]>> :
                    r \in WholeChunks(SubSeq(w, i + 4 + n, Len(w)),
                                      body \o SubSeq(w, i + 2, i + 1 + n))}
    IN IF i = 0 \/ i > MaxLine \/ "cr" \in Range(line) \/ "lf" \in Range(line) THEN {}
       ELSE UNION {Chunk(n) : n \in WholeSize(line)}

Whole(w) ==
    LET end == Find(w, CRLF \o CRLF)
        d == parse_complete_head(Head0, SubSeq(w, 1, end - 1))
        entity == SubSeq(w, end + 4, Len(w))
    IN IF end = 0 \/ end + 3 > MaxHead \/ d.verdict = "error" THEN {}
       ELSE IF d.stage = "size"
       THEN {<<end + 3 + r[1], r[2]>> :
               r \in {x \in WholeChunks(entity, <<>>) : x[1] <= MaxWire}}
       ELSE IF Len(entity) < d.left THEN {}
       ELSE {<<end + 3 + d.left, SubSeq(entity, 1, d.left)>>}

-----------------------------------------------------------------------------
(* Properties                                                              *)

Body == FlattenSeq(stream.chunks)

\* A decoder is well formed and the input it has not consumed between two reads
\* is bounded by its limits, whatever the peer sends.  (AwsChunkedDecoder::compact
\* drops consumed input in larger steps, which this does not speak of.)
TypeOK ==
    /\ StreamOK(stream) /\ pos \in 0..Len(stream.wire)
    /\ out \in Seq(Bytes) /\ Len(out) <= MaxBody
    /\ dec.verdict \in {"more", "done", "error"}
    /\ stream.kind = "http" =>
         /\ dec.stage \in {"head", "length", "size", "data", "crlf1", "crlf2", "trailer"}
         /\ Len(dec.line) <= IF dec.stage = "head" THEN MaxHead ELSE MaxLine
    /\ stream.kind # "http" /\ dec.verdict = "more" =>
         /\ dec.phase \in {"header", "data", "crlf", "trailers"}
         /\ Len(dec.data) <= dec.size /\ dec.size <= MaxChunk
         /\ Len(dec.input) <= IF dec.phase = "trailers" THEN MaxTrailerBytes
                              ELSE IF dec.phase = "header" THEN MaxLine ELSE 1

\* The head parser and the framing of an entity, fed in any slices, accept what
\* is a message as a whole and nothing else, pass on its body and nothing else,
\* and stop at its last byte: no slicing moves the boundary of a request.
FramingExact ==
    stream.kind = "http" =>
      /\ dec.verdict = "done" => Whole(stream.wire) = {<<dec.used, out>>}
      /\ dec.verdict = "error" => Whole(stream.wire) = {}
      /\ dec.verdict = "more" =>
           /\ pos = Len(stream.wire) => Whole(stream.wire) = {}
           /\ \A r \in Whole(stream.wire) : IsPrefix(out, r[2])

\* What the aws-chunked decoder passes on is what the client has signed: whole
\* chunks of it, from the first on, in order and once; and it reports the end
\* only when it has passed on all of it.  Without signatures the checksum says
\* so at the end.
Authentic ==
    stream.kind # "http" =>
      /\ stream.kind = "signed" =>
           \E k \in 0..Len(stream.chunks) : out = FlattenSeq(SubSeq(stream.chunks, 1, k))
      /\ dec.verdict = "done" => out = Body

\* A client that speaks the coding is understood, however the network slices
\* what it sends.
HonestAccepted ==
    stream.honest =>
      /\ dec.verdict # "error"
      /\ pos = Len(stream.wire) => dec.verdict = "done" /\ out = Body
=============================================================================
