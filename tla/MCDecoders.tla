----------------------------- MODULE MCDecoders -----------------------------
(***************************************************************************)
(* The streams on which Decoders is checked: honest messages of each       *)
(* coding and all that differ from one of them in one byte that is         *)
(* missing, changed, doubled or swapped with the next, and, for the signed *)
(* coding, chunks that are left out, sent twice or out of order.           *)
(***************************************************************************)
EXTENDS Decoders

\* What an honest client sends.
Lines(ls) == FlattenSeq([i \in DOMAIN ls |-> ls[i] \o CRLF])
Size(chunk) == IF Len(chunk) = 0 THEN "0" ELSE IF Len(chunk) = 1 THEN "1" ELSE "2"

Http(head, entity, chunks) ==
    [kind |-> "http", chunks |-> chunks, expected |-> {}, declared |-> {},
     wire |-> Lines([i \in DOMAIN head |-> <<head[i]>>]) \o CRLF \o entity,
     honest |-> TRUE]

HttpChunks(chunks, ext, trailers) ==
    Http(<<"get", "host", "chunked">>,
         Lines(FlattenSeq([i \in DOMAIN chunks |-> <<<<Size(chunks[i])>> \o ext, chunks[i]>>])
               \o <<<<"0">>>> \o trailers \o <<<<>>>>),
         chunks)

SignedBlock(chunks, i) ==
    IF i <= Len(chunks)
    THEN Lines(<<<<Size(chunks[i]), ";", Signature[i]>>, chunks[i]>>)
    ELSE Lines(<<<<"0", ";", Signature[i]>>, <<>>>>)

Blocks(chunks, order) == FlattenSeq([i \in DOMAIN order |-> SignedBlock(chunks, order[i])])

Signed(chunks, expected, order) ==
    [kind |-> "signed", chunks |-> chunks, expected |-> expected, declared |-> {},
     wire |-> Blocks(chunks, order),
     honest |-> order = [i \in 1..(Len(chunks) + 1) |-> i]]

Trailing(chunks, expected, declared) ==
    LET names == SetToSeq(declared)
    IN [kind |-> "trailer", chunks |-> chunks, expected |-> expected, declared |-> declared,
        wire |-> Lines(FlattenSeq([i \in DOMAIN chunks |-> <<<<Size(chunks[i])>>, chunks[i]>>])
                       \o <<<<"0">>>> \o [i \in DOMAIN names |-> <<names[i], ":", "v">>]
                       \o <<<<>>>>),
        honest |-> TRUE]

HttpHonest ==
    {Http(<<"get", "host">>, <<>>, <<>>),
     Http(<<"get", "length2", "host">>, <<"w", "v">>, <<<<"w", "v">>>>),
     HttpChunks(<<<<"v">>, <<"w", "cr">>>>, <<>>, <<>>),
     HttpChunks(<<<<"lf">>>>, <<";", "t">>, <<<<"t", ":", "v">>>>)}

SignedHonest ==
    {Signed(<<<<"v">>, <<"w">>>>, {}, <<1, 2, 3>>),
     Signed(<<<<"v", "w">>, <<"v", "w">>>>, {4}, <<1, 2, 3>>)}

TrailerHonest ==
    {Trailing(<<<<"v", "w">>>>, {}, {"crc32"}),
     Trailing(<<<<"v">>, <<"w", "cr">>>>, {3}, {"crc32", "sha256"})}

\* The same stream with one fault in it.
Sent(s, wire) == [s EXCEPT !.wire = wire, !.honest = FALSE]

Changed == {"cr", "lf", "0", "1", "w", ";", ":", "s1", "other", "chunked", "length1"}

Faults(s) ==
    LET w == s.wire
        Replaced(i, with) == SubSeq(w, 1, i - 1) \o with \o SubSeq(w, i + 1, Len(w))
    IN {Sent(s, Replaced(i, <<>>)) : i \in DOMAIN w}
       \cup {Sent(s, Replaced(i, <<w[i], w[i]>>)) : i \in DOMAIN w}
       \cup {Sent(s, Replaced(p[1], <<p[2]>>)) :
               p \in {q \in (DOMAIN w) \X Changed : w[q[1]] # q[2]}}
       \cup {Sent(s, SubSeq(w, 1, i - 1) \o <<w[i + 1], w[i]>> \o SubSeq(w, i + 2, Len(w))) :
               i \in {j \in 1..(Len(w) - 1) : w[j] # w[j + 1]}}
       \cup {Sent(s, w \o <<"v">>)}

Orders == UNION {[1..n -> 1..3] : n \in 1..4}

Reordered(s) == {Sent(s, Blocks(s.chunks, o)) : o \in Orders \ {<<1, 2, 3>>}}

\* More than a limit allows: a line without end, the digits of a size, a chunk,
\* a body, trailers.
Over ==
    {Sent(s, SubSeq(s.wire, 1, k) \o [i \in 1..n |-> b] \o SubSeq(s.wire, k + 1, Len(s.wire))) :
        s \in {HttpChunks(<<<<"v">>>>, <<>>, <<<<"t", ":", "v">>>>),
               Trailing(<<<<"v", "w">>>>, {}, {"crc32"})},
        k \in 0..16, n \in {2, 3, 12}, b \in {"t", "0", "1"}}
    \cup {Sent(s, HttpChunks([i \in 1..n |-> <<"v", "v">>], <<>>,
                             [i \in 1..k |-> <<"t", ":">>]).wire) :
            s \in HttpHonest, n \in {0, 2, 3}, k \in {0, 1, 2, 3}}

MCStreams ==
    LET honest == HttpHonest \cup SignedHonest \cup TrailerHonest
    IN honest \cup UNION {Faults(s) : s \in honest}
       \cup UNION {Reordered(s) : s \in SignedHonest} \cup Over
=============================================================================
