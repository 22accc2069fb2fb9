---------------------------- MODULE ChunkedBody ----------------------------
(***************************************************************************)
(* Requests with "Transfer-Encoding: chunked" on one connection of         *)
(* mongoose (mongoose.c, mg_handle_chunked): whole chunks are decoded in   *)
(* place, at the start of the body in recv_mbuf, as they arrive.           *)
(*                                                                         *)
(* What is sent is a sequence of units: the head of a request, and for     *)
(* each chunk its size line, its data and the end of the line after it.    *)
(* The last chunk has size 0.                                              *)
(***************************************************************************)
EXTENDS Naturals, Sequences, SequencesExt

CONSTANTS
    N,              \* the number of requests on the connection
    Requests,       \* what a request may be: its method and chunk sizes
    Pipelining      \* the client does not wait for requests to be handled

ASSUME ChunkedBodyAssumption ==
    /\ N \in Nat \ {0}
    /\ Requests \subseteq [method : {"POST", "PATCH"}, chunks : Seq(Nat \ {0})]
    /\ Pipelining \in BOOLEAN

VARIABLES
    requests,       \* the client's requests
    sent,           \* how many units have been sent and read
    recv,           \* recv_mbuf
    bodyLen,        \* pd->chunk.body_len
    rcvd,           \* pd->rcvd
    status,         \* "open", "rejected" or "aborted" (an assertion failed)
    delivered       \* history: what was handed to the application

ckVars == <<requests, sent, recv, bodyLen, rcvd, status, delivered>>

HeadOf(i) == <<"head", i>>
Size(n) == <<"size", n>>
End == <<"end">>

\* The data of chunk c of request i.
Data(i, c) == [k \in 1..requests[i].chunks[c] |-> <<"data", i, c, k>>]

Payload(i) == FlattenSeq([c \in 1..Len(requests[i].chunks) |-> Data(i, c)])

Wire(i) ==
    <<HeadOf(i)>>
    \o FlattenSeq([c \in 1..Len(requests[i].chunks) |->
                     <<Size(Len(Data(i, c)))>> \o Data(i, c) \o <<End>>])
    \o <<Size(0), End>>

Stream == FlattenSeq([i \in 1..N |-> Wire(i)])

\* Where request i ends in what the client sends.
EndOf(i) == Len(FlattenSeq([j \in 1..i |-> Wire(j)]))

CkInit ==
    /\ requests \in [1..N -> Requests]
    /\ sent = 0
    /\ recv = <<>>
    /\ bodyLen = 0
    /\ rcvd = 0
    /\ status = "open"
    /\ delivered = <<>>

-----------------------------------------------------------------------------
\* mg_http_parse_chunk: a whole chunk starts at position p of b.
ChunkAt(b, p) ==
    /\ p <= Len(b)
    /\ b[p][1] = "size"
    /\ p + b[p][2] + 1 <= Len(b)
    /\ b[p + b[p][2] + 1] = End

\* Mutant: the end of the line after a chunk is not skipped.
ScanStopsAtLineEnd(b, p) ==
    LET scan[q \in 1..Len(b) + 1] ==
            IF ~ChunkAt(b, q)
            THEN [data |-> <<>>, next |-> q, zero |-> FALSE]
            ELSE IF b[q][2] = 0
            THEN [data |-> <<>>, next |-> q + 2, zero |-> TRUE]
            ELSE [scan[q + b[q][2] + 1] EXCEPT
                     !.data = SubSeq(b, q + 1, q + b[q][2]) \o @]
    IN  scan[p]

\* The loop of mg_handle_chunked from position p on: the data of the whole
\* chunks, the position after them, and whether the last one was among them.
Scan(b, p) ==
    LET scan[q \in 1..Len(b) + 1] ==
            IF ~ChunkAt(b, q)
            THEN [data |-> <<>>, next |-> q, zero |-> FALSE]
            ELSE IF b[q][2] = 0
            THEN [data |-> <<>>, next |-> q + 2, zero |-> TRUE]
            ELSE [scan[q + b[q][2] + 2] EXCEPT
                     !.data = SubSeq(b, q + 1, q + b[q][2]) \o @]
    IN  scan[p]

\* A buffer that does not start with a head: it is no request as soon as it
\* has an empty line, or a byte that no head has.
Garbage(buf) ==
    /\ buf[1][1] # "head"
    /\ \/ status' = "rejected"
       \/ /\ \A k \in 1..Len(buf) - 1 : ~(buf[k] = Size(0) /\ buf[k + 1] = End)
          /\ UNCHANGED status
    /\ recv' = buf
    /\ rcvd' = rcvd + (Len(buf) - Len(recv))
    /\ UNCHANGED <<bodyLen, delivered>>

\* Mutant: assert(blen > body_len).
AbortOffByOne(buf) ==
    /\ buf[1][1] = "head"
    /\ Len(buf) - 1 <= bodyLen
    /\ status' = "aborted"
    /\ UNCHANGED <<recv, bodyLen, rcvd, delivered>>

\* assert(blen >= body_len)
Abort(buf) ==
    /\ buf[1][1] = "head"
    /\ Len(buf) - 1 < bodyLen
    /\ status' = "aborted"
    /\ UNCHANGED <<recv, bodyLen, rcvd, delivered>>

\* Mutant: the chunks stay behind the decoded data.
ChunkedKeepsRaw(buf) ==
    LET i == buf[1][2]
        b == Tail(buf)
        s == Scan(b, bodyLen + 1)
        body == SubSeq(b, 1, bodyLen) \o s.data \o SubSeq(b, bodyLen + 1, Len(b))
        total == rcvd + (Len(buf) - Len(recv))
        messageLen == IF s.zero THEN 1 + Len(body) ELSE 1
        endless == ~s.zero /\ requests[i].method = "POST"
    IN  /\ buf[1][1] = "head"
        /\ Len(buf) - 1 >= bodyLen
        /\ bodyLen' = bodyLen + Len(s.data)
        /\ IF endless \/ messageLen > total
           THEN /\ recv' = <<buf[1]>> \o body
                /\ rcvd' = total
                /\ UNCHANGED delivered
           ELSE /\ recv' = SubSeq(<<buf[1]>> \o body, messageLen + 1, 1 + Len(body))
                /\ rcvd' = 0
                /\ delivered' = Append(delivered,
                        [request |-> i, body |-> body, len |-> messageLen])
        /\ UNCHANGED status

\* Mutant: the length of the decoded data is not kept.
ChunkedForgetsLen(buf) ==
    LET i == buf[1][2]
        b == Tail(buf)
        s == Scan(b, bodyLen + 1)
        body == SubSeq(b, 1, bodyLen) \o s.data \o SubSeq(b, s.next, Len(b))
        total == rcvd + (Len(buf) - Len(recv))
        messageLen == IF s.zero THEN 1 + Len(body) ELSE 1
        endless == ~s.zero /\ requests[i].method = "POST"
    IN  /\ buf[1][1] = "head"
        /\ Len(buf) - 1 >= bodyLen
        /\ bodyLen' = bodyLen
        /\ IF endless \/ messageLen > total
           THEN /\ recv' = <<buf[1]>> \o body
                /\ rcvd' = total
                /\ UNCHANGED delivered
           ELSE /\ recv' = SubSeq(<<buf[1]>> \o body, messageLen + 1, 1 + Len(body))
                /\ rcvd' = 0
                /\ delivered' = Append(delivered,
                        [request |-> i, body |-> body, len |-> messageLen])
        /\ UNCHANGED status

\* mg_handle_chunked, then the end of mg_http_handler: without the last chunk
\* the message of a POST has no end and that of a PATCH ends with its head.
Chunked(buf) ==
    LET i == buf[1][2]
        b == Tail(buf)
        s == Scan(b, bodyLen + 1)
        body == SubSeq(b, 1, bodyLen) \o s.data \o SubSeq(b, s.next, Len(b))
        total == rcvd + (Len(buf) - Len(recv))
        messageLen == IF s.zero THEN 1 + Len(body) ELSE 1
        endless == ~s.zero /\ requests[i].method = "POST"
    IN  /\ buf[1][1] = "head"
        /\ Len(buf) - 1 >= bodyLen
        /\ bodyLen' = bodyLen + Len(s.data)
        /\ IF endless \/ messageLen > total
           THEN /\ recv' = <<buf[1]>> \o body
                /\ rcvd' = total
                /\ UNCHANGED delivered
           ELSE /\ recv' = SubSeq(<<buf[1]>> \o body, messageLen + 1, 1 + Len(body))
                /\ rcvd' = 0
                /\ delivered' = Append(delivered,
                        [request |-> i, body |-> body, len |-> messageLen])
        /\ UNCHANGED status

\* The client sends request i, some of it at a time.
Receive ==
    /\ status = "open"
    /\ \E i \in 1..N :
        /\ EndOf(i - 1) <= sent /\ sent < EndOf(i)
        /\ Pipelining \/ Len(delivered) >= i - 1
        /\ \E n \in 1..(IF Pipelining THEN EndOf(N) ELSE EndOf(i)) - sent :
            /\ sent' = sent + n
            /\ LET buf == recv \o SubSeq(Stream, sent + 1, sent + n)
               IN  Garbage(buf) \/ Abort(buf) \/ Chunked(buf)
    /\ UNCHANGED requests

CkNext == Receive

CkSpec == CkInit /\ [][CkNext]_ckVars

-----------------------------------------------------------------------------
\* Properties.

\* Every variable stays in its domain, and recv_mbuf never holds more than was
\* received: decoding only shortens it (mongoose.c:6119-6124).
CkTypeOK ==
    /\ requests \in [1..N -> Requests]
    /\ {sent, bodyLen, rcvd} \subseteq Nat
    /\ Len(recv) <= sent
    /\ status \in {"open", "rejected", "aborted"}
    /\ \A k \in 1..Len(delivered) : delivered[k].request \in 1..N

\* However the bytes of a POST are cut up, what the application gets is the
\* data of its chunks, all of it and in order (mongoose.c:6100-6124,
\* 6139-6143).
BodyIntact ==
    requests[1].method = "POST" /\ delivered # <<>>
        => delivered[1] = [request |-> 1, body |-> Payload(1),
                           len |-> Len(Payload(1)) + 1]

\* Until then recv_mbuf holds the head, the data decoded so far, and what has
\* arrived after it and is not decoded yet, with nothing between them, lost
\* or twice (mongoose.c:6115-6124).
DecodedInPlace ==
    requests[1].method = "POST" /\ delivered = <<>> /\ recv # <<>> =>
        /\ recv[1] = HeadOf(1)
        /\ SubSeq(recv, 2, bodyLen + 1) = SubSeq(Payload(1), 1, bodyLen)
        /\ LET rest == SubSeq(recv, bodyLen + 2, Len(recv))
           IN  /\ rest = SubSeq(Stream, sent - Len(rest) + 1, sent)
               /\ ~ChunkAt(rest, 1)

\* A body is decoded where it arrives, and handed over as it was sent.
Decoded == BodyIntact /\ DecodedInPlace

\* The request is handed over as soon as its last chunk has arrived: it is
\* not left in recv_mbuf with nothing more to come.
HandedOver ==
    requests[1].method = "POST" /\ sent >= EndOf(1) => delivered # <<>>

\* The assertion of mg_handle_chunked only fails when another chunked body was
\* handled on the connection before, whatever the methods, and whatever
\* chunks that come after their request was handed over are taken for
\* (mongoose.c:6096-6098).
AbortsAfterBody ==
    status = "aborted"
        => \E k \in 1..Len(delivered) : Payload(delivered[k].request) # <<>>

\* mongoose.c:6098 "assert(blen >= body_len)" holds.
AssertionHolds == status # "aborted"

=============================================================================
