------------------------------ MODULE HttpConn ------------------------------
(***************************************************************************)
(* One server-side HTTP connection of mongoose (mongoose.c): the poll loop *)
(* that reads and writes its socket, the assembly of requests from the     *)
(* bytes received (mg_http_handler), and responses, which are queued at    *)
(* once or, for a file, a bufferful at a time (mg_http_transfer_file_data).*)
(*                                                                         *)
(* Requests are numbered in the order the client sends them.  Their bytes  *)
(* are counted, not stored: recv_mbuf holds the bytes consumed + 1 up to   *)
(* received of the client's stream.  A response is a sequence of units,    *)
(* <<request, position>>; unit 1 is its head.                              *)
(***************************************************************************)
EXTENDS Naturals, Sequences, FiniteSets

CONSTANTS
    N,              \* the number of requests of the client
    HeadLen,        \* the length of a request's head
    BodyLen,        \* the length of each request's body
    Plans,          \* what the client may ask and the limit it meets: in
                    \* announced, the requests whose head has a Content-Length
                    \* (of the others, one with a body is a PUT or POST, whose
                    \* body ends with the connection); in malformed, those
                    \* whose head does not parse; in headMax,
                    \* MG_MAX_HTTP_REQUEST_SIZE
    Pipelining,     \* the client does not wait for responses
    Apps,           \* how requests may be answered
    InlineLen,      \* the length of a response queued at once
    FileLen,        \* the length of the file each request asks for
    RecvMax,        \* MG_TCP_RECV_BUFFER_SIZE
    SendMax         \* MG_MAX_HTTP_SEND_MBUF

ASSUME HttpConnAssumption ==
    /\ N \in Nat
    /\ HeadLen \in Nat \ {0}
    /\ BodyLen \in [1..N -> Nat]
    /\ Plans \subseteq [announced : SUBSET (1..N), malformed : SUBSET (1..N),
                        headMax : Nat \ {0}]
    /\ Pipelining \in BOOLEAN
    /\ Apps \subseteq {"inline", "error", "denied", "file", "silent"}
    /\ Apps # {}
    /\ {InlineLen, RecvMax, SendMax} \subseteq Nat \ {0}
    /\ FileLen \in [1..N -> Nat]

VARIABLES
    plan,           \* the client's plan, which does not change
    written,        \* bytes the client has sent
    client,         \* "open", "fin" (its sending side is shut) or "reset"
    received,       \* bytes read from the socket
    consumed,       \* bytes removed from recv_mbuf
    rcvd,           \* pd->rcvd
    send,           \* send_mbuf
    file,           \* pd->file
    flags,          \* MG_F_CLOSE_IMMEDIATELY and MG_F_SEND_AND_CLOSE
    pc,             \* where mg_socket_if_poll stands
    ready,          \* what select() reported
    delivered,      \* history: requests handed to the application, in order
    whole,          \* history: those that were handed over whole
    resplen,        \* history: the length of each response
    early,          \* history: a whole request was reported as incomplete
    got             \* history: response units sent to the client, in order

inVars == <<received, consumed, rcvd>>
outVars == <<send, file, flags>>
histVars == <<delivered, whole, resplen, early>>
vars == <<plan, written, client, inVars, outVars, pc, ready, histVars, got>>

Announced == plan.announced
Malformed == plan.malformed
HeadMax == plan.headMax

MinOf(a, b) == IF a < b THEN a ELSE b

\* The first byte of request i is Start[i] + 1.
Start[i \in 1..N+1] == IF i = 1 THEN 0
                       ELSE Start[i - 1] + HeadLen + BodyLen[i - 1]

NoFile == [open |-> FALSE, for |-> 0, pos |-> 0, cl |-> 0, sent |-> 0,
           keepalive |-> FALSE]

Init ==
    /\ plan \in Plans
    /\ written = 0
    /\ client = "open"
    /\ received = 0
    /\ consumed = 0
    /\ rcvd = 0
    /\ send = <<>>
    /\ file = NoFile
    /\ flags = {}
    /\ pc = "select"
    /\ ready = {}
    /\ delivered = <<>>
    /\ whole = {}
    /\ resplen = [i \in 1..N |-> 0]
    /\ early = FALSE
    /\ got = <<>>

-----------------------------------------------------------------------------
\* The client.

\* Response i is complete at the client: every unit of it is there.
Answered(i) ==
    /\ resplen[i] > 0
    /\ \A p \in 1..resplen[i] : \E m \in DOMAIN got : got[m] = <<i, p>>

ClientWrites ==
    /\ client = "open" /\ pc # "closed"
    /\ \E i \in 1..N :
        /\ Start[i] <= written /\ written < Start[i + 1]
        /\ Pipelining \/ \A j \in 1..i-1 : Answered(j)
        /\ \E n \in 1..Start[i + 1] - written : written' = written + n
    /\ UNCHANGED <<client, inVars, outVars, pc, ready, histVars, got>>

\* The client shuts its sending side, or goes away.
ClientCloses ==
    /\ pc # "closed"
    /\ \/ client = "open" /\ client' = "fin"
       \/ client # "reset" /\ client' = "reset"
    /\ UNCHANGED <<written, inVars, outVars, pc, ready, histVars, got>>

-----------------------------------------------------------------------------
\* The output side of the connection: o stands for send_mbuf, pd->file and
\* the flags together.

Out == [send |-> send, file |-> file, flags |-> flags]

Becomes(o) == send' = o.send /\ file' = o.file /\ flags' = o.flags

\* mg_http_transfer_file_data: fill send_mbuf up to SendMax from the file.
\* What is left is a size_t, so it is huge when more was sent than there is.
Transfer(o) ==
    LET f == o.file
        room == IF Len(o.send) >= SendMax THEN 0 ELSE SendMax - Len(o.send)
        left == IF f.sent > f.cl THEN room ELSE f.cl - f.sent
        n == MinOf(MinOf(room, left), FileLen[f.for] - f.pos)
        done == f.sent + n >= f.cl
    IN  IF ~f.open THEN o
        ELSE [send |-> o.send \o [k \in 1..n |-> <<f.for, f.pos + k + 1>>],
              file |-> IF done THEN NoFile
                       ELSE [f EXCEPT !.pos = @ + n, !.sent = @ + n],
              flags |-> o.flags \union
                        (IF done /\ ~f.keepalive THEN {"SAC"} ELSE {})]

Queue(o, i, n) == [o EXCEPT !.send = @ \o [k \in 1..n |-> <<i, k>>]]

\* The application answers request i: with a response it has at hand; with
\* mg_http_send_error, after a failed stat() or a failed fopen(), which has
\* overwritten pd->file.fp; with a file, whose head is queued and whose first
\* bytes follow; or not at all.
Respond(o, i, app, keepalive) ==
    CASE app = "inline" -> Queue(o, i, InlineLen)
      [] app = "error" -> [Queue(o, i, InlineLen) EXCEPT
                                !.flags = @ \union {"SAC"}]
      [] app = "denied" -> [Queue(o, i, InlineLen) EXCEPT
                                !.flags = @ \union {"SAC"}, !.file.open = FALSE]
      [] app = "file" -> Transfer([Queue(o, i, 1) EXCEPT
                                !.file = [@ EXCEPT !.open = TRUE, !.for = i,
                                    !.pos = 0, !.cl = FileLen[i],
                                    !.keepalive = keepalive]])
      [] app = "silent" -> o

ResponseLen(i, app) ==
    CASE app \in {"inline", "error", "denied"} -> InlineLen
      [] app = "file" -> 1 + FileLen[i]
      [] app = "silent" -> 0

-----------------------------------------------------------------------------
\* mg_http_handler on MG_EV_RECV, after n bytes were appended to recv_mbuf.

\* The request at the front of recv_mbuf.
Current == Cardinality({i \in 1..N : Start[i + 1] <= consumed}) + 1

MessageLen(i) == HeadLen + BodyLen[i]

\* Mutant: the message is as long as its body.
MoreToComeNoHead(i, r) ==
    (i \notin Announced /\ BodyLen[i] > 0) \/ BodyLen[i] > r

\* hm->message.len > pd->rcvd; without a Content-Length it is ~0.
MoreToCome(i, r) ==
    (i \notin Announced /\ BodyLen[i] > 0) \/ MessageLen(i) > r

Reject(o) == [o EXCEPT !.flags = @ \union {"CI"}]

Incomplete(o, i, n) ==
    /\ received + n - consumed < HeadLen
    /\ Becomes(IF received + n - consumed >= HeadMax THEN Reject(o) ELSE o)
    /\ rcvd' = rcvd + n
    /\ UNCHANGED <<consumed, histVars>>

Invalid(o, i, n) ==
    /\ received + n - consumed >= HeadLen
    /\ i \in Malformed
    /\ Becomes(Reject(o))
    /\ rcvd' = rcvd + n
    /\ UNCHANGED <<consumed, histVars>>

\* MG_EV_HTTP_CHUNK, and no deletion of the chunk after it (6187-6195): no handler in
\* this repository sets MG_F_DELETE_CHUNK.
Chunk(o, i, n) ==
    /\ received + n - consumed >= HeadLen
    /\ i \notin Malformed
    /\ MoreToCome(i, rcvd + n)
    /\ Becomes(o)
    /\ rcvd' = rcvd + n
    /\ early' = (early \/ ~MoreToCome(i, received + n - consumed))
    /\ UNCHANGED <<consumed, delivered, whole, resplen>>

\* Mutant: rcvd is not reset.
DispatchKeepsRcvd(o, i, n) ==
    /\ received + n - consumed >= HeadLen
    /\ i \notin Malformed
    /\ ~MoreToCome(i, rcvd + n)
    /\ \E app \in Apps, keepalive \in BOOLEAN :
        /\ Becomes(Respond(o, i, app, keepalive))
        /\ resplen' = [resplen EXCEPT ![i] = ResponseLen(i, app)]
    /\ delivered' = Append(delivered, i)
    /\ whole' = whole \union {i}
    /\ consumed' = consumed + MessageLen(i)
    /\ rcvd' = rcvd + n
    /\ UNCHANGED early

\* Mutant: the request stays in recv_mbuf.
DispatchKeepsBytes(o, i, n) ==
    /\ received + n - consumed >= HeadLen
    /\ i \notin Malformed
    /\ ~MoreToCome(i, rcvd + n)
    /\ \E app \in Apps, keepalive \in BOOLEAN :
        /\ Becomes(Respond(o, i, app, keepalive))
        /\ resplen' = [resplen EXCEPT ![i] = ResponseLen(i, app)]
    /\ delivered' = Append(delivered, i)
    /\ whole' = whole \union {i}
    /\ consumed' = consumed
    /\ rcvd' = 0
    /\ UNCHANGED early

Dispatch(o, i, n) ==
    /\ received + n - consumed >= HeadLen
    /\ i \notin Malformed
    /\ ~MoreToCome(i, rcvd + n)
    /\ \E app \in Apps, keepalive \in BOOLEAN :
        /\ Becomes(Respond(o, i, app, keepalive))
        /\ resplen' = [resplen EXCEPT ![i] = ResponseLen(i, app)]
    /\ delivered' = Append(delivered, i)
    /\ whole' = whole \union {i}
    /\ consumed' = consumed + MessageLen(i)
    /\ rcvd' = 0
    /\ UNCHANGED early

Receive(n) ==
    LET o == Transfer(Out)
        i == Current
    IN  Incomplete(o, i, n) \/ Invalid(o, i, n) \/ Chunk(o, i, n)
            \/ Dispatch(o, i, n)

-----------------------------------------------------------------------------
\* The poll loop: select(), read, write, MG_EV_POLL, and the closing pass.

Readable == received < written \/ client # "open"

\* Mutant: writing waits until there is nothing to read.
SelectReadsFirst ==
    /\ pc = "select"
    /\ \E w \in SUBSET (IF send = <<>> \/ Readable THEN {} ELSE {"w"}) :
        ready' = w \union (IF Readable THEN {"r"} ELSE {})
    /\ pc' = "read"
    /\ UNCHANGED <<written, client, inVars, outVars, histVars, got>>

\* The loop asks for writability only when there is something to write.
Select ==
    /\ pc = "select"
    /\ \E w \in SUBSET (IF send = <<>> THEN {} ELSE {"w"}) :
        ready' = w \union (IF Readable THEN {"r"} ELSE {})
    /\ pc' = "read"
    /\ UNCHANGED <<written, client, inVars, outVars, histVars, got>>

ReadNothing ==
    /\ pc = "read" /\ "r" \notin ready
    /\ pc' = "write"
    /\ UNCHANGED <<written, client, inVars, outVars, ready, histVars, got>>

ReadData ==
    /\ pc = "read" /\ "r" \in ready
    /\ client # "reset" /\ received < written
    /\ \E n \in 1..MinOf(RecvMax, written - received) :
        received' = received + n /\ Receive(n)
    /\ pc' = "write"
    /\ UNCHANGED <<written, client, ready, got>>

ReadEnd ==
    /\ pc = "read" /\ "r" \in ready
    /\ \/ client = "fin" /\ received = written
            /\ flags' = flags \union {"SAC"}
       \/ client = "reset" /\ flags' = flags \union {"CI"}
    /\ pc' = "write"
    /\ UNCHANGED <<written, client, inVars, send, file, ready, histVars, got>>

SkipWrite ==
    /\ pc = "write"
    /\ \/ "CI" \in flags /\ pc' = "close"
       \/ "CI" \notin flags /\ ("w" \notin ready \/ send = <<>>) /\ pc' = "poll"
    /\ UNCHANGED <<written, client, inVars, outVars, ready, histVars, got>>

\* mg_write_to_socket and mg_if_sent_cb; the handler of MG_EV_SEND goes on
\* with the file.
Write ==
    /\ pc = "write" /\ "CI" \notin flags
    /\ "w" \in ready /\ send # <<>>
    /\ \/ /\ client # "reset"
          /\ \E n \in 1..Len(send) :
                /\ got' = got \o SubSeq(send, 1, n)
                /\ Becomes(Transfer([Out EXCEPT
                                        !.send = SubSeq(@, n + 1, Len(@))]))
       \/ /\ client = "reset"
          /\ Becomes(Transfer(Reject(Out)))
          /\ UNCHANGED got
    /\ pc' = "poll"
    /\ UNCHANGED <<written, client, inVars, ready, histVars>>

\* MG_EV_POLL.
Poll ==
    /\ pc = "poll"
    /\ Becomes(Transfer(Out))
    /\ pc' = "close"
    /\ UNCHANGED <<written, client, inVars, ready, histVars, got>>

\* Mutant: the output is not flushed.
MustCloseUnflushed == "CI" \in flags \/ "SAC" \in flags

MustClose == "CI" \in flags \/ (send = <<>> /\ "SAC" \in flags)

KeepOpen ==
    /\ pc = "close" /\ ~MustClose
    /\ pc' = "select"
    /\ UNCHANGED <<written, client, inVars, outVars, ready, histVars, got>>

\* mg_close_conn: MG_EV_CLOSE hands over what is buffered as a request, if
\* its head parses; then the buffers and the file are freed.
CloseConn ==
    /\ pc = "close" /\ MustClose
    /\ LET i == Current
           buffered == received - consumed
       IN  IF buffered >= HeadLen /\ i \notin Malformed
           THEN /\ delivered' = Append(delivered, i)
                /\ whole' = IF buffered = MessageLen(i)
                            THEN whole \union {i} ELSE whole
           ELSE UNCHANGED <<delivered, whole>>
    /\ rcvd' = 0
    /\ send' = <<>>
    /\ file' = NoFile
    /\ pc' = "closed"
    /\ UNCHANGED <<written, client, received, consumed, flags, ready, resplen,
                   early, got>>

Loop ==
    /\ \/ Select
       \/ ReadNothing \/ ReadData \/ ReadEnd
       \/ SkipWrite \/ Write
       \/ Poll
       \/ KeepOpen \/ CloseConn
    /\ UNCHANGED plan

Next == ((ClientWrites \/ ClientCloses) /\ UNCHANGED plan) \/ Loop

Spec == Init /\ [][Next]_vars

\* The server polls for as long as it runs, and a client that stays reads
\* what it is sent: its socket is writable again and again.
SelectWritable == Select /\ UNCHANGED plan /\ "w" \in ready'

FairSpec == Spec /\ WF_vars(Loop) /\ SF_vars(SelectWritable)

-----------------------------------------------------------------------------
\* Properties.  Those of the responses, and NothingWaits, are promises to a
\* client that waits: pd->file and pd->rcvd serve one request at a time.

\* A unit of a response: the request, and its position in the response.
Unit == (1..N) \X Nat

\* Every variable stays in its domain, and the counters keep their order: what
\* is counted as received of the current request was read and not consumed
\* (mongoose.c:6271-6377).
TypeOK ==
    /\ plan \in Plans
    /\ {written, received, consumed, rcvd} \subseteq Nat
    /\ consumed + rcvd <= received /\ received <= written
    /\ client \in {"open", "fin", "reset"}
    /\ send \in Seq(Unit) /\ got \in Seq(Unit)
    /\ file \in [open : BOOLEAN, for : 0..N, pos : Nat, cl : Nat, sent : Nat,
                 keepalive : BOOLEAN]
    /\ file.open => file.for \in 1..N
    /\ flags \subseteq {"CI", "SAC"}
    /\ pc \in {"select", "read", "write", "poll", "close", "closed"}
    /\ ready \subseteq {"r", "w"}
    /\ delivered \in Seq(1..N)
    /\ whole \subseteq 1..N
    /\ resplen \in [1..N -> Nat]
    /\ early \in BOOLEAN

\* Responses leave whole and in the order of the requests, and are never
\* mixed, although a file is sent a bufferful at a time while later events
\* are handled: a unit is followed by the next one of its response, or its
\* response is complete and a later one starts (mongoose.c:6008-6029).
ResponsesInOrder ==
    LET out == got \o send
    IN  \A k \in 1..Len(out) - 1 :
            LET u == out[k]
                v == out[k + 1]
            IN  \/ v = <<u[1], u[2] + 1>>
                \/ u[1] < v[1] /\ v[2] = 1 /\ u[2] = resplen[u[1]]

\* Between two polls the counter rcvd agrees with recv_mbuf, so a request
\* that is wholly buffered is never left waiting for more bytes
\* (mongoose.c:6360-6376).
NothingWaits ==
    pc = "select" =>
        /\ rcvd = received - consumed
        /\ ~early
        /\ received > consumed /\ received - consumed >= HeadLen
                => MoreToCome(Current, received - consumed)

\* Requests are handed to the application once each and in the order sent,
\* however the bytes were cut up by the network and including the one that
\* mg_close_conn hands over (mongoose.c:6255-6268).
DeliveredOnce == \A k \in 1..Len(delivered) : delivered[k] = k

\* Requests come to the application, and responses leave, once each and in order.
InOrder == DeliveredOnce /\ ResponsesInOrder

\* A connection that ends although the client is still there has sent every
\* response it began to the last byte: neither the end of the client's
\* sending side during a file transfer nor "Connection: close" cuts one
\* short (mongoose.c:3611-3613, 3927-3933).
NoTruncation ==
    pc = "closed" /\ client # "reset"
        => \A i \in 1..N : resplen[i] > 0 => Answered(i)

\* A file never takes more memory than one bufferful: the transfer stops
\* filling send_mbuf while the client does not read (mongoose.c:6003-6009).
SendBounded == file.open => Len(send) <= SendMax \/ Len(send) <= 1

\* However slow the client, a response takes a bufferful and arrives whole.
Whole == NoTruncation /\ SendBounded

\* file.sent counts the bytes of this file that were queued: mongoose.c:5604
\* "How many bytes have been already sent."
SentCounts == file.open => file.sent = file.pos

\* A chunk event means that the body has not arrived yet: mongoose.c:6361
\* "Not yet received all HTTP body, deliver MG_EV_HTTP_CHUNK".
ChunkMeansMore == ~early

\* Every response that was begun reaches the client, unless it goes away.
Answers == \A i \in 1..N : (resplen[i] > 0) ~> (Answered(i) \/ client = "reset")

\* Every request that has arrived is handed over, or the connection ends: a
\* request whose body has no announced end, when the client ends its side.
Serves ==
    \A i \in 1..N :
        (/\ written >= Start[i + 1]
         /\ (i \in Announced \/ BodyLen[i] = 0 \/ client = "fin"))
            ~> (Len(delivered) >= i \/ pc = "closed")

\* No request and no response is left behind.
Progress == Answers /\ Serves

-----------------------------------------------------------------------------
=============================================================================
