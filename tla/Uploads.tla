------------------------------ MODULE Uploads ------------------------------
(***************************************************************************)
(* A multipart request taken apart while it arrives, and the handler that  *)
(* stores its parts in files (mongoose.c: mg_http_multipart_begin to       *)
(* mg_http_multipart_continue, mg_file_upload_handler), next to            *)
(* mg_parse_multipart, which takes a whole body apart.                     *)
(*                                                                         *)
(* Bytes are tokens; the boundary has two, so that it may be cut.  The     *)
(* line that names a part is "cd", a token and the end of a line.  A body  *)
(* is well formed, and its parts do not contain the boundary.              *)
(***************************************************************************)
EXTENDS Naturals, Sequences, FiniteSets, SequencesExt

CONSTANTS UpBodies,  \* the bodies: sequences of parts, which are sequences of bytes
          UpFaults   \* may files fail to open, to be written, or to be allowed?

ASSUME UpAssumption == UpFaults \subseteq BOOLEAN

VARIABLE up   \* the request, the connection, its struct mg_http_multipart_stream, the files

upVars == up

Boundary == <<"b1", "b2">>
CrLf == <<"cr", "lf">>
Delimiter == <<"-", "-">> \o Boundary
PartHeader == <<"cd">> \o CrLf \o CrLf
Part(data) == Delimiter \o CrLf \o PartHeader \o data \o CrLf
LastDelimiter == Delimiter \o <<"-", "-">> \o CrLf
BodyOf(parts) == FlattenSeq([k \in DOMAIN parts |-> Part(parts[k])]) \o LastDelimiter

UpInit ==
    \E b \in UpBodies, f \in UpFaults, named \in BOOLEAN :
        up = [parts |-> b, faulty |-> f, named |-> named,
              sent |-> 0, recv |-> <<>>, flags |-> {}, alive |-> TRUE, run |-> FALSE,
              bound |-> FALSE, state |-> "BEGIN", prev |-> 0, part |-> 0, got |-> <<>>,
              fus |-> "none", open |-> {}, disk |-> [k \in DOMAIN b |-> <<>>], stored |-> {}]

\* c_strnstr: where the boundary starts in a buffer, 0 if it is not there.
Strnstr(buf) ==
    LET at == {i \in 1..Len(buf) - 1 : SubSeq(buf, i, i + 1) = Boundary}
    IN  IF at = {} THEN 0 ELSE CHOOSE i \in at : \A j \in at : i <= j

UpRest(buf, i) == SubSeq(buf, i, Len(buf))

-----------------------------------------------------------------------------
(* mg_file_upload_handler, with fus as struct file_upload_state.            *)

UpTold(u, ev, k, data) == [u EXCEPT !.got = Append(@, [ev |-> ev, part |-> k, data |-> data])]

PartBegin(u, k) ==
    {[u EXCEPT !.fus = "open", !.open = @ \cup {k}]}
    \cup IF ~u.faulty THEN {} ELSE {[u EXCEPT !.fus = "none", !.flags = @ \cup {"SAC"}],
                                    [u EXCEPT !.fus = "failed"]}

PartData(u, k, data) ==
    IF u.fus # "open" THEN {u}
    ELSE {[u EXCEPT !.disk[k] = @ \o data]}
         \cup IF ~u.faulty THEN {} ELSE {[u EXCEPT !.fus = "failed", !.open = @ \ {k}, !.disk[k] = <<>>]}

PartEnd(u, k, ok) ==
    IF u.fus = "none" THEN u
    ELSE [u EXCEPT !.stored = IF ok /\ u.fus = "open" THEN @ \cup {k} ELSE @,
                   !.fus = "none", !.open = @ \ {k}, !.flags = @ \cup {"SAC"}]

-----------------------------------------------------------------------------
(* The stages of mg_http_multipart_continue; Stop leaves its loop.          *)

Stop(u) == [u EXCEPT !.run = FALSE]
Keep(u, s) == up' = [u EXCEPT !.state = s]

\* mg_http_multipart_begin, once the head is there; without a boundary the
\* connection's flags are overwritten.
Begin ==
    /\ up.alive /\ ~up.bound /\ up.state = "BEGIN" /\ up.flags = {}
    /\ up' = IF up.named
             THEN [UpTold(up, "request", 0, <<>>) EXCEPT !.bound = TRUE, !.run = TRUE,
                                                       !.state = "WAITING_FOR_BOUNDARY"]
             ELSE [up EXCEPT !.flags = {"CI"}, !.state = "FINALIZE"]

WaitForBoundary ==
    /\ up.run /\ up.state = "WAITING_FOR_BOUNDARY"
    /\ LET at == Strnstr(up.recv)  end == at + 2
       IN  IF Len(up.recv) < 4 \/ at = 0 \/ Len(up.recv) - end + 1 < 4 THEN up' = Stop(up)
           ELSE IF SubSeq(up.recv, end, end + 3) = <<"-", "-">> \o CrLf
           THEN Keep([up EXCEPT !.recv = UpRest(@, end + 4)], "FINALIZE")
           ELSE Keep(up, "GOT_BOUNDARY")

\* The end of the part before is told when the head of the next one is complete.
ProcessBoundary ==
    /\ up.run /\ up.state = "GOT_BOUNDARY"
    /\ LET block == UpRest(up.recv, Strnstr(up.recv) + 4)
           blank == {i \in 1..Len(block) - 1 : SubSeq(block, i, i + 1) = CrLf
                                               /\ (i = 1 \/ block[i - 1] = "lf")}
           i == CHOOSE j \in blank : \A k \in blank : j <= k
           k == up.part
           ended == IF k = 0 THEN up ELSE PartEnd(UpTold(up, "end", k, <<>>), k, TRUE)
       IN  IF blank = {} THEN Keep(Stop(up), "WAITING_FOR_BOUNDARY")
           ELSE \E u \in PartBegin(UpTold(ended, "begin", k + 1, <<>>), k + 1) :
                    Keep([u EXCEPT !.recv = UpRest(block, i + 2), !.part = k + 1], "WAITING_FOR_CHUNK")

Deliver(n) == PartData(UpTold(up, "data", up.part, SubSeq(up.recv, 1, n)), up.part, SubSeq(up.recv, 1, n))

\* Wrong: what has come once is handed over although a boundary may start in it.
WaitForChunkEager ==
    /\ up.run /\ up.state = "WAITING_FOR_CHUNK"
    /\ LET at == Strnstr(up.recv)
       IN  IF Len(up.recv) < 8 THEN up' = Stop(up)
           ELSE IF at # 0
           THEN \E u \in Deliver(IF at > 5 THEN at - 5 ELSE 0) :
                    Keep([u EXCEPT !.recv = UpRest(@, at), !.prev = 0], "WAITING_FOR_BOUNDARY")
           ELSE IF up.prev = 0 THEN up' = Stop([up EXCEPT !.prev = Len(up.recv)])
           ELSE IF Len(up.recv) > up.prev THEN Keep(up, "GOT_CHUNK")
           ELSE up' = Stop(up)

\* mg_http_multipart_continue_wait_for_chunk: what was there when the boundary was not
\* is handed over once enough has come after it for the boundary to be seen.
WaitForChunk ==
    /\ up.run /\ up.state = "WAITING_FOR_CHUNK"
    /\ LET at == Strnstr(up.recv)
       IN  IF Len(up.recv) < 8 THEN up' = Stop(up)
           ELSE IF at # 0
           THEN \E u \in Deliver(at - 5) :
                    Keep([u EXCEPT !.recv = UpRest(@, at), !.prev = 0], "WAITING_FOR_BOUNDARY")
           ELSE IF up.prev = 0 THEN up' = Stop([up EXCEPT !.prev = Len(up.recv)])
           ELSE IF Len(up.recv) > up.prev + 6 THEN Keep(up, "GOT_CHUNK")
           ELSE up' = Stop(up)

GotChunk ==
    /\ up.run /\ up.state = "GOT_CHUNK"
    /\ \E u \in Deliver(up.prev) :
           Keep(Stop([u EXCEPT !.recv = UpRest(@, up.prev + 1), !.prev = 0]), "WAITING_FOR_CHUNK")

Finalize ==
    /\ up.run /\ up.state = "FINALIZE"
    /\ LET u == PartEnd(UpTold(up, "end", up.part, <<>>), up.part, TRUE)
       IN  Keep(Stop([UpTold(u, "request_end", 0, <<>>) EXCEPT !.bound = FALSE, !.recv = <<>>]), "FINISHED")

\* More of the body arrives.
UpReceive ==
    /\ up.alive /\ ~up.run /\ up.bound
    /\ LET body == BodyOf(up.parts)
       IN  \E n \in 1..Len(body) - up.sent :
               up' = [up EXCEPT !.recv = @ \o SubSeq(body, up.sent + 1, up.sent + n),
                                !.sent = @ + n, !.run = TRUE]

\* The connection ends, marked or not.  The part is ended with an error, and without
\* the handler's user_data.
UpClose ==
    /\ up.alive /\ ~up.run
    /\ LET u == UpTold(UpTold([up EXCEPT !.fus = "none"], "cut", up.part, <<>>), "request_cut", 0, <<>>)
       IN  up' = [IF up.bound THEN u ELSE up EXCEPT !.alive = FALSE, !.bound = FALSE]

UpNext == \/ Begin \/ UpReceive \/ UpClose \/ WaitForBoundary \/ ProcessBoundary
          \/ WaitForChunk \/ GotChunk \/ Finalize

-----------------------------------------------------------------------------
(* A body that is there as a whole.                                         *)

\* mg_parse_multipart: the data of the first part of a buffer, and where the next
\* boundary starts; 0 when there is none.
ParseMultipart(buf) ==
    LET delimiter == SubSeq(buf, 1, 4)
        blank == {i \in 1..Len(buf) - 3 : SubSeq(buf, i, i + 3) = CrLf \o CrLf}
        hl == CHOOSE i \in blank : \A j \in blank : i <= j
        ends == {i \in hl + 4..Len(buf) - 3 : SubSeq(buf, i, i + 3) = delimiter}
        pos == CHOOSE i \in ends : \A j \in ends : i <= j
    IN  IF blank = {} \/ ends = {} THEN [pos |-> 0, data |-> <<>>]
        ELSE [pos |-> pos, data |-> SubSeq(buf, hl + 4, pos - 3)]

-----------------------------------------------------------------------------
(* Properties.                                                              *)

UpTypeOK ==
    /\ up.sent \in 0..Len(BodyOf(up.parts)) /\ up.part \in 0..Len(up.parts)
    /\ up.flags \subseteq {"SAC", "CI"} /\ up.fus \in {"none", "open", "failed"}
    /\ up.prev <= Len(up.recv)

DataOf(k) == FlattenSeq([i \in DOMAIN up.got |->
                 IF up.got[i].ev = "data" /\ up.got[i].part = k THEN up.got[i].data ELSE <<>>])

\* The events of a request that was not cut, data aside.
Expected == <<<<"request", 0>>>>
            \o FlattenSeq([k \in DOMAIN up.parts |-> <<<<"begin", k>>, <<"end", k>>>>])
            \o <<<<"request_end", 0>>>>

\* "the user should expect a sequence of PART_BEGIN/DATA/END requests" (mongoose.h:4354):
\* however the body is cut up, the parts come in order, each with its data, whole when
\* its end is told; and the request ends when all of it is there, unless a handler ends
\* the connection before.
PartsWhole ==
    LET marks == [i \in DOMAIN SelectSeq(up.got, LAMBDA e : e.ev # "data") |->
                     LET e == SelectSeq(up.got, LAMBDA f : f.ev # "data")[i] IN <<e.ev, e.part>>]
        Has(ev, k) == \E i \in DOMAIN up.got : up.got[i].ev = ev /\ up.got[i].part = k
    IN  /\ up.alive => IsPrefix(marks, Expected)
        /\ \A k \in DOMAIN up.parts : /\ IsPrefix(DataOf(k), up.parts[k])
                                      /\ Has("end", k) => DataOf(k) = up.parts[k]
        /\ \A i \in DOMAIN up.got : up.got[i].ev = "data" =>
               \A j \in 1..i - 1 : up.got[j] # [ev |-> "end", part |-> up.got[i].part, data |-> <<>>]
        /\ up.alive /\ ~up.run /\ up.sent = Len(BodyOf(up.parts)) => marks = Expected

\* A part that was answered with 200 is in its file, whole.
StoredWhole == \A k \in up.stored : up.disk[k] = up.parts[k]

\* What was uploaded in pieces is what mg_parse_multipart finds in the whole body.
ParsedAlike ==
    LET Rest[k \in 1..Len(up.parts) + 1] ==
            IF k = 1 THEN BodyOf(up.parts)
            ELSE UpRest(Rest[k - 1], ParseMultipart(Rest[k - 1]).pos)
    IN  \A k \in DOMAIN up.parts : ParseMultipart(Rest[k]).data = up.parts[k]

\* A file is closed when its part ends, or the request does.  Only a connection that ends in the middle of a part
\* leaves one open, for good: "mp->status < 0 means connection was terminated" (mongoose.c:8244) is said of a part
\* without user_data (6241), at which the handler stops before it closes the file (8231).
FilesClosed ==
    LET told == {<<up.got[i].ev, up.got[i].part>> : i \in DOMAIN up.got}
    IN  /\ \A k \in up.open : <<"end", k>> \notin told /\ <<"begin", k>> \in told
        /\ <<"request_end", 0>> \in told => up.open = {}

UploadsWhole == PartsWhole /\ StoredWhole /\ ParsedAlike /\ FilesClosed
=============================================================================
