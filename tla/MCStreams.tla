----------------------------- MODULE MCStreams -----------------------------
(***************************************************************************)
(* What arrives in pieces and is put together again, and what is done over *)
(* such connections: chunked and multipart bodies, WebSocket messages, an  *)
(* MQTT broker, an SNTP client, SOCKS connections, tunnels and a file      *)
(* server.  A behaviour is one of these parts at work and the others at rest; the     *)
(* part "calls" is one call of a function that has no state, with its      *)
(* arguments.                                                              *)
(***************************************************************************)
EXTENDS ChunkedBody, Uploads, WebSocket, Mqtt, Names, Coap, Sntp, Socks, Tunnel, Codecs, Uris, Scripts, Ssi,
        ServeFiles

CONSTANTS
    Parts,      \* which parts are at work
    CallFns     \* which functions are called

VARIABLES part, call

vars == <<part, call, ckVars, upVars, wsVars, mqVars, snVars, soVars, tuVars, sf>>

-----------------------------------------------------------------------------
(* Constants.                                                               *)

Shapes(sizes, n) == UNION {[1..m -> sizes] : m \in 0..n}
AnyMethod == [method : {"POST", "PATCH"}, chunks : Shapes(1..2, 2)]

\* The data of parts: an end of line, the start of a delimiter and half a boundary are in them.
Data16 == <<"d", "d", "cr", "lf", "-", "-", "d", "d", "b1", "d", "d", "d", "d", "d", "d", "d">>
Bodies == {<<SubSeq(Data16, 1, a)>> : a \in {0}}
          \cup {<<SubSeq(Data16, 1, a[1]), SubSeq(Data16, 1, a[2])>> : a \in {<<3, 0>>, <<16, 1>>}}

F(fin, op, masked, n) == [fin |-> fin, op |-> op, ext |-> masked, n |-> n]
FramePlans ==
    {<<F(TRUE, 1, 0, 2), F(TRUE, 9, 1, 1), F(TRUE, 8, 0, 0)>>,
     <<F(FALSE, 1, 1, 1), F(FALSE, 0, 0, 2), F(TRUE, 0, 0, 1), F(TRUE, 2, 0, 1)>>,
     <<F(FALSE, 1, 0, 0), F(TRUE, 0, 1, 2), F(TRUE, 10, 0, 1), F(FALSE, 2, 0, 1), F(TRUE, 0, 0, 0)>>,
     <<F(FALSE, 1, 0, 1), F(TRUE, 9, 0, 1), F(TRUE, 0, 0, 1)>>}

a == <<"a">>
ab == <<"a", "b">>
all == <<"a", "#">>
ClientPlans ==
    {<<Conn, Sub(<<all, ab>>, TRUE), Pub(ab, 1)>>, <<Conn, Pub(ab, 2), Conn, Pub(a, 3)>>, <<Pub(ab, 4), Conn>>,
     <<Conn, Sub(<<a, a, a>>, TRUE), PingReq, Sub(<<ab, ab, ab>>, TRUE), Pub(a, 5)>>,
     <<Conn, Sub(<<all, a>>, FALSE), BadPacket, Pub(ab, 6)>>, <<Conn, Sub(<<a, a, a, a, a>>, TRUE)>>,
     <<Sub(<<a>>, TRUE)>>, <<Conn, Sub(<<>>, TRUE)>>}

Replies == [len : {48}, version : {3, 4}, mode : {4}] \cup {[len |-> 47, version |-> 4, mode |-> 4]}

-----------------------------------------------------------------------------
(* Calls.                                                                   *)

Counting(n) == [i \in 1..n |-> i % 256]

\* Names at the bounds of a label, of two labels, and some that are no names.
DnsNames == LET l(n) == [i \in 1..n |-> 97]
            IN  {l(1), l(63), l(64), <<>>, <<97, 46, 98>>, <<97, 46>>, <<46, 97>>, l(63) \o <<46>> \o l(2) \o <<46>> \o l(1)}
DnsRecords == [rtype : {TypeA}, ttl : {0, 300}, rdata : {<<1, 2, 3, 4>>}]
              \cup [rtype : {TypeCname}, ttl : {5}, rdata : {<<98, 46, 99>>}]

CoapOptions == [number : {1, 13, 14, 282, 600}, value : {<<>>, <<7>>, Counting(13)}]
               \cup [number : {60000}, value : {Counting(268), Counting(269)}]

MqttOptions == [client : {0, 1, 65535}, willTopic : {None, 0, 2}, willMessage : {None, 1}, user : {None, 3},
                password : {None, 0, 4}, keepAlive : {0, 7}]
Lengths == {0, 1, 127, 128, 129, 16383, 16384, 2097151, 2097152, 268435455}

MbufCalls == [op : {"insert"}, off : {0, 1, 9}, data : {<<1>>, <<2, 3>>}, ok : BOOLEAN] \cup [op : {"remove"}, n : 1..2]
             \cup [op : {"resize"}, n : {0, 4}, ok : BOOLEAN] \cup [op : {"trim"}, ok : BOOLEAN]
HashCuts == LET at == {0, 1, 55, 56, 63, 64, 65, 119, 120, 128}
            IN  {[first |-> Counting(n), second |-> Counting(k)] : n \in at, k \in at}
Printable == [kind : {"s"}, str : {<<>>, <<97, 98, 99>>}, width : {0, 4}, precision : {-1, 0, 2, 5}]
             \cup [kind : {"d"}, num : {0, 9, -10, 255}, zero : BOOLEAN, width : {0, 5}]

\* Components of a URI: names, dots plain and encoded, a slash and a letter encoded, and a broken code.
PathNames == {<<>>, <<97>>, <<98>>, <<97, 98>>, <<Period>>, DotDot, <<Percent, 50, 101, Period>>, <<Percent, 50, 102>>, <<Percent, 54, 49>>, <<Percent, 50>>}
Rewrites == {<<>>, <<Slash, 97, Equals, Slash, 98>>,
             <<AtSign, 104, Equals, Slash, 98, Slash, Comma, Slash, Star, Slash, Equals, 98>>}
PathCalls == [uri : {Joined(n) : n \in Shapes(PathNames, 3) \ {<<>>}}, beyond : {<<32>>}, rewrites : Rewrites,
              host : {NoText, <<72>>}, root : {<<Slash, 114>>}, files : {{<<Slash, 114, Slash, 97>>, <<Slash, 98, Slash, 98>>}},
              dirs : {{<<Slash, 114>>, <<Slash, 98>>, <<98>>}}]
UriParts == [scheme : {<<104>>}, user : {<<>>, <<117, Colon, 112>>}, host : {<<104>>, <<91, Colon, Colon, 49, 93>>}, port : {0, 80},
             path : {<<Slash>>, <<Slash, 97, Slash>>}, query : {<<>>, <<Question, 97>>}, fragment : {<<>>, <<Sharp, 97>>}]
PatternCalls == [pattern : Shapes({Star, Question, 97, Slash}, 4), s : Shapes({65, 98, Slash}, 3), other : {<<98>>, <<Star>>}]
VariableCalls == [first : Shapes({97, 98}, 2) \ {<<>>}, second : Shapes({65, 98}, 2) \ {<<>>},
                  value : Shapes({Percent, Ampersand, 32, Equals, 60, 0}, 2), other : {<<>>, <<43>>}]
AclCalls == [acl : Shapes([sign : {"+", "-"}, net : {<<0, 0, 0, 0>>, <<1, 2, 0, 0>>, <<1, 2, 3, 0>>, <<1, 2>>}, bits : {0, 3, 4, 8}], 2),
             ip : {<<1, 2, 3, 0>>, <<1, 3, 0, 0>>}]

\* Requests of which a script reads headers, of the same start and inside one another, and forms it takes apart.
Named(text) == text \o <<Colon, 32>>
Headers == [name : {Named(<<65>>), Named(<<65, 69>>)}, value : {<<120>>, Named(<<65>>)}] \cup [name : {Named(<<72, 111, 115, 116>>)}, value : {<<104>>}]
HeaderCalls == [headers : Shapes(Headers, 2), key : {Named(<<65>>), Named(<<65, 69>>)}, body : {<<>>, <<65>>, <<120, Lf>> \o Named(<<65>>)},
                beyond : {<<0>>, <<0, Lf>> \o Named(<<65>>)}]
Fields == [name : {<<97>>, <<98, 97>>}, value : {<<>>, <<37, 0>>, <<Cr, 120>>}, file : {Nil, <<97>>}]
FormCalls == {x \in [type : {109, 112, 117}, fields : Shapes(Fields, 2), boundary : {<<Dash, 66>>, <<66, Period, 66>>}, which : 1..2] :
                  x.which <= Len(x.fields)}

\* Pages that include one another and themselves.
Include(n, blanks) == [is |-> "include", file |-> n, blanks |-> blanks]
Text(data) == [is |-> "text", data |-> data]
PageItems == {Text(Fill(17, 97)), Text(<<60, 98>>), Text(<<60, 33, 45>>), Text(<<98, 62>>), [is |-> "comment"], [is |-> "call"],
              Include(1, <<>>), Include(2, <<32, 32>>), Include(4, <<>>)}
Page(ssi, items) == [ssi |-> ssi, items |-> items]
SsiCalls == [size : {16}, levels : {2}, pages : {<<Page(TRUE, i), Page(TRUE, <<Text(<<99, 60>>), Include(3, <<>>)>>),
                                                   Page(FALSE, <<Include(1, <<>>), Text(<<10>>)>>)>> : i \in Shapes(PageItems, 3)}]
EndpointCalls == [patterns : Shapes({<<Slash>>, <<Slash, 97>>, <<Slash, Star>>, <<Slash, 97, 98>>, <<Star, Star, 98>>}, 3),
                  uri : {Joined(n) : n \in Shapes({<<97>>, <<97, 98>>}, 2)}]

Calls ==
    [fn : {"dns"}, x : [name : DnsNames, records : Shapes(DnsRecords, 2), udp : BOOLEAN]]
    \cup [fn : {"name"}, x : [pkt : Shapes({0, 1, 2, 97, 192}, 5) \ {<<>>}, p : 0..2, room : {1, 3}]]
    \cup [fn : {"alias"}, x : [head : Shapes({97, 98}, 2) \ {<<>>}, tail : DnsNames]]
    \cup [fn : {"coap"}, x : [msgType : {0, 3}, class : {2}, detail : {5}, msgId : {258}, token : {<<>>, <<1, 2>>},
                              payload : {<<>>, <<255, 1>>}, added : Shapes(CoapOptions, 2)]]
    \cup [fn : {"connect"}, x : MqttOptions] \cup [fn : {"length"}, x : Lengths]
    \cup [fn : {"publish"}, x : [topic : {0, 1, 65535}, qos : 0..2, data : {0, 3}]]
    \cup [fn : {"subscribe"}, x : Shapes({0, 1, 3}, 3)]
    \cup [fn : {"mbuf"}, x : Shapes(MbufCalls, 3)] \cup [fn : {"hash"}, x : HashCuts]
    \cup [fn : {"encode"}, x : [first : Shapes({0, 58, 65, 255}, 3), second : Shapes({10, 63, 250}, 3)]]
    \cup [fn : {"print"}, x : [size : {0, 1, 4, 6}, conversions : Shapes(Printable, 2)]]
    \cup [fn : {"compare"}, x : [s : Shapes({65, 97, 98}, 3), t : Shapes({65, 97, 98}, 3)]]
    \cup [fn : {"path"}, x : PathCalls] \cup [fn : {"normalize"}, x : Shapes({Slash, Period, 97}, 6)]
    \cup [fn : {"uri"}, x : UriParts] \cup [fn : {"match"}, x : PatternCalls] \cup [fn : {"variables"}, x : VariableCalls]
    \cup [fn : {"acl"}, x : AclCalls] \cup [fn : {"ssi"}, x : SsiCalls] \cup [fn : {"endpoint"}, x : EndpointCalls]
    \cup [fn : {"headers"}, x : HeaderCalls] \cup [fn : {"form"}, x : FormCalls]

TreePaths == {<<>>} \cup {<<n>> : n \in {"d", "f", "h", "i", Pw}} \cup {<<m, n>> : m \in {"d", "h"}, n \in {"f", "h", "i", Pw}} \cup {<<"f", "f">>, <<"i", "f">>}
\* One file is a second older than the others, which are of the second of the start.
Tree(files, dirs) == [p \in TreePaths |-> CASE p = <<"f">> -> FileNode(files[p], 0)
                                            [] p \in DOMAIN files \ {<<"f">>} -> FileNode(files[p], 1)
                                            [] p \in dirs -> DirNode(0)
                                            [] OTHER -> Absent]
Guarded == [p \in {<<"f">>, <<"h">>, <<"d", "i">>, <<"d", Pw>>} |->
            CASE Last(p) = Pw -> <<1>> [] p = <<"f">> -> <<1, 2, 3>> [] OTHER -> <<4, 5, 6>>]
Open == [p \in {<<"f">>, <<"d", "f">>, <<"d", "h">>, <<"i">>} |-> IF p = <<"f">> THEN <<1, 2, 3>> ELSE <<4, 5, 6>>]
FileOptions == [webdav |-> TRUE, hidden |-> {"h"}, index |-> <<"i", "h">>, cgi |-> {}, domain |-> TRUE, global |-> Missing, davRoot |-> TRUE,
         dav |-> "-", davUsers |-> <<1>>, listing |-> TRUE, closed |-> FALSE, forwards |-> {}, redirects |-> FALSE]
Trees == {Tree(Guarded, {<<>>, <<"d">>}), Tree(Open, {<<>>, <<"d">>})}
Setups == [fs : Trees, now : {1}, opts : {FileOptions, [FileOptions EXCEPT !.webdav = FALSE], [FileOptions EXCEPT !.dav = "file", !.global = <<1, 2>>],
                                 [FileOptions EXCEPT !.dav = "none", !.listing = FALSE], [FileOptions EXCEPT !.domain = FALSE, !.hidden = {"h", "d"}]}]
       \cup [fs : {Tree(Guarded, {<<>>, <<"d">>})}, now : {1}, opts : {[FileOptions EXCEPT !.davRoot = FALSE, !.cgi = {"i"}], [FileOptions EXCEPT !.closed = TRUE],
                                 [FileOptions EXCEPT !.forwards = {"d"}], [FileOptions EXCEPT !.redirects = TRUE]}]
Slashed == [method |-> "GET", uri |-> <<>>, slash |-> TRUE, user |-> 1, cond |-> "none", range |-> <<>>, body |-> <<>>,
      length |-> TRUE, deep |-> TRUE, dest |-> "none", to |-> <<>>]
Plainly(method, uri) == [Slashed EXCEPT !.method = method, !.uri = uri, !.slash = FALSE]
Gets == {[Slashed EXCEPT !.uri = u, !.cond = c] : u \in {<<>>, <<"d">>, <<"f">>}, c \in {"none", "etag"}}
    \cup {[Plainly("GET", u) EXCEPT !.cond = c] : u \in {<<"d">>, <<"f">>, <<"d", "f">>}, c \in {"none", "etag", "date"}}
    \cup {Plainly("GET", u) : u \in {<<"h">>, <<"h", "f">>, <<"d", Pw>>, <<"f", "f">>}}
    \cup {[Plainly("GET", <<"f">>) EXCEPT !.range = g] : g \in {<<0>>, <<1>>, <<1, 2>>, <<2, 3>>, <<-1>>, <<0, -1>>}}
    \cup {[Slashed EXCEPT !.uri = <<"d">>, !.user = u] : u \in {0, 2}} \cup {Plainly("OPTIONS", <<"f">>)}
Changes == {Plainly(m, u) : m \in {"PUT", "DELETE", "MKCOL"}, u \in {<<"d">>, <<"f">>, <<"i", "f">>, <<"i">>}} \cup {Plainly("DELETE", <<>>), Plainly("PROPFIND", <<>>), Plainly("PROPFIND", <<"d">>)}
    \cup {[Plainly(m, <<"d", "f">>) EXCEPT !.user = u] : m \in Dav \ {"MOVE"}, u \in {0, 2}}
    \cup {[Plainly("PUT", u) EXCEPT !.body = <<7, 8, 9>>, !.length = l] : u \in {<<"f">>, <<"d", "f">>, <<"i", "f">>, <<"d", Pw>>}, l \in BOOLEAN}
    \cup {[Plainly("PUT", <<"f">>) EXCEPT !.body = <<7, 8, 9>>, !.range = g] : g \in {<<1>>, <<1, 2>>}}
    \cup {[Plainly("PUT", <<"i">>) EXCEPT !.cond = "etag"], [Plainly("MKCOL", <<"i">>) EXCEPT !.body = <<1>>], [Plainly("PROPFIND", <<"d">>) EXCEPT !.deep = FALSE]}
    \cup {[Plainly("MOVE", u) EXCEPT !.dest = "names", !.to = v] : u \in {<<"d">>, <<"f">>, <<"d", "f">>}, v \in {<<"h">>, <<"d", "f">>, Outside}}
    \cup {[Plainly("MOVE", <<"f">>) EXCEPT !.dest = d, !.to = <<"d">>] : d \in {"names", "malformed", "none"}}
FileRequests == {r \in Gets \cup Changes : ~(r.method = "MOVE" /\ r.uri = <<"d">> /\ r.to = <<"d", "f">>)}

-----------------------------------------------------------------------------
Call == part = "calls" /\ call.fn = "none" /\ call' \in {c \in Calls : c.fn \in CallFns}

-----------------------------------------------------------------------------
\* A part at rest is in one of its initial states.
Init ==
    /\ part \in Parts /\ call = [fn |-> "none"]
    /\ CkInit /\ (part # "chunked" => requests = [i \in 1..N |-> CHOOSE r \in Requests : TRUE])
    /\ UpInit /\ (part # "uploads" => up.parts = CHOOSE b \in UpBodies : TRUE)
              /\ (part # "uploads" => ~up.faulty /\ ~up.named)
    /\ WsInit /\ (part # "websocket" => ws.plan = CHOOSE p \in WsPlans : TRUE)
              /\ (part # "websocket" => ~ws.server /\ ~ws.defrag)
    /\ MqInit /\ (part # "mqtt" => \A c \in MqClients : mq.plan[c] = CHOOSE p \in MqPlans : TRUE)
    /\ SnInit /\ TuInit
    /\ SoInit /\ (part # "socks" => so.auth /\ so.command)
    /\ SfInit /\ (part # "files" => LET s == CHOOSE s \in SfSetups : TRUE IN sf.fs = s.fs /\ sf.opts = s.opts)

Idle(p, v) == part # p => UNCHANGED v

Next ==
    /\ \/ part = "chunked" /\ CkNext
       \/ part = "uploads" /\ UpNext
       \/ part = "websocket" /\ WsNext
       \/ part = "mqtt" /\ MqNext
       \/ part = "sntp" /\ SnNext
       \/ part = "socks" /\ SoNext
       \/ part = "tunnel" /\ TuNext
       \/ part = "files" /\ SfNext
       \/ Call
    /\ Idle("chunked", ckVars) /\ Idle("uploads", upVars) /\ Idle("websocket", wsVars)
    /\ Idle("mqtt", mqVars) /\ Idle("sntp", snVars) /\ Idle("socks", soVars) /\ Idle("tunnel", tuVars)
    /\ Idle("files", sf) /\ Idle("calls", call)
    /\ UNCHANGED part

Spec == Init /\ [][Next]_vars

-----------------------------------------------------------------------------
\* Every variable of the parts stays in its domain.
TypeOK == CkTypeOK /\ UpTypeOK /\ WsTypeOK /\ MqTypeOK /\ SnTypeOK /\ SoTypeOK /\ TuTypeOK /\ SfTypeOK

MessageRead(c) ==
    CASE c.fn = "dns" -> Answered(c.x)
      [] c.fn = "name" -> NameBounded(c.x)
      [] c.fn = "alias" -> NameExpanded(c.x)
      [] c.fn = "coap" -> CoapRead(c.x) /\ CoapCut(c.x)
      [] c.fn = "connect" -> ConnectRead(c.x)
      [] c.fn = "length" -> LengthRead(c.x)
      [] c.fn = "publish" -> PublishRead(c.x)
      [] c.fn = "subscribe" -> TopicsAll(c.x)
      [] OTHER -> TRUE

\* What one side writes the other reads: DNS queries and replies, compressed names, CoAP messages and
\* MQTT packets (mg_send_dns_query, mg_dns_uncompress_name, mg_coap_compose, mg_send_mqtt_handshake_opt).  The
\* length before a DNS reply over TCP is not looked at here, but in CallsAsExplained.
MessagesRead == [][part = "calls" => MessageRead(call')]_call

TextRead(c) ==
    CASE c.fn = "mbuf" -> MbufHolds(c.x)
      [] c.fn = "hash" -> Hashed(c.x)
      [] c.fn = "encode" -> EncodedRead(c.x)
      [] c.fn = "print" -> PrintedRead(c.x)
      [] c.fn = "compare" -> Compared(c.x)
      [] c.fn = "normalize" -> Normalized(c.x)
      [] c.fn = "uri" -> UriRead(c.x)
      [] c.fn = "match" -> Matched(c.x)
      [] c.fn = "variables" -> VariablesRead(c.x)
      [] c.fn = "acl" -> AclRead(c.x)
      [] c.fn = "path" -> PathInside(c.x)
      [] c.fn = "ssi" -> SsiExpanded(c.x)
      [] c.fn = "endpoint" -> EndpointChosen(c.x)
      [] OTHER -> TRUE

\* What the library's own buffers, codes, hashes and printing keep and give back, and what texts stand for:
\* URIs, patterns, forms, access lists, pages with includes and endpoints (mbuf_insert, cs_sha1_update,
\* c_vsnprintf, mg_normalize_uri_path, mg_match_prefix_n, mg_get_http_var, mg_check_ip_acl, mg_send_ssi_file);
\* a request's path stays under the root it was given, whatever of its URI is encoded (mg_uri_to_local_path).
\* A "?" that may face a slash, and a subnet of fewer than four numbers, are left to CallsAsExplained.
TextsRead == [][part = "calls" => TextRead(call')]_call

ScriptRead(c) ==
    CASE c.fn = "headers" -> HeadersRead(c.x)
      [] c.fn = "form" -> FormRead(c.x)
      [] OTHER -> TRUE

\* A script reads the headers and the fields of a form as they were sent (segment_match, getPostByName).
ScriptsRead == [][part = "calls" => ScriptRead(call')]_call

\* What the comments of the code and of its header say of four functions: "TCP DNS requires messages to be prefixed
\* with len" (src/mongoose.c:11077), "? Matches exactly one character which is not a slash" (src/mongoose.h:2178),
\* "-0.0.0.0/0,+192.168/16" is an access list (src/mongoose.h:3880), and a rewrite that ends inside a component of the
\* URI is "No match: must fall on the component boundary" (src/mongoose.c:7774).  The code violates all four.
CallsAsExplained ==
    CASE call.fn = "dns" -> ReplyPrefixed(call.x)
      [] call.fn = "match" -> Matches(call.x)
      [] call.fn = "acl" -> CheckAcl(call.x.acl, call.x.ip) = AclMeaning(call.x.acl, call.x.ip)
      [] call.fn = "path" -> OffBoundaryIgnored(call.x)
      [] OTHER -> TRUE
=============================================================================
