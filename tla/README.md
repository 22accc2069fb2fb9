# A verification of asteroid

asteroid is an HTTP server with two kinds of application in it: a shared
library ("native") and Lua scripts. It is about 850 lines of C over a vendored
copy of mongoose (`mongoose.c`), whose event loop and HTTP code do most of what
the server does at run time. This directory holds TLA+ modules of the server's
control, configurations that check them with TLC, and theorems checked by the
TLA+ proof system (TLAPS). Line numbers refer to the files of `src/`.

## 1. The system

### Components

| Component | Code | State | Operations |
|---|---|---|---|
| Start-up | `asteroid.c` 59-126, `load_conf.c` | the settings (`cfg_*`), the mode, pointers to the matching functions and the native handler | `load_conf`, `asteroid_host_init`, `asteroid_http_start` |
| Request dispatch | `handler.c` | the static buffer `uri_rewrite` and its flag | `asteroid_handler`, `request()` |
| Native application | a shared library; `example_module.c` is the sample | its own | one function, which may write a new URI into `uri_rewrite` |
| Lua bridge | `lstate.c`, `lmodule.c`, `init.lua` | one Lua state, `http_msg_buf`, the globals `lScon`, `lSmsg` | the request handler with its two hooks; `b_echo`, `b_flush`, `b_clear`; readers of the request |
| Event loop | `mongoose.c` 2222-2427, 2608-3046, 3357-3940 | the list of connections, per connection `recv_mbuf`, `send_mbuf`, `flags`, the timer | `mg_mgr_poll`: select, accept, connect, read, write, UDP children, timers, the closing pass; `mg_mgr_free` |
| Name resolution | `mongoose.c` 11040-11300, 11500-11623 | a request, and two connections that point to each other | `mg_resolve_async_opt` and its handler; DNS messages |
| HTTP connection | `mongoose.c` 5590-6377 | `pd->rcvd`, `pd->file`, `pd->chunk` | `mg_http_handler` on RECV, POLL, SEND, CLOSE; file transfer; chunked bodies |
| Multipart uploads | `mongoose.c` 6380-6663, 8140-8260, 8372-8408 | the stream's state, the open file | a state machine on the bytes as they arrive; a handler that stores parts in files |
| CGI, reverse proxy | `mongoose.c` 8857-8991, 5733-5745, 7613-7735 | two connections that point to each other | forward what arrives, end together |
| WebSocket | `mongoose.c` 9470-9760 | a message being put together in `recv_mbuf` | handshake, frames, fragments, pings |
| File server | `mongoose.c` 6858-6945, 7206-8139, 9165-9470 | the tree of files | `mg_serve_http`: rewrites, index files, lists, passwords, ranges, WebDAV |
| Server-side includes, endpoints | `mongoose.c` 8410-8433, 6147-6174, 9008-9162 | none | pages that include pages; the handler for a URI |
| MQTT, CoAP, SNTP, SOCKS, tunnels | `mongoose.c` 10240-10880, 11630-12080, 12650-12841, 4060-4200, 12865-12999, 4300-4420, 12240-12549 | sessions, streams, retries | protocols of the library that asteroid does not use, or does not compile |
| Buffers, texts, URIs, forms, access lists | `mongoose.c` 221-400, 1000-1970, 1972-2073, 3074-3116, 5336-5582, 7001-7196, 7733-7889 | none | functions |

### How they interact

    main -> mg_mgr_poll (for ever)
              mg_socket_if_poll: select(), then for every connection
                read    -> MG_EV_RECV  -> mg_http_handler
                             -> MG_EV_HTTP_REQUEST -> asteroid_handler -> request()
                                  -> the native handler   (may rewrite the URI, once)
                                  -> asteroid_lState_http_request_handler
                                        __Accept__, the script, __Finished__
                                  -> mg_serve_http
                write   -> MG_EV_SEND  -> mg_http_handler (next part of a file)
                -       -> MG_EV_POLL  -> mg_http_handler (next part of a file)
              then the closing pass -> MG_EV_CLOSE -> mg_http_handler

There is one thread. Handlers run to their end, so they do not race with each
other; what interleaves is the network (what has arrived, how much of a write
is taken, when a client ends its side), the client, and the handlers of
different events and connections, which share global state.

### What is hard here

- **State that outlives its request.** The Lua bridge writes into one global
  buffer that nothing empties between requests, through a global pointer to the
  connection. `uri_rewrite` is static. `pd->file`, `pd->rcvd` and
  `pd->chunk.body_len` belong to a connection and serve its requests in turn.
- **Arbitrary cuts.** A request arrives in any pieces; a head, a size line or a
  chunk may be cut anywhere; two requests may arrive in one piece.
- **Two counts of the same bytes.** `pd->rcvd` and `recv_mbuf.len` are kept
  apart, and only agree if nothing follows the request just handed over.
- **Responses in instalments.** A file is queued one bufferful at a time on
  whatever event comes next, while requests go on arriving and ends of the
  connection are noticed.
- **Failure half-way.** A script may raise an error after any number of calls;
  settings may be missing from any point of the file on and start-up continues.

- **Lists that change while they are walked.** The loop holds a pointer to a
  connection and to the next one, and handlers open connections, mark any of
  them to be closed and set timers in the middle of it.
- **Pairs of connections.** An HTTP connection and its program or its upstream
  server, a connection and the one that resolves its name, the two ends of a
  SOCKS connection, a tunnel and its streams: each points to the other, and
  either may end first.
- **A network that loses, delays and repeats.** DNS and SNTP ask again, with a
  timer that may be due together with a late answer.

What makes each component correct: start-up either ends the process or leaves
a server that serves the applications the settings name, matched as they say; dispatch serves a request under
its own URI and terminates; the bridge keeps output with its request, in order,
on the right connection; a connection hands over each request once, in order
and whole, answers in order, cuts no response short and leaves nothing waiting;
the loop calls handlers in order, of live connections, loses no output and
leaves nothing undone; of two linked connections neither is used after its end,
and the other one ends too; chunks, parts, frames and packets come out as they
were put in, wherever they are cut; what one side writes the other reads; files
are sent to whom they may be, and change as the replies say.

`PROJECT.json` lists the hazards at their lines, with the properties that
cover each, and says of the others why none does yet.

## 2. The modules

| Module | What it is |
|---|---|
| `LuaBridge` | the Lua request handler and the output buffer |
| `LuaBridgeProofs` | theorems about it |
| `HostInit` | start-up, from the settings to the listening socket |
| `Router` | extends `HostInit` with `request()`, so that dispatch runs in every server start-up can produce |
| `RouterProofs` | theorems about both |
| `HttpConn` | one server-side connection with the poll loop and its client |
| `RequestReply` | abstract specification: what such a connection promises |
| `HttpConnProofs` | theorems about it, and that it implements `RequestReply` |
| `EventLoop` | the list of connections and `mg_mgr_poll`, with any handlers |
| `Resolver` | a connection to a host given by name |
| `Links` | an HTTP connection and the CGI program or server that answers for it |
| `EventLoopProofs` | theorems about the loop |
| `ChunkedBody` | chunked request bodies on a connection |
| `Uploads` | multipart bodies while they arrive, and the handler that stores them |
| `WebSocket` | the handshake, frames, fragments and pings |
| `FramingProofs` | theorems about `ChunkedBody` and `WebSocket` |
| `Mqtt` | the broker and its sessions; the format of packets |
| `Names` | DNS messages and the DNS server, where a name is looked for |
| `Coap` | CoAP messages |
| `Sntp` | the time client |
| `Socks` | a connection through a SOCKS proxy, with the library at both ends |
| `Tunnel` | streams in one WebSocket to a dispatcher |
| `Codecs` | mbuf, base64, hexadecimal, the buffering of hashes, printing, comparison |
| `Uris` | lists, patterns, URIs, forms, access lists, the path of a URI's file |
| `Scripts` | (on `Uris`) what Lua scripts read of a request |
| `Ssi` | (on `Uris`) pages with includes, and the handler for a URI |
| `ServeFiles` | the file server with WebDAV, on a tree that requests change |
| `FilesProofs` | theorems about it |
| `MCApplication` | `Router` and `LuaBridge` side by side |
| `MCHttpConn`, `MCChunkedBody` | constants for TLC; `MCHttpConn` has the refinement mapping to `RequestReply` |
| `MCNetwork` | `EventLoop`, `Resolver` and `Links` side by side |
| `NetworkProofs` | theorems about `Resolver` and `Links`, and of the whole |
| `StreamsProofs` | theorems about `Sntp`, `Socks`, `Tunnel` and `Mqtt` |
| `MCStreams` | the modules from `ChunkedBody` to `ServeFiles` side by side |

`PROJECT.json` ("map") gives the source lines of every definition.

### LuaBridge

`asteroid_lState_http_request_handler` is cut at the points where Lua code
runs: `Enter` (the globals are set), `RunAcceptHook`, any number of `BEcho`,
`BFlush`, `BClear`, then `ScriptReturns` or `ScriptFails`, and
`RunFinishedHook`. A script is any sequence of calls of `lmodule` of bounded
length and may fail after any of them; a missing script and a syntax error are
failures after none. The hooks are those `init.lua` shows: none (as shipped),
`flush` as in its comment, `flush` with a content type, or a clear.

A string is a piece: who echoed it and its number. A response records the
connection, the request being handled, the length its head announces, the
number of bytes queued and the pieces in them. `wire`, `echoed` and `owing` are
history variables and are read by no action's guard; `echoed` only numbers the
pieces.

`b_echo` uses `strcpy` without looking at the size of the buffer. The model
stays inside the buffer (`BufLen`) and says nothing about scripts that do not.

### HostInit and Router

`Loaded` is `load_conf` as a function from a settings file to the globals: a
setting is read only if no earlier one made the function return. Then
`ChooseMode`, `OpenNative`, `OpenLua` and `HttpStart`, each of which may end
start-up. A null pointer that is followed is the outcome `"crashed"`.

`Configured` is about a server that runs: it serves the native application
exactly when the settings name one, and each application that it serves is
matched as the settings say. It does not say that a server has all that its
mode uses: a keyword or the native handler may be missing, and the first request
that needs it crashes (`CompleteServes` says with which settings this cannot
happen). It does not say either that the Lua application is served when it is
configured; that fails, see section 5, point 2.

The names of `Router` and `LuaBridge` are told apart by `Rt` and `Lb`, because
`MCApplication` puts the two modules side by side. Dispatch calls the Lua
handler and waits for it, and the two share no variable.

`Request(u)` enters `asteroid_handler`; `Dispatch` is one pass of the switch in
`request()` with the application it calls; `RewriteUri` is the `goto`; `Return`
leaves. The matching functions are represented by the sets of URIs they accept.
The native handler answers or not and may write any URI; on a second pass the
code gives it a URI that lies in the very buffer it writes to, which matters to
nobody since `request()` does not read it again.

### HttpConn

The client writes its requests in any pieces (`ClientWrites`), and may shut its
sending side or go away at any moment (`ClientCloses`). The server is the loop
`Select`; `ReadNothing`, `ReadData` or `ReadEnd`; `SkipWrite` or `Write`;
`Poll`; `KeepOpen` or `CloseConn`. What `select()` reported is kept in `ready`
and may be out of date when it is used. `ReadData` is the whole handler of
`MG_EV_RECV`: `Transfer` first, because `mg_http_handler` continues a file on
every event, then the head is looked for (`Incomplete`, `Invalid`), and the
message is either awaited (`Chunk`) or handed over (`Dispatch`). Bytes are
counted: the requests are numbered and their lengths are constants, so
`recv_mbuf` is the interval from `consumed` + 1 to `received`.

The application (`Respond`) answers at once, with an error that ends the
connection, with a file, with the error after a failed `fopen`, which
overwrites `pd->file.fp`, or not at all. `Transfer` has the code's unsigned
arithmetic: with more sent than there is, what is left is huge.

What is left out: TLS, the idle timer, multipart bodies and WebSocket upgrades
(modules of their own), and the headers' text. `Connection: close` of a request
matters only to a file response, where it is the choice of `keepalive`.
`plan`, chosen at the start and kept, says which lengths are announced, which
head does not parse, and how long a head may be.

### RequestReply

The abstract connection: requests are sent, handed over and answered in order,
and at the end one more may be handed over that is never answered. `HttpConn`
with a client that waits implements it, under the mapping in `MCHttpConn`: a
request is answered when all of its response is at the client, handed over when
it is in `delivered`, sent when its last byte was written.

### ChunkedBody

A unit is a head, a size line, one byte of data or the end of a line; requests
of any shape are cut between any units. `Scan` is the loop of
`mg_handle_chunked` (a recursive function over positions), `Chunked` the move
in place and what `mg_http_handler` does next, `Abort` the assertion, `Garbage`
what the handler does when the buffer does not start with a head. Size lines
hold numbers, not hexadecimal text. `MG_F_DELETE_CHUNK` is never set by
asteroid and is left out.

### EventLoop, Resolver, Links

`EventLoop` has one action per stage of `mg_mgr_handle_conn` for the connection
the walk is at: connect, read (of a stream, a listener, a UDP listener), write,
poll, timer; then the closing pass, or `mg_mgr_free`. `pass` holds the two
pointers a walk keeps, and what `select()` reported, which may be out of date.
`Handled` is any handler: at each call it may send on, mark, or set the timer of
any live connection, take its input, or open a connection; it may mark a TCP
listener to be closed, but not a UDP one, whose socket its children share. A
datagram for which no connection is left, a bound of the model, stays in the
socket, as a client stays in the backlog. `EventsInOrder` says which events come in which part of
a connection's life. MG_EV_ACCEPT or MG_EV_CONNECT comes before any data, but not
before everything: a connection that is still being opened is polled and its
timer runs (3737-3742). A connection's bytes are counts, so that recv_mbuf, send_mbuf and the socket are three numbers.

`Resolver` is the pair of connections of `mg_connect` with a name: `nc` waits in
no list, `dns` asks; queries and answers are lost, repeated and late, the
program may set a timer or give up meanwhile. `Links` is a request on `front`
answered through `back`; `walk` says which of the two closing steps is next,
since `back` is before `front` in the list.

### The modules behind MCStreams

`Uploads`, `WebSocket`, `Mqtt` and `ChunkedBody` take bytes (tokens) in pieces
of any size; the other side follows one of a set of plans. Each has a state
machine of the code with its actions, and the plan says what should come out.
`Sntp`, `Socks` and `Tunnel` are protocols between connections of one loop or
of two, with either side ending at any time. The other end of a SOCKS handshake
need not speak what this library does: another version ends the connection as
soon as its first byte is here, other methods are refused.

`Names`, `Coap`, `Codecs`, `Uris`, `Scripts`, `Ssi` and half of `Mqtt` are
functions without state. They are translated as operators on sequences of bytes
(arithmetic keeps its width where the code's overflows, as in the 16 bits of an
MQTT length). Behaviour `"calls"` of `MCStreams` is one call with its arguments,
so that a failure names them; the properties are action properties over it.
`Uris` has the arithmetic of positions that the code has (what is left of a
buffer, where a search goes on), not a cleaned up version of it. `Scripts`
models the few forms of Lua patterns that `init.lua` uses.

`ServeFiles` is a tree of files, at most two names deep, and one request after
another; an action is one outcome of `mg_serve_http`, in the order in which
`mg_send_http_file` asks: closed, rewritten to a server, redirected, path info,
passwords, CGI, hidden, WebDAV, index, list, not modified, range. What the code
reads uninitialised, the stat of a file that is not there, is a free choice.
A second may pass between two requests, and files have times at the start, no
two of which need agree, so that a file may be moved over one that is older or
newer. The operating system may refuse to make, remove or rename anything.

## 3. The runs

| Run | Instance | Shows |
|---|---|---|
| `application` | every settings file the code can tell apart, then 2 requests, 5 kinds of URI; and 2 requests on 2 connections, 8 hook combinations, up to 3 calls per script with up to 2 strings each | which applications a running server serves, and how it matches (`Configured`); complete settings never exit or crash; a URI of an earlier request is never used; one rewrite at most; native first (`Dispatched`); output never leaves its request unless the request left it unflushed, and with a clearing or flushing hook never at all (`Isolated`); it is sent once and in order, to the requester; what a failed script had echoed is discarded; a flushing hook answers every request |
| `lua_flush` | `Finished` hook of `init.lua`'s comment | violation, see section 5 |
| `host_init_lua` | the same, no requests | violation |
| `http_conn` | 3 requests, 18 plans: the last body may have no announced end, one head may not parse, heads may be over the limit when they come in pieces; every response kind | requests are handed over once each and in order, and responses leave in order and unmixed (`InOrder`); nothing waits; none is cut short, and a file takes one bufferful of memory (`Whole`); `RequestReply` is implemented; what arrives is handed over or the connection ends, and responses that were begun arrive (`Progress`) |
| `http_conn_file` | 2 pipelined requests for files | violation |
| `http_conn_pipelined` | 2 pipelined requests | violation |
| `network` | a TCP or UDP listener and two more connections; a resolution; a linked pair | walks stay on their way (`WalksHold`), handlers are called in order (`Called`), output is pushed and input bounded (`Buffered`), one child per source, `mg_mgr_free` closes all; a resolution has one outcome, that is reported (`Resolves`, `Reported`); linked connections forget each other, a program's output is forwarded whole (`Unlinks`, `CgiAnswer`); in the end nothing is left undone (`Settles`) |
| `proxy_together` | the same pair, proxy only | violation |
| `streams` | each part below on its own | chunked bodies (`Decoded`, `HandedOver`, `AbortsAfterBody`), uploads and their files (`UploadsWhole`), WebSocket messages (`FramesArrive`), MQTT sessions (`Brokered`), one outcome for SNTP (`SntpOnce`), SOCKS and tunnels (`Relayed`, `StreamsEnd`), a file server (`Served`), and functions: messages (`MessagesRead`), texts (`TextsRead`), what scripts read (`ScriptsRead`) |
| `calls_explained` | DNS replies, patterns, access lists and paths alone | violation: the functions against the comments about them |
| `files_explained` | the file server alone | violation: its answers against what the comments say of its options |
| `chunked_twice` | 2 POSTs, up to 1 chunk | violation |

`application`, `network` and `streams` put modules side by side that do not interact: one part
is at work and the others rest in an initial state. The properties of a run are
conjunctions of named parts where the parts are about one thing.

### Bounds, and why they are enough

- *Lua bridge.* State leaks from a request to the next one only, through one
  buffer; two requests on two connections have every such leak. Three calls
  allow echo, flush, echo and echo, echo, fail. The theorems have no bound.
- *Start-up and dispatch.* Settings files are exhaustive in the values the code compares. A
  static variable carries from one request to the next, so two requests; the
  theorems cover any number.
- *Connection.* Heads of 2 bytes, bodies of 0 to 2 and reads of at most 3 let a
  read end inside a head, at its end, inside a body and at its end. Files of 2
  and 3 with a send buffer of 2 need several bufferfuls; three requests let a
  file follow a file before a request that does not parse. With `Pipelining`
  one read may span two requests, and a file may be asked for while another is
  being sent. `http_conn` is about a client that waits for each response. To one
  that does not, the server keeps less: by points 3 and 4 of section 5,
  `InOrder`, `NothingWaits` and `Whole` fail.
- *Loop.* A list of three has a first, a middle and a last. Handlers act twice
  (`EvActs`), which is enough for one to open a connection or mark the next one
  and another to undo or meet that. One client, two datagrams, two bytes each
  way and a buffer of one: reads are cut by `recv_mbuf_limit`.
- *Resolution.* Two retries and two answers, so that an answer may come after
  the last query, after another answer, or never; a timeout of two ticks.
- *Links.* Output of nothing, of less than a head and of more than one; a body
  of the request or none.
- *Chunks.* Two chunks of up to two bytes: a chunk may be decoded before, with
  or after the next; a chunk may be cut in its data, before the end of its line
  and before its size.
- *Uploads.* Up to two parts, of 0, 1, 3 and 16 bytes, with an end of line, the
  start of a delimiter and half a boundary in the data; the window the code
  keeps back is shorter than 16. Storing may fail at each step.
- *WebSocket, MQTT.* Plans of up to five frames or packets, fragments with
  control frames between them, two clients on one broker; sessions at the limit
  of subscriptions, and topics that match several of them.
- *Sntp, Socks, Tunnel.* One retry and two datagrams, two units each way, two
  streams and two dispatchers in turn.
- *Calls.* Arguments on both sides of each bound of the code: labels of 63 and
  64, lengths of 127 to 268435455, options of 12, 13, 14 and 269, blocks of 55,
  56, 63, 64 and 65 bytes, patterns of four and texts of three characters, pages
  of three items in a buffer of 16 with two levels of includes, two headers, two
  fields, and two rules of an access list.
- *Files.* Two requests in a row, of 75, on two trees in 14 settings: the
  second one meets what the first changed (a password file, an index, a file
  where a directory was). Names at two levels; one file older than the others, and
three seconds, so that a change falls into the second of what the client has or
into a later one.

### Fairness

`http_conn` and `network` assume it. In `http_conn`, `WF(Loop)`: `main` calls
`mg_mgr_poll` in an endless loop and a poll looks at every connection, so the
loop goes on for as long as it can. `SF(SelectWritable)`: a client that does not
go away keeps reading, so its socket is writable again and again, and `select()`
says so when the loop asks, which it does only while something is queued. There
is no fairness on the client: it need not send, and may end at any time.

In `network`, weak fairness of the loop, for the same reason; of the system that
answers a connect(), of the clock, and of a program that was started, which says
what it has to say and ends. Strong fairness of `LkEvents`: the closing pass is
always enabled, and between two of them the loop looks at both connections. A
server need not answer a proxied request, nor a name server a query; queries and
answers may all be lost.

`CHECK_DEADLOCK FALSE` is set where the behaviour really ends: all requests
handled, start-up ended, connection closed.

## 4. What is proved

Each theorem is about the specification of its module for every value of the
constants that satisfies the assumptions in the modules (`LuaBridgeAssumption`,
`ConfigsAssumption`, `RouterAssumption`, `HttpConnAssumption`, `EvAssumption`,
`RsAssumption`, `LkAssumption`, `SnAssumption`, `SoAssumption`, `TuAssumption`,
`MqAssumption`, `ChunkedBodyAssumption`, `WsAssumption`, `SfAssumption`). They give the constants their
types; the bounds that TLC needs (how many requests, connections,
datagrams, retries, calls, streams, packets) are any numbers. `MqAssumption` says
which packets clients send: a `#` is the last character of a topic. The code takes
a `#` anywhere for one at the end ("implement real matching", `mongoose.c:10422`),
so that for any other topic `Brokered` would not hold. `WsAssumption` says which
frames peers send: a control frame is no fragment, and the opcode is 0 where a
message goes on, and only there. `SfAssumption` also says what a tree
of files is: every path's directory is a path of it, what is there is in a
directory that is there, and nothing is from the future. The properties of the runs are
conjunctions of named parts: `OutputIsOwn` puts `Isolated` together,
`EachDispatched` `Dispatched`, and so on.

| Theorem | States | Inductive invariant |
|---|---|---|
| `TypeCorrect` | `[]LbTypeOK` of `LuaBridge` | `TypeInv`: types, and that both globals agree with the request being handled; without it a response has no type |
| `RightConnection` | `[]ToTheRequester` | `TypeInv` with the property |
| `OutputIsolated` | `[]Isolation` | `OwedInv`: every piece in the buffer, and every foreign piece sent, belongs to a request that owes it and is neither waiting nor being handled |
| `HooksIsolate` | `[]HookIsolates` | `HookInv`: when the buffer holds only the current request's output, by hook and point of the handler |
| `OutputOrdered` | `[]OutputInOrder` | the pieces sent and then those in the buffer increase, and all are below the next number |
| `FailuresDiscard` | `[]FailureDiscards` | what is in the buffer behind the error text of a request is not that request's |
| `HookAlwaysAnswers` | `[]HookAnswers` | the property, with the place in the handler of a request not yet answered |
| `RouterTypeCorrect` | `[]RtTypeOK` of `Router` and `HostInit` | with `UriInv`: while a request is routed, `hm->uri` is set |
| `OwnUris` | `[]OwnUriOnly` | `OwnInv`: `uri` and `uri_rewrite` belong to the request |
| `RewritesOnce` | `[]OneRewrite` | `RewriteInv`: the number of passes follows from the flag and the place in `request()` |
| `ServersConfigured` | `[]Configured`, for any settings file | `StartInv`: the globals are those `load_conf` gives this file, the mode follows from them, and each stage has set what it sets |
| `CompleteAlwaysServes` | `[]CompleteServes` | `ServesInv`, on `StartInv`: a stage that complete settings reach has what it needs |
| `NativeComesFirst` | `[]NativeFirst` | `FirstInv`: nothing is dispatched before the server serves, so the mode no longer changes |
| `HttpConnTyped`, `HandedOverOnce` | `[]TypeOK` and `[]DeliveredOnce` of `HttpConn`, for any client | `ConnInv`: what was handed over are the requests before the current one, and `recv_mbuf` begins in or at the start of that one |
| `OrderKept`, `NothingEverWaits`, `ResponsesWhole` | `[]InOrder`, `[]NothingWaits`, `[]Whole`, for a client that waits | `WaitInv`: what is on its way and at the client is the responses so far, one after the other, the last one as far as the file has been read |
| `ConnectionImplements` | `ImplementsRequestReply`, for a client that waits | the same, step by step |
| `EventLoopTyped`, `WalksHoldAlways`, `CalledAlways`, `BufferedAlways`, `OneChildAlways`, `FreedAllAlways` | `[]EvTypeOK` and the properties of the loop | `EvInv`: the list has each live connection once, the walk's pointers are neighbours in it, what is left to visit is behind the current one, and each stage has what it was called for |
| `ResolverTyped`, `ResolvesHolds`, `ReportedHolds` | `[]RsTypeOK`, `[]Resolves`, `[]Reported` | `RsInv`: the request is held by exactly one of the two connections, and what was told follows from where the connection is |
| `LinksTyped`, `UnlinksHolds`, `CgiAnswerHolds` | `[]LkTypeOK`, `[]Unlinks`, `[]CgiAnswer` | `LkInv`: the pointers are mutual; every byte of the program's output is in its buffer, in the loop's, sent, or lost with an end that excuses it |
| `PartsImplemented`, `NetworkTyped`, `NetworkHolds` | `MCNetwork` implements the three specifications, so it has their properties | none of its own |
| `SntpTyped`, `SntpOnceHolds` | `[]SnTypeOK`, `[]SntpOnce` | `SnInv`: nothing is told before the closing, and each attempt is a request sent |
| `CkTypeCorrect` | `[]CkTypeOK` of `ChunkedBody` | `CkTyped`: types, and that the units of a request are those its chunks give it |
| `CkInPlace`, `CkDecoded`, `CkHandedOver` | `[]DecodedInPlace`, `[]Decoded`, `[]HandedOver`, for any chunks and any cuts; `Decoded` for a client that waits | `CkInv`: what is in the buffer, decoded or not, and what is on its way are the units of the requests from the first that was not handed over, in order (`OnItsWay`); what was handed over is whole (`HandedWhole`) |
| `CkAborts` | `[]AbortsAfterBody`, for any client | the same, with where the counters of the current body can come from (`Latest`) |
| `WsTyped`, `FramesArriveHolds` | `[]WsTypeOK`, `[]FramesArrive` of `WebSocket`, for any frames, however they are cut | `WsInv`: some number of frames is dealt with; `recv_mbuf` has the rest of what has come (`Plain`), behind the fragments put together so far (`Merged`), the handler was told of the messages those frames end, and when it is not running the next frame is not whole |
| `FilesTyped`, `ServedAlways` | `[]SfTypeOK`, `[]Served` of `ServeFiles`, for any tree, options and requests | `SfInv`: the tree is whole (`Sound`), and the last answer is as promised (`Promised`) |
| `SocksTyped`, `RelayedHolds` | `[]SoTypeOK`, `[]Relayed` of `Socks`, for any amounts and however the parts come apart | `SoInv`: what each step of the handshake finds on its way; what the target has, what is on its way to it and what is kept for it are the first units of the application, in that order, and the same the other way round; of the connections the target's ends first and the application's last |
| `TunnelTyped`, `StreamsEndHolds` | `[]TuTypeOK`, `[]StreamsEnd` of `Tunnel`, for any streams and dispatcher connections | `TuInv`: `TuSound`, which each single closing of a round keeps (a stream is in front of the connection it was opened on, or marked; ids are used once; an end is sent once), and `Calm`, which only whole rounds keep: when the loop has come to a new dispatcher connection, no older stream is left |
| `MqttTyped`, `BrokeredHolds` | `[]MqTypeOK`, `[]Brokered` of `Mqtt`, for any clients and packets, however they are cut | `MqInv`: `MqSound`, which each packet keeps (the list of sessions follows from the packets handled; `InStanding`: a session's topics are those asked for, and what was sent is due), and where each client is in what it sends |

The arguments have one shape: the invariant holds initially, is kept by every
action (one step per action, with what a handler does as a lemma on a value of
the state, so that it serves every action that calls it), and implies the
property; the last step is temporal. In `LuaBridgeProofs` the lemma `WireStep`
says how any step may extend what was sent, so that the theorems about responses
need not look at each action. Without `OwedInv`, `Isolation` is not inductive: it
says nothing about the buffer, which is what the next response will carry. In the
same way `NothingWaits` looks at `select()` only, and `WalkersLive` at pointers
and not at the list they point into.

In `HttpConnProofs` the offsets of requests are sums over the requests before
them (`Start`, a recursive function); that they grow, and that the request a
byte belongs to is unique, is proved once from the theorem of the library about
functions defined by recursion on Nat, by the well-foundedness of Nat over a set
of counterexamples. `OrderKept` and those after it are about a client that
waits for each response: section 5, points 3 and 4, has what one that does not
wait may meet. For the refinement, a request is answered when its last unit is
at the client; the mapping of a step is the abstract action for sending,
handing over, answering or closing, or a stutter, by the same cases as the
invariant.

In `StreamsProofs` what is sent are numbers and the units of the handshake in
sequences that are cut anywhere. Lemmas state what cutting and joining do
(`Moved`, `DropFront`, `Shorter`), and a step is then about `Onto` and `Heard`,
which cutting does not change. `HeardOut` alone is not inductive: that a close
loses nothing rests on the order in which the connections end (`SoJoined`), and
that on nobody being marked before the handshake is over (`Answering`).

The theorems of `NetworkProofs` about the whole rest on those of the three parts:
a step of `MCNetwork` is a step of one of them and leaves the variables of the
others.

`FramingProofs` and `FilesProofs` are about data of any length, and need
induction over it. The library's induction theorems take an operator and cannot
be used; `NatSet` takes a set instead: a set of numbers that has 0 and with each
number the next has all of them. It follows from the well-foundedness of `<` on
Nat, by a least counterexample. With it, what a recursive function computes is
proved: that `Scan` goes from chunk to chunk and stops where the buffer has no
more (`ScanIs`, `ScanStream`), what `FlattenSeq` puts where (`FlatAt`), and that
all directories on the way to a file are there (`CutThere`). In `FilesProofs` a
path without path info has no file on the way (`FoundIs`), which is what keeps
the tree whole when PUT makes directories; each request is then a lemma that its
answer, with the tree before and after, is as promised (`AnsweredWell`), and
`AnswerKeeps` carries that to the state.

In the part about `WebSocket` the same lemmas on `FlattenSeq` place each frame in the
bytes of a plan (`FrameStarts`), so that what is read at the beginning of what is
left is the next frame's flags, length and data (`Found`), wherever the network has
cut. `FramesArrive` alone says nothing of a message half put together; `Merged`
does, and that its fragments are those since the last end (`Gathers`) rests on the
opcode 0, by which the code tells a fragment that goes on from one that begins.

`NatSet` also serves where one step of a model is a loop of the code: a round
over the connections in `Tunnel`, and the packets of one read in `Mqtt`. The loop
is a recursive function (`Visits`, `Handlings`); what each turn keeps is a lemma on
a value of the state, and the invariant of the loop follows for every number of
turns. In a round of `Tunnel` that is more than the invariant between rounds:
behind the turn nothing is marked, unless the dispatcher's connection was closed
in this round, and then it is gone (`RoundKeeps`). `NotTheNext` rests on the order of the
list: accepted streams come to its head, so that the loop goes from a stream to
its dispatcher and never the other way (`NeverNext`). In `Mqtt`
what is due to a client is defined over the whole history; `DueMore` and
`AnswerIs` say that one more packet only adds to it, and which answer.

What the proofs changed in the model: conditions that overlap were written with
CASE, whose choice is then anybody's, and are IF now, in the order of the code
(in `Links`, `EventLoop`, `Codecs`, `Scripts`, `ServeFiles`, `Ssi`, `Uris` and
`MCHttpConn`); `Index` in `ServeFiles` is the set of positions of the list at
which there is a file, of which the first is taken, and was the sequence of those
files; `EvTypeOK` said that the list holds connections, and says now that
it holds those that live; `Answered` in `HttpConn` counts the units of a response
by their set of positions, which says the same. The loops of `TuRound` and
`MqReceive` were folds with a LAMBDA, which the provers do not look into, and are
recursive functions now; what is taken out of a list is taken with
`RemoveFirst`, and `EndsTold` counts the frames by their set of positions.
`Messages` and `Frames` of `WebSocket` are put together frame by frame with
`FlattenSeq`, and were sorted sets and `SelectSeq`; what peers send was bounded by
the plans of the run only, and is `Orderly` now.

Only model-checked:

- Liveness (`Progress`, `Settles`), which the proof system does not do under
  fairness.
- `UploadsWhole` of `MCStreams`. Its actions look for boundaries in bytes that may
  be cut anywhere, and what they find has to be related to all of the body that the
  peer sends.
- `TypeOK` of `MCStreams` as a whole: the module also has the functions without
  state, which are recursive operators, and nothing can be proved in a module
  that reaches one. Its parts for `ChunkedBody` (`CkTypeCorrect`), `ServeFiles`
  (`FilesTyped`), `WebSocket` (`WsTyped`), `Sntp` (`SntpTyped`), `Socks` (`SocksTyped`), `Tunnel`
  (`TunnelTyped`) and `Mqtt` (`MqttTyped`) are proved.
- The functions of `Names`, `Coap`, `Codecs`, `Uris`, `Scripts`, `Ssi` and half
  of `Mqtt` (`MessagesRead`, `TextsRead`, `ScriptsRead`). What a recursive
  function computes for every input needs induction over data; they are recursive
  operators, which the provers at hand do not take.

## 5. Where code and documents disagree

Each has a run that finds it.

1. `lua_flush` / `FlushSendsBuffer`. `init.lua:11` and 224-226 present `flush()`
   as what sends the buffer, and `lmodule.c:374` makes the content type
   optional. Without one, `http_msg_buf_flush` sends a head that announces the
   buffer's length, no body, and forgets the buffer (`lmodule.c:117-133`).
2. `host_init_lua` / `RemovingNativeKeepsLua`. `config.lua:5-7` says that
   removing `native_lib` disables the native application. `load_conf.c:74` tests
   `cfg_native_match` where `cfg_lState_match` is meant, so it disables Lua too,
   and the mode for Lua alone can never be entered.
3. `http_conn_file` / `SentCounts`. `mg_http_serve_file` starts a second file
   without resetting `pd->file.sent`, and without ending a first file that is
   still being sent; the second response ends early.
4. `http_conn_pipelined` / `ChunkMeansMore`. `rcvd` is set to 0 although bytes of
   the next request may be buffered (`mongoose.c:6374-6375`), and that request,
   whole, is later reported as incomplete and waits for bytes that need not
   come.
5. `chunked_twice` / `AssertionHolds`. `chunk.body_len` is not reset after a
   request, so `assert(blen >= body_len)` fails for a later chunked request on
   the connection. The makefile does not define `NDEBUG`.

6. `proxy_together` / `ProxyTogether`. `mg_http_free_reverse_proxy_data` sets the
   flag that is to end the other connection on the dying one
   (`mongoose.c:5741`), under a comment that they "must live and die together".
   The connection to the other server stays until that server ends it.
7. `calls_explained` / `CallsAsExplained`, four functions; `TextsRead` and
   `MessagesRead` hold for the arguments that are not concerned:
   - a rewrite that ends inside a component is passed over ("No match: must fall
     on the component boundary", `mongoose.c:7774`), but the start of the path has
     been moved (7766), so a part of the URI is missing from what is looked up;
   - the length before a DNS reply over TCP leaves the header's 12 bytes out
     (`mongoose.c:11296-11300`), against "TCP DNS requires messages to be prefixed
     with len" (11077) and the other two places that write one. The client of the
     library drops the two bytes unread, so it does not notice;
   - `?` of a pattern matches a slash (`mongoose.c:2028`), contrary to
     `mongoose.h:2178`;
   - the example of an access list at `mongoose.h:3880`, `+192.168/16`, is not one
     that `mg_check_ip_acl` can read (`mongoose.c:3081`).
8. `files_explained` / `OptionsExplained`, the file server; `Served` says what holds
   all the same:
   - PROPFIND is answered with a list when there is no file of DAV passwords
     (`mongoose.c:8034`), although "DAV requests are going to fail" then
     (`mongoose.h:4807`);
   - a hidden file is sent as an index file, and for PUT and MKCOL by a build
     without WebDAV (`mongoose.c:8028`), although the pattern is for "the files to
     hide" (`mongoose.h:4812`);
   - "Not Modified" (`mongoose.c:8069`) is answered for a file that was replaced by
     one as long within the second, and to a client that asks by date for one in
     whose place an older file was moved (7932).

Seen while modelling, reproduced by the models and without a run of their own:

- When a connection ends in the middle of a body of announced length, what
  there is is handed over as a request; the comment at `mongoose.c:6257-6260`
  speaks only of bodies without one. `RequestReply!Close` admits it.
- A chunked PATCH is handed over with its head, before its body
  (`mongoose.c:6363-6364`): `requests[1].method = "POST"` in the properties of
  `ChunkedBody`.
- Bytes behind the last chunk are counted as part of the message
  (`mongoose.c:6140-6141`); `ChunkedBody` does so with `Pipelining`.
- An upload that is cut off leaves its file open: the part is ended without
  `user_data` (`mongoose.c:6241-6246`), so the handler returns before it closes
  the file (8231), although it has a branch for that case (8244).
  `Uploads!FilesClosed` says when a file is open, and `UpClose` leaves one.
- A control frame between two fragments of a WebSocket message makes the message
  come apart; `MessagesWhole` excludes it (`mongoose.c:9579`).
- The broker compares the number of topics of one packet with
  `sizeof(MG_MQTT_MAX_SESSION_SUBSCRIPTIONS)`, which is 4, not with the limit
  (`mongoose.c:10771`).
- In the length of an MQTT packet more than 65535 bytes wrap
  (`mongoose.c:10485`): `ConnectRead` has the condition.
- DELETE of a directory answers 204 and leaves hidden files with their
  directories (`mongoose.c:9339-9397`); PUT makes directories before it answers
  411 or 500; without WebDAV, the test for missing files is skipped for PUT and
  MKCOL. `Served` says exactly this much.
- Nonces are written in decimal (`mongoose.c:7945-7952`) and read as hexadecimal
  (7296), so that none is ever too old.
- `mongoose.h:4686` says that passwords are disabled by NULL, `mongoose.c:8103`
  sets the default.
- `segment_match` (`lmodule.c:37`) looks for a header in the body and in what
  lies behind it, misses the header after a line that ends where the key
  differs, and `http_host` returns whatever the second line is.
- `getPostByName` raises an error for the last field of an encoded form when it
  is not there (`init.lua:133`).
- A SUBSCRIBE that ends inside a topic leaves its session with the topics before
  that one, although it is not answered and the connection is marked to be closed
  (`mongoose.c:10787-10806`); one that exceeds the limit leaves none.
- `<-->`, `<!-->` and `<!--->` in a page are taken for the end of a directive,
  and the one before is carried out again (`mongoose.c:9102`); the pages of
  `MCStreams` have none of them.

And one outside the models: `lstate.c:75` leaves the result or the error
message of every script on the Lua stack.

## 6. Not modelled

- **Parts of modelled components**: the environment of a CGI program and its
  start (`mongoose.c:8673-8856`), the head that is written to an upstream
  server, a second request on a connection with a link; `mg_broadcast`; nonces
  and digests, what a hash makes of a block; hosts files and resolv.conf; the
  tables of status texts and MIME types and the HTML of lists; the parsing of
  listening addresses; `mg_tun_destroy_client`. They are input and output,
  tables, arithmetic on bytes, or text without a property.
- **Cases of modelled functions**: `MG_F_DELETE_CHUNK` (6125-6129, 6187-6195), which
  no handler in `src/` sets; the test for a WebSocket frame whose length does not
  fit with its header (9538-9541); CONNECT packets of MQTT of more than 65535 bytes
  (10485), which `ConnectRead` leaves out; a failure of the operating system below
  the directory that DELETE removes; a handler that closes a UDP listener while
  its children live.
- **Memory**: every `malloc` succeeds, except where the code's answer is
  modelled (`Codecs`). So what `mg_if_recv_udp_cb` does when no child can be made
  is left out: it goes on with the null child (`mongoose.c:2765-2776`).
  The overflow of the Lua output buffer and of the Lua stack (`lmodule.c:105`, `lstate.c:75`) is not in `LuaBridge`.
- **Not compiled by the makefile**: TLS, the interfaces for lwIP, SimpleLink,
  PIC32 and Windows, and their file systems. SOCKS, tunnels, CoAP and the
  broker are modelled although asteroid does not use them; their source is part
  of the same file.

## 7. Plan

1. Proofs: `UploadsWhole`, with the parts as `FrameStarts` has the frames, first for
   bodies in which the boundary is one token.
2. `Links` with a second request on the connection that has a link, and the
   same for an upload that follows an upload.
3. Dispatch, bridge and connections composed, so that the connection `lScon`
   names may end before a response is queued.
4. The environment of CGI programs, listening addresses, digests.
