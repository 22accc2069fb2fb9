--------------------------------- MODULE Ssi ---------------------------------
(***************************************************************************)
(* Server-side includes (mongoose.c: mg_send_ssi_file) and the choice of   *)
(* the handler for a URI.  A page is bytes; what the server puts in, other *)
(* than bytes of files, is a number below zero.  "i" and "c" stand for the *)
(* words of the two directives, and a byte for the name of a file: which   *)
(* directory it is looked for in is left out.                              *)
(***************************************************************************)
EXTENDS Uris

Hyphen == 45
BeginTag == <<60, 33, Hyphen, Hyphen, Sharp>>
EndTag == <<Hyphen, Hyphen, 62>>
TooDeep == -3
BadInclude == -4
NotOpened == -5
TooLarge == -6
Called == -7

\* A byte inside what may be a tag, in a buffer of x.size bytes.
SsiInside(x, st, ch) ==
    LET other == st.len = Len(BeginTag) /\ SubSeq(st.mem, 1, st.len) # BeginTag
        full == ~other /\ st.len = x.size - 2
        len == IF full THEN 0 ELSE st.len
    IN  [st EXCEPT !.in = ~other, !.len = len + 1, !.mem[len + 1] = ch, !.out = IF full THEN Append(@, TooLarge) ELSE @]

\* A byte outside of tags: the buffer is sent when it is full.
SsiOutside(x, st, ch) ==
    LET mem == [st.mem EXCEPT ![st.len + 1] = ch]
    IN  IF st.len + 1 = x.size THEN [st EXCEPT !.mem = mem, !.len = 0, !.out = @ \o mem]
        ELSE [st EXCEPT !.mem = mem, !.len = @ + 1]

SsiOpens(st, ch) == [st EXCEPT !.out = @ \o SubSeq(st.mem, 1, st.len), !.in = TRUE, !.len = 1, !.mem[1] = ch]

\* The tag without its end and the blanks before that; a directive is what is in the buffer behind a whole
\* beginning, however short the tag was.
SsiTrimmed(st) ==
    LET blank == {st.len - 1} \cup {j \in 2..st.len - 2 : \A k \in j..st.len - 2 : st.mem[k] = 32}
    IN  [i \in DOMAIN st.mem |-> IF i \in Least(blank)..st.len - 1 THEN 0 ELSE st.mem[i]]
SsiDirective(mem) == SubSeq(mem, Len(BeginTag) + 1, Find(mem, {0}, Len(BeginTag) + 1) - 1)

\* mg_do_ssi_include and mg_send_ssi_file, at a level.
RECURSIVE SendSsi(_, _, _)
SendSsi(x, n, level) ==
    LET included(arg) ==
            IF Len(arg) # 1 THEN <<BadInclude>>
            ELSE IF arg[1] - 48 \notin DOMAIN x.files THEN <<NotOpened>>
            ELSE IF x.files[arg[1] - 48].ssi THEN SendSsi(x, arg[1] - 48, level + 1) ELSE x.files[arg[1] - 48].data
        does(d) == CASE CharAt(d, 1) = 105 -> included(SubSeq(d, 3, Len(d))) [] CharAt(d, 1) = 99 -> <<Called>> [] OTHER -> <<>>
        closes(st) == [st EXCEPT !.in = FALSE, !.len = 0, !.mem = SsiTrimmed(st), !.out = @ \o does(SsiDirective(SsiTrimmed(st)))]
        next(st, ch) ==
            IF st.in /\ ch = 62 /\ st.len >= 2 /\ SubSeq(st.mem, st.len - 1, st.len) = <<Hyphen, Hyphen>> THEN closes(st)
            ELSE IF ch = 60 THEN SsiOpens(st, ch)
            ELSE IF st.in THEN SsiInside(x, st, ch)
            ELSE SsiOutside(x, st, ch)
        end == FoldLeft(next, [in |-> FALSE, len |-> 0, mem |-> Fill(x.size, 0), out |-> <<>>], x.files[n].data)
    IN  IF level > x.levels THEN <<TooDeep>> ELSE end.out \o SubSeq(end.mem, 1, end.len)

-----------------------------------------------------------------------------
(* Handlers of URIs.                                                        *)

\* mg_register_http_endpoint_opt: the latest comes first.
RegisterEndpoint(endpoints, pattern) == <<pattern>> \o endpoints

\* mg_http_get_endpoint_handler: the first of those that match the most of the URI; 0 is the handler of the connection.
EndpointOf(endpoints, uri) ==
    LET matched == [i \in DOMAIN endpoints |-> MatchPrefix(endpoints[i], uri)]
        best == {i \in DOMAIN endpoints : matched[i] > 0 /\ \A k \in DOMAIN endpoints : matched[k] <= matched[i]}
    IN  IF best = {} THEN 0 ELSE Least(best)

-----------------------------------------------------------------------------
\* A page is its text, and directives: what a file is written as, and what it means at a level.
Written(item) == CASE item.is = "text" -> item.data
                   [] item.is = "include" -> BeginTag \o <<105, 32, 48 + item.file>> \o item.blanks \o EndTag
                   [] item.is = "call" -> BeginTag \o <<99, 32>> \o EndTag
                   [] item.is = "comment" -> SubSeq(BeginTag, 1, 4) \o <<32, 97>> \o EndTag

RECURSIVE Means(_, _, _)
Means(x, n, level) ==
    LET one(item) == CASE item.is \in {"text", "comment"} -> Written(item)
                       [] item.is = "call" -> <<Called>>
                       [] item.file \notin DOMAIN x.pages -> <<NotOpened>>
                       [] OTHER -> IF x.pages[item.file].ssi THEN Means(x, item.file, level + 1)
                                   ELSE FlattenSeq([k \in DOMAIN x.pages[item.file].items |-> Written(x.pages[item.file].items[k])])
    IN  IF level > x.levels THEN <<TooDeep>>
        ELSE FlattenSeq([i \in DOMAIN x.pages[n].items |-> one(x.pages[n].items[i])])

\* A page is sent as its text, with every include in place of its directive, to the depth there is, and nothing
\* of it lost or sent twice.
SsiExpanded(x) ==
    LET data(page) == FlattenSeq([i \in DOMAIN page.items |-> Written(page.items[i])])
        y == [size |-> x.size, levels |-> x.levels, files |-> [n \in DOMAIN x.pages |-> [ssi |-> x.pages[n].ssi, data |-> data(x.pages[n])]]]
    IN  SendSsi(y, 1, 0) = Means(x, 1, 0)

\* No handler that matches a URI gives way to one that matches less of it, nor to one registered before it.
EndpointChosen(x) ==
    LET endpoints == FoldLeft(RegisterEndpoint, <<>>, x.patterns)
        n == EndpointOf(endpoints, x.uri)
        got == MatchPrefix(endpoints[n], x.uri)
    IN  IF n = 0 THEN \A i \in DOMAIN x.patterns : MatchPrefix(x.patterns[i], x.uri) <= 0
        ELSE \A i \in DOMAIN x.patterns : LET m == MatchPrefix(x.patterns[i], x.uri)
                                          IN  m < got \/ (m = got /\ \E k \in i..Len(x.patterns) : x.patterns[k] = endpoints[n])
=============================================================================
