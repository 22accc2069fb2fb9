-------------------------------- MODULE Uris --------------------------------
(***************************************************************************)
(* Names and lists that come as text (mongoose.c: uri, str_util, parts of  *)
(* http): lists separated by commas, patterns, access lists, URIs, encoded *)
(* forms, and the file a request's URI names.  Texts are sequences of      *)
(* bytes.                                                                  *)
(***************************************************************************)
EXTENDS Codecs

Slash == 47
Period == 46
DotDot == <<Period, Period>>
Percent == 37
Comma == 44
Equals == 61
Colon == 58
Question == 63
Sharp == 35
AtSign == 64
Ampersand == 38
Star == 42
Quotes == {34, 39}

Starts(s, t, i) == IsPrefix(t, SubSeq(s, i, Len(s)))

\* Where the first member of seps is in s, from i on; after the end when there is none.
Find(s, seps, i) == LET at == {k \in i..Len(s) : s[k] \in seps} IN IF at = {} THEN Len(s) + 1 ELSE Least(at)

\* parse_uri_component: up to a separator, and what is after it.
Component(s, i, seps) ==
    LET e == Find(s, seps, i)
    IN  [val |-> SubSeq(s, i, e - 1), next |-> IF e > Len(s) THEN e ELSE e + 1]

-----------------------------------------------------------------------------
(* Lists and patterns.                                                      *)

\* mg_next_comma_list_entry_n, up to the end: a comma at the end adds no entry.
Entries(list) ==
    LET from[i \in 1..Len(list) + 1] ==
            LET c == Component(list, i, {Comma})
                eq == Find(c.val, {Equals}, 1)
            IN  IF i > Len(list) THEN <<>>
                ELSE <<[val |-> SubSeq(c.val, 1, eq - 1), eq |-> SubSeq(c.val, eq + 1, Len(c.val))]>> \o from[c.next]
    IN  from[1]

\* mg_match_prefix_n: how much of the first n bytes of t the pattern matches, or -1.  A character is compared
\* without a look at n, so that what follows the string in memory can take part.
RECURSIVE MatchPrefixN(_, _, _)
MatchPrefixN(pattern, t, n) ==
    LET either == IF 124 \in Range(pattern) THEN Find(pattern, {124}, 1) ELSE Find(pattern, {Comma}, 1)
        first == MatchPrefixN(SubSeq(pattern, 1, either - 1), t, n)
        rest(i) == SubSeq(pattern, i, Len(pattern))
        walk[i \in 1..Len(pattern) + 1, j \in 0..Len(pattern)] ==
            IF i > Len(pattern) THEN j
            ELSE IF pattern[i] = Question /\ j # n THEN walk[i + 1, j + 1]
            ELSE IF pattern[i] = 36 THEN IF j = n THEN j ELSE -1
            ELSE IF pattern[i] = Star THEN
                    LET double == CharAt(pattern, i + 1) = Star
                        k == IF double THEN i + 2 ELSE i + 1
                        len == IF double THEN n - j ELSE Find(SubSeq(t, 1, n), {Slash}, j + 1) - 1 - j
                        tail(l) == MatchPrefixN(rest(k), SubSeq(t, j + l + 1, Len(t)), n - j - l)
                        fits == {l \in 0..len : tail(l) # -1}
                        most == CHOOSE l \in fits : \A m \in fits : m <= l
                    IN  IF k > Len(pattern) THEN j + len ELSE IF fits = {} THEN -1 ELSE j + most + tail(most)
            ELSE IF Lower(pattern[i]) = Lower(CharAt(t, j + 1)) THEN walk[i + 1, j + 1] ELSE -1
    IN  IF either > Len(pattern) THEN walk[1, 0]
        ELSE IF first > 0 THEN first ELSE MatchPrefixN(rest(either + 1), t, n)

\* mg_match_prefix, on a string that ends with a zero.
MatchPrefix(pattern, s) == MatchPrefixN(pattern, s, Len(s))

\* mg_check_ip_acl on entries with a sign, four numbers and a length, over addresses of four numbers below 4
\* and eight bits in all: 1, 0 or -1.
Masked(ip, bits) == [i \in 1..4 |-> LET b == IF bits >= 2 * i THEN 2 ELSE IF bits <= 2 * (i - 1) THEN 0 ELSE 1
                                    IN  ip[i] - (ip[i] % (2 ^ (2 - b)))]
ParseNet(e) == Len(e.net) = 4 /\ (\A i \in 1..4 : e.net[i] \in 0..3) /\ e.bits \in 0..8
CheckAcl(acl, ip) ==
    LET put(allowed, e) == IF allowed = -1 \/ e.sign \notin {"+", "-"} \/ ~ParseNet(e) THEN -1
                           ELSE IF e.net = Masked(ip, e.bits) THEN (IF e.sign = "+" THEN 1 ELSE 0) ELSE allowed
    IN  FoldLeft(put, IF acl = <<>> THEN 1 ELSE 0, acl)

-----------------------------------------------------------------------------
(* URIs.                                                                    *)

NoUri == [scheme |-> <<>>, user |-> <<>>, host |-> <<>>, port |-> 0, path |-> <<>>, query |-> <<>>, fragment |-> <<>>]

\* mg_parse_uri: the state, the place in s and what was found, NoUri for -1; the user info ends at the first @,
\* also when that is in the path.  A port is digits.
RECURSIVE ParseFrom(_, _, _, _)
ParseFrom(s, state, p, u) ==
    LET from(a, b) == SubSeq(s, a, b - 1)
        goes(st, i, v) == ParseFrom(s, st, i, v)
        colon == Find(s, {Colon, Slash}, p)
        user == Find(s, {AtSign, 91}, p)
        begin == IF CharAt(s, p) = AtSign THEN p + 1 ELSE p
        bracket == Find(s, {93}, begin) + 1
        hostEnd == IF CharAt(s, begin) = 91 THEN bracket ELSE Find(s, {Colon, Slash}, begin)
        slash == Find(s, {Slash}, p + 1)
        path == Component(s, p, {Question, Sharp})
        query == IF path.next <= Len(s) /\ s[path.next - 1] = Question THEN Component(s, path.next, {Sharp})
                 ELSE [val |-> <<>>, next |-> path.next]
    IN  IF p > Len(s) THEN u
        ELSE IF state = "start" THEN
                IF s[p] = 91 THEN goes("host", p, u)
                ELSE IF CharAt(s, colon) = Colon THEN goes("scheme", colon, u)
                ELSE goes("rest", colon, [u EXCEPT !.host = from(1, colon)])
        ELSE IF state = "scheme" THEN
                IF Starts(s, <<Colon, Slash, Slash>>, p) THEN goes("user", p + 3, [u EXCEPT !.scheme = from(1, p)])
                ELSE goes("port", p, [u EXCEPT !.host = from(1, p)])
        ELSE IF state = "user" THEN
                IF CharAt(s, user) = AtSign THEN goes("host", user, [u EXCEPT !.user = from(p, user)])
                ELSE goes("host", p, u)
        ELSE IF state = "host" THEN
                IF CharAt(s, begin) = 91 /\ bracket > Len(s) + 1 THEN NoUri
                ELSE goes(CASE CharAt(s, hostEnd) = Colon -> "port" [] CharAt(s, hostEnd) = Slash -> "rest" [] OTHER -> "host",
                          hostEnd, [u EXCEPT !.host = from(begin, hostEnd)])
        ELSE IF state = "port" THEN goes("rest", slash, [u EXCEPT !.port = To64(from(p + 1, slash))])
        ELSE [u EXCEPT !.path = path.val, !.query = query.val, !.fragment = SubSeq(s, query.next, Len(s))]

ParseUri(s) == ParseFrom(s, "start", 1, NoUri)

\* mg_normalize_uri_path: what is copied, after which a component "." or ".." takes back.
Back(d) ==
    LET e == IF Len(d) > 1 /\ d[Len(d)] = Slash THEN Len(d) - 1 ELSE Len(d)
        slashes == {k \in 1..e : d[k] = Slash}
    IN  SubSeq(d, 1, IF slashes = {} THEN 0 ELSE CHOOSE k \in slashes : \A m \in slashes : m <= k)

NormalizePath(s) ==
    LET copy[i \in 1..Len(s) + 1, d \in Seq(0..255)] ==
            LET c == Component(s, i, {Slash})
            IN  IF i > Len(s) THEN d
                ELSE copy[c.next, IF c.val = <<Period>> THEN d ELSE IF c.val = DotDot THEN Back(d)
                                  ELSE d \o SubSeq(s, i, c.next - 1)]
        out == copy[1, <<>>]
    IN  IF s = <<>> \/ s[1] # Slash THEN <<>> ELSE IF out = <<>> THEN <<Slash>> ELSE out

\* mg_assemble_uri, where it succeeds.
AssembleUri(u, normalize) ==
    LET put(before, text, after) == IF text = <<>> THEN <<>> ELSE before \o text \o after
    IN  put(<<>>, u.scheme, <<Colon, Slash, Slash>>) \o put(<<>>, u.user, <<AtSign>>) \o u.host
        \o (IF u.port # 0 THEN <<Colon>> \o Itoa(u.port, 10, FALSE, 0) ELSE <<>>)
        \o (IF ~normalize THEN u.path ELSE IF u.path = <<>> THEN <<Slash>> ELSE NormalizePath(u.path))
        \o put(<<Question>>, u.query, <<>>) \o put(<<Sharp>>, u.fragment, <<>>)

-----------------------------------------------------------------------------
(* Forms and headers.                                                       *)

IsHex(ch) == ch \in 48..57 \cup 65..70 \cup 97..102
NoText == <<-1>>

\* mg_url_decode into size bytes: the text or NoText.
UrlDecode(src, size, form) ==
    LET from[i \in 1..Len(src) + 3, n \in 0..Len(src)] ==
            IF i > Len(src) THEN <<>>
            ELSE IF n >= size - 1 THEN NoText
            ELSE IF src[i] = Percent THEN
                    IF i + 2 <= Len(src) /\ IsHex(src[i + 1]) /\ IsHex(src[i + 2])
                    THEN <<FourBit(src[i + 1]) * 16 + FourBit(src[i + 2])>> \o from[i + 3, n + 1] ELSE NoText
            ELSE <<IF form /\ src[i] = 43 THEN 32 ELSE src[i]>> \o from[i + 1, n + 1]
        text == from[1, 0]
    IN  IF -1 \in Range(text) THEN NoText ELSE text

\* mg_url_encode; strchr also finds the zero that ends the list of what is not escaped.
UrlEncode(src) ==
    LET plain == 48..57 \cup 65..90 \cup 97..122 \cup {46, 95, 45, 36, 44, 59, 126, 40, 41, 47, 0}
    IN  FlattenSeq([i \in DOMAIN src |-> IF src[i] \in plain THEN <<src[i]>> ELSE <<Percent>> \o ToHex(<<src[i]>>)])

\* mg_get_http_var: the value of the first variable of that name, [code, text].
GetHttpVar(buf, name, size) ==
    LET n == Len(name)
        found == {i \in 1..Len(buf) - n : /\ i = 1 \/ buf[i - 1] = Ampersand
                                          /\ buf[i + n] = Equals /\ Ncasecmp(name, SubSeq(buf, i, Len(buf)), n) = 0}
        at == Least(found) + n + 1
        text == UrlDecode(SubSeq(buf, at, Find(buf, {Ampersand}, at) - 1), size, TRUE)
    IN  IF size = 0 THEN [code |-> -2, text |-> <<>>] ELSE IF buf = <<>> THEN [code |-> -1, text |-> <<>>]
        ELSE IF found = {} THEN [code |-> -4, text |-> <<>>]
        ELSE IF text = NoText THEN [code |-> -3, text |-> <<>>] ELSE [code |-> Len(text), text |-> text]

\* mg_http_parse_header: the value of a variable, between quotes or up to a blank or a comma.
HeaderVar(hdr, name, size) ==
    LET n == Len(name)
        found == {i \in 1..Len(hdr) - n - 1 : /\ i = 1 \/ hdr[i - 1] \in {32, 44, 59}
                                              /\ hdr[i + n] = Equals /\ SubSeq(hdr, i, i + n - 1) = name}
        start == Least(found) + n + 1
        quote == IF hdr[start] \in Quotes THEN hdr[start] ELSE 0
        stop == IF quote # 0 THEN {quote} ELSE {32, 44}
        s == IF quote # 0 THEN start + 1 ELSE start
        escaped(i) == quote # 0 /\ hdr[i] = 92 /\ CharAt(hdr, i + 1) = quote
        from[i \in s..Len(hdr) + 2] == IF i > Len(hdr) THEN (IF quote # 0 THEN NoText ELSE <<>>)
                                       ELSE IF hdr[i] \in stop THEN <<>>
                                       ELSE IF escaped(i) THEN <<quote>> \o from[i + 2]
                                       ELSE <<hdr[i]>> \o from[i + 1]
        text == from[s]
        \* a comma or a semicolon that the original has at the place of the last byte is taken off
        once(t, ch) == IF t # <<>> /\ CharAt(hdr, s + Len(t) - 1) = ch THEN SubSeq(t, 1, Len(t) - 1) ELSE t
    IN  IF found = {} \/ -1 \in Range(text) \/ Len(text) >= size THEN <<>> ELSE once(once(text, Comma), 59)

\* mg_printf_html_escape
HtmlEscape(s) ==
    FlattenSeq([i \in DOMAIN s |-> CASE s[i] = 60 -> <<38, 108, 116, 59>> [] s[i] = 62 -> <<38, 103, 116, 59>> [] OTHER -> <<s[i]>>])

-----------------------------------------------------------------------------
(* The file of a request.  x has the uri and what follows it in the request *)
(* (beyond), the rewrites, the Host header (NoText: none), the document     *)
(* root, and the paths of the files and directories that exist.             *)

\* What mg_uri_to_local_path takes for the root and for the start of the rest of the URI.  A rewrite that
\* ends inside a component is passed over, but the start has moved.
Root(x) ==
    LET mem == x.uri \o x.beyond
        put(r, e) ==
            LET m == MatchPrefixN(e.val, mem, Len(x.uri))
                start == m + 1
                matched(st) == [root |-> e.eq, start |-> st, found |-> TRUE]
            IN  IF r.found THEN r
                ELSE IF Len(e.val) > 1 /\ e.val[1] = AtSign THEN
                        IF Len(x.host) = Len(e.val) - 1 /\ Vcmp(x.host, Tail(e.val), TRUE) = 0
                        THEN matched(r.start) ELSE r
                ELSE IF m <= 0 THEN r
                ELSE IF CharAt(mem, start) = Slash \/ start = Len(x.uri) + 1 THEN matched(start)
                ELSE IF mem[start - 1] = Slash THEN matched(start - 1)
                ELSE [r EXCEPT !.start = start]
    IN  FoldLeft(put, [root |-> x.root, start |-> 1, found |-> FALSE], Entries(x.rewrites))

NoPath == [ok |-> FALSE]
Base(root) == IF root # <<>> /\ root[Len(root)] = Slash THEN SubSeq(root, 1, Len(root) - 1) ELSE root

\* Wrong: what a component means is decided before it is decoded.
AddComponentEncoded(lp, base, val) ==
    LET text == UrlDecode(val, 1000, FALSE)
        slashes == {k \in Len(base) + 1..Len(lp) : lp[k] = Slash}
    IN  CASE val = <<Period>> -> lp
          [] val = DotDot -> IF slashes = {} THEN lp
                             ELSE SubSeq(lp, 1, (CHOOSE k \in slashes : \A m \in slashes : m <= k) - 1)
          [] OTHER -> IF {-1, 0, Slash} \cap Range(text) # {} THEN NoText ELSE lp \o <<Slash>> \o text

\* A component that is not empty, as it is decoded, and the path with it.
AddComponent(lp, base, val) ==
    LET text == UrlDecode(val, 1000, FALSE)
        slashes == {k \in Len(base) + 1..Len(lp) : lp[k] = Slash}
    IN  CASE text = NoText -> NoText
          [] text = <<Period>> -> lp
          [] text = DotDot -> IF slashes = {} THEN lp
                              ELSE SubSeq(lp, 1, (CHOOSE k \in slashes : \A m \in slashes : m <= k) - 1)
          [] OTHER -> IF {0, Slash} \cap Range(text) # {} THEN NoText ELSE lp \o <<Slash>> \o text

\* Component by component, until a file has been found; as soon as a path does not exist no other is looked for.
RECURSIVE WalkPath(_, _, _, _, _)
WalkPath(x, base, lp, u, exists) ==
    LET is == exists /\ lp \in x.files \cup x.dirs
        c == Component(x.uri, u, {Slash})
        path == IF c.val = <<>> THEN lp ELSE AddComponent(lp, base, c.val)
    IN  IF is /\ lp \in x.files
        THEN [ok |-> TRUE, path |-> lp, rest |-> SubSeq(x.uri, IF x.uri[u - 1] = Slash THEN u - 1 ELSE u, Len(x.uri))]
        ELSE IF u > Len(x.uri) THEN [ok |-> TRUE, path |-> lp, rest |-> <<>>]
        ELSE IF path = NoText THEN NoPath ELSE WalkPath(x, base, path, c.next, is)

\* mg_uri_to_local_path
LocalPath(x) ==
    LET r == Root(x)
        base == Base(r.root)
    IN  IF r.start > Len(x.uri) THEN [ok |-> TRUE, path |-> base, rest |-> <<>>]
        ELSE WalkPath(x, base, base, r.start + 1, TRUE)

-----------------------------------------------------------------------------
\* What the components of a path mean: a stack of names.
Resolved(components) ==
    LET put(stack, name) == CASE name \in {<<>>, <<Period>>} -> stack
                              [] name = DotDot -> IF stack = <<>> THEN <<>> ELSE Front(stack)
                              [] OTHER -> Append(stack, name)
    IN  FoldLeft(put, <<>>, components)
Components(s) == LET from[i \in 1..Len(s) + 2] == LET e == Find(s, {Slash}, i)
                                                  IN  <<SubSeq(s, i, e - 1)>> \o (IF e > Len(s) THEN <<>> ELSE from[e + 1])
                 IN  from[1]
Joined(names) == FlattenSeq([i \in DOMAIN names |-> <<Slash>> \o names[i]])

\* The path of a request is the root and what the components of its URI mean, decoded once: no name in it is
\* ".." or has a slash in it, and what is left over of the URI begins with one and comes after a file.
PathInside(x) ==
    LET r == Root(x)
        p == LocalPath(x)
        base == Base(r.root)
        used == SubSeq(x.uri, r.start + 1, Len(x.uri) - Len(p.rest))
        names == Resolved([i \in DOMAIN Components(used) |-> UrlDecode(Components(used)[i], 1000, FALSE)])
    IN  p.ok => /\ p.path = base \o Joined(names) /\ \A i \in DOMAIN names : Slash \notin Range(names[i])
                /\ p.rest # <<>> => p.rest[1] = Slash /\ p.path \in x.files

\* A rewrite whose pattern ends inside a component could as well not be there.
OffBoundary(x, e) ==
    LET m == MatchPrefixN(e.val, x.uri \o x.beyond, Len(x.uri))
    IN  e.val[1] # AtSign /\ m \in 1..Len(x.uri) - 1 /\ x.uri[m + 1] # Slash /\ x.uri[m] # Slash
OffBoundaryIgnored(x) ==
    (\A i \in DOMAIN Entries(x.rewrites) : OffBoundary(x, Entries(x.rewrites)[i]))
        => LocalPath(x) = LocalPath([x EXCEPT !.rewrites = <<>>])

\* A normalized path has nothing left to resolve, and means the same (mg_normalize_uri_path).
Normalized(s) ==
    LET out == NormalizePath(s)
        clean(names) == SelectSeq(names, LAMBDA n : n # <<>>)
    IN  s # <<>> /\ s[1] = Slash =>
            /\ NormalizePath(out) = out /\ Range(Components(out)) \cap {<<Period>>, DotDot} = {}
            /\ (<<>> \notin Range(Front(Tail(Components(s)))) => clean(Components(out)) = Resolved(Components(s)))

\* A URI is read as what it was put together from (mg_parse_uri, mg_assemble_uri).
UriRead(u) == ParseUri(AssembleUri(u, FALSE)) = u

\* Whether the pattern stands for all of s, as mongoose.h:2173-2182 explains the syntax: "?" is one character
\* that is not a slash.
RECURSIVE Stands(_, _)
Stands(p, s) ==
    IF p = <<>> THEN s = <<>>
    ELSE IF p[1] = Star /\ CharAt(p, 2) = Star
         THEN \E k \in 0..Len(s) : Stands(SubSeq(p, 3, Len(p)), SubSeq(s, k + 1, Len(s)))
    ELSE IF p[1] = Star
         THEN \E k \in 0..Len(s) : Slash \notin Range(SubSeq(s, 1, k)) /\ Stands(Tail(p), SubSeq(s, k + 1, Len(s)))
    ELSE /\ s # <<>> /\ Stands(Tail(p), Tail(s))
         /\ IF p[1] = Question THEN s[1] # Slash ELSE Lower(p[1]) = Lower(s[1])
StoodFor(p, s) == {n \in 0..Len(s) : Stands(p, SubSeq(s, 1, n))}

\* The arguments on which the code's "?", which any character matches (mongoose.c:2028), can differ from the documented one.
MayFaceSlash(x) == Question \in Range(x.pattern) /\ Slash \in Range(x.s)

\* A pattern matches when it stands for a prefix, and returns the length of one (mg_match_prefix); one with a "?"
\* is held to this where there is no slash for it to face.
Matches(x) == LET n == MatchPrefix(x.pattern, x.s)
              IN  IF StoodFor(x.pattern, x.s) = {} THEN n = -1 ELSE n \in StoodFor(x.pattern, x.s)
Matched(x) ==
    /\ ~MayFaceSlash(x) => Matches(x)
    /\ MatchPrefix(x.pattern \o <<Comma>> \o x.other, x.s) > 0
           <=> MatchPrefix(x.pattern, x.s) > 0 \/ MatchPrefix(x.other, x.s) > 0

\* A variable of a form, or of a header, comes back as it was (mg_url_encode, mg_get_http_var, mg_http_parse_header).
VariablesRead(x) ==
    LET form == UrlEncode(x.first) \o <<Equals>> \o UrlEncode(x.value) \o <<Ampersand>>
                \o UrlEncode(x.second) \o <<Equals>> \o UrlEncode(x.other)
        v == GetHttpVar(form, x.second, 50)
        quoted == <<97, Equals, 34>> \o x.value \o <<34, Comma, 32, 98, Equals>> \o x.other
        same == Ncasecmp(x.first, x.second, 9) = 0
    IN  /\ v.code = Len(v.text) /\ v.text = IF same THEN x.value ELSE x.other
        /\ {34, 92} \cap Range(x.value) = {} /\ Range(x.value) \cap {Comma, 59} = {} => HeaderVar(quoted, <<97>>, 50) = x.value
        /\ {60, 62} \cap Range(HtmlEscape(x.value)) = {}

\* An access list as mongoose.h:3874-3882 explains it: its subnets are written in full or, as in the example
\* "-0.0.0.0/0,+192.168/16", without the zeros that end them.  The last entry that has the address decides; without
\* one all are refused, without a list all are admitted; an entry that is no subnet makes it malformed.
InFull(net) == [i \in 1..4 |-> IF i <= Len(net) THEN net[i] ELSE 0]
AclMeaning(acl, ip) ==
    LET has(e) == InFull(e.net) = Masked(ip, e.bits)
        last == CHOOSE k \in DOMAIN acl : has(acl[k]) /\ \A m \in DOMAIN acl : has(acl[m]) => m <= k
        malformed(e) == Len(e.net) \notin 1..4 \/ e.bits \notin 0..8 \/ \E i \in DOMAIN e.net : e.net[i] \notin 0..3
    IN  CASE acl = <<>> -> 1
          [] \E k \in DOMAIN acl : malformed(acl[k]) -> -1
          [] acl # <<>> /\ \A k \in DOMAIN acl : ~malformed(acl[k]) ->
                IF (\E k \in DOMAIN acl : has(acl[k])) /\ acl[last].sign = "+" THEN 1 ELSE 0

\* An access list whose subnets have all their numbers admits and refuses as it is explained (mg_check_ip_acl).
\* The code takes one with a shorter subnet for malformed (mongoose.c:3081-3084): see CallsAsExplained.
ShortNets(acl) == \E k \in DOMAIN acl : Len(acl[k].net) < 4
AclRead(x) == ~ShortNets(x.acl) => CheckAcl(x.acl, x.ip) = AclMeaning(x.acl, x.ip)
=============================================================================
