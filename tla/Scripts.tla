------------------------------- MODULE Scripts -------------------------------
(***************************************************************************)
(* What a script of the Lua application reads of a request: the readers of *)
(* lmodule.c and the functions of init.lua on them.  A request is its      *)
(* bytes: req has the method, the uri and so on as they were parsed, and   *)
(* the message with what is in memory after it (beyond).                   *)
(***************************************************************************)
EXTENDS Uris

Lf == 10
Cr == 13
Eol == <<Cr, Lf>>
Blanks == {32, 9}
Dash == 45
Quote == 34
Nil == <<-1>>
LuaError == <<-2>>

UpToZero(s) == SubSeq(s, 1, Find(s, {0}, 1) - 1)

-----------------------------------------------------------------------------
(* lmodule.c.                                                               *)

\* segment_cpy: past ns delimiters, one byte at least and up to the next delimiter or a zero.
SegmentCpy(mem, ns, c) ==
    LET past[k \in 0..ns] == IF k = 0 THEN 1 ELSE Find(mem, {c}, past[k - 1]) + 1
        start == past[ns]
    IN  UpToZero(SubSeq(mem, start, Find(mem, {c, 0}, start + 1) - 1))

\* Wrong: after a mismatch the key is looked for where the text stands.
SegmentMatchAnywhere(mem, key, c) ==
    LET at == {i \in DOMAIN mem : Starts(mem, key, i)}
    IN  IF at = {} THEN -1 ELSE Least(at) + Len(key)

\* segment_match: where the text after a key begins, the key being at the start of a line; -1 when there is
\* none up to the zero.  The line of a mismatch ends after the byte that did not match, so that when this is
\* the delimiter the next line is passed over.  Nothing stops at the end of the head.
SegmentMatch(mem, key, c) ==
    LET differs(i) == {k \in DOMAIN key : CharAt(mem, i + k - 1) # key[k]}
        line[i \in 1..Len(mem) + 1] ==
            LET p == i + Least(differs(i))
                next == Find(mem, {c}, p)
            IN  IF differs(i) = {} THEN i + Len(key)
                ELSE IF CharAt(mem, p - 1) = 0 \/ Find(mem, {0}, p + 1) <= next \/ next > Len(mem) THEN -1
                ELSE line[next + 1]
    IN  line[1]

\* urldecoder: a code is what scanf reads with %2x, so that blanks before it are passed over, without end, and one
\* of its two places may be a sign; three bytes are taken all the same.  A code that is no number leaves the number
\* of the one before it, old at first.  No code is cut off by the end of the text.
Urldecoder(text, old) ==
    LET from[i \in 1..Len(text) + 3, n \in 0..255] ==
            LET c == Find(text, 0..255 \ (9..13 \union {32}), i + 1)
                signed == CharAt(text, c) \in {43, Dash}
                digits == SubSeq(text, IF signed THEN c + 1 ELSE c, c + 1)
                value == IF Len(digits) = 2 /\ IsHex(digits[2]) THEN FourBit(digits[1]) * 16 + FourBit(digits[2])
                         ELSE FourBit(digits[1])
                number == IF digits = <<>> \/ ~IsHex(digits[1]) THEN n
                          ELSE IF CharAt(text, c) = Dash THEN (256 - value) % 256 ELSE value
            IN  IF i > Len(text) THEN <<>>
                ELSE IF text[i] = Percent THEN <<number>> \o from[i + 3, number]
                ELSE <<IF text[i] = 43 THEN 32 ELSE text[i]>> \o from[i + 1, n]
    IN  UpToZero(from[1, old])

\* http_user_agent, http_encoding, http_language, http_accept, http_origin and http_content_type: the value
\* keeps the end of its line's carriage return.
HeaderReader(req, key) ==
    LET mem == req.message \o req.beyond
        i == SegmentMatch(mem, key, Lf)
    IN  IF i = -1 THEN Nil ELSE SegmentCpy(SubSeq(mem, i, Len(mem)), 0, Lf)

\* http_host: the second line of the request, whichever header that is, without its first six bytes and its last.
Host(req) ==
    LET line == SegmentCpy(req.message \o req.beyond, 1, Lf) IN SubSeq(line, 7, Len(line) - 1)

-----------------------------------------------------------------------------
(* string.find of Lua, on patterns of one kind of item: a set of bytes and  *)
(* how often it is to be there.                                             *)

Bytewise(text) == [i \in DOMAIN text |-> [set |-> {text[i]}, times |-> "once"]]
Blank == <<[set |-> Blanks, times |-> "most"]>>
AnyText == <<[set |-> 0..255, times |-> "once"], [set |-> 0..255, times |-> "most"]>>

\* A text that is given as a pattern: a dot, and a byte before a "-" or a "+", are not themselves.
AsPattern(text) ==
    LET item[i \in 1..Len(text) + 2] ==
            LET next == CharAt(text, i + 1)
                one(times) == [set |-> IF text[i] = Period THEN 0..255 ELSE {text[i]}, times |-> times]
            IN  IF i > Len(text) THEN <<>>
                ELSE IF next = Dash THEN <<one("least")>> \o item[i + 2]
                ELSE IF next = 43 THEN <<one("once"), one("most")>> \o item[i + 2]
                ELSE <<one("once")>> \o item[i + 1]
    IN  item[1]

\* Where a match from i ends (the place after it), or 0.
RECURSIVE LuaMatch(_, _, _)
LuaMatch(s, items, i) ==
    LET set == items[1].set
        most == Find(s, 0..255 \ set, i) - i
        ends(n) == LuaMatch(s, Tail(items), i + n)
        fits == {n \in 0..most : ends(n) # 0}
    IN  IF items = <<>> THEN i
        ELSE IF items[1].times = "once" THEN IF i <= Len(s) /\ s[i] \in set THEN ends(1) ELSE 0
        ELSE IF fits = {} THEN 0
        ELSE ends(IF items[1].times = "least" THEN Least(fits) ELSE CHOOSE n \in fits : \A k \in fits : k <= n)

\* string.find: the first match from i on, from its first byte to its last; at = 0 when there is none.
LuaFind(s, items, i) ==
    LET at == {k \in i..Len(s) + 1 : LuaMatch(s, items, k) # 0}
    IN  IF at = {} THEN [at |-> 0, to |-> 0] ELSE [at |-> Least(at), to |-> LuaMatch(s, items, Least(at)) - 1]

-----------------------------------------------------------------------------
(* init.lua.                                                                *)

ContentType == <<67, Colon, 32>>
BoundaryWord == <<98, 100, 114, 121>>

\* env.boundary: what follows the word and a sign, without the last byte; the word stands for "boundary".
EnvBoundary(req) ==
    LET ct == HeaderReader(req, ContentType)
        pos == LuaFind(ct, Bytewise(BoundaryWord), 1)
    IN  IF ct = Nil \/ pos.at = 0 THEN Nil ELSE SubSeq(ct, pos.to + 2, Len(ct) - 1)

\* env.enctype: 0, 1, 2, or Nil for a type that is not supported; a letter stands for each type's word.
EnvEnctype(req) ==
    LET ct == HeaderReader(req, ContentType)
        has(ch) == ch \in Range(ct)
    IN  IF req.method = "GET" THEN <<0>>
        ELSE IF ct = Nil THEN Nil
        ELSE IF has(117) THEN <<0>> ELSE IF has(112) THEN <<1>> ELSE IF has(109) THEN <<2>>
        ELSE Nil

QuotedName(name) == Bytewise(<<Quote>>) \o Blank \o AsPattern(name) \o Blank \o Bytewise(<<Quote>>)

\* The part whose head has the name between quotes: where its head begins and ends; 0 when there is none.
NamedPart(body, name, boundary) ==
    LET bounds == AsPattern(<<Dash, Dash>> \o boundary)
        none == [head |-> 0, end |-> 0]
        part[h \in 0..Len(body)] ==
            LET e == LuaFind(body, Bytewise(<<Lf, Cr>>), h).at
            IN  IF h = 0 \/ e = 0 THEN none
                ELSE IF LuaFind(SubSeq(body, h, e), QuotedName(name), 1).at # 0 THEN [head |-> h, end |-> e]
                ELSE part[LuaFind(body, bounds, e).at]
    IN  part[LuaFind(body, bounds, 1).at]

\* What follows a part's head up to the next boundary.
PartValue(body, part, boundary) ==
    LET p == LuaFind(body, AsPattern(<<Dash, Dash>> \o boundary), part.end).at
    IN  IF p = 0 THEN Nil ELSE SubSeq(body, part.end + 3, p - 3)

\* _getPostByNameM
PostByNameM(body, name, boundary) ==
    LET part == NamedPart(body, name, boundary)
    IN  IF part.head = 0 THEN Nil ELSE PartValue(body, part, boundary)

\* _getPostByNameT and _getPostByNameU: up to what ends a value.  The name may be the end of a longer one, and a
\* value that nothing ends is an error of the script.
PostByNameUpTo(body, name, end) ==
    LET s == LuaFind(body, Blank \o AsPattern(name) \o Blank \o Bytewise(<<Equals>>), 1)
        x == LuaFind(body, Bytewise(end), s.to).at
    IN  IF s.at = 0 THEN Nil ELSE IF x = 0 THEN LuaError ELSE SubSeq(body, s.to + 1, x - 1)

\* getPostByName
PostByName(req, name, boundary) ==
    LET type == EnvEnctype(req)
    IN  CASE type = <<0>> -> PostByNameUpTo(req.body, name, <<Ampersand>>)
          [] type = <<1>> -> PostByNameUpTo(req.body, name, Eol)
          [] type = <<2>> /\ boundary # Nil -> PostByNameM(req.body, name, boundary)
          [] OTHER -> Nil

\* getPostFileName: up to the last quote of the part's head; fn stands for "filename".
FileWord == <<102, 110, Equals>>
PostFileName(body, name, boundary) ==
    LET part == NamedPart(body, name, boundary)
        o == SubSeq(body, part.head, part.end)
        f == LuaFind(o, Bytewise(FileWord) \o AnyText \o Bytewise(<<Quote>>), 1)
    IN  IF part.head = 0 THEN Nil ELSE IF f.at = 0 THEN LuaError
        ELSE SubSeq(o, f.at + Len(FileWord) + 1, f.to - 1)

\* savePostFile: the file that is written and what is in it; fname is Nil when the upload's own name is taken.
SavePostFile(body, name, boundary, path, fname) ==
    LET filename == PostFileName(body, name, boundary)
        file == PartValue(body, NamedPart(body, name, boundary), boundary)
    IN  IF filename \in {Nil, LuaError} THEN [result |-> filename, path |-> Nil, file |-> Nil]
        ELSE IF file = Nil THEN [result |-> Nil, path |-> Nil, file |-> Nil]
        ELSE [result |-> filename, path |-> path \o (IF fname = Nil THEN filename ELSE fname), file |-> file]

-----------------------------------------------------------------------------
\* A message of headers and a body, and a request of it.
Message(x) == <<71, Cr, Lf>> \o FlattenSeq([i \in DOMAIN x.headers |-> x.headers[i].name \o x.headers[i].value \o Eol])
              \o Eol \o x.body
RequestOf(x) == [method |-> "POST", message |-> Message(x), body |-> x.body, beyond |-> x.beyond]

LinesOf(s) == LET cut[i \in 1..Len(s) + 2] == LET e == Find(s, {Lf}, i)
                                             IN  <<SubSeq(s, i, e - 1)>> \o (IF e > Len(s) THEN <<>> ELSE cut[e + 1])
              IN  cut[1]

\* A reader gives the value of the first header of its name, whatever the others are, and nil when there is none
\* and no line of the body, or of what is in memory after it, looks like one; the host is the first header's when that is the Host.
HeadersRead(x) ==
    LET req == RequestOf(x)
        named == {i \in DOMAIN x.headers : x.headers[i].name = x.key}
        behind == LinesOf(x.body \o x.beyond)
        inBody == \E i \in DOMAIN behind : Starts(behind[i], x.key, 1)
    IN  /\ named # {} => HeaderReader(req, x.key) = x.headers[Least(named)].value \o <<Cr>>
        /\ named = {} /\ ~inBody => HeaderReader(req, x.key) = Nil
        /\ x.headers # <<>> /\ Len(x.headers[1].name) = 6 => Host(req) = x.headers[1].value

\* A form as a browser writes it: the fields, of which some have a file's name.
FormOf(x) ==
    LET each(put(_)) == FlattenSeq([i \in DOMAIN x.fields |-> put(x.fields[i])])
        sep == <<Dash, Dash>> \o x.boundary
        urlencoded(f) == <<Ampersand>> \o UrlEncode(f.name) \o <<Equals>> \o UrlEncode(f.value)
        plain(f) == f.name \o <<Equals>> \o f.value \o Eol
        multi(f) == sep \o Eol \o <<110, Equals, Quote>> \o f.name \o <<Quote>>
                    \o (IF f.file = Nil THEN <<>> ELSE <<59, 32>> \o FileWord \o <<Quote>> \o f.file \o <<Quote>>)
                    \o Eol \o Eol \o f.value \o Eol
    IN  CASE x.type = 117 -> Tail(each(urlencoded)) [] x.type = 112 -> each(plain)
          [] OTHER -> each(multi) \o sep \o <<Dash, Dash>> \o Eol

\* A field of a form comes back as it was sent, with the boundary the request announces, unless it is the last
\* of an urlencoded form: nothing ends that, and the script fails.  A field whose name ends like it, or whose
\* file is named like it, must not come before.
FormRead(x) ==
    LET text == FormOf(x)
        ct == [name |-> ContentType, value |-> <<x.type, 32>> \o (IF x.type = 109 THEN BoundaryWord \o <<Equals>> \o x.boundary ELSE <<>>)]
        req == RequestOf([headers |-> <<ct>>, body |-> text, beyond |-> <<0>>])
        b == EnvBoundary(req)
        f == x.fields[x.which]
        ends(name) == Len(name) >= Len(f.name) /\ SubSeq(name, Len(name) - Len(f.name) + 1, Len(name)) = f.name
        mistaken(g) == IF x.type = 109 THEN g.name = f.name \/ g.file = f.name ELSE ends(g.name)
        got == PostByName(req, f.name, b)
        saved == SavePostFile(text, f.name, b, <<Slash>>, Nil)
    IN  (\A i \in 1..x.which - 1 : ~mistaken(x.fields[i])) =>
            IF x.type = 117 /\ x.which = Len(x.fields) THEN got = LuaError
              ELSE IF x.type = 117 THEN got = UrlEncode(f.value) /\ Urldecoder(got, 0) = UpToZero(f.value)
              ELSE IF x.type = 112 THEN got = f.value
              ELSE /\ got = f.value
                          /\ f.file # Nil => saved = [result |-> f.file, path |-> <<Slash>> \o f.file, file |-> f.value]
=============================================================================
