------------------------------- MODULE Codecs -------------------------------
(***************************************************************************)
(* The library's buffers, encodings, hashes and string functions           *)
(* (mongoose.c, common/): mbuf, base64, hexadecimal, the buffering of MD5  *)
(* and SHA-1, formatted printing and comparison.  Bytes are numbers; the   *)
(* transformation of a block by a hash is not looked into.                 *)
(***************************************************************************)
EXTENDS Integers, Sequences, FiniteSets, SequencesExt

Fill(n, x) == IF n > 0 THEN [i \in 1..n |-> x] ELSE <<>>
Cut(s, n) == SubSeq(s, 1, IF n < Len(s) THEN n ELSE Len(s))

-----------------------------------------------------------------------------
(* mbuf: mem is the memory of size bytes, of which the first len are used. *)

Stale == "stale"
EmptyMbuf == [mem |-> <<>>, len |-> 0]
Content(a) == SubSeq(a.mem, 1, a.len)

\* realloc keeps what fits.
Realloc(mem, n) == [i \in 1..n |-> IF i <= Len(mem) THEN mem[i] ELSE Stale]

\* mbuf_resize; ok is whether realloc succeeds.
MbufResize(a, n, ok) ==
    IF (n > Len(a.mem) \/ (n < Len(a.mem) /\ n >= a.len)) /\ (ok \/ n = 0)
    THEN [a EXCEPT !.mem = Realloc(@, n)] ELSE a

\* mbuf_insert: what follows off moves up, in the memory there is or in more of it, half as much again
\* (MBUF_SIZE_MULTIPLIER) as is needed.
MbufInsert(a, off, data, ok) ==
    LET n == Len(data)
        fits == a.len + n <= Len(a.mem)
        mem == IF fits THEN a.mem ELSE Realloc(a.mem, (3 * (a.len + n)) \div 2)
    IN  IF ~fits /\ ~ok THEN a
        ELSE [mem |-> [i \in 1..Len(mem) |-> IF i <= off THEN mem[i]
                                             ELSE IF i <= off + n THEN data[i - off]
                                             ELSE IF i <= a.len + n THEN mem[i - n] ELSE mem[i]],
              len |-> a.len + n]

MbufRemove(a, n) ==
    IF n = 0 \/ n > a.len THEN a
    ELSE [mem |-> [i \in 1..Len(a.mem) |-> IF i <= a.len - n THEN a.mem[i + n] ELSE a.mem[i]], len |-> a.len - n]

MbufTrim(a, ok) == MbufResize(a, a.len, ok)

-----------------------------------------------------------------------------
(* Base64.                                                                  *)

\* cs_base64_emit_code
EmitCode(v) == CASE v < 26 -> v + 65 [] v \in 26..51 -> v + 71 [] v \in 52..61 -> v - 4 [] v = 62 -> 43 [] v = 63 -> 47

\* cs_base64_emit_chunk, whose chunk is filled up with zeros.
EmitChunk(chunk) ==
    LET x == chunk \o Fill(3 - Len(chunk), 0)
        codes == <<x[1] \div 4, ((x[1] % 4) * 16) + (x[2] \div 16), ((x[2] % 16) * 4) + (x[3] \div 64), x[3] % 64>>
    IN  [i \in 1..Len(chunk) + 1 |-> EmitCode(codes[i])]

Base64Init == [chunk |-> <<>>, out |-> <<>>]

Base64Update(ctx, data) ==
    LET put(c, byte) == LET chunk == Append(c.chunk, byte)
                        IN  IF Len(chunk) < 3 THEN [c EXCEPT !.chunk = chunk]
                            ELSE [chunk |-> <<>>, out |-> c.out \o EmitChunk(chunk)]
    IN  FoldLeft(put, ctx, data)

Base64Finish(ctx) ==
    IF ctx.chunk = <<>> THEN ctx.out ELSE ctx.out \o EmitChunk(ctx.chunk) \o Fill(3 - Len(ctx.chunk), 61)

\* cs_base64_encode: in one piece, and filled up to a multiple of four.
Base64Encode(src) ==
    LET codes == FlattenSeq([k \in 1..(Len(src) + 2) \div 3 |->
                     EmitChunk(SubSeq(src, 3 * k - 2, IF 3 * k < Len(src) THEN 3 * k ELSE Len(src)))])
    IN  codes \o Fill((-Len(codes)) % 4, 61)

\* from_b64: only seven bits are looked at; 200 is for '=', 255 for what is no code.
FromB64(byte) ==
    LET ch == byte % 128
    IN  CASE ch \in 65..90 -> ch - 65 [] ch \in 97..122 -> ch - 71 [] ch \in 48..57 -> ch + 4
          [] ch = 43 -> 62 [] ch = 47 -> 63 [] ch = 61 -> 200 [] OTHER -> 255

\* cs_base64_decode, from byte i on: what is decoded and how many bytes were used.
Base64Decode(s) ==
    LET decode[i \in 1..Len(s) + 4] ==
            LET x == [k \in 1..4 |-> FromB64(s[i + k - 1])]
                bytes == <<((x[1] * 4) + (x[2] \div 16)) % 256, ((x[2] * 16) + (x[3] \div 4)) % 256, ((x[3] * 64) + x[4]) % 256>>
                n == IF 200 \in {x[1], x[2]} THEN 0 ELSE IF x[3] = 200 THEN 1 ELSE IF x[4] = 200 THEN 2 ELSE 3
                rest == decode[i + 4]
            IN  IF i + 3 > Len(s) \/ \E k \in 1..4 : x[k] = 255 THEN [data |-> <<>>, used |-> i - 1]
                ELSE IF n < 3 THEN [data |-> SubSeq(bytes, 1, n), used |-> i + 3]
                ELSE [data |-> bytes \o rest.data, used |-> rest.used]
    IN  decode[1]

\* mg_basic_auth_header: without a password there is no colon either.
BasicAuth(user, pass) ==
    Base64Finish(IF pass = <<>> THEN Base64Update(Base64Init, user)
                 ELSE Base64Update(Base64Update(Base64Update(Base64Init, user), <<58>>), pass))

\* mg_parse_http_basic_auth, with sscanf's "%n[^:]:%m[^\n]" on the decoded bytes: user and password, or <<>>
\* for -1.  A password that is not there is not written to.
Scanned(s, n, stop) ==
    LET ends == {i \in 1..Len(s) : s[i] = stop \/ i > n}
    IN  SubSeq(s, 1, IF ends = {} THEN Len(s) ELSE (CHOOSE i \in ends : \A j \in ends : i <= j) - 1)

ParseBasicAuth(code, userLen, passLen) ==
    LET text == Base64Decode(code).data
        user == Scanned(text, userLen - 1, 58)
        rest == SubSeq(text, Len(user) + 2, Len(text))
        colon == Len(user) < Len(text) /\ text[Len(user) + 1] = 58
    IN  IF user = <<>> THEN <<>>
        ELSE <<user, IF colon THEN Scanned(rest, passLen - 1, 10) ELSE <<>>>>

-----------------------------------------------------------------------------
(* Hexadecimal.                                                             *)

HexDigit(n) == IF n < 10 THEN n + 48 ELSE n + 87
ToHex(bytes) == FlattenSeq([i \in DOMAIN bytes |-> <<HexDigit(bytes[i] \div 16), HexDigit(bytes[i] % 16)>>])

\* fourbit
FourBit(ch) == CASE ch \in 48..57 -> ch - 48 [] ch \in 97..102 -> ch - 87 [] ch \in 65..70 -> ch - 55 [] OTHER -> 0
FromHex(s) == [i \in 1..Len(s) \div 2 |-> FourBit(s[2 * i - 1]) * 16 + FourBit(s[2 * i])]

-----------------------------------------------------------------------------
(* The buffering of hashes: blocks are those that were transformed.         *)

HashInit == [count |-> 0, in |-> <<>>, blocks |-> <<>>]
Blocks(data) == [k \in 1..Len(data) \div 64 |-> SubSeq(data, 64 * k - 63, 64 * k)]
Tailing(data) == SubSeq(data, 64 * (Len(data) \div 64) + 1, Len(data))
Transform(ctx, blocks) == [ctx EXCEPT !.blocks = @ \o blocks]

\* cs_md5_update: in holds what the last whole block left over.
Md5Update(ctx, buf) ==
    LET t == ctx.count % 64
        start == [ctx EXCEPT !.count = @ + Len(buf)]
        first == SubSeq(buf, 1, 64 - t)
        rest == SubSeq(buf, 65 - t, Len(buf))
    IN  IF t = 0 THEN [Transform(start, Blocks(buf)) EXCEPT !.in = Tailing(buf)]
        ELSE IF Len(buf) < 64 - t THEN [start EXCEPT !.in = @ \o buf]
        ELSE [Transform(Transform(start, <<ctx.in \o first>>), Blocks(rest)) EXCEPT !.in = Tailing(rest)]

\* The count of bits, in eight bytes; the low or the high ones first.
Length64(n, lowFirst) ==
    LET low == <<(8 * n) % 256, (8 * n) \div 256>> \o Fill(6, 0)
    IN  IF lowFirst THEN low ELSE Reverse(low)

\* cs_md5_final: a byte, and zeros up to where the length fits, in a further block if need be.
Md5Final(ctx) ==
    LET p == Append(ctx.in, 128)
        room == 64 - Len(p)
        full == Transform(ctx, <<p \o Fill(room, 0)>>)
    IN  IF room < 8 THEN Transform(full, <<Fill(56, 0) \o Length64(ctx.count, TRUE)>>).blocks
        ELSE Transform(ctx, <<p \o Fill(room - 8, 0) \o Length64(ctx.count, TRUE)>>).blocks

\* cs_sha1_update: what does not fill the buffer is appended at j, also when j is 0.
Sha1Update(ctx, data) ==
    LET j == ctx.count % 64
        start == [ctx EXCEPT !.count = @ + Len(data)]
        rest == SubSeq(data, 65 - j, Len(data))
    IN  IF j + Len(data) > 63
        THEN [Transform(Transform(start, <<SubSeq(ctx.in, 1, j) \o SubSeq(data, 1, 64 - j)>>), Blocks(rest))
                EXCEPT !.in = Tailing(rest)]
        ELSE [start EXCEPT !.in = SubSeq(@, 1, j) \o data]

\* cs_sha1_final: byte by byte through cs_sha1_update.
Sha1Final(ctx) ==
    LET marked == Sha1Update(ctx, <<128>>)
        pads == CHOOSE n \in 0..63 : (marked.count + n) % 64 = 56
        padded == FoldLeft(LAMBDA c, byte : Sha1Update(c, <<byte>>), marked, Fill(pads, 0))
    IN  Sha1Update(padded, Length64(ctx.count, FALSE)).blocks

-----------------------------------------------------------------------------
(* Formatted printing: a conversion is a text, a string or a number.        *)

\* c_itoa: the digits in reverse, zeros up to the width (a buffer of 40 bytes), then the sign.
Itoa(num, base, zero, width) ==
    LET abs == IF num < 0 THEN -num ELSE num
        digits[n \in 0..abs] == IF n < base THEN <<HexDigit(n)>> ELSE Append(digits[n \div base], HexDigit(n % base))
        d == digits[abs]
        fill == IF zero THEN (IF width < 39 THEN width ELSE 39) - Len(d) ELSE 0
    IN  (IF num < 0 THEN <<45>> ELSE <<>>) \o Fill(fill, 48) \o d

\* c_vsnprintf: one conversion.  A string is padded to the width as if a precision of 0 had cut it to
\* nothing, but is then printed whole.
Printed(c) ==
    CASE c.kind = "text" -> c.str
      [] c.kind = "s" -> LET cut == IF c.precision > 0 /\ c.precision < Len(c.str) THEN c.precision ELSE Len(c.str)
                         IN  Fill(c.width - (IF c.precision > 0 THEN cut ELSE 0), 32) \o SubSeq(c.str, 1, cut)
      [] c.kind = "d" -> Itoa(c.num, 10, c.zero, c.width)
      [] c.kind = "x" -> Itoa(c.num, 16, c.zero, c.width)

\* What is in a buffer of size bytes, with its final zero, and what is returned.  A number is put after
\* what is there, with the room that is left, which is none when it is negative.
Snprintf(size, conversions) ==
    LET put(r, text) == [buf |-> r.buf \o Cut(text, size - r.n), n |-> r.n + Len(text)]
        all == FoldLeft(put, [buf |-> <<>>, n |-> 0], [k \in DOMAIN conversions |-> Printed(conversions[k])])
        last == IF all.n < size THEN all.n ELSE size - 1
    IN  [buf |-> IF size > 0 THEN Append(SubSeq(all.buf, 1, last), 0) ELSE <<>>, ret |-> all.n]

\* mg_avprintf, on a library that follows the standard: a second pass into memory that is large enough.
Avprintf(size, conversions) ==
    LET once == Snprintf(size, conversions)
    IN  IF once.ret >= size THEN Snprintf(once.ret + 1, conversions) ELSE once

\* cs_to64
To64(s) ==
    LET from == CHOOSE i \in 1..Len(s) + 1 : (i > Len(s) \/ s[i] \notin {32, 9, 10}) /\ \A k \in 1..i - 1 : s[k] \in {32, 9, 10}
        neg == from <= Len(s) /\ s[from] = 45
        start == IF neg THEN from + 1 ELSE from
        value[i \in start..Len(s) + 1, n \in Nat] ==
            IF i > Len(s) \/ s[i] \notin 48..57 THEN n ELSE value[i + 1, (10 * n) + (s[i] - 48)]
    IN  value[start, 0] * (IF neg THEN -1 ELSE 1)

-----------------------------------------------------------------------------
(* Comparison: strings that end with a 0 are sequences without it.          *)

CharAt(s, i) == IF i <= Len(s) THEN s[i] ELSE 0
Lower(ch) == IF ch \in 65..90 THEN ch + 32 ELSE ch
Least(S) == CHOOSE n \in S : \A k \in S : n <= k

\* mg_ncasecmp: up to the first difference, the end of both, or n characters.
Ncasecmp(s, t, n) ==
    LET stops == {i \in 1..n : Lower(CharAt(s, i)) # Lower(CharAt(t, i)) \/ CharAt(s, i) = 0}
    IN  IF stops = {} THEN 0 ELSE LET i == Least(stops) IN Lower(CharAt(s, i)) - Lower(CharAt(t, i))

\* mg_vcmp and mg_vcasecmp: the lengths decide when one is the start of the other.
Vcmp(s, t, fold) ==
    LET n == IF Len(s) < Len(t) THEN Len(s) ELSE Len(t)
        ch(x) == IF fold THEN Lower(x) ELSE x
        stops == {i \in 1..n : ch(s[i]) # ch(t[i]) \/ s[i] = 0}
        r == IF stops = {} THEN 0 ELSE LET i == Least(stops) IN ch(s[i]) - ch(t[i])
    IN  IF r = 0 THEN Len(s) - Len(t) ELSE r

\* mg_strcmp, mg_strncmp
MgStrcmp(s, t) ==
    LET stops == {i \in DOMAIN s \cap DOMAIN t : s[i] # t[i]}
        sign(a, b) == IF a < b THEN -1 ELSE IF a > b THEN 1 ELSE 0
    IN  IF stops = {} THEN sign(Len(s), Len(t)) ELSE LET i == Least(stops) IN sign(s[i], t[i])
MgStrncmp(s, t, n) == MgStrcmp(Cut(s, n), Cut(t, n))

\* mg_strstr: where needle begins in s, 0 for NULL.
MgStrstr(s, needle) ==
    LET at == {i \in 1..Len(s) - Len(needle) + 1 : SubSeq(s, i, i + Len(needle) - 1) = needle}
    IN  IF at = {} THEN 0 ELSE Least(at)

-----------------------------------------------------------------------------
\* Operations on an mbuf, and on the sequence that it holds.
MbufOp(a, o) ==
    CASE o.op = "insert" -> MbufInsert(a, IF o.off < a.len THEN o.off ELSE a.len, o.data, o.ok)
      [] o.op = "remove" -> MbufRemove(a, o.n)
      [] o.op = "resize" -> MbufResize(a, o.n, o.ok)
      [] o.op = "trim" -> MbufTrim(a, o.ok)
Did(before, after, o) ==
    LET was == Content(before)
        off == IF o.off < before.len THEN o.off ELSE before.len
    IN  CASE o.op = "insert" -> Content(after) = SubSeq(was, 1, off) \o o.data \o SubSeq(was, off + 1, Len(was))
                                \/ (~o.ok /\ after = before)
          [] o.op = "remove" -> Content(after) = IF o.n > Len(was) THEN was ELSE SubSeq(was, o.n + 1, Len(was))
          [] OTHER -> Content(after) = was

\* An mbuf holds what was put into it and not taken out, within its memory, whatever is resized or fails
\* between (mbuf_insert, mbuf_remove, mbuf_resize).
MbufHolds(ops) ==
    LET after[k \in 0..Len(ops)] == IF k = 0 THEN EmptyMbuf ELSE MbufOp(after[k - 1], ops[k])
    IN  \A k \in 1..Len(ops) : Did(after[k - 1], after[k], ops[k]) /\ after[k].len <= Len(after[k].mem)

\* Base64 comes out the same in one piece and in two, and is read back whole; so are credentials whose user
\* has no colon and whose password has no end of line, and hexadecimal (cs_base64_update, mg_basic_auth_header).
EncodedRead(x) ==
    LET all == x.first \o x.second
        code == Base64Finish(Base64Update(Base64Update(Base64Init, x.first), x.second))
    IN  /\ code = Base64Encode(all) /\ Base64Decode(code) = [data |-> all, used |-> Len(code)]
        /\ FromHex(ToHex(all)) = all
        /\ x.first # <<>> /\ 58 \notin Range(x.first) /\ 10 \notin Range(x.second)
              => ParseBasicAuth(BasicAuth(x.first, x.second), 50, 50) = <<x.first, x.second>>

\* What a hash transforms is the message, a marked byte, zeros and the length, in blocks of 64, however the
\* message was cut (cs_md5_update, cs_md5_final, cs_sha1_update, cs_sha1_final).
Hashed(x) ==
    LET bytes == x.first \o x.second
        zeros == CHOOSE n \in 0..63 : (Len(bytes) + 9 + n) % 64 = 0
        whole(lowFirst) == Blocks(bytes \o <<128>> \o Fill(zeros, 0) \o Length64(Len(bytes), lowFirst))
    IN  /\ Md5Final(Md5Update(Md5Update(HashInit, x.first), x.second)) = whole(TRUE)
        /\ Sha1Final(Sha1Update(Sha1Update(HashInit, x.first), x.second)) = whole(FALSE)

\* What is printed is cut at the end of the buffer and its whole length returned, so that a second pass has
\* room for it; a number is read back as it was (c_vsnprintf, mg_avprintf, cs_to64).
PrintedRead(x) ==
    LET r == Snprintf(x.size, x.conversions)
        big == Avprintf(x.size, x.conversions)
    IN  /\ Len(r.buf) <= x.size /\ (r.buf # <<>> => r.buf[Len(r.buf)] = 0)
        /\ big.ret = r.ret /\ Len(big.buf) = r.ret + 1
        /\ \A k \in 1..Len(r.buf) - 1 : r.buf[k] = big.buf[k]
        /\ \A k \in DOMAIN x.conversions :
              x.conversions[k].kind = "d" => To64(Printed(x.conversions[k])) = x.conversions[k].num

\* The four ways to compare agree on what is equal (mg_vcmp, mg_strcmp, mg_ncasecmp).
Compared(x) ==
    /\ (Vcmp(x.s, x.t, FALSE) = 0) = (x.s = x.t) /\ (MgStrcmp(x.s, x.t) = 0) = (x.s = x.t)
    /\ (Vcmp(x.s, x.t, TRUE) = 0) = (Ncasecmp(x.s, x.t, 9) = 0)
    /\ (MgStrncmp(x.s, x.t, Len(x.t)) = 0) = (MgStrstr(x.s, x.t) = 1)
=============================================================================
