------------------------------- MODULE Names -------------------------------
(***************************************************************************)
(* DNS messages as mongoose writes and reads them (mongoose.c, dns.c and   *)
(* dns_server.c parts): names as labels with compression pointers, the     *)
(* records of a query and of the reply a server makes to it, and where a   *)
(* name is looked for before a server is asked.                            *)
(*                                                                         *)
(* A message is a sequence of bytes; a position counts from 0, as the      *)
(* offsets of pointers do.  A name is a sequence of bytes with Dot.        *)
(***************************************************************************)
EXTENDS Integers, Sequences, FiniteSets, SequencesExt

Dot == 46
DnsHeaderLen == 12
TypeA == 1
TypeCname == 5
Zeros(n) == [i \in 1..n |-> 0]
Net16(n) == <<n \div 256, n % 256>>
Net32(n) == Zeros(2) \o Net16(n)
At(pkt, p) == pkt[p + 1]
At16(pkt, p) == 256 * At(pkt, p) + At(pkt, p + 1)
Bytes(pkt, p, n) == SubSeq(pkt, p + 1, p + n)

Failed == [failed |-> TRUE]

-----------------------------------------------------------------------------
(* Writing.                                                                 *)

\* mg_dns_insert_header
DnsHeader(msg) == Net16(msg.tid) \o Net16(msg.flags) \o Net16(msg.questions) \o Net16(msg.answers) \o Zeros(4)

\* mg_dns_encode_name: what is between dots, each with its length, and a zero; a name that ends
\* with a dot, or is empty, has an empty label and two zeros.  <<>> stands for -1.
EncodeName(name) ==
    LET dots == {i \in DOMAIN name : name[i] = Dot}
        next(i) == IF \E d \in dots : d >= i
                   THEN CHOOSE d \in dots : d >= i /\ \A e \in dots : e >= i => d <= e
                   ELSE Len(name) + 1
        starts == SetToSortSeq({1} \cup {d + 1 : d \in dots}, <)
        label(i) == SubSeq(name, i, next(i) - 1)
    IN  IF \E i \in ToSet(starts) : Len(label(i)) > 127 THEN <<>>
        ELSE FlattenSeq([k \in DOMAIN starts |-> <<Len(label(starts[k]))>> \o label(starts[k])]) \o <<0>>

\* mg_dns_encode_record: a question ends with its class.
EncodeQuestion(name, rtype) ==
    IF EncodeName(name) = <<>> THEN <<>> ELSE EncodeName(name) \o Net16(rtype) \o Net16(1)

EncodeAnswer(name, rtype, ttl, rdata) ==
    EncodeQuestion(name, rtype) \o Net32(ttl)
    \o (IF rtype = TypeCname
        THEN Net16(Len(EncodeName(rdata))) \o EncodeName(rdata)
        ELSE Net16(Len(rdata)) \o rdata)

\* mg_send_dns_query: over TCP a message has its length before it; nothing is sent for a
\* name that cannot be encoded.
Query(name, rtype, tid, udp) ==
    LET pkt == DnsHeader([tid |-> tid, flags |-> 256, questions |-> 1, answers |-> 0]) \o EncodeQuestion(name, rtype)
    IN  IF EncodeName(name) = <<>> THEN <<>> ELSE IF udp THEN pkt ELSE Net16(Len(pkt)) \o pkt

-----------------------------------------------------------------------------
(* Reading.                                                                 *)

\* mg_parse_dns_resource_record at p: the record and the position after it.
ParseRecord(pkt, p, reply) ==
    LET end == Len(pkt)
        RECURSIVE skip(_)
        skip(q) == IF q >= end \/ At(pkt, q) = 0 THEN q
                   ELSE IF At(pkt, q) >= 64 THEN q + 1
                   ELSE skip(q + At(pkt, q) + 1)
        q == skip(p)
        head == [name |-> p, nameLen |-> q - p + 1,
                 rtype |-> At16(pkt, q + 1), rclass |-> At16(pkt, q + 3)]
    IN  IF q > end - 5 THEN Failed
        ELSE IF ~reply THEN [head |-> head, next |-> q + 5]
        ELSE IF q + 5 >= end - 6 THEN Failed
        ELSE LET n == At16(pkt, q + 9)
             IN  [head |-> head, ttl |-> At16(pkt, q + 7), rdata |-> q + 11, rdataLen |-> n, next |-> q + 11 + n]

\* mg_parse_dns; max is MG_MAX_DNS_QUESTIONS and MG_MAX_DNS_ANSWERS.
ParseDns(pkt, max) ==
    LET cap(n) == IF n > max THEN max ELSE n
        RECURSIVE records(_, _, _, _)
        records(p, n, reply, rrs) ==
            IF n = 0 THEN [rrs |-> rrs, next |-> p]
            ELSE LET rr == ParseRecord(pkt, p, reply)
                 IN  IF rr = Failed THEN Failed ELSE records(rr.next, n - 1, reply, Append(rrs, rr))
        qs == records(DnsHeaderLen, cap(At16(pkt, 4)), FALSE, <<>>)
        as == records(qs.next, cap(At16(pkt, 6)), TRUE, <<>>)
    IN  IF Len(pkt) < DnsHeaderLen \/ qs = Failed \/ as = Failed THEN Failed
        ELSE [tid |-> At16(pkt, 0), flags |-> At16(pkt, 2), questions |-> qs.rrs, answers |-> as.rrs]

\* "Basic circular loop avoidance: allow up to 16 pointer hops."
\* mg_dns_uncompress_name: the name at p, cut to what dst_len has room for; <<>> for 0.
Uncompress(pkt, p, dstLen) ==
    LET end == Len(pkt)
        RECURSIVE walk(_, _, _)
        walk(q, out, hops) ==
            LET n == At(pkt, q)
                off == 256 * (n - 192) + At(pkt, q + 1)
                leeway == dstLen - Len(out)
                k == IF n > leeway THEN leeway ELSE n
            IN  IF n = 0 THEN (IF out = <<>> THEN <<>> ELSE Front(out))
                ELSE IF q + 1 >= end THEN <<>>
                ELSE IF n >= 192
                THEN IF off >= end \/ hops + 1 > 15 THEN <<>> ELSE walk(off, out, hops + 1)
                ELSE IF n > 63 \/ q + 1 + k >= end THEN <<>>
                ELSE IF k = leeway THEN out \o Bytes(pkt, q + 1, k)
                ELSE walk(q + 1 + k, out \o Bytes(pkt, q + 1, k) \o <<Dot>>, hops)
    IN  IF p >= end THEN <<>> ELSE walk(p, <<>>, 0)

\* mg_dns_parse_record_data: an address has to be in the packet; an alias is a name.
RecordData(pkt, rr, dataLen) ==
    CASE rr.head.rtype = TypeA -> IF dataLen < 4 \/ rr.rdata + dataLen > Len(pkt) THEN Failed
                                  ELSE [data |-> Bytes(pkt, rr.rdata, dataLen)]
      [] rr.head.rtype = TypeCname -> [data |-> Uncompress(pkt, rr.rdata, dataLen)]
      [] OTHER -> Failed

\* mg_dns_next_record: the indices mg_dns_next_record returns one after the other.
RecordsOf(msg, rtype) == SetToSortSeq({i \in DOMAIN msg.answers : msg.answers[i].head.rtype = rtype}, <)

-----------------------------------------------------------------------------
(* A server's reply.                                                        *)

\* dns_handler: what the handler is given of what was received; over TCP two bytes are taken off, unread.
Received(pkt, udp) == IF udp THEN pkt ELSE SubSeq(pkt, 3, Len(pkt))

\* Its answer to a message it cannot read goes before the message itself.
MalformedReply(pkt, udp) ==
    LET io == DnsHeader([tid |-> 0, flags |-> 32897, questions |-> 0, answers |-> 0]) \o pkt
    IN  IF udp THEN io ELSE Net16(Len(io)) \o io

\* mg_dns_create_reply, mg_dns_reply_record for each of records, mg_dns_send_reply.  The question
\* is copied up to the end of the last one.  The length before a TCP reply is taken before the header is put in,
\* and leaves its 12 bytes out.
Reply(pkt, max, records, udp) ==
    LET msg == ParseDns(pkt, max)
        q == Last(msg.questions)
        asked == IF msg.questions = <<>> THEN <<>>
                 ELSE Bytes(pkt, DnsHeaderLen, q.head.name + q.head.nameLen + 4 - DnsHeaderLen)
        name == Uncompress(pkt, q.head.name, 511)
        kept == SubSeq(records, 1, IF Len(records) > max THEN max ELSE Len(records))
        body == asked \o FlattenSeq([k \in DOMAIN kept |->
                           EncodeAnswer(name, kept[k].rtype, kept[k].ttl, kept[k].rdata)])
        flags == IF msg.flags \div 128 % 2 = 1 THEN msg.flags ELSE msg.flags + 128
        head == DnsHeader([tid |-> msg.tid, flags |-> IF flags >= 32768 THEN flags ELSE flags + 32768,
                        questions |-> Len(msg.questions), answers |-> Len(kept)])
    IN  (IF udp THEN <<>> ELSE Net16(Len(body))) \o head \o body

-----------------------------------------------------------------------------
(* Before a server is asked.                                                *)

\* mg_resolve_from_hosts_file, over lines [addr, names]: addr is 0 when the line does not start with
\* an address, or is a comment.
FromHosts(lines, name) ==
    LET with == {i \in DOMAIN lines : lines[i].addr # 0 /\ name \in ToSet(lines[i].names)}
    IN  IF with = {} THEN Failed ELSE [addr |-> lines[CHOOSE i \in with : \A j \in with : i <= j].addr]

\* mg_get_ip_address_of_nameserver: the first nameserver of resolv.conf.
Nameserver(lines) ==
    LET with == {i \in DOMAIN lines : lines[i].key = "nameserver" /\ lines[i].addr # 0}
    IN  IF with = {} THEN Failed ELSE [addr |-> lines[CHOOSE i \in with : \A j \in with : i <= j].addr]

-----------------------------------------------------------------------------
\* Properties of one exchange [name, records, udp] and of one name [pkt, p, room].

\* A name is one whose labels are neither empty nor longer than a length byte can say: dots that
\* lead, follow or double make no labels.
ProperName(name) ==
    /\ name # <<>> /\ name[1] # Dot /\ Last(name) # Dot
    /\ \A i \in 1..Len(name) - 1 : ~(name[i] = Dot /\ name[i + 1] = Dot)
    /\ \A i, j \in DOMAIN name : (j - i >= 63) => \E k \in i..j : name[k] = Dot

\* Over TCP a message is one only with its length before it.
Prefixed(sent, udp) == udp \/ At16(sent, 0) = Len(sent) - 2

\* A server of the library reads the name a client of the library asks for, and the client reads
\* the answers: the same name, each record with its data, for the question that was asked
\* (mongoose.c:10969, 11087, 11165, 11286).  Over TCP this is about the messages behind their prefixes,
\* which dns_handler takes off unread (11240): the prefix of the query, and that of the answer to a message
\* that cannot be read, are its length; the reply's is not, see ReplyPrefixed.
Answered(x) ==
    LET ask == Received(Query(x.name, TypeA, 7, x.udp), x.udp)
        got == Received(Reply(ask, 4, x.records, x.udp), x.udp)
        msg == ParseDns(got, 4)
        rr(k) == msg.answers[k]
        kept == IF Len(x.records) > 4 THEN 4 ELSE Len(x.records)
    IN  ProperName(x.name) =>
            /\ Prefixed(Query(x.name, TypeA, 7, x.udp), x.udp) /\ Prefixed(MalformedReply(ask, x.udp), x.udp)
            /\ ParseDns(ask, 4) # Failed /\ msg # Failed
            /\ msg.tid = 7 /\ Len(msg.questions) = 1 /\ Len(msg.answers) = kept
            /\ Uncompress(got, msg.questions[1].head.name, 1023) = x.name
            /\ \A k \in 1..kept :
                /\ Uncompress(got, rr(k).head.name, 1023) = x.name
                /\ rr(k).head.rtype = x.records[k].rtype /\ rr(k).ttl = x.records[k].ttl
                /\ RecordData(got, rr(k), IF rr(k).head.rtype = TypeA THEN 4 ELSE 255)
                     = [data |-> x.records[k].rdata]

\* "TCP DNS requires messages to be prefixed with len" (mongoose.c:11077), the replies too.  The code violates
\* this: mg_dns_send_reply counts what follows the header only (11296-11300).
ReplyPrefixed(x) ==
    ProperName(x.name) => Prefixed(Reply(Received(Query(x.name, TypeA, 7, x.udp), x.udp), 4, x.records, x.udp), x.udp)

\* Pointers may lead anywhere, back to themselves and to the middle of a name: reading a name comes to
\* an end and never writes more than there is room for (mongoose.c:11205-11223).
NameBounded(x) == Len(Uncompress(x.pkt, x.p, x.room)) <= x.room

\* A name that another server ends with a pointer to one that came before is read whole
\* (mongoose.c:11195-11201).
NameExpanded(x) ==
    LET before == Zeros(DnsHeaderLen) \o EncodeName(x.tail)
        pkt == before \o <<Len(x.head)>> \o x.head \o <<192, DnsHeaderLen, 0>>
    IN  ProperName(x.tail) => Uncompress(pkt, Len(before), 255) = x.head \o <<Dot>> \o x.tail
=============================================================================
