-------------------------------- MODULE Mqtt --------------------------------
(***************************************************************************)
(* MQTT (mongoose.c: mqtt_handler, parse_mqtt, mg_mqtt_broker): clients    *)
(* that connect, subscribe and publish through one broker, their packets   *)
(* cut anywhere, and the format of the packets themselves.                 *)
(*                                                                         *)
(* For the broker a packet is two units, its header and the rest of it; a  *)
(* topic is a sequence of characters.                                      *)
(***************************************************************************)
EXTENDS Integers, Sequences, FiniteSets, SequencesExt

CONSTANTS MqClients,    \* the connections to the broker
          MqPlans,      \* what a client may send: sequences of packets
          MqMaxSubs     \* MG_MQTT_MAX_SESSION_SUBSCRIPTIONS

\* sizeof(MG_MQTT_MAX_SESSION_SUBSCRIPTIONS), which the code compares with the
\* number of topics of one SUBSCRIBE.
PerPacket == 4

VARIABLE mq

mqVars == mq

\* Packets.  whole is FALSE when the last topic ends after the packet.
Conn == [cmd |-> "connect"]
Sub(topics, whole) == [cmd |-> "subscribe", topics |-> topics, whole |-> whole]
Pub(topic, data) == [cmd |-> "publish", topic |-> topic, data |-> data]
PingReq == [cmd |-> "pingreq"]
BadPacket == [cmd |-> "malformed"]

\* What clients send: a topic that was cut off is there, and a # is the last character of a topic, as the
\* protocol has it.
MqPackets ==
    {Conn, PingReq, BadPacket} \cup [cmd : {"publish"}, topic : Seq(STRING), data : Nat]
    \cup {p \in [cmd : {"subscribe"}, topics : Seq(Seq(STRING)), whole : BOOLEAN] :
            /\ p.whole \/ p.topics # <<>>
            /\ \A t \in ToSet(p.topics) : Contains(t, "#") => Last(t) = "#"}

ASSUME MqAssumption == MqPlans \subseteq Seq(MqPackets) /\ MqMaxSubs \in Nat

\* sessions is the broker's list, head first; log, the packets in the order they
\* were handled, is history.
MqInit ==
    \E plan \in [MqClients -> MqPlans] :
        mq = [plan |-> plan, sent |-> [c \in MqClients |-> 0], done |-> [c \in MqClients |-> 0],
              state |-> [c \in MqClients |-> "open"], sessions |-> <<>>,
              subs |-> [c \in MqClients |-> <<>>], out |-> [c \in MqClients |-> <<>>], log |-> <<>>]

HasSession(b, c) == Contains(b.sessions, c)
CloseClient(b, c) == [b EXCEPT !.state[c] = "closing"]
Respond(b, c, p) == [b EXCEPT !.out[c] = Append(@, p)]

\* mg_mqtt_match_topic_expression
MatchTopic(exp, topic) ==
    LET e == IF Contains(exp, "#") THEN Front(exp) ELSE exp
    IN  /\ IF e = exp THEN Len(topic) = Len(e) ELSE Len(topic) > Len(e)
        /\ SubSeq(topic, 1, Len(e)) = e

\* A second CONNECT is refused; its session stays until the connection is closed.
HandleConnect(b, c) ==
    IF HasSession(b, c) THEN CloseClient(b, c)
    ELSE Respond([b EXCEPT !.sessions = <<c>> \o @], c, "connack")

\* Topics are counted before any is kept; those before a cut one are kept.
HandleSubscribe(b, c, p) ==
    LET given == Len(p.topics) - (IF p.whole THEN 0 ELSE 1)
        kept == [b EXCEPT !.subs[c] = @ \o SubSeq(p.topics, 1, given)]
    IN  IF ~HasSession(b, c) \/ given > PerPacket \/ Len(b.subs[c]) + given > MqMaxSubs
        THEN CloseClient(b, c)
        ELSE IF p.whole /\ given > 0 THEN Respond(kept, c, "suback") ELSE CloseClient(kept, c)

\* Mutant: each subscription that matches has its copy.
CopyEachMatch(b, c, p) ==
    IF ~HasSession(b, c) THEN CloseClient(b, c)
    ELSE [b EXCEPT !.out = [d \in MqClients |->
            b.out[d] \o IF HasSession(b, d)
                        THEN [i \in 1..Cardinality({k \in DOMAIN b.subs[d] : MatchTopic(b.subs[d][k], p.topic)}) |-> p]
                        ELSE <<>>]]

\* A session has a message once, however many of its subscriptions match.
HandlePublish(b, c, p) ==
    IF ~HasSession(b, c) THEN CloseClient(b, c)
    ELSE [b EXCEPT !.out = [d \in MqClients |->
            b.out[d] \o IF HasSession(b, d) /\ \E k \in DOMAIN b.subs[d] : MatchTopic(b.subs[d][k], p.topic)
                        THEN <<p>> ELSE <<>>]]

\* mg_mqtt_broker: other packets are not answered.
Handle(b, c, p) ==
    CASE p.cmd = "connect"   -> HandleConnect(b, c)
      [] p.cmd = "subscribe" -> HandleSubscribe(b, c, p)
      [] p.cmd = "publish"   -> HandlePublish(b, c, p)
      [] OTHER -> b

HandleNext(b, c, p) == [Handle(b, c, p) EXCEPT !.log = Append(@, [client |-> c, packet |-> p])]

\* mqtt_handler, MG_EV_RECV: every whole packet is handled, also after one that
\* closes the connection; a malformed one ends the loop and stays in the buffer.
MqReceive(c) ==
    /\ mq.state[c] = "open"
    /\ \E n \in 1..2 * Len(mq.plan[c]) - mq.sent[c] :
        LET b0 == [mq EXCEPT !.sent[c] = @ + n]
            bad == {k \in mq.done[c] + 1..b0.sent[c] \div 2 : mq.plan[c][k] = BadPacket}
            last == IF bad = {} THEN b0.sent[c] \div 2 ELSE (CHOOSE k \in bad : \A j \in bad : k <= j) - 1
            at[k \in mq.done[c]..last] == IF k = mq.done[c] THEN b0 ELSE HandleNext(at[k - 1], c, mq.plan[c][k])
            b1 == at[last]
        IN  mq' = [(IF bad = {} THEN b1 ELSE CloseClient(b1, c)) EXCEPT !.done[c] = last]

\* MG_EV_CLOSE, after the peer has left or the connection was marked.
MqClose(c) ==
    /\ mq.state[c] # "gone"
    /\ mq' = [mq EXCEPT !.state[c] = "gone", !.sessions = RemoveFirst(@, c), !.subs[c] = <<>>]

MqNext == \E c \in MqClients : MqReceive(c) \/ MqClose(c)

MqSpec == MqInit /\ [][MqNext]_mqVars

-----------------------------------------------------------------------------
(* The format of packets.                                                   *)

\* mg_mqtt_prepend_header: the length in digits of 7 bits, the lowest first; all but
\* the last have 128 added.
VarLen(len) ==
    LET digits[n \in 0..4] == len \div 128^n
        last == CHOOSE n \in 0..4 : digits[n] < 128 /\ (n = 0 \/ digits[n - 1] >= 128)
    IN  [i \in 1..last + 1 |-> (digits[i - 1] % 128) + (IF i <= last THEN 128 ELSE 0)]

\* parse_mqtt, up to the switch: the length of a packet whose length is coded as v
\* when io has the first n bytes of it, -1 when more are needed, -2 when it is wrong.
PacketLen(v, n) ==
    LET seen == IF Len(v) < n - 1 THEN Len(v) ELSE n - 1
        ends == {i \in 1..seen : v[i] < 128}
        lens == IF ends = {} THEN seen ELSE CHOOSE i \in ends : \A j \in ends : i <= j
        len == FoldLeft(LAMBDA sum, i : sum + (v[i] % 128) * 128^(i - 1), 0, [i \in 1..lens |-> i])
    IN  IF n < 2 THEN -1
        ELSE IF (ends = {} /\ seen > 4) \/ lens > 5 THEN -2
        ELSE IF ends = {} \/ 1 + lens + len > n THEN -1
        ELSE 1 + lens + len

Wide(n) == n % 65536

\* mg_send_mqtt_handshake_opt: what follows the fixed header.  A part of opts is
\* the length of a string, or None; the counters are uint16_t.
None == -1
ConnectBody(opts) ==
    LET will == opts.willTopic # None /\ opts.willMessage # None
        user == opts.user # None
        pass == opts.password # None
        texts == <<opts.client>> \o (IF will THEN <<opts.willTopic, opts.willMessage>> ELSE <<>>)
                 \o (IF user THEN <<opts.user>> ELSE <<>>) \o (IF pass THEN <<opts.password>> ELSE <<>>)
    IN  [flags |-> {f \in {"will", "user", "password"} :
                      CASE f = "will" -> will [] f = "user" -> user [] f = "password" -> pass},
         keepAlive |-> IF opts.keepAlive = 0 THEN 60 ELSE opts.keepAlive,
         texts |-> texts,
         len |-> Wide(10 + FoldLeft(LAMBDA sum, t : sum + 2 + t, 0, texts))]

\* parse_mqtt, MG_MQTT_CMD_CONNECT: the strings the flags announce, which have to
\* end where the packet does; <<>> stands for -2.
ParseConnect(body) ==
    LET names == <<"client">> \o (IF "will" \in body.flags THEN <<"willTopic", "willMessage">> ELSE <<>>)
                 \o (IF "user" \in body.flags THEN <<"user">> ELSE <<>>)
                 \o (IF "password" \in body.flags THEN <<"password">> ELSE <<>>)
        at(k) == 10 + FoldLeft(LAMBDA sum, t : sum + 2 + t, 0, SubSeq(body.texts, 1, k))
    IN  IF /\ Len(names) <= Len(body.texts)
           /\ \A k \in 1..Len(names) : at(k - 1) < body.len /\ at(k) <= body.len
           /\ at(Len(names)) = body.len
        THEN [n \in ToSet(names) |-> body.texts[CHOOSE k \in DOMAIN names : names[k] = n]]
        ELSE <<>>

\* mg_mqtt_publish and parse_mqtt, MG_MQTT_CMD_PUBLISH: the packet says how long its
\* topic is, has an id when its quality of service asks for one, and the rest is the
\* message.  n is the length the header gives; -2 is a protocol error.
PublishLen(topic, qos, data) == 2 + Wide(topic) + (IF qos > 0 THEN 2 ELSE 0) + data
ParsePublish(topic, qos, n) ==
    LET start == 2 + Wide(topic)
        id == IF qos > 0 THEN 2 ELSE 0
    IN  IF start + id > n THEN -2 ELSE n - start - id

\* mg_mqtt_next_subscribe_topic over the topics of a SUBSCRIBE whose payload has n bytes:
\* how many are returned, each with its length and quality of service, before -1.
TopicsRead(topics, n) ==
    LET at(k) == FoldLeft(LAMBDA sum, t : sum + 3 + t, 0, SubSeq(topics, 1, k))
    IN  Cardinality({k \in DOMAIN topics : at(k - 1) < n /\ at(k) <= n})

-----------------------------------------------------------------------------
\* Properties.

MqTypeOK ==
    /\ \A c \in MqClients :
        /\ mq.state[c] \in {"open", "closing", "gone"}
        /\ mq.done[c] <= mq.sent[c] \div 2 /\ mq.sent[c] <= 2 * Len(mq.plan[c])
        /\ Len(mq.subs[c]) <= MqMaxSubs
    /\ ToSet(mq.sessions) \subseteq MqClients

\* The broker's list has a session for each client that has connected and is not gone, and
\* never two, so that no message is written to a connection that was freed (mongoose.c:10736,
\* 10872).
SessionsLive ==
    /\ IsInjective(mq.sessions)
    /\ ToSet(mq.sessions) = {c \in MqClients : mq.state[c] # "gone"
                                /\ [client |-> c, packet |-> Conn] \in ToSet(mq.log)}

\* What a topic expression promises: a final # stands for one character or more.
Covers(exp, topic) ==
    \/ exp = topic
    \/ exp # <<>> /\ Last(exp) = "#" /\ Len(topic) >= Len(exp) /\ IsPrefix(Front(exp), topic)

\* What the packet that was handled k-th has to add to what c is sent: the answer to its own packets, and a
\* message that was published after a subscription of its that covers it, once.
Said(log, k, c, cmd) == log[k].client = c /\ log[k].packet.cmd = cmd
DueFor(log, c, k) ==
    LET p == log[k].packet
    IN  IF Said(log, k, c, "connect") THEN <<"connack">>
        ELSE IF Said(log, k, c, "subscribe") THEN <<"suback">>
        ELSE IF /\ p.cmd = "publish"
                /\ \E j \in 1..k : log[j] = [client |-> log[k].client, packet |-> Conn]
                /\ \E j \in 1..k : /\ Said(log, j, c, "subscribe")
                                   /\ \E t \in ToSet(log[j].packet.topics) : Covers(t, p.topic)
             THEN <<p>> ELSE <<>>

Due(c) == FlattenSeq([k \in DOMAIN mq.log |-> DueFor(mq.log, c, k)])

\* Whatever the order in which clients come, are cut off, break the protocol and leave, a
\* client in good standing has exactly what it asked for, in the order the broker handled
\* it (mongoose.c:10744-10842).
MessagesDue == \A c \in MqClients : mq.state[c] = "open" => mq.out[c] = Due(c)

Brokered == SessionsLive /\ MessagesDue

\* The length of a packet is read as it was written, and not before the whole packet is there
\* (mongoose.c:10265-10279, 10453-10466).
LengthRead(len) ==
    LET v == VarLen(len)
        whole == 1 + Len(v) + len
    IN  /\ PacketLen(v, whole) = whole
        /\ \A n \in {1, Len(v), whole - 1} : n < whole => PacketLen(v, n) = -1

\* A server reads the strings a client's CONNECT was made of, whichever are there, as long as the
\* packet's length fits the 16 bits it is computed in; nothing is said of longer ones, whose length wraps
\* at 10485 and is written too short (mongoose.c:10483-10518, 10281-10326).
ConnectRead(opts) ==
    LET names == {"client"} \cup (IF None \in {opts.willTopic, opts.willMessage} THEN {} ELSE {"willTopic", "willMessage"})
                 \cup {n \in {"user", "password"} : opts[n] # None}
        long == 10 + FoldLeft(LAMBDA sum, n : sum + 2 + opts[n], 0, SetToSeq(names))
    IN  long < 65536 => ParseConnect(ConnectBody(opts)) = [n \in names |-> opts[n]]

\* A message that is published is read back whole: topic, id and data share the packet's length
\* (mongoose.c:10553-10570, 10347-10362).
PublishRead(x) == ParsePublish(x.topic, x.qos, PublishLen(x.topic, x.qos, x.data)) = x.data

\* All the topics of a SUBSCRIBE are returned, and none that is not there as a whole (mongoose.c:10572-10605).
TopicsAll(topics) ==
    LET len == FoldLeft(LAMBDA sum, t : sum + 3 + t, 0, topics)
    IN  /\ TopicsRead(topics, len) = Len(topics)
        /\ \A n \in 0..len - 1 : TopicsRead(topics, n) < Len(topics)
=============================================================================
