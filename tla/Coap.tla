-------------------------------- MODULE Coap --------------------------------
(***************************************************************************)
(* CoAP messages as mongoose composes, parses and hands them over          *)
(* (mongoose.c, coap.c part).  A message is a sequence of bytes; options   *)
(* are kept in the order of their numbers, which are sent as differences.  *)
(***************************************************************************)
EXTENDS Integers, Sequences, SequencesExt

\* Flags of a message that could not be read.
NotEnough == "MG_COAP_NOT_ENOUGH_DATA"
FormatError == "MG_COAP_FORMAT_ERROR"
Ignored == "MG_COAP_IGNORE"

Widest == 65535 + 269

-----------------------------------------------------------------------------
(* Composing.                                                               *)

\* Mutant: an option goes before those with its number.
InsertBeforeEqual(options, opt) ==
    LET before == SelectSeq(options, LAMBDA o : o.number < opt.number)
    IN  before \o <<opt>> \o SubSeq(options, Len(before) + 1, Len(options))

\* mg_coap_add_option: after the options whose numbers are not larger.
AddOption(options, opt) ==
    LET before == SelectSeq(options, LAMBDA o : o.number <= opt.number)
    IN  before \o <<opt>> \o SubSeq(options, Len(before) + 1, Len(options))

\* coap_split_opt: the four bits and the bytes that follow them.
SplitOpt(value) ==
    IF value < 13 THEN [base |-> value, ext |-> <<>>]
    ELSE IF value <= 255 + 13 THEN [base |-> 13, ext |-> <<value - 13>>]
    ELSE [base |-> 14, ext |-> <<(value - 269) \div 256, (value - 269) % 256>>]

\* The number before option k.
PreviousNumber(options, k) == IF k = 1 THEN 0 ELSE options[k - 1].number

\* coap_calculate_packet_size: what it refuses.
Composable(cm) ==
    /\ cm.msgType <= 3 /\ Len(cm.token) <= 8 /\ cm.class <= 7 /\ cm.detail <= 31
    /\ \A k \in DOMAIN cm.options :
        /\ k < Len(cm.options) => cm.options[k].number <= cm.options[k + 1].number
        /\ Len(cm.options[k].value) <= Widest
        /\ cm.options[k].number - PreviousNumber(cm.options, k) <= Widest

\* mg_coap_compose; <<>> when it reports an error.
Compose(cm) ==
    LET delta(k) == SplitOpt(cm.options[k].number - PreviousNumber(cm.options, k))
        length(k) == SplitOpt(Len(cm.options[k].value))
        option(k) == <<delta(k).base * 16 + length(k).base>> \o delta(k).ext \o length(k).ext
                     \o cm.options[k].value
    IN  IF ~Composable(cm) THEN <<>>
        ELSE <<64 + cm.msgType * 16 + Len(cm.token), cm.class * 32 + cm.detail,
               cm.msgId \div 256, cm.msgId % 256>>
             \o cm.token \o FlattenSeq([k \in DOMAIN cm.options |-> option(k)])
             \o (IF cm.payload = <<>> THEN <<>> ELSE <<255>> \o cm.payload)

-----------------------------------------------------------------------------
(* Parsing.                                                                 *)

\* coap_get_ext_opt at position p of io: the value, which has 16 bits, and how many bytes
\* it took, -1 when they are not there.
ExtOpt(io, p, base) ==
    CASE base = 13 -> IF p <= Len(io) THEN [value |-> io[p] + 13, took |-> 1] ELSE [value |-> base, took |-> -1]
      [] base = 14 -> IF p + 1 <= Len(io)
                      THEN [value |-> (256 * io[p] + io[p + 1] + 269) % 65536, took |-> 2]
                      ELSE [value |-> base, took |-> -1]
      [] OTHER -> [value |-> base, took |-> 0]

\* coap_get_options from position p: the options, an error if there is one, and the position
\* of the payload marker or of the end.
OptionsOf(io, p) ==
    LET RECURSIVE walk(_, _, _)
        walk(q, prev, options) ==
            LET delta == ExtOpt(io, q + 1, io[q] \div 16)
                length == ExtOpt(io, q + 1 + delta.took, io[q] % 16)
                start == q + 1 + delta.took + length.took
                number == (delta.value + prev) % 65536
                opt == [number |-> number, value |-> SubSeq(io, start, start + length.value - 1)]
            IN  IF q > Len(io) \/ io[q] = 255 THEN [options |-> options, error |-> "none", next |-> q]
                ELSE IF 15 \in {io[q] \div 16, io[q] % 16} THEN [options |-> <<>>, error |-> FormatError, next |-> q]
                ELSE IF delta.took = -1 \/ length.took = -1 \/ start + length.value - 1 > Len(io)
                THEN [options |-> <<>>, error |-> NotEnough, next |-> q]
                ELSE walk(start + length.value, number, AddOption(options, opt))
    IN  walk(p, 0, <<>>)

\* mg_coap_parse: coap_parse_header, coap_get_token, coap_get_options, and the rest is payload.
ParseCoap(io) ==
    LET failed(e) == [error |-> e]
        tokenLen == io[1] % 16
        opts == OptionsOf(io, 5 + tokenLen)
    IN  IF Len(io) < 4 THEN failed(NotEnough)
        ELSE IF io[1] \div 64 # 1 THEN failed(Ignored)
        ELSE IF tokenLen > 8 THEN failed(FormatError)
        ELSE IF 4 + tokenLen > Len(io) THEN failed(NotEnough)
        ELSE IF opts.error # "none" THEN failed(opts.error)
        ELSE [error |-> "none", msgType |-> (io[1] \div 16) % 4, class |-> io[2] \div 32, detail |-> io[2] % 32,
              msgId |-> 256 * io[3] + io[4], token |-> SubSeq(io, 5, 4 + tokenLen), options |-> opts.options,
              payload |-> SubSeq(io, opts.next + 1, Len(io))]

\* coap_handler: the event a datagram gives and how it is flagged.  It is the event of the type read so
\* far, and all errors but the one that is to be ignored count as a format error.
Delivered(io) ==
    LET cm == ParseCoap(io)
        ev == IF Len(io) < 4 THEN 0 ELSE (io[1] \div 16) % 4
    IN  IF cm.error = Ignored THEN <<>>
        ELSE <<[ev |-> ev, flag |-> IF cm.error = "none" THEN "none" ELSE FormatError]>>

\* mg_coap_send_ack
Ack(msgId) == Compose([msgType |-> 2, class |-> 0, detail |-> 0, msgId |-> msgId, token |-> <<>>,
                       options |-> <<>>, payload |-> <<>>])

-----------------------------------------------------------------------------
\* Properties of a message [msgType, class, detail, msgId, token, added, payload], to which the options
\* of added were added one after the other.

Built(x) == [msgType |-> x.msgType, class |-> x.class, detail |-> x.detail, msgId |-> x.msgId,
             token |-> x.token, payload |-> x.payload, options |-> FoldLeft(AddOption, <<>>, x.added)]

\* What is composed is read back: the options in the order of their numbers, those with the same number in
\* the order they were added, whether a difference or a length takes four bits, a byte or two
\* (mongoose.c:11667, 11846, 12047).
CoapRead(x) ==
    LET io == Compose(Built(x))
        read == ParseCoap(io)
        same(opts, n) == SelectSeq(opts, LAMBDA o : o.number = n)
    IN  io # <<>> =>
            /\ read = [error |-> "none"] @@ Built(x)
            /\ \A k \in 1..Len(read.options) - 1 : read.options[k].number <= read.options[k + 1].number
            /\ \A o \in ToSet(x.added) : same(read.options, o.number) = same(x.added, o.number)

\* A datagram that was cut is not taken for another message, only for one that has fewer options or a shorter
\* payload (mongoose.c:11918-11923).
CoapCut(x) ==
    LET io == Compose(Built(x))
    IN  \A n \in 0..Len(io) - 1 :
            LET read == ParseCoap(SubSeq(io, 1, n))
            IN  /\ Delivered(SubSeq(io, 1, n)) # <<>>
                /\ read.error = "none" =>
                    /\ IsPrefix(read.options, Built(x).options) /\ IsPrefix(read.payload, x.payload)
                    /\ read.payload # <<>> => read.options = Built(x).options
                    /\ read.msgId = x.msgId /\ read.token = x.token
=============================================================================
