------------------------------- MODULE Codec --------------------------------
(***************************************************************************)
(* MessageCodec and the protocol adapter (message_codec.cpp,               *)
(* message_protocol_adapter.cpp).                                          *)
(*                                                                         *)
(* A text is a sequence of symbols.  The characters that the code treats   *)
(* specially are symbols of their own ("|", "\\", ";"); a numeral, a       *)
(* keyword of the format or any other character is one symbol.             *)
(***************************************************************************)
EXTENDS Integers, FiniteSetsExt, SequencesExt

CONSTANT MaxNumber    \* the largest number that occurs in a text

Separator == "|"
Backslash == "\\"
HeaderSep == ";"

Numeral(n) == ToString(n)
Numerals == {Numeral(n) : n \in 0..MaxNumber}

\* Distinct numbers have distinct numerals, made of digits.  A default
\* envelope lives 1000 ms.
ASSUME NumeralAssumption ==
  /\ MaxNumber \in Nat /\ MaxNumber >= 1000
  /\ Numerals \cap {Separator, Backslash, HeaderSep} = {}
  /\ \A m, n \in 0..MaxNumber : Numeral(m) = Numeral(n) => m = n

\* std::stoul of a field: it must begin with a number.
IsNumber(field) == field # <<>> /\ Head(field) \in Numerals
NumberIn(field) == CHOOSE n \in 0..MaxNumber : Numeral(n) = Head(field)

\* The loops over a text are functions of the number of characters read.
EscapeBarOnly(input) ==
  LET out[n \in 0..Len(input)] ==
        IF n = 0 THEN <<>>
        ELSE out[n - 1] \o (IF input[n] = Separator
                            THEN <<Backslash, input[n]>> ELSE <<input[n]>>)
  IN out[Len(input)]
EscapeField(input) ==
  LET out[n \in 0..Len(input)] ==
        IF n = 0 THEN <<>>
        ELSE out[n - 1] \o (IF input[n] \in {Backslash, Separator}
                            THEN <<Backslash, input[n]>> ELSE <<input[n]>>)
  IN out[Len(input)]

\* A backslash stands for the symbol after it; a last one for itself.
UnescapeStep(s, ch) ==
  IF ~s.escaped /\ ch = Backslash THEN [s EXCEPT !.escaped = TRUE]
  ELSE [out |-> Append(s.out, ch), escaped |-> FALSE]
UnescapeLoop(input) ==
  LET after[n \in 0..Len(input)] ==
        IF n = 0 THEN [out |-> <<>>, escaped |-> FALSE]
        ELSE UnescapeStep(after[n - 1], input[n])
  IN after[Len(input)]
UnescapeField(input) ==
  LET end == UnescapeLoop(input)
  IN IF end.escaped THEN Append(end.out, Backslash) ELSE end.out

\* A separator after an odd run of backslashes belongs to the field.
SplitStep(s, ch) ==
  IF ch = Separator /\ s.run % 2 = 0
  THEN [fields |-> Append(s.fields, s.current), current |-> <<>>, run |-> 0]
  ELSE [s EXCEPT !.current = Append(@, ch),
                 !.run = IF ch = Backslash THEN @ + 1 ELSE 0]
SplitLoop(text) ==
  LET after[n \in 0..Len(text)] ==
        IF n = 0 THEN [fields |-> <<>>, current |-> <<>>, run |-> 0]
        ELSE SplitStep(after[n - 1], text[n])
  IN after[Len(text)]
SplitEscaped(text) ==
  LET end == SplitLoop(text) IN Append(end.fields, end.current)

ChannelToString ==
  [kControl |-> "control", kTelemetry |-> "telemetry", kEvent |-> "event"]
QoSToString == [kBestEffort |-> "best_effort", kAtLeastOnce |-> "at_least_once"]

Parses(field, names) == \E k \in DOMAIN names : field = <<names[k]>>
FromString(field, names) == CHOOSE k \in DOMAIN names : field = <<names[k]>>

Texts == Seq(STRING)
MessageEnvelope ==
  [schema : 1..MaxNumber, channel : DOMAIN ChannelToString,
   qos : DOMAIN QoSToString, sequence : 0..MaxNumber, timestamp : 0..MaxNumber,
   ttl : 0..MaxNumber, source : Texts, target : Texts, topic : Texts,
   trace : Texts, key : Texts, payload : Texts]

\* MessageEnvelope as default-constructed.
NoText == <<>>
FactoryEnvelope ==
  [schema |-> 1, channel |-> "kEvent", qos |-> "kBestEffort", sequence |-> 0,
   timestamp |-> 0, ttl |-> 1000, source |-> NoText, target |-> NoText,
   topic |-> NoText, trace |-> NoText, key |-> NoText, payload |-> NoText]

Joined(fields) ==
  LET text[n \in 0..Len(fields)] ==
        IF n = 0 THEN <<>>
        ELSE text[n - 1] \o (IF n = 1 THEN <<>> ELSE <<Separator>>) \o fields[n]
  IN text[Len(fields)]

Prelude(e) ==
  <<<<Numeral(e.schema)>>, <<ChannelToString[e.channel]>>, <<QoSToString[e.qos]>>,
    <<Numeral(e.sequence)>>, <<Numeral(e.timestamp)>>, <<Numeral(e.ttl)>>>>

Encode(e) ==
  Joined(Prelude(e) \o <<EscapeField(e.source), EscapeField(e.target),
    EscapeField(e.topic), EscapeField(e.trace), EscapeField(e.payload)>>)

\* Without source, target and trace id.
EncodeCompact(e) ==
  Joined(Prelude(e) \o <<EscapeField(e.topic), EscapeField(e.payload)>>)

Invalid == [ok |-> FALSE]

Decode(text) ==
  LET f == SplitEscaped(text)
      wellFormed ==
        /\ text # <<>> /\ Len(f) \in {8, 11}
        /\ IsNumber(f[1]) /\ IsNumber(f[4]) /\ IsNumber(f[5]) /\ IsNumber(f[6])
        /\ NumberIn(f[1]) >= 1
        /\ Parses(f[2], ChannelToString) /\ Parses(f[3], QoSToString)
      prelude == [FactoryEnvelope EXCEPT
                    !.schema = NumberIn(f[1]), !.sequence = NumberIn(f[4]),
                    !.timestamp = NumberIn(f[5]), !.ttl = NumberIn(f[6]),
                    !.channel = FromString(f[2], ChannelToString),
                    !.qos = FromString(f[3], QoSToString)]
      U(i) == UnescapeField(f[i])
  IN IF ~wellFormed THEN Invalid
     ELSE [ok |-> TRUE, envelope |->
             IF Len(f) = 8
             THEN [prelude EXCEPT !.topic = U(7), !.payload = U(8)]
             ELSE [prelude EXCEPT !.source = U(7), !.target = U(8),
                     !.topic = U(9), !.trace = U(10), !.payload = U(11)]]

-----------------------------------------------------------------------------
(* The protocol adapter.                                                   *)

Modes == {"legacy", "compact", "protobuf", "cbor"}

ProtocolWireVersion ==
  [legacy |-> 1, compact |-> 1, protobuf |-> 2, cbor |-> 2]
WirePrefix == [protobuf |-> <<"PBV2", HeaderSep>>, cbor |-> <<"CBV2", HeaderSep>>]

ParseProtocolTag(tag) ==
  IF Len(tag) = 1 /\ tag[1] \in Modes THEN tag[1] ELSE "legacy"

WrapEnvelopeHeader(mode, payload) ==
  <<"pm=", mode, HeaderSep, "pv=", Numeral(ProtocolWireVersion[mode]), HeaderSep>>
  \o payload

\* Where a separator stands from position n on; 0 when there is none.
Find(text, n) ==
  LET at == {i \in n..Len(text) : text[i] = HeaderSep}
  IN IF at = {} THEN 0 ELSE Min(at)

\* A text without header is a legacy body.
SplitEnvelopeHeader(text) ==
  LET first == Find(text, 1)
      second == Find(text, first + 1)
      mode == ParseProtocolTag(SubSeq(text, 2, first - 1))
  IN CASE text = <<>> \/ Head(text) # "pm=" ->
            [ok |-> TRUE, mode |-> "legacy", body |-> text]
       [] text # <<>> /\ Head(text) = "pm=" /\ first <= 2 -> Invalid
       [] text # <<>> /\ Head(text) = "pm=" /\ first > 2 /\ second = 0 ->
            [ok |-> TRUE, mode |-> mode, body |-> SubSeq(text, first + 1, Len(text))]
       [] OTHER ->
            IF second > first + 1 /\ text[first + 1] = "pv="
            THEN [ok |-> TRUE, mode |-> mode,
                  body |-> SubSeq(text, second + 1, Len(text))]
            ELSE Invalid

BuildWireFrame(prefix, payload) ==
  prefix \o <<Numeral(Len(payload)), HeaderSep>> \o payload

ParseWireFrame(prefix, body) ==
  LET sep == Find(body, Len(prefix) + 1)
      length == SubSeq(body, Len(prefix) + 1, sep - 1)
      payload == SubSeq(body, sep + 1, Len(body))
  IN IF /\ IsPrefix(prefix, body) /\ sep # 0
        /\ length # <<>> /\ \A i \in DOMAIN length : length[i] \in Numerals
        /\ NumberIn(length) = Len(payload)
     THEN [ok |-> TRUE, payload |-> payload] ELSE Invalid

EncodeByProtocol(mode, e) ==
  WrapEnvelopeHeader(mode,
    CASE mode = "legacy" -> Encode(e)
      [] mode = "compact" -> EncodeCompact(e)
      [] mode \in {"protobuf", "cbor"} ->
           BuildWireFrame(WirePrefix[mode], EncodeCompact(e)))

DecodeOnce(mode, body) ==
  IF mode \in {"legacy", "compact"} THEN Decode(body)
  ELSE LET frame == ParseWireFrame(WirePrefix[mode], body)
       IN IF frame.ok THEN Decode(frame.payload) ELSE Invalid

DecodeReceiverModeOnly(mode, text) ==
  LET header == SplitEnvelopeHeader(text)
  IN IF header.ok THEN DecodeOnce(mode, header.body) ELSE Invalid
\* The declared mode first, then the receiver's own.
DecodeByProtocol(mode, text) ==
  LET header == SplitEnvelopeHeader(text)
      first == DecodeOnce(header.mode, header.body)
  IN IF ~header.ok THEN Invalid
     ELSE IF first.ok THEN first ELSE DecodeOnce(mode, header.body)

SelfCheckProtocolCapability(mode) ==
  LET e == [FactoryEnvelope EXCEPT !.source = <<"selfcheck">>,
              !.target = <<"selfcheck">>, !.topic = <<"protocol.selfcheck">>,
              !.payload = <<"ping">>]
      d == DecodeByProtocol(mode, EncodeByProtocol(mode, e))
  IN d.ok /\ d.envelope.topic = e.topic /\ d.envelope.payload = e.payload
=============================================================================
