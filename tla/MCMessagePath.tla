--------------------------- MODULE MCMessagePath ----------------------------
(* Payloads of up to three symbols, topics of up to two, out of the ones   *)
(* the formats treat specially and an ordinary one; envelopes of different *)
(* ages and kinds.                                                         *)
EXTENDS MessagePath

Symbols == {"a", Separator, Backslash, HeaderSep}
SmallTexts(max) == UNION {[1..n -> Symbols] : n \in 0..max}

Plain ==
  [FactoryEnvelope EXCEPT !.source = <<"car">>, !.target = <<"robot">>,
     !.topic = <<"a">>, !.key = <<"k">>, !.ttl = 2, !.sequence = 7]

Awkward ==
  {[Plain EXCEPT !.payload = p] : p \in SmallTexts(3)}
  \cup {[Plain EXCEPT !.topic = t, !.payload = p, !.source = <<Backslash>>,
                      !.trace = <<Separator>>] : t \in SmallTexts(2), p \in SmallTexts(1)}

Aged ==
  {[Plain EXCEPT !.timestamp = t, !.ttl = l] : t \in {0, 2}, l \in 0..2}
Kinds ==
  {[Plain EXCEPT !.channel = c, !.qos = q, !.target = t] :
     c \in DOMAIN ChannelToString, q \in DOMAIN QoSToString,
     t \in {NoText, <<"pm=">>}}

MCEnvelopes == Awkward \cup Aged \cup Kinds

MCTopics == {<<"a">>}

MCSenders ==
  {[lock |-> FALSE, mode |-> m, prefix |-> NoText, percent |-> 100] : m \in Modes}
  \cup {[lock |-> TRUE, mode |-> "legacy", prefix |-> NoText, percent |-> 100],
        [lock |-> FALSE, mode |-> "legacy", prefix |-> <<"a">>, percent |-> 1]}
=============================================================================
