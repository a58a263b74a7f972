---------------------------- MODULE MessagePath -----------------------------
(***************************************************************************)
(* The way of one message, from the envelope that Publish is given to the  *)
(* handler it reaches: the choice of a protocol, encoding, decoding by a   *)
(* receiver with a protocol mode of its own, the checks of ProcessInbound  *)
(* and the router, whose handlers may be replaced at any time.             *)
(* Bridge models what happens to many messages on the links in between.    *)
(***************************************************************************)
EXTENDS Codec

CONSTANTS
  Envelopes,    \* what the application publishes
  Senders,      \* the sender's lock, mode, canary prefix and percentage
  Topics,       \* what handlers are registered for
  Latencies,    \* max_end_to_end_latency_ms of the policy that applies
  MaxTime       \* bound: where the clock stops

\* Every schema that is published is at least 1, as in the default, and the
\* length of a text is a number of the machine.
ASSUME MessagePathAssumption ==
  /\ Envelopes \subseteq MessageEnvelope
  /\ \A e \in Envelopes : Len(EncodeCompact(e)) <= MaxNumber
  /\ \A s \in Senders : s.mode \in Modes
  /\ Latencies \subseteq Nat

VARIABLES
  envelope, sender, latency,   \* the case at hand
  now,
  wire,         \* the text on the transport, with the mode it was sent in
  handlers,     \* MessageRouter::handlers_: what the handler of a topic does
  received,     \* the decoded envelope
  outcome

case == <<envelope, sender, latency>>
vars == <<envelope, sender, latency, now, wire, handlers,
          received, outcome>>

NoWire == [mode |-> "none"]

Init ==
  /\ envelope \in Envelopes
  /\ sender \in Senders
  /\ latency \in Latencies
  /\ now = 0
  /\ wire = NoWire
  /\ handlers = [t \in {} |-> "returns"]
  /\ received = FactoryEnvelope
  /\ outcome = "none"

\* Time passes, and handlers are registered, before the message as well; it
\* is enough to let both happen where the code looks at them.  An envelope
\* may carry a time that is still to come.
Tick ==
  /\ outcome = "decoded" /\ now < MaxTime
  /\ now' = now + 1
  /\ UNCHANGED <<case, wire, handlers, received, outcome>>

\* MessageRouter::Register replaces; an empty topic is refused.
Register(topic, h) ==
  /\ outcome = "decoded" /\ topic # NoText
  /\ handlers' = [t \in DOMAIN handlers \cup {topic} |->
                    IF t = topic THEN h ELSE handlers[t]]
  /\ UNCHANGED <<case, now, wire, received, outcome>>

ValidByTopicOnly(e) == e.topic # NoText
IsEnvelopeValidForPublish(e) ==
  e.source # NoText /\ e.target # NoText /\ e.topic # NoText

\* ProtocolManager::ResolveMode.
ResolveMode(s, e) ==
  IF s.lock THEN "compact"
  ELSE IF s.prefix = NoText THEN s.mode
  ELSE IF IsPrefix(s.prefix, e.topic) /\ e.timestamp % 100 < s.percent
       THEN s.mode ELSE "compact"

Publish ==
  /\ outcome = "none"
  /\ IF IsEnvelopeValidForPublish(envelope)
     THEN LET m == ResolveMode(sender, envelope)
          IN /\ wire' = [mode |-> m, text |-> EncodeByProtocol(m, envelope)]
             /\ outcome' = "sent"
     ELSE outcome' = "refused" /\ UNCHANGED wire
  /\ UNCHANGED <<case, now, handlers, received>>

\* DecodeByProtocol with the receiver's protocol_mode_, then the same test of
\* the envelope that Publish made.
Receive(mode) ==
  /\ outcome = "sent"
  /\ LET d == DecodeByProtocol(mode, wire.text)
     IN IF ~d.ok
        THEN outcome' = "decodeFailed" /\ UNCHANGED received
        ELSE /\ received' = d.envelope
             /\ outcome' = IF IsEnvelopeValidForPublish(d.envelope)
                           THEN "decoded" ELSE "invalid"
  /\ UNCHANGED <<case, now, wire, handlers>>

ExpiredByLaterLimit(e, t, max) ==
  LET effective == IF e.ttl = 0 THEN max ELSE Max({e.ttl, max})
  IN effective # 0 /\ t >= e.timestamp /\ t - e.timestamp > effective
IsExpired(e, t, max) ==
  LET effective == IF e.ttl = 0 THEN max ELSE Min({e.ttl, max})
  IN effective # 0 /\ t >= e.timestamp /\ t - e.timestamp > effective

\* The age is checked, then MessageRouter::Route calls the handler that it
\* finds for the topic and catches what the handler throws.  The time that
\* passes between the test of the age and the call is not modelled.
Deliver ==
  /\ outcome = "decoded"
  /\ outcome' = IF IsExpired(received, now, latency) THEN "expired"
                ELSE IF received.topic \notin DOMAIN handlers THEN "noHandler"
                ELSE IF handlers[received.topic] = "throws" THEN "handlerError"
                ELSE "handled"
  /\ UNCHANGED <<case, now, wire, handlers, received>>

Next ==
  \/ Tick \/ Publish \/ Deliver
  \/ \E m \in Modes : Receive(m)
  \/ \E t \in Topics, h \in {"returns", "throws"} : Register(t, h)

Spec == Init /\ [][Next]_vars

-----------------------------------------------------------------------------
(* Properties.                                                             *)

\* Whatever the topic and the payload contain, a message the receiver accepts
\* is the envelope that was published (the deduplication key alone does not
\* travel), whichever modes the two sides use; and the receiver does accept
\* what is sent in the legacy mode.
DeliveredIntact ==
  /\ outcome \in {"decoded", "handled", "handlerError", "noHandler", "expired"}
       => received = [envelope EXCEPT !.key = NoText]
  /\ outcome = "invalid" => wire.mode # "legacy"

\* What Publish accepted, the other side accepts, in every mode: the project's
\* README offers compact with a light-weight decoding, protobuf and cbor as
\* modes of the path, and compact as what the canary falls back to.
ValidAccepted == outcome # "invalid"

\* SelfCheckProtocolCapability tries one harmless envelope, and what it finds
\* is true of every envelope: the text decodes to the same topic, payload and
\* numbers, separators and backslashes included.
SelfCheckRepresentative ==
  /\ outcome # "decodeFailed"
  /\ outcome \notin {"none", "refused", "sent"} =>
       /\ SelfCheckProtocolCapability(wire.mode)
       /\ \A f \in {"topic", "payload", "schema", "channel", "qos", "sequence",
                    "timestamp", "ttl"} : received[f] = envelope[f]

\* The two sides may have different modes (and after a reload one side sends
\* in another mode than the one it has listened with since Start): what a text
\* decodes to does not depend on the receiver's mode, so that the fallback
\* never reads one format as another.
ReceiverModeIrrelevant ==
  wire # NoWire /\ outcome = "sent" =>
    \A m \in Modes : DecodeByProtocol(m, wire.text)
                      = DecodeByProtocol(wire.mode, wire.text)

\* No handler is chosen for a message that is older than its own time to live
\* or than the policy allows when its age is tested; a policy of 0 switches
\* both limits off.
HandledFresh ==
  [][outcome' \in {"handled", "handlerError"} /\ outcome = "decoded" /\ latency > 0 =>
       /\ now - envelope.timestamp <= latency
       /\ envelope.ttl > 0 => now - envelope.timestamp <= envelope.ttl]_vars
=============================================================================
