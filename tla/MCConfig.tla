------------------------------ MODULE MCConfig ------------------------------
(* A small instance of Config: seven configurations around one table, three  *)
(* envelopes with two cache keys, one thread that resolves.                *)
EXTENDS Config

CONSTANT r1

Rule(priority, topic, source, latency) ==
  [FactoryRule EXCEPT !.priority = priority, !.topic = topic,
     !.source = source, !.policy.latency = latency]

Low == Rule(1, "t1", "a", 10)
High == Rule(2, "t1", AnyValue, 20)
Tie == Rule(1, "t1", AnyValue, 30)
Catch == Rule(2, "*", AnyValue, 40)

\* Start(provider) signs this one as the reload does: its default policy has
\* nothing that NormalizePolicyDefaults would replace.
Base ==
  [FactoryConfig EXCEPT
     !.named = TRUE,
     !.table.default.retry.max = 1, !.table.default.drop = "dropNew",
     !.table.rules = <<Low, Tie, High, Catch>>]

\* Everything defaulted, with a canary.
Defaulted ==
  [FactoryConfig EXCEPT !.named = TRUE, !.canary = TRUE,
     !.sla.backpressure = "dropOldest", !.sla.rx = -1]

MCConfigs ==
  {Base,
   \* commits after Base: other sampling, locked, guarded
   [Base EXCEPT !.interval = 0, !.rate = 200, !.table.default.lock = TRUE,
                !.guard = 2],
   \* same signature, but a rule has moved to the next list
   [Base EXCEPT !.table.rules = <<Low, Tie, High>>,
                !.table.overrides = <<Catch>>, !.interval = 7],
   \* refused: other rules and default, risky after a guarded one
   [Base EXCEPT !.table.rules = <<[High EXCEPT !.topic = NoTopic], Catch, Tie>>,
                !.table.default.latency = 5, !.protocol = "compact",
                !.interval = 9],
   \* refused: no workers, no queue
   [Base EXCEPT !.workers = 0], [Base EXCEPT !.capacity = 0],
   Defaulted}

MCInitial == {Base, Defaulted}

Envelope(topic, channel, source) ==
  [topic |-> topic, channel |-> channel, source |-> source, target |-> "b",
   qos |-> "bestEffort"]

MCEnvelopes ==
  {Envelope("t1", "event", "a"), Envelope("t1", "event", "c"),
   Envelope("t2", "control", "a")}
=============================================================================
