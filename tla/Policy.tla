------------------------------- MODULE Policy -------------------------------
(***************************************************************************)
(* Policy rules of the bridge: matching, the topic index, the choice among *)
(* the three rule lists, lint, the signature and the defaults              *)
(* (interconnect_bridge.cpp, bridge_policy.hpp, policy_manager.cpp).       *)
(*                                                                         *)
(* A rule field with its match_any flag set is AnyValue.  The 64-bit signature  *)
(* is the sequence of values that are hashed, in that order: two tables    *)
(* that differ in it are taken to differ in the hash.                      *)
(***************************************************************************)
EXTENDS Integers, FiniteSetsExt, SequencesExt

AnyValue == "any"
NoTopic == ""
Wildcards == {NoTopic, "*"}

Channels == {"control", "telemetry", "event"}

\* BridgeSlaPolicy and RetryBudget as default-constructed.
FactoryRetry == [max |-> 0, initial |-> 10, cap |-> 200]
FactoryPolicy ==
  [latency |-> 100, rx |-> 50, tx |-> 50, backpressure |-> "reject",
   drop |-> "none", retry |-> FactoryRetry, lock |-> FALSE]

\* PolicyRule as default-constructed.
FactoryRule ==
  [priority |-> 0, channel |-> AnyValue, source |-> AnyValue, target |-> AnyValue,
   qos |-> AnyValue, topic |-> NoTopic, policy |-> FactoryPolicy]

\* BridgePolicyTable: three lists of rules, each with its index by topic.
NoIndex == [t \in {} |-> <<>>]
FactoryTable ==
  [default |-> FactoryPolicy,
   templates |-> <<>>, rules |-> <<>>, overrides |-> <<>>,
   templateIndex |-> NoIndex, ruleIndex |-> NoIndex, overrideIndex |-> NoIndex]

-----------------------------------------------------------------------------
(* Matching and the index.                                                 *)

Accepts(field, value) == field = AnyValue \/ field = value

\* RuleMatches(rule, envelope).
RuleMatches(rule, env) ==
  /\ Accepts(rule.channel, env.channel)
  /\ Accepts(rule.source, env.source)
  /\ Accepts(rule.target, env.target)
  /\ Accepts(rule.qos, env.qos)
  /\ rule.topic \in Wildcards \/ rule.topic = env.topic

Compatible(a, b) == a = AnyValue \/ b = AnyValue \/ a = b

OverlapWithoutWildcards(left, right) ==
  /\ \A f \in {"channel", "source", "target", "qos"} :
       Compatible(left[f], right[f])
  /\ left.topic = right.topic
\* RuleMatches(left, right): some envelope may match both rules.
RulesOverlap(left, right) ==
  /\ \A f \in {"channel", "source", "target", "qos"} :
       Compatible(left[f], right[f])
  /\ \/ left.topic \in Wildcards \/ right.topic \in Wildcards
     \/ left.topic = right.topic

\* index_rules: the positions of the rules of each topic, wildcards left out.
\* They are pushed in ascending order, so that a set stands for the vector.
TopicIndex(rules) ==
  [t \in {rules[i].topic : i \in DOMAIN rules} \ Wildcards |->
     {i \in DOMAIN rules : rules[i].topic = t}]

\* RebuildPolicyIndex, the part that concerns the table.
Indexed(table) ==
  [table EXCEPT !.templateIndex = TopicIndex(table.templates),
                !.ruleIndex = TopicIndex(table.rules),
                !.overrideIndex = TopicIndex(table.overrides)]

ControlTemplate ==
  [FactoryRule EXCEPT !.priority = 10, !.channel = "control", !.topic = "*",
     !.policy = [FactoryPolicy EXCEPT !.latency = 50, !.drop = "dropOldest",
                                      !.backpressure = "dropOldest"]]
TelemetryTemplate ==
  [FactoryRule EXCEPT !.priority = 5, !.channel = "telemetry", !.topic = "*",
     !.policy = [FactoryPolicy EXCEPT !.latency = 150]]

PopulateDefaultTemplateRules(table) ==
  IF table.templates # <<>> THEN table
  ELSE [table EXCEPT !.templates = <<ControlTemplate, TelemetryTemplate>>]

-----------------------------------------------------------------------------
(* Resolution.                                                             *)

NoMatch == [found |-> FALSE, policy |-> FactoryPolicy, priority |-> 0,
            conflict |-> FALSE]

\* The loop looks at the rules of the envelope's topic when there are any,
\* and at all rules otherwise.
Candidates(rules, index, topic) ==
  IF topic \in DOMAIN index THEN index[topic] ELSE DOMAIN rules

ConsiderKeepsConflict(best, rule) ==
  IF ~best.found \/ rule.priority > best.priority
  THEN [best EXCEPT !.found = TRUE, !.policy = rule.policy,
                    !.priority = rule.priority]
  ELSE [best EXCEPT !.conflict = @ \/ rule.priority = best.priority]
\* One turn of the loop: a higher priority wins, an equal one is a conflict.
Consider(best, rule) ==
  IF ~best.found \/ rule.priority > best.priority
  THEN [found |-> TRUE, policy |-> rule.policy, priority |-> rule.priority,
        conflict |-> FALSE]
  ELSE [best EXCEPT !.conflict = @ \/ rule.priority = best.priority]

\* best[n] is what the loop holds when it has passed position n.
FindBestPolicyMatch(rules, index, env) ==
  LET candidates == Candidates(rules, index, env.topic)
      best[n \in 0..Len(rules)] ==
        IF n = 0 THEN NoMatch
        ELSE IF n \in candidates /\ RuleMatches(rules[n], env)
             THEN Consider(best[n - 1], rules[n]) ELSE best[n - 1]
  IN best[Len(rules)]

\* Overrides go before rules, rules before templates, templates before the
\* default; a layer that wins with a lower priority is a conflict as well.
ResolvePolicyInternal(table, env) ==
  LET o == FindBestPolicyMatch(table.overrides, table.overrideIndex, env)
      r == FindBestPolicyMatch(table.rules, table.ruleIndex, env)
      t == FindBestPolicyMatch(table.templates, table.templateIndex, env)
      Outranked(a, b) == a.found /\ b.found /\ a.priority < b.priority
  IN [policy |-> CASE o.found -> o.policy
                   [] ~o.found /\ r.found -> r.policy
                   [] ~o.found /\ ~r.found /\ t.found -> t.policy
                   [] OTHER -> table.default,
      override |-> o.found,
      conflict |-> \/ o.conflict \/ r.conflict \/ t.conflict
                   \/ Outranked(o, r) \/ Outranked(o, t) \/ Outranked(r, t)]

-----------------------------------------------------------------------------
(* Lint.                                                                   *)

BadTimeout(p) == p.rx < 0 \/ p.tx < 0
BadRetry(p) == p.retry.max < 0 \/ p.retry.initial < 0
               \/ p.retry.cap < p.retry.initial
OddDrop(p) == p.drop = "dropOldest" /\ p.backpressure # "dropOldest"

Lists(table) == [template |-> table.templates, rules |-> table.rules,
                 overrides |-> table.overrides]

\* Pairs of rules of one list that have the same priority and overlap.
CollectPolicyConflicts(table) ==
  LET l == Lists(table)
      Clashing(k) == {p \in (DOMAIN l[k]) \X (DOMAIN l[k]) :
                        /\ p[1] < p[2]
                        /\ l[k][p[1]].priority = l[k][p[2]].priority
                        /\ RulesOverlap(l[k][p[1]], l[k][p[2]])}
  IN UNION {{<<k, p[1], p[2]>> : p \in Clashing(k)} : k \in DOMAIN l}

\* What is wrong with a policy, and with a rule.
If(test, complaint) == IF test THEN {complaint} ELSE {}
PolicyIssues(p) == If(BadTimeout(p), "timeout") \cup If(BadRetry(p), "retry")
RuleIssues(rule) == PolicyIssues(rule.policy) \cup If(rule.topic = NoTopic, "topic")

\* collect_issues, for the list called name: complaints as <<list, position,
\* complaint>>.
ListIssues(name, rules) ==
  {c \in {name} \X (DOMAIN rules) \X {"timeout", "retry", "topic"} :
     c[3] \in RuleIssues(rules[c[2]])}
ListWarnings(name, rules) ==
  If(rules = <<>>, <<name, 0, "empty">>)
  \cup {<<name, i, "drop">> : i \in {j \in DOMAIN rules : OddDrop(rules[j].policy)}}

\* The default policy is at position 0 of the list called default.
BuildPolicyLintReport(table) ==
  LET l == Lists(table)
  IN [issues |->
        {<<"default", 0, c>> : c \in PolicyIssues(table.default)}
        \cup UNION {ListIssues(k, l[k]) : k \in DOMAIN l},
      conflicts |-> CollectPolicyConflicts(table),
      warnings |->
        If(OddDrop(table.default), <<"default", 0, "drop">>)
        \cup UNION {ListWarnings(k, l[k]) : k \in DOMAIN l}]

Bit(b) == IF b THEN 1 ELSE 0

\* scan_rules: the two counters after the first n rules.
ScanRules(rules) ==
  LET counted[n \in 0..Len(rules)] ==
        IF n = 0 THEN [issues |-> 0, warnings |-> 0]
        ELSE LET so == counted[n - 1]
                 p == rules[n].policy
             IN [issues |-> so.issues + Bit(rules[n].topic = NoTopic)
                            + Bit(BadTimeout(p)) + Bit(BadRetry(p)),
                 warnings |-> so.warnings + Bit(OddDrop(p))]
  IN counted[Len(rules)]

\* GetPolicyLintCounts: the same complaints, counted by a second scan.
GetPolicyLintCounts(table) ==
  LET d == table.default
      t == ScanRules(table.templates)
      r == ScanRules(table.rules)
      o == ScanRules(table.overrides)
  IN [issues |-> Bit(BadTimeout(d)) + Bit(BadRetry(d))
                 + t.issues + r.issues + o.issues
                 + Cardinality(CollectPolicyConflicts(table)),
      warnings |-> Bit(OddDrop(d)) + t.warnings + r.warnings + o.warnings]

-----------------------------------------------------------------------------
(* Signature and defaults.                                                 *)

Hashed(p) == <<p.latency, p.rx, p.tx, p.backpressure, p.drop, p.retry>>

\* The lock is not hashed, nor where one list ends and the next begins.
ComputePolicySignature(table) ==
  LET rules == table.templates \o table.rules \o table.overrides
  IN <<Hashed(table.default)>>
     \o [i \in DOMAIN rules |->
           <<rules[i].priority, rules[i].channel, rules[i].source,
             rules[i].target, rules[i].qos, rules[i].topic>>
           \o Hashed(rules[i].policy)]

\* should_preserve_locked_policy.
LockRespected(current, next) ==
  current.default.lock => Hashed(current.default) = Hashed(next.default)

LooksUntouched(table) ==
  /\ table.rules = <<>>
  /\ table.default.latency = 100
  /\ table.default.rx = 50 /\ table.default.tx = 50
  /\ table.default.backpressure = "reject"

NormalizePolicyDefaults(cfg) ==
  LET d0 == IF LooksUntouched(cfg.table) THEN cfg.sla ELSE cfg.table.default
      d1 == IF d0.retry.max <= 0 THEN [d0 EXCEPT !.retry = cfg.sla.retry] ELSE d0
      d2 == IF d1.drop = "none" THEN [d1 EXCEPT !.drop = cfg.sla.drop] ELSE d1
      d3 == IF d2.drop = "none" /\ d2.backpressure = "dropOldest"
            THEN [d2 EXCEPT !.drop = "dropOldest"] ELSE d2
  IN [cfg EXCEPT !.table.default = d3]
=============================================================================
