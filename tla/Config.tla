------------------------------- MODULE Config -------------------------------
(***************************************************************************)
(* Start, ReloadConfigIfChanged and its rollback, the policy cache and the *)
(* lint report (interconnect_bridge.cpp).                                  *)
(*                                                                         *)
(* One owner thread updates the provider, starts, stops and reloads.       *)
(* Publishers and inbound loops resolve policies and any thread may ask for*)
(* the lint report meanwhile.  A reload has three steps: config_ and the   *)
(* settings are assigned; the index is rebuilt and the caches cleared; the *)
(* result is validated.  A resolution has three: look the key up, read the *)
(* table (without any lock), store.  An assignment of config_ is taken to  *)
(* be one step, although the code does nothing to make it one.             *)
(*                                                                         *)
(* A configuration is a record: workers and capacity (of the thread pool), *)
(* named (both endpoints have names), sla, table, interval and rate (sampling), protocol, guard (the risk     *)
(* guard with its threshold, 0 when off) and canary (a percentage below    *)
(* 100 is set).  The source string of a configuration goes where its       *)
(* version goes.  The trailing refresh of the metrics is in Observe.       *)
(***************************************************************************)
EXTENDS Policy

CONSTANTS
  Configs,      \* what the provider may offer
  Initial,      \* what it offers first, and what the owner may start with
  Envelopes,    \* what is published and received
  Resolvers,    \* threads that resolve policies
  CacheMax,     \* kPolicyCacheMaxEntries
  MaxVersion    \* bound: versions the provider reaches

\* The fields of BridgeConfig, of its policy table and of a policy.
PolicyShaped(p) ==
  p = [latency |-> p.latency, rx |-> p.rx, tx |-> p.tx,
       backpressure |-> p.backpressure, drop |-> p.drop, retry |-> p.retry,
       lock |-> p.lock]
TableShaped(t) ==
  /\ t = [default |-> t.default, templates |-> t.templates, rules |-> t.rules,
          overrides |-> t.overrides, templateIndex |-> t.templateIndex,
          ruleIndex |-> t.ruleIndex, overrideIndex |-> t.overrideIndex]
  /\ PolicyShaped(t.default)
\* A list of rules is a vector, and a priority is unsigned.
RulesTyped(t) ==
  \A l \in {t.templates, t.rules, t.overrides} :
    l \in Seq(Range(l)) /\ \A i \in DOMAIN l : l[i].priority \in Nat
ConfigShaped(c) ==
  /\ c = [workers |-> c.workers, capacity |-> c.capacity, named |-> c.named,
          sla |-> c.sla, table |-> c.table, interval |-> c.interval,
          rate |-> c.rate, protocol |-> c.protocol, guard |-> c.guard,
          canary |-> c.canary]
  /\ PolicyShaped(c.sla) /\ TableShaped(c.table)

ASSUME ConfigAssumption ==
  /\ CacheMax \in Nat \ {0} /\ MaxVersion \in Nat \ {0}
  /\ Initial \subseteq Configs
  /\ \A c \in Configs : /\ ConfigShaped(c) /\ RulesTyped(c.table)
                        /\ {c.workers, c.capacity, c.interval, c.rate} \subseteq Nat

VARIABLES
  published,  \* the provider: what each of its versions contains
  config,     \* config_
  loaded,     \* loaded_config_version_ and last_loaded_signature_
  lkg,        \* last_known_good_config_, _version_ and _signature_
  settings,   \* sampling settings and protocol_mode_, copied out of config_
  running,
  cache,      \* policy_cache_items_, most recent first
  lint,       \* policy_lint_cache_valid_ and policy_lint_report_
  rl,         \* locals of ReloadConfigIfChanged
  rs,         \* locals of each ResolvePolicy
  raced,      \* history: something was cached while config_ was changing
  skew        \* history: Start(provider) was called on a running bridge

boot == <<config, loaded, lkg, settings, running>>
caches == <<cache, lint, raced>>
vars == <<published, config, loaded, lkg, settings, running, cache, lint,
          rl, rs, raced, skew>>

NoSignature == <<>>
FactoryConfig ==
  [workers |-> 2, capacity |-> 64, named |-> FALSE, sla |-> FactoryPolicy,
   table |-> FactoryTable, interval |-> 2000, rate |-> 10,
   protocol |-> "legacy", guard |-> 0, canary |-> FALSE]

Idle == [pc |-> "idle"]

Init ==
  /\ \E c \in Initial : published = <<c>>
  /\ config = FactoryConfig
  /\ loaded = [version |-> 0, signature |-> NoSignature]
  /\ lkg = [config |-> FactoryConfig, version |-> 0, signature |-> NoSignature]
  /\ settings = [interval |-> 2000, rate |-> 10, protocol |-> "legacy"]
  /\ running = FALSE
  /\ cache = <<>>
  /\ lint = [valid |-> FALSE]
  /\ rl = Idle
  /\ rs = [r \in Resolvers |-> Idle]
  /\ raced = FALSE /\ skew = FALSE

Resolving == \E r \in Resolvers : rs[r] # Idle

\* StaticConfigProvider::UpdateConfigForTest.
UpdateConfig(c) ==
  /\ rl = Idle /\ Len(published) < MaxVersion
  /\ published' = Append(published, c)
  /\ UNCHANGED <<boot, caches, rl, rs, skew>>

-----------------------------------------------------------------------------
(* Start and Stop.                                                         *)

\* How sampling is derived from a configuration; 0 selects the default.
Sampling(c) == [interval |-> IF c.interval = 0 THEN 2000 ELSE c.interval,
                rate |-> IF c.rate > 100 THEN 100 ELSE c.rate]

\* What config_ becomes: defaults, templates and index filled in.
Effective(c) ==
  LET n == NormalizePolicyDefaults(c)
  IN [n EXCEPT !.table = Indexed(PopulateDefaultTemplateRules(@))]

\* The end of RebuildPolicyIndex: both caches are emptied.
ClearCaches ==
  /\ cache' = <<>>
  /\ lint' = [valid |-> FALSE]
  /\ raced' = Resolving

Begun(c, l, g, gate) ==
  LET n == NormalizePolicyDefaults(c)
      g1 == IF g.version # 0 THEN g
            ELSE [config |-> n, version |-> l.version,
                  signature |-> ComputePolicySignature(n.table)]
      l1 == IF g.version # 0 THEN l ELSE [l EXCEPT !.signature = g1.signature]
  IN /\ settings' = [interval |-> Sampling(c).interval, rate |-> Sampling(c).rate,
                     protocol |-> c.protocol]
     /\ ClearCaches
     /\ lkg' = g1
     /\ IF c.canary /\ ~gate
        THEN /\ config' = g1.config
             /\ loaded' = [version |-> g1.version, signature |-> g1.signature]
             /\ running' = FALSE
        ELSE /\ config' = Effective(c)
             /\ loaded' = l1
             /\ running' = TRUE

\* Start(config): gate is the canary's lottery.  A start whose transports or
\* pool do not come up (see Bridge) leaves what Start and Stop leave.
StartDirect(c, gate) ==
  /\ rl = Idle /\ ~running
  /\ Begun(c, loaded, lkg, gate)
  /\ skew' = (loaded.version # 0)
  /\ UNCHANGED <<published, rl, rs>>

\* Start(provider) signs the table as it was loaded, before the defaults are
\* filled in; on a running bridge it changes no more than the bookkeeping.
StartProvider(gate) ==
  LET v == Len(published)
      c == published[v]
      s == ComputePolicySignature(c.table)
      l == [version |-> v, signature |-> s]
      g == [config |-> c, version |-> v, signature |-> s]
  IN /\ rl = Idle
     /\ IF running
        THEN /\ loaded' = l /\ lkg' = g
             /\ skew' = TRUE
             /\ UNCHANGED <<config, settings, running, caches>>
        ELSE Begun(c, l, g, gate) /\ skew' = FALSE
     /\ UNCHANGED <<published, rl, rs>>

Stop ==
  /\ rl = Idle /\ running
  /\ running' = FALSE
  /\ UNCHANGED <<published, config, loaded, lkg, settings, caches, rl,
                 rs, skew>>

-----------------------------------------------------------------------------
(* ReloadConfigIfChanged.                                                  *)

RiskScore(next) ==
  Bit(next.table.default.latency # config.table.default.latency)
  + Bit(next.protocol # config.protocol) + Bit(next.workers # config.workers)

Offered == NormalizePolicyDefaults(published[Len(published)])

HighRisk == config.guard > 0 /\ RiskScore(Offered) >= config.guard

\* Calls that end before config_ is touched leave nothing but the reason in
\* the audit record (which decides nothing and is left out): the provider
\* fails, there is nothing new, the change is too risky, or it breaks a lock.
GoesAhead ==
  /\ Len(published) # loaded.version
  /\ ~HighRisk
  /\ LockRespected(config.table, Offered.table)

\* previous_config is saved and config_ overwritten.
ReloadAssign ==
  /\ rl = Idle /\ GoesAhead
  /\ rl' = [pc |-> "index", config |-> config, loaded |-> loaded,
            signature |-> ComputePolicySignature(Offered.table)]
  /\ config' = Offered
  /\ settings' = [settings EXCEPT !.interval = Sampling(Offered).interval,
                                  !.rate = Sampling(Offered).rate]
  /\ raced' = (raced \/ Resolving)
  /\ UNCHANGED <<published, loaded, lkg, running, cache, lint, rs, skew>>

IndexWithoutClearing ==
  /\ rl.pc = "index"
  /\ config' = [config EXCEPT !.table = Indexed(PopulateDefaultTemplateRules(@))]
  /\ rl' = [rl EXCEPT !.pc = "validate"]
  /\ UNCHANGED <<published, loaded, lkg, settings, running, caches, rs,
                 skew>>
\* PopulateDefaultTemplateRules and RebuildPolicyIndex.
ReloadIndex ==
  /\ rl.pc = "index"
  /\ config' = [config EXCEPT !.table = Indexed(PopulateDefaultTemplateRules(@))]
  /\ ClearCaches
  /\ rl' = [rl EXCEPT !.pc = "validate"]
  /\ UNCHANGED <<published, loaded, lkg, settings, running, rs, skew>>

ConfigValid(c) ==
  LET retry == c.table.default.retry
  IN /\ c.workers > 0 /\ c.capacity > 0 /\ c.named
     /\ retry.initial >= 0 /\ retry.cap >= retry.initial

SignatureOk ==
  lkg.signature = NoSignature \/ rl.signature = lkg.signature

RollbackForgetsConfig ==
  /\ rl.pc = "validate" /\ ~(ConfigValid(config) /\ SignatureOk)
  /\ loaded' = rl.loaded
  /\ rl' = Idle
  /\ UNCHANGED <<published, config, lkg, settings, running, caches, rs, skew>>
\* What is restored: config_, the version and the signature.  The settings
\* and the two caches keep what the rejected configuration put there.
ReloadRollback ==
  /\ rl.pc = "validate" /\ ~(ConfigValid(config) /\ SignatureOk)
  /\ config' = rl.config
  /\ loaded' = rl.loaded
  /\ rl' = Idle
  /\ UNCHANGED <<published, lkg, settings, running, caches, rs, skew>>

ReloadCommit ==
  /\ rl.pc = "validate" /\ ConfigValid(config) /\ SignatureOk
  /\ loaded' = [version |-> Len(published), signature |-> rl.signature]
  /\ lkg' = [config |-> config, version |-> Len(published),
             signature |-> rl.signature]
  /\ rl' = Idle
  /\ skew' = FALSE
  /\ UNCHANGED <<published, config, settings, running, caches, rs>>

-----------------------------------------------------------------------------
(* ResolvePolicy and the policy cache.                                     *)

\* PolicyCacheKey: neither source nor target is part of it.
KeyOf(env) == <<env.topic, env.channel, env.qos>>

Position(key) == {i \in DOMAIN cache : cache[i].key = key}

\* splice: an item leaves position i for the front.
Spliced(item, i) == <<item>> \o RemoveAt(cache, i)

\* LookupPolicyCache: a hit moves the entry to the front.
Lookup(r, env) ==
  /\ running /\ rs[r] = Idle
  /\ IF Position(KeyOf(env)) # {}
     THEN /\ \E i \in Position(KeyOf(env)) :
               cache' = Spliced(cache[i], i)
          /\ UNCHANGED rs
     ELSE /\ rs' = [rs EXCEPT ![r] = [pc |-> "resolve", env |-> env]]
          /\ UNCHANGED cache
  /\ UNCHANGED <<published, boot, lint, rl, raced, skew>>

\* ResolvePolicyInternal, without a lock.
Resolve(r) ==
  /\ rs[r] # Idle /\ rs[r].pc = "resolve"
  /\ rs' = [rs EXCEPT ![r] =
              [pc |-> "store", env |-> rs[r].env,
               entry |-> ResolvePolicyInternal(config.table, rs[r].env)]]
  /\ raced' = (raced \/ rl # Idle)
  /\ UNCHANGED <<published, boot, cache, lint, rl, skew>>

StoredWithoutEviction(key, entry) ==
  LET item == [key |-> key, entry |-> entry]
  IN IF Position(key) # {} THEN Spliced(item, Min(Position(key)))
     ELSE <<item>> \o cache
\* StorePolicyCache: to the front; the least recently used entry goes when
\* there is one too many.
Stored(key, entry) ==
  LET item == [key |-> key, entry |-> entry]
  IN IF Position(key) # {} THEN Spliced(item, Min(Position(key)))
     ELSE IF Len(cache) + 1 > CacheMax THEN <<item>> \o Front(cache)
     ELSE <<item>> \o cache

Store(r) ==
  /\ rs[r] # Idle /\ rs[r].pc = "store"
  /\ cache' = Stored(KeyOf(rs[r].env), rs[r].entry)
  /\ rs' = [rs EXCEPT ![r] = Idle]
  /\ UNCHANGED <<published, boot, lint, rl, raced, skew>>

\* GetPolicyLintReport, from any thread.
LintReport ==
  /\ ~lint.valid
  /\ lint' = [valid |-> TRUE, report |-> BuildPolicyLintReport(config.table)]
  /\ raced' = (raced \/ rl # Idle)
  /\ UNCHANGED <<published, boot, cache, rl, rs, skew>>

-----------------------------------------------------------------------------

Owner ==
  \/ \E c \in Configs : UpdateConfig(c)
  \/ \E c \in Initial, gate \in BOOLEAN : StartDirect(c, gate)
  \/ \E gate \in BOOLEAN : StartProvider(gate)
  \/ Stop
  \/ ReloadAssign \/ ReloadIndex \/ ReloadRollback \/ ReloadCommit

Next ==
  \/ Owner \/ LintReport
  \/ \E r \in Resolvers :
       (\E env \in Envelopes : Lookup(r, env)) \/ Resolve(r) \/ Store(r)

Spec == Init /\ [][Next]_vars

-----------------------------------------------------------------------------
(* Properties.                                                             *)

\* The cache holds at most CacheMax entries and no key twice, whatever order
\* lookups, stores and clears of several threads come in.
TypeOK ==
  /\ published \in Seq(Configs) /\ running \in BOOLEAN
  /\ loaded.version \in 0..MaxVersion /\ lkg.version \in 0..MaxVersion
  /\ Len(cache) <= CacheMax
  /\ \A i, j \in DOMAIN cache : cache[i].key = cache[j].key => i = j

\* GetLoadedConfigVersion names the configuration in force between two calls
\* of the owner, after every mixture of starts, canary refusals, commits and
\* rollbacks (a direct start, or Start(provider) on a running bridge, gives
\* the bridge a version and a configuration that do not belong together).
VersionNamesConfig ==
  rl = Idle /\ ~skew /\ loaded.version # 0 =>
    Effective(config) = Effective(published[loaded.version])

\* The best of the rules at the positions of S: the first of the highest
\* priority; two of the highest priority are a conflict.
BestAmong(rules, S) ==
  LET top == {i \in S : \A j \in S : rules[j].priority <= rules[i].priority}
  IN IF top = {} THEN NoMatch
     ELSE [found |-> TRUE, policy |-> rules[Min(top)].policy,
           priority |-> rules[Min(top)].priority,
           conflict |-> Cardinality(top) > 1]

\* found is the best of all rules that match the envelope; only if one of the
\* rules is written for the envelope's own topic may it be the best of those
\* that match without a wildcard topic instead.
BestOrNarrowed(rules, env, found) ==
  LET matching == {i \in DOMAIN rules : RuleMatches(rules[i], env)}
  IN \/ found = BestAmong(rules, matching)
     \/ /\ \E i \in DOMAIN rules : rules[i].topic \in {env.topic} \ Wildcards
        /\ found = BestAmong(rules,
                     {i \in matching : rules[i].topic \notin Wildcards})

\* The loop of FindBestPolicyMatch over the index that RebuildPolicyIndex left
\* answers what a search of the whole list would, in every configuration that
\* gets in force, but for one thing the index does: a rule written for the
\* topic, even one that does not match, hides the wildcard rules of its list.
ResolutionMatchesReference ==
  LET t == config.table
  IN rl = Idle /\ running =>
       \A env \in Envelopes :
         /\ BestOrNarrowed(t.overrides, env,
              FindBestPolicyMatch(t.overrides, t.overrideIndex, env))
         /\ BestOrNarrowed(t.rules, env,
              FindBestPolicyMatch(t.rules, t.ruleIndex, env))
         /\ BestOrNarrowed(t.templates, env,
              FindBestPolicyMatch(t.templates, t.templateIndex, env))

\* The search of the list called name met a conflict: lint has listed a pair
\* of rules of that list that both match the envelope and both have the
\* priority of the rule that was chosen.
Foreseen(name, index, env) ==
  LET rules == Lists(config.table)[name]
      found == FindBestPolicyMatch(rules, index, env)
  IN found.conflict =>
       \E c \in CollectPolicyConflicts(config.table) :
         /\ c[1] = name
         /\ \A i \in {c[2], c[3]} : /\ RuleMatches(rules[i], env)
                                    /\ rules[i].priority = found.priority

\* Whenever a publisher runs into a conflict between two rules of a list, lint
\* reports those two rules, and the two scans of lint count the same issues.
ConflictsAreLinted ==
  LET t == config.table
      report == BuildPolicyLintReport(t)
      counts == GetPolicyLintCounts(t)
      empty == Cardinality({k \in DOMAIN Lists(t) : Lists(t)[k] = <<>>})
  IN /\ \A env \in Envelopes : /\ Foreseen("overrides", t.overrideIndex, env)
                               /\ Foreseen("rules", t.ruleIndex, env)
                               /\ Foreseen("template", t.templateIndex, env)
     /\ Cardinality(report.issues) + Cardinality(report.conflicts)
          = counts.issues
     /\ Cardinality(report.warnings) = counts.warnings + empty

\* A cached policy is one the table in force gives for some envelope with
\* that key, and a cached lint report is that of the table in force: a change
\* of the configuration leaves nothing behind, unless a thread filled a cache
\* while the change was under way.
CachesCurrent ==
  rl = Idle /\ ~Resolving /\ ~raced =>
    /\ \A i \in DOMAIN cache : \E env \in Envelopes :
         /\ KeyOf(env) = cache[i].key
         /\ cache[i].entry = ResolvePolicyInternal(config.table, env)
    /\ lint.valid => lint.report = BuildPolicyLintReport(config.table)

\* After a refused reload the previous configuration is in force: between two
\* calls the sampling settings are those of config_.
SettingsFollowConfig ==
  rl = Idle /\ running =>
    /\ settings.interval = Sampling(config).interval
    /\ settings.rate = Sampling(config).rate
=============================================================================
