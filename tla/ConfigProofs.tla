---------------------------- MODULE ConfigProofs ----------------------------
(***************************************************************************)
(* Proofs about configuration and policy cache, for any set of             *)
(* configurations, any number of resolving threads and any cache limit.    *)
(*                                                                         *)
(* Shape is the inductive invariant behind TypeOK: what the caches, the    *)
(* book of versions, a reload under way and a resolving thread look like.  *)
(* Named says, for each stage of a reload and for the last known good      *)
(* configuration, which version the configuration at hand belongs to, and  *)
(* Current says the same of what threads have resolved and the caches      *)
(* hold.                                                                   *)
(*                                                                         *)
(* What the pure functions of Policy compute is proved for every table     *)
(* whose rules are typed: the search through the index chooses a rule of   *)
(* the highest priority (Chooses), so that Resolve agrees with a reference *)
(* that has neither loop nor index, and lint counts what it lists.         *)
(***************************************************************************)
EXTENDS Config, DataProofs

-----------------------------------------------------------------------------
(* Defaults, templates and index: filling them in twice is filling them in *)
(* once.                                                                   *)

\* What NormalizePolicyDefaults does to a default policy.
Filled(d0, sla) ==
  LET d1 == IF d0.retry.max <= 0 THEN [d0 EXCEPT !.retry = sla.retry] ELSE d0
      d2 == IF d1.drop = "none" THEN [d1 EXCEPT !.drop = sla.drop] ELSE d1
  IN IF d2.drop = "none" /\ d2.backpressure = "dropOldest"
     THEN [d2 EXCEPT !.drop = "dropOldest"] ELSE d2

Chosen(c) == IF LooksUntouched(c.table) THEN c.sla ELSE c.table.default

\* Templates and index.
Completed(n) == [n EXCEPT !.table = Indexed(PopulateDefaultTemplateRules(@))]

\* A policy with another retry budget and another drop policy.
WithRetryAndDrop(p, r, o) ==
  [latency |-> p.latency, rx |-> p.rx, tx |-> p.tx, backpressure |-> p.backpressure,
   drop |-> o, retry |-> r, lock |-> p.lock]

\* The fields of such a policy, and how two of them are replaced.
LEMMA PolicyFields ==
  ASSUME NEW p, NEW r, NEW o
  PROVE  LET w == WithRetryAndDrop(p, r, o)
         IN  /\ PolicyShaped(w)
             /\ w.latency = p.latency /\ w.rx = p.rx /\ w.tx = p.tx
             /\ w.backpressure = p.backpressure /\ w.retry = r /\ w.drop = o
             /\ \A a : [w EXCEPT !.retry = a] = WithRetryAndDrop(p, a, o)
             /\ \A a : [w EXCEPT !.drop = a] = WithRetryAndDrop(p, r, a)
BY DEF WithRetryAndDrop, PolicyShaped

\* Filling in changes the retry budget and the drop policy only, and once.
LEMMA FilledTwice ==
  ASSUME NEW d, NEW sla, PolicyShaped(d), PolicyShaped(sla)
  PROVE  LET f == Filled(d, sla)
         IN  /\ PolicyShaped(f)
             /\ f.latency = d.latency /\ f.rx = d.rx /\ f.tx = d.tx
             /\ f.backpressure = d.backpressure
             /\ Filled(f, sla) = f
<1> DEFINE r == IF d.retry.max <= 0 THEN sla.retry ELSE d.retry
           x == IF d.drop = "none" THEN sla.drop ELSE d.drop
           o == IF x = "none" /\ d.backpressure = "dropOldest" THEN "dropOldest" ELSE x
<1>1. Filled(d, sla) = WithRetryAndDrop(d, r, o)
  <2> DEFINE d1 == IF d.retry.max <= 0 THEN [d EXCEPT !.retry = sla.retry] ELSE d
             d2 == IF d1.drop = "none" THEN [d1 EXCEPT !.drop = sla.drop] ELSE d1
             d3 == IF d2.drop = "none" /\ d2.backpressure = "dropOldest"
                   THEN [d2 EXCEPT !.drop = "dropOldest"] ELSE d2
  <2>1. d = WithRetryAndDrop(d, d.retry, d.drop)
    BY DEF PolicyShaped, WithRetryAndDrop
  <2>2. d1 = WithRetryAndDrop(d, r, d.drop)
    BY <2>1, PolicyFields
  <2> HIDE DEF d1, r
  <2>3. d1.drop = d.drop /\ d1.backpressure = d.backpressure
    BY <2>2, PolicyFields
  <2>4. d2 = WithRetryAndDrop(d, r, x)
    BY <2>2, <2>3, PolicyFields
  <2> HIDE DEF d2, x
  <2>5. d2.drop = x /\ d2.backpressure = d.backpressure
    BY <2>4, PolicyFields
  <2>6. d3 = WithRetryAndDrop(d, r, o)
    BY <2>4, <2>5, PolicyFields
  <2>7. QED
    BY <2>6 DEF Filled, d1, d2, d3
<1>2. PICK f : f = Filled(d, sla) /\ f = WithRetryAndDrop(d, r, o)
  BY <1>1
<1>3. PolicyShaped(f)
  BY <1>2, PolicyFields
<1>4. /\ f.latency = d.latency /\ f.rx = d.rx /\ f.tx = d.tx
      /\ f.backpressure = d.backpressure /\ f.retry = r /\ f.drop = o
  BY <1>2, PolicyFields
<1>5. [f EXCEPT !.retry = r] = f /\ [f EXCEPT !.drop = o] = f
  BY <1>2, PolicyFields
<1>6. f.retry.max <= 0 => sla.retry = r
  BY <1>4
<1>7. f.drop = "none" => sla.drop = o /\ f.backpressure # "dropOldest"
  BY <1>4
<1> HIDE DEF r, o
<1>8. Filled(f, sla) = f
  BY <1>4, <1>5, <1>6, <1>7 DEF Filled
<1>9. QED
  BY <1>2, <1>3, <1>4, <1>8

\* Field by field, what the defaults do to a configuration.
LEMMA NormalizedFields ==
  ASSUME NEW c, ConfigShaped(c)
  PROVE  LET n == NormalizePolicyDefaults(c)
         IN  /\ ConfigShaped(n)
             /\ n = [c EXCEPT !.table = [@ EXCEPT !.default = Filled(Chosen(c), c.sla)]]
             /\ n.sla = c.sla /\ n.table.rules = c.table.rules
             /\ n.table.templates = c.table.templates
             /\ n.table.overrides = c.table.overrides
             /\ n.table.default = Filled(Chosen(c), c.sla)
<1>1. PolicyShaped(Chosen(c)) /\ PolicyShaped(c.sla)
  BY DEF ConfigShaped, TableShaped, Chosen
<1>2. PICK d : d = Filled(Chosen(c), c.sla) /\ PolicyShaped(d)
  BY <1>1, FilledTwice
<1>3. NormalizePolicyDefaults(c) = [c EXCEPT !.table.default = d]
  BY <1>2, Zenon DEF NormalizePolicyDefaults, Filled, Chosen
<1>4. PICK t : t = [c.table EXCEPT !.default = d] /\ TableShaped(t)
               /\ t.rules = c.table.rules /\ t.default = d
               /\ t.templates = c.table.templates /\ t.overrides = c.table.overrides
  <2>1. c.table = [default |-> c.table.default, templates |-> c.table.templates, rules |-> c.table.rules,
          overrides |-> c.table.overrides, templateIndex |-> c.table.templateIndex,
          ruleIndex |-> c.table.ruleIndex, overrideIndex |-> c.table.overrideIndex]
    BY DEF ConfigShaped, TableShaped
  <2>2. [c.table EXCEPT !.default = d] =
          [default |-> d, templates |-> c.table.templates, rules |-> c.table.rules,
           overrides |-> c.table.overrides, templateIndex |-> c.table.templateIndex,
           ruleIndex |-> c.table.ruleIndex, overrideIndex |-> c.table.overrideIndex]
    BY <2>1
  <2>3. QED
    BY <1>2, <2>2 DEF TableShaped
<1>5. PICK n : n = [c EXCEPT !.table = t] /\ NormalizePolicyDefaults(c) = n
  BY <1>3, <1>4 DEF ConfigShaped
<1>6. n.table = t /\ n.sla = c.sla /\ ConfigShaped(n)
  BY <1>4, <1>5 DEF ConfigShaped
<1>7. QED
  BY <1>2, <1>4, <1>5, <1>6, Zenon

\* A configuration whose default policy is already filled in is left alone,
\* whatever its templates and its index.
LEMMA NormalizedAlready ==
  ASSUME NEW c, NEW m, ConfigShaped(c), ConfigShaped(m),
         m.sla = c.sla, m.table.rules = c.table.rules,
         m.table.default = Filled(Chosen(c), c.sla)
  PROVE  NormalizePolicyDefaults(m) = m
<1>1. PolicyShaped(Chosen(c)) /\ PolicyShaped(c.sla)
  BY DEF ConfigShaped, TableShaped, Chosen
<1>2. PICK d : /\ d = Filled(Chosen(c), c.sla) /\ Filled(d, c.sla) = d
               /\ d.latency = Chosen(c).latency /\ d.rx = Chosen(c).rx /\ d.tx = Chosen(c).tx
               /\ d.backpressure = Chosen(c).backpressure
  BY <1>1, FilledTwice
<1>3. Filled(Chosen(m), c.sla) = d
  <2>1. CASE LooksUntouched(c.table)
    <3>1. d = Filled(c.sla, c.sla)
      BY <1>2, <2>1 DEF Chosen
    <3>2. Chosen(m) = c.sla \/ Chosen(m) = d
      BY <1>2 DEF Chosen
    <3>3. QED
      BY <1>2, <3>1, <3>2
  <2>2. CASE ~LooksUntouched(c.table)
    <3>1. Chosen(c) = c.table.default
      BY <2>2 DEF Chosen
    <3>2. ~LooksUntouched(m.table)
      BY <1>2, <2>2, <3>1 DEF LooksUntouched
    <3>3. Chosen(m) = d
      BY <1>2, <3>2 DEF Chosen
    <3>4. QED
      BY <1>2, <3>3
  <2>3. QED
    BY <2>1, <2>2
<1>4. NormalizePolicyDefaults(m) = [m EXCEPT !.table = [@ EXCEPT !.default = d]]
  BY <1>3, NormalizedFields
<1>5. [m.table EXCEPT !.default = d] = m.table
  <2>1. m.table.default = d /\ TableShaped(m.table)
    BY <1>2 DEF ConfigShaped
  <2>2. QED
    BY <2>1 DEF TableShaped
<1>6. [m EXCEPT !.table = m.table] = m
  BY DEF ConfigShaped
<1>7. QED
  BY <1>4, <1>5, <1>6

\* The index of each list is the one of its rules.
IndexBuilt(t) ==
  /\ t.templateIndex = TopicIndex(t.templates)
  /\ t.ruleIndex = TopicIndex(t.rules)
  /\ t.overrideIndex = TopicIndex(t.overrides)

\* The shape of a completed table: templates are there, indexes are built.
LEMMA CompletedTable ==
  ASSUME NEW t, TableShaped(t)
  PROVE  LET u == Indexed(PopulateDefaultTemplateRules(t))
         IN  /\ TableShaped(u) /\ u.default = t.default /\ u.rules = t.rules
             /\ u.overrides = t.overrides /\ u.templates # <<>>
             /\ u.templates \in {t.templates, <<ControlTemplate, TelemetryTemplate>>}
             /\ IndexBuilt(u)
             /\ Indexed(PopulateDefaultTemplateRules(u)) = u
<1>1. PICK p : /\ p = PopulateDefaultTemplateRules(t) /\ p.templates # <<>>
               /\ p.templates \in {t.templates, <<ControlTemplate, TelemetryTemplate>>}
               /\ p = [default |-> t.default, templates |-> p.templates, rules |-> t.rules,
                       overrides |-> t.overrides, templateIndex |-> t.templateIndex,
                       ruleIndex |-> t.ruleIndex, overrideIndex |-> t.overrideIndex]
  <2>1. CASE t.templates # <<>>
    BY <2>1 DEF PopulateDefaultTemplateRules, TableShaped
  <2>2. CASE t.templates = <<>>
    <3>1. PopulateDefaultTemplateRules(t) = [t EXCEPT !.templates = <<ControlTemplate, TelemetryTemplate>>]
      BY <2>2 DEF PopulateDefaultTemplateRules
    <3>2. [t EXCEPT !.templates = <<ControlTemplate, TelemetryTemplate>>] =
            [default |-> t.default, templates |-> <<ControlTemplate, TelemetryTemplate>>,
             rules |-> t.rules, overrides |-> t.overrides, templateIndex |-> t.templateIndex,
             ruleIndex |-> t.ruleIndex, overrideIndex |-> t.overrideIndex]
      BY DEF TableShaped
    <3>3. <<ControlTemplate, TelemetryTemplate>> # <<>>
      OBVIOUS
    <3>4. QED
      BY <3>1, <3>2, <3>3
  <2>3. QED
    BY <2>1, <2>2
<1>2. PICK u : /\ u = Indexed(p)
               /\ u = [default |-> t.default, templates |-> p.templates, rules |-> t.rules,
                       overrides |-> t.overrides, templateIndex |-> TopicIndex(p.templates),
                       ruleIndex |-> TopicIndex(t.rules), overrideIndex |-> TopicIndex(t.overrides)]
  <2>1. p.rules = t.rules /\ p.overrides = t.overrides
    BY <1>1
  <2>2. PICK i, j, k : /\ i = TopicIndex(p.templates) /\ j = TopicIndex(t.rules)
                       /\ k = TopicIndex(t.overrides)
    OBVIOUS
  <2>3. Indexed(p) = [p EXCEPT !.templateIndex = i, !.ruleIndex = j, !.overrideIndex = k]
    BY <2>1, <2>2 DEF Indexed
  <2>4. [p EXCEPT !.templateIndex = i, !.ruleIndex = j, !.overrideIndex = k] =
          [default |-> t.default, templates |-> p.templates, rules |-> t.rules,
           overrides |-> t.overrides, templateIndex |-> i, ruleIndex |-> j, overrideIndex |-> k]
    <3>1. PICK p1 : p1 = [p EXCEPT !.templateIndex = i]
      OBVIOUS
    <3>2. p1 = [default |-> t.default, templates |-> p.templates, rules |-> t.rules,
             overrides |-> t.overrides, templateIndex |-> i,
             ruleIndex |-> t.ruleIndex, overrideIndex |-> t.overrideIndex]
      BY <1>1, <3>1
    <3>3. PICK p2 : p2 = [p1 EXCEPT !.ruleIndex = j]
      OBVIOUS
    <3>4. p2 = [default |-> t.default, templates |-> p.templates, rules |-> t.rules,
             overrides |-> t.overrides, templateIndex |-> i,
             ruleIndex |-> j, overrideIndex |-> t.overrideIndex]
      BY <3>2, <3>3
    <3>5. [p2 EXCEPT !.overrideIndex = k] =
            [default |-> t.default, templates |-> p.templates, rules |-> t.rules,
             overrides |-> t.overrides, templateIndex |-> i,
             ruleIndex |-> j, overrideIndex |-> k]
      BY <3>4
    <3>6. [p EXCEPT !.templateIndex = i, !.ruleIndex = j, !.overrideIndex = k]
            = [p2 EXCEPT !.overrideIndex = k]
      BY <3>1, <3>3, Zenon
    <3>7. QED
      BY <3>5, <3>6
  <2>5. QED
    BY <2>2, <2>3, <2>4
<1>3. /\ u.default = t.default /\ u.rules = t.rules /\ u.templates = p.templates
      /\ u.overrides = t.overrides
      /\ u.templateIndex = TopicIndex(u.templates)
      /\ u.ruleIndex = TopicIndex(u.rules) /\ u.overrideIndex = TopicIndex(u.overrides)
  BY <1>2
<1>4. TableShaped(u)
  BY <1>2, <1>3 DEF TableShaped
<1>5. PopulateDefaultTemplateRules(u) = u
  BY <1>1, <1>3 DEF PopulateDefaultTemplateRules
<1>6. Indexed(u) = u
  BY <1>3, <1>4 DEF Indexed, TableShaped
<1>7. IndexBuilt(u)
  BY <1>3 DEF IndexBuilt
<1>8. QED
  BY <1>1, <1>2, <1>3, <1>4, <1>5, <1>6, <1>7

\* Normalizing, or filling everything in, before filling everything in makes
\* no difference.
LEMMA EffectiveTwice ==
  ASSUME NEW c, ConfigShaped(c)
  PROVE  /\ Effective(NormalizePolicyDefaults(c)) = Effective(c)
         /\ Effective(Effective(c)) = Effective(c)
         /\ Effective(c) = Completed(NormalizePolicyDefaults(c))
<1>1. PICK n : /\ n = NormalizePolicyDefaults(c) /\ ConfigShaped(n)
               /\ n.sla = c.sla /\ n.table.rules = c.table.rules
               /\ n.table.default = Filled(Chosen(c), c.sla)
  BY NormalizedFields
<1>2. NormalizePolicyDefaults(n) = n
  BY <1>1, NormalizedAlready
<1>3. Effective(c) = Completed(n) /\ Effective(n) = Completed(n)
  BY <1>1, <1>2 DEF Effective, Completed
<1>4. PICK u : /\ u = Indexed(PopulateDefaultTemplateRules(n.table)) /\ TableShaped(u)
               /\ u.default = n.table.default /\ u.rules = n.table.rules
               /\ Indexed(PopulateDefaultTemplateRules(u)) = u
  <2>1. TableShaped(n.table)
    BY <1>1 DEF ConfigShaped
  <2>2. QED
    BY <2>1, CompletedTable
<1>5. PICK m : m = Completed(n) /\ m = [n EXCEPT !.table = u]
  BY <1>4 DEF Completed
<1>6. m.table = u /\ m.sla = n.sla /\ ConfigShaped(m)
  BY <1>1, <1>4, <1>5 DEF ConfigShaped
<1>7. NormalizePolicyDefaults(m) = m
  BY <1>1, <1>4, <1>6, NormalizedAlready
<1>8. [m EXCEPT !.table = u] = m
  BY <1>6 DEF ConfigShaped
<1>9. Completed(m) = m
  BY <1>4, <1>6, <1>8 DEF Completed
<1>10. Effective(m) = m
  BY <1>7, <1>9 DEF Effective, Completed
<1>11. QED
  BY <1>1, <1>3, <1>5, <1>10

-----------------------------------------------------------------------------
(* The policy cache as a list.                                             *)

\* An item goes from position i, or from outside, to the front: position j of
\* the result holds what was in position Origin(i, j).
Origin(i, j) == IF j <= i THEN j - 1 ELSE j

\* An item in front of a list.
LEMMA InFront ==
  ASSUME NEW S, NEW s \in Seq(S), NEW x \in S
  PROVE  LET t == <<x>> \o s
         IN  /\ t \in Seq(S) /\ Len(t) = Len(s) + 1 /\ t[1] = x
             /\ \A j \in 2 .. Len(s) + 1 : t[j] = s[j - 1]
OBVIOUS

\* The list after splice(begin, list, i), with x for the item.
LEMMA SpliceProperties ==
  ASSUME NEW S, NEW s \in Seq(S), NEW i \in 1 .. Len(s), NEW x \in S
  PROVE  LET t == <<x>> \o RemoveAt(s, i)
         IN  /\ t \in Seq(S) /\ Len(t) = Len(s) /\ t[1] = x
             /\ \A j \in 2 .. Len(s) : t[j] = s[Origin(i, j)]
<1>1. PICK n \in Nat : n = Len(s) /\ i \in 1 .. n
  BY LenProperties
<1>2. PICK a : a = SubSeq(s, 1, i - 1)
  OBVIOUS
<1>3. PICK b : b = SubSeq(s, i + 1, n)
  OBVIOUS
<1>4. \A j \in 1 .. n : s[j] \in S
  BY <1>1
<1>5. a \in Seq(S) /\ Len(a) = i - 1 /\ \A j \in 1 .. i - 1 : a[j] = s[j]
  <2>1. \A j \in 1 .. i - 1 : s[j] \in S
    BY <1>1, <1>4
  <2>2. 1 \in Int /\ i - 1 \in Int
    BY <1>1
  <2>3. /\ a \in Seq(S) /\ Len(a) = IF 1 <= i - 1 THEN (i - 1) - 1 + 1 ELSE 0
        /\ \A j \in 1 .. (i - 1) - 1 + 1 : a[j] = s[1 + j - 1]
    BY <1>2, <2>1, <2>2, SubSeqProperties
  <2>4. QED
    BY <1>1, <2>3
<1>6. b \in Seq(S) /\ Len(b) = n - i /\ \A j \in 1 .. n - i : b[j] = s[i + j]
  <2>1. \A j \in i + 1 .. n : s[j] \in S
    BY <1>1, <1>4
  <2>2. i + 1 \in Int /\ n \in Int
    BY <1>1
  <2>3. /\ b \in Seq(S) /\ Len(b) = IF i + 1 <= n THEN n - (i + 1) + 1 ELSE 0
        /\ \A j \in 1 .. n - (i + 1) + 1 : b[j] = s[(i + 1) + j - 1]
    BY <1>3, <2>1, <2>2, SubSeqProperties
  <2>4. QED
    BY <1>1, <2>3
<1>7. PICK c : c = a \o b
  OBVIOUS
<1>8. /\ c \in Seq(S) /\ Len(c) = n - 1
      /\ \A j \in 1 .. n - 1 : c[j] = IF j <= i - 1 THEN s[j] ELSE s[j + 1]
  <2>1. c \in Seq(S) /\ Len(c) = n - 1
    <3>1. c \in Seq(S) /\ Len(c) = Len(a) + Len(b)
      BY <1>5, <1>6, <1>7, ConcatProperties
    <3>2. QED
      BY <1>1, <1>5, <1>6, <3>1
  <2>2. ASSUME NEW j \in 1 .. n - 1 PROVE c[j] = IF j <= i - 1 THEN s[j] ELSE s[j + 1]
    <3>1. CASE j <= i - 1
      <4>1. j \in 1 .. i - 1
        BY <1>1, <3>1
      <4>2. QED
        BY <1>5, <1>6, <1>7, <3>1, <4>1, ConcatProperties
    <3>2. CASE ~(j <= i - 1)
      <4>1. j - (i - 1) \in 1 .. n - i /\ i + (j - (i - 1)) = j + 1 /\ j > Len(a) /\ j <= Len(a) + Len(b)
        BY <1>1, <1>5, <1>6, <3>2
      <4>2. c[j] = b[j - Len(a)]
        BY <1>5, <1>6, <1>7, <4>1, ConcatProperties
      <4>3. QED
        BY <1>5, <1>6, <3>2, <4>1, <4>2
    <3>3. QED
      BY <3>1, <3>2
  <2>3. QED
    BY <2>1, <2>2
<1>9. RemoveAt(s, i) = c
  BY <1>1, <1>2, <1>3, <1>7 DEF RemoveAt
<1>10. PICK t : /\ t = <<x>> \o c /\ t \in Seq(S) /\ Len(t) = n
                /\ t[1] = x /\ \A j \in 2 .. n : t[j] = c[j - 1]
  <2>1. Len(c) + 1 = n
    BY <1>1, <1>8
  <2>2. PICK t : t = <<x>> \o c
    OBVIOUS
  <2>3. /\ t \in Seq(S) /\ Len(t) = Len(c) + 1 /\ t[1] = x
        /\ \A j \in 2 .. Len(c) + 1 : t[j] = c[j - 1]
    <3>1. c \in Seq(S)
      BY <1>8
    <3>2. QED
      BY <2>2, <3>1
  <2>4. QED
    BY <2>1, <2>2, <2>3, Zenon
<1>11. ASSUME NEW j \in 2 .. n PROVE t[j] = s[Origin(i, j)]
  <2>1. j - 1 \in 1 .. n - 1
    BY <1>1
  <2>2. t[j] = c[j - 1] /\ c[j - 1] = IF j - 1 <= i - 1 THEN s[j - 1] ELSE s[(j - 1) + 1]
    BY <1>8, <1>10, <2>1
  <2>3. (j - 1 <= i - 1 <=> j <= i) /\ (j - 1) + 1 = j
    BY <1>1
  <2>4. QED
    BY <2>2, <2>3 DEF Origin
<1>12. QED
  BY <1>1, <1>9, <1>10, <1>11

\* The list after push_front, and after pop_back when that was one too many.
LEMMA PushProperties ==
  ASSUME NEW S, NEW s \in Seq(S), NEW x \in S
  PROVE  /\ LET t == <<x>> \o s
            IN  /\ t \in Seq(S) /\ Len(t) = Len(s) + 1 /\ t[1] = x
                /\ \A j \in 2 .. Len(s) + 1 : t[j] = s[j - 1]
         /\ s # <<>> =>
              LET t == <<x>> \o Front(s)
              IN  /\ t \in Seq(S) /\ Len(t) = Len(s) /\ t[1] = x
                  /\ \A j \in 2 .. Len(s) : t[j] = s[j - 1]
<1>1. Len(s) \in Nat
  BY LenProperties
<1>2. ASSUME s # <<>>
      PROVE  LET t == <<x>> \o Front(s)
              IN  /\ t \in Seq(S) /\ Len(t) = Len(s) /\ t[1] = x
                  /\ \A j \in 2 .. Len(s) : t[j] = s[j - 1]
  <2>1. PICK n \in Nat : n = Len(s) /\ n >= 1
    BY <1>1, <1>2
  <2>2. PICK f : f = SubSeq(s, 1, n - 1)
    OBVIOUS
  <2>3. 1 \in Int /\ n - 1 \in Int /\ \A j \in 1 .. n - 1 : s[j] \in S
    BY <2>1
  <2>4. /\ f \in Seq(S) /\ Len(f) = IF 1 <= n - 1 THEN (n - 1) - 1 + 1 ELSE 0
        /\ \A j \in 1 .. (n - 1) - 1 + 1 : f[j] = s[1 + j - 1]
    BY <2>2, <2>3, SubSeqProperties
  <2>5. Len(f) = n - 1 /\ \A j \in 1 .. n - 1 : f[j] = s[j]
    BY <2>1, <2>4
  <2>6. PICK t : /\ t = <<x>> \o f /\ t \in Seq(S) /\ Len(t) = n
                 /\ t[1] = x /\ \A j \in 2 .. n : t[j] = f[j - 1]
    <3>1. Len(f) + 1 = n
      BY <2>1, <2>5
    <3>2. PICK t : t = <<x>> \o f
      OBVIOUS
    <3>3. /\ t \in Seq(S) /\ Len(t) = Len(f) + 1 /\ t[1] = x
          /\ \A j \in 2 .. Len(f) + 1 : t[j] = f[j - 1]
      <4>1. f \in Seq(S)
        BY <2>4
      <4>2. QED
        BY <3>2, <4>1
    <3>4. QED
      BY <3>1, <3>2, <3>3, Zenon
  <2>7. ASSUME NEW j \in 2 .. n PROVE t[j] = s[j - 1]
    <3>1. j - 1 \in 1 .. n - 1
      BY <2>1
    <3>2. QED
      BY <2>5, <2>6, <3>1
  <2>8. Front(s) = f
    BY <2>1, <2>2 DEF Front
  <2>9. QED
    BY <2>1, <2>6, <2>7, <2>8
<1>3. QED
  BY <1>1, <1>2, InFront

-----------------------------------------------------------------------------
(* The cache: bounded, no key twice, nothing in it that was not stored.    *)

DistinctKeys(s) == \A i, j \in DOMAIN s : s[i].key = s[j].key => i = j
CacheShape ==
  /\ \E S : cache \in Seq(S)
  /\ Len(cache) <= CacheMax
  /\ DistinctKeys(cache)

\* t is x in front of items of s.
FrontedBy(t, x, s) ==
  /\ t[1] = x /\ 1 \in DOMAIN t
  /\ \A j \in DOMAIN t : t[j] = x \/ \E k \in DOMAIN s : t[j] = s[k]

\* Moving the item with key x.key to the front, as x.
LEMMA MovedToFront ==
  ASSUME CacheShape, NEW x, NEW i \in DOMAIN cache, cache[i].key = x.key,
         cache' = Spliced(x, i)
  PROVE  CacheShape' /\ FrontedBy(cache', x, cache)
<1>1. PICK S : cache \in Seq(S)
  BY DEF CacheShape
<1>2. PICK n \in Nat : n = Len(cache) /\ DOMAIN cache = 1 .. n /\ i \in 1 .. n
  BY <1>1
<1>3. cache \in Seq(S \cup {x}) /\ x \in S \cup {x}
  BY <1>1
<1>4. /\ cache' \in Seq(S \cup {x}) /\ Len(cache') = n /\ cache'[1] = x
      /\ \A j \in 2 .. n : cache'[j] = cache[Origin(i, j)]
  BY <1>2, <1>3, SpliceProperties DEF Spliced
<1>5. DOMAIN cache' = 1 .. n /\ 1 \in 1 .. n
  BY <1>2, <1>4
<1>6. ASSUME NEW j \in 2 .. n
      PROVE  Origin(i, j) \in 1 .. n /\ Origin(i, j) # i
  BY <1>2 DEF Origin
<1>7. ASSUME NEW j \in 2 .. n, NEW k \in 2 .. n, Origin(i, j) = Origin(i, k)
      PROVE  j = k
  BY <1>2, <1>7 DEF Origin
<1>8. \A j \in 1 .. n : j = 1 \/ j \in 2 .. n
  BY <1>2
<1>9. FrontedBy(cache', x, cache)
  <2>1. ASSUME NEW j \in 1 .. n PROVE cache'[j] = x \/ \E k \in 1 .. n : cache'[j] = cache[k]
    BY <1>4, <1>6, <1>8
  <2>2. QED
    BY <1>2, <1>4, <1>5, <2>1 DEF FrontedBy
<1>10. DistinctKeys(cache')
  <2>0. DistinctKeys(cache)
    BY DEF CacheShape
  <2>1. ASSUME NEW j \in 2 .. n PROVE cache'[j].key # x.key
    <3>1. cache[Origin(i, j)].key # cache[i].key
      BY <1>2, <1>6, <2>0 DEF DistinctKeys
    <3>2. QED
      BY <1>4, <3>1
  <2>2. ASSUME NEW j \in 2 .. n, NEW k \in 2 .. n, cache'[j].key = cache'[k].key PROVE j = k
    <3>1. cache[Origin(i, j)].key = cache[Origin(i, k)].key
      BY <1>4, <2>2
    <3>2. Origin(i, j) = Origin(i, k)
      BY <1>2, <1>6, <2>0, <3>1 DEF DistinctKeys
    <3>3. QED
      BY <1>7, <3>2
  <2>3. ASSUME NEW j \in 1 .. n, NEW k \in 1 .. n, cache'[j].key = cache'[k].key PROVE j = k
    BY <1>4, <1>8, <2>1, <2>2, <2>3
  <2>4. QED
    BY <1>5, <2>3 DEF DistinctKeys
<1>11. Len(cache') <= CacheMax
  BY <1>2, <1>4 DEF CacheShape
<1>12. QED
  BY <1>4, <1>9, <1>10, <1>11 DEF CacheShape

\* Storing, whether the key is there or not.
LEMMA StoredShape ==
  ASSUME CacheShape, NEW key, NEW entry, cache' = Stored(key, entry)
  PROVE  CacheShape' /\ FrontedBy(cache', [key |-> key, entry |-> entry], cache)
<1>0. PICK x : x = [key |-> key, entry |-> entry] /\ x.key = key
  <2>1. PICK x : x = [key |-> key, entry |-> entry]
    OBVIOUS
  <2>2. x.key = key
    BY <2>1
  <2>3. QED
    BY <2>1, <2>2
<1>1. CASE Position(key) # {}
  <2>1. PICK i \in Position(key) : i = Min(Position(key))
    <3>1. PICK n \in Nat : DOMAIN cache = 1 .. n
      BY DEF CacheShape
    <3>2. \A k \in Position(key) : k \in 1 .. n
      BY <3>1 DEF Position
    <3>3. PICK k \in Position(key) : TRUE
      BY <1>1
    <3>4. \A m \in Position(key) : m = k
      BY <3>3 DEF Position, CacheShape, DistinctKeys
    <3>5. k \in Int
      BY <3>1, <3>2, <3>3
    <3>6. \E m \in Position(key) : \A l \in Position(key) : m <= l
      BY <3>3, <3>4, <3>5
    <3>7. QED
      BY <3>6 DEF Min
  <2>2. i \in DOMAIN cache /\ cache[i].key = x.key
    BY <1>0, <2>1 DEF Position
  <2>3. cache' = Spliced(x, i)
    BY <1>0, <1>1, <2>1 DEF Stored
  <2>4. QED
    BY <1>0, <2>2, <2>3, MovedToFront
<1>2. CASE Position(key) = {}
  <2>1. PICK S : cache \in Seq(S)
    BY DEF CacheShape
  <2>2. PICK n \in Nat : n = Len(cache) /\ DOMAIN cache = 1 .. n /\ n <= CacheMax
    BY <2>1 DEF CacheShape
  <2>3. cache \in Seq(S \cup {x}) /\ x \in S \cup {x}
    BY <2>1
  <2>4. CacheMax \in Nat \ {0}
    BY ConfigAssumption
  <2>5. PICK m \in Nat :
          /\ cache' \in Seq(S \cup {x}) /\ Len(cache') = m /\ cache'[1] = x
          /\ m \in 1 .. n + 1 /\ m <= CacheMax
          /\ \A j \in 2 .. m : cache'[j] = cache[j - 1]
    <3>1. CASE n + 1 > CacheMax
      <4>1. cache' = <<x>> \o Front(cache) /\ cache # <<>>
        BY <1>0, <1>2, <2>2, <2>4, <3>1 DEF Stored
      <4>2. /\ cache' \in Seq(S \cup {x}) /\ Len(cache') = n /\ cache'[1] = x
            /\ \A j \in 2 .. n : cache'[j] = cache[j - 1]
        BY <2>2, <2>3, <4>1, PushProperties
      <4>3. n \in 1 .. n + 1
        BY <2>2, <2>4, <3>1
      <4>4. QED
        BY <2>2, <4>2, <4>3
    <3>2. CASE ~(n + 1 > CacheMax)
      <4>1. cache' = <<x>> \o cache
        BY <1>0, <1>2, <2>2, <3>2 DEF Stored
      <4>2. /\ cache' \in Seq(S \cup {x}) /\ Len(cache') = n + 1 /\ cache'[1] = x
            /\ \A j \in 2 .. n + 1 : cache'[j] = cache[j - 1]
        BY <2>2, <2>3, <4>1, PushProperties
      <4>3. n + 1 \in 1 .. n + 1 /\ n + 1 <= CacheMax /\ n + 1 \in Nat
        BY <2>2, <2>4, <3>2
      <4>4. QED
        BY <4>2, <4>3
    <3>3. QED
      BY <3>1, <3>2
  <2>6. DOMAIN cache' = 1 .. m /\ 1 \in 1 .. m
    BY <2>5
  <2>7. ASSUME NEW j \in 2 .. m PROVE j - 1 \in 1 .. n
    BY <2>2, <2>5
  <2>8. \A j \in 1 .. m : j = 1 \/ j \in 2 .. m
    BY <2>5
  <2>9. FrontedBy(cache', x, cache)
    <3>1. ASSUME NEW j \in 1 .. m PROVE cache'[j] = x \/ \E k \in 1 .. n : cache'[j] = cache[k]
      BY <2>5, <2>7, <2>8
    <3>2. QED
      BY <2>2, <2>5, <2>6, <3>1 DEF FrontedBy
  <2>10. DistinctKeys(cache')
    <3>0. DistinctKeys(cache)
      BY DEF CacheShape
    <3>1. ASSUME NEW j \in 2 .. m PROVE cache'[j].key # x.key
      BY <1>0, <1>2, <2>2, <2>5, <2>7 DEF Position
    <3>2. ASSUME NEW j \in 2 .. m, NEW k \in 2 .. m, cache'[j].key = cache'[k].key PROVE j = k
      <4>1. j - 1 = k - 1
        <5>1. j - 1 \in DOMAIN cache /\ k - 1 \in DOMAIN cache
          BY <2>2, <2>7
        <5>2. cache[j - 1].key = cache[k - 1].key
          BY <2>5, <3>2
        <5>3. QED
          BY <3>0, <5>1, <5>2 DEF DistinctKeys
      <4>2. QED
        BY <2>5, <4>1
    <3>3. ASSUME NEW j \in 1 .. m, NEW k \in 1 .. m, cache'[j].key = cache'[k].key PROVE j = k
      BY <2>5, <2>8, <3>1, <3>2, <3>3
    <3>4. QED
      BY <2>6, <3>3 DEF DistinctKeys
  <2>11. QED
    BY <1>0, <2>5, <2>9, <2>10 DEF CacheShape
<1>3. QED
  BY <1>1, <1>2

-----------------------------------------------------------------------------
(* Versions and configurations.                                            *)

BookShape ==
  /\ published \in Seq(Configs) /\ Len(published) \in 1 .. MaxVersion
  /\ running \in BOOLEAN
  /\ loaded = [version |-> loaded.version, signature |-> loaded.signature]
  /\ loaded.version \in 0 .. Len(published) /\ lkg.version \in 0 .. Len(published)
  /\ loaded.version = 0 <=> lkg.version = 0

\* A reload that is under way has saved the configuration and the version,
\* and works on what the provider offers.
ReloadShape ==
  rl # Idle =>
    /\ rl = [pc |-> rl.pc, config |-> rl.config, loaded |-> loaded, signature |-> rl.signature]
    /\ \/ rl.pc = "index" /\ config = NormalizePolicyDefaults(published[Len(published)])
       \/ rl.pc = "validate" /\ config = Effective(published[Len(published)])

\* c is what the provider offered as that version, filled in or not.
Names(version, c) == Effective(c) = Effective(published[version])

NamedGood == lkg.version # 0 => Names(lkg.version, lkg.config)
NamedConfig ==
  ~skew /\ loaded.version # 0 => Names(loaded.version, IF rl = Idle THEN config ELSE rl.config)

\* What threads have resolved and the caches hold belongs to the table in
\* force, unless a thread filled a cache during a change; while a change is
\* under way nobody is about to store what it resolved before.
Fits(item) ==
  \E env \in Envelopes : /\ KeyOf(env) = item.key
                         /\ item.entry = ResolvePolicyInternal(config.table, env)
ResolverShape ==
  /\ rs = [r \in Resolvers |-> rs[r]]
  /\ \A r \in Resolvers : rs[r] # Idle => rs[r].env \in Envelopes /\ rs[r].pc \in {"resolve", "store"}
Current ==
  ~raced =>
    /\ rl = Idle =>
         /\ \A i \in DOMAIN cache : Fits(cache[i])
         /\ lint.valid => lint.report = BuildPolicyLintReport(config.table)
         /\ \A r \in Resolvers : rs[r] # Idle /\ rs[r].pc = "store" =>
              rs[r].entry = ResolvePolicyInternal(config.table, rs[r].env)
    /\ rl # Idle => \A r \in Resolvers : rs[r] # Idle => rs[r].pc = "resolve"
    /\ rl # Idle /\ rl.pc = "validate" => cache = <<>> /\ ~lint.valid

Shape == CacheShape /\ BookShape /\ ReloadShape /\ ResolverShape

Named == NamedGood /\ NamedConfig

\* What Start leaves, given a version l for the configuration c and a last
\* known good configuration g.
LEMMA BegunProperties ==
  ASSUME NEW c, NEW l, NEW g, NEW gate \in BOOLEAN,
         l = [version |-> l.version, signature |-> l.signature],
         g.version = 0 => l.version = 0, Begun(c, l, g, gate)
  PROVE  /\ cache' = <<>> /\ lint' = [valid |-> FALSE] /\ raced' = Resolving
         /\ running' \in BOOLEAN
         /\ loaded' = [version |-> loaded'.version, signature |-> loaded'.signature]
         /\ lkg'.version = g.version /\ (g.version # 0 => lkg' = g)
         /\ \/ config' = Effective(c) /\ loaded'.version = l.version
            \/ config' = lkg'.config /\ loaded'.version = lkg'.version
<1> DEFINE n == NormalizePolicyDefaults(c)
           g1 == IF g.version # 0 THEN g
                 ELSE [config |-> n, version |-> l.version,
                       signature |-> ComputePolicySignature(n.table)]
           l1 == IF g.version # 0 THEN l ELSE [l EXCEPT !.signature = g1.signature]
<1>1. /\ ClearCaches /\ lkg' = g1
      /\ \/ /\ config' = g1.config /\ running' = FALSE
            /\ loaded' = [version |-> g1.version, signature |-> g1.signature]
         \/ config' = Effective(c) /\ loaded' = l1 /\ running' = TRUE
  <2>1. CASE c.canary /\ ~gate
    BY <2>1, Zenon DEF Begun
  <2>2. CASE ~(c.canary /\ ~gate)
    BY <2>2, Zenon DEF Begun
  <2>3. QED
    BY <2>1, <2>2
<1>2. g1.version = g.version /\ (g.version # 0 => g1 = g)
  <2>1. CASE g.version # 0
    BY <2>1
  <2>2. CASE g.version = 0
    <3>1. g1.version = l.version
      BY <2>2
    <3>2. QED
      BY <2>2, <3>1
  <2>3. QED
    BY <2>1, <2>2
<1> HIDE DEF g1, n
<1>3. l1.version = l.version /\ l1 = [version |-> l1.version, signature |-> l1.signature]
  <2>1. PICK s : s = g1.signature
    OBVIOUS
  <2>2. [l EXCEPT !.signature = s] = [version |-> l.version, signature |-> s]
    OBVIOUS
  <2>3. QED
    BY <2>1, <2>2
<1> HIDE DEF l1
<1>4. loaded' = [version |-> loaded'.version, signature |-> loaded'.signature]
  <2>1. CASE loaded' = [version |-> g1.version, signature |-> g1.signature]
    BY <2>1
  <2>2. CASE loaded' = l1
    BY <1>3, <2>2
  <2>3. QED
    BY <1>1, <2>1, <2>2
<1>5. \/ config' = Effective(c) /\ loaded'.version = l.version
      \/ config' = lkg'.config /\ loaded'.version = lkg'.version
  <2>1. CASE /\ config' = g1.config /\ running' = FALSE
             /\ loaded' = [version |-> g1.version, signature |-> g1.signature]
    <3>1. loaded'.version = g1.version
      BY <2>1
    <3>2. QED
      BY <1>1, <2>1, <3>1
  <2>2. CASE config' = Effective(c) /\ loaded' = l1
    BY <1>3, <2>2
  <2>3. QED
    BY <1>1, <2>1, <2>2
<1>6. running' \in BOOLEAN
  BY <1>1
<1>7. QED
  BY <1>1, <1>2, <1>4, <1>5, <1>6 DEF ClearCaches

\* An empty cache has the shape of one.
LEMMA EmptyCacheShape ==
  ASSUME cache' = <<>>
  PROVE  CacheShape'
<1>1. <<>> \in Seq({}) /\ Len(<<>>) = 0 /\ DOMAIN <<>> = {}
  BY EmptySeq
<1>2. Len(<<>>) <= CacheMax
  BY <1>1, ConfigAssumption
<1>3. QED
  BY <1>1, <1>2 DEF CacheShape, DistinctKeys

\* The steps of the owner outside a reload.
LEMMA ShapeOwner ==
  ASSUME Shape, Named,
         \/ \E c \in Configs : UpdateConfig(c)
         \/ \E c \in Initial, gate \in BOOLEAN : StartDirect(c, gate)
         \/ \E gate \in BOOLEAN : StartProvider(gate)
         \/ Stop
  PROVE  Shape' /\ Named'
<1> USE DEF boot, caches
<1>0. CacheShape /\ BookShape /\ ReloadShape /\ ResolverShape /\ NamedGood /\ NamedConfig
  BY DEF Shape, Named
<1>1. rl = Idle /\ UNCHANGED <<rl, rs>>
  BY DEF UpdateConfig, StartDirect, StartProvider, Stop
<1>2. ReloadShape' /\ ResolverShape'
  BY <1>0, <1>1 DEF ReloadShape, ResolverShape
<1>3. PICK n \in Nat : /\ n = Len(published) /\ n \in 1 .. MaxVersion
                       /\ \A v \in 1 .. n : published[v] \in Configs /\ ConfigShaped(published[v])
  BY <1>0, ConfigAssumption DEF BookShape
<1>4. ASSUME NEW c \in Configs, UpdateConfig(c)
      PROVE  Shape' /\ Named'
  <2>1. UNCHANGED <<config, loaded, lkg, running, cache, skew>>
    BY <1>4 DEF UpdateConfig
  <2>2. /\ published' \in Seq(Configs) /\ Len(published') = n + 1 /\ n + 1 <= MaxVersion
        /\ \A v \in 1 .. n : published'[v] = published[v]
    BY <1>0, <1>3, <1>4, ConfigAssumption DEF UpdateConfig, BookShape
  <2>3. CacheShape'
    BY <1>0, <2>1 DEF CacheShape
  <2>4. loaded.version \in 0 .. n /\ lkg.version \in 0 .. n
    BY <1>0, <1>3 DEF BookShape
  <2>5. BookShape'
    <3>1. Len(published') \in 1 .. MaxVersion /\ 0 .. n \subseteq 0 .. Len(published')
      BY <1>3, <2>2, ConfigAssumption
    <3>2. QED
      BY <1>0, <2>1, <2>2, <2>4, <3>1 DEF BookShape
  <2>6. \A v \in 0 .. n : v # 0 => published'[v] = published[v]
    BY <2>2
  <2>7. NamedGood' /\ NamedConfig'
    BY <1>0, <1>1, <2>1, <2>4, <2>6 DEF NamedGood, NamedConfig, Names
  <2>8. QED
    BY <1>2, <2>3, <2>5, <2>7 DEF Shape, Named
<1>5. ASSUME NEW c \in Initial, NEW gate \in BOOLEAN, StartDirect(c, gate)
      PROVE  Shape' /\ Named'
  <2>1. /\ UNCHANGED published /\ Begun(c, loaded, lkg, gate)
        /\ skew' = (loaded.version # 0)
    BY <1>5 DEF StartDirect
  <2>2. /\ cache' = <<>> /\ running' \in BOOLEAN
        /\ loaded' = [version |-> loaded'.version, signature |-> loaded'.signature]
        /\ lkg'.version = lkg.version /\ (lkg.version # 0 => lkg' = lkg)
        /\ loaded'.version = loaded.version \/ loaded'.version = lkg.version
    <3>1. /\ loaded = [version |-> loaded.version, signature |-> loaded.signature]
          /\ lkg.version = 0 => loaded.version = 0
      BY <1>0 DEF BookShape
    <3>2. QED
      BY <2>1, <3>1, BegunProperties
  <2>3. CacheShape'
    BY <2>2, EmptyCacheShape
  <2>4. BookShape'
    BY <1>0, <2>1, <2>2 DEF BookShape
  <2>5. NamedGood'
    BY <1>0, <2>1, <2>2 DEF NamedGood, Names
  <2>6. NamedConfig'
    <3>1. ~skew' => loaded'.version = 0
      BY <1>0, <2>1, <2>2 DEF BookShape
    <3>2. QED
      BY <3>1 DEF NamedConfig
  <2>7. QED
    BY <1>2, <2>3, <2>4, <2>5, <2>6 DEF Shape, Named
<1>6. ASSUME NEW gate \in BOOLEAN, StartProvider(gate)
      PROVE  Shape' /\ Named'
  <2> DEFINE c == published[n]
             s == ComputePolicySignature(c.table)
             l == [version |-> n, signature |-> s]
             g == [config |-> c, version |-> n, signature |-> s]
  <2>1. UNCHANGED published
    BY <1>6 DEF StartProvider
  <2>2. ConfigShaped(c) /\ n # 0 /\ n \in 0 .. n
    BY <1>3
  <2>3. /\ l.version = n /\ l = [version |-> l.version, signature |-> l.signature]
        /\ g.version = n /\ g.config = c
    OBVIOUS
  <2>4. CASE running
    <3>1. /\ loaded' = l /\ lkg' = g /\ skew' = TRUE
          /\ UNCHANGED <<config, running, cache>>
      BY <1>3, <1>6, <2>4 DEF StartProvider
    <3> HIDE DEF l, g
    <3>2. CacheShape'
      BY <1>0, <3>1 DEF CacheShape
    <3>3. BookShape'
      BY <1>0, <1>3, <2>1, <2>2, <2>3, <3>1 DEF BookShape
    <3>4. NamedGood'
      BY <2>1, <2>3, <3>1 DEF NamedGood, Names
    <3>5. NamedConfig'
      BY <3>1 DEF NamedConfig
    <3>6. QED
      BY <1>2, <3>2, <3>3, <3>4, <3>5 DEF Shape, Named
  <2>5. CASE ~running
    <3>1. Begun(c, l, g, gate)
      BY <1>3, <1>6, <2>5 DEF StartProvider
    <3> HIDE DEF l, g, s
    <3>2. /\ cache' = <<>> /\ running' \in BOOLEAN
          /\ loaded' = [version |-> loaded'.version, signature |-> loaded'.signature]
          /\ lkg'.version = n /\ lkg' = g
          /\ \/ config' = Effective(c) /\ loaded'.version = n
             \/ config' = g.config /\ loaded'.version = n
      BY <2>2, <2>3, <3>1, BegunProperties
    <3>3. CacheShape'
      BY <3>2, EmptyCacheShape
    <3>4. BookShape'
      BY <1>0, <1>3, <2>1, <2>2, <3>2 DEF BookShape
    <3>5. NamedGood'
      BY <2>1, <2>3, <3>2 DEF NamedGood, Names
    <3>6. NamedConfig'
      <4>1. Effective(config') = Effective(c)
        BY <2>2, <2>3, <3>2, EffectiveTwice
      <4>2. QED
        BY <1>1, <2>1, <3>2, <4>1 DEF NamedConfig, Names
    <3>7. QED
      BY <1>2, <3>3, <3>4, <3>5, <3>6 DEF Shape, Named
  <2>6. QED
    BY <2>4, <2>5
<1>7. ASSUME Stop PROVE Shape' /\ Named'
  <2>1. UNCHANGED <<published, config, loaded, lkg, cache, skew>> /\ running' = FALSE
    BY <1>7 DEF Stop
  <2>2. CacheShape' /\ BookShape'
    BY <1>0, <2>1 DEF CacheShape, BookShape
  <2>3. NamedGood' /\ NamedConfig'
    BY <1>0, <1>1, <2>1 DEF NamedGood, NamedConfig, Names
  <2>4. QED
    BY <1>2, <2>2, <2>3 DEF Shape, Named
<1>8. QED
  BY <1>4, <1>5, <1>6, <1>7

\* The steps of a reload.
LEMMA ShapeReload ==
  ASSUME Shape, Named, ReloadAssign \/ ReloadIndex \/ ReloadRollback \/ ReloadCommit
  PROVE  Shape' /\ Named'
<1> USE DEF boot, caches
<1>0. CacheShape /\ BookShape /\ ReloadShape /\ ResolverShape /\ NamedGood /\ NamedConfig
  BY DEF Shape, Named
<1>1. UNCHANGED <<published, rs, running>>
  BY DEF ReloadAssign, ReloadIndex, ReloadRollback, ReloadCommit
<1>2. ResolverShape'
  BY <1>0, <1>1 DEF ResolverShape
<1>3. PICK n \in Nat : /\ n = Len(published) /\ n \in 1 .. MaxVersion
                       /\ published[n] \in Configs /\ ConfigShaped(published[n])
  BY <1>0, ConfigAssumption DEF BookShape
<1>4. Idle.pc = "idle"
  BY DEF Idle
<1>5. CASE ReloadAssign
  <2>1. UNCHANGED <<loaded, lkg, cache, skew>> /\ rl = Idle /\ config' = Offered
    BY <1>5 DEF ReloadAssign
  <2>2. PICK s : rl' = [pc |-> "index", config |-> config, loaded |-> loaded, signature |-> s]
    BY <1>5 DEF ReloadAssign
  <2>3. rl'.pc = "index" /\ rl'.config = config /\ rl'.signature = s /\ rl' # Idle
    BY <1>4, <2>2
  <2>4. CacheShape' /\ BookShape'
    BY <1>0, <1>1, <2>1 DEF CacheShape, BookShape
  <2>5. ReloadShape'
    BY <1>1, <2>1, <2>2, <2>3 DEF ReloadShape, Offered
  <2>6. NamedGood' /\ NamedConfig'
    BY <1>0, <1>1, <2>1, <2>3 DEF NamedGood, NamedConfig, Names
  <2>7. QED
    BY <1>2, <2>4, <2>5, <2>6 DEF Shape, Named
<1>6. CASE ReloadIndex
  <2>1. /\ UNCHANGED <<loaded, lkg, skew>> /\ rl.pc = "index" /\ cache' = <<>>
        /\ rl' = [rl EXCEPT !.pc = "validate"] /\ config' = Completed(config)
    BY <1>6 DEF ReloadIndex, ClearCaches, Completed
  <2>2. /\ rl = [pc |-> rl.pc, config |-> rl.config, loaded |-> loaded, signature |-> rl.signature]
        /\ config = NormalizePolicyDefaults(published[n]) /\ rl # Idle
    BY <1>0, <1>3, <1>4, <2>1 DEF ReloadShape
  <2>3. rl' = [pc |-> "validate", config |-> rl.config, loaded |-> loaded, signature |-> rl.signature]
    BY <2>1, <2>2
  <2>4. /\ rl'.pc = "validate" /\ rl'.config = rl.config /\ rl'.signature = rl.signature
        /\ rl' # Idle
    BY <1>4, <2>3
  <2>5. CacheShape' /\ BookShape'
    BY <1>0, <1>1, <2>1, EmptyCacheShape DEF BookShape
  <2>6. config' = Effective(published[n])
    BY <1>3, <2>1, <2>2, EffectiveTwice
  <2>7. ReloadShape'
    BY <1>1, <1>3, <2>1, <2>3, <2>4, <2>6 DEF ReloadShape
  <2>8. NamedGood' /\ NamedConfig'
    BY <1>0, <1>1, <2>1, <2>2, <2>4 DEF NamedGood, NamedConfig, Names
  <2>9. QED
    BY <1>2, <2>5, <2>7, <2>8 DEF Shape, Named
<1>7. CASE ReloadRollback
  <2>1. /\ UNCHANGED <<lkg, skew, cache>> /\ rl.pc = "validate" /\ rl' = Idle
        /\ config' = rl.config /\ loaded' = rl.loaded
    BY <1>7 DEF ReloadRollback
  <2>2. rl.loaded = loaded /\ rl # Idle
    <3>1. rl = [pc |-> rl.pc, config |-> rl.config, loaded |-> loaded, signature |-> rl.signature]
      BY <1>0, <1>4, <2>1 DEF ReloadShape
    <3>2. QED
      BY <1>4, <2>1, <3>1
  <2>3. CacheShape' /\ BookShape'
    BY <1>0, <1>1, <2>1, <2>2 DEF BookShape, CacheShape
  <2>4. ReloadShape'
    BY <2>1 DEF ReloadShape
  <2>5. NamedGood' /\ NamedConfig'
    BY <1>0, <1>1, <2>1, <2>2 DEF NamedGood, NamedConfig, Names
  <2>6. QED
    BY <1>2, <2>3, <2>4, <2>5 DEF Shape, Named
<1>8. CASE ReloadCommit
  <2>1. /\ UNCHANGED <<config, cache>> /\ rl.pc = "validate" /\ rl' = Idle /\ skew' = FALSE
        /\ loaded' = [version |-> n, signature |-> rl.signature]
        /\ lkg' = [config |-> config, version |-> n, signature |-> rl.signature]
    BY <1>3, <1>8 DEF ReloadCommit
  <2>2. config = Effective(published[n])
    BY <1>0, <1>3, <1>4, <2>1 DEF ReloadShape
  <2>3. /\ loaded'.version = n /\ lkg'.version = n /\ lkg'.config = config
        /\ loaded' = [version |-> loaded'.version, signature |-> loaded'.signature]
    BY <2>1
  <2>4. n # 0 /\ n \in 0 .. n
    BY <1>3
  <2>5. CacheShape' /\ BookShape'
    BY <1>0, <1>1, <1>3, <2>1, <2>3, <2>4 DEF BookShape, CacheShape
  <2>6. ReloadShape'
    BY <2>1 DEF ReloadShape
  <2>7. Effective(config) = Effective(published[n])
    BY <1>3, <2>2, EffectiveTwice
  <2>8. NamedGood' /\ NamedConfig'
    BY <1>1, <2>1, <2>3, <2>7 DEF NamedGood, NamedConfig, Names
  <2>9. QED
    BY <1>2, <2>5, <2>6, <2>8 DEF Shape, Named
<1>9. QED
  BY <1>5, <1>6, <1>7, <1>8

\* Lint reports and resolutions change neither versions nor configurations.
LEMMA ShapeOthers ==
  ASSUME Shape, Named,
         \/ LintReport
         \/ \E r \in Resolvers :
              (\E env \in Envelopes : Lookup(r, env)) \/ Resolve(r) \/ Store(r)
  PROVE  Shape' /\ Named'
<1> USE DEF boot, caches
<1>0. CacheShape /\ BookShape /\ ReloadShape /\ ResolverShape /\ NamedGood /\ NamedConfig
  BY DEF Shape, Named
<1>1. UNCHANGED <<published, config, loaded, lkg, running, rl, skew>>
  BY DEF LintReport, Lookup, Resolve, Store
<1>2. BookShape' /\ ReloadShape' /\ NamedGood' /\ NamedConfig'
  BY <1>0, <1>1 DEF BookShape, ReloadShape, NamedGood, NamedConfig, Names
<1>3. CASE LintReport
  <2>1. UNCHANGED <<cache, rs>>
    BY <1>3 DEF LintReport
  <2>2. QED
    BY <1>0, <1>2, <2>1 DEF Shape, Named, CacheShape, ResolverShape
<1>4. ASSUME NEW r \in Resolvers, NEW env \in Envelopes, Lookup(r, env)
      PROVE  Shape' /\ Named'
  <2>1. CASE Position(KeyOf(env)) # {}
    <3>1. PICK i \in DOMAIN cache : cache' = Spliced(cache[i], i)
      BY <1>4, <2>1 DEF Lookup, Position
    <3>2. UNCHANGED rs
      BY <1>4, <2>1 DEF Lookup
    <3>3. CacheShape'
      BY <1>0, <3>1, MovedToFront
    <3>4. QED
      BY <1>0, <1>2, <3>2, <3>3 DEF Shape, Named, ResolverShape
  <2>2. CASE Position(KeyOf(env)) = {}
    <3>1. UNCHANGED cache /\ rs' = [rs EXCEPT ![r] = [pc |-> "resolve", env |-> env]]
      BY <1>4, <2>2 DEF Lookup
    <3>2. PICK x : x = [pc |-> "resolve", env |-> env]
      OBVIOUS
    <3>3. x.pc = "resolve" /\ x.env = env
      BY <3>2
    <3>4. ResolverShape'
      BY <1>0, <3>1, <3>2, <3>3 DEF ResolverShape
    <3>5. CacheShape'
      BY <1>0, <3>1 DEF CacheShape
    <3>6. QED
      BY <1>2, <3>4, <3>5 DEF Shape, Named
  <2>3. QED
    BY <2>1, <2>2
<1>5. ASSUME NEW r \in Resolvers, Resolve(r)
      PROVE  Shape' /\ Named'
  <2>1. UNCHANGED cache /\ rs[r] # Idle
    BY <1>5 DEF Resolve
  <2>2. PICK e : rs' = [rs EXCEPT ![r] = [pc |-> "store", env |-> rs[r].env, entry |-> e]]
    BY <1>5 DEF Resolve
  <2>3. PICK x : x = [pc |-> "store", env |-> rs[r].env, entry |-> e]
    OBVIOUS
  <2>4. x.pc = "store" /\ x.env = rs[r].env
    BY <2>3
  <2>5. ResolverShape'
    BY <1>0, <2>1, <2>2, <2>3, <2>4 DEF ResolverShape
  <2>6. CacheShape'
    BY <1>0, <2>1 DEF CacheShape
  <2>7. QED
    BY <1>2, <2>5, <2>6 DEF Shape, Named
<1>6. ASSUME NEW r \in Resolvers, Store(r)
      PROVE  Shape' /\ Named'
  <2>1. /\ cache' = Stored(KeyOf(rs[r].env), rs[r].entry)
        /\ rs' = [rs EXCEPT ![r] = Idle]
    BY <1>6 DEF Store
  <2>2. CacheShape'
    BY <1>0, <2>1, StoredShape
  <2>3. ResolverShape'
    BY <1>0, <2>1 DEF ResolverShape
  <2>4. QED
    BY <1>2, <2>2, <2>3 DEF Shape, Named
<1>7. QED
  BY <1>3, <1>4, <1>5, <1>6

\* Every step.
LEMMA ShapeNext ==
  Shape /\ Named /\ [Next]_vars => Shape' /\ Named'
<1> SUFFICES ASSUME Shape, Named, [Next]_vars PROVE Shape' /\ Named'
  OBVIOUS
<1>1. CASE Owner
  BY <1>1, ShapeOwner, ShapeReload DEF Owner
<1>2. CASE UNCHANGED vars
  BY <1>2 DEF vars, Shape, Named, CacheShape, BookShape, ReloadShape, ResolverShape,
       NamedGood, NamedConfig, Names
<1>3. CASE Next /\ ~Owner
  BY <1>3, ShapeOthers DEF Next
<1>4. QED
  BY <1>1, <1>2, <1>3

\* The first states.
LEMMA ShapeInit ==
  Init => Shape /\ Named
<1> SUFFICES ASSUME Init PROVE Shape /\ Named
  OBVIOUS
<1>1. CacheShape
  <2>1. <<>> \in Seq({}) /\ Len(<<>>) = 0 /\ DOMAIN <<>> = {}
    BY EmptySeq
  <2>2. Len(<<>>) <= CacheMax
    BY <2>1, ConfigAssumption
  <2>3. QED
    BY <2>1, <2>2 DEF Init, CacheShape, DistinctKeys
<1>2. loaded.version = 0 /\ lkg.version = 0
  BY DEF Init
<1>3. BookShape
  <2>1. PICK c \in Initial : published = <<c>>
    BY DEF Init
  <2>2. published \in Seq(Configs) /\ Len(published) = 1
    BY <2>1, ConfigAssumption
  <2>3. loaded = [version |-> loaded.version, signature |-> loaded.signature]
    BY DEF Init
  <2>4. running \in BOOLEAN
    BY Zenon DEF Init
  <2>5. 1 \in 1 .. MaxVersion /\ 0 \in 0 .. 1
    BY ConfigAssumption
  <2>6. QED
    BY <1>2, <2>2, <2>3, <2>4, <2>5 DEF BookShape
<1>4. ReloadShape
  BY DEF Init, ReloadShape
<1>5. ResolverShape
  BY DEF Init, ResolverShape
<1>6. QED
  BY <1>1, <1>2, <1>3, <1>4, <1>5 DEF Shape, Named, NamedGood, NamedConfig

\* Whatever order starts, reloads, lookups, stores and clears come in, the
\* cache stays within its limit with no key twice, and the versions are ones
\* the provider has offered.
THEOREM ConfigTypeOK == Spec => []TypeOK
<1>1. Shape => TypeOK
  BY ConfigAssumption DEF Shape, CacheShape, DistinctKeys, BookShape, TypeOK
<1>2. QED
  BY <1>1, ShapeInit, ShapeNext, PTL DEF Spec

\* The version that GetLoadedConfigVersion returns between two calls of the
\* owner is the version of the configuration in force, after every mixture of
\* starts, canary refusals, commits and rollbacks.
THEOREM ConfigVersionNamesConfig == Spec => []VersionNamesConfig
<1>1. Named => VersionNamesConfig
  BY DEF Named, NamedConfig, Names, VersionNamesConfig
<1>2. QED
  BY <1>1, ShapeInit, ShapeNext, PTL DEF Spec

-----------------------------------------------------------------------------
(* What the caches hold.                                                   *)

\* Current, unfolded for a state that a change of the configuration has just
\* ended or is not under way in: caches, report and resolutions fit the table.
AllFit ==
  /\ \A i \in DOMAIN cache : Fits(cache[i])
  /\ lint.valid => lint.report = BuildPolicyLintReport(config.table)
  /\ \A r \in Resolvers : rs[r] # Idle /\ rs[r].pc = "store" =>
       rs[r].entry = ResolvePolicyInternal(config.table, rs[r].env)

\* The owner clears the caches whenever it changes the configuration.
LEMMA CurrentOwner ==
  ASSUME Shape, Current, Owner
  PROVE  Current'
<1> USE DEF boot, caches
<1>0. ReloadShape
  BY DEF Shape
<1>1. UNCHANGED rs
  BY DEF Owner, UpdateConfig, StartDirect, StartProvider, Stop, ReloadAssign, ReloadIndex,
         ReloadRollback, ReloadCommit
<1>2. ASSUME cache' = <<>>, lint' = [valid |-> FALSE], ~Resolving
      PROVE  AllFit' /\ (\A r \in Resolvers : rs'[r] = Idle) /\ cache' = <<>> /\ ~lint'.valid
  <2>1. DOMAIN cache' = {} /\ ~lint'.valid
    BY <1>2, EmptySeq
  <2>2. \A r \in Resolvers : rs'[r] = Idle
    BY <1>1, <1>2 DEF Resolving
  <2>3. QED
    BY <1>2, <2>1, <2>2 DEF AllFit
<1>3. Current <=> (~raced => /\ rl = Idle => AllFit
                             /\ rl # Idle => \A r \in Resolvers : rs[r] # Idle => rs[r].pc = "resolve"
                             /\ rl # Idle /\ rl.pc = "validate" => cache = <<>> /\ ~lint.valid)
  BY DEF Current, AllFit
<1>4. Idle.pc = "idle"
  BY DEF Idle
<1>5. ASSUME rl = Idle, UNCHANGED <<config, caches, rl>>
      PROVE  Current'
  BY <1>1, <1>5 DEF Current, Fits
<1>6. ASSUME rl = Idle, UNCHANGED rl, ClearCaches
      PROVE  Current'
  BY <1>2, <1>6 DEF Current, AllFit, ClearCaches
<1>7. ASSUME NEW c \in Configs, UpdateConfig(c) PROVE Current'
  BY <1>5, <1>7 DEF UpdateConfig
<1>8. ASSUME NEW c \in Initial, NEW gate \in BOOLEAN, StartDirect(c, gate) PROVE Current'
  <2>1. Begun(c, loaded, lkg, gate) /\ rl = Idle /\ UNCHANGED rl
    BY <1>8 DEF StartDirect
  <2>2. ClearCaches
    BY <2>1 DEF Begun
  <2>3. QED
    BY <1>6, <2>1, <2>2
<1>9. ASSUME NEW gate \in BOOLEAN, StartProvider(gate) PROVE Current'
  <2>1. rl = Idle /\ UNCHANGED rl
    BY <1>9 DEF StartProvider
  <2>2. UNCHANGED <<config, caches>> \/ \E c, l, g : Begun(c, l, g, gate)
    BY <1>9, Zenon DEF StartProvider
  <2>3. UNCHANGED <<config, caches>> \/ ClearCaches
    BY <2>2 DEF Begun
  <2>4. QED
    BY <1>5, <1>6, <2>1, <2>3
<1>10. ASSUME Stop PROVE Current'
  BY <1>5, <1>10 DEF Stop
<1>11. ASSUME ReloadAssign PROVE Current'
  <2>1. PICK s : rl' = [pc |-> "index", config |-> config, loaded |-> loaded, signature |-> s]
    BY <1>11 DEF ReloadAssign
  <2>2. rl'.pc = "index" /\ rl' # Idle
    BY <1>4, <2>1
  <2>3. ~raced' => \A r \in Resolvers : rs'[r] = Idle
    BY <1>1, <1>11 DEF ReloadAssign, Resolving
  <2>4. QED
    BY <2>2, <2>3 DEF Current
<1>12. ASSUME ReloadIndex PROVE Current'
  <2>1. rl.pc = "index" /\ rl' = [rl EXCEPT !.pc = "validate"] /\ ClearCaches
    BY <1>12 DEF ReloadIndex
  <2>2. rl' # Idle
    <3>1. rl = [pc |-> rl.pc, config |-> rl.config, loaded |-> loaded, signature |-> rl.signature]
      BY <1>0, <1>4, <2>1 DEF ReloadShape
    <3>2. rl'.pc = "validate"
      BY <2>1, <3>1
    <3>3. QED
      BY <1>4, <3>2
  <2>3. QED
    BY <1>2, <2>1, <2>2 DEF Current, ClearCaches
<1>13. ASSUME ReloadRollback \/ ReloadCommit PROVE Current'
  <2>1. rl.pc = "validate" /\ rl' = Idle /\ UNCHANGED caches
    BY <1>13 DEF ReloadRollback, ReloadCommit
  <2>2. rl # Idle
    BY <1>4, <2>1
  <2>3. ASSUME ~raced
        PROVE  AllFit'
    <3>1. /\ cache = <<>> /\ ~lint.valid
          /\ \A r \in Resolvers : rs[r] # Idle => rs[r].pc = "resolve"
      BY <2>1, <2>2, <2>3 DEF Current
    <3>2. DOMAIN cache' = {} /\ ~lint'.valid
      BY <2>1, <3>1, EmptySeq
    <3>3. \A r \in Resolvers : ~(rs'[r] # Idle /\ rs'[r].pc = "store")
      BY <1>1, <3>1
    <3>4. QED
      BY <3>2, <3>3 DEF AllFit
  <2>4. QED
    BY <2>1, <2>3 DEF Current, AllFit
<1>14. QED
  BY <1>7, <1>8, <1>9, <1>10, <1>11, <1>12, <1>13 DEF Owner

\* A thread stores what the table in force gave it, unless it read the table
\* while the owner was changing it.
LEMMA CurrentOthers ==
  ASSUME Shape, Current,
         \/ LintReport
         \/ \E r \in Resolvers :
              (\E env \in Envelopes : Lookup(r, env)) \/ Resolve(r) \/ Store(r)
  PROVE  Current'
<1> USE DEF boot, caches
<1>0. CacheShape /\ ResolverShape
  BY DEF Shape
<1>1. UNCHANGED <<config, rl>>
  BY DEF LintReport, Lookup, Resolve, Store
<1>2. CASE LintReport
  <2>1. /\ UNCHANGED <<cache, rs>> /\ raced' = (raced \/ rl # Idle)
        /\ lint' = [valid |-> TRUE, report |-> BuildPolicyLintReport(config.table)]
    BY <1>2 DEF LintReport
  <2>2. lint'.report = BuildPolicyLintReport(config.table)
    BY <2>1
  <2>3. ~raced' => ~raced /\ rl = Idle
    BY <2>1
  <2>4. ASSUME ~raced' PROVE AllFit' /\ rl' = Idle
    BY <1>1, <2>1, <2>2, <2>3, <2>4 DEF Current, AllFit, Fits
  <2>5. QED
    BY <2>4 DEF Current, AllFit
<1>3. ASSUME NEW r \in Resolvers, NEW env \in Envelopes, Lookup(r, env)
      PROVE  Current'
  <2>0. UNCHANGED <<lint, raced>>
    BY <1>3 DEF Lookup
  <2>1. CASE Position(KeyOf(env)) # {}
    <3>1. PICK i \in DOMAIN cache : cache' = Spliced(cache[i], i)
      BY <1>3, <2>1 DEF Lookup, Position
    <3>2. UNCHANGED rs
      BY <1>3, <2>1 DEF Lookup
    <3>3. FrontedBy(cache', cache[i], cache)
      BY <1>0, <3>1, MovedToFront
    <3>4. \A j \in DOMAIN cache' : \E k \in DOMAIN cache : cache'[j] = cache[k]
      BY <3>1, <3>3 DEF FrontedBy
    <3>5. (\A k \in DOMAIN cache : Fits(cache[k])) => (\A j \in DOMAIN cache : Fits(cache[j]))'
      BY <1>1, <3>4 DEF Fits
    <3>6. cache # <<>>
      BY <3>1, EmptySeq
    <3>7. QED
      BY <1>1, <2>0, <3>2, <3>5, <3>6 DEF Current
  <2>2. CASE Position(KeyOf(env)) = {}
    <3>1. UNCHANGED cache /\ rs' = [rs EXCEPT ![r] = [pc |-> "resolve", env |-> env]]
      BY <1>3, <2>2 DEF Lookup
    <3>2. PICK x : x = [pc |-> "resolve", env |-> env]
      OBVIOUS
    <3>3. x.pc = "resolve"
      BY <3>2
    <3>4. ASSUME NEW q \in Resolvers
          PROVE  rs'[q] = rs[q] \/ rs'[q].pc = "resolve"
      BY <1>0, <3>1, <3>2, <3>3 DEF ResolverShape
    <3>5. QED
      BY <1>1, <2>0, <3>1, <3>4 DEF Current, Fits
  <2>3. QED
    BY <2>1, <2>2
<1>4. ASSUME NEW r \in Resolvers, Resolve(r)
      PROVE  Current'
  <2>1. /\ UNCHANGED <<cache, lint>> /\ raced' = (raced \/ rl # Idle)
    BY <1>4 DEF Resolve
  <2>2. PICK e : e = ResolvePolicyInternal(config.table, rs[r].env)
    OBVIOUS
  <2>3. rs' = [rs EXCEPT ![r] = [pc |-> "store", env |-> rs[r].env, entry |-> e]]
    BY <1>4, <2>2 DEF Resolve
  <2>4. PICK x : x = [pc |-> "store", env |-> rs[r].env, entry |-> e]
    OBVIOUS
  <2>5. x.entry = e /\ x.env = rs[r].env
    BY <2>4
  <2>6. ASSUME NEW q \in Resolvers
        PROVE  rs'[q] = rs[q] \/ rs'[q].entry = ResolvePolicyInternal(config.table, rs'[q].env)
    BY <1>0, <2>2, <2>3, <2>4, <2>5 DEF ResolverShape
  <2>7. ASSUME ~raced' PROVE AllFit' /\ rl' = Idle
    BY <1>1, <2>1, <2>6, <2>7 DEF Current, AllFit, Fits
  <2>8. QED
    BY <2>7 DEF Current, AllFit
<1>5. ASSUME NEW r \in Resolvers, Store(r)
      PROVE  Current'
  <2>1. /\ UNCHANGED <<lint, raced>> /\ rs[r] # Idle /\ rs[r].pc = "store"
        /\ cache' = Stored(KeyOf(rs[r].env), rs[r].entry)
        /\ rs' = [rs EXCEPT ![r] = Idle]
    BY <1>5 DEF Store
  <2>2. PICK x : x = [key |-> KeyOf(rs[r].env), entry |-> rs[r].entry]
    OBVIOUS
  <2>3. x.key = KeyOf(rs[r].env) /\ x.entry = rs[r].entry
    BY <2>2
  <2>4. FrontedBy(cache', x, cache)
    BY <1>0, <2>1, <2>2, StoredShape
  <2>5. ASSUME NEW q \in Resolvers PROVE rs'[q] = rs[q] \/ rs'[q] = Idle
    BY <1>0, <2>1 DEF ResolverShape
  <2>6. rs[r].env \in Envelopes
    BY <1>0, <2>1 DEF ResolverShape
  <2>7. ASSUME ~raced' PROVE AllFit' /\ rl' = Idle
    <3>1. rl = Idle
      BY <2>1, <2>7 DEF Current
    <3>2. AllFit
      BY <2>1, <2>7, <3>1 DEF Current, AllFit
    <3>3. Fits(x)
      BY <2>1, <2>3, <2>6, <3>2 DEF AllFit, Fits
    <3>4. \A j \in DOMAIN cache' : Fits(cache'[j])
      BY <2>4, <3>2, <3>3, Zenon DEF FrontedBy, AllFit
    <3>5. QED
      BY <1>1, <2>1, <2>5, <3>1, <3>2, <3>4 DEF AllFit, Fits
  <2>8. QED
    BY <2>7 DEF Current, AllFit
<1>6. QED
  BY <1>2, <1>3, <1>4, <1>5

\* Between two calls of the owner, the policy cache and the lint cache hold
\* what the table in force gives, for any number of threads that resolve
\* while starts and reloads go on, unless a thread filled a cache during a
\* change: RebuildPolicyIndex clears both in every case that needs it.
THEOREM ConfigCachesCurrent == Spec => []CachesCurrent
<1>1. Init => Current
  <2> SUFFICES ASSUME Init PROVE Current
    OBVIOUS
  <2>1. DOMAIN cache = {} /\ rl = Idle /\ \A r \in Resolvers : rs[r] = Idle
    BY EmptySeq DEF Init
  <2>2. ~lint.valid
    BY DEF Init
  <2>3. QED
    BY <2>1, <2>2 DEF Current
<1>2. Shape /\ Current /\ [Next]_vars => Current'
  <2> SUFFICES ASSUME Shape, Current, [Next]_vars PROVE Current'
    OBVIOUS
  <2>1. CASE Owner
    BY <2>1, CurrentOwner
  <2>2. CASE UNCHANGED vars
    BY <2>2 DEF vars, Current, Fits
  <2>3. CASE Next /\ ~Owner
    BY <2>3, CurrentOthers DEF Next
  <2>4. QED
    BY <2>1, <2>2, <2>3
<1>3. Current => CachesCurrent
  BY DEF Current, Fits, CachesCurrent
<1>4. QED
  BY <1>1, <1>2, <1>3, ShapeInit, ShapeNext, PTL DEF Spec

-----------------------------------------------------------------------------
(* What the search of a rule list finds.                                   *)

\* The recursion that FindBestPolicyMatch stands for, as an equation.
IsSearch(best, rules, candidates, env) ==
  best = [n \in 0 .. Len(rules) |->
            IF n = 0 THEN NoMatch
            ELSE IF n \in candidates /\ RuleMatches(rules[n], env)
                 THEN Consider(best[n - 1], rules[n]) ELSE best[n - 1]]

\* There is such a search.
LEMMA SearchExists ==
  ASSUME NEW R, NEW rules \in Seq(R), \A i \in DOMAIN rules : rules[i].priority \in Nat,
         NEW candidates, NEW env
  PROVE  \E best : IsSearch(best, rules, candidates, env)
<1> DEFINE N == Len(rules)
           Policies == {FactoryPolicy} \cup {rules[i].policy : i \in 1 .. N}
           Results == [found : BOOLEAN, policy : Policies, priority : Nat,
                       conflict : BOOLEAN]
           Turn(b, n) == IF n \in candidates /\ RuleMatches(rules[n], env)
                         THEN Consider(b, rules[n]) ELSE b
           step == [n \in 1 .. N |-> [b \in Results |-> Turn(b, n)]]
<1>1. N \in Nat /\ NoMatch \in Results
  BY DEF NoMatch
<1>2. ASSUME NEW n \in 1 .. N, NEW b \in Results PROVE Turn(b, n) \in Results
  <2>1. rules[n].priority \in Nat /\ rules[n].policy \in Policies
    OBVIOUS
  <2> HIDE DEF Policies
  <2>2. [b EXCEPT !.conflict = @ \/ rules[n].priority = b.priority] \in Results
    OBVIOUS
  <2>3. QED BY <2>1, <2>2 DEF Consider
<1>3. step \in [1 .. N -> [Results -> Results]]
  <2> HIDE DEF Turn, Results
  <2>1. QED BY <1>2
<1>4. PICK f \in [0 .. N -> Results] :
        f[0] = NoMatch /\ \A n \in 1 .. N : f[n] = step[n][f[n - 1]]
  <2> HIDE DEF step, Results, N
  <2>1. Runs(N, Results, NoMatch, step) # {}
    BY <1>1, <1>3, RecursionOnPositions
  <2>2. QED BY <2>1 DEF Runs
<1>5. ASSUME NEW n \in 1 .. N PROVE f[n] = Turn(f[n - 1], n)
  <2>1. n - 1 \in 0 .. N
    OBVIOUS
  <2> HIDE DEF Turn, Results
  <2>2. f[n - 1] \in Results
    BY <2>1
  <2>3. QED BY <2>2, <1>4
<1>6. IsSearch(f, rules, candidates, env)
  <2>1. f = [n \in 0 .. N |-> f[n]]
    OBVIOUS
  <2> HIDE DEF Results
  <2>2. \A n \in 0 .. N : f[n] = IF n = 0 THEN NoMatch ELSE Turn(f[n - 1], n)
    <3> HIDE DEF Turn
    <3>1. QED BY <1>4, <1>5
  <2>3. QED BY <2>1, <2>2 DEF IsSearch
<1>7. QED BY <1>6

\* The loop of FindBestPolicyMatch is one.
LEMMA SearchEquation ==
  ASSUME NEW R, NEW rules \in Seq(R), \A i \in DOMAIN rules : rules[i].priority \in Nat,
         NEW index, NEW env
  PROVE  \E best : /\ IsSearch(best, rules, Candidates(rules, index, env.topic), env)
                   /\ FindBestPolicyMatch(rules, index, env) = best[Len(rules)]
<1> DEFINE c == Candidates(rules, index, env.topic)
           b == CHOOSE best : IsSearch(best, rules, c, env)
<1>1. IsSearch(b, rules, c, env)
  <2>1. \E best : IsSearch(best, rules, c, env)
    <3> HIDE DEF c
    <3>1. QED BY SearchExists
  <2>2. QED BY <2>1
<1>2. FindBestPolicyMatch(rules, index, env) = b[Len(rules)]
  BY Zenon DEF FindBestPolicyMatch, IsSearch
<1>3. QED BY <1>1, <1>2

\* b is the choice among the rules at the positions of X: the first of the
\* highest priority, in conflict when there is another of that priority.
Chooses(b, rules, X) ==
  \/ X = {} /\ b = NoMatch
  \/ \E k \in X :
       /\ \A j \in X : rules[j].priority <= rules[k].priority
       /\ \A j \in X : rules[j].priority = rules[k].priority => k <= j
       /\ b = [found |-> TRUE, policy |-> rules[k].policy, priority |-> rules[k].priority,
               conflict |-> \E j \in X : j # k /\ rules[j].priority = rules[k].priority]

\* One turn of the loop, with a position behind all those of X.
LEMMA ConsiderChooses ==
  ASSUME NEW R, NEW rules \in Seq(R), \A i \in DOMAIN rules : rules[i].priority \in Nat,
         NEW n \in DOMAIN rules, NEW X \in SUBSET (1 .. n - 1),
         NEW b, Chooses(b, rules, X)
  PROVE  Chooses(Consider(b, rules[n]), rules, X \cup {n})
<1> DEFINE p(i) == rules[i].priority
           Y == X \cup {n}
<1>1. \A i \in Y : i \in DOMAIN rules /\ p(i) \in Nat
  OBVIOUS
<1>2. CASE X = {} /\ b = NoMatch
  <2>1. Consider(b, rules[n]) = [found |-> TRUE, policy |-> rules[n].policy, priority |-> p(n),
                                conflict |-> FALSE]
    BY <1>2 DEF Consider, NoMatch
  <2>2. (\E j \in Y : j # n /\ p(j) = p(n)) = FALSE
    BY <1>2
  <2>3. QED BY <1>1, <1>2, <2>1, <2>2 DEF Chooses
<1>3. ASSUME NEW k \in X,
             \A j \in X : p(j) <= p(k),
             \A j \in X : p(j) = p(k) => k <= j,
             b = [found |-> TRUE, policy |-> rules[k].policy, priority |-> p(k),
                  conflict |-> \E j \in X : j # k /\ p(j) = p(k)]
      PROVE  Chooses(Consider(b, rules[n]), rules, Y)
  <2>1. k \in 1 .. n - 1 /\ p(k) \in Nat /\ p(n) \in Nat /\ n \notin X
    BY <1>1
  <2>2. CASE p(n) > p(k)
    <3>1. Consider(b, rules[n]) = [found |-> TRUE, policy |-> rules[n].policy, priority |-> p(n),
                                  conflict |-> FALSE]
      BY <1>3, <2>2 DEF Consider
    <3>2. \A j \in X : p(j) < p(n)
      BY <1>1, <1>3, <2>1, <2>2
    <3>3. (\E j \in Y : j # n /\ p(j) = p(n)) = FALSE
      BY <1>1, <3>2
    <3>4. \A j \in Y : p(j) <= p(n) /\ (p(j) = p(n) => n <= j)
      BY <1>1, <2>1, <3>2
    <3>5. QED BY <3>1, <3>3, <3>4 DEF Chooses
  <2>3. CASE ~(p(n) > p(k))
    <3> DEFINE c == \E j \in X : j # k /\ p(j) = p(k)
    <3>1. Consider(b, rules[n]) = [found |-> TRUE, policy |-> rules[k].policy, priority |-> p(k),
                                  conflict |-> c \/ p(n) = p(k)]
      <4> HIDE DEF c
      <4>1. b.found /\ b.priority = p(k)
        BY <1>3
      <4>2. Consider(b, rules[n]) = [b EXCEPT !.conflict = @ \/ p(n) = b.priority]
        BY <4>1, <2>3, Zenon DEF Consider
      <4>3. b.conflict = c
        BY <1>3, Zenon DEF c
      <4>4. b = [found |-> TRUE, policy |-> rules[k].policy, priority |-> p(k), conflict |-> c]
        BY <1>3, Zenon DEF c
      <4>5. PICK z : z = (b.conflict \/ p(n) = b.priority)
        OBVIOUS
      <4>6. z = (c \/ p(n) = p(k))
        BY <4>1, <4>3, <4>5
      <4>7. Consider(b, rules[n]) = [b EXCEPT !.conflict = z]
        BY <4>2, <4>5
      <4>8. [b EXCEPT !.conflict = z]
              = [found |-> TRUE, policy |-> rules[k].policy, priority |-> p(k), conflict |-> z]
        <5>1. PICK f, q, r, y : f = TRUE /\ q = rules[k].policy /\ r = p(k) /\ y = c
          OBVIOUS
        <5>2. b = [found |-> f, policy |-> q, priority |-> r, conflict |-> y]
          BY <4>4, <5>1
        <5>3. [b EXCEPT !.conflict = z]
                = [found |-> f, policy |-> q, priority |-> r, conflict |-> z]
          BY <5>2
        <5>4. QED BY <5>1, <5>3
      <4>9. QED BY <4>6, <4>7, <4>8
    <3>2. (c \/ p(n) = p(k)) = (\E j \in Y : j # k /\ p(j) = p(k))
      BY <2>1
    <3>3. \A j \in Y : p(j) <= p(k) /\ (p(j) = p(k) => k <= j)
      BY <1>1, <1>3, <2>1, <2>3
    <3> HIDE DEF c
    <3>4. k \in Y
      OBVIOUS
    <3>5. QED BY <3>1, <3>2, <3>3, <3>4 DEF Chooses
  <2>4. QED BY <2>2, <2>3
<1>4. QED BY <1>2, <1>3 DEF Chooses

\* The loop chooses among all the candidates that match.
LEMMA SearchChooses ==
  ASSUME NEW R, NEW rules \in Seq(R), \A i \in DOMAIN rules : rules[i].priority \in Nat,
         NEW index, NEW env
  PROVE  Chooses(FindBestPolicyMatch(rules, index, env), rules,
                 {i \in DOMAIN rules : /\ i \in Candidates(rules, index, env.topic)
                                       /\ RuleMatches(rules[i], env)})
<1> DEFINE N == Len(rules)
           c == Candidates(rules, index, env.topic)
           Passed(n) == {i \in 1 .. n : i \in c /\ RuleMatches(rules[i], env)}
<1>1. PICK best : /\ IsSearch(best, rules, c, env)
                  /\ FindBestPolicyMatch(rules, index, env) = best[N]
  BY SearchEquation
<1> DEFINE T == {n \in 0 .. N : Chooses(best[n], rules, Passed(n))}
<1>2. N \in Nat /\ DOMAIN rules = 1 .. N
  OBVIOUS
<1> HIDE DEF c
<1>3. 0 \in T
  <2>1. best[0] = NoMatch
    BY <1>1, <1>2 DEF IsSearch
  <2>2. Passed(0) = {}
    OBVIOUS
  <2>3. QED BY <1>2, <2>1, <2>2 DEF Chooses
<1>4. ASSUME NEW n \in 0 .. N - 1, n \in T PROVE n + 1 \in T
  <2>1. /\ n + 1 \in 1 .. N /\ (n + 1) - 1 = n
        /\ best[n + 1] = IF n + 1 \in c /\ RuleMatches(rules[n + 1], env)
                         THEN Consider(best[n], rules[n + 1]) ELSE best[n]
    BY <1>1, <1>2 DEF IsSearch
  <2>2. CASE n + 1 \in c /\ RuleMatches(rules[n + 1], env)
    <3>1. Passed(n + 1) = Passed(n) \cup {n + 1}
      BY <2>2
    <3>2. Passed(n) \in SUBSET (1 .. (n + 1) - 1) /\ n + 1 \in DOMAIN rules
      BY <1>2, <2>1
    <3>3. Chooses(best[n], rules, Passed(n))
      BY <1>4
    <3> HIDE DEF Passed
    <3>4. Chooses(Consider(best[n], rules[n + 1]), rules, Passed(n) \cup {n + 1})
      <4>1. PICK m : m = n + 1
        OBVIOUS
      <4>2. m \in DOMAIN rules /\ Passed(n) \in SUBSET (1 .. m - 1)
        BY <3>2, <4>1
      <4>3. PICK b : b = best[n]
        OBVIOUS
      <4>4. Chooses(Consider(b, rules[m]), rules, Passed(n) \cup {m})
        BY <3>3, <4>2, <4>3, ConsiderChooses
      <4>5. QED BY <4>1, <4>3, <4>4, Zenon
    <3>5. n + 1 \in 0 .. N /\ best[n + 1] = Consider(best[n], rules[n + 1])
      BY <1>2, <2>1, <2>2
    <3>6. Chooses(best[n + 1], rules, Passed(n + 1))
      BY <3>1, <3>4, <3>5, Zenon
    <3>7. QED BY <3>5, <3>6
  <2>3. CASE ~(n + 1 \in c /\ RuleMatches(rules[n + 1], env))
    <3>1. Passed(n + 1) = Passed(n)
      BY <2>3
    <3> HIDE DEF Passed
    <3>2. QED BY <1>4, <2>1, <2>3, <3>1
  <2>4. QED BY <2>2, <2>3
<1>5. N \in T
  <2> HIDE DEF T
  <2>1. \A n \in 0 .. N : n \in T
    BY <1>2, <1>3, <1>4, IntervalInduction
  <2>2. QED BY <1>2, <2>1
<1>6. Passed(N) = {i \in DOMAIN rules : i \in c /\ RuleMatches(rules[i], env)}
  BY <1>2
<1>7. QED BY <1>1, <1>5, <1>6 DEF c

\* What is chosen among some positions of a list is the best of them.
LEMMA ChosenIsBest ==
  ASSUME NEW R, NEW rules \in Seq(R), \A i \in DOMAIN rules : rules[i].priority \in Nat,
         NEW X \in SUBSET DOMAIN rules, NEW b, Chooses(b, rules, X)
  PROVE  b = BestAmong(rules, X)
<1> DEFINE top == {i \in X : \A j \in X : rules[j].priority <= rules[i].priority}
<1>3. X \subseteq DOMAIN rules /\ DOMAIN rules = 1 .. Len(rules) /\ Len(rules) \in Nat
  OBVIOUS
<1>5. BestAmong(rules, X)
        = IF top = {} THEN NoMatch
          ELSE [found |-> TRUE, policy |-> rules[Min(top)].policy,
                priority |-> rules[Min(top)].priority,
                conflict |-> Cardinality(top) > 1]
  BY Zenon DEF BestAmong
<1>6. CASE X = {} /\ b = NoMatch
  BY <1>5, <1>6
<1>7. ASSUME NEW k \in X,
             \A j \in X : rules[j].priority <= rules[k].priority,
             \A j \in X : rules[j].priority = rules[k].priority => k <= j,
             b = [found |-> TRUE, policy |-> rules[k].policy, priority |-> rules[k].priority,
                  conflict |-> \E j \in X : j # k /\ rules[j].priority = rules[k].priority]
      PROVE  b = BestAmong(rules, X)
  <2>1. \A i \in X : i \in 1 .. Len(rules) /\ rules[i].priority \in Nat
    BY <1>3
  <2>2. k \in top
    BY <1>7
  <2>3. top = {i \in X : rules[i].priority = rules[k].priority}
    BY <1>7, <2>1
  <2>4. top \subseteq 1 .. Len(rules) /\ \A i \in top : k <= i
    BY <1>7, <2>1, <2>3
  <2>8. top # {}
    BY <2>2
  <2> HIDE DEF top
  <2>5. Min(top) = k
    <3>1. PICK m : m = Min(top) /\ m \in top /\ \A y \in top : m <= y
      BY <2>2, <2>4 DEF Min
    <3>2. m <= k /\ k <= m /\ m \in Int /\ k \in Int
      BY <2>2, <2>4, <3>1
    <3>3. QED BY <3>1, <3>2
  <2>6. IsFiniteSet(top) /\ Cardinality(top) \in Nat
    <3>1. IsFiniteSet(1 .. Len(rules))
      BY <1>3, FS_Interval
    <3>2. QED BY <3>1, <2>4, FS_Subset, FS_CardinalityType
  <2>7. (Cardinality(top) > 1) = (\E j \in X : j # k /\ rules[j].priority = rules[k].priority)
    <3>1. (\E j \in X : j # k /\ rules[j].priority = rules[k].priority) <=> top # {k}
      BY <2>2, <2>3
    <3>2. Cardinality(top) = 1 <=> top = {k}
      <4>1. Cardinality(top) = 1 <=> \E x : top = {x}
        BY <2>6, FS_Singleton, Zenon
      <4>2. (\E x : top = {x}) <=> top = {k}
        BY <2>2
      <4>3. QED BY <4>1, <4>2, Zenon
    <3>3. Cardinality(top) # 0
      BY <2>2, <2>6, FS_EmptySet
    <3>4. Cardinality(top) > 1 <=> top # {k}
      BY <2>6, <3>2, <3>3
    <3>5. PICK x, y : /\ x = (Cardinality(top) > 1)
                      /\ y = (\E j \in X : j # k /\ rules[j].priority = rules[k].priority)
      OBVIOUS
    <3>6. x \in BOOLEAN /\ y \in BOOLEAN
      BY <3>5
    <3>7. x = TRUE <=> y = TRUE
      BY <3>1, <3>4, <3>5
    <3>8. x = y
      BY <3>6, <3>7
    <3>9. QED BY <3>5, <3>8, Zenon
  <2>9. QED BY <1>5, <1>7, <2>5, <2>7, <2>8, Zenon
<1>8. QED BY <1>6, <1>7 DEF Chooses

\* With the index of its rules, the search of a list finds the best of all
\* rules that match, or, when a rule has the envelope's topic, the best of
\* those that match and have no wildcard topic.
LEMMA SearchIsReference ==
  ASSUME NEW R, NEW rules \in Seq(R), \A i \in DOMAIN rules : rules[i].priority \in Nat,
         NEW env
  PROVE  BestOrNarrowed(rules, env, FindBestPolicyMatch(rules, TopicIndex(rules), env))
<1> DEFINE b == FindBestPolicyMatch(rules, TopicIndex(rules), env)
           matching == {i \in DOMAIN rules : RuleMatches(rules[i], env)}
           narrow == {i \in matching : rules[i].topic \notin Wildcards}
           own == {i \in DOMAIN rules : rules[i].topic \in {env.topic} \ Wildcards}
           c == Candidates(rules, TopicIndex(rules), env.topic)
           X == {i \in DOMAIN rules : i \in c /\ RuleMatches(rules[i], env)}
<1>1. Chooses(b, rules, X)
  BY SearchChooses
<1>2. b = BestAmong(rules, X)
  <2> HIDE DEF b
  <2>1. X \in SUBSET DOMAIN rules
    OBVIOUS
  <2> HIDE DEF X
  <2>2. QED BY <1>1, <2>1, ChosenIsBest
<1>3. CASE own = {}
  <2>1. env.topic \notin DOMAIN TopicIndex(rules)
    BY <1>3 DEF TopicIndex
  <2>2. X = matching
    BY <2>1 DEF Candidates
  <2>3. b = BestAmong(rules, matching)
    BY <1>2, <2>2, Zenon
  <2>4. QED BY <2>3, Zenon DEF BestOrNarrowed, b, matching
<1>4. CASE own # {}
  <2>1. PICK i \in DOMAIN rules : rules[i].topic = env.topic /\ env.topic \notin Wildcards
    BY <1>4
  <2>2. env.topic \in DOMAIN TopicIndex(rules)
    BY <2>1 DEF TopicIndex
  <2>3. TopicIndex(rules)[env.topic] = {n \in DOMAIN rules : rules[n].topic = env.topic}
    BY <2>1 DEF TopicIndex
  <2>4. c = {n \in DOMAIN rules : rules[n].topic = env.topic}
    BY <2>2, <2>3, Zenon DEF Candidates
  <2>5. \A n \in matching : rules[n].topic \in Wildcards \/ rules[n].topic = env.topic
    BY DEF RuleMatches
  <2> HIDE DEF c
  <2>6. X = narrow
    BY <2>1, <2>4, <2>5
  <2>7. b = BestAmong(rules, narrow)
    BY <1>2, <2>6, Zenon
  <2>8. \E n \in DOMAIN rules : rules[n].topic \in {env.topic} \ Wildcards
    BY <2>1
  <2>9. QED BY <2>7, <2>8, Zenon DEF BestOrNarrowed, b, narrow, matching
<1>5. QED BY <1>3, <1>4

\* Two rules that match one envelope overlap.
LEMMA BothMatchOverlap ==
  ASSUME NEW r, NEW s, NEW env, RuleMatches(r, env), RuleMatches(s, env)
  PROVE  RulesOverlap(r, s)
<1>1. /\ Compatible(r.channel, s.channel) /\ Compatible(r.source, s.source)
      /\ Compatible(r.target, s.target) /\ Compatible(r.qos, s.qos)
  BY DEF RuleMatches, Accepts, Compatible
<1>2. r.topic \in Wildcards \/ s.topic \in Wildcards \/ r.topic = s.topic
  BY DEF RuleMatches
<1>3. QED BY <1>1, <1>2 DEF RulesOverlap

\* Lint lists a pair of rules of the list called name that both match env and
\* have the priority of found.
Listed(table, name, found, env) ==
  \E c \in CollectPolicyConflicts(table) :
    /\ c[1] = name
    /\ \A i \in {c[2], c[3]} : /\ RuleMatches(Lists(table)[name][i], env)
                               /\ Lists(table)[name][i].priority = found.priority

\* A conflict that a search runs into is a pair of rules that lint collects:
\* both match, and both have the priority of the rule that was chosen.
LEMMA ConflictIsCollected ==
  ASSUME NEW table, NEW name \in {"template", "rules", "overrides"},
         NEW rules, rules = Lists(table)[name], rules \in Seq(Range(rules)),
         \A i \in DOMAIN rules : rules[i].priority \in Nat,
         NEW index, NEW env, NEW found, found = FindBestPolicyMatch(rules, index, env),
         found.conflict
  PROVE  Listed(table, name, found, env)
<1> DEFINE b == found
           X == {i \in DOMAIN rules : /\ i \in Candidates(rules, index, env.topic)
                                      /\ RuleMatches(rules[i], env)}
           Top(i) == i \in X /\ rules[i].priority = b.priority
<1>1. Chooses(b, rules, X)
  BY SearchChooses
<1>2. b # NoMatch
  BY DEF NoMatch
<1>3. \E k, j : Top(k) /\ Top(j) /\ k # j
  <2> HIDE DEF X, b
  <2>1. PICK k \in X :
          b = [found |-> TRUE, policy |-> rules[k].policy, priority |-> rules[k].priority,
               conflict |-> \E j \in X : j # k /\ rules[j].priority = rules[k].priority]
    BY <1>1, <1>2 DEF Chooses
  <2>2. PICK z : z = (\E j \in X : j # k /\ rules[j].priority = rules[k].priority)
    OBVIOUS
  <2>3. b = [found |-> TRUE, policy |-> rules[k].policy, priority |-> rules[k].priority,
             conflict |-> z]
    BY <2>1, <2>2, Zenon
  <2>4. b.conflict = z /\ b.priority = rules[k].priority
    BY <2>3
  <2>5. z
    BY <2>4 DEF b
  <2>6. QED BY <2>2, <2>4, <2>5
<1>4. PICK k, j : Top(k) /\ Top(j) /\ k # j
  BY <1>3
<1>6. ASSUME NEW i, NEW h, Top(i), Top(h), i < h
      PROVE  Listed(table, name, b, env)
  <2> DEFINE l == Lists(table)
             Clashing(n) == {p \in (DOMAIN l[n]) \X (DOMAIN l[n]) :
                               /\ p[1] < p[2]
                               /\ l[n][p[1]].priority = l[n][p[2]].priority
                               /\ RulesOverlap(l[n][p[1]], l[n][p[2]])}
  <2> HIDE DEF b
  <2>0. /\ i \in DOMAIN rules /\ RuleMatches(rules[i], env) /\ rules[i].priority = b.priority
        /\ h \in DOMAIN rules /\ RuleMatches(rules[h], env) /\ rules[h].priority = b.priority
    BY <1>6
  <2>1. RulesOverlap(rules[i], rules[h])
    BY <2>0, BothMatchOverlap
  <2>2. <<i, h>> \in Clashing(name)
    BY <1>6, <2>0, <2>1
  <2>3. name \in DOMAIN l
    BY DEF Lists
  <2> HIDE DEF Clashing
  <2>4. CollectPolicyConflicts(table)
          = UNION {{<<n, p[1], p[2]>> : p \in Clashing(n)} : n \in DOMAIN l}
    BY Zenon DEF CollectPolicyConflicts, Clashing
  <2> HIDE DEF l
  <2>5. <<name, i, h>> \in {<<name, p[1], p[2]>> : p \in Clashing(name)}
    BY <2>2
  <2>6. {<<name, p[1], p[2]>> : p \in Clashing(name)}
          \in {{<<n, p[1], p[2]>> : p \in Clashing(n)} : n \in DOMAIN l}
    BY <2>3, Zenon
  <2>7. <<name, i, h>> \in CollectPolicyConflicts(table)
    BY <2>4, <2>5, <2>6, Zenon
  <2>8. PICK c : c = <<name, i, h>>
    OBVIOUS
  <2>9. c[1] = name /\ c[2] = i /\ c[3] = h
    BY <2>8
  <2>10. \A n \in {c[2], c[3]} : RuleMatches(rules[n], env) /\ rules[n].priority = b.priority
    BY <2>0, <2>9
  <2>11. QED BY <2>7, <2>8, <2>9, <2>10, Zenon DEF Listed
<1>7. k \in Int /\ j \in Int
  <2>1. k \in DOMAIN rules /\ j \in DOMAIN rules
    BY <1>4
  <2>2. QED BY <2>1
<1> HIDE DEF Top, b
<1>8. CASE k < j
  BY <1>4, <1>6, <1>8 DEF b
<1>9. CASE j < k
  BY <1>4, <1>6, <1>9 DEF b
<1>10. QED BY <1>4, <1>7, <1>8, <1>9

-----------------------------------------------------------------------------
(* What the two scans of lint count.                                       *)

\* One more element, or none: a counter moves by the same.
LEMMA CountOneMore ==
  ASSUME NEW S, IsFiniteSet(S), NEW x, x \notin S, NEW d \in {0, 1}, NEW A,
         d = 1 => A = {x}, d = 0 => A = {}
  PROVE  IsFiniteSet(S \cup A) /\ Cardinality(S \cup A) = Cardinality(S) + d
<1>0. Cardinality(S) \in Nat
  BY FS_CardinalityType
<1>1. CASE d = 1
  BY <1>0, <1>1, FS_AddElement
<1>2. CASE d = 0
  <2>1. S \cup A = S
    BY <1>2
  <2>2. IsFiniteSet(S \cup A) /\ Cardinality(S \cup A) = Cardinality(S)
    BY <2>1, Zenon
  <2>3. QED BY <1>0, <1>2, <2>2
<1>3. QED BY <1>1, <1>2

\* The complaints about the first n rules.
IssuesUpTo(name, rules, n) ==
  {c \in {name} \X (1 .. n) \X {"timeout", "retry", "topic"} :
     c[3] \in RuleIssues(rules[c[2]])}
DropsUpTo(name, rules, n) ==
  {<<name, i, "drop">> : i \in {j \in 1 .. n : OddDrop(rules[j].policy)}}

\* The recursion that ScanRules stands for, as an equation.
IsScan(counted, rules) ==
  counted = [n \in 0 .. Len(rules) |->
    IF n = 0 THEN [issues |-> 0, warnings |-> 0]
    ELSE LET so == counted[n - 1]
             p == rules[n].policy
         IN [issues |-> so.issues + Bit(rules[n].topic = NoTopic)
                        + Bit(BadTimeout(p)) + Bit(BadRetry(p)),
             warnings |-> so.warnings + Bit(OddDrop(p))]]

\* There is such a count, and it goes up by one for every complaint.
LEMMA ScanEquation ==
  ASSUME NEW R, NEW rules \in Seq(R)
  PROVE  \E counted \in [0 .. Len(rules) -> [issues : Nat, warnings : Nat]] :
           /\ ScanRules(rules) = counted[Len(rules)]
           /\ counted[0] = [issues |-> 0, warnings |-> 0]
           /\ \A n \in 1 .. Len(rules) :
                counted[n] =
                  [issues |-> counted[n - 1].issues + Bit(rules[n].topic = NoTopic)
                              + Bit(BadTimeout(rules[n].policy)) + Bit(BadRetry(rules[n].policy)),
                   warnings |-> counted[n - 1].warnings + Bit(OddDrop(rules[n].policy))]
<1> DEFINE N == Len(rules)
           Counters == [issues : Nat, warnings : Nat]
           Zero == [issues |-> 0, warnings |-> 0]
           Turn(so, n) ==
             [issues |-> so.issues + Bit(rules[n].topic = NoTopic)
                         + Bit(BadTimeout(rules[n].policy)) + Bit(BadRetry(rules[n].policy)),
              warnings |-> so.warnings + Bit(OddDrop(rules[n].policy))]
           step == [n \in 1 .. N |-> [so \in Counters |-> Turn(so, n)]]
<1>1. N \in Nat /\ Zero \in Counters
  OBVIOUS
<1>2. ASSUME NEW n \in 1 .. N, NEW so \in Counters PROVE Turn(so, n) \in Counters
  <2>1. PICK a \in Nat, b \in Nat : a = so.issues /\ b = so.warnings
    OBVIOUS
  <2>2. PICK x, y, z, w : /\ x = Bit(rules[n].topic = NoTopic)
                          /\ y = Bit(BadTimeout(rules[n].policy))
                          /\ z = Bit(BadRetry(rules[n].policy))
                          /\ w = Bit(OddDrop(rules[n].policy))
    OBVIOUS
  <2>3. x \in {0, 1} /\ y \in {0, 1} /\ z \in {0, 1} /\ w \in {0, 1}
    BY <2>2 DEF Bit
  <2>4. Turn(so, n) = [issues |-> a + x + y + z, warnings |-> b + w]
    BY <2>1, <2>2, Zenon
  <2> HIDE DEF Turn
  <2>5. QED BY <2>3, <2>4
<1>3. step \in [1 .. N -> [Counters -> Counters]]
  <2> HIDE DEF Turn, Counters
  <2>1. QED BY <1>2
<1>4. PICK f \in [0 .. N -> Counters] :
        f[0] = Zero /\ \A n \in 1 .. N : f[n] = step[n][f[n - 1]]
  <2> HIDE DEF step, Counters, N, Zero
  <2>1. Runs(N, Counters, Zero, step) # {}
    BY <1>1, <1>3, RecursionOnPositions
  <2>2. QED BY <2>1 DEF Runs
<1>5. ASSUME NEW n \in 1 .. N PROVE f[n] = Turn(f[n - 1], n)
  <2>1. n - 1 \in 0 .. N
    OBVIOUS
  <2> HIDE DEF Turn, Counters
  <2>2. f[n - 1] \in Counters
    BY <2>1
  <2>3. QED BY <2>2, <1>4
<1>6. IsScan(f, rules)
  <2>1. f = [n \in 0 .. N |-> f[n]]
    OBVIOUS
  <2> HIDE DEF Counters
  <2>2. \A n \in 0 .. N : f[n] = IF n = 0 THEN Zero ELSE Turn(f[n - 1], n)
    <3> HIDE DEF Turn, Zero
    <3>1. QED BY <1>4, <1>5
  <2> HIDE DEF Turn, Zero
  <2>3. f = [n \in 0 .. N |-> IF n = 0 THEN Zero ELSE Turn(f[n - 1], n)]
    BY <2>1, <2>2
  <2>4. QED BY <2>3, Zenon DEF IsScan, Turn, Zero
<1> DEFINE g == CHOOSE counted : IsScan(counted, rules)
<1>7. IsScan(g, rules)
  BY <1>6
<1>8. ScanRules(rules) = g[N]
  BY Zenon DEF ScanRules, IsScan
<1>9. g = [n \in 0 .. N |-> IF n = 0 THEN Zero ELSE Turn(g[n - 1], n)]
  BY <1>7, Zenon DEF IsScan
<1> HIDE DEF g
<1>10. g[0] = Zero /\ \A n \in 1 .. N : g[n] = Turn(g[n - 1], n)
  <2> HIDE DEF Turn, Zero
  <2>1. QED BY <1>1, <1>9, SMTT(30)
<1> DEFINE T == {n \in 0 .. N : g[n] \in Counters}
<1>11. N \in Nat /\ 0 \in T /\ \A n \in 0 .. N - 1 : n \in T => n + 1 \in T
  <2>1. 0 \in T
    BY <1>1, <1>10
  <2>2. ASSUME NEW n \in 0 .. N - 1, n \in T PROVE n + 1 \in T
    <3>1. n + 1 \in 1 .. N /\ (n + 1) - 1 = n /\ g[n] \in Counters
      BY <2>2
    <3>2. PICK m \in 1 .. N : m = n + 1 /\ m - 1 = n /\ m \in 0 .. N
      BY <3>1
    <3> HIDE DEF Turn, Counters
    <3>3. g[m] \in Counters
      BY <1>2, <1>10, <3>1, <3>2
    <3>4. QED BY <3>2, <3>3
  <2>3. QED BY <1>1, <2>1, <2>2
<1>12. \A n \in 0 .. N : n \in T
  <2> HIDE DEF T, N
  <2>1. QED BY <1>11, IntervalInduction
<1>13. g \in [0 .. N -> Counters]
  <2> HIDE DEF Turn, Zero, Counters
  <2>1. QED BY <1>9, <1>12
<1>14. QED BY <1>8, <1>10, <1>13

\* The complaints about one more rule.
LEMMA NextRuleIssues ==
  ASSUME NEW name, NEW rules, NEW n \in Nat, NEW k, k = n + 1,
         IsFiniteSet(IssuesUpTo(name, rules, n))
  PROVE  /\ IsFiniteSet(IssuesUpTo(name, rules, k))
         /\ Cardinality(IssuesUpTo(name, rules, k))
              = Cardinality(IssuesUpTo(name, rules, n)) + Bit(rules[k].topic = NoTopic)
                + Bit(BadTimeout(rules[k].policy)) + Bit(BadRetry(rules[k].policy))
<1> DEFINE p == rules[k].policy
           S == IssuesUpTo(name, rules, n)
           A == If(rules[k].topic = NoTopic, <<name, k, "topic">>)
           B == If(BadTimeout(p), <<name, k, "timeout">>)
           C == If(BadRetry(p), <<name, k, "retry">>)
<1>1. PICK x, y, z : /\ x = Bit(rules[k].topic = NoTopic) /\ y = Bit(BadTimeout(p))
                     /\ z = Bit(BadRetry(p))
  OBVIOUS
<1>2. x \in {0, 1} /\ y \in {0, 1} /\ z \in {0, 1}
  BY <1>1 DEF Bit
<1>3. /\ x = 1 => A = {<<name, k, "topic">>}
      /\ x = 0 => A = {}
      /\ y = 1 => B = {<<name, k, "timeout">>}
      /\ y = 0 => B = {}
      /\ z = 1 => C = {<<name, k, "retry">>}
      /\ z = 0 => C = {}
  BY <1>1 DEF Bit, If
<1>4. \A c \in S : c[2] # k
  BY DEF IssuesUpTo
<1>5. <<name, k, "topic">> \notin S /\ <<name, k, "timeout">> \notin S \cup A
      /\ <<name, k, "retry">> \notin (S \cup A) \cup B
  <2>1. A \subseteq {<<name, k, "topic">>} /\ B \subseteq {<<name, k, "timeout">>}
    BY DEF If
  <2> HIDE DEF S, A, B
  <2>2. QED BY <1>4, <2>1
<1>6. IssuesUpTo(name, rules, k) = ((S \cup A) \cup B) \cup C
  <2>1. RuleIssues(rules[k]) = (If(BadTimeout(p), "timeout") \cup If(BadRetry(p), "retry"))
                              \cup If(rules[k].topic = NoTopic, "topic")
    BY DEF RuleIssues, PolicyIssues
  <2>2. ASSUME NEW c \in IssuesUpTo(name, rules, k) PROVE c \in ((S \cup A) \cup B) \cup C
    <3>1. PICK i \in 1 .. k, w \in {"timeout", "retry", "topic"} : c = <<name, i, w>>
                                                                   /\ w \in RuleIssues(rules[i])
      BY DEF IssuesUpTo
    <3>2. CASE i = k
      BY <3>1, <3>2, <2>1 DEF If
    <3>3. CASE i # k
      <4>1. i \in 1 .. n
        BY <3>3
      <4>2. c \in S
        BY <3>1, <4>1 DEF IssuesUpTo
      <4>3. QED BY <4>2
    <3>4. QED BY <3>2, <3>3
  <2>3. S \subseteq IssuesUpTo(name, rules, k)
    BY DEF IssuesUpTo
  <2>4. A \subseteq IssuesUpTo(name, rules, k)
    <3>1. CASE rules[k].topic = NoTopic
      <4>1. "topic" \in RuleIssues(rules[k])
        BY <3>1, <2>1 DEF If
      <4>2. <<name, k, "topic">> \in IssuesUpTo(name, rules, k)
        BY <4>1 DEF IssuesUpTo
      <4>3. QED BY <4>2 DEF If
    <3>2. CASE rules[k].topic # NoTopic
      BY <3>2 DEF If
    <3>3. QED BY <3>1, <3>2
  <2>5. B \subseteq IssuesUpTo(name, rules, k)
    <3>1. CASE BadTimeout(p)
      <4>1. "timeout" \in RuleIssues(rules[k])
        BY <3>1, <2>1 DEF If
      <4>2. <<name, k, "timeout">> \in IssuesUpTo(name, rules, k)
        BY <4>1 DEF IssuesUpTo
      <4>3. QED BY <4>2 DEF If
    <3>2. CASE ~BadTimeout(p)
      BY <3>2 DEF If
    <3>3. QED BY <3>1, <3>2
  <2>6. C \subseteq IssuesUpTo(name, rules, k)
    <3>1. CASE BadRetry(p)
      <4>1. "retry" \in RuleIssues(rules[k])
        BY <3>1, <2>1 DEF If
      <4>2. <<name, k, "retry">> \in IssuesUpTo(name, rules, k)
        BY <4>1 DEF IssuesUpTo
      <4>3. QED BY <4>2 DEF If
    <3>2. CASE ~BadRetry(p)
      BY <3>2 DEF If
    <3>3. QED BY <3>1, <3>2
  <2> HIDE DEF S, A, B, C
  <2>7. QED BY <2>2, <2>3, <2>4, <2>5, <2>6
<1>7. Cardinality(S) \in Nat
  BY FS_CardinalityType
<1> HIDE DEF S, A, B, C
<1>8. IsFiniteSet(S \cup A) /\ Cardinality(S \cup A) = Cardinality(S) + x
  <2>1. IsFiniteSet(S)
    BY DEF S
  <2>2. QED BY <1>2, <1>3, <1>5, <2>1, CountOneMore
<1>9. IsFiniteSet((S \cup A) \cup B)
      /\ Cardinality((S \cup A) \cup B) = Cardinality(S \cup A) + y
  BY <1>2, <1>3, <1>5, <1>8, CountOneMore, ZenonT(60)
<1>10. IsFiniteSet(((S \cup A) \cup B) \cup C)
       /\ Cardinality(((S \cup A) \cup B) \cup C) = Cardinality((S \cup A) \cup B) + z
  BY <1>2, <1>3, <1>5, <1>9, CountOneMore, ZenonT(60)
<1>11. QED
  <2>1. Cardinality(IssuesUpTo(name, rules, k)) = Cardinality(S) + x + y + z
    BY <1>6, <1>8, <1>9, <1>10
  <2>2. QED BY <1>1, <1>6, <1>10, <2>1 DEF S

\* The warnings about one more rule.
LEMMA NextRuleDrops ==
  ASSUME NEW name, NEW rules, NEW n \in Nat, NEW k, k = n + 1,
         IsFiniteSet(DropsUpTo(name, rules, n))
  PROVE  /\ IsFiniteSet(DropsUpTo(name, rules, k))
         /\ Cardinality(DropsUpTo(name, rules, k))
              = Cardinality(DropsUpTo(name, rules, n)) + Bit(OddDrop(rules[k].policy))
<1> DEFINE p == rules[k].policy
           S == DropsUpTo(name, rules, n)
           A == If(OddDrop(p), <<name, k, "drop">>)
<1>1. PICK x : x = Bit(OddDrop(p))
  OBVIOUS
<1>2. x \in {0, 1} /\ (x = 1 => A = {<<name, k, "drop">>}) /\ (x = 0 => A = {})
  BY <1>1 DEF Bit, If
<1>3. <<name, k, "drop">> \notin S
  BY DEF DropsUpTo
<1>4. DropsUpTo(name, rules, k) = S \cup A
  <2>1. \A i : i \in 1 .. k <=> i \in 1 .. n \/ i = k
    OBVIOUS
  <2>2. CASE OddDrop(p)
    BY <2>1, <2>2 DEF DropsUpTo, If
  <2>3. CASE ~OddDrop(p)
    BY <2>1, <2>3 DEF DropsUpTo, If
  <2>4. QED BY <2>2, <2>3
<1> HIDE DEF A
<1>5. IsFiniteSet(S \cup A) /\ Cardinality(S \cup A) = Cardinality(S) + x
  <2> HIDE DEF S
  <2>1. IsFiniteSet(S)
    BY DEF S
  <2>2. QED BY <1>2, <1>3, <2>1, CountOneMore
<1>6. QED BY <1>1, <1>4, <1>5

\* ScanRules counts the complaints about a list.
LEMMA ScanCounts ==
  ASSUME NEW R, NEW rules \in Seq(R), NEW name
  PROVE  /\ IsFiniteSet(ListIssues(name, rules))
         /\ Cardinality(ListIssues(name, rules)) = ScanRules(rules).issues
         /\ IsFiniteSet(DropsUpTo(name, rules, Len(rules)))
         /\ Cardinality(DropsUpTo(name, rules, Len(rules))) = ScanRules(rules).warnings
         /\ ScanRules(rules).issues \in Nat /\ ScanRules(rules).warnings \in Nat
<1> DEFINE N == Len(rules)
           I(n) == IssuesUpTo(name, rules, n)
           D(n) == DropsUpTo(name, rules, n)
<1>1. N \in Nat /\ DOMAIN rules = 1 .. N
  OBVIOUS
<1>2. PICK counted \in [0 .. N -> [issues : Nat, warnings : Nat]] :
        /\ ScanRules(rules) = counted[N]
        /\ counted[0] = [issues |-> 0, warnings |-> 0]
        /\ \A n \in 1 .. N :
             counted[n] =
               [issues |-> counted[n - 1].issues + Bit(rules[n].topic = NoTopic)
                           + Bit(BadTimeout(rules[n].policy)) + Bit(BadRetry(rules[n].policy)),
                warnings |-> counted[n - 1].warnings + Bit(OddDrop(rules[n].policy))]
  BY ScanEquation, Zenon
<1> DEFINE T == {n \in 0 .. N :
                   /\ IsFiniteSet(I(n)) /\ Cardinality(I(n)) = counted[n].issues
                   /\ IsFiniteSet(D(n)) /\ Cardinality(D(n)) = counted[n].warnings}
<1>3. 0 \in T
  <2>1. I(0) = {} /\ D(0) = {}
    BY DEF IssuesUpTo, DropsUpTo
  <2>2. IsFiniteSet({}) /\ Cardinality({}) = 0
    BY FS_EmptySet
  <2>3. counted[0].issues = 0 /\ counted[0].warnings = 0
    BY <1>2
  <2>4. /\ IsFiniteSet(I(0)) /\ Cardinality(I(0)) = counted[0].issues
        /\ IsFiniteSet(D(0)) /\ Cardinality(D(0)) = counted[0].warnings
    BY <2>1, <2>2, <2>3, Zenon
  <2> HIDE DEF I, D
  <2>5. QED BY <1>1, <2>4
<1>4. ASSUME NEW n \in 0 .. N - 1, n \in T PROVE n + 1 \in T
  <2>1. PICK k : k = n + 1 /\ k \in 1 .. N /\ k \in 0 .. N /\ k - 1 = n /\ n \in Nat
    BY <1>1
  <2>2. /\ IsFiniteSet(I(n)) /\ Cardinality(I(n)) = counted[n].issues
        /\ IsFiniteSet(D(n)) /\ Cardinality(D(n)) = counted[n].warnings
    BY <1>4
  <2>3. counted[k] =
          [issues |-> counted[n].issues + Bit(rules[k].topic = NoTopic)
                      + Bit(BadTimeout(rules[k].policy)) + Bit(BadRetry(rules[k].policy)),
           warnings |-> counted[n].warnings + Bit(OddDrop(rules[k].policy))]
    BY <1>2, <2>1
  <2>4. /\ counted[k].issues = counted[n].issues + Bit(rules[k].topic = NoTopic)
             + Bit(BadTimeout(rules[k].policy)) + Bit(BadRetry(rules[k].policy))
        /\ counted[k].warnings = counted[n].warnings + Bit(OddDrop(rules[k].policy))
    BY <2>3
  <2>5. IsFiniteSet(I(k)) /\ Cardinality(I(k)) = counted[k].issues
    BY <2>1, <2>2, <2>4, NextRuleIssues
  <2>6. IsFiniteSet(D(k)) /\ Cardinality(D(k)) = counted[k].warnings
    BY <2>1, <2>2, <2>4, NextRuleDrops
  <2> HIDE DEF I, D
  <2>7. k \in T
    BY <2>1, <2>5, <2>6
  <2>8. QED BY <2>1, <2>7
<1>5. N \in T
  <2> HIDE DEF T, N
  <2>1. \A n \in 0 .. N : n \in T
    BY <1>1, <1>3, <1>4, IntervalInduction
  <2>2. QED BY <1>1, <2>1
<1>6. ListIssues(name, rules) = I(N)
  BY <1>1 DEF ListIssues, IssuesUpTo
<1>7. counted[N] \in [issues : Nat, warnings : Nat]
  BY <1>1, <1>2
<1> HIDE DEF I
<1>8. QED BY <1>2, <1>5, <1>6, <1>7

\* Two sets with nothing in common.
LEMMA DisjointUnion ==
  ASSUME NEW S, NEW T, IsFiniteSet(S), IsFiniteSet(T), S \cap T = {}
  PROVE  /\ IsFiniteSet(S \cup T) /\ Cardinality(S \cup T) = Cardinality(S) + Cardinality(T)
         /\ Cardinality(S) \in Nat /\ Cardinality(T) \in Nat
<1>1. Cardinality(S) \in Nat /\ Cardinality(T) \in Nat
  BY FS_CardinalityType
<1>2. IsFiniteSet(S \cup T)
      /\ Cardinality(S \cup T) = Cardinality(S) + Cardinality(T) - Cardinality(S \cap T)
  BY FS_Union
<1>3. Cardinality(S \cap T) = 0
  BY FS_EmptySet
<1>4. QED BY <1>1, <1>2, <1>3

\* A test that adds an element to the empty set, or does not.
LEMMA CountIf ==
  ASSUME NEW x, NEW d \in {0, 1}, NEW A, d = 1 => A = {x}, d = 0 => A = {}
  PROVE  IsFiniteSet(A) /\ Cardinality(A) = d
<1>1. IsFiniteSet({}) /\ Cardinality({}) = 0
  BY FS_EmptySet
<1>2. IsFiniteSet({} \cup A) /\ Cardinality({} \cup A) = 0 + d
  BY <1>1, CountOneMore, ZenonT(60)
<1>3. {} \cup A = A
  OBVIOUS
<1>4. QED BY <1>2, <1>3

\* What lint says of one list, and what the second scan counts.
LEMMA ListWarningsCounted ==
  ASSUME NEW R, NEW rules \in Seq(R), NEW name
  PROVE  /\ IsFiniteSet(ListWarnings(name, rules))
         /\ Cardinality(ListWarnings(name, rules))
              = ScanRules(rules).warnings + Bit(rules = <<>>)
<1> DEFINE A == If(rules = <<>>, <<name, 0, "empty">>)
           D == DropsUpTo(name, rules, Len(rules))
<1>1. PICK d : d = Bit(rules = <<>>)
  OBVIOUS
<1>2. d \in {0, 1} /\ (d = 1 => A = {<<name, 0, "empty">>}) /\ (d = 0 => A = {})
  BY <1>1 DEF Bit, If
<1>3. ListWarnings(name, rules) = A \cup D
  BY DEF ListWarnings, DropsUpTo
<1>4. IsFiniteSet(D) /\ Cardinality(D) = ScanRules(rules).warnings
  BY ScanCounts
<1>5. A \cap D = {}
  <2>1. \A c \in A : c[3] = "empty"
    BY DEF If
  <2>2. \A c \in D : c[3] = "drop"
    BY DEF DropsUpTo
  <2> HIDE DEF A, D
  <2>3. QED BY <2>1, <2>2
<1> HIDE DEF A, D
<1>6. IsFiniteSet(A) /\ Cardinality(A) = d
  BY <1>2, CountIf
<1>7. IsFiniteSet(A \cup D) /\ Cardinality(A \cup D) = Cardinality(A) + Cardinality(D)
      /\ Cardinality(A) \in Nat /\ Cardinality(D) \in Nat
  BY <1>4, <1>5, <1>6, DisjointUnion
<1>8. Cardinality(A \cup D) = ScanRules(rules).warnings + d
  BY <1>4, <1>6, <1>7
<1>9. QED BY <1>1, <1>3, <1>7, <1>8

\* Three lists and the default policy, whose complaints carry other names.
LEMMA FourParts ==
  ASSUME NEW D, NEW A, NEW B, NEW C,
         IsFiniteSet(D), IsFiniteSet(A), IsFiniteSet(B), IsFiniteSet(C),
         \A c \in D : c[1] = "default", \A c \in A : c[1] = "template",
         \A c \in B : c[1] = "rules", \A c \in C : c[1] = "overrides"
  PROVE  Cardinality(D \cup (A \cup B \cup C))
           = Cardinality(D) + Cardinality(A) + Cardinality(B) + Cardinality(C)
<1>1. /\ IsFiniteSet(A \cup B) /\ Cardinality(A \cup B) = Cardinality(A) + Cardinality(B)
      /\ Cardinality(A) \in Nat /\ Cardinality(B) \in Nat
  <2>1. A \cap B = {}
    OBVIOUS
  <2>2. QED BY <2>1, DisjointUnion
<1>2. /\ IsFiniteSet((A \cup B) \cup C)
      /\ Cardinality((A \cup B) \cup C) = Cardinality(A \cup B) + Cardinality(C)
      /\ Cardinality(C) \in Nat
  <2>1. (A \cup B) \cap C = {}
    OBVIOUS
  <2>2. QED BY <1>1, <2>1, DisjointUnion
<1>3. /\ Cardinality(D \cup ((A \cup B) \cup C))
           = Cardinality(D) + Cardinality((A \cup B) \cup C)
      /\ Cardinality(D) \in Nat
  <2>1. D \cap ((A \cup B) \cup C) = {}
    OBVIOUS
  <2>2. QED BY <1>2, <2>1, DisjointUnion
<1>4. QED BY <1>1, <1>2, <1>3

\* The two scans of lint agree.
LEMMA LintCountsAgree ==
  ASSUME NEW t, NEW Q, NEW R, NEW S,
         t.templates \in Seq(Q), t.rules \in Seq(R), t.overrides \in Seq(S)
  PROVE  LET report == BuildPolicyLintReport(t)
             counts == GetPolicyLintCounts(t)
             empty == Cardinality({k \in DOMAIN Lists(t) : Lists(t)[k] = <<>>})
         IN  /\ Cardinality(report.issues) + Cardinality(report.conflicts)
                  = counts.issues
             /\ Cardinality(report.warnings) = counts.warnings + empty
<1> DEFINE l == Lists(t)
           d == t.default
           D == {<<"default", 0, c>> : c \in PolicyIssues(d)}
           E == If(OddDrop(d), <<"default", 0, "drop">>)
           A == ListIssues("template", t.templates)
           B == ListIssues("rules", t.rules)
           C == ListIssues("overrides", t.overrides)
           U == ListWarnings("template", t.templates)
           V == ListWarnings("rules", t.rules)
           W == ListWarnings("overrides", t.overrides)
           st == ScanRules(t.templates)
           sr == ScanRules(t.rules)
           so == ScanRules(t.overrides)
           report == BuildPolicyLintReport(t)
           counts == GetPolicyLintCounts(t)
<1>1. /\ DOMAIN l = {"template", "rules", "overrides"} /\ l["template"] = t.templates
      /\ l["rules"] = t.rules /\ l["overrides"] = t.overrides
  BY DEF Lists
<1>2. /\ UNION {ListIssues(k, l[k]) : k \in DOMAIN l} = A \cup B \cup C
      /\ UNION {ListWarnings(k, l[k]) : k \in DOMAIN l} = U \cup V \cup W
  <2> HIDE DEF l
  <2>1. QED BY <1>1
<1>3. /\ report.issues = D \cup (A \cup B \cup C)
      /\ report.warnings = E \cup (U \cup V \cup W)
      /\ report.conflicts = CollectPolicyConflicts(t)
  <2>1. report = [issues |-> D \cup UNION {ListIssues(k, l[k]) : k \in DOMAIN l},
                  conflicts |-> CollectPolicyConflicts(t),
                  warnings |-> E \cup UNION {ListWarnings(k, l[k]) : k \in DOMAIN l}]
    BY Zenon DEF BuildPolicyLintReport
  <2> HIDE DEF D, E, l, A, B, C, U, V, W, report
  <2>2. QED BY <1>2, <2>1
<1>4. PICK x, y, z : x = Bit(BadTimeout(d)) /\ y = Bit(BadRetry(d)) /\ z = Bit(OddDrop(d))
  OBVIOUS
<1>5. x \in {0, 1} /\ y \in {0, 1} /\ z \in {0, 1}
  BY <1>4 DEF Bit
<1>6. IsFiniteSet(D) /\ Cardinality(D) = x + y /\ \A c \in D : c[1] = "default"
  <2> DEFINE P == If(BadTimeout(d), <<"default", 0, "timeout">>)
             Z == If(BadRetry(d), <<"default", 0, "retry">>)
  <2>1. /\ x = 1 => P = {<<"default", 0, "timeout">>}
        /\ x = 0 => P = {}
        /\ y = 1 => Z = {<<"default", 0, "retry">>}
        /\ y = 0 => Z = {}
    BY <1>4 DEF Bit, If
  <2>2. D = P \cup Z
    <3>1. CASE BadTimeout(d) /\ BadRetry(d)
      BY <3>1 DEF PolicyIssues, If
    <3>2. CASE BadTimeout(d) /\ ~BadRetry(d)
      BY <3>2 DEF PolicyIssues, If
    <3>3. CASE ~BadTimeout(d) /\ BadRetry(d)
      BY <3>3 DEF PolicyIssues, If
    <3>4. CASE ~BadTimeout(d) /\ ~BadRetry(d)
      BY <3>4 DEF PolicyIssues, If
    <3>5. QED BY <3>1, <3>2, <3>3, <3>4
  <2>3. \A c \in D : c[1] = "default"
    OBVIOUS
  <2>4. <<"default", 0, "retry">> \notin P
    BY DEF If
  <2> HIDE DEF P, Z, D
  <2>5. IsFiniteSet(P) /\ Cardinality(P) = x
    BY <1>5, <2>1, CountIf
  <2>6. IsFiniteSet(P \cup Z) /\ Cardinality(P \cup Z) = Cardinality(P) + y
    BY <1>5, <2>1, <2>4, <2>5, CountOneMore, ZenonT(60)
  <2>7. QED BY <2>2, <2>3, <2>5, <2>6
<1>7. IsFiniteSet(E) /\ Cardinality(E) = z /\ \A c \in E : c[1] = "default"
  <2>1. (z = 1 => E = {<<"default", 0, "drop">>}) /\ (z = 0 => E = {})
    BY <1>4 DEF Bit, If
  <2> HIDE DEF E
  <2>2. IsFiniteSet(E) /\ Cardinality(E) = z
    BY <1>5, <2>1, CountIf
  <2>3. QED BY <1>5, <2>1, <2>2
<1>8. \A name, rules :
        /\ \A c \in ListIssues(name, rules) : c[1] = name
        /\ \A c \in ListWarnings(name, rules) : c[1] = name
  BY DEF ListIssues, ListWarnings, If
<1>9. /\ IsFiniteSet(A) /\ Cardinality(A) = st.issues
      /\ IsFiniteSet(B) /\ Cardinality(B) = sr.issues
      /\ IsFiniteSet(C) /\ Cardinality(C) = so.issues
      /\ st.issues \in Nat /\ sr.issues \in Nat /\ so.issues \in Nat
      /\ st.warnings \in Nat /\ sr.warnings \in Nat /\ so.warnings \in Nat
  BY ScanCounts
<1>10. PICK a, b, c : a = Bit(t.templates = <<>>) /\ b = Bit(t.rules = <<>>)
                      /\ c = Bit(t.overrides = <<>>)
  OBVIOUS
<1>11. a \in {0, 1} /\ b \in {0, 1} /\ c \in {0, 1}
  BY <1>10 DEF Bit
<1>12. /\ IsFiniteSet(U) /\ Cardinality(U) = st.warnings + a
       /\ IsFiniteSet(V) /\ Cardinality(V) = sr.warnings + b
       /\ IsFiniteSet(W) /\ Cardinality(W) = so.warnings + c
  BY <1>10, ListWarningsCounted
<1>13. Cardinality({k \in DOMAIN l : l[k] = <<>>}) = a + b + c
  <2> DEFINE K == If(t.templates = <<>>, "template")
             L == If(t.rules = <<>>, "rules")
             M == If(t.overrides = <<>>, "overrides")
  <2>1. /\ a = 1 => K = {"template"}
        /\ a = 0 => K = {}
        /\ b = 1 => L = {"rules"}
        /\ b = 0 => L = {}
        /\ c = 1 => M = {"overrides"}
        /\ c = 0 => M = {}
    BY <1>10 DEF Bit, If
  <2>2. {k \in DOMAIN l : l[k] = <<>>} = (K \cup L) \cup M
    <3> HIDE DEF l
    <3>1. QED BY <1>1 DEF If
  <2>3. "rules" \notin K /\ "overrides" \notin K \cup L
    BY DEF If
  <2> HIDE DEF K, L, M, l
  <2>4. IsFiniteSet(K) /\ Cardinality(K) = a
    BY <1>11, <2>1, CountIf
  <2>5. IsFiniteSet(K \cup L) /\ Cardinality(K \cup L) = Cardinality(K) + b
    BY <1>11, <2>1, <2>3, <2>4, CountOneMore
  <2>6. Cardinality((K \cup L) \cup M) = Cardinality(K \cup L) + c
    BY <1>11, <2>1, <2>3, <2>5, CountOneMore, ZenonT(60)
  <2>7. QED BY <2>2, <2>4, <2>5, <2>6
<1>14. /\ \A e \in A \cup U : e[1] = "template"
       /\ \A e \in B \cup V : e[1] = "rules"
       /\ \A e \in C \cup W : e[1] = "overrides"
  BY <1>8
<1>15. /\ counts.issues = x + y + st.issues + sr.issues + so.issues
                          + Cardinality(CollectPolicyConflicts(t))
       /\ counts.warnings = z + st.warnings + sr.warnings + so.warnings
  <2> HIDE DEF st, sr, so
  <2>1. counts = [issues |-> x + y + st.issues + sr.issues + so.issues
                             + Cardinality(CollectPolicyConflicts(t)),
                  warnings |-> z + st.warnings + sr.warnings + so.warnings]
    BY <1>4, Zenon DEF GetPolicyLintCounts, st, sr, so
  <2> HIDE DEF counts
  <2>2. QED BY <2>1
<1> HIDE DEF D, E, A, B, C, U, V, W, l, st, sr, so, report, counts
<1>16. Cardinality(report.issues) = x + y + st.issues + sr.issues + so.issues
  <2>1. Cardinality(D \cup (A \cup B \cup C))
          = Cardinality(D) + Cardinality(A) + Cardinality(B) + Cardinality(C)
    <3>1. /\ \A e \in A : e[1] = "template"
          /\ \A e \in B : e[1] = "rules"
          /\ \A e \in C : e[1] = "overrides"
      BY <1>14
    <3>2. QED BY <1>6, <1>9, <3>1, FourParts
  <2>2. QED BY <1>3, <1>6, <1>9, <2>1
<1>17. Cardinality(report.warnings)
         = z + (st.warnings + a) + (sr.warnings + b) + (so.warnings + c)
  <2>1. Cardinality(E \cup (U \cup V \cup W))
          = Cardinality(E) + Cardinality(U) + Cardinality(V) + Cardinality(W)
    <3>1. /\ \A e \in U : e[1] = "template"
          /\ \A e \in V : e[1] = "rules"
          /\ \A e \in W : e[1] = "overrides"
      BY <1>14
    <3>2. QED BY <1>7, <1>12, <3>1, FourParts
  <2>2. QED BY <1>3, <1>7, <1>12, <2>1
<1>18. Cardinality(report.warnings) = counts.warnings + (a + b + c)
  <2>1. PICK p \in Nat, q \in Nat, r \in Nat :
          p = st.warnings /\ q = sr.warnings /\ r = so.warnings
    BY <1>9
  <2>2. PICK i \in Nat, j \in Nat, k \in Nat, m \in Nat : i = a /\ j = b /\ k = c /\ m = z
    BY <1>5, <1>11
  <2>3. /\ Cardinality(report.warnings) = m + (p + i) + (q + j) + (r + k)
        /\ counts.warnings = m + p + q + r
    BY <1>15, <1>17, <2>1, <2>2
  <2>4. QED BY <2>2, <2>3
<1>19. Cardinality(report.issues) + Cardinality(report.conflicts) = counts.issues
  BY <1>3, <1>15, <1>16
<1>20. QED BY <1>13, <1>18, <1>19 DEF report, counts, l

-----------------------------------------------------------------------------
(* The index in force is the one of the rules in force.                    *)

\* A configuration with all its fields, whose lists are lists of rules.
Good(c) == ConfigShaped(c) /\ RulesTyped(c.table)

\* The invariant: whatever is in force, saved or known good has lists of
\* rules, and what a running bridge searches between two calls of the owner,
\* or goes back to after a rejected reload, has the index of its rules.
Built ==
  /\ Good(config) /\ Good(lkg.config)
  /\ rl # Idle => Good(rl.config)
  /\ running => IndexBuilt((IF rl = Idle THEN config ELSE rl.config).table)
  /\ rl # Idle /\ rl.pc = "validate" => IndexBuilt(config.table)

\* Another default policy leaves the lists alone.
LEMMA NormalizedGood ==
  ASSUME NEW c, Good(c)
  PROVE  Good(NormalizePolicyDefaults(c))
<1>1. PICK n : /\ n = NormalizePolicyDefaults(c) /\ ConfigShaped(n)
               /\ n.table.rules = c.table.rules
               /\ n.table.templates = c.table.templates
               /\ n.table.overrides = c.table.overrides
  BY NormalizedFields DEF Good
<1>2. RulesTyped(c.table)
  BY DEF Good
<1>3. RulesTyped(n.table)
  BY <1>1, <1>2 DEF RulesTyped
<1>4. QED
  BY <1>1, <1>3 DEF Good

\* The two default templates are a list of rules.
LEMMA DefaultTemplates ==
  LET l == <<ControlTemplate, TelemetryTemplate>>
  IN  l \in Seq(Range(l)) /\ \A i \in DOMAIN l : l[i].priority \in Nat
<1>1. PICK a, b : a = ControlTemplate /\ b = TelemetryTemplate
  OBVIOUS
<1>2. a.priority \in Nat /\ b.priority \in Nat
  BY <1>1 DEF ControlTemplate, TelemetryTemplate, FactoryRule
<1>3. PICK l : l = <<a, b>>
  OBVIOUS
<1>4. Len(l) = 2 /\ DOMAIN l = 1 .. 2 /\ l[1] = a /\ l[2] = b
  BY <1>3
<1>5. a \in Range(l) /\ b \in Range(l)
  BY <1>4 DEF Range
<1>6. l \in Seq(Range(l))
  BY <1>3, <1>5
<1>7. \A i \in DOMAIN l : l[i].priority \in Nat
  BY <1>2, <1>4
<1>8. QED
  BY <1>1, <1>3, <1>6, <1>7

\* Templates and index filled in.
LEMMA CompletedGood ==
  ASSUME NEW c, Good(c)
  PROVE  Good(Completed(c)) /\ IndexBuilt(Completed(c).table)
<1>1. ConfigShaped(c) /\ TableShaped(c.table) /\ RulesTyped(c.table)
  BY DEF Good, ConfigShaped
<1>2. PICK u : /\ u = Indexed(PopulateDefaultTemplateRules(c.table)) /\ TableShaped(u)
               /\ u.rules = c.table.rules /\ u.overrides = c.table.overrides
               /\ u.templates \in {c.table.templates, <<ControlTemplate, TelemetryTemplate>>}
               /\ IndexBuilt(u)
  BY <1>1, CompletedTable
<1>3. RulesTyped(u)
  BY <1>1, <1>2, DefaultTemplates, ZenonT(60) DEF RulesTyped
<1>4. PICK m : m = Completed(c) /\ m = [c EXCEPT !.table = u]
  BY <1>2 DEF Completed
<1>5. m.table = u /\ ConfigShaped(m)
  BY <1>1, <1>2, <1>4 DEF ConfigShaped
<1>6. QED
  BY <1>2, <1>3, <1>4, <1>5 DEF Good

\* A configuration as it comes into force.
LEMMA EffectiveGood ==
  ASSUME NEW c, Good(c)
  PROVE  Good(Effective(c)) /\ IndexBuilt(Effective(c).table)
<1>1. PICK n : n = NormalizePolicyDefaults(c) /\ Good(n)
  BY NormalizedGood
<1>2. Effective(c) = Completed(n)
  BY <1>1, EffectiveTwice DEF Good
<1>3. Good(Completed(n)) /\ IndexBuilt(Completed(n).table)
  BY <1>1, CompletedGood
<1>4. QED
  BY <1>2, <1>3

\* Start, unless it changes no more than the bookkeeping.
LEMMA BegunBuilt ==
  ASSUME NEW c, NEW l, NEW g, NEW gate \in BOOLEAN, Begun(c, l, g, gate),
         Good(c), Good(g.config), rl = Idle, rl' = rl
  PROVE  Built'
<1> DEFINE n == NormalizePolicyDefaults(c)
           g1 == IF g.version # 0 THEN g
                 ELSE [config |-> n, version |-> l.version,
                       signature |-> ComputePolicySignature(n.table)]
<1>1. /\ lkg' = g1
      /\ \/ config' = g1.config /\ running' = FALSE
         \/ config' = Effective(c)
  <2>1. CASE c.canary /\ ~gate
    BY <2>1, Zenon DEF Begun
  <2>2. CASE ~(c.canary /\ ~gate)
    BY <2>2, Zenon DEF Begun
  <2>3. QED
    BY <2>1, <2>2
<1>2. Good(g1.config)
  <2>1. CASE g.version # 0
    BY <2>1
  <2>2. CASE g.version = 0
    <3>1. g1.config = n
      BY <2>2
    <3>2. QED
      BY <3>1, NormalizedGood
  <2>3. QED
    BY <2>1, <2>2
<1> HIDE DEF g1
<1>3. Good(Effective(c)) /\ IndexBuilt(Effective(c).table)
  BY EffectiveGood
<1>4. QED
  BY <1>1, <1>2, <1>3 DEF Built

\* Every step.
LEMMA BuiltNext ==
  Shape /\ Built /\ [Next]_vars => Built'
<1> SUFFICES ASSUME Shape, Built, [Next]_vars PROVE Built'
  OBVIOUS
<1> USE DEF boot, caches
<1>1. /\ published \in Seq(Configs) /\ Len(published) \in DOMAIN published
      /\ ReloadShape
  BY DEF Shape, BookShape
<1>2. \A c \in Configs : Good(c)
  BY ConfigAssumption DEF Good
<1>3. Good(published[Len(published)])
  BY <1>1, <1>2
<1>4. ASSUME UNCHANGED <<config, lkg, rl>>, running' => running PROVE Built'
  BY <1>4 DEF Built
<1>5. ASSUME NEW c \in Configs, UpdateConfig(c) PROVE Built'
  BY <1>4, <1>5 DEF UpdateConfig
<1>6. ASSUME NEW c \in Initial, NEW gate \in BOOLEAN, StartDirect(c, gate) PROVE Built'
  <2>1. Begun(c, loaded, lkg, gate) /\ rl = Idle /\ rl' = rl
    BY <1>6 DEF StartDirect
  <2>2. Good(c) /\ Good(lkg.config)
    BY <1>2, ConfigAssumption DEF Built
  <2>3. QED
    BY <2>1, <2>2, BegunBuilt
<1>7. ASSUME NEW gate \in BOOLEAN, StartProvider(gate) PROVE Built'
  <2> DEFINE v == Len(published)
             c == published[v]
             s == ComputePolicySignature(c.table)
             l == [version |-> v, signature |-> s]
             g == [config |-> c, version |-> v, signature |-> s]
  <2>1. /\ rl = Idle /\ rl' = rl
        /\ \/ running /\ lkg' = g /\ UNCHANGED <<config, running>>
           \/ Begun(c, l, g, gate)
    BY <1>7, Zenon DEF StartProvider
  <2>2. g.config = c /\ Good(c)
    BY <1>3
  <2>3. CASE running /\ lkg' = g /\ UNCHANGED <<config, running>>
    BY <2>1, <2>2, <2>3 DEF Built
  <2>4. CASE Begun(c, l, g, gate)
    <3> HIDE DEF c, l, g
    <3>1. QED
      BY <2>1, <2>2, <2>4, BegunBuilt
  <2>5. QED
    BY <2>1, <2>3, <2>4
<1>8. ASSUME Stop PROVE Built'
  BY <1>4, <1>8 DEF Stop
<1>9. Idle.pc = "idle"
  BY DEF Idle
<1>10. ASSUME ReloadAssign PROVE Built'
  <2>1. /\ rl = Idle /\ config' = Offered /\ UNCHANGED <<lkg, running>>
        /\ rl' = [pc |-> "index", config |-> config, loaded |-> loaded,
                  signature |-> ComputePolicySignature(Offered.table)]
    BY <1>10 DEF ReloadAssign
  <2>2. PICK z : rl' = [pc |-> "index", config |-> config, loaded |-> loaded, signature |-> z]
    BY <2>1
  <2>3. rl'.pc = "index" /\ rl'.config = config /\ rl' # Idle
    BY <1>9, <2>2
  <2>4. Good(Offered)
    BY <1>3, NormalizedGood DEF Offered
  <2>5. QED
    BY <2>1, <2>3, <2>4 DEF Built
<1>11. ASSUME ReloadIndex PROVE Built'
  <2>1. /\ rl.pc = "index" /\ rl' = [rl EXCEPT !.pc = "validate"] /\ UNCHANGED <<lkg, running>>
        /\ config' = Completed(config)
    BY <1>11 DEF ReloadIndex, Completed
  <2>2. rl # Idle
    BY <1>9, <2>1
  <2>3. rl = [pc |-> rl.pc, config |-> rl.config, loaded |-> loaded, signature |-> rl.signature]
    BY <1>1, <2>2 DEF ReloadShape
  <2>4. rl'.pc = "validate" /\ rl'.config = rl.config
    BY <2>1, <2>3
  <2>5. rl' # Idle
    BY <1>9, <2>4
  <2>6. Good(config) /\ Good(lkg.config) /\ Good(rl.config)
        /\ (running => IndexBuilt(rl.config.table))
    BY <2>2 DEF Built
  <2>7. Good(Completed(config)) /\ IndexBuilt(Completed(config).table)
    BY <2>6, CompletedGood
  <2>8. QED
    BY <2>1, <2>4, <2>5, <2>6, <2>7 DEF Built
<1>12. ASSUME ReloadRollback PROVE Built'
  <2>1. rl.pc = "validate" /\ config' = rl.config /\ rl' = Idle /\ UNCHANGED <<lkg, running>>
    BY <1>12 DEF ReloadRollback
  <2>2. rl # Idle
    BY <1>9, <2>1
  <2>3. QED
    BY <2>1, <2>2 DEF Built
<1>13. ASSUME ReloadCommit PROVE Built'
  <2>1. /\ rl.pc = "validate" /\ rl' = Idle /\ UNCHANGED <<config, running>>
        /\ lkg' = [config |-> config, version |-> Len(published), signature |-> rl.signature]
    BY <1>13 DEF ReloadCommit
  <2>2. rl # Idle /\ lkg'.config = config
    BY <1>9, <2>1
  <2>3. QED
    BY <2>1, <2>2 DEF Built
<1>14. CASE ~Owner /\ Next
  BY <1>4, <1>14 DEF Next, LintReport, Lookup, Resolve, Store
<1>15. CASE UNCHANGED vars
  BY <1>4, <1>15 DEF vars
<1>16. QED
  BY <1>5, <1>6, <1>7, <1>8, <1>10, <1>11, <1>12, <1>13, <1>14, <1>15 DEF Next, Owner

\* A bridge as constructed.
LEMMA BuiltInit ==
  Init => Built
<1>1. PICK p : p = FactoryPolicy
  OBVIOUS
<1>2. PolicyShaped(p)
  BY <1>1 DEF FactoryPolicy, PolicyShaped
<1>3. PICK t : t = FactoryTable
  OBVIOUS
<1>4. TableShaped(t) /\ t.templates = <<>> /\ t.rules = <<>> /\ t.overrides = <<>>
  <2>1. PICK x : x = NoIndex
    OBVIOUS
  <2>2. t = [default |-> p, templates |-> <<>>, rules |-> <<>>, overrides |-> <<>>,
             templateIndex |-> x, ruleIndex |-> x, overrideIndex |-> x]
    BY <1>1, <1>3, <2>1 DEF FactoryTable
  <2>3. QED
    BY <1>2, <2>2 DEF TableShaped
<1>5. RulesTyped(t)
  <2>1. <<>> \in Seq(Range(<<>>)) /\ DOMAIN <<>> = {}
    BY EmptySeq
  <2>2. QED
    BY <1>4, <2>1 DEF RulesTyped
<1>6. PICK c : c = FactoryConfig
  OBVIOUS
<1>7. c = [workers |-> 2, capacity |-> 64, named |-> FALSE, sla |-> p, table |-> t, interval |-> 2000, rate |-> 10,
           protocol |-> "legacy", guard |-> 0, canary |-> FALSE]
  BY <1>1, <1>3, <1>6 DEF FactoryConfig
<1>8. Good(c)
  BY <1>2, <1>4, <1>5, <1>7 DEF Good, ConfigShaped
<1>9. SUFFICES ASSUME Init PROVE Built
  OBVIOUS
<1>10. config = c /\ lkg.config = c /\ running = FALSE /\ rl = Idle
  BY <1>6, <1>9 DEF Init
<1>11. QED
  BY <1>8, <1>10 DEF Built

\* The lists of a configuration, one by one.
LEMMA GoodLists ==
  ASSUME NEW c, Good(c), NEW l \in {c.table.templates, c.table.rules, c.table.overrides}
  PROVE  l \in Seq(Range(l)) /\ \A i \in DOMAIN l : l[i].priority \in Nat
BY DEF Good, RulesTyped

\* In every configuration that gets in force, after every mixture of starts,
\* canary refusals, reloads and rollbacks, the loop of FindBestPolicyMatch
\* with the index that RebuildPolicyIndex left finds, whatever the number of
\* rules, their topics and their priorities, the best of all rules of the list
\* that match; the one exception is a list with a rule written for the
\* envelope's topic, where it may be the best of those that match without a
\* wildcard topic.
THEOREM ConfigResolutionMatchesReference == Spec => []ResolutionMatchesReference
<1>1. Built => ResolutionMatchesReference
  <2> SUFFICES ASSUME Built, rl = Idle, running PROVE ResolutionMatchesReference
    BY DEF ResolutionMatchesReference
  <2>1. PICK t : t = config.table
    OBVIOUS
  <2>2. Good(config) /\ IndexBuilt(t)
    BY <2>1 DEF Built
  <2>3. ASSUME NEW env \in Envelopes, NEW l \in {t.templates, t.rules, t.overrides}
        PROVE  BestOrNarrowed(l, env, FindBestPolicyMatch(l, TopicIndex(l), env))
    <3>1. l \in Seq(Range(l)) /\ \A i \in DOMAIN l : l[i].priority \in Nat
      BY <2>1, <2>2, GoodLists
    <3>2. QED
      BY <3>1, SearchIsReference
  <2>4. /\ t.templateIndex = TopicIndex(t.templates) /\ t.ruleIndex = TopicIndex(t.rules)
        /\ t.overrideIndex = TopicIndex(t.overrides)
    BY <2>2 DEF IndexBuilt
  <2>5. ASSUME NEW env \in Envelopes
        PROVE  /\ BestOrNarrowed(t.overrides, env,
                    FindBestPolicyMatch(t.overrides, t.overrideIndex, env))
               /\ BestOrNarrowed(t.rules, env,
                    FindBestPolicyMatch(t.rules, t.ruleIndex, env))
               /\ BestOrNarrowed(t.templates, env,
                    FindBestPolicyMatch(t.templates, t.templateIndex, env))
    BY <2>3, <2>4
  <2>6. QED
    BY <2>1, <2>5, Zenon DEF ResolutionMatchesReference
<1>2. QED
  BY <1>1, BuiltInit, BuiltNext, ShapeInit, ShapeNext, PTL DEF Spec

\* At any time, also in the middle of a reload with the index of the old
\* rules: when a publisher runs into a conflict between rules of one list,
\* lint reports a pair of rules of that list that both match the envelope with
\* the priority of the rule chosen, and GetPolicyLintCounts counts as many
\* issues and warnings as BuildPolicyLintReport lists.
THEOREM ConfigConflictsAreLinted == Spec => []ConflictsAreLinted
<1>1. Built => ConflictsAreLinted
  <2> SUFFICES ASSUME Built PROVE ConflictsAreLinted
    OBVIOUS
  <2>1. PICK t : t = config.table
    OBVIOUS
  <2>2. \A l \in {t.templates, t.rules, t.overrides} :
          l \in Seq(Range(l)) /\ \A i \in DOMAIN l : l[i].priority \in Nat
    BY <2>1 DEF Built, Good, RulesTyped
  <2>3. LET report == BuildPolicyLintReport(t)
            counts == GetPolicyLintCounts(t)
            empty == Cardinality({k \in DOMAIN Lists(t) : Lists(t)[k] = <<>>})
        IN  /\ Cardinality(report.issues) + Cardinality(report.conflicts)
                 = counts.issues
            /\ Cardinality(report.warnings) = counts.warnings + empty
    <3>1. /\ t.templates \in Seq(Range(t.templates))
          /\ t.rules \in Seq(Range(t.rules))
          /\ t.overrides \in Seq(Range(t.overrides))
      BY <2>2
    <3>2. QED
      BY <3>1, LintCountsAgree, Zenon
  <2>4. ASSUME NEW env \in Envelopes, NEW name \in {"template", "rules", "overrides"},
               NEW index
        PROVE  Foreseen(name, index, env)
    <3>1. PICK l : l = Lists(t)[name]
      OBVIOUS
    <3>2. l \in {t.templates, t.rules, t.overrides}
      BY <3>1 DEF Lists
    <3>3. l \in Seq(Range(l)) /\ \A i \in DOMAIN l : l[i].priority \in Nat
      BY <2>2, <3>2
    <3>4. PICK found : found = FindBestPolicyMatch(l, index, env)
      OBVIOUS
    <3>5. ASSUME found.conflict
          PROVE  Listed(t, name, found, env)
      BY <3>1, <3>3, <3>4, <3>5, ConflictIsCollected
    <3>6. QED
      BY <2>1, <3>1, <3>4, <3>5, Zenon DEF Foreseen, Listed
  <2>5. ASSUME NEW env \in Envelopes
        PROVE  /\ Foreseen("overrides", t.overrideIndex, env)
               /\ Foreseen("rules", t.ruleIndex, env)
               /\ Foreseen("template", t.templateIndex, env)
    BY <2>4
  <2>6. QED
    BY <2>1, <2>3, <2>5, Zenon DEF ConflictsAreLinted
<1>2. QED
  BY <1>1, BuiltInit, BuiltNext, ShapeInit, ShapeNext, PTL DEF Spec
=============================================================================
