---------------------------- MODULE ObserveProofs ---------------------------
(***************************************************************************)
(* Proofs about metrics and diagnostics, for every number of threads,      *)
(* every set of trace ids and every limit.                                 *)
(*                                                                         *)
(* Typed gives every thread the locals of its place.  On top of it each    *)
(* property has its own inductive invariant: ThrottleInv and IndexInv      *)
(* bound the log and the trace index, FileInv says what a snapshot file    *)
(* holds at every place of RecordSnapshot, and FreshInv orders what a      *)
(* refresh has read, what it found and what is counted by now.             *)
(***************************************************************************)
EXTENDS Observe, DataProofs

Counts == [rx : Nat, miss : Nat]
Metrics == [rx : Nat, miss : Nat, pool : Nat]

\* The locals of a thread at each place of its job.
InboundLocals == [pc : {"miss"}, now : Nat] \cup [pc : {"exchange"}, now : Nat, expected : Nat]
SnapshotLocals == [pc : {"truncate", "write"}, lines : Seq(Nat)]
RefreshLocals ==
  [pc : {"load", "load2", "store", "storePool", "export"}, export : BOOLEAN,
   bridge : Counts, base : Counts, alone : BOOLEAN]
Locals == [pc : {"idle", "refresh"}] \cup InboundLocals \cup SnapshotLocals \cup RefreshLocals

ScalarsTyped == {now, executed, stamp, refreshed, logs, jobs} \subseteq Nat /\ clean \in BOOLEAN
MetricsTyped == count \in Counts /\ aggregate \in Metrics /\ exported \in Metrics
RecordsTyped == order \in Seq(Traces) /\ file \in Seq(Nat) /\ recorded \in Seq(Nat)
LocalsTyped == th \in [Threads -> Locals]
Typed == ScalarsTyped /\ MetricsTyped /\ RecordsTyped /\ LocalsTyped

-----------------------------------------------------------------------------
(* Arithmetic.                                                             *)

\* Division with remainder.
LEMMA Remainder ==
  ASSUME NEW a \in Int, NEW b \in Nat \ {0}
  PROVE  /\ a % b \in 0 .. b - 1 /\ a \div b \in Int
         /\ a = b * (a \div b) + (a % b)
OBVIOUS

\* Division leaves one remainder only.
LEMMA RemainderUnique ==
  ASSUME NEW b \in Nat \ {0}, NEW p \in Int, NEW q \in Int,
         NEW r \in 0 .. b - 1, NEW s \in 0 .. b - 1, b * p + r = b * q + s
  PROVE  r = s
OBVIOUS

-----------------------------------------------------------------------------
(* Types.                                                                  *)

\* A thread gets new locals; those of the others are left alone.
LEMMA SetTyped ==
  ASSUME LocalsTyped, NEW t \in Threads, NEW v \in Locals, Set(t, v)
  PROVE  LocalsTyped'
BY DEF Set, LocalsTyped

\* A thread that has nothing to do, or is about to refresh, has typed locals.
LEMMA IdleTyped == Idle \in Locals /\ [pc |-> "refresh"] \in Locals
BY DEF Idle, Locals

\* What the place of a thread says of its locals.
LEMMA LocalsByPlace ==
  ASSUME LocalsTyped, NEW t \in Threads
  PROVE  /\ th[t] \in Locals
         /\ th[t].pc = "idle" => th[t] = Idle
         /\ th[t].pc = "miss" => th[t].now \in Nat
         /\ th[t].pc = "exchange" => th[t].now \in Nat /\ th[t].expected \in Nat
         /\ th[t].pc \in {"truncate", "write"} => th[t].lines \in Seq(Nat)
         /\ th[t].pc \in {"load", "load2", "store", "storePool", "export"} => th[t] \in RefreshLocals
<1>1. th[t] \in Locals
  BY DEF LocalsTyped
<1>2. QED
  BY <1>1 DEF Locals, InboundLocals, SnapshotLocals, RefreshLocals, Idle

\* A thread that enters RefreshMetrics has typed locals.
LEMMA EnterTyped ==
  ASSUME LocalsTyped, count \in Counts, NEW t \in Threads, NEW export \in BOOLEAN,
         Enter(t, "load", export)
  PROVE  LocalsTyped'
<1>1. ASSUME NEW u \in Threads PROVE th'[u] \in Locals
  <2>1. CASE u = t
    <3>1. th'[u] = [pc |-> "load", export |-> export, bridge |-> [rx |-> 0, miss |-> 0],
                    base |-> count, alone |-> \A v \in Threads : ~Refreshing(v)]
      BY <2>1 DEF Enter
    <3>2. (\A v \in Threads : ~Refreshing(v)) \in BOOLEAN
      OBVIOUS
    <3>3. QED
      BY <3>1, <3>2 DEF Locals, RefreshLocals, Counts
  <2>2. CASE u # t /\ (Refreshing(u) \/ th[u].pc = "export")
    <3>1. th'[u] = [th[u] EXCEPT !.alone = FALSE]
      BY <2>2 DEF Enter
    <3>2. th[u].pc \in {"load", "load2", "store", "storePool", "export"}
      BY <2>2 DEF Refreshing
    <3>3. th[u] \in RefreshLocals
      BY <3>2, LocalsByPlace DEF RefreshLocals
    <3>4. th'[u] \in RefreshLocals
      BY <3>1, <3>3 DEF RefreshLocals
    <3>5. QED
      BY <3>4 DEF Locals
  <2>3. CASE u # t /\ ~(Refreshing(u) \/ th[u].pc = "export")
    BY <2>3, LocalsByPlace DEF Enter
  <2>4. QED
    BY <2>1, <2>2, <2>3
<1>2. QED
  BY <1>1 DEF Enter, LocalsTyped

\* A refresh that begins leaves the place of every other thread alone.
LEMMA EnterOthers ==
  ASSUME Typed, NEW t \in Threads, RefreshTest(t) \/ ExportBegin(t), NEW u \in Threads, u # t
  PROVE  \/ th'[u] = th[u]
         \/ /\ th[u].pc \in {"load", "load2", "store", "storePool", "export"}
            /\ th'[u].pc = th[u].pc
<1>0. th \in [Threads -> Locals]
  BY DEF Typed, LocalsTyped
<1>1. CASE Refreshing(u) \/ th[u].pc = "export"
  <2>1. th[u].pc \in {"load", "load2", "store", "storePool", "export"}
    BY <1>1 DEF Refreshing
  <2>2. th[u] \in RefreshLocals
    BY <2>1, LocalsByPlace DEF Typed
  <2>3. th'[u] = th[u] \/ th'[u] = [th[u] EXCEPT !.alone = FALSE]
    BY <1>0, <1>1 DEF RefreshTest, ExportBegin, Enter, Set
  <2>4. th'[u].pc = th[u].pc
    BY <2>2, <2>3 DEF RefreshLocals
  <2>5. QED
    BY <2>1, <2>4
<1>2. CASE ~(Refreshing(u) \/ th[u].pc = "export")
  BY <1>0, <1>2 DEF RefreshTest, ExportBegin, Enter, Set
<1>3. QED
  BY <1>1, <1>2

\* The greater and the smaller of two numbers.
LEMMA MaxMinOfTwo ==
  ASSUME NEW x \in Int, NEW y \in Int
  PROVE  /\ Max({x, y}) = IF x >= y THEN x ELSE y
         /\ Min({x, y}) = IF x <= y THEN x ELSE y
BY DEF Max, Min

\* Trimming keeps the last Keep lines.
LEMMA TrimProperties ==
  ASSUME NEW s \in Seq(Nat)
  PROVE  /\ Keep \in Nat \ {0}
         /\ Trim(s) \in Seq(Nat)
         /\ Len(Trim(s)) = IF Len(s) > Keep THEN Keep ELSE Len(s)
         /\ \A i \in 1 .. Len(Trim(s)) : Trim(s)[i] = s[Len(s) - Len(Trim(s)) + i]
<1>1. Keep \in Nat \ {0}
  <2>1. SnapshotLimit \in Nat
    BY ObserveAssumption
  <2>2. Keep = IF 1 >= SnapshotLimit THEN 1 ELSE SnapshotLimit
    BY <2>1, MaxMinOfTwo DEF Keep
  <2>3. QED
    BY <2>1, <2>2
<1>2. Len(s) \in Nat
  BY LenProperties
<1> DEFINE from == IF Len(s) > Keep THEN Len(s) - Keep + 1 ELSE 1
<1>3. Max({1, Len(s) - Keep + 1}) = from /\ from \in 1 .. Len(s) + 1
  <2>1. Len(s) - Keep + 1 \in Int
    BY <1>1, <1>2
  <2>2. Max({1, Len(s) - Keep + 1}) = IF 1 >= Len(s) - Keep + 1 THEN 1 ELSE Len(s) - Keep + 1
    BY <2>1, MaxMinOfTwo
  <2>3. QED
    BY <1>1, <1>2, <2>2
<1>4. Trim(s) = SubSeq(s, from, Len(s))
  BY <1>3 DEF Trim
<1>5. PICK k \in 1 .. Len(s) + 1 : k = from
  BY <1>3
<1>6. \A i \in k .. Len(s) : s[i] \in Nat
  BY <1>2
<1>7. /\ SubSeq(s, k, Len(s)) \in Seq(Nat)
      /\ Len(SubSeq(s, k, Len(s))) = Len(s) - k + 1
      /\ \A i \in 1 .. Len(s) - k + 1 : SubSeq(s, k, Len(s))[i] = s[k + i - 1]
  <2>1. k \in Int /\ Len(s) \in Int /\ (k <= Len(s) \/ k = Len(s) + 1)
    BY <1>2
  <2>2. QED
    BY <1>2, <1>6, <2>1, SubSeqProperties
<1>8. Trim(s) = SubSeq(s, k, Len(s)) /\ Len(Trim(s)) = Len(s) - k + 1
  BY <1>4, <1>5, <1>7
<1>9. Len(Trim(s)) = IF Len(s) > Keep THEN Keep ELSE Len(s)
  <2>1. k = IF Len(s) > Keep THEN Len(s) - Keep + 1 ELSE 1
    BY <1>5
  <2> HIDE DEF from
  <2>2. QED
    BY <1>1, <1>2, <1>8, <2>1
<1>10. ASSUME NEW i \in 1 .. Len(Trim(s))
       PROVE  Trim(s)[i] = s[Len(s) - Len(Trim(s)) + i]
  <2>1. i \in 1 .. Len(s) - k + 1 /\ Len(s) - Len(Trim(s)) + i = k + i - 1
    BY <1>2, <1>8
  <2> HIDE DEF from
  <2>2. QED
    BY <1>7, <1>8, <2>1
<1>11. QED
  BY <1>1, <1>7, <1>8, <1>9, <1>10

\* A refresh that has loaded a counter.
LEMMA LoadTyped ==
  ASSUME Typed, NEW t \in Threads, RefreshLoad(t)
  PROVE  LocalsTyped'
<1>1. th[t].pc \in {"load", "load2"} /\ count.rx \in Nat /\ count.miss \in Nat
  BY DEF RefreshLoad, Typed, MetricsTyped, Counts
<1>2. th[t] \in RefreshLocals
  BY <1>1, LocalsByPlace DEF Typed
<1>3. PICK r \in RefreshLocals : Set(t, r)
  <2>1. CASE th[t].pc = "load"
    BY <1>1, <1>2, <2>1 DEF RefreshLoad, RefreshLocals, Counts
  <2>2. CASE th[t].pc = "load2"
    BY <1>1, <1>2, <2>2 DEF RefreshLoad, RefreshLocals, Counts
  <2>3. QED
    BY <1>1, <2>1, <2>2
<1>4. r \in Locals
  BY DEF Locals
<1>5. QED
  BY <1>3, <1>4, SetTyped DEF Typed

\* A refresh that moves on with what it has loaded.
LEMMA GotoTyped ==
  ASSUME LocalsTyped, NEW t \in Threads, NEW label \in {"storePool", "export"},
         th[t].pc \in {"store", "storePool"}, Goto(t, label)
  PROVE  LocalsTyped'
<1>1. th[t] \in RefreshLocals
  BY LocalsByPlace
<1> DEFINE r == [th[t] EXCEPT !.pc = label]
<1>2. r \in Locals
  BY <1>1 DEF Locals, RefreshLocals
<1>3. Set(t, r)
  BY DEF Goto, Set
<1> HIDE DEF r
<1>4. QED
  BY <1>2, <1>3, SetTyped

\* The file with the lines of a thread written over its beginning.
LEMMA OverwriteProperties ==
  ASSUME NEW s \in Seq(Nat), NEW f \in Seq(Nat)
  PROVE  LET r == s \o SubSeq(f, Len(s) + 1, Len(f))
         IN  /\ r \in Seq(Nat)
             /\ Len(r) = IF Len(f) > Len(s) THEN Len(f) ELSE Len(s)
             /\ f = <<>> => r = s
<1>1. Len(s) \in Nat /\ Len(f) \in Nat
  BY LenProperties
<1> DEFINE rest == SubSeq(f, Len(s) + 1, Len(f))
<1>2. \A i \in Len(s) + 1 .. Len(f) : f[i] \in Nat
  BY <1>1
<1>3. /\ rest \in Seq(Nat)
      /\ Len(rest) = IF Len(s) + 1 <= Len(f) THEN Len(f) - (Len(s) + 1) + 1 ELSE 0
  BY <1>1, <1>2, SubSeqProperties
<1>4. f = <<>> => rest = <<>>
  BY <1>1, <1>3
<1> HIDE DEF rest
<1>5. s \o rest \in Seq(Nat) /\ Len(s \o rest) = Len(s) + Len(rest)
  BY <1>3, ConcatProperties
<1>6. rest = <<>> => s \o rest = s
  OBVIOUS
<1>7. QED
  BY <1>1, <1>3, <1>4, <1>5, <1>6 DEF rest

\* The types hold initially.
LEMMA TypedInit == Init => Typed
BY DEF Init, Typed, ScalarsTyped, MetricsTyped, RecordsTyped, LocalsTyped, Zero,
       Counts, Metrics, Locals, Idle

\* Every step keeps the types.
LEMMA TypedNext ==
  ASSUME Typed, [Next]_vars
  PROVE  Typed'
<1> USE DEF trace, metrics
<1>0. ScalarsTyped /\ MetricsTyped /\ RecordsTyped /\ LocalsTyped
  BY DEF Typed
<1>1. CASE UNCHANGED vars
  BY <1>1 DEF vars, Typed, ScalarsTyped, MetricsTyped, RecordsTyped, LocalsTyped
<1>2. CASE Tick \/ PoolStep
  <2>1. UNCHANGED <<stamp, refreshed, logs, jobs, clean, th, count, aggregate, exported, order, file, recorded>>
    BY <1>2 DEF Tick, PoolStep
  <2>2. ScalarsTyped'
    BY <1>0, <1>2, <2>1 DEF Tick, PoolStep, ScalarsTyped
  <2>3. QED
    BY <1>0, <2>1, <2>2 DEF Typed, MetricsTyped, RecordsTyped, LocalsTyped
<1>3. ASSUME NEW t \in Threads, NEW id \in Traces, InboundBegin(t, id)
      PROVE  Typed'
  <2>1. UNCHANGED <<now, executed, stamp, refreshed, aggregate, exported, file, logs, recorded, clean>>
    BY <1>3 DEF InboundBegin
  <2>2. ScalarsTyped'
    BY <1>0, <1>3, <2>1 DEF InboundBegin, NewJob, ScalarsTyped
  <2>3. MetricsTyped'
    BY <1>0, <1>3, <2>1 DEF InboundBegin, MetricsTyped, Counts
  <2>4. RecordsTyped'
    <3>1. PICK q \in Seq(Traces) : order' = q \/ (Len(q) > TraceMax /\ order' = Tail(q))
      <4>1. order \in Seq(Traces) /\ Append(order, id) \in Seq(Traces)
        BY <1>0 DEF RecordsTyped
      <4>2. QED
        BY <1>3, <4>1 DEF InboundBegin, Evict
    <3>2. order' \in Seq(Traces)
      <4>1. Len(q) > TraceMax => q # <<>>
        BY ObserveAssumption
      <4>2. QED
        BY <3>1, <4>1, HeadTailProperties
    <3>3. QED
      BY <1>0, <2>1, <3>2 DEF RecordsTyped
  <2>5. LocalsTyped'
    <3>1. [pc |-> "miss", now |-> now] \in Locals
      BY <1>0 DEF Locals, InboundLocals, ScalarsTyped
    <3>2. QED
      BY <1>0, <1>3, <3>1, SetTyped DEF InboundBegin
  <2>6. QED
    BY <2>2, <2>3, <2>4, <2>5 DEF Typed
<1>4. ASSUME NEW t \in Threads, InboundMiss(t)
      PROVE  Typed'
  <2>1. UNCHANGED <<now, executed, stamp, refreshed, aggregate, exported, order, file, logs, jobs, recorded, clean>>
    BY <1>4 DEF InboundMiss
  <2>2. MetricsTyped'
    BY <1>0, <1>4, <2>1 DEF InboundMiss, MetricsTyped, Counts
  <2>3. LocalsTyped'
    <3>1. th[t].now \in Nat /\ stamp \in Nat
      BY <1>0, <1>4, LocalsByPlace DEF InboundMiss, ScalarsTyped
    <3>2. [pc |-> "exchange", now |-> th[t].now, expected |-> stamp] \in Locals
      BY <3>1 DEF Locals, InboundLocals
    <3>3. QED
      BY <1>0, <1>4, <3>2, SetTyped, IdleTyped DEF InboundMiss
  <2>4. QED
    BY <1>0, <2>1, <2>2, <2>3 DEF Typed, ScalarsTyped, RecordsTyped
<1>5. ASSUME NEW t \in Threads, LogExchange(t)
      PROVE  Typed'
  <2>1. UNCHANGED <<now, executed, refreshed, count, aggregate, exported, order, file, jobs, recorded, clean>>
    BY <1>5 DEF LogExchange
  <2>2. ScalarsTyped'
    <3>1. th[t].now \in Nat
      BY <1>0, <1>5, LocalsByPlace DEF LogExchange
    <3>2. QED
      BY <1>0, <1>5, <2>1, <3>1, ObserveAssumption DEF LogExchange, ScalarsTyped
  <2>3. LocalsTyped'
    BY <1>0, <1>5, SetTyped, IdleTyped DEF LogExchange
  <2>4. QED
    BY <1>0, <2>1, <2>2, <2>3 DEF Typed, MetricsTyped, RecordsTyped
<1>6. ASSUME NEW t \in Threads, SkipBegin(t)
      PROVE  Typed'
  <2>1. UNCHANGED <<now, count, executed, stamp, refreshed, aggregate, exported, order, file, logs>>
    BY <1>6 DEF SkipBegin
  <2>2. ScalarsTyped'
    <3>1. clean' \in BOOLEAN
      BY <1>6 DEF SkipBegin
    <3>2. QED
      BY <1>0, <1>6, <2>1, <3>1 DEF SkipBegin, NewJob, ScalarsTyped
  <2>3. Len(recorded) + 1 \in Nat
    BY <1>0 DEF RecordsTyped
  <2>4. RecordsTyped'
    BY <1>0, <1>6, <2>1, <2>3 DEF SkipBegin, RecordsTyped
  <2>5. LocalsTyped'
    <3>1. [pc |-> "truncate", lines |-> Append(file, Len(recorded) + 1)] \in Locals
      BY <1>0, <2>3 DEF RecordsTyped, Locals, SnapshotLocals
    <3>2. QED
      BY <1>0, <1>6, <3>1, SetTyped DEF SkipBegin
  <2>6. QED
    BY <1>0, <2>1, <2>2, <2>4, <2>5 DEF Typed, MetricsTyped
<1>7. ASSUME NEW t \in Threads, SnapshotTruncate(t)
      PROVE  Typed'
  <2>1. UNCHANGED <<now, count, executed, stamp, refreshed, aggregate, exported, order, logs, jobs, recorded, clean>>
    BY <1>7 DEF SnapshotTruncate
  <2>2. RecordsTyped'
    BY <1>0, <1>7, <2>1 DEF SnapshotTruncate, RecordsTyped
  <2>3. LocalsTyped'
    <3>1. Trim(th[t].lines) \in Seq(Nat)
      BY <1>0, <1>7, LocalsByPlace, TrimProperties DEF SnapshotTruncate
    <3>2. [pc |-> "write", lines |-> Trim(th[t].lines)] \in Locals
      BY <3>1 DEF Locals, SnapshotLocals
    <3>3. QED
      BY <1>0, <1>7, <3>2, SetTyped DEF SnapshotTruncate
  <2>4. QED
    BY <1>0, <2>1, <2>2, <2>3 DEF Typed, MetricsTyped, ScalarsTyped
<1>8. ASSUME NEW t \in Threads, SnapshotWrite(t)
      PROVE  Typed'
  <2>1. UNCHANGED <<now, count, executed, stamp, refreshed, aggregate, exported, order, logs, jobs, recorded, clean>>
    BY <1>8 DEF SnapshotWrite
  <2>2. RecordsTyped'
    <3>1. th[t].lines \in Seq(Nat) /\ file \in Seq(Nat)
      BY <1>0, <1>8, LocalsByPlace DEF SnapshotWrite, RecordsTyped
    <3>2. file' \in Seq(Nat)
      BY <1>8, <3>1, OverwriteProperties DEF SnapshotWrite
    <3>3. QED
      BY <1>0, <2>1, <3>2 DEF RecordsTyped
  <2>3. LocalsTyped'
    BY <1>0, <1>8, SetTyped, IdleTyped DEF SnapshotWrite
  <2>4. QED
    BY <1>0, <2>1, <2>2, <2>3 DEF Typed, MetricsTyped, ScalarsTyped
<1>9. ASSUME NEW t \in Threads, RefreshTest(t) \/ ExportBegin(t)
      PROVE  Typed'
  <2>1. UNCHANGED <<now, count, executed, stamp, refreshed, aggregate, exported, order, file, logs, recorded, clean>>
    BY <1>9 DEF RefreshTest, ExportBegin
  <2>2. ScalarsTyped'
    <3>1. jobs' = jobs \/ jobs' = jobs + 1
      <4>1. RefreshTest(t) => jobs' = jobs
        BY DEF RefreshTest
      <4>2. ExportBegin(t) => jobs' = jobs + 1
        BY DEF ExportBegin, NewJob
      <4>3. QED
        BY <1>9, <4>1, <4>2
    <3>2. QED
      BY <1>0, <2>1, <3>1 DEF ScalarsTyped
  <2>3. LocalsTyped'
    <3>1. count \in Counts
      BY <1>0 DEF MetricsTyped
    <3>2. QED
      BY <1>0, <1>9, <3>1, SetTyped, IdleTyped, EnterTyped DEF RefreshTest, ExportBegin
  <2>4. QED
    BY <1>0, <2>1, <2>2, <2>3 DEF Typed, MetricsTyped, RecordsTyped
<1>10. ASSUME NEW t \in Threads, RefreshLoad(t)
       PROVE  Typed'
  <2>1. UNCHANGED <<now, count, executed, stamp, aggregate, exported, order, file, jobs, logs, recorded, clean>>
    BY <1>10 DEF RefreshLoad
  <2>2. ScalarsTyped'
    BY <1>0, <1>10, <2>1 DEF RefreshLoad, ScalarsTyped
  <2>3. QED
    BY <1>0, <1>10, <2>1, <2>2, LoadTyped DEF Typed, MetricsTyped, RecordsTyped
<1>11. ASSUME NEW t \in Threads, RefreshStore(t) \/ RefreshStorePool(t)
       PROVE  Typed'
  <2>1. UNCHANGED <<now, count, executed, stamp, refreshed, exported, order, file, jobs, logs, recorded, clean>>
    BY <1>11 DEF RefreshStore, RefreshStorePool
  <2>2. MetricsTyped'
    <3>1. th[t].pc = "store" => th[t].bridge.rx \in Nat /\ th[t].bridge.miss \in Nat
      BY <1>0, LocalsByPlace DEF RefreshLocals, Counts
    <3>2. executed \in Nat
      BY <1>0 DEF ScalarsTyped
    <3>3. QED
      BY <1>0, <1>11, <2>1, <3>1, <3>2 DEF RefreshStore, RefreshStorePool, MetricsTyped, Metrics
  <2>3. LocalsTyped'
    BY <1>0, <1>11, SetTyped, IdleTyped, GotoTyped DEF RefreshStore, RefreshStorePool
  <2>4. QED
    BY <1>0, <2>1, <2>2, <2>3 DEF Typed, ScalarsTyped, RecordsTyped
<1>12. ASSUME NEW t \in Threads, Export(t)
       PROVE  Typed'
  <2>1. UNCHANGED <<now, count, executed, stamp, refreshed, aggregate, order, file, jobs, logs, recorded, clean>>
    BY <1>12 DEF Export
  <2>2. LocalsTyped'
    BY <1>0, <1>12, SetTyped, IdleTyped, SMTT(30) DEF Export
  <2>3. QED
    BY <1>0, <1>12, <2>1, <2>2 DEF Export, Typed, ScalarsTyped, RecordsTyped, MetricsTyped
<1>13. QED
  BY <1>1, <1>2, <1>3, <1>4, <1>5, <1>6, <1>7, <1>8, <1>9, <1>10, <1>11, <1>12 DEF Next

-----------------------------------------------------------------------------
(* The throttle and the trace index.                                       *)

\* Threads whose compare-exchange will fail: they log all the same.
Losers == {t \in Threads : th[t].pc = "exchange" /\ th[t].expected # stamp}

\* Each thread has logged, or may log with a failing exchange, at most once
\* for every interval that the stamp has moved on.
ThrottleInv ==
  /\ stamp <= now + LogInterval
  /\ \A t \in Threads :
       /\ th[t].pc = "miss" => th[t].now <= now
       /\ th[t].pc = "exchange" =>
            th[t].now <= now /\ th[t].expected <= th[t].now /\ th[t].expected <= stamp
  /\ logs + Cardinality(Losers) <= Cardinality(Threads) * (stamp \div LogInterval)

\* The map and the queue of the trace index hold the same ids, each once.
IndexInv ==
  /\ Len(order) <= TraceMax
  /\ seen = Elements(order) /\ Distinct(order)

\* Whole intervals: as many or more in a longer time, one more after one.
LEMMA WholeIntervals ==
  ASSUME NEW a \in Nat, NEW b \in Nat, NEW n \in Nat \ {0}
  PROVE  /\ a \div n \in Nat
         /\ a <= b => a \div n <= b \div n
         /\ (a + n) \div n = a \div n + 1
<1>1. /\ a % n \in 0 .. n - 1 /\ a \div n \in Int /\ a = n * (a \div n) + (a % n)
      /\ b % n \in 0 .. n - 1 /\ b \div n \in Int /\ b = n * (b \div n) + (b % n)
  BY Remainder
<1>2. PICK p \in Int, q \in Int, r \in 0 .. n - 1, s \in 0 .. n - 1 :
        /\ p = a \div n /\ q = b \div n
        /\ a = n * p + r /\ b = n * q + s
  BY <1>1
<1>3. p \in Nat
  <2>1. SUFFICES ASSUME p <= -1 PROVE FALSE
    OBVIOUS
  <2>2. n * p <= n * (-1)
    BY <2>1
  <2>3. QED
    BY <1>2, <2>2
<1>4. a <= b => p <= q
  <2>1. SUFFICES ASSUME a <= b, q + 1 <= p PROVE FALSE
    OBVIOUS
  <2>2. n * (q + 1) <= n * p /\ n * (q + 1) = n * q + n
    BY <2>1
  <2>3. QED
    BY <1>2, <2>1, <2>2
<1>5. (a + n) \div n = p + 1
  <2>1. PICK u \in Int, v \in 0 .. n - 1 : u = (a + n) \div n /\ a + n = n * u + v
    BY Remainder, a + n \in Int
  <2>2. n * (p + 1) = n * p + n
    OBVIOUS
  <2>3. n * u + v = n * (p + 1) + r
    BY <1>2, <2>1, <2>2
  <2>4. v = r
    BY <2>3, RemainderUnique, p + 1 \in Int
  <2>5. n * u = n * (p + 1) /\ n * u \in Int /\ n * (p + 1) \in Int
    BY <2>3, <2>4
  <2>6. CASE u < p + 1
    BY <2>5, <2>6
  <2>7. CASE u > p + 1
    BY <2>5, <2>7
  <2>8. QED
    BY <2>1, <2>6, <2>7
<1>6. QED
  BY <1>2, <1>3, <1>4, <1>5

\* There are no more losers than threads.
LEMMA LosersFinite ==
  ASSUME NEW S \in SUBSET Threads
  PROVE  /\ IsFiniteSet(S) /\ Cardinality(S) \in Nat /\ Cardinality(Threads) \in Nat
         /\ Cardinality(S) <= Cardinality(Threads)
         /\ \A t \in S : IsFiniteSet(S \ {t}) /\ Cardinality(S \ {t}) = Cardinality(S) - 1
BY ObserveAssumption, FS_Subset, FS_CardinalityType, FS_RemoveElement, Zenon

\* Appending a new id and evicting the oldest.
LEMMA IndexNext ==
  ASSUME Typed, IndexInv, [Next]_vars
  PROVE  IndexInv'
<1> USE DEF trace, metrics
<1>1. CASE UNCHANGED <<seen, order>>
  BY <1>1 DEF IndexInv, Elements, Distinct
<1>2. ASSUME NEW t \in Threads, NEW id \in Traces, InboundBegin(t, id)
      PROVE  IndexInv'
  <2>0. /\ order \in Seq(Traces) /\ Len(order) \in Nat /\ TraceMax \in Nat \ {0}
        /\ Len(order) <= TraceMax /\ seen = Elements(order) /\ Distinct(order)
    BY ObserveAssumption DEF Typed, RecordsTyped, IndexInv
  <2>1. CASE id \in seen
    <3>1. seen \cup {id} = seen /\ ~(Len(order) > TraceMax)
      BY <2>0, <2>1
    <3>2. seen' = seen /\ order' = order
      BY <1>2, <2>1, <3>1 DEF InboundBegin, Evict
    <3>3. QED
      BY <1>1, <3>2
  <2>2. CASE id \notin seen
    <3>1. PICK q : q = Append(order, id)
      OBVIOUS
    <3>2. /\ q \in Seq(Traces) /\ Len(q) = Len(order) + 1 /\ q # <<>>
          /\ DOMAIN q = 1 .. Len(order) + 1 /\ DOMAIN order = 1 .. Len(order)
          /\ q[Len(order) + 1] = id
          /\ \A i \in 1 .. Len(order) : q[i] = order[i]
      BY <2>0, <3>1
    <3>3. Elements(q) = seen \cup {id}
      <4>1. Elements(q) \subseteq seen \cup {id}
        <5>1. ASSUME NEW i \in 1 .. Len(order) + 1 PROVE q[i] \in seen \cup {id}
          <6>1. CASE i = Len(order) + 1
            BY <3>2, <6>1
          <6>2. CASE i # Len(order) + 1
            BY <2>0, <3>2, <6>2, i \in 1 .. Len(order) DEF Elements
          <6>3. QED
            BY <6>1, <6>2
        <5>2. QED
          BY <3>2, <5>1 DEF Elements
      <4>2. ASSUME NEW i \in 1 .. Len(order) PROVE order[i] \in Elements(q)
        BY <2>0, <3>2, i \in 1 .. Len(order) + 1 DEF Elements
      <4>3. id \in Elements(q)
        BY <2>0, <3>2, Len(order) + 1 \in 1 .. Len(order) + 1 DEF Elements
      <4>4. QED
        BY <2>0, <3>2, <4>1, <4>2, <4>3 DEF Elements
    <3>4. Distinct(q)
      <4>1. ASSUME NEW i \in 1 .. Len(order) PROVE order[i] # id
        BY <2>0, <2>2, <3>2 DEF Elements
      <4>2. ASSUME NEW i \in DOMAIN q, NEW j \in DOMAIN q, q[i] = q[j] PROVE i = j
        <5>1. CASE i \in 1 .. Len(order) /\ j \in 1 .. Len(order)
          BY <2>0, <3>2, <4>2, <5>1 DEF Distinct
        <5>2. CASE i = Len(order) + 1 \/ j = Len(order) + 1
          <6>1. i \in 1 .. Len(order) \/ i = Len(order) + 1
            BY <2>0, <3>2
          <6>2. j \in 1 .. Len(order) \/ j = Len(order) + 1
            BY <2>0, <3>2
          <6>3. QED
            BY <3>2, <4>1, <4>2, <5>2, <6>1, <6>2
        <5>3. QED
          BY <2>0, <3>2, <5>1, <5>2
      <4>3. QED
        BY <4>2 DEF Distinct
    <3>5. CASE Len(q) > TraceMax
      <4>1. order' = Tail(q) /\ seen' = (seen \cup {id}) \ {Head(q)}
        BY <1>2, <2>2, <3>1, <3>5 DEF InboundBegin, Evict
      <4>2. /\ Elements(q) = Elements(Tail(q)) \cup {Head(q)}
            /\ Distinct(Tail(q)) /\ Head(q) \notin Elements(Tail(q))
        BY <3>2, <3>4, TailElements
      <4>3. seen' = Elements(Tail(q))
        <5>1. seen' = (Elements(Tail(q)) \cup {Head(q)}) \ {Head(q)}
          BY <3>3, <4>1, <4>2
        <5>2. QED
          BY <4>2, <5>1
      <4>4. Len(Tail(q)) = Len(order)
        BY <2>0, <3>2
      <4>5. QED
        BY <2>0, <4>1, <4>2, <4>3, <4>4, SMTT(60) DEF IndexInv, Elements, Distinct
    <3>6. CASE ~(Len(q) > TraceMax)
      <4>1. order' = q /\ seen' = seen \cup {id}
        BY <1>2, <2>2, <3>1, <3>6 DEF InboundBegin, Evict
      <4>2. QED
        BY <2>0, <3>2, <3>3, <3>4, <3>6, <4>1 DEF IndexInv, Elements, Distinct
    <3>7. QED
      BY <3>5, <3>6
  <2>3. QED
    BY <2>1, <2>2
<1>3. QED
  BY <1>1, <1>2, ZenonT(30) DEF Next, vars, Tick, PoolStep, InboundMiss, LogExchange,
     SkipBegin, SnapshotTruncate, SnapshotWrite, RefreshTest, ExportBegin, RefreshLoad,
     RefreshStore, RefreshStorePool, Export

\* Threads that are at the throttle stay there unless they take the step.
LEMMA ThrottleKept ==
  ASSUME Typed, ThrottleInv, UNCHANGED <<stamp, logs>>, now' \in Nat, now <= now',
         \A u \in Threads :
           \/ th'[u] = th[u]
           \/ th[u].pc # "exchange" /\ th'[u].pc \notin {"miss", "exchange"}
           \/ th[u].pc # "exchange" /\ th'[u].pc = "miss" /\ th'[u].now = now
           \/ /\ th[u].pc = "miss" /\ th'[u].pc = "exchange"
              /\ th'[u].now = th[u].now /\ th'[u].expected = stamp /\ stamp <= th[u].now
  PROVE  ThrottleInv'
<1>1. {now, stamp, LogInterval, logs} \subseteq Nat
  BY ObserveAssumption DEF Typed, ScalarsTyped
<1>2. Losers' = Losers
  BY DEF Losers
<1>3. ASSUME NEW u \in Threads
      PROVE  /\ th'[u].pc = "miss" => th'[u].now <= now'
             /\ th'[u].pc = "exchange" =>
                  th'[u].now <= now' /\ th'[u].expected <= th'[u].now /\ th'[u].expected <= stamp
  <2>1. /\ th[u].pc = "miss" => th[u].now \in Nat /\ th[u].now <= now
        /\ th[u].pc = "exchange" =>
             /\ th[u].now \in Nat /\ th[u].expected \in Nat
             /\ th[u].now <= now /\ th[u].expected <= th[u].now /\ th[u].expected <= stamp
    BY LocalsByPlace DEF Typed, ThrottleInv
  <2>2. QED
    BY <1>1, <2>1
<1>4. stamp <= now' + LogInterval
  BY <1>1 DEF ThrottleInv
<1>5. QED
  BY <1>2, <1>3, <1>4 DEF ThrottleInv

\* A compare-exchange, won or lost.
LEMMA ThrottleExchange ==
  ASSUME Typed, ThrottleInv, NEW t \in Threads, LogExchange(t)
  PROVE  ThrottleInv'
<1> USE DEF trace, metrics
<1>0. /\ now' = now /\ logs' = logs + 1
      /\ \A u \in Threads \ {t} : th'[u] = th[u]
      /\ th'[t].pc = "refresh"
  BY DEF LogExchange, Set, Typed, LocalsTyped
<1>1. /\ now \in Nat /\ stamp \in Nat /\ LogInterval \in Nat \ {0} /\ logs \in Nat
      /\ th[t].now \in Nat /\ th[t].expected \in Nat
      /\ th[t].pc = "exchange"
  BY ObserveAssumption, LocalsByPlace DEF Typed, ScalarsTyped, LogExchange
<1>2. /\ th[t].now <= now /\ th[t].expected <= th[t].now /\ th[t].expected <= stamp
      /\ stamp <= now + LogInterval
  BY <1>1 DEF ThrottleInv
<1>3. ASSUME NEW u \in Threads
      PROVE  /\ th[u].pc = "miss" => th[u].now \in Nat /\ th[u].now <= now
             /\ th[u].pc = "exchange" =>
                  /\ th[u].now \in Nat /\ th[u].expected \in Nat
                  /\ th[u].now <= now /\ th[u].expected <= th[u].now /\ th[u].expected <= stamp
  BY LocalsByPlace DEF Typed, ThrottleInv
<1>4. PICK c \in Nat, l \in Nat, d \in Nat :
        /\ c = Cardinality(Threads) /\ l = Cardinality(Losers) /\ d = stamp \div LogInterval
        /\ logs + l <= c * d
  <2>1. Losers \in SUBSET Threads
    BY DEF Losers
  <2>2. Cardinality(Losers) \in Nat /\ Cardinality(Threads) \in Nat
    BY <2>1, LosersFinite
  <2>3. stamp \div LogInterval \in Nat
    BY <1>1, WholeIntervals
  <2>4. QED
    BY <2>2, <2>3 DEF ThrottleInv
<1>5. CASE stamp = th[t].expected
  <2>1. stamp' = th[t].now + LogInterval /\ stamp' \in Nat
    BY <1>1, <1>5 DEF LogExchange
  <2>2. stamp + LogInterval <= stamp' /\ stamp < stamp' /\ stamp' <= now + LogInterval
    BY <1>1, <1>2, <1>5, <2>1
  <2>3. ASSUME NEW u \in Threads
        PROVE  /\ th'[u].pc = "miss" => th'[u].now <= now
               /\ th'[u].pc = "exchange" =>
                    th'[u].now <= now /\ th'[u].expected <= th'[u].now /\ th'[u].expected <= stamp'
    <3>1. CASE u = t
      BY <1>0, <3>1
    <3>2. CASE u # t
      BY <1>0, <1>1, <1>3, <2>1, <2>2, <3>2
    <3>3. QED
      BY <3>1, <3>2
  <2>4. PICK k \in Nat : k = Cardinality(Losers') /\ k <= c - 1
    <3>1. Losers' \subseteq Threads \ {t}
      BY <1>0 DEF Losers
    <3>2. /\ IsFiniteSet(Threads \ {t}) /\ Cardinality(Threads \ {t}) = c - 1
      BY <1>4, LosersFinite, Threads \in SUBSET Threads
    <3>3. IsFiniteSet(Losers') /\ Cardinality(Losers') <= Cardinality(Threads \ {t})
      BY <3>1, <3>2, FS_Subset
    <3>4. QED
      BY <3>2, <3>3, FS_CardinalityType
  <2>5. PICK e \in Nat : e = stamp' \div LogInterval /\ d + 1 <= e
    <3>1. stamp + LogInterval \in Nat
      BY <1>1
    <3>2. (stamp + LogInterval) \div LogInterval = d + 1
      BY <1>1, <1>4, WholeIntervals
    <3>3. (stamp + LogInterval) \div LogInterval <= stamp' \div LogInterval /\ stamp' \div LogInterval \in Nat
      BY <1>1, <2>1, <2>2, <3>1, WholeIntervals
    <3>4. QED
      BY <3>2, <3>3
  <2>6. (logs + 1) + k <= c * e
    <3>1. c * (d + 1) = c * d + c /\ c * d \in Int
      OBVIOUS
    <3>2. c * (d + 1) <= c * e
      BY <2>5
    <3>3. QED
      BY <1>1, <1>4, <2>4, <3>1, <3>2
  <2>7. QED
    BY <1>0, <1>4, <2>2, <2>3, <2>4, <2>5, <2>6 DEF ThrottleInv
<1>6. CASE stamp # th[t].expected
  <2>1. stamp' = stamp
    BY <1>6 DEF LogExchange
  <2>2. t \in Losers /\ Losers \in SUBSET Threads
    BY <1>1, <1>6 DEF Losers
  <2>3. Losers' = Losers \ {t}
    BY <1>0, <2>1 DEF Losers
  <2>4. Cardinality(Losers') = l - 1
    BY <1>4, <2>2, <2>3, LosersFinite
  <2>5. ASSUME NEW u \in Threads
        PROVE  /\ th'[u].pc = "miss" => th'[u].now <= now
               /\ th'[u].pc = "exchange" =>
                    th'[u].now <= now /\ th'[u].expected <= th'[u].now /\ th'[u].expected <= stamp
    <3>1. CASE u = t
      BY <1>0, <3>1
    <3>2. CASE u # t
      BY <1>0, <1>3, <3>2
    <3>3. QED
      BY <3>1, <3>2
  <2>6. logs' + Cardinality(Losers') <= c * d
    BY <1>0, <1>1, <1>4, <2>4
  <2>7. QED
    BY <1>0, <1>2, <1>4, <2>1, <2>5, <2>6 DEF ThrottleInv
<1>7. QED
  BY <1>5, <1>6

\* Nothing but the steps at the throttle moves the stamp or logs.
LEMMA ThrottleNext ==
  ASSUME Typed, Typed', ThrottleInv, [Next]_vars
  PROVE  ThrottleInv'
<1> USE DEF trace, metrics
<1>0. now \in Nat /\ now' \in Nat /\ stamp \in Nat /\ th \in [Threads -> Locals]
  BY DEF Typed, ScalarsTyped, LocalsTyped
<1>1. CASE UNCHANGED <<th, stamp, logs>> /\ now <= now'
  BY <1>0, <1>1, ThrottleKept
<1>2. ASSUME NEW t \in Threads, NEW id \in Traces, InboundBegin(t, id)
      PROVE  ThrottleInv'
  <2>1. UNCHANGED <<stamp, logs, now>> /\ now <= now'
    BY <1>0, <1>2 DEF InboundBegin
  <2>2. th[t].pc # "exchange" /\ th'[t].pc = "miss" /\ th'[t].now = now
    BY <1>0, <1>2 DEF InboundBegin, NewJob, Set, Idle
  <2>3. \A u \in Threads \ {t} : th'[u] = th[u]
    BY <1>0, <1>2 DEF InboundBegin, Set
  <2>4. QED
    BY <1>0, <2>1, <2>2, <2>3, ThrottleKept
<1>3. ASSUME NEW t \in Threads, InboundMiss(t)
      PROVE  ThrottleInv'
  <2>1. UNCHANGED <<stamp, logs, now>> /\ now <= now'
    BY <1>0, <1>3 DEF InboundMiss
  <2>2. \A u \in Threads \ {t} : th'[u] = th[u]
    BY <1>0, <1>3 DEF InboundMiss, Set
  <2>3. th[t].pc = "miss" /\ th[t].now \in Nat
    BY <1>3, LocalsByPlace DEF InboundMiss, Typed
  <2>4. CASE th[t].now < stamp
    <3>1. th'[t].pc = "refresh"
      BY <1>0, <1>3, <2>4 DEF InboundMiss, Set
    <3>2. QED
      BY <1>0, <2>1, <2>2, <2>3, <3>1, ThrottleKept
  <2>5. CASE ~(th[t].now < stamp)
    <3>1. th'[t].pc = "exchange" /\ th'[t].now = th[t].now /\ th'[t].expected = stamp
      BY <1>0, <1>3, <2>5 DEF InboundMiss, Set
    <3>2. stamp <= th[t].now
      BY <1>0, <2>3, <2>5
    <3>3. QED
      BY <1>0, <2>1, <2>2, <2>3, <3>1, <3>2, ThrottleKept
  <2>6. QED
    BY <2>4, <2>5
<1>4. ASSUME NEW t \in Threads,
             \/ SkipBegin(t) \/ SnapshotTruncate(t) \/ SnapshotWrite(t)
             \/ RefreshTest(t) \/ ExportBegin(t) \/ RefreshLoad(t)
             \/ RefreshStore(t) \/ RefreshStorePool(t) \/ Export(t)
      PROVE  ThrottleInv'
  <2>1. UNCHANGED <<stamp, logs, now>> /\ now <= now'
    <3>1. UNCHANGED <<stamp, logs, now>>
      BY <1>4 DEF SkipBegin, SnapshotTruncate, SnapshotWrite, RefreshTest, ExportBegin,
         RefreshLoad, RefreshStore, RefreshStorePool, Export
    <3>2. QED
      BY <1>0, <3>1
  <2>2. th[t].pc # "exchange" /\ th'[t].pc \notin {"miss", "exchange"}
    <3>1. th[t].pc \in {"load", "load2"} => th[t] \in RefreshLocals
      BY LocalsByPlace DEF Typed
    <3>2. CASE SkipBegin(t) \/ SnapshotTruncate(t) \/ SnapshotWrite(t)
      <4>1. SkipBegin(t) => th[t].pc = "idle" /\ th'[t].pc = "truncate"
        BY <1>0 DEF SkipBegin, Set, NewJob, Idle
      <4>2. SnapshotTruncate(t) => th[t].pc = "truncate" /\ th'[t].pc = "write"
        BY <1>0 DEF SnapshotTruncate, Set
      <4>3. SnapshotWrite(t) => th[t].pc = "write" /\ th'[t].pc = "refresh"
        BY <1>0 DEF SnapshotWrite, Set
      <4>4. QED
        BY <3>2, <4>1, <4>2, <4>3
    <3>3. CASE RefreshTest(t) \/ ExportBegin(t)
      BY <1>0, <3>3 DEF RefreshTest, ExportBegin, Set, NewJob, Idle, Enter
    <3>4. CASE RefreshLoad(t)
      BY <1>0, <3>1, <3>4, ZenonT(60) DEF RefreshLoad, Set, RefreshLocals
    <3>5. CASE RefreshStore(t) \/ RefreshStorePool(t) \/ Export(t)
      <4>1. th[t].pc \in {"store", "storePool", "export"} => th[t] \in RefreshLocals
        BY LocalsByPlace DEF Typed
      <4>2. QED
        BY <1>0, <3>5, <4>1 DEF RefreshStore, RefreshStorePool, Export, Set, Goto, Idle, RefreshLocals
    <3>6. QED
      BY <1>4, <3>2, <3>3, <3>4, <3>5
  <2>3. ASSUME NEW u \in Threads, u # t
        PROVE  \/ th'[u] = th[u]
               \/ th[u].pc # "exchange" /\ th'[u].pc \notin {"miss", "exchange"}
    <3>1. CASE \/ SkipBegin(t) \/ SnapshotTruncate(t) \/ SnapshotWrite(t) \/ RefreshLoad(t)
               \/ RefreshStore(t) \/ RefreshStorePool(t) \/ Export(t)
      BY <1>0, <2>3, <3>1 DEF SkipBegin, SnapshotTruncate, SnapshotWrite, RefreshLoad,
         RefreshStore, RefreshStorePool, Export, Set, Goto
    <3>2. CASE RefreshTest(t) \/ ExportBegin(t)
      BY <2>3, <3>2, EnterOthers
    <3>3. QED
      BY <1>4, <3>1, <3>2
  <2>4. QED
    BY <1>0, <2>1, <2>2, <2>3, ThrottleKept
<1>5. ASSUME Tick \/ PoolStep \/ UNCHANGED vars PROVE ThrottleInv'
  <2>1. UNCHANGED <<th, stamp, logs>> /\ now <= now'
    BY <1>0, <1>5 DEF Tick, PoolStep, vars
  <2>2. QED
    BY <1>1, <2>1
<1>6. QED
  BY <1>2, <1>3, <1>4, <1>5, ThrottleExchange DEF Next

\* No more log lines than one for each thread and interval, though a thread
\* that loses the exchange logs too; and the trace index keeps to its limit
\* with the same ids in its map and in its queue.
THEOREM ObserveBookkeepingBounded == Spec => []BookkeepingBounded
<1>1. ASSUME Init PROVE ThrottleInv /\ IndexInv
  <2>1. /\ now = 0 /\ stamp = 0 /\ logs = 0 /\ LogInterval \in Nat \ {0}
        /\ th = [t \in Threads |-> Idle]
    BY <1>1, ObserveAssumption DEF Init
  <2>2. Losers = {}
    BY <2>1 DEF Losers, Idle
  <2>3. /\ Cardinality(Losers) = 0 /\ Cardinality(Threads) \in Nat
        /\ Cardinality(Threads) * 0 = 0
    BY <2>2, FS_EmptySet, LosersFinite
  <2>4. 0 \div LogInterval = 0
    BY <2>1
  <2>5. ThrottleInv
    BY <2>1, <2>3, <2>4 DEF ThrottleInv, Idle
  <2>6. IndexInv
    BY <1>1, ObserveAssumption DEF Init, IndexInv, Elements, Distinct
  <2>7. QED
    BY <2>5, <2>6
<1>2. Typed /\ ThrottleInv /\ IndexInv /\ [Next]_vars => (Typed /\ ThrottleInv /\ IndexInv)'
  BY TypedNext, ThrottleNext, IndexNext
<1>3. ASSUME Typed, ThrottleInv, IndexInv PROVE BookkeepingBounded
  <2>1. /\ now \in Nat /\ stamp \in Nat /\ LogInterval \in Nat \ {0} /\ logs \in Nat
        /\ now + LogInterval \in Nat /\ stamp <= now + LogInterval
    BY <1>3, ObserveAssumption DEF Typed, ScalarsTyped, ThrottleInv
  <2>2. PICK c \in Nat, l \in Nat, d \in Nat, e \in Nat :
          /\ c = Cardinality(Threads) /\ l = Cardinality(Losers)
          /\ d = stamp \div LogInterval /\ e = now \div LogInterval
          /\ d <= e + 1 /\ logs + l <= c * d
    <3>1. Losers \in SUBSET Threads
      BY DEF Losers
    <3>2. Cardinality(Losers) \in Nat /\ Cardinality(Threads) \in Nat
      BY <3>1, LosersFinite
    <3>3. /\ stamp \div LogInterval \in Nat /\ now \div LogInterval \in Nat
          /\ stamp \div LogInterval <= (now + LogInterval) \div LogInterval
          /\ (now + LogInterval) \div LogInterval = now \div LogInterval + 1
      BY <2>1, WholeIntervals
    <3>4. QED
      BY <1>3, <3>2, <3>3 DEF ThrottleInv
  <2>3. c * d <= c * (e + 1) /\ c * d \in Int /\ c * (e + 1) \in Int
    BY <2>2
  <2>4. logs <= Cardinality(Threads) * (now \div LogInterval + 1)
    BY <2>1, <2>2, <2>3
  <2>5. Cardinality(seen) = Len(order)
    BY <1>3, ElementsCount DEF IndexInv, Typed, RecordsTyped
  <2>6. seen = Range(order)
    BY <1>3 DEF IndexInv, Elements, Range
  <2>7. QED
    BY <1>3, <2>4, <2>5, <2>6 DEF BookkeepingBounded, IndexInv
<1>4. QED
  BY <1>1, <1>2, <1>3, TypedInit, PTL DEF Spec

-----------------------------------------------------------------------------
(* The file of snapshots.                                                  *)

\* s is made of the latest snapshots: all of them, or at least Keep.
Covers(s, all) ==
  /\ Len(s) <= Len(all)
  /\ Len(s) >= Keep \/ Len(s) = Len(all)
  /\ \A i \in 1 .. Len(s) : s[i] = all[Len(all) - Len(s) + i]

\* The file is kept short even by calls that overlap.  When none do, the only
\* call under way carries the latest snapshots in its locals.
FileInv ==
  /\ Len(file) <= Keep
  /\ \A t \in Threads : th[t].pc = "write" => Len(th[t].lines) <= Keep
  /\ clean =>
       /\ \A t, u \in Threads : Recording(t) /\ Recording(u) => t = u
       /\ \A t \in Threads :
            /\ Recording(t) => Covers(th[t].lines, recorded)
            /\ th[t].pc = "write" => file = <<>>
       /\ (\A t \in Threads : ~Recording(t)) => Covers(file, recorded)

\* A suffix, position by position.
LEMMA SuffixByPosition ==
  ASSUME NEW s \in Seq(Nat), NEW u \in Seq(Nat), Len(s) <= Len(u),
         \A i \in 1 .. Len(s) : s[i] = u[Len(u) - Len(s) + i]
  PROVE  IsSuffix(s, u)
<1>1. PICK n \in Nat, m \in Nat : n = Len(s) /\ m = Len(u)
  BY LenProperties
<1> DEFINE r == Reverse(s)
           v == Reverse(u)
<1>2. /\ r \in Seq(Nat) /\ Len(r) = n
      /\ v \in Seq(Nat) /\ Len(v) = m
      /\ \A i \in 1 .. n : r[i] = s[(n - i) + 1]
      /\ \A i \in 1 .. m : v[i] = u[(m - i) + 1]
  <2>1. ASSUME NEW i \in 1 .. n PROVE s[(n - i) + 1] \in Nat
    <3>1. (n - i) + 1 \in 1 .. n
      OBVIOUS
    <3>2. QED
      BY <1>1, <3>1, SMTT(30)
  <2>2. ASSUME NEW i \in 1 .. m PROVE u[(m - i) + 1] \in Nat
    <3>1. (m - i) + 1 \in 1 .. m
      OBVIOUS
    <3>2. QED
      BY <1>1, <3>1
  <2>3. QED
    BY <1>1, <2>1, <2>2 DEF Reverse
<1> HIDE DEF r, v
<1>3. ASSUME NEW i \in 1 .. n PROVE r[i] = v[i]
  <2>1. (n - i) + 1 \in 1 .. n /\ i \in 1 .. m
    BY <1>1
  <2>2. s[(n - i) + 1] = u[m - n + ((n - i) + 1)]
    <3>1. \A j \in 1 .. n : s[j] = u[m - n + j]
      BY <1>1
    <3>2. QED
      BY <2>1, <3>1
  <2>3. m - n + ((n - i) + 1) = (m - i) + 1
    BY <1>1
  <2>4. QED
    BY <1>2, <2>1, <2>2, <2>3
<1>4. SubSeq(r, 1, n) = SubSeq(v, 1, n)
  <2>1. n \in Int /\ (\A i \in 1 .. n : r[i] \in Nat) /\ (\A i \in 1 .. n : v[i] \in Nat)
    <3>1. 1 .. n = DOMAIN r /\ \A i \in 1 .. n : i \in DOMAIN v
      BY <1>1, <1>2
    <3>2. (\A i \in DOMAIN r : r[i] \in Nat) /\ (\A i \in DOMAIN v : v[i] \in Nat)
      BY <1>2, LenProperties
    <3>3. QED
      BY <3>1, <3>2
  <2>2. /\ SubSeq(r, 1, n) \in Seq(Nat) /\ Len(SubSeq(r, 1, n)) = n
        /\ \A i \in 1 .. n : SubSeq(r, 1, n)[i] = r[i]
    BY <1>1, <2>1, SubSeqProperties
  <2>3. /\ SubSeq(v, 1, n) \in Seq(Nat) /\ Len(SubSeq(v, 1, n)) = n
        /\ \A i \in 1 .. n : SubSeq(v, 1, n)[i] = v[i]
    BY <1>1, <2>1, SubSeqProperties
  <2>4. QED
    BY <1>3, <2>2, <2>3, SeqEqual
<1>5. Len(r) <= Len(v) /\ SubSeq(r, 1, Len(r)) = SubSeq(v, 1, Len(r))
  BY <1>1, <1>2, <1>4
<1>6. QED
  BY <1>5 DEF IsSuffix, IsPrefix, r, v

\* Recording one more snapshot behind the latest.
LEMMA CoversAppend ==
  ASSUME NEW s \in Seq(Nat), NEW u \in Seq(Nat), Covers(s, u), NEW n \in Nat
  PROVE  Covers(Append(s, n), Append(u, n))
<1>1. /\ Len(s) \in Nat /\ Len(u) \in Nat /\ Keep \in Nat
      /\ Len(Append(s, n)) = Len(s) + 1 /\ Len(Append(u, n)) = Len(u) + 1
  BY TrimProperties, LenProperties, AppendProperties
<1>2. Len(s) <= Len(u) /\ (Len(s) >= Keep \/ Len(s) = Len(u))
  BY DEF Covers
<1>3. ASSUME NEW i \in 1 .. Len(s) + 1
      PROVE  Append(s, n)[i] = Append(u, n)[(Len(u) + 1) - (Len(s) + 1) + i]
  <2>1. CASE i = Len(s) + 1
    <3>1. (Len(u) + 1) - (Len(s) + 1) + i = Len(u) + 1
      BY <1>1, <2>1
    <3>2. QED
      BY <1>1, <2>1, <3>1, AppendProperties
  <2>2. CASE i # Len(s) + 1
    <3>1. /\ i \in 1 .. Len(s) /\ (Len(u) + 1) - (Len(s) + 1) + i = Len(u) - Len(s) + i
          /\ Len(u) - Len(s) + i \in 1 .. Len(u)
      <4>1. PICK a \in Nat, b \in Nat : a = Len(s) /\ b = Len(u) /\ a <= b
        BY <1>1, <1>2
      <4>2. i \in 1 .. a /\ (b + 1) - (a + 1) + i = b - a + i /\ b - a + i \in 1 .. b
        BY <2>2, <4>1
      <4>3. QED
        BY <4>1, <4>2
    <3>2. Append(s, n)[i] = s[i] /\ Append(u, n)[Len(u) - Len(s) + i] = u[Len(u) - Len(s) + i]
      BY <3>1, AppendProperties
    <3>3. QED
      BY <3>1, <3>2 DEF Covers
  <2>3. QED
    BY <2>1, <2>2
<1>4. PICK a \in Nat, b \in Nat :
        /\ a = Len(s) /\ b = Len(u)
        /\ Len(Append(s, n)) = a + 1 /\ Len(Append(u, n)) = b + 1
  BY <1>1
<1>5. a + 1 <= b + 1 /\ (a + 1 >= Keep \/ a + 1 = b + 1)
  BY <1>1, <1>2, <1>4
<1>6. QED
  BY <1>3, <1>4, <1>5 DEF Covers

\* Trimming leaves the latest snapshots.
LEMMA CoversTrim ==
  ASSUME NEW s \in Seq(Nat), NEW u \in Seq(Nat), Covers(s, u)
  PROVE  Covers(Trim(s), u)
<1>1. /\ Len(s) \in Nat /\ Len(u) \in Nat /\ Keep \in Nat \ {0}
      /\ Len(Trim(s)) = IF Len(s) > Keep THEN Keep ELSE Len(s)
      /\ \A i \in 1 .. Len(Trim(s)) : Trim(s)[i] = s[Len(s) - Len(Trim(s)) + i]
  BY TrimProperties, LenProperties
<1>2. Len(s) <= Len(u) /\ (Len(s) >= Keep \/ Len(s) = Len(u))
  BY DEF Covers
<1>3. PICK k \in Nat : k = Len(Trim(s)) /\ k <= Len(s) /\ k <= Len(u) /\ (k >= Keep \/ k = Len(u))
  BY <1>1, <1>2
<1>4. ASSUME NEW i \in 1 .. k PROVE Trim(s)[i] = u[Len(u) - k + i]
  <2>1. Len(s) - k + i \in 1 .. Len(s) /\ Len(u) - Len(s) + (Len(s) - k + i) = Len(u) - k + i
    BY <1>1, <1>3
  <2>2. s[Len(s) - k + i] = u[Len(u) - Len(s) + (Len(s) - k + i)]
    BY <2>1 DEF Covers
  <2>3. QED
    BY <1>1, <1>3, <2>1, <2>2
<1>5. QED
  BY <1>3, <1>4 DEF Covers

\* Steps of threads that are not recording.
LEMMA FileKept ==
  ASSUME FileInv, UNCHANGED <<file, recorded, clean>>,
         \A u \in Threads :
           \/ th'[u] = th[u]
           \/ th[u].pc \notin {"truncate", "write"} /\ th'[u].pc \notin {"truncate", "write"}
  PROVE  FileInv'
<1>1. \A u \in Threads : /\ Recording(u)' <=> Recording(u)
                         /\ Recording(u) => th'[u] = th[u]
                         /\ th'[u].pc = "write" <=> th[u].pc = "write"
                         /\ th[u].pc = "write" => th'[u] = th[u]
  BY DEF Recording
<1>2. Len(file') <= Keep /\ \A t \in Threads : th'[t].pc = "write" => Len(th'[t].lines) <= Keep
  BY <1>1 DEF FileInv
<1>3. ASSUME clean'
      PROVE  /\ \A t, u \in Threads : Recording(t)' /\ Recording(u)' => t = u
             /\ \A t \in Threads :
                  /\ Recording(t)' => Covers(th'[t].lines, recorded')
                  /\ th'[t].pc = "write" => file' = <<>>
             /\ (\A t \in Threads : ~Recording(t)') => Covers(file', recorded')
  <2>1. clean
    BY <1>3
  <2>2. \A t \in Threads : Recording(t)' => Covers(th'[t].lines, recorded')
    BY <1>1, <2>1 DEF FileInv
  <2>3. QED
    BY <1>1, <2>1, <2>2 DEF FileInv
<1>4. QED
  BY <1>2, <1>3 DEF FileInv, Covers

\* A call of RecordSnapshot begins: it has read the file and added its line.
LEMMA FileBegin ==
  ASSUME Typed, FileInv, NEW t \in Threads, SkipBegin(t)
  PROVE  FileInv'
<1> USE DEF trace, metrics
<1>0. th \in [Threads -> Locals] /\ file \in Seq(Nat) /\ recorded \in Seq(Nat)
  BY DEF Typed, LocalsTyped, RecordsTyped
<1>1. PICK n \in Nat :
        /\ recorded' = Append(recorded, n)
        /\ th' = [th EXCEPT ![t] = [pc |-> "truncate", lines |-> Append(file, n)]]
  <2>1. Len(recorded) + 1 \in Nat
    BY <1>0
  <2>2. QED
    BY <2>1 DEF SkipBegin, Set
<1>2. th'[t].pc = "truncate" /\ th'[t].lines = Append(file, n)
  BY <1>0, <1>1
<1>3. \A u \in Threads \ {t} : th'[u] = th[u]
  BY <1>0, <1>1
<1>4. UNCHANGED file /\ (clean' => clean /\ \A u \in Threads : ~Recording(u))
  BY DEF SkipBegin
<1>5. Len(file') <= Keep /\ \A u \in Threads : th'[u].pc = "write" => Len(th'[u].lines) <= Keep
  BY <1>2, <1>3, <1>4 DEF FileInv
<1>6. ASSUME clean'
      PROVE  /\ \A u, w \in Threads : Recording(u)' /\ Recording(w)' => u = w
             /\ \A u \in Threads :
                  /\ Recording(u)' => Covers(th'[u].lines, recorded')
                  /\ th'[u].pc = "write" => file' = <<>>
             /\ (\A u \in Threads : ~Recording(u)') => Covers(file', recorded')
  <2>1. \A u \in Threads \ {t} : ~Recording(u)'
    BY <1>3, <1>4, <1>6 DEF Recording
  <2>2. Covers(file, recorded)
    BY <1>4, <1>6 DEF FileInv
  <2>3. Covers(th'[t].lines, recorded')
    BY <1>0, <1>1, <1>2, <2>2, CoversAppend
  <2>4. Recording(t)' /\ th'[t].pc # "write"
    BY <1>2 DEF Recording
  <2>5. \A u \in Threads \ {t} : th'[u].pc # "write"
    BY <2>1 DEF Recording
  <2>6. QED
    BY <2>1, <2>3, <2>4, <2>5
<1>7. QED
  BY <1>5, <1>6 DEF FileInv

\* It trims its lines and truncates the file.
LEMMA FileTruncate ==
  ASSUME Typed, FileInv, NEW t \in Threads, SnapshotTruncate(t)
  PROVE  FileInv'
<1> USE DEF trace, metrics
<1>0. /\ th \in [Threads -> Locals] /\ recorded \in Seq(Nat) /\ Keep \in Nat
      /\ th[t].pc = "truncate" /\ th[t].lines \in Seq(Nat)
  BY LocalsByPlace, TrimProperties DEF Typed, LocalsTyped, RecordsTyped, SnapshotTruncate
<1>1. /\ th'[t].pc = "write" /\ th'[t].lines = Trim(th[t].lines)
      /\ file' = <<>> /\ UNCHANGED <<recorded, clean>>
  BY <1>0 DEF SnapshotTruncate, Set
<1>2. \A u \in Threads \ {t} : th'[u] = th[u]
  BY <1>0 DEF SnapshotTruncate, Set
<1>3. Len(th'[t].lines) <= Keep
  BY <1>0, <1>1, TrimProperties
<1>4. Len(file') <= Keep
  BY <1>0, <1>1, EmptySeq
<1>5. \A u \in Threads : th'[u].pc = "write" => Len(th'[u].lines) <= Keep
  BY <1>2, <1>3 DEF FileInv
<1>6. ASSUME clean'
      PROVE  /\ \A u, w \in Threads : Recording(u)' /\ Recording(w)' => u = w
             /\ \A u \in Threads :
                  /\ Recording(u)' => Covers(th'[u].lines, recorded')
                  /\ th'[u].pc = "write" => file' = <<>>
             /\ (\A u \in Threads : ~Recording(u)') => Covers(file', recorded')
  <2>1. clean /\ Recording(t) /\ Recording(t)'
    BY <1>0, <1>1, <1>6 DEF Recording
  <2>2. \A u \in Threads \ {t} : ~Recording(u)
    BY <2>1 DEF FileInv
  <2>3. \A u \in Threads \ {t} : ~Recording(u)'
    BY <1>2, <2>2 DEF Recording
  <2>4. Covers(th[t].lines, recorded)
    BY <2>1 DEF FileInv
  <2>5. Covers(th'[t].lines, recorded')
    BY <1>0, <1>1, <2>4, CoversTrim
  <2>6. QED
    BY <1>1, <2>1, <2>3, <2>5
<1>7. QED
  BY <1>4, <1>5, <1>6 DEF FileInv

\* It writes its lines: into an empty file when it is alone.
LEMMA FileWrite ==
  ASSUME Typed, FileInv, NEW t \in Threads, SnapshotWrite(t)
  PROVE  FileInv'
<1> USE DEF trace, metrics
<1>0. /\ th \in [Threads -> Locals] /\ recorded \in Seq(Nat) /\ Keep \in Nat
      /\ th[t].pc = "write" /\ th[t].lines \in Seq(Nat) /\ file \in Seq(Nat)
      /\ Len(th[t].lines) \in Nat /\ Len(file) \in Nat
  BY LocalsByPlace, TrimProperties, LenProperties DEF Typed, LocalsTyped, RecordsTyped, SnapshotWrite
<1>1. th'[t].pc = "refresh" /\ UNCHANGED <<recorded, clean>>
  BY <1>0 DEF SnapshotWrite, Set
<1>2. \A u \in Threads \ {t} : th'[u] = th[u]
  BY <1>0 DEF SnapshotWrite, Set
<1>3. /\ Len(file') = IF Len(file) > Len(th[t].lines) THEN Len(file) ELSE Len(th[t].lines)
      /\ file = <<>> => file' = th[t].lines
  <2>1. file' = th[t].lines \o SubSeq(file, Len(th[t].lines) + 1, Len(file))
    BY DEF SnapshotWrite
  <2>2. QED
    BY <1>0, <2>1, OverwriteProperties
<1>4. Len(file') <= Keep
  BY <1>0, <1>3 DEF FileInv
<1>5. \A u \in Threads : th'[u].pc = "write" => Len(th'[u].lines) <= Keep
  BY <1>1, <1>2 DEF FileInv
<1>6. ASSUME clean'
      PROVE  /\ \A u, w \in Threads : Recording(u)' /\ Recording(w)' => u = w
             /\ \A u \in Threads :
                  /\ Recording(u)' => Covers(th'[u].lines, recorded')
                  /\ th'[u].pc = "write" => file' = <<>>
             /\ (\A u \in Threads : ~Recording(u)') => Covers(file', recorded')
  <2>1. clean /\ Recording(t)
    BY <1>0, <1>1, <1>6 DEF Recording
  <2>2. \A u \in Threads \ {t} : ~Recording(u)
    BY <2>1 DEF FileInv
  <2>3. \A u \in Threads : ~Recording(u)'
    BY <1>1, <1>2, <2>2 DEF Recording
  <2>4. \A u \in Threads : th'[u].pc # "write"
    BY <2>3 DEF Recording
  <2>5. Covers(th[t].lines, recorded) /\ file = <<>>
    BY <1>0, <2>1 DEF FileInv
  <2>6. Covers(file', recorded')
    BY <1>1, <1>3, <2>5
  <2>7. QED
    BY <2>3, <2>4, <2>6
<1>7. QED
  BY <1>4, <1>5, <1>6 DEF FileInv

\* Every other step leaves the file and the threads that record alone.
LEMMA FileNext ==
  ASSUME Typed, FileInv, [Next]_vars
  PROVE  FileInv'
<1> USE DEF trace, metrics
<1>0. th \in [Threads -> Locals]
  BY DEF Typed, LocalsTyped
<1>1. CASE UNCHANGED <<th, file, recorded, clean>>
  BY <1>1, FileKept
<1>2. ASSUME NEW t \in Threads,
             \/ \E id \in Traces : InboundBegin(t, id)
             \/ InboundMiss(t) \/ LogExchange(t)
             \/ RefreshTest(t) \/ ExportBegin(t) \/ RefreshLoad(t)
             \/ RefreshStore(t) \/ RefreshStorePool(t) \/ Export(t)
      PROVE  FileInv'
  <2>1. UNCHANGED <<file, recorded, clean>>
    BY <1>2 DEF InboundBegin, InboundMiss, LogExchange, RefreshTest, ExportBegin, RefreshLoad,
       RefreshStore, RefreshStorePool, Export
  <2>2. th[t].pc \in {"idle", "miss", "exchange", "refresh", "load", "load2", "store", "storePool", "export"}
    <3>1. NewJob(t) => th[t].pc = "idle"
      BY DEF NewJob, Idle
    <3>2. QED
      BY <1>2, <3>1 DEF InboundBegin, InboundMiss, LogExchange, RefreshTest, ExportBegin,
         RefreshLoad, RefreshStore, RefreshStorePool, Export
  <2>3. th'[t].pc \notin {"truncate", "write"}
    <3>1. CASE \E id \in Traces : InboundBegin(t, id)
      BY <1>0, <3>1 DEF InboundBegin, Set
    <3>2. CASE InboundMiss(t) \/ LogExchange(t)
      BY <1>0, <3>2 DEF InboundMiss, LogExchange, Set
    <3>3. CASE RefreshTest(t) \/ ExportBegin(t)
      BY <1>0, <3>3 DEF RefreshTest, ExportBegin, Set, Idle, Enter
    <3>4. CASE RefreshLoad(t) \/ RefreshStore(t) \/ RefreshStorePool(t) \/ Export(t)
      <4>1. th[t] \in RefreshLocals
        <5>1. th[t].pc \in {"load", "load2", "store", "storePool", "export"}
          BY <3>4 DEF RefreshLoad, RefreshStore, RefreshStorePool, Export
        <5>2. QED
          BY <5>1, LocalsByPlace DEF Typed
      <4>2. RefreshLoad(t) => th'[t].pc \in {"load2", "store"}
        <5>1. RefreshLoad(t) /\ th[t].pc = "load" => th'[t].pc = "load2"
          BY <1>0, <4>1 DEF RefreshLoad, Set, RefreshLocals
        <5>2. RefreshLoad(t) /\ th[t].pc = "load2" => th'[t].pc = "store"
          BY <1>0, <4>1 DEF RefreshLoad, Set, RefreshLocals
        <5>3. QED
          BY <5>1, <5>2 DEF RefreshLoad
      <4>3. RefreshStore(t) => th'[t].pc = "storePool"
        BY <1>0, <4>1 DEF RefreshStore, Goto, RefreshLocals
      <4>4. RefreshStorePool(t) => th'[t].pc \in {"export", "idle"}
        BY <1>0, <4>1 DEF RefreshStorePool, Goto, Set, Idle, RefreshLocals
      <4>5. Export(t) => th'[t].pc = "idle"
        BY <1>0 DEF Export, Set, Idle
      <4>6. QED
        BY <3>4, <4>2, <4>3, <4>4, <4>5
    <3>5. QED
      BY <1>2, <3>1, <3>2, <3>3, <3>4
  <2>4. ASSUME NEW u \in Threads, u # t
        PROVE  \/ th'[u] = th[u]
               \/ th[u].pc \notin {"truncate", "write"} /\ th'[u].pc \notin {"truncate", "write"}
    <3>1. CASE \/ \E id \in Traces : InboundBegin(t, id)
               \/ InboundMiss(t) \/ LogExchange(t) \/ RefreshLoad(t)
               \/ RefreshStore(t) \/ RefreshStorePool(t) \/ Export(t)
      BY <1>0, <2>4, <3>1 DEF InboundBegin, InboundMiss, LogExchange, RefreshLoad,
         RefreshStore, RefreshStorePool, Export, Set, Goto
    <3>2. CASE RefreshTest(t) \/ ExportBegin(t)
      BY <2>4, <3>2, EnterOthers
    <3>3. QED
      BY <1>2, <3>1, <3>2
  <2>5. QED
    BY <2>1, <2>2, <2>3, <2>4, FileKept
<1>3. Tick \/ PoolStep \/ UNCHANGED vars => UNCHANGED <<th, file, recorded, clean>>
  BY DEF Tick, PoolStep, vars
<1>4. QED
  BY <1>1, <1>2, <1>3, FileBegin, FileTruncate, FileWrite DEF Next

\* The snapshot file keeps to its limit whatever calls of RecordSnapshot
\* overlap, and holds exactly the latest snapshots while none did.
THEOREM ObserveSnapshotsKept == Spec => []SnapshotsKept
<1>1. ASSUME Init PROVE FileInv
  <2>1. /\ file = <<>> /\ recorded = <<>> /\ th = [t \in Threads |-> Idle]
    BY <1>1 DEF Init
  <2>2. Keep \in Nat /\ Len(<<>>) = 0
    BY TrimProperties, EmptySeq
  <2>3. \A t \in Threads : th[t].pc = "idle"
    BY <2>1 DEF Idle
  <2>4. Covers(file, recorded)
    BY <2>1, <2>2 DEF Covers
  <2>5. QED
    BY <2>1, <2>2, <2>3, <2>4 DEF FileInv, Recording
<1>2. Typed /\ FileInv /\ [Next]_vars => (Typed /\ FileInv)'
  BY TypedNext, FileNext
<1>3. ASSUME Typed, FileInv PROVE SnapshotsKept
  <2>1. ASSUME clean, \A t \in Threads : ~Recording(t)
        PROVE  Len(file) = Min({Keep, Len(recorded)}) /\ IsSuffix(file, recorded)
    <3>1. Covers(file, recorded) /\ Len(file) <= Keep
      BY <1>3, <2>1 DEF FileInv
    <3>2. /\ file \in Seq(Nat) /\ recorded \in Seq(Nat) /\ Keep \in Nat
          /\ Len(file) \in Nat /\ Len(recorded) \in Nat
      BY <1>3, TrimProperties, LenProperties DEF Typed, RecordsTyped
    <3>3. Min({Keep, Len(recorded)}) = IF Keep <= Len(recorded) THEN Keep ELSE Len(recorded)
      BY <3>2, MaxMinOfTwo, Keep \in Int, Len(recorded) \in Int
    <3>4. Len(file) = Min({Keep, Len(recorded)})
      BY <3>1, <3>2, <3>3 DEF Covers
    <3>5. IsSuffix(file, recorded)
      BY <3>1, <3>2, SuffixByPosition DEF Covers
    <3>6. QED
      BY <3>4, <3>5
  <2>2. QED
    BY <1>3, <2>1 DEF SnapshotsKept, FileInv
<1>4. QED
  BY <1>1, <1>2, <1>3, TypedInit, PTL DEF Spec

-----------------------------------------------------------------------------
(* What an export reports.                                                 *)

RefreshPlaces == {"load", "load2", "store", "storePool", "export"}
Below(a, b) == a.rx <= b.rx /\ a.miss <= b.miss

\* A refresh has loaded no less than had been counted when it began and no
\* more than has been counted by now; what it has stored stays in the
\* aggregate as long as nobody else refreshes.  Until it stores, the aggregate
\* and whatever is exported from it are older than its beginning.
FreshAt(t) ==
  /\ th[t].pc \in RefreshPlaces => Below(th[t].base, count)
  /\ th[t].pc = "load2" => th[t].base.rx <= th[t].bridge.rx /\ th[t].bridge.rx <= count.rx
  /\ th[t].pc = "store" => Below(th[t].base, th[t].bridge) /\ Below(th[t].bridge, count)
  /\ th[t].pc \in {"load", "load2", "store"} /\ th[t].alone =>
       Below(aggregate, th[t].base) /\ Below(exported, th[t].base)
  /\ th[t].pc \in {"storePool", "export"} /\ th[t].alone =>
       Below(th[t].base, aggregate) /\ Below(exported, aggregate)
  /\ th[t].pc \in RefreshPlaces /\ th[t].alone => \A u \in Threads \ {t} : ~Refreshing(u)
FreshInv == Below(aggregate, count) /\ Below(exported, count) /\ \A t \in Threads : FreshAt(t)

\* Types of what the comparisons are about.
LEMMA FreshTypes ==
  ASSUME Typed
  PROVE  /\ th \in [Threads -> Locals]
         /\ count.rx \in Nat /\ count.miss \in Nat /\ aggregate.rx \in Nat /\ aggregate.miss \in Nat
         /\ exported.rx \in Nat /\ exported.miss \in Nat
         /\ \A t \in Threads : th[t].pc \in RefreshPlaces =>
              /\ th[t] \in RefreshLocals
              /\ th[t].base.rx \in Nat /\ th[t].base.miss \in Nat
              /\ th[t].bridge.rx \in Nat /\ th[t].bridge.miss \in Nat
<1>1. /\ th \in [Threads -> Locals] /\ count \in Counts /\ aggregate \in Metrics /\ exported \in Metrics
  BY DEF Typed, LocalsTyped, MetricsTyped
<1>2. ASSUME NEW t \in Threads, th[t].pc \in RefreshPlaces
      PROVE  th[t] \in RefreshLocals
  BY <1>2, LocalsByPlace DEF Typed, RefreshPlaces
<1>3. QED
  BY <1>1, <1>2 DEF Counts, Metrics, RefreshLocals

\* Steps outside a refresh, which may count more.
LEMMA FreshKept ==
  ASSUME Typed, Typed', FreshInv, UNCHANGED aggregate, Below(count, count'),
         exported' \in {exported, aggregate},
         \A u \in Threads : th'[u] = th[u] \/ th'[u].pc \notin RefreshPlaces
  PROVE  FreshInv'
<1>0. /\ count'.rx \in Nat /\ count'.miss \in Nat
      /\ count.rx \in Nat /\ count.miss \in Nat /\ aggregate.rx \in Nat /\ aggregate.miss \in Nat
      /\ exported.rx \in Nat /\ exported.miss \in Nat
      /\ \A t \in Threads : th[t].pc \in RefreshPlaces =>
              /\ th[t].base.rx \in Nat /\ th[t].base.miss \in Nat
              /\ th[t].bridge.rx \in Nat /\ th[t].bridge.miss \in Nat
  <2>1. count' \in Counts
    BY DEF Typed, MetricsTyped
  <2>2. QED
    BY <2>1, FreshTypes DEF Counts
<1>1. Below(aggregate', count') /\ Below(exported', count')
  BY <1>0 DEF FreshInv, Below
<1>2. \A u \in Threads : Refreshing(u)' => Refreshing(u)
  BY DEF Refreshing, RefreshPlaces
<1>3. ASSUME NEW t \in Threads PROVE FreshAt(t)'
  <2>1. CASE th'[t].pc \notin RefreshPlaces
    BY <2>1 DEF FreshAt, RefreshPlaces
  <2>2. CASE th'[t].pc \in RefreshPlaces
    <3>1. th'[t] = th[t] /\ th[t].pc \in RefreshPlaces /\ FreshAt(t)
      BY <2>2 DEF FreshInv
    <3>2. /\ th[t].base.rx \in Nat /\ th[t].base.miss \in Nat
          /\ th[t].bridge.rx \in Nat /\ th[t].bridge.miss \in Nat
      BY <1>0, <3>1
    <3>3. th[t].pc \in RefreshPlaces => Below(th[t].base, count')
      BY <1>0, <3>1, <3>2 DEF FreshAt, Below
    <3>4. th[t].pc = "load2" => th[t].base.rx <= th[t].bridge.rx /\ th[t].bridge.rx <= count'.rx
      BY <1>0, <3>1, <3>2 DEF FreshAt, Below
    <3>5. th[t].pc = "store" => Below(th[t].base, th[t].bridge) /\ Below(th[t].bridge, count')
      BY <1>0, <3>1, <3>2 DEF FreshAt, Below
    <3>6. th[t].pc \in RefreshPlaces /\ th[t].alone => \A u \in Threads \ {t} : ~Refreshing(u)'
      BY <1>2, <3>1 DEF FreshAt
    <3>7. th[t].pc \in {"storePool", "export"} /\ th[t].alone =>
            Below(th[t].base, aggregate) /\ Below(exported', aggregate)
      BY <1>0, <3>1 DEF FreshAt, Below
    <3>8. th[t].pc \in {"load", "load2", "store"} /\ th[t].alone =>
            Below(aggregate, th[t].base) /\ Below(exported', th[t].base)
      BY <3>1 DEF FreshAt
    <3>9. QED
      BY <3>1, <3>3, <3>4, <3>5, <3>6, <3>7, <3>8 DEF FreshAt
  <2>3. QED
    BY <2>1, <2>2
<1>4. QED
  BY <1>1, <1>3 DEF FreshInv

\* A refresh begins: no other refresh is alone any more.
LEMMA FreshEnter ==
  ASSUME Typed, FreshInv, UNCHANGED <<count, aggregate, exported>>, NEW t \in Threads, NEW e \in BOOLEAN,
         Enter(t, "load", e)
  PROVE  FreshInv'
<1>0. /\ th \in [Threads -> Locals]
      /\ count.rx \in Nat /\ count.miss \in Nat
      /\ \A u \in Threads : th[u].pc \in RefreshPlaces => th[u] \in RefreshLocals
  BY FreshTypes
<1>1. /\ th'[t].pc = "load" /\ th'[t].base = count
      /\ th'[t].alone <=> \A v \in Threads : ~Refreshing(v)
  BY DEF Enter
<1>2. ASSUME NEW u \in Threads, u # t, th[u].pc \in RefreshPlaces
      PROVE  /\ th'[u].pc = th[u].pc /\ th'[u].base = th[u].base
             /\ th'[u].bridge = th[u].bridge /\ ~th'[u].alone
  <2>1. Refreshing(u) \/ th[u].pc = "export"
    BY <1>2 DEF Refreshing, RefreshPlaces
  <2>2. th'[u] = [th[u] EXCEPT !.alone = FALSE]
    BY <1>2, <2>1 DEF Enter
  <2>3. QED
    BY <1>0, <1>2, <2>2 DEF RefreshLocals
<1>3. ASSUME NEW u \in Threads, u # t, th[u].pc \notin RefreshPlaces
      PROVE  th'[u] = th[u]
  <2>1. ~(Refreshing(u) \/ th[u].pc = "export")
    BY <1>3 DEF Refreshing, RefreshPlaces
  <2>2. QED
    BY <1>3, <2>1 DEF Enter
<1>4. Below(aggregate, count) /\ Below(exported, count)
  BY DEF FreshInv
<1>5. ASSUME NEW u \in Threads PROVE FreshAt(u)'
  <2>1. CASE u = t
    <3>1. Below(count, count)
      BY <1>0 DEF Below
    <3>2. th'[t].alone => \A v \in Threads \ {t} : ~Refreshing(v)'
      <4>1. ASSUME th'[t].alone, NEW v \in Threads, v # t PROVE ~Refreshing(v)'
        BY <1>1, <1>2, <1>3, <4>1 DEF Refreshing
      <4>2. QED
        BY <4>1
    <3>3. QED
      BY <1>1, <1>4, <2>1, <3>1, <3>2 DEF FreshAt
  <2>2. CASE u # t /\ th[u].pc \in RefreshPlaces
    <3>1. FreshAt(u)
      BY DEF FreshInv
    <3>2. QED
      BY <1>2, <2>2, <3>1 DEF FreshAt
  <2>3. CASE u # t /\ th[u].pc \notin RefreshPlaces
    BY <1>3, <2>3 DEF FreshAt, RefreshPlaces
  <2>4. QED
    BY <2>1, <2>2, <2>3
<1>6. QED
  BY <1>4, <1>5 DEF FreshInv, Below

\* A refresh loads a counter, which is no smaller than when it began.
LEMMA FreshLoad ==
  ASSUME Typed, FreshInv, NEW t \in Threads, RefreshLoad(t)
  PROVE  FreshInv'
<1> USE DEF trace, metrics
<1>0. UNCHANGED <<count, aggregate, exported>>
  BY DEF RefreshLoad
<1>1. /\ th \in [Threads -> Locals] /\ th[t] \in RefreshLocals /\ FreshAt(t)
      /\ count.rx \in Nat /\ count.miss \in Nat
      /\ th[t].base.rx \in Nat /\ th[t].base.miss \in Nat
      /\ th[t].bridge.rx \in Nat /\ th[t].bridge.miss \in Nat
  BY FreshTypes DEF FreshInv, RefreshLoad, RefreshPlaces
<1>2. \A u \in Threads \ {t} : th'[u] = th[u]
  BY <1>1 DEF RefreshLoad, Set
<1>3. /\ th'[t].base = th[t].base /\ (th'[t].alone <=> th[t].alone)
      /\ \/ /\ th[t].pc = "load" /\ th'[t].pc = "load2" /\ th'[t].bridge.rx = count.rx
         \/ /\ th[t].pc = "load2" /\ th'[t].pc = "store"
            /\ th'[t].bridge.rx = th[t].bridge.rx /\ th'[t].bridge.miss = count.miss
  <2>1. CASE th[t].pc = "load"
    <3>1. th'[t] = [th[t] EXCEPT !.pc = "load2", !.bridge = [th[t].bridge EXCEPT !.rx = count.rx]]
      BY <1>1, <2>1 DEF RefreshLoad, Set, RefreshLocals
    <3>2. QED
      BY <1>1, <2>1, <3>1 DEF RefreshLocals, Counts
  <2>2. CASE th[t].pc = "load2"
    <3>1. th'[t] = [th[t] EXCEPT !.pc = "store", !.bridge = [th[t].bridge EXCEPT !.miss = count.miss]]
      BY <1>1, <2>2 DEF RefreshLoad, Set, RefreshLocals
    <3>2. QED
      BY <1>1, <2>2, <3>1 DEF RefreshLocals, Counts
  <2>3. QED
    BY <2>1, <2>2 DEF RefreshLoad
<1>4. th[t].pc \in {"load", "load2"} /\ th'[t].pc \in {"load2", "store"}
  BY <1>3
<1>5. \A u \in Threads : Refreshing(u)' <=> Refreshing(u)
  BY <1>2, <1>4 DEF Refreshing
<1>6. ASSUME NEW u \in Threads, u # t PROVE FreshAt(u)'
  BY <1>0, <1>2, <1>5, <1>6 DEF FreshInv, FreshAt
<1>7. FreshAt(t)'
  <2>1. Below(th[t].base, count)
    BY <1>1, <1>4 DEF FreshAt, RefreshPlaces
  <2>2. th[t].alone => \A u \in Threads \ {t} : ~Refreshing(u)
    BY <1>1, <1>4 DEF FreshAt, RefreshPlaces
  <2>0. th[t].alone => Below(aggregate, th[t].base) /\ Below(exported, th[t].base)
    BY <1>1, <1>4 DEF FreshAt
  <2>3. CASE th[t].pc = "load"
    BY <1>0, <1>1, <1>3, <1>4, <1>5, <2>0, <2>1, <2>2, <2>3 DEF FreshAt, Below
  <2>4. CASE th[t].pc = "load2"
    <3>1. th[t].base.rx <= th[t].bridge.rx /\ th[t].bridge.rx <= count.rx
      BY <1>1, <2>4 DEF FreshAt
    <3>2. Below(th'[t].base, th'[t].bridge) /\ Below(th'[t].bridge, count)
      BY <1>1, <1>3, <1>4, <2>1, <2>4, <3>1 DEF Below
    <3>3. QED
      BY <1>0, <1>3, <1>4, <1>5, <2>0, <2>1, <2>2, <2>4, <3>2 DEF FreshAt
  <2>5. QED
    BY <1>4, <2>3, <2>4
<1>8. QED
  BY <1>0, <1>6, <1>7 DEF FreshInv, Below

\* A refresh stores what it has loaded: nobody else was alone.
LEMMA FreshStore ==
  ASSUME Typed, FreshInv, NEW t \in Threads, RefreshStore(t)
  PROVE  FreshInv'
<1> USE DEF trace, metrics
<1>0. UNCHANGED <<count, exported>> /\ th[t].pc = "store"
  BY DEF RefreshStore
<1>1. /\ th \in [Threads -> Locals] /\ th[t] \in RefreshLocals /\ FreshAt(t) /\ aggregate \in Metrics
      /\ exported.rx \in Nat /\ exported.miss \in Nat /\ th[t].base \in Counts /\ th[t].bridge \in Counts
  BY <1>0, FreshTypes DEF FreshInv, RefreshPlaces, RefreshLocals, Typed, MetricsTyped
<1>2. \A u \in Threads \ {t} : th'[u] = th[u]
  BY <1>1 DEF RefreshStore, Goto
<1>3. /\ th'[t].pc = "storePool" /\ th'[t].base = th[t].base
      /\ th'[t].alone <=> th[t].alone
  BY <1>1 DEF RefreshStore, Goto, RefreshLocals
<1>4. aggregate'.rx = th[t].bridge.rx /\ aggregate'.miss = th[t].bridge.miss
  BY <1>1 DEF RefreshStore, Metrics
<1>5. Below(th[t].base, th[t].bridge) /\ Below(th[t].bridge, count)
  BY <1>0, <1>1 DEF FreshAt
<1>6. /\ Below(th[t].base, aggregate') /\ Below(aggregate', count') /\ Below(exported', count')
      /\ th[t].alone => Below(exported', aggregate')
  <2>1. th[t].alone => Below(exported, th[t].base)
    BY <1>0, <1>1 DEF FreshAt
  <2>2. Below(exported, count)
    BY DEF FreshInv
  <2>3. QED
    BY <1>0, <1>1, <1>4, <1>5, <2>1, <2>2 DEF Below, Counts
<1>7. \A u \in Threads : Refreshing(u)' <=> Refreshing(u)
  BY <1>0, <1>2, <1>3 DEF Refreshing
<1>8. FreshAt(t)'
  BY <1>0, <1>1, <1>3, <1>6, <1>7 DEF FreshAt, RefreshPlaces
<1>9. ASSUME NEW u \in Threads, u # t PROVE FreshAt(u)'
  <2>1. FreshAt(u) /\ th'[u] = th[u]
    BY <1>2, <1>9 DEF FreshInv
  <2>2. ~(th[u].pc \in RefreshPlaces /\ th[u].alone)
    BY <1>0, <1>9, <2>1 DEF FreshAt, Refreshing
  <2>3. QED
    BY <1>0, <1>7, <2>1, <2>2 DEF FreshAt, RefreshPlaces
<1>10. QED
  BY <1>6, <1>8, <1>9 DEF FreshInv

\* The counters of the pool are stored: those of the bridge stay.
LEMMA FreshStorePool ==
  ASSUME Typed, FreshInv, NEW t \in Threads, RefreshStorePool(t)
  PROVE  FreshInv'
<1> USE DEF trace, metrics
<1>0. UNCHANGED <<count, exported>> /\ th[t].pc = "storePool"
  BY DEF RefreshStorePool
<1>1. th \in [Threads -> Locals] /\ th[t] \in RefreshLocals /\ FreshAt(t) /\ aggregate \in Metrics
  BY <1>0, FreshTypes DEF FreshInv, RefreshPlaces, Typed, MetricsTyped
<1>2. \A u \in Threads \ {t} : th'[u] = th[u]
  BY <1>1 DEF RefreshStorePool, Goto, Set
<1>3. aggregate'.rx = aggregate.rx /\ aggregate'.miss = aggregate.miss
  BY <1>1 DEF RefreshStorePool, Metrics
<1>4. \/ th'[t] = Idle
      \/ /\ th'[t].pc = "export" /\ th'[t].base = th[t].base
         /\ th'[t].alone <=> th[t].alone
  <2>1. CASE th[t].export
    BY <1>1, <2>1 DEF RefreshStorePool, Goto, RefreshLocals
  <2>2. CASE ~th[t].export
    BY <1>1, <2>2 DEF RefreshStorePool, Set
  <2>3. QED
    BY <2>1, <2>2
<1>5. \A u \in Threads : Refreshing(u)' => Refreshing(u)
  BY <1>2, <1>4 DEF Refreshing, Idle
<1>6. FreshAt(t)'
  <2>1. CASE th'[t] = Idle
    BY <2>1 DEF FreshAt, RefreshPlaces, Idle
  <2>2. CASE /\ th'[t].pc = "export" /\ th'[t].base = th[t].base
             /\ th'[t].alone <=> th[t].alone
    <3>1. Below(th[t].base, count)
      BY <1>0, <1>1 DEF FreshAt, RefreshPlaces
    <3>2. th[t].alone => Below(th[t].base, aggregate') /\ Below(exported', aggregate')
      BY <1>0, <1>1, <1>3 DEF FreshAt, Below
    <3>3. th[t].alone => \A u \in Threads \ {t} : ~Refreshing(u)'
      BY <1>0, <1>1, <1>5 DEF FreshAt, RefreshPlaces
    <3>4. QED
      BY <1>0, <2>2, <3>1, <3>2, <3>3 DEF FreshAt
  <2>3. QED
    BY <1>4, <2>1, <2>2
<1>7. ASSUME NEW u \in Threads, u # t PROVE FreshAt(u)'
  <2>1. FreshAt(u) /\ th'[u] = th[u]
    BY <1>2, <1>7 DEF FreshInv
  <2>2. /\ th[u].pc \in {"storePool", "export"} /\ th[u].alone =>
             Below(th[u].base, aggregate') /\ Below(exported', aggregate')
        /\ th[u].pc \in {"load", "load2", "store"} /\ th[u].alone =>
             Below(aggregate', th[u].base) /\ Below(exported', th[u].base)
    BY <1>0, <1>3, <2>1 DEF FreshAt, Below
  <2>3. QED
    BY <1>0, <1>5, <2>1, <2>2 DEF FreshAt
<1>8. QED
  BY <1>0, <1>3, <1>6, <1>7 DEF FreshInv, Below

\* Every step keeps the refreshes fresh.
LEMMA FreshNext ==
  ASSUME Typed, Typed', FreshInv, [Next]_vars
  PROVE  FreshInv'
<1> USE DEF trace, metrics
<1>0. /\ th \in [Threads -> Locals] /\ count \in Counts
      /\ count.rx \in Nat /\ count.miss \in Nat
  BY FreshTypes DEF Typed, MetricsTyped
<1>1. ASSUME Tick \/ PoolStep \/ UNCHANGED vars PROVE FreshInv'
  <2>1. UNCHANGED <<count, aggregate, exported, th>>
    BY <1>1 DEF Tick, PoolStep, vars
  <2>2. Below(count, count')
    BY <1>0, <2>1 DEF Below
  <2>3. QED
    BY <2>1, <2>2, FreshKept
<1>2. ASSUME NEW t \in Threads,
             \/ \E id \in Traces : InboundBegin(t, id)
             \/ InboundMiss(t) \/ LogExchange(t)
             \/ SkipBegin(t) \/ SnapshotTruncate(t) \/ SnapshotWrite(t) \/ Export(t)
      PROVE  FreshInv'
  <2>1. UNCHANGED aggregate /\ exported' \in {exported, aggregate}
    BY <1>2 DEF InboundBegin, InboundMiss, LogExchange, SkipBegin, SnapshotTruncate, SnapshotWrite, Export
  <2>2. Below(count, count')
    <3>1. \/ count' = count
          \/ count' = [count EXCEPT !.rx = @ + 1]
          \/ count' = [count EXCEPT !.miss = @ + 1]
      BY <1>2 DEF InboundBegin, InboundMiss, LogExchange, SkipBegin, SnapshotTruncate, SnapshotWrite, Export
    <3>2. QED
      BY <1>0, <3>1 DEF Below, Counts
  <2>3. \A u \in Threads \ {t} : th'[u] = th[u]
    BY <1>0, <1>2 DEF InboundBegin, InboundMiss, LogExchange, SkipBegin, SnapshotTruncate,
       SnapshotWrite, Export, Set
  <2>4. th'[t].pc \notin RefreshPlaces
    <3>1. (\E id \in Traces : InboundBegin(t, id)) => th'[t].pc = "miss"
      BY <1>0 DEF InboundBegin, Set
    <3>2. InboundMiss(t) => th'[t].pc \in {"exchange", "refresh"}
      BY <1>0 DEF InboundMiss, Set
    <3>3. /\ LogExchange(t) => th'[t].pc = "refresh"
          /\ SnapshotWrite(t) => th'[t].pc = "refresh"
      <4>1. Set(t, [pc |-> "refresh"]) => th'[t].pc = "refresh"
        BY <1>0 DEF Set
      <4>2. QED
        BY <4>1 DEF LogExchange, SnapshotWrite
    <3>4. SkipBegin(t) => th'[t].pc = "truncate"
      BY <1>0 DEF SkipBegin, Set
    <3>5. SnapshotTruncate(t) => th'[t].pc = "write"
      BY <1>0 DEF SnapshotTruncate, Set
    <3>6. Export(t) => th'[t].pc = "idle"
      BY <1>0 DEF Export, Set, Idle
    <3>7. QED
      BY <1>2, <3>1, <3>2, <3>3, <3>4, <3>5, <3>6 DEF RefreshPlaces
  <2>5. QED
    BY <2>1, <2>2, <2>3, <2>4, FreshKept
<1>3. ASSUME NEW t \in Threads, RefreshTest(t) \/ ExportBegin(t)
      PROVE  FreshInv'
  <2>1. UNCHANGED <<count, aggregate, exported>>
    BY <1>3 DEF RefreshTest, ExportBegin
  <2>2. CASE \E e \in BOOLEAN : Enter(t, "load", e)
    BY <2>1, <2>2, FreshEnter
  <2>3. CASE Set(t, Idle)
    <3>1. Below(count, count')
      BY <1>0, <2>1 DEF Below
    <3>2. th'[t].pc = "idle" /\ \A u \in Threads \ {t} : th'[u] = th[u]
      BY <1>0, <2>3 DEF Set, Idle
    <3>3. QED
      BY <2>1, <3>1, <3>2, FreshKept DEF RefreshPlaces
  <2>4. QED
    BY <1>3, <2>2, <2>3 DEF RefreshTest, ExportBegin
<1>4. QED
  BY <1>1, <1>2, <1>3, FreshLoad, FreshStore, FreshStorePool DEF Next

\* Only the step Export takes a thread from there to the end of its job.
LEMMA ExportEnds ==
  ASSUME Typed, Next, NEW t \in Threads, th[t].pc = "export", th'[t] = Idle
  PROVE  Export(t)
<1> USE DEF trace, metrics
<1>0. th \in [Threads -> Locals] /\ th'[t].pc = "idle"
  BY DEF Typed, LocalsTyped, Idle
<1>1. ~Tick /\ ~PoolStep
  BY <1>0 DEF Tick, PoolStep
<1>2. ASSUME NEW u \in Threads,
             \/ \E id \in Traces : InboundBegin(u, id)
             \/ InboundMiss(u) \/ LogExchange(u)
             \/ SkipBegin(u) \/ SnapshotTruncate(u) \/ SnapshotWrite(u)
             \/ RefreshLoad(u) \/ RefreshStore(u) \/ RefreshStorePool(u)
      PROVE  FALSE
  <2>1. u # t
    <3>1. ~NewJob(t)
      BY DEF NewJob, Idle
    <3>2. QED
      BY <1>2, <3>1 DEF InboundBegin, InboundMiss, LogExchange, SkipBegin, SnapshotTruncate,
         SnapshotWrite, RefreshLoad, RefreshStore, RefreshStorePool
  <2>2. th'[t] = th[t]
    BY <1>0, <1>2, <2>1 DEF InboundBegin, InboundMiss, LogExchange, SkipBegin, SnapshotTruncate,
       SnapshotWrite, RefreshLoad, RefreshStore, RefreshStorePool, Set, Goto
  <2>3. QED
    BY <1>0, <2>2
<1>3. ASSUME NEW u \in Threads, RefreshTest(u) \/ ExportBegin(u)
      PROVE  FALSE
  <2>1. u # t
    <3>1. ~NewJob(t)
      BY DEF NewJob, Idle
    <3>2. QED
      BY <1>3, <3>1 DEF RefreshTest, ExportBegin
  <2>2. QED
    BY <1>0, <1>3, <2>1, EnterOthers
<1>4. ASSUME NEW u \in Threads, Export(u)
      PROVE  Export(t)
  <2>1. CASE u = t
    BY <1>4, <2>1
  <2>2. CASE u # t
    <3>1. th'[t] = th[t]
      BY <1>0, <1>4, <2>2 DEF Export, Set
    <3>2. QED
      BY <1>0, <3>1
  <2>3. QED
    BY <2>1, <2>2
<1>5. QED
  BY <1>1, <1>2, <1>3, <1>4 DEF Next

\* An export reports no more than has been counted, and at least what had been
\* counted when it was called unless another refresh overlapped it: then the
\* difference that it returns is a true one, not one that wraps.
THEOREM ObserveExportFresh == Spec => ExportFresh
<1> DEFINE Step == \A t \in Threads, f \in {"rx", "miss"} :
                     (th[t].pc = "export" /\ th'[t] = Idle) =>
                       /\ exported'[f] <= count[f]
                       /\ th[t].alone => th[t].base[f] <= exported'[f] /\ exported[f] <= exported'[f]
<1>1. ASSUME Init PROVE FreshInv
  <2>1. /\ count = [rx |-> 0, miss |-> 0] /\ aggregate = Zero /\ exported = Zero /\ th = [t \in Threads |-> Idle]
    BY <1>1 DEF Init
  <2>2. QED
    BY <2>1 DEF FreshInv, FreshAt, Below, Zero, Idle, RefreshPlaces
<1>2. Typed /\ FreshInv /\ [Next]_vars => (Typed /\ FreshInv)'
  BY TypedNext, FreshNext
<1>3. ASSUME Typed, FreshInv, [Next]_vars PROVE [Step]_vars
  <2>1. CASE UNCHANGED vars
    BY <2>1
  <2>2. CASE Next
    <3>1. ASSUME NEW t \in Threads, th[t].pc = "export", th'[t] = Idle
          PROVE  /\ exported' = aggregate /\ Below(aggregate, count)
                 /\ th[t].alone => Below(th[t].base, aggregate) /\ Below(exported, aggregate)
      <4>1. Export(t)
        BY <1>3, <2>2, <3>1, ExportEnds
      <4>2. QED
        BY <1>3, <3>1, <4>1 DEF Export, FreshInv, FreshAt
    <3>2. Step
      BY <3>1 DEF Below
    <3>3. QED
      BY <3>2
  <2>3. QED
    BY <1>3, <2>1, <2>2
<1>4. QED
  BY <1>1, <1>2, <1>3, TypedInit, PTL DEF Spec, ExportFresh
=============================================================================
