------------------------------- MODULE Observe ------------------------------
(***************************************************************************)
(* What the bridge records about its work: counters, the aggregate that is *)
(* built from them, exported differences, throttled logs, the trace index  *)
(* and the file of diagnostic snapshots.                                   *)
(*                                                                         *)
(* Threads do three jobs.  "inbound": receive a message for which nobody   *)
(* has registered (rx_count_, trace index, route_miss_count_, throttled    *)
(* log, refresh).  "skip": refuse a message in Publish (RecordSnapshot,    *)
(* refresh).  "export": ExportMetricsDelta.  A step is what a thread does  *)
(* between two accesses that the steps of others can come between: every   *)
(* counter is loaded by itself, and the file is read, truncated and written*)
(* without any lock.  Two counters stand for all of BridgeMetrics.  What   *)
(* ExportMetricsDelta returns is aggregate - exported, modulo 2^64.        *)
(***************************************************************************)
EXTENDS Integers, FiniteSetsExt, SequencesExt

CONSTANTS
  Threads,
  Traces,            \* trace ids
  LogInterval,       \* kLogThrottleIntervalMs
  RefreshInterval,   \* kMetricsRefreshIntervalMs
  TraceMax,          \* kTraceIndexMaxEntries
  SnapshotLimit,     \* diagnostics_snapshot_limit
  MaxJobs, MaxTime, MaxTasks   \* bounds

ASSUME ObserveAssumption ==
  /\ {LogInterval, RefreshInterval, TraceMax} \subseteq Nat \ {0}
  /\ {SnapshotLimit, MaxJobs, MaxTime, MaxTasks} \subseteq Nat
  /\ IsFiniteSet(Threads)

VARIABLES
  now,         \* NowUnixMs
  count,       \* rx_count_ and route_miss_count_
  executed,    \* the pool's executed_count_
  stamp,       \* last_route_miss_log_ms_
  refreshed,   \* last_metrics_refresh_ms_
  aggregate,   \* bridge_metrics_ and thread_pool_metrics_ of the aggregator
  exported,    \* last_export_bridge_ and last_export_thread_pool_
  seen, order, \* the keys of trace_index_last_seen_ms_; trace_index_insert_order_
  file,        \* lines of the snapshot file
  th,          \* locals of each thread
  jobs,        \* jobs begun so far
  logs,        \* history: how many log lines were let through
  recorded,    \* history: the snapshots in the order of their calls
  clean        \* history: no two calls of RecordSnapshot overlapped

trace == <<seen, order>>
metrics == <<aggregate, exported>>
vars == <<now, count, executed, stamp, refreshed, aggregate, exported, seen,
          order, file, th, jobs, logs, recorded, clean>>

Idle == [pc |-> "idle"]
Zero == [rx |-> 0, miss |-> 0, pool |-> 0]

Init ==
  /\ now = 0 /\ executed = 0 /\ stamp = 0 /\ refreshed = 0
  /\ count = [rx |-> 0, miss |-> 0]
  /\ aggregate = Zero /\ exported = Zero
  /\ seen = {} /\ order = <<>>
  /\ file = <<>> /\ recorded = <<>>
  /\ th = [t \in Threads |-> Idle]
  /\ jobs = 0 /\ logs = 0
  /\ clean = TRUE

Set(t, locals) == th' = [th EXCEPT ![t] = locals]
Goto(t, label) == th' = [th EXCEPT ![t].pc = label]

Refreshing(t) == th[t].pc \in {"load", "load2", "store", "storePool"}
Recording(t) == th[t].pc \in {"truncate", "write"}

Tick ==
  /\ now < MaxTime
  /\ now' = now + 1
  /\ UNCHANGED <<count, executed, stamp, refreshed, metrics, trace, file, th,
                 jobs, logs, recorded, clean>>

\* The pool runs a task, or is started again, which resets its counters.
PoolStep ==
  /\ \/ executed < MaxTasks /\ executed' = executed + 1
     \/ executed > 0 /\ executed' = 0
  /\ UNCHANGED <<now, count, stamp, refreshed, metrics, trace, file, th, jobs,
                 logs, recorded, clean>>

NewJob(t) == th[t] = Idle /\ jobs < MaxJobs /\ jobs' = jobs + 1

-----------------------------------------------------------------------------
(* An inbound message.                                                     *)

EvictFromOrderOnly(keys, queue) ==
  [keys |-> keys, queue |-> IF Len(queue) > TraceMax THEN Tail(queue) ELSE queue]
\* The oldest trace id goes when there is one too many.
Evict(keys, queue) ==
  IF Len(queue) > TraceMax
  THEN [keys |-> keys \ {Head(queue)}, queue |-> Tail(queue)]
  ELSE [keys |-> keys, queue |-> queue]

\* rx_count_, the trace index under its mutex, and the time that the throttle
\* will be asked with.
InboundBegin(t, id) ==
  /\ NewJob(t)
  /\ count' = [count EXCEPT !.rx = @ + 1]
  /\ LET e == Evict(seen \cup {id}, IF id \in seen THEN order ELSE Append(order, id))
     IN seen' = e.keys /\ order' = e.queue
  /\ Set(t, [pc |-> "miss", now |-> now])
  /\ UNCHANGED <<now, executed, stamp, refreshed, metrics, file, logs, recorded,
                 clean>>

\* route_miss_count_, and the first half of NextLogAllowedMs.
InboundMiss(t) ==
  /\ th[t].pc = "miss"
  /\ count' = [count EXCEPT !.miss = @ + 1]
  /\ IF th[t].now < stamp
     THEN Set(t, [pc |-> "refresh"])
     ELSE Set(t, [pc |-> "exchange", now |-> th[t].now, expected |-> stamp])
  /\ UNCHANGED <<now, executed, stamp, refreshed, metrics, trace, file, jobs,
                 logs, recorded, clean>>

LogExchangeNoInterval(t) ==
  /\ th[t].pc = "exchange"
  /\ stamp' = IF stamp = th[t].expected THEN th[t].now ELSE stamp
  /\ logs' = logs + 1
  /\ Set(t, [pc |-> "refresh"])
  /\ UNCHANGED <<now, count, executed, refreshed, metrics, trace, file, jobs,
                 recorded, clean>>
\* compare_exchange_strong: a thread that loses logs as well.
LogExchange(t) ==
  /\ th[t].pc = "exchange"
  /\ stamp' = IF stamp = th[t].expected THEN th[t].now + LogInterval ELSE stamp
  /\ logs' = logs + 1
  /\ Set(t, [pc |-> "refresh"])
  /\ UNCHANGED <<now, count, executed, refreshed, metrics, trace, file, jobs,
                 recorded, clean>>

-----------------------------------------------------------------------------
(* A refused message: DiagnosticsManager::RecordSnapshotWithFields.        *)

Keep == Max({1, SnapshotLimit})

SkipBegin(t) ==
  /\ NewJob(t)
  /\ LET n == Len(recorded) + 1
     IN /\ recorded' = Append(recorded, n)
        /\ Set(t, [pc |-> "truncate", lines |-> Append(file, n)])
  /\ clean' = (clean /\ \A u \in Threads : ~Recording(u))
  /\ UNCHANGED <<now, count, executed, stamp, refreshed, metrics, trace, file,
                 logs>>

TrimNewest(lines) == SubSeq(lines, 1, Min({Keep, Len(lines)}))
\* The front is dropped while there are too many.
Trim(lines) == SubSeq(lines, Max({1, Len(lines) - Keep + 1}), Len(lines))

\* ofstream with ios::trunc.
SnapshotTruncate(t) ==
  /\ th[t].pc = "truncate"
  /\ file' = <<>>
  /\ Set(t, [pc |-> "write", lines |-> Trim(th[t].lines)])
  /\ UNCHANGED <<now, count, executed, stamp, refreshed, metrics, trace, jobs,
                 logs, recorded, clean>>

\* Written from the start of the file, over what another thread wrote since.
SnapshotWrite(t) ==
  /\ th[t].pc = "write"
  /\ file' = th[t].lines \o SubSeq(file, Len(th[t].lines) + 1, Len(file))
  /\ Set(t, [pc |-> "refresh"])
  /\ UNCHANGED <<now, count, executed, stamp, refreshed, metrics, trace, jobs,
                 logs, recorded, clean>>

-----------------------------------------------------------------------------
(* RefreshAggregatedMetrics and ExportMetricsDelta.                        *)

\* A refresh begins.  History: what was counted then, and whether any other
\* refresh overlaps it.
Enter(t, label, export) ==
  th' = [u \in Threads |->
           IF u = t
           THEN [pc |-> label, export |-> export, bridge |-> [rx |-> 0, miss |-> 0],
                 base |-> count, alone |-> \A v \in Threads : ~Refreshing(v)]
           ELSE IF Refreshing(u) \/ th[u].pc = "export"
           THEN [th[u] EXCEPT !.alone = FALSE]
           ELSE th[u]]

\* Not forced: only when the interval has passed (or the clock went back).
RefreshTest(t) ==
  /\ th[t].pc = "refresh"
  /\ IF now < refreshed \/ now - refreshed >= RefreshInterval
     THEN Enter(t, "load", FALSE)
     ELSE Set(t, Idle)
  /\ UNCHANGED <<now, count, executed, stamp, refreshed, metrics, trace, file,
                 jobs, logs, recorded, clean>>

ExportThrottled(t) ==
  /\ NewJob(t)
  /\ Enter(t, IF now - refreshed >= RefreshInterval THEN "load" ELSE "export", TRUE)
  /\ UNCHANGED <<now, count, executed, stamp, refreshed, metrics, trace, file,
                 logs, recorded, clean>>
\* ExportMetricsDelta: a forced refresh comes first.
ExportBegin(t) ==
  /\ NewJob(t)
  /\ Enter(t, "load", TRUE)
  /\ UNCHANGED <<now, count, executed, stamp, refreshed, metrics, trace, file,
                 logs, recorded, clean>>

RefreshLoad(t) ==
  /\ th[t].pc \in {"load", "load2"}
  /\ IF th[t].pc = "load"
     THEN /\ refreshed' = now
          /\ Set(t, [th[t] EXCEPT !.pc = "load2", !.bridge.rx = count.rx])
     ELSE /\ Set(t, [th[t] EXCEPT !.pc = "store", !.bridge.miss = count.miss])
          /\ UNCHANGED refreshed
  /\ UNCHANGED <<now, count, executed, stamp, metrics, trace, file, jobs, logs,
                 recorded, clean>>

\* UpdateBridgeMetrics: whoever comes last wins.
RefreshStore(t) ==
  /\ th[t].pc = "store"
  /\ aggregate' = [aggregate EXCEPT !.rx = th[t].bridge.rx, !.miss = th[t].bridge.miss]
  /\ Goto(t, "storePool")
  /\ UNCHANGED <<now, count, executed, stamp, refreshed, exported, trace,
                 file, jobs, logs, recorded, clean>>

\* UpdateThreadPoolMetrics with ThreadPool::GetMetrics.
RefreshStorePool(t) ==
  /\ th[t].pc = "storePool"
  /\ aggregate' = [aggregate EXCEPT !.pool = executed]
  /\ IF th[t].export THEN Goto(t, "export") ELSE Set(t, Idle)
  /\ UNCHANGED <<now, count, executed, stamp, refreshed, exported, trace,
                 file, jobs, logs, recorded, clean>>

\* ExportDeltaSinceLastCall: the next differences are taken to this aggregate.
Export(t) ==
  /\ th[t].pc = "export"
  /\ exported' = aggregate
  /\ Set(t, Idle)
  /\ UNCHANGED <<now, count, executed, stamp, refreshed, aggregate, trace, file,
                 jobs, logs, recorded, clean>>

-----------------------------------------------------------------------------

Next ==
  \/ Tick \/ PoolStep
  \/ \E t \in Threads :
       \/ \E id \in Traces : InboundBegin(t, id)
       \/ InboundMiss(t) \/ LogExchange(t)
       \/ SkipBegin(t) \/ SnapshotTruncate(t) \/ SnapshotWrite(t)
       \/ RefreshTest(t) \/ ExportBegin(t) \/ RefreshLoad(t)
       \/ RefreshStore(t) \/ RefreshStorePool(t) \/ Export(t)

Spec == Init /\ [][Next]_vars

-----------------------------------------------------------------------------
(* Properties.                                                             *)

\* An export never goes beyond what has been counted.  Unless another refresh
\* overlapped it and stored an older aggregate over its own, it reports at
\* least what had been counted when it was called, and does not fall behind an
\* earlier export: the unsigned difference that it returns does not wrap, even
\* when the other export called for a later refresh or took its aggregate.
ExportFresh ==
  [][\A t \in Threads, f \in {"rx", "miss"} :
       (th[t].pc = "export" /\ th'[t] = Idle) =>
         /\ exported'[f] <= count[f]
         /\ th[t].alone => th[t].base[f] <= exported'[f] /\ exported[f] <= exported'[f]]_vars

\* Racing threads may all win the throttle once, but no more than once for
\* each interval that has begun; and the trace index stays bounded, with the
\* same ids in the map and in the order of insertion.
BookkeepingBounded ==
  /\ logs <= Cardinality(Threads) * (now \div LogInterval + 1)
  /\ Len(order) <= TraceMax
  /\ seen = Range(order) /\ Cardinality(seen) = Len(order)

\* The file never holds more lines than the limit, and as long as no two calls
\* of RecordSnapshot overlapped it holds the latest ones in order.
SnapshotsKept ==
  /\ Len(file) <= Keep
  /\ clean /\ (\A t \in Threads : ~Recording(t)) =>
       /\ Len(file) = Min({Keep, Len(recorded)})
       /\ IsSuffix(file, recorded)
=============================================================================
