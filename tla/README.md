# Verification of the Virtual-Vehicle-OS interconnect

TLA+ modules, TLC configurations and TLAPS proofs for the core of this
repository: the thread pool, the vehicle/robot bridge with its configuration,
policies, message format and bookkeeping, and the transports under it. Line
numbers refer to the files under `src/src/`; "bridge" with a number is
`interconnect/interconnect_bridge.cpp`.

## 1. The system

| Component | State it keeps | Operations | Modelled by |
|---|---|---|---|
| Thread pool (`core/thread_pool`) | `running_`, task queue, workers, four counters | Start, Stop, Enqueue, WorkerLoop, GetMetrics | `ThreadPool` |
| Bridge (`interconnect_bridge.cpp`) | `running_`, flow slots, deduplication window, counters | Start, Stop, PublishFromVehicle, PublishFromRobot, two inbound loops | `Bridge` |
| Configuration (bridge 138-213, 900-1077) | `config_`, loaded and last-known-good version and signature, sampling settings | Start(config), Start(provider), ReloadConfigIfChanged, canary, rollback | `Config` |
| Policies (bridge 421-898, 1312-1362; `bridge_policy.hpp`, `policy_manager.cpp`) | three rule lists, their index, LRU cache, lint cache | ResolvePolicy, lint, signature, normalisation | `Policy`, `Config` |
| Codec and protocol adapter (`message_codec.cpp`, `message_protocol_adapter.cpp`, `protocol_manager.cpp`) | none | Encode, Decode, EncodeByProtocol, DecodeByProtocol, ResolveMode, self check | `Codec`, `MessagePath` |
| Router (`message_router.cpp`) | topic to handler map | Register, Route | `MessagePath`; outcomes in `Bridge` |
| Metrics and bookkeeping (`system_metrics_aggregator.hpp`, bridge 699-711, 1538-1572, 1631-1738) | counters, aggregate, last export, log stamps, trace index | refresh, ExportMetricsDelta, throttled logs | `Observe` |
| Diagnostics (`diagnostics_manager.cpp`) | snapshot file | RecordSnapshotWithFields | `Observe` |
| Transport interface (`transport.hpp`) | one bounded queue per direction | Create, SendWithTimeout, ReceiveWithTimeout, DiscardOldest, Close, Unlink | `Transport` (abstract) |
| POSIX queue (`ipc/posix_message_queue.cpp`, `posix_mq_transport.cpp`) | descriptor, `O_NONBLOCK`, kernel queue | timed and non-blocking send and receive | `PosixQueue` |
| Process guardian (`core/process_guardian.cpp`) | restart count | RunWithRestart | `Guardian` |
| TCP transport (`tcp_transport.cpp`) | socket | Create, framed send and receive, Close | `TcpTransport` |
| Retry (`core/retry_policy.cpp`), failover (`transport_orchestrator.cpp`) | attempt count; circuit state | RetryOnWouldBlock; ResolveFailover | inside `Bridge` |
| Logger, error codes | sinks; none | | not modelled |

How they interact: publisher threads call `Publish`, which checks the envelope,
resolves a policy, encodes and sends to the transport of their direction.
`Start` gives the bridge's thread pool two tasks that never return while the
bridge runs, one inbound loop per transport; each loop receives, decodes, checks
the age and calls the router of the other side. `Stop` clears `running_`, stops
the pool, which joins both loops, and then closes the transports. Publishers are
not joined by anybody: a call of `Publish` that began in one session can still
be under way when the bridge has been stopped and started again. The owner
reloads the configuration while publishers and loops resolve policies from it
without a lock, and every thread refreshes the metrics and writes snapshots.

What is hard here: the pool's condition variable against Stop; publishers
against Stop and a new Start; flow slots undone after an overshoot; resends,
retries and failover after which a message must have been sent once or not at
all; a non-blocking mode that is switched on a descriptor all threads share; a
reload that fails half way; caches filled while the table changes; counters
loaded one by one and exported as differences to an earlier export; a byte
stream cut inside a frame; a crash that leaves a queue behind. `PROJECT.json`
lists each hazard at its line.

## 2. Modules

`ThreadPool` - one owner thread (Start, Stop), clients (Enqueue), workers. A
critical section under `tasks_mutex_` is one step, except the worker's wait,
which is split into lock, evaluate, park: this is where a wakeup could get lost.
The stores of Start that happen without the mutex are steps of their own.
`mutex` is the holder during a worker's critical section. Spurious wakeups are
an action. History: `fate`, `runs`, `quiet`. A second thread that calls Start or
Stop at the same time is excluded, as the bridge and the demo use it; so is a
Stop called by a worker, which would join itself.

`Bridge` - publishers, two inbound loops, one owner. A step is what a thread
does between two accesses to something another thread can change. A publisher
walks through `dedup`, `acquire`, (`undo`), `send`, (`discard`, `asleep`,
`restore`, `resend`, `retry`), `release`, and after a failure with failover
again `send` to `account`. The capacity, the flow limit, the window, the retry
budget, the drop policy and the failover switch are constants. The thread pool
appears as what `ThreadPool` establishes: accepted loops are run, at most
`PoolWorkers` at a time, and its Stop waits for them (rejection policy
`kRejectNewTask`; with `kCallerRuns` Start itself may run an inbound loop, which
is not modelled). A call of a transport is one step, except `DiscardOldest`: the
receive and the restore of the flags are two, and `exposed` holds the publishers
whose receive will block because another one restored the flags, or Start opened
the link anew, since they set `O_NONBLOCK`. Such a publisher finds an empty
queue `asleep` and stays until a message comes. `inflight` is an unsigned
counter modulo `Modulus`, which stands for 2^32. What decoding, expiry and
routing decide is a choice from `Verdicts` here and is computed in
`MessagePath`. `Calls` says which messages a publisher may publish.

`Policy` - operators, no state: matching, the topic index, the choice among
overrides, rules, templates and default, conflicts, lint and its second count,
signature, locks, defaults. A field with its match-any flag is `AnyValue`. The
signature is the sequence of the values that are hashed, so hash collisions are
left out but everything that is not hashed (locks, the borders between the
lists) is really missing from it. The loops over a rule list (the search for the
best match, the second count of lint) are recursive functions of the position.

`Config` - one owner (provider update, both Starts, Stop, reload) against threads
that resolve policies or ask for the lint report. A reload has three steps:
`config_` and the settings are assigned; the index is rebuilt and the caches
cleared; the result is validated, and committed or rolled back. A resolution has
three: look up, read the table, store. An assignment of `config_` is one step,
although the code has no lock that makes it one: torn reads of the table are not
modelled. History: `raced` (a cache was filled while the configuration was
changing) and `skew` (Start was called in a way that separates version and
configuration, see Observations).

`Codec` - texts are sequences of symbols; the characters the code treats
specially are symbols, and so is a whole numeral or keyword. The loops over a
text (escape, unescape, split) are recursive functions of the number of symbols
read; on them stand both text formats, the header, wire frames, four modes and
the fallback. `MaxNumber` is the largest number a text contains. `MessagePath`
takes one envelope from Publish through the wire to the handler, with a receiver
in any mode, a clock, and handlers that are registered and replaced meanwhile.
Testing the age of a message (bridge 1575-1576) and calling its handler (1596)
are one step, so what is said of the age holds at the test.

`Observe` - threads that do one of three jobs: receive a message nobody handles,
refuse a message, export the metrics. Every load and store another thread can
come between is a step. Two counters of the bridge and one of the pool stand for
all. What an export returns are the unsigned differences between the aggregate
and the last one exported; the model keeps these two. History: `logs`,
`recorded`, `clean`, and in each refresh what had been counted when it began and
whether another one overlaps it.

`Transport` - the abstract transport: create, put in priority order while there
is room, take the head, close. `PriorityOrder` defines the order.

`PosixQueue` - the calls of `PosixMessageQueue` on one descriptor, system call by
system call: a non-blocking operation reads the flags, sets `O_NONBLOCK`, calls,
and writes the flags back. A call looks at the flag when it enters the kernel;
a timed call may expire. `DiscardOldest` follows a congested send, as in
`PublishWithBackpressure`. `Guardian` extends it: the process that makes these
calls is run by `RunWithRestart` and may die between any two of them. The
threads and the descriptor die with it; the queue stays in the kernel and the
`mq_open` of the next run, which has no `O_EXCL`, finds it.

`TcpTransport` - publishers that share a socket, a connection that holds a few
bytes, and the receiving end. A byte knows its frame and position. The socket is
blocking: `select` has a deadline, `send` has none. A descriptor is a number, so
a body may go to the connection that a reconnection put in its place. A length
read from bytes that are not a length is any of `Lengths`, or `Huge`, for which
there is no memory: the allocation is inside a noexcept function and ends the
receiver's process. To send to a peer that has closed is an error (`SendBroken`,
when its reset has come) or the end of the sender's process (`SendKilled`,
SIGPIPE). History: per connection the frames that were begun and the messages
returned, or that a frame was cut.

`ThreadPoolProofs`, `GuardianProofs`, `BridgeProofs`, `ConfigProofs`,
`MessagePathProofs`, `ObserveProofs`, `TcpProofs` - theorems; `DataProofs` -
lemmas they share. `MC*` modules hold the instances.

A definition that stands directly above another one, without a comment of its
own (`ExitWhenStopped` above `WorkerMayExit`), is a mutated form of it: a
plausible mistake in that piece of code. No specification uses it; `PROJECT.json`
pairs each with the property that fails when it takes the place of the original.

## 3. Runs

| Run | Question | Result |
|---|---|---|
| `pool` | Do tasks run exactly once, does Stop drain, do the counters balance, is every accepted task run, does Stop return? 2 workers, 2 clients, 2 tasks, capacity 1; 2 starts, each of which may fail, the second with caller-runs | holds |
| `bridge_safety` | Conservation of messages, truthful answers, slots, window, counters; each link implements `Transport`. 2 publishers, 3 messages, capacity 1, 2 sessions, retries, failover | holds |
| `bridge_live` | Do Publish, Start and Stop return, does every message end, is everything released, does no loop read a closed link? 2 publishers whose discards race, 3 messages, 1 fault in Create, pool or receive, 1 worker, pool capacity 1, 1 session | holds |
| `bridge_failover` | Is a message routed to the peer's router? | violated |
| `mq` | Order, flag restored, non-blocking calls never sleep, calls return, `Transport` implemented across crashes, nothing left after success; one thread that discards, one restart | holds |
| `mq_race` | The same with two threads that discard: does a non-blocking call sleep? | violated |
| `config` | Do version and configuration belong together, does resolution find the best rule, does lint list the two rules of every conflict met, are the caches current? 7 configurations, 2 versions, 3 envelopes with 2 cache keys, cache of 1 | holds |
| `config_rollback` | Are the settings those of the configuration after a refused reload? | violated |
| `codec` | Is what is accepted what was published, is the legacy mode always accepted, is what is handled fresh, does the receiver's mode matter? all payloads of up to 3 and topics of up to 2 symbols out of four | holds |
| `codec_modes` | Does the receiver accept what Publish accepted, in every mode? The instance of `codec` | violated |
| `observe` | Is an export fresh and its difference a true one, are logs, trace index and file bounded? 2 threads, 3 jobs | holds |
| `tcp` | Are messages whole and in order until a frame is cut, does the receiver end only after that, do calls return? 2 publishers, 2 connections, 1 signal, capacity 2 | holds |

The violated ones are disagreements between the code and a comment or document
that is quoted under `findings`.

Exceptions in the properties. Some properties have a precondition kept in a
history variable, because the code really breaks the plain form; what they show
is that nothing else does. `FlowAccounting` and `CountersConserved`: Start
resets counters without waiting for calls of the session before (`straddled`,
`quiet`). `CachesCurrent`: a policy resolved, or a report built, during a change
may be stored after the caches were cleared (`raced`). `VersionNamesConfig`:
`skew`. `ExportFresh`: an overlapping refresh may store an older aggregate.
`SnapshotsKept`: two publishers may overwrite each other's lines (`clean`).
`FramesIntact`: a cut frame. `PublishReturns`: a discard that another publisher
put to sleep. `CallsReturn` of TCP: a process that SIGPIPE has ended, and a
`send` that blocks on a connection nobody reads. `BestOrNarrowed`: a rule
written for the topic hides the wildcard rules of its list. Where an exception
is the very thing a hazard of `PROJECT.json` is about, the hazard's note says
that no property covers it, or which part is covered. `DeliveredIntact` promises
acceptance for the legacy mode only; that the other modes should be accepted too
is what `codec_modes` refutes.

Bounds. Queue capacity 1 and three messages make a full queue, a discard, a
resend that finds the queue full again and a failover happen; two publishers
make the overshoot of a flow limit of 1; window 1 with keys k1, k2, k1 makes an
eviction; two sessions make a publisher outlive one. In `config` two versions
make every order of start, refused and committed reload possible, among
configurations that differ in sampling, lock, guard, default, rules, the list a
rule is in, workers, queue capacity and canary; a cache of one entry with two
keys makes evictions. In `codec` three symbols are enough for every parity of a run of
backslashes before a separator, and a topic that starts like a header. In
`observe` three jobs make two overlapping refreshes and an export, or three
snapshots against a limit of two. In `tcp` a header of 2 and a capacity of 2
make `send` wait inside and between the parts of a frame. `MaxStarts`,
`MaxSessions`, `MaxFaults`, `MaxSpurious`, `MaxJobs`, `MaxTime`, `MaxTasks`,
`MaxVersion`, `MaxSends`, `MaxConnections`, `MaxSignals`, `MaxNumber` (1000, the
default time to live) and `MaxRestarts` (a parameter of the code, too) bound
what would otherwise recur for ever. `bridge_live` has one session and a pool of
one worker, which runs the loop of the link that everything is published to;
discards race with that loop and with each other. Who publishes which of the
three messages is fixed. Runs do not check for deadlock because a system on
which nobody calls anything rests.

Fairness. Weak fairness for each thread that is inside a call: the scheduler
runs it, a deadline passes, a handler and a task return. Nobody is obliged to
call Start, Stop, Publish or Enqueue, to connect, to close or to crash. The
receiving end of a TCP connection calls receive again, as the inbound loop does.
In `Guardian` the threads are scheduled while the process lives. The signal that
ends a process and a length that ends the receiver are never obliged to come. No
strong fairness is assumed: the critical sections of the others, and the
signals, are bounded in number in these instances.

### Observations

Met while modelling, visible in the modules, without a run of their own:

- Start stores 0 into the inflight counters under a publisher of the session
  before (bridge 1396): the limit is exceeded and the late release wraps.
- The deduplication key is recorded before the send (bridge 1177), so the retry
  of a failed publish is refused as a duplicate of something never sent.
- `DiscardOldest` takes the head of a priority queue, the most urgent message
  (`posix_mq_transport.cpp` 41), where README.md:108 speaks of the oldest.
- `Start(provider)` signs the table before the defaults are filled in, the
  reload after: if normalisation changes the default policy, a reload of an
  unchanged table is refused (bridge 138-159, 1042). The signature must equal
  that of the last known good table, so a reload can never change what is
  hashed; what is not hashed, it can.
- `Start(provider)` on a running bridge replaces version and last known good
  configuration and nothing else (bridge 138-159).
- The policy cache key has neither source nor target (`interconnect_bridge.hpp`
  244-252): the first envelope of a key decides for all.
- `LookupPolicyCache` returns a pointer into the cache past its lock (bridge 744).
- The header without version, `pm=x;payload`, is refused as soon as the payload
  contains a `;` (`message_protocol_adapter.cpp` 55-93), as every wire frame does.
- The demo's sender and receiver are two threads that make non-blocking calls on
  one descriptor (`demo/main.cpp` 57-91), the situation of `mq_race`; there the
  message of the sender wakes the receiver if it should sleep.
- `RunWithRestart` returns the same code when waitpid fails, with the service
  still running, as when it has given up (`process_guardian.cpp` 30).
- TCP: every wait of a call gets the whole timeout; nothing separates two
  publishers on one socket. `send` is called with flags 0 and nothing ignores or
  handles SIGPIPE (`tcp_transport.cpp` 422), so a send to a peer that has closed
  may end the process instead of failing over. Only the `select` before it has a
  deadline (424): `send` itself waits as long as nobody reads. A length read out
  of step is allocated as it is, up to 4 GB, in a noexcept function (534-536).
- The topic index (bridge 782-796): as soon as a list has a rule written for the
  topic of a message, even one that does not match it, the rules of that list with
  a wildcard topic are not looked at, of whatever priority. The task list of
  v0.5 (`src/文件解析目录/v0.5可执行任务清单.txt:32`) offers wildcards, "维度：channel +
  topic（支持通配符）", and says at :37 what happens if nothing matches, "无匹配时使用
  default_policy，保证行为稳定。"; which rule wins it does not say, so there is no
  run against it and the property states the exception.
- `PopulateDefaultTemplateRules` is defined twice (bridge 672 and 1364), and the
  second definition differs in the drop policy; the first is modelled. Two
  definitions do not compile: one has to go before anything runs.

## 4. Proofs

Every theorem holds for all values of the constants that satisfy the ASSUMEs of
its module; TLC evaluates those on every run. What the ASSUMEs ask is what the
code checks or declares: positive capacities and intervals, a link, a level and
a key for every message, distinct null values, the fields of a configuration,
finitely many threads, counters (2^32, 2^64) that are larger than the number of
threads or events that move them, and of the published envelopes the fields that
`MessageEnvelope` declares with a schema version of at least 1, which every
envelope of the repository has and Decode demands. Inductive invariants were
checked with TLC on the instances before they were proved.

**`DataProofs`** - lemmas about data that several components need. The library's
induction theorems take an operator as a parameter, which no installed prover
can instantiate. Here induction is stated of sets instead: the finite sets are
well-founded under strict inclusion (a theorem of the library), so a set of
naturals has a least element (`LeastNatural`), so a set that contains 0 and with
n also n + 1 contains an interval (`IntervalInduction`), so a loop over positions
has a run (`RecursionOnPositions`), any function that obeys the loop is a run
(`LoopIsRun`), and two loops with the same first steps agree on them
(`RunsAgree`). With these, what the loops of `Policy` and `Codec` compute is
proved for lists and texts of every length. The second half is the order in
which a transport holds its messages: `Insert` makes a queue one longer, adds
nothing but the message, leaves the others in their order, and keeps an ordered
queue ordered; what `Tail` does to elements and order.

**`ThreadPoolProofs`** - for every number of workers, clients and tasks, every
capacity, both rejection policies and any number of restarts:

- `PoolTypeCorrect`: the type invariant;
- `PoolExactlyOnce`: no task runs twice, no refused task runs;
- `PoolStopDrains`: when Stop reaches the final swap of the queue, and whenever
  the pool rests, the queue is empty and every accepted task has run or is in
  the hands of the client that brought it;
- `PoolCountersConserved`: submitted = queued + running + executed, unless a task
  was in flight while Start reset the counters.

None of them is inductive. `Inv` adds: `OwnerInv`, which relates the owner's
place to `running_`, to the number of workers and to those already joined;
`WorkerInv`, which worker exists or has exited when; `MutexInv`, who holds the
mutex; `HeldInv`, a thread holds a task exactly while it is about to run it;
`WaitingInv`, what is queued or held is accepted, not yet run, and in one place;
and `TaskInv`, an accepted task is waiting or has run once. Stop drains because a
worker exits only with the queue empty and `running_` false, after which no task
is accepted, and the owner swaps the queue only after all workers exited.
`CountInv` carries the equation, and through the reset of Start, where it does
not hold between two stores, that there is nothing to count.

**`GuardianProofs`** - for every set of threads, operations and messages, every
capacity and restart limit, with crashes anywhere:

- `GuardianOkLeavesNothing`: success of `RunWithRestart` means that the queue is
  gone from the kernel, giving up means that all restarts were used;
- `GuardianImplementsTransport`: the whole, system call by system call, implements
  `Transport`, whose `open` is the existence of the queue's name;
- `GuardianQueueOrdered`: the most urgent message is first and equals keep the
  order of sending;
- `SoleUserNeverSleeps`, `SoleUserRestoresFlag`: if at most one thread makes
  non-blocking calls, none of them sleeps and `O_NONBLOCK` is off whenever none is
  in progress. Together with `mq_race` this says exactly what goes wrong: two of
  them, and nothing less. `SoleUser` is the hypothesis of these two only.

The invariant says that a descriptor lives inside a run of the service, a call
inside a descriptor, and a queue from a Create to the next Unlink (`CallInv`,
`LifeInv`, `GuardInv`). A crash ends the first two and not the third, which is
why it is a stutter of the abstract transport. For the mode, `FlagInv` says that
the flag is on exactly while a thread has it switched, and that what this thread
saved is off, which holds because it was alone. For the order, `OrderInv` adds
that a queued message has its stamp, one that is still to be sent has none, and
no two calls carry the same one.

**`BridgeProofs`** - for every number of publishers, messages and sessions,
every capacity, flow limit, window and retry budget, with faults anywhere in
Start:

- `BridgeTypeOK`, `BridgeLoopsReadOpenLinks` (no loop reads a closed transport),
  `BridgeStoppedReleased` (a stopped bridge holds nothing),
  `BridgeLinksAreTransports` (each link implements `Transport`). Their invariant
  is `TypeOK` with `CallInv` (what a call of Publish holds at each place, and that
  no two calls have the same message), `HandInv`, `PoolInv` and `LifeInv` (what
  the place of Start and Stop says of links and loops).
- `BridgeFlowAccounting`: a link's counter is the number of publishers that own a
  slot or are about to undo one, so it never wraps, and those past the test are
  never more than the limit. `FlowOn` counts them; the proof moves one publisher
  in or out of a finite set at each step.
- `BridgeWindowSeparates`: `WindowInv` identifies the window with the keys of the
  last messages let through, position by position.
- `BridgePublishTruthful`: `SentInv` says that a call knows at every place whether
  its message has been sent, and that nothing is sent twice.
- `BridgeConservation`: `PlaceInv`, a message that was sent is in one queue once,
  or in the hands of one loop, or done with.
- `BridgeCountersReconcile`: `CountInv`, tx + sent but not yet counted = queued +
  rx + lost, with cardinalities of sets of messages and publishers.
- `BridgeRoutedWithoutFailover`: with failover off, what `bridge_failover` refutes
  holds: a message never leaves the link it was published to (`RouteInv`).
  `~FailoverEnabled` is the hypothesis of this theorem only.

**`ConfigProofs`** - for every set of configurations and envelopes, any number of
resolving threads and any cache limit:

- `ConfigTypeOK`: the policy cache keeps to its limit and holds no key twice;
- `ConfigVersionNamesConfig`: the loaded version names the configuration in force;
- `ConfigCachesCurrent`: both caches hold what the table in force gives;
- `ConfigResolutionMatchesReference`: in each of the three lists the search finds
  the first rule of the highest priority among all that match, in conflict
  exactly when another one has that priority; or else the list has a rule written
  for the topic of the envelope, and the same holds among the matching rules that
  are written for it;
- `ConfigConflictsAreLinted`: when the search of a list meets a conflict, lint has
  listed two rules of that list that both match the envelope and both have the
  priority of the chosen one; and the second count of lint agrees with the list.

`Shape` says what the caches, the versions, a reload under way and a resolving
thread look like. `Named` follows the version and the last known good
configuration through each stage of a reload; a rollback fills in defaults that
were filled in before, so the theorem rests on lemmas that normalising, adding
the templates and indexing twice is doing it once. `Current` says that while a
change is under way no thread is about to store an old resolution unless `raced`
is set, and that after the index is rebuilt the caches are empty.
`ConfigAssumption` gives every configuration its fields, as the C++ types do:
records, vectors of rules and unsigned priorities (`RulesTyped`).

The last two theorems are about loops. `Chooses` says what the search has found
among the positions it has passed: the first rule of the highest priority, in
conflict when there is another of that priority. One candidate more keeps it
(`ConsiderChooses`), so the whole search has it (`SearchChooses`). It passes
only the candidates of the topic index, which is that of the table in force
(`Built`, an invariant): the rules of the topic if there is one, which contain
all that match without a wildcard, and else the whole list. The two rules of a
conflict match one envelope and so overlap, which lint reports. The second count
of lint is a loop of its own (`ScanCounts`): by induction it counts the issues
of the list that `ListIssues` is.

**`MessagePathProofs`** - for every set of envelopes, texts of any length with any
symbols, any senders and limits:

- `PathDeliveredIntact`: an accepted message is the published one but for the
  deduplication key, and the receiver refuses none that was sent in the legacy
  mode (what becomes of the others is the finding of `codec_modes`);
- `PathSelfCheckRepresentative`: nothing that was published fails to decode, the
  self check succeeds in every mode, and topic, payload and numbers arrive;
- `PathReceiverModeIrrelevant`: what a text decodes to does not depend on the
  receiver's mode;
- `PathHandledFresh`, an action property: no handler runs on a message that is
  older than its own time to live or than the policy allows.

All four rest on `RoundTrip`: encoded in any mode and decoded in any mode, an
envelope comes back as what the sender's mode keeps of it. Its lemmas follow the
code: `UnescapeField` undoes `EscapeField` (`UnescapeEscaped`, symbol by symbol);
an escaped text is read by the loop of `SplitEscaped` without a split and leaves
an even run of backslashes (`Absorbed`, `EscapedAbsorbed`), so the fields that
were joined are found again (`SplitJoined`); numbers and names are read back;
the first two separators of a header, and the one of a frame, are where they
were written (`FindFirst`). `PathInv` then says that what is on the wire is the
text of the published envelope in one of the modes, and what was received is
what that mode keeps. The assumptions: numerals are distinct and contain no
special symbol, and the length of an encoded envelope is a machine number.

**`ObserveProofs`** - for every number of threads, every set of trace ids and
every limit:

- `ObserveBookkeepingBounded`: `ThrottleInv` counts the log lines together with
  the threads whose exchange is bound to fail, `IndexInv` keeps map and queue of
  the trace index equal;
- `ObserveSnapshotsKept`: `FileInv`, with the file empty between truncation and
  writing, and the snapshots of the only writer in its locals;
- `ObserveExportFresh`, an action property: `FreshInv` orders what a refresh found
  when it began, what it has loaded, what is counted by now and what was exported
  before: until a refresh that is alone stores, aggregate and export are older
  than its beginning, and after that the aggregate is newer than both.

**`TcpProofs`** - `TcpFramesIntact` and `TcpEndsAfterCut`, for any number of
publishers and connections and any sizes of header, messages and buffers. A
position is a frame and an offset. The invariant says that the bytes on their
way are exactly those between the reader's position and the writer's (`Stream`),
that the reader holds the bytes of one frame before its position (`Held`), and
that one call at most is inside a frame, the last one begun (`Writer`), as long
as no frame of the connection was cut. Since the bytes carry their frame and
offset, a message that is complete is the next one that was sent, and a header
that is complete is that of one message, whose length is never `Huge`
(`HeaderTrue`); a cut connection stays cut (`CutStays`).

Every invariant and every safety action property that a passing run checks is
stated by a theorem. Model-checked only are the liveness properties
`AcceptedRuns`, `StopReturns`, `PublishReturns`, `OwnerReturns`, `MessagesEnd`,
`SentArrives` and `CallsReturn` (in both transports): liveness under fairness
and ENABLED are outside this prover. The four violated properties are false, and
stay with their runs.

## 5. Plan

The modules were written in the order pool, bridge, transports, configuration
and policies, codec, bookkeeping, TCP, and then proved about. What would come
next:

1. A second owner, so that Start, Stop and reload overlap, should a caller ever
   do that.
2. `kCallerRuns` for the bridge's own pool, where Start may run an inbound loop.
3. Texts that no encoder of this repository writes (a header without version, an
   unknown mode): `Codec` decodes them as the code does, and no property is about
   what comes of them.

## 6. Not modelled

- Logger and error codes: formatting and output under one mutex, constant
  tables. Text, JSON and Prometheus forms of metrics and lint, percentile
  estimates, audit reasons, what a snapshot line says: formatting.
- The circuit state of the orchestrator, gauges and per-topic counters: they are
  written and never decide anything.
- `PosixMessageQueue::Open`, Send and Receive without a deadline: the demo only.
- Reuse of a descriptor number or of a freed cache entry between test and use,
  torn reads of `config_`: they need a model of the process's memory.
- Two owners: concurrent Start, Stop and reload, which no caller in the
  repository does.
- Board bring-up, demo output, tests, and the generated compiler probes under
  the build directories.
