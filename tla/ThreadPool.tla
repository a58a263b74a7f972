----------------------------- MODULE ThreadPool -----------------------------
(***************************************************************************)
(* The fixed-size thread pool of core/thread_pool.{hpp,cpp}.               *)
(*                                                                         *)
(* One owner thread calls Start and Stop (the bridge's Start/Stop, or the  *)
(* application's main thread); any number of client threads call Enqueue   *)
(* at any moment, before, during and after both.  Critical sections under  *)
(* tasks_mutex_ are one step each, except the worker's evaluation of its   *)
(* wait predicate, which holds the mutex over several steps: that is where *)
(* a wakeup could get lost.  What the code does outside the mutex (the     *)
(* stores of Start, notify_one, notify_all, the atomic counters, running a *)
(* task) is a step of its own.                                             *)
(*                                                                         *)
(* A task is a model value: every call of Enqueue brings a new one.        *)
(***************************************************************************)
EXTENDS Naturals, Sequences, FiniteSets

CONSTANTS
  Clients,          \* threads that call Enqueue
  Owner,            \* the thread that calls Start and Stop
  Tasks,            \* the tasks the clients bring, one per call of Enqueue
  Throwing,         \* the tasks whose body throws
  NoTask,           \* a thread that holds no task
  Nobody,           \* holder of a free mutex
  WorkerCount,      \* ThreadConfig::worker_count
  QueueCapacity,    \* ThreadConfig::queue_capacity
  CallerRuns,       \* rejection_policy = kCallerRuns, for each start
  EnableRealtime,   \* ThreadConfig::enable_realtime
  MaxStarts,        \* bound: successful entries into Start
  MaxSpurious       \* bound: spurious wakeups of condition_variable::wait

Workers == 1 .. WorkerCount

\* Start returns kInvalidParam unless both counts are positive (21-23).
ASSUME ConfigAssumption ==
  /\ WorkerCount \in Nat \ {0}
  /\ QueueCapacity \in Nat \ {0}
  /\ CallerRuns \in [1..MaxStarts -> BOOLEAN]
  /\ EnableRealtime \in BOOLEAN
  /\ MaxStarts \in Nat
  /\ MaxSpurious \in Nat

ASSUME ThreadsAssumption ==
  /\ Workers \cap Clients = {}
  /\ Owner \notin Workers \cup Clients
  /\ Nobody \notin Workers
  /\ NoTask \notin Tasks
  /\ Throwing \subseteq Tasks

VARIABLES
  running_,    \* std::atomic<bool> running_
  tasks_,      \* std::queue of accepted tasks
  workers_,    \* workers_.size(): threads 1 .. workers_ exist
  mutex,       \* holder of tasks_mutex_, when held over several steps
  pc,          \* where each thread is
  held,        \* the task a worker or a client is about to run
  cursor,      \* loop index of the owner's call
  counters,    \* the four atomic counters
  fate,        \* history: what Enqueue answered for each task
  runs,        \* history: how often each task's body ran
  quiet,       \* history: no task was in flight while Start reset counters
  starts,      \* how many times Start passed its running_ test
  spurious     \* how many spurious wakeups happened

vars == <<running_, tasks_, workers_, mutex, pc, held, cursor, counters,
          fate, runs, quiet, starts, spurious>>

\* The order in which Start stores zero into the counters.
ResetOrder == <<"submitted", "executed", "rejected", "exception">>
CounterNames == {"submitted", "executed", "rejected", "exception"}

OwnerPc  == {"idle", "reset", "spawn", "abort", "notifyAll", "join", "swap"}
ClientPc == {"idle", "notifyOne", "callerSubmit", "run", "count"}
WorkerPc == {"absent", "lock", "eval", "park", "wait", "take", "run", "count",
             "exited"}

Init ==
  /\ running_ = FALSE
  /\ tasks_ = <<>>
  /\ workers_ = 0
  /\ mutex = Nobody
  /\ pc = [t \in Workers \cup Clients \cup {Owner} |->
             IF t \in Workers THEN "absent" ELSE "idle"]
  /\ held = [t \in Workers \cup Clients |-> NoTask]
  /\ cursor = 1
  /\ counters = [c \in CounterNames |-> 0]
  /\ fate = [t \in Tasks |-> "new"]
  /\ runs = [t \in Tasks |-> 0]
  /\ quiet = TRUE
  /\ starts = 0
  /\ spurious = 0

-----------------------------------------------------------------------------
(* Helpers: one idea of the code each.                                     *)

Goto(t, label) == pc' = [pc EXCEPT ![t] = label]
Bump(c) == counters' = [counters EXCEPT ![c] = @ + 1]
MutexFree == mutex = Nobody

\* tasks_.size() >= queue_capacity_
QueueFull == Len(tasks_) >= QueueCapacity

\* The predicate of tasks_cv_.wait: true when there is no need to wait.
WaitPredicate == ~running_ \/ tasks_ # <<>>

ExitWhenStopped == ~running_
\* A worker returns only when the pool stops and nothing is queued.
WorkerMayExit == ~running_ /\ tasks_ = <<>>

FrontWithoutPop == tasks_
\* tasks_.pop() after tasks_.front()
AfterPop == Tail(tasks_)

\* The waiters of tasks_cv_.
Waiting == {w \in Workers : pc[w] = "wait"}

InFlight == {t \in Workers \cup Clients : pc[t] \in {"run", "count"}}

-----------------------------------------------------------------------------
(* Start, called by the owner.  A call while the pool runs returns kOk and *)
(* changes nothing (24-26).                                                *)

\* Copies the configuration and stores running_ = true, before the counters
\* are reset and without the mutex.
StartPublish ==
  /\ pc[Owner] = "idle"
  /\ ~running_
  /\ starts < MaxStarts
  /\ starts' = starts + 1
  /\ running_' = TRUE
  /\ cursor' = 1
  /\ quiet' = (quiet /\ ~ \E c \in Clients :
                             pc[c] \in {"callerSubmit", "run", "count"})
  /\ Goto(Owner, "reset")
  /\ UNCHANGED <<tasks_, workers_, mutex, held, counters, fate, runs, spurious>>

\* One store of zero per counter.
StartReset ==
  /\ pc[Owner] = "reset"
  /\ counters' = [counters EXCEPT ![ResetOrder[cursor]] = 0]
  /\ IF cursor = Len(ResetOrder)
     THEN cursor' = 1 /\ Goto(Owner, "spawn")
     ELSE cursor' = cursor + 1 /\ UNCHANGED pc
  /\ UNCHANGED <<running_, tasks_, workers_, mutex, held, fate, runs, quiet,
                 starts, spurious>>

SpawnOneTooMany ==
  /\ pc[Owner] = "spawn"
  /\ workers_' = cursor
  /\ pc' = [t \in DOMAIN pc |->
              IF t = Owner THEN (IF cursor > WorkerCount THEN "idle" ELSE "spawn")
              ELSE IF t = cursor THEN "lock" ELSE pc[t]]
  /\ cursor' = IF cursor > WorkerCount THEN 1 ELSE cursor + 1
  /\ UNCHANGED <<running_, tasks_, mutex, held, counters, fate, runs, quiet,
                 starts, spurious>>
\* workers_.emplace_back, and the real-time priority of the new thread: when
\* that fails, Start calls Stop and returns the error.
StartSpawn ==
  /\ pc[Owner] = "spawn"
  /\ workers_' = cursor
  /\ \/ /\ pc' = [pc EXCEPT ![cursor] = "lock",
                            ![Owner] = IF cursor = WorkerCount THEN "idle"
                                                               ELSE "spawn"]
        /\ cursor' = IF cursor = WorkerCount THEN 1 ELSE cursor + 1
     \/ /\ EnableRealtime
        /\ pc' = [pc EXCEPT ![cursor] = "lock", ![Owner] = "abort"]
        /\ cursor' = 1
  /\ UNCHANGED <<running_, tasks_, mutex, held, counters, fate, runs, quiet,
                 starts, spurious>>

-----------------------------------------------------------------------------
(* Stop, called by the owner or by a failing Start.  A call while the pool *)
(* is stopped returns at once (58-60).                                     *)

StopFlagUnlocked ==
  /\ pc[Owner] \in {"idle", "abort"}
  /\ running_
  /\ running_' = FALSE
  /\ Goto(Owner, "notifyAll")
  /\ UNCHANGED <<tasks_, workers_, mutex, held, cursor, counters, fate, runs,
                 quiet, starts, spurious>>

\* running_ = false, under the mutex.
StopFlag ==
  /\ pc[Owner] \in {"idle", "abort"}
  /\ running_
  /\ MutexFree
  /\ running_' = FALSE
  /\ Goto(Owner, "notifyAll")
  /\ UNCHANGED <<tasks_, workers_, mutex, held, cursor, counters, fate, runs,
                 quiet, starts, spurious>>

\* tasks_cv_.notify_all()
StopNotifyAll ==
  /\ pc[Owner] = "notifyAll"
  /\ pc' = [t \in DOMAIN pc |->
              IF t = Owner THEN "join"
              ELSE IF t \in Waiting THEN "lock" ELSE pc[t]]
  /\ cursor' = 1
  /\ UNCHANGED <<running_, tasks_, workers_, mutex, held, counters, fate, runs,
                 quiet, starts, spurious>>

\* worker.join() for each worker in turn, then workers_.clear().
StopJoin ==
  /\ pc[Owner] = "join"
  /\ pc[cursor] = "exited"
  /\ IF cursor = workers_
     THEN /\ workers_' = 0
          /\ cursor' = 1
          /\ pc' = [t \in DOMAIN pc |-> IF t = Owner THEN "swap"
                                        ELSE IF t \in Workers THEN "absent"
                                        ELSE pc[t]]
     ELSE cursor' = cursor + 1 /\ UNCHANGED <<workers_, pc>>
  /\ UNCHANGED <<running_, tasks_, mutex, held, counters, fate, runs, quiet,
                 starts, spurious>>

\* tasks_.swap(empty): whatever is still queued is destroyed.
StopSwap ==
  /\ pc[Owner] = "swap"
  /\ MutexFree
  /\ tasks_' = <<>>
  /\ Goto(Owner, "idle")
  /\ UNCHANGED <<running_, workers_, mutex, held, cursor, counters, fate, runs,
                 quiet, starts, spurious>>

-----------------------------------------------------------------------------
(* Enqueue, called by a client.  An empty std::function is refused with    *)
(* kInvalidParam before anything happens and is left out.                  *)

\* The critical section of Enqueue for a task that was never offered before.
EnqueueRefuse(c, t) ==
  /\ pc[c] = "idle" /\ fate[t] = "new" /\ MutexFree
  /\ \/ /\ ~running_                                   \* kThreadStartFailed
        /\ UNCHANGED counters
     \/ /\ running_ /\ QueueFull /\ ~CallerRuns[starts]     \* kThreadQueueFull
        /\ Bump("rejected")
  /\ fate' = [fate EXCEPT ![t] = "refused"]
  /\ UNCHANGED <<running_, tasks_, workers_, mutex, pc, held, cursor, runs,
                 quiet, starts, spurious>>

EnqueueAccept(c, t) ==
  /\ pc[c] = "idle" /\ fate[t] = "new" /\ MutexFree
  /\ running_
  /\ fate' = [fate EXCEPT ![t] = "accepted"]
  /\ quiet' = (quiet /\ pc[Owner] # "reset")
  /\ \/ /\ ~QueueFull
        /\ tasks_' = Append(tasks_, t)
        /\ Bump("submitted")
        /\ Goto(c, "notifyOne")
        /\ UNCHANGED held
     \/ /\ QueueFull /\ CallerRuns[starts]
        /\ Bump("rejected")
        /\ held' = [held EXCEPT ![c] = t]
        /\ Goto(c, "callerSubmit")
        /\ UNCHANGED tasks_
  /\ UNCHANGED <<running_, workers_, mutex, cursor, runs, starts, spurious>>

NotifyOneLost(c) ==
  /\ pc[c] = "notifyOne"
  /\ Goto(c, "idle")
  /\ UNCHANGED <<running_, tasks_, workers_, mutex, held, cursor, counters, fate,
                 runs, quiet, starts, spurious>>

\* tasks_cv_.notify_one(), after the mutex is released: wakes some waiter, if
\* there is one, and Enqueue returns kOk.
NotifyOne(c) ==
  /\ pc[c] = "notifyOne"
  /\ \/ Waiting = {} /\ Goto(c, "idle")
     \/ \E w \in Waiting : pc' = [pc EXCEPT ![c] = "idle", ![w] = "lock"]
  /\ UNCHANGED <<running_, tasks_, workers_, mutex, held, cursor, counters, fate,
                 runs, quiet, starts, spurious>>

\* The caller-runs branch counts the task as submitted only now.
CallerSubmit(c) ==
  /\ pc[c] = "callerSubmit"
  /\ Bump("submitted")
  /\ Goto(c, "run")
  /\ UNCHANGED <<running_, tasks_, workers_, mutex, held, cursor, fate, runs,
                 quiet, starts, spurious>>

-----------------------------------------------------------------------------
(* WorkerLoop and ExecuteTask.                                             *)

\* std::unique_lock on entry to the loop body, or on return from a wakeup.
WorkerLock(w) ==
  /\ pc[w] = "lock"
  /\ MutexFree
  /\ mutex' = w
  /\ Goto(w, "eval")
  /\ UNCHANGED <<running_, tasks_, workers_, held, cursor, counters, fate, runs,
                 quiet, starts, spurious>>

WorkerEvaluate(w) ==
  /\ pc[w] = "eval"
  /\ Goto(w, IF WaitPredicate THEN "take" ELSE "park")
  /\ UNCHANGED <<running_, tasks_, workers_, mutex, held, cursor, counters, fate,
                 runs, quiet, starts, spurious>>

\* condition_variable::wait releases the mutex and joins the waiters in one go.
WorkerPark(w) ==
  /\ pc[w] = "park"
  /\ mutex' = Nobody
  /\ Goto(w, "wait")
  /\ UNCHANGED <<running_, tasks_, workers_, held, cursor, counters, fate, runs,
                 quiet, starts, spurious>>

\* A wakeup nobody asked for, which condition_variable::wait allows.
WorkerSpurious(w) ==
  /\ pc[w] = "wait"
  /\ spurious < MaxSpurious
  /\ spurious' = spurious + 1
  /\ Goto(w, "lock")
  /\ UNCHANGED <<running_, tasks_, workers_, mutex, held, cursor, counters, fate,
                 runs, quiet, starts>>

\* Return, or take the front task; both release the mutex.
WorkerTake(w) ==
  /\ pc[w] = "take"
  /\ mutex' = Nobody
  /\ \/ /\ WorkerMayExit
        /\ Goto(w, "exited")
        /\ UNCHANGED <<tasks_, held>>
     \/ /\ ~WorkerMayExit
        /\ held' = [held EXCEPT ![w] = Head(tasks_)]
        /\ tasks_' = AfterPop
        /\ Goto(w, "run")
  /\ UNCHANGED <<running_, workers_, cursor, counters, fate, runs, quiet, starts,
                 spurious>>

\* The task's body; an exception is caught and counted.
ExecuteTask(t) ==
  /\ pc[t] = "run"
  /\ runs' = [runs EXCEPT ![held[t]] = @ + 1]
  /\ held' = [held EXCEPT ![t] = NoTask]
  /\ IF held[t] \in Throwing THEN Bump("exception") ELSE UNCHANGED counters
  /\ Goto(t, "count")
  /\ UNCHANGED <<running_, tasks_, workers_, mutex, cursor, fate, quiet, starts,
                 spurious>>

ExecutedNotCountedForCallers(t) ==
  /\ pc[t] = "count"
  /\ IF t \in Workers THEN Bump("executed") ELSE UNCHANGED counters
  /\ Goto(t, IF t \in Workers THEN "lock" ELSE "idle")
  /\ UNCHANGED <<running_, tasks_, workers_, mutex, held, cursor, fate, runs,
                 quiet, starts, spurious>>

\* executed_count_ is incremented after the task, thrown or not.
CountExecuted(t) ==
  /\ pc[t] = "count"
  /\ Bump("executed")
  /\ Goto(t, IF t \in Workers THEN "lock" ELSE "idle")
  /\ UNCHANGED <<running_, tasks_, workers_, mutex, held, cursor, fate, runs,
                 quiet, starts, spurious>>

-----------------------------------------------------------------------------
OwnerStep == StartPublish \/ StartReset \/ StartSpawn \/ StopFlag
             \/ StopNotifyAll \/ StopJoin \/ StopSwap

ClientStep(c) ==
  \/ \E t \in Tasks : EnqueueRefuse(c, t) \/ EnqueueAccept(c, t)
  \/ NotifyOne(c) \/ CallerSubmit(c) \/ ExecuteTask(c) \/ CountExecuted(c)

WorkerStep(w) ==
  \/ WorkerLock(w) \/ WorkerEvaluate(w) \/ WorkerPark(w) \/ WorkerTake(w)
  \/ ExecuteTask(w) \/ CountExecuted(w)

Next ==
  \/ OwnerStep
  \/ \E c \in Clients : ClientStep(c)
  \/ \E w \in Workers : WorkerStep(w) \/ WorkerSpurious(w)

\* The scheduler runs every thread that can run, a lock that keeps becoming
\* free is eventually obtained, and a task's body ends.  Nothing obliges the
\* application to call Start, Stop or Enqueue.
Fairness ==
  /\ WF_vars(pc[Owner] # "idle" /\ OwnerStep)
  /\ \A c \in Clients : WF_vars(NotifyOne(c) \/ CallerSubmit(c)
                                \/ ExecuteTask(c) \/ CountExecuted(c))
  /\ \A w \in Workers : WF_vars(WorkerStep(w))

Spec == Init /\ [][Next]_vars /\ Fairness

-----------------------------------------------------------------------------
(* Properties.                                                             *)

PcOK ==
  /\ pc \in [Workers \cup Clients \cup {Owner} ->
               OwnerPc \cup ClientPc \cup WorkerPc]
  /\ pc[Owner] \in OwnerPc
  /\ \A c \in Clients : pc[c] \in ClientPc
  /\ \A w \in Workers : pc[w] \in WorkerPc

ScalarsOK ==
  /\ workers_ \in 0 .. WorkerCount
  /\ mutex \in Workers \cup {Nobody}
  /\ cursor \in Nat \ {0}
  /\ starts \in Nat
  /\ spurious \in Nat

TablesOK ==
  /\ tasks_ \in Seq(Tasks)
  /\ held \in [Workers \cup Clients -> Tasks \cup {NoTask}]
  /\ counters \in [CounterNames -> Nat]
  /\ fate \in [Tasks -> {"new", "refused", "accepted"}]
  /\ runs \in [Tasks -> Nat]

TypeOK ==
  /\ running_ \in BOOLEAN /\ quiet \in BOOLEAN
  /\ PcOK /\ ScalarsOK /\ TablesOK

\* The tasks that some worker or caller has taken and not yet run.
Taken == {held[t] : t \in Workers \cup Clients} \ {NoTask}
Queued == {tasks_[i] : i \in DOMAIN tasks_}

\* No task runs twice, and a task that Enqueue refused (queue full under the
\* reject policy, or pool stopped) never runs at all, whatever the
\* interleaving of workers, callers and Stop.
ExactlyOnce ==
  \A t \in Tasks : runs[t] <= (IF fate[t] = "accepted" THEN 1 ELSE 0)

\* Stop loses nothing: when it reaches the final swap of tasks_, and whenever
\* the pool is stopped with no call in progress, every task that Enqueue
\* accepted has run, or is being run by the client that brought it.
StopDrains ==
  (~running_ /\ pc[Owner] \in {"idle", "swap"}) =>
     /\ tasks_ = <<>>
     /\ \A t \in Tasks : fate[t] = "accepted" =>
          runs[t] = 1 \/ \E c \in Clients : held[c] = t

\* Every accepted task is accounted for: submitted_count = queued + running +
\* executed, as long as no task was in flight while Start reset the counters
\* (Start opens the pool before it resets them).
CountersConserved ==
  (quiet /\ pc[Owner] # "reset") =>
     counters["submitted"] = Len(tasks_) + Cardinality(InFlight)
                             + counters["executed"]

\* An accepted task is eventually run: no notify_one is lost between a
\* worker's test of its predicate and its wait.
AcceptedRuns ==
  \A t \in Tasks : (fate[t] = "accepted") ~> (runs[t] = 1)

\* Stop (and the Stop inside a failing Start) returns: every worker sees the
\* flag, however it races with the predicate test, and can be joined.
StopReturns ==
  (pc[Owner] \in {"abort", "notifyAll", "join", "swap"}) ~> (pc[Owner] = "idle")
=============================================================================
