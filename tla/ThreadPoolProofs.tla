-------------------------- MODULE ThreadPoolProofs --------------------------
(***************************************************************************)
(* Proofs about ThreadPool, for every number of workers and clients, every *)
(* set of tasks and every queue capacity.                                  *)
(*                                                                         *)
(* ExactlyOnce and StopDrains are not inductive.  The strengthening says   *)
(* where the owner's call is and which workers then exist (OwnerInv,       *)
(* WorkerInv), who holds the mutex (MutexInv), and, for every task, the    *)
(* one place where it is: in the queue, in the hands of one thread, or run *)
(* (TaskInv).  CountInv adds that the counters balance, or, while Start    *)
(* resets them, that there is nothing to count.                            *)
(***************************************************************************)
EXTENDS ThreadPool, FiniteSetTheorems, TLAPS

Holders == Workers \cup Clients

\* What the owner's program counter says of running_, workers_ and cursor.
OwnerInv ==
  /\ pc[Owner] \in {"reset", "spawn", "abort"} => running_
  /\ pc[Owner] \in {"notifyAll", "join", "swap"} => ~running_
  /\ pc[Owner] = "reset" => workers_ = 0 /\ cursor \in 1 .. 4
  /\ pc[Owner] = "spawn" => cursor \in Workers /\ workers_ = cursor - 1
  /\ pc[Owner] = "idle" => (running_ <=> workers_ > 0)
  /\ pc[Owner] \in {"abort", "notifyAll", "join"} => workers_ > 0
  /\ pc[Owner] = "join" => /\ cursor \in 1 .. workers_
                           /\ \A w \in Workers : w < cursor => pc[w] = "exited"
  /\ pc[Owner] = "swap" => workers_ = 0
  /\ (~running_ /\ pc[Owner] \in {"idle", "swap"}) => tasks_ = <<>>

\* Exactly the threads 1 .. workers_ exist, and one that returned left an
\* empty queue behind a pool that no longer accepts anything.
WorkerInv ==
  \A w \in Workers :
    /\ pc[w] = "absent" <=> w > workers_
    /\ pc[w] = "exited" => ~running_ /\ tasks_ = <<>>
    /\ pc[w] = "take" => ~running_ \/ tasks_ # <<>>

\* The mutex is held across steps by the one worker between its lock and its
\* wait, return or pop.
MutexInv ==
  \A w \in Workers : pc[w] \in {"eval", "park", "take"} <=> mutex = w

\* A thread holds a task exactly between taking it and running it.
HeldInv ==
  \A h \in Holders : held[h] # NoTask <=> pc[h] \in {"callerSubmit", "run"}

\* Tasks that wait: accepted, not yet run, in one place.
WaitingInv ==
  /\ \A i \in DOMAIN tasks_ :
       /\ fate[tasks_[i]] = "accepted"
       /\ runs[tasks_[i]] = 0
       /\ \A h \in Holders : held[h] # tasks_[i]
       /\ \A j \in DOMAIN tasks_ : tasks_[i] = tasks_[j] => i = j
  /\ \A h \in Holders : held[h] # NoTask =>
       /\ fate[held[h]] = "accepted"
       /\ runs[held[h]] = 0
       /\ \A g \in Holders : held[g] = held[h] => g = h

\* Every task is unaccepted and never run, or run once, or waiting.
TaskInv ==
  \A t \in Tasks :
    \/ fate[t] # "accepted" /\ runs[t] = 0
    \/ fate[t] = "accepted" /\ runs[t] = 1
    \/ /\ fate[t] = "accepted" /\ runs[t] = 0
       /\ (\E i \in DOMAIN tasks_ : tasks_[i] = t) \/ (\E h \in Holders : held[h] = t)

Inv == TypeOK /\ OwnerInv /\ WorkerInv /\ MutexInv /\ HeldInv /\ WaitingInv /\ TaskInv

-----------------------------------------------------------------------------
\* What Append does to the elements of a queue.
LEMMA AppendElements ==
  ASSUME NEW S, NEW s \in Seq(S), NEW e \in S
  PROVE  /\ Append(s, e) \in Seq(S)
         /\ Len(s) \in Nat /\ DOMAIN s = 1 .. Len(s)
         /\ DOMAIN Append(s, e) = 1 .. (Len(s) + 1)
         /\ \A i \in 1 .. Len(s) : Append(s, e)[i] = s[i]
         /\ Append(s, e)[Len(s) + 1] = e
  OBVIOUS

\* What front() and pop() do to the elements of a queue.
LEMMA TailElements ==
  ASSUME NEW S, NEW s \in Seq(S), s # <<>>
  PROVE  /\ Tail(s) \in Seq(S)
         /\ Head(s) \in S /\ Head(s) = s[1]
         /\ Len(s) \in Nat \ {0} /\ DOMAIN s = 1 .. Len(s)
         /\ DOMAIN Tail(s) = 1 .. (Len(s) - 1)
         /\ \A i \in 1 .. (Len(s) - 1) : Tail(s)[i] = s[i + 1]
  OBVIOUS

\* Where every task is does not change when no step touches the queue, the
\* hands of the threads and the history of the tasks.
LEMMA TaskFrame ==
  ASSUME WaitingInv, TaskInv, UNCHANGED <<tasks_, held, fate, runs>>
  PROVE  WaitingInv' /\ TaskInv'
  BY DEF WaitingInv, TaskInv

\* The invariant holds initially: no thread has started, nothing is queued.
LEMMA InvInit == Init => Inv
<1> SUFFICES ASSUME Init PROVE Inv
  OBVIOUS
<1> USE ConfigAssumption, ThreadsAssumption DEF Init, Workers
<1>1. PcOK
  BY DEF PcOK, OwnerPc, ClientPc, WorkerPc
<1>2. ScalarsOK
  BY DEF ScalarsOK
<1>3. TablesOK
  BY DEF TablesOK
<1>4. TypeOK
  BY <1>1, <1>2, <1>3 DEF TypeOK
<1>5. OwnerInv /\ WorkerInv /\ MutexInv
  BY DEF OwnerInv, WorkerInv, MutexInv
<1>6. HeldInv /\ WaitingInv /\ TaskInv
  BY DEF HeldInv, WaitingInv, TaskInv, Holders
<1>7. QED
  BY <1>4, <1>5, <1>6 DEF Inv

\* Start opens a stopped pool: no worker exists, so none has exited.
LEMMA StartPublishInv == ASSUME Inv, StartPublish PROVE Inv'
<1> USE ConfigAssumption, ThreadsAssumption DEF Inv, TypeOK, StartPublish, Workers, Goto
<1>1. PcOK'
  BY DEF PcOK, OwnerPc, ClientPc, WorkerPc
<1>2. ScalarsOK' /\ running_' \in BOOLEAN /\ quiet' \in BOOLEAN
  BY DEF ScalarsOK, OwnerInv
<1>3. TablesOK'
  BY DEF TablesOK, CounterNames, OwnerInv
<1>4. OwnerInv'
  BY DEF PcOK, ScalarsOK, OwnerInv, WorkerInv
<1>5. WorkerInv'
  BY DEF PcOK, ScalarsOK, OwnerInv, WorkerInv, MutexInv
<1>6. MutexInv'
  BY DEF PcOK, ScalarsOK, OwnerInv, WorkerInv, MutexInv
<1>7. HeldInv'
  BY DEF PcOK, ScalarsOK, OwnerInv, WorkerInv, HeldInv, Holders
<1>8. WaitingInv' /\ TaskInv'
  BY TaskFrame
<1>9. QED
  BY <1>1, <1>2, <1>3, <1>4, <1>5, <1>6, <1>7, <1>8

\* Resetting a counter moves no task.
LEMMA StartResetInv == ASSUME Inv, StartReset PROVE Inv'
<1> USE ConfigAssumption, ThreadsAssumption DEF Inv, TypeOK, StartReset, Workers, Goto, ResetOrder
<1>1. PcOK'
  BY ZenonT(30) DEF PcOK, OwnerPc, ClientPc, WorkerPc
<1>2. ScalarsOK' /\ running_' \in BOOLEAN /\ quiet' \in BOOLEAN
  BY DEF ScalarsOK, OwnerInv
<1>3. TablesOK'
  BY DEF TablesOK, CounterNames, OwnerInv
<1>4. OwnerInv'
  BY DEF PcOK, ScalarsOK, OwnerInv, WorkerInv
<1>5. WorkerInv'
  BY DEF PcOK, ScalarsOK, OwnerInv, WorkerInv, MutexInv
<1>6. MutexInv'
  BY DEF PcOK, ScalarsOK, OwnerInv, WorkerInv, MutexInv
<1>7. HeldInv'
  BY DEF PcOK, ScalarsOK, OwnerInv, WorkerInv, HeldInv, Holders
<1>8. WaitingInv' /\ TaskInv'
  BY TaskFrame
<1>9. QED
  BY <1>1, <1>2, <1>3, <1>4, <1>5, <1>6, <1>7, <1>8

\* A new worker starts at the lock and holds nothing.
LEMMA StartSpawnInv == ASSUME Inv, StartSpawn PROVE Inv'
<1> USE ConfigAssumption, ThreadsAssumption DEF Inv, TypeOK, StartSpawn, Workers
<1>1. PcOK'
  BY ZenonT(30) DEF PcOK, OwnerPc, ClientPc, WorkerPc, ScalarsOK, OwnerInv
<1>2. ScalarsOK' /\ running_' \in BOOLEAN /\ quiet' \in BOOLEAN
  BY DEF ScalarsOK, OwnerInv
<1>3. TablesOK'
  BY DEF TablesOK, CounterNames, OwnerInv
<1>4. OwnerInv'
  BY DEF PcOK, ScalarsOK, OwnerInv, WorkerInv
<1>5. WorkerInv'
  BY DEF PcOK, ScalarsOK, OwnerInv, WorkerInv, MutexInv
<1>6. MutexInv'
  BY DEF PcOK, ScalarsOK, OwnerInv, WorkerInv, MutexInv
<1>7. HeldInv'
  BY DEF PcOK, ScalarsOK, OwnerInv, WorkerInv, HeldInv, Holders
<1>8. WaitingInv' /\ TaskInv'
  BY TaskFrame
<1>9. QED
  BY <1>1, <1>2, <1>3, <1>4, <1>5, <1>6, <1>7, <1>8

\* Closing the pool under the mutex.
LEMMA StopFlagInv == ASSUME Inv, StopFlag PROVE Inv'
<1> USE ConfigAssumption, ThreadsAssumption DEF Inv, TypeOK, StopFlag, Workers, Goto, MutexFree
<1>1. PcOK'
  BY DEF PcOK, OwnerPc, ClientPc, WorkerPc
<1>2. ScalarsOK' /\ running_' \in BOOLEAN /\ quiet' \in BOOLEAN
  BY DEF ScalarsOK, OwnerInv
<1>3. TablesOK'
  BY DEF TablesOK, CounterNames, OwnerInv
<1>4. OwnerInv'
  BY DEF PcOK, ScalarsOK, OwnerInv, WorkerInv
<1>5. WorkerInv'
  BY DEF PcOK, ScalarsOK, OwnerInv, WorkerInv, MutexInv
<1>6. MutexInv'
  BY DEF PcOK, ScalarsOK, OwnerInv, WorkerInv, MutexInv
<1>7. HeldInv'
  BY DEF PcOK, ScalarsOK, OwnerInv, WorkerInv, HeldInv, Holders
<1>8. WaitingInv' /\ TaskInv'
  BY TaskFrame
<1>9. QED
  BY <1>1, <1>2, <1>3, <1>4, <1>5, <1>6, <1>7, <1>8

\* Waking every waiter moves no task.
LEMMA StopNotifyAllInv == ASSUME Inv, StopNotifyAll PROVE Inv'
<1> USE ConfigAssumption, ThreadsAssumption DEF Inv, TypeOK, StopNotifyAll, Workers, Waiting
<1>1. PcOK'
  BY DEF PcOK, OwnerPc, ClientPc, WorkerPc
<1>2. ScalarsOK' /\ running_' \in BOOLEAN /\ quiet' \in BOOLEAN
  BY DEF ScalarsOK, OwnerInv
<1>3. TablesOK'
  BY DEF TablesOK, CounterNames, OwnerInv
<1>4. OwnerInv'
  BY DEF PcOK, ScalarsOK, OwnerInv, WorkerInv
<1>5. WorkerInv'
  BY DEF PcOK, ScalarsOK, OwnerInv, WorkerInv, MutexInv
<1>6. MutexInv'
  BY DEF PcOK, ScalarsOK, OwnerInv, WorkerInv, MutexInv
<1>7. HeldInv'
  BY DEF PcOK, ScalarsOK, OwnerInv, WorkerInv, HeldInv, Holders
<1>8. WaitingInv' /\ TaskInv'
  BY TaskFrame
<1>9. QED
  BY <1>1, <1>2, <1>3, <1>4, <1>5, <1>6, <1>7, <1>8

\* The last join finds every worker gone, hence an empty queue.
LEMMA StopJoinInv == ASSUME Inv, StopJoin PROVE Inv'
<1> USE ConfigAssumption, ThreadsAssumption DEF Inv, TypeOK, StopJoin, Workers
<1>1. PcOK'
  BY ZenonT(60) DEF PcOK, OwnerPc, ClientPc, WorkerPc, ScalarsOK, OwnerInv
<1>2. ScalarsOK' /\ running_' \in BOOLEAN /\ quiet' \in BOOLEAN
  BY DEF ScalarsOK, OwnerInv
<1>3. TablesOK'
  BY DEF TablesOK, CounterNames, OwnerInv
<1>4. OwnerInv'
  <2>1. cursor \in Workers /\ ~running_ /\ tasks_ = <<>>
    BY DEF ScalarsOK, OwnerInv, WorkerInv
  <2>2. CASE cursor = workers_
    BY <2>1, <2>2 DEF PcOK, ScalarsOK, OwnerInv
  <2>3. CASE cursor # workers_
    <3>1. \A w \in Workers : w < cursor + 1 => w < cursor \/ w = cursor
      BY DEF ScalarsOK
    <3>2. QED
      BY <2>1, <2>3, <3>1 DEF PcOK, ScalarsOK, OwnerInv
  <2>4. QED
    BY <2>2, <2>3
<1>5. WorkerInv'
  BY DEF PcOK, ScalarsOK, OwnerInv, WorkerInv, MutexInv
<1>6. MutexInv'
  BY DEF PcOK, ScalarsOK, OwnerInv, WorkerInv, MutexInv
<1>7. HeldInv'
  BY DEF PcOK, ScalarsOK, OwnerInv, WorkerInv, HeldInv, Holders
<1>8. WaitingInv' /\ TaskInv'
  BY TaskFrame
<1>9. QED
  BY <1>1, <1>2, <1>3, <1>4, <1>5, <1>6, <1>7, <1>8

\* The swap finds the queue already empty.
LEMMA StopSwapInv == ASSUME Inv, StopSwap PROVE Inv'
<1> USE ConfigAssumption, ThreadsAssumption DEF Inv, TypeOK, StopSwap, Workers, Goto, MutexFree
<1>1. PcOK'
  BY DEF PcOK, OwnerPc, ClientPc, WorkerPc
<1>2. ScalarsOK' /\ running_' \in BOOLEAN /\ quiet' \in BOOLEAN
  BY DEF ScalarsOK, OwnerInv
<1>3. TablesOK'
  BY DEF TablesOK, CounterNames, OwnerInv
<1>4. OwnerInv'
  BY DEF PcOK, ScalarsOK, OwnerInv, WorkerInv
<1>5. WorkerInv'
  BY DEF PcOK, ScalarsOK, OwnerInv, WorkerInv, MutexInv
<1>6. MutexInv'
  BY DEF PcOK, ScalarsOK, OwnerInv, WorkerInv, MutexInv
<1>7. HeldInv'
  BY DEF PcOK, ScalarsOK, OwnerInv, WorkerInv, HeldInv, Holders
<1>8. WaitingInv' /\ TaskInv'
  BY TaskFrame DEF OwnerInv
<1>9. QED
  BY <1>1, <1>2, <1>3, <1>4, <1>5, <1>6, <1>7, <1>8

\* notify_one moves a waiter to the lock.
LEMMA NotifyOneInv == ASSUME Inv, NEW c \in Clients, NotifyOne(c) PROVE Inv'
<1> USE ConfigAssumption, ThreadsAssumption DEF Inv, TypeOK, NotifyOne, Workers, Goto, Waiting
<1>1. PcOK'
  BY ZenonT(30) DEF PcOK, OwnerPc, ClientPc, WorkerPc
<1>2. ScalarsOK' /\ running_' \in BOOLEAN /\ quiet' \in BOOLEAN
  BY DEF ScalarsOK, OwnerInv
<1>3. TablesOK'
  BY DEF TablesOK, CounterNames, OwnerInv
<1>4. OwnerInv'
  BY DEF PcOK, ScalarsOK, OwnerInv, WorkerInv
<1>5. WorkerInv'
  BY DEF PcOK, ScalarsOK, OwnerInv, WorkerInv, MutexInv
<1>6. MutexInv'
  BY DEF PcOK, ScalarsOK, OwnerInv, WorkerInv, MutexInv
<1>7. HeldInv'
  BY DEF PcOK, ScalarsOK, OwnerInv, WorkerInv, HeldInv, Holders
<1>8. WaitingInv' /\ TaskInv'
  BY TaskFrame
<1>9. QED
  BY <1>1, <1>2, <1>3, <1>4, <1>5, <1>6, <1>7, <1>8

\* Counting a caller-run task as submitted moves no task.
LEMMA CallerSubmitInv == ASSUME Inv, NEW c \in Clients, CallerSubmit(c) PROVE Inv'
<1> USE ConfigAssumption, ThreadsAssumption DEF Inv, TypeOK, CallerSubmit, Workers, Goto, Bump
<1>1. PcOK'
  BY DEF PcOK, OwnerPc, ClientPc, WorkerPc
<1>2. ScalarsOK' /\ running_' \in BOOLEAN /\ quiet' \in BOOLEAN
  BY DEF ScalarsOK, OwnerInv
<1>3. TablesOK'
  BY DEF TablesOK, CounterNames, OwnerInv
<1>4. OwnerInv'
  BY DEF PcOK, ScalarsOK, OwnerInv, WorkerInv
<1>5. WorkerInv'
  BY DEF PcOK, ScalarsOK, OwnerInv, WorkerInv, MutexInv
<1>6. MutexInv'
  BY DEF PcOK, ScalarsOK, OwnerInv, WorkerInv, MutexInv
<1>7. HeldInv'
  BY DEF PcOK, ScalarsOK, OwnerInv, WorkerInv, HeldInv, Holders
<1>8. WaitingInv' /\ TaskInv'
  BY TaskFrame
<1>9. QED
  BY <1>1, <1>2, <1>3, <1>4, <1>5, <1>6, <1>7, <1>8

\* A worker takes the free mutex.
LEMMA WorkerLockInv == ASSUME Inv, NEW w \in Workers, WorkerLock(w) PROVE Inv'
<1> USE ConfigAssumption, ThreadsAssumption DEF Inv, TypeOK, WorkerLock, Workers, Goto, MutexFree
<1>1. PcOK'
  BY DEF PcOK, OwnerPc, ClientPc, WorkerPc
<1>2. ScalarsOK' /\ running_' \in BOOLEAN /\ quiet' \in BOOLEAN
  BY DEF ScalarsOK, OwnerInv
<1>3. TablesOK'
  BY DEF TablesOK, CounterNames, OwnerInv
<1>4. OwnerInv'
  BY DEF PcOK, ScalarsOK, OwnerInv, WorkerInv
<1>5. WorkerInv'
  BY DEF PcOK, ScalarsOK, OwnerInv, WorkerInv, MutexInv
<1>6. MutexInv'
  BY DEF PcOK, ScalarsOK, OwnerInv, WorkerInv, MutexInv
<1>7. HeldInv'
  BY DEF PcOK, ScalarsOK, OwnerInv, WorkerInv, HeldInv, Holders
<1>8. WaitingInv' /\ TaskInv'
  BY TaskFrame
<1>9. QED
  BY <1>1, <1>2, <1>3, <1>4, <1>5, <1>6, <1>7, <1>8

\* A true predicate is what WorkerTake relies on.
LEMMA WorkerEvaluateInv == ASSUME Inv, NEW w \in Workers, WorkerEvaluate(w) PROVE Inv'
<1> USE ConfigAssumption, ThreadsAssumption DEF Inv, TypeOK, WorkerEvaluate, Workers, Goto, WaitPredicate
<1>1. PcOK'
  BY DEF PcOK, OwnerPc, ClientPc, WorkerPc
<1>2. ScalarsOK' /\ running_' \in BOOLEAN /\ quiet' \in BOOLEAN
  BY DEF ScalarsOK, OwnerInv
<1>3. TablesOK'
  BY DEF TablesOK, CounterNames, OwnerInv
<1>4. OwnerInv'
  BY DEF PcOK, ScalarsOK, OwnerInv, WorkerInv
<1>5. WorkerInv'
  BY DEF PcOK, ScalarsOK, OwnerInv, WorkerInv, MutexInv
<1>6. MutexInv'
  BY DEF PcOK, ScalarsOK, OwnerInv, WorkerInv, MutexInv
<1>7. HeldInv'
  BY DEF PcOK, ScalarsOK, OwnerInv, WorkerInv, HeldInv, Holders
<1>8. WaitingInv' /\ TaskInv'
  BY TaskFrame
<1>9. QED
  BY <1>1, <1>2, <1>3, <1>4, <1>5, <1>6, <1>7, <1>8

\* Waiting releases the mutex.
LEMMA WorkerParkInv == ASSUME Inv, NEW w \in Workers, WorkerPark(w) PROVE Inv'
<1> USE ConfigAssumption, ThreadsAssumption DEF Inv, TypeOK, WorkerPark, Workers, Goto
<1>1. PcOK'
  BY DEF PcOK, OwnerPc, ClientPc, WorkerPc
<1>2. ScalarsOK' /\ running_' \in BOOLEAN /\ quiet' \in BOOLEAN
  BY DEF ScalarsOK, OwnerInv
<1>3. TablesOK'
  BY DEF TablesOK, CounterNames, OwnerInv
<1>4. OwnerInv'
  BY DEF PcOK, ScalarsOK, OwnerInv, WorkerInv
<1>5. WorkerInv'
  BY DEF PcOK, ScalarsOK, OwnerInv, WorkerInv, MutexInv
<1>6. MutexInv'
  BY DEF PcOK, ScalarsOK, OwnerInv, WorkerInv, MutexInv
<1>7. HeldInv'
  BY DEF PcOK, ScalarsOK, OwnerInv, WorkerInv, HeldInv, Holders
<1>8. WaitingInv' /\ TaskInv'
  BY TaskFrame
<1>9. QED
  BY <1>1, <1>2, <1>3, <1>4, <1>5, <1>6, <1>7, <1>8

\* A spurious wakeup leads back to the lock.
LEMMA WorkerSpuriousInv == ASSUME Inv, NEW w \in Workers, WorkerSpurious(w) PROVE Inv'
<1> USE ConfigAssumption, ThreadsAssumption DEF Inv, TypeOK, WorkerSpurious, Workers, Goto
<1>1. PcOK'
  BY DEF PcOK, OwnerPc, ClientPc, WorkerPc
<1>2. ScalarsOK' /\ running_' \in BOOLEAN /\ quiet' \in BOOLEAN
  BY DEF ScalarsOK, OwnerInv
<1>3. TablesOK'
  BY DEF TablesOK, CounterNames, OwnerInv
<1>4. OwnerInv'
  BY DEF PcOK, ScalarsOK, OwnerInv, WorkerInv
<1>5. WorkerInv'
  BY DEF PcOK, ScalarsOK, OwnerInv, WorkerInv, MutexInv
<1>6. MutexInv'
  BY DEF PcOK, ScalarsOK, OwnerInv, WorkerInv, MutexInv
<1>7. HeldInv'
  BY DEF PcOK, ScalarsOK, OwnerInv, WorkerInv, HeldInv, Holders
<1>8. WaitingInv' /\ TaskInv'
  BY TaskFrame
<1>9. QED
  BY <1>1, <1>2, <1>3, <1>4, <1>5, <1>6, <1>7, <1>8

\* Counting an executed task moves no task.
LEMMA CountExecutedInv == ASSUME Inv, NEW h \in Holders, CountExecuted(h) PROVE Inv'
<1> USE ConfigAssumption, ThreadsAssumption DEF Inv, TypeOK, CountExecuted, Workers, Goto, Bump, Holders
<1>1. PcOK'
  BY DEF PcOK, OwnerPc, ClientPc, WorkerPc
<1>2. ScalarsOK' /\ running_' \in BOOLEAN /\ quiet' \in BOOLEAN
  BY DEF ScalarsOK, OwnerInv
<1>3. TablesOK'
  BY DEF TablesOK, CounterNames, OwnerInv
<1>4. OwnerInv'
  BY DEF PcOK, ScalarsOK, OwnerInv, WorkerInv
<1>5. WorkerInv'
  BY DEF PcOK, ScalarsOK, OwnerInv, WorkerInv, MutexInv
<1>6. MutexInv'
  BY DEF PcOK, ScalarsOK, OwnerInv, WorkerInv, MutexInv
<1>7. HeldInv'
  BY DEF PcOK, ScalarsOK, OwnerInv, WorkerInv, HeldInv, Holders
<1>8. WaitingInv' /\ TaskInv'
  BY TaskFrame
<1>9. QED
  BY <1>1, <1>2, <1>3, <1>4, <1>5, <1>6, <1>7, <1>8

\* Refusing a task that was never offered before.
LEMMA EnqueueRefuseInv ==
  ASSUME Inv, NEW c \in Clients, NEW t \in Tasks, EnqueueRefuse(c, t)
  PROVE  Inv'
<1> USE DEF Inv, TypeOK, EnqueueRefuse, Bump
<1>1. TablesOK'
  BY DEF TablesOK, CounterNames
<1>2. PcOK' /\ ScalarsOK' /\ running_' \in BOOLEAN /\ quiet' \in BOOLEAN
  BY DEF PcOK, ScalarsOK
<1>3. OwnerInv' /\ WorkerInv' /\ MutexInv' /\ HeldInv'
  BY DEF OwnerInv, WorkerInv, MutexInv, HeldInv
<1>4. /\ \A u \in Tasks : u # t => fate'[u] = fate[u]
      /\ fate'[t] = "refused" /\ fate[t] = "new" /\ runs[t] = 0
  BY DEF TablesOK, TaskInv
<1>5. WaitingInv'
  BY <1>4, ThreadsAssumption DEF TablesOK, WaitingInv, Holders
<1>6. TaskInv'
  BY <1>4 DEF TaskInv
<1>7. QED
  BY <1>1, <1>2, <1>3, <1>5, <1>6

\* Accepting a new task puts it into the queue or into the caller's hands.
LEMMA EnqueueAcceptInv ==
  ASSUME Inv, NEW c \in Clients, NEW t \in Tasks, EnqueueAccept(c, t)
  PROVE  Inv'
<1> USE ConfigAssumption, ThreadsAssumption DEF Inv, TypeOK, Holders, Workers
<1>1. /\ pc[c] = "idle" /\ fate[t] = "new" /\ running_
      /\ fate' = [fate EXCEPT ![t] = "accepted"]
      /\ UNCHANGED <<running_, workers_, mutex, cursor, runs, starts, spurious>>
      /\ quiet' = (quiet /\ pc[Owner] # "reset")
  BY DEF EnqueueAccept
<1>2. \/ /\ tasks_' = Append(tasks_, t) /\ held' = held
         /\ pc' = [pc EXCEPT ![c] = "notifyOne"]
      \/ /\ tasks_' = tasks_ /\ held' = [held EXCEPT ![c] = t]
         /\ pc' = [pc EXCEPT ![c] = "callerSubmit"]
  BY DEF EnqueueAccept, Goto
<1>3. counters' \in [CounterNames -> Nat]
  BY SMTT(30) DEF EnqueueAccept, Bump, TablesOK, CounterNames
<1>4. PcOK'
  BY <1>2 DEF PcOK, ClientPc
<1>5. ScalarsOK' /\ running_' \in BOOLEAN /\ quiet' \in BOOLEAN
  BY <1>1 DEF ScalarsOK
<1>6. TablesOK'
  <2>1. tasks_ \in Seq(Tasks) /\ Append(tasks_, t) \in Seq(Tasks)
    BY AppendElements DEF TablesOK
  <2>2. QED
    BY <1>1, <1>2, <1>3, <2>1, ZenonT(60) DEF TablesOK
<1>7. OwnerInv' /\ MutexInv'
  BY <1>1, <1>2 DEF PcOK, OwnerInv, MutexInv
<1>8. WorkerInv'
  <2>1. tasks_ # <<>> => tasks_' # <<>>
    BY <1>2, AppendElements DEF TablesOK
  <2>2. QED
    BY <1>1, <1>2, <2>1 DEF PcOK, WorkerInv
<1>9. HeldInv'
  BY <1>1, <1>2, ZenonT(30) DEF PcOK, TablesOK, HeldInv
<1>10. /\ \A i \in DOMAIN tasks_ : tasks_[i] \in Tasks /\ tasks_[i] # t
       /\ \A h \in Holders : held[h] # t
       /\ runs[t] = 0 /\ held[c] = NoTask
  <2>1. \A i \in DOMAIN tasks_ : tasks_[i] \in Tasks /\ tasks_[i] # t
    BY <1>1 DEF TablesOK, WaitingInv
  <2>2. \A h \in Holders : held[h] # t
    BY <1>1 DEF WaitingInv
  <2>3. runs[t] = 0
    BY <1>1 DEF TaskInv
  <2>4. held[c] = NoTask
    BY <1>1 DEF HeldInv
  <2>5. QED
    BY <2>1, <2>2, <2>3, <2>4
<1>11. /\ fate'[t] = "accepted" /\ runs' = runs
       /\ \A u \in Tasks : u # t => fate'[u] = fate[u]
  BY <1>1 DEF TablesOK
<1>12. CASE tasks_' = Append(tasks_, t) /\ held' = held
  <2>1. /\ DOMAIN tasks_ = 1 .. Len(tasks_) /\ Len(tasks_) \in Nat
        /\ DOMAIN tasks_' = 1 .. (Len(tasks_) + 1)
        /\ \A i \in 1 .. Len(tasks_) : tasks_'[i] = tasks_[i]
        /\ tasks_'[Len(tasks_) + 1] = t
    BY <1>12, AppendElements DEF TablesOK
  <2>2. WaitingInv'
    <3>1. \A i \in DOMAIN tasks_' : i \in DOMAIN tasks_ \/ i = Len(tasks_) + 1
      BY <2>1
    <3>2. \A h \in Holders : held[h] # NoTask => held[h] \in Tasks
      BY DEF TablesOK
    <3>3. QED
      BY <1>10, <1>11, <1>12, <2>1, <3>1, <3>2 DEF WaitingInv
  <2>3. TaskInv'
    <3>1. Len(tasks_) + 1 \in DOMAIN tasks_' /\ DOMAIN tasks_ \subseteq DOMAIN tasks_'
      BY <2>1
    <3>2. QED
      BY <1>10, <1>11, <1>12, <2>1, <3>1 DEF TaskInv
  <2>4. QED
    BY <1>4, <1>5, <1>6, <1>7, <1>8, <1>9, <2>2, <2>3
<1>13. CASE tasks_' = tasks_ /\ held' = [held EXCEPT ![c] = t]
  <2>1. /\ held'[c] = t
        /\ \A h \in Holders : h # c => held'[h] = held[h]
        /\ \A h \in Holders : held[h] # NoTask => held[h] \in Tasks
    BY <1>13 DEF TablesOK
  <2> HIDE DEF Inv, TypeOK
  <2>2. WaitingInv'
    <3>1. ASSUME NEW i \in DOMAIN tasks_' PROVE
                 /\ fate'[tasks_'[i]] = "accepted" /\ runs'[tasks_'[i]] = 0
                 /\ \A h \in Holders : held'[h] # tasks_'[i]
                 /\ \A j \in DOMAIN tasks_' : tasks_'[i] = tasks_'[j] => i = j
      BY <1>10, <1>11, <1>13, <2>1 DEF Inv, WaitingInv
    <3>2. ASSUME NEW h \in Holders, held'[h] # NoTask PROVE
                 /\ fate'[held'[h]] = "accepted" /\ runs'[held'[h]] = 0
                 /\ \A g \in Holders : held'[g] = held'[h] => g = h
      BY <1>10, <1>11, <2>1, <3>2 DEF Inv, WaitingInv
    <3>3. QED
      BY <3>1, <3>2 DEF WaitingInv
  <2>3. TaskInv'
    <3>1. SUFFICES ASSUME NEW u \in Tasks, u # t, fate[u] = "accepted", runs[u] = 0
                   PROVE  (\E i \in DOMAIN tasks_' : tasks_'[i] = u)
                          \/ (\E h \in Holders : held'[h] = u)
      <4>1. c \in Holders /\ held'[c] = t
        BY <2>1
      <4>2. QED
        BY <1>10, <1>11, <4>1, ZenonT(60) DEF Inv, TaskInv
    <3>2. CASE \E h \in Holders : held[h] = u
      BY <1>10, <2>1, <3>1, <3>2, ThreadsAssumption
    <3>3. QED
      BY <1>13, <3>1, <3>2 DEF Inv, TaskInv
  <2>4. QED
    BY <1>4, <1>5, <1>6, <1>7, <1>8, <1>9, <2>2, <2>3 DEF Inv, TypeOK
<1>14. QED
  BY <1>2, <1>12, <1>13

\* A worker returns, or moves the front task from the queue into its hands.
LEMMA WorkerTakeInv ==
  ASSUME Inv, NEW w \in Workers, WorkerTake(w)
  PROVE  Inv'
<1> USE ConfigAssumption, ThreadsAssumption DEF Inv, TypeOK, Workers, Holders
<1>1. /\ pc[w] = "take" /\ mutex' = Nobody
      /\ UNCHANGED <<running_, workers_, cursor, counters, fate, runs, quiet,
                     starts, spurious>>
  BY DEF WorkerTake
<1>2. CASE WorkerMayExit
  <2>1. /\ pc' = [pc EXCEPT ![w] = "exited"]
        /\ tasks_' = tasks_ /\ held' = held /\ ~running_ /\ tasks_ = <<>>
    BY <1>2 DEF WorkerTake, WorkerMayExit, Goto
  <2>2. PcOK' /\ ScalarsOK'
    BY <1>1, <2>1 DEF PcOK, ScalarsOK, WorkerPc
  <2>3. TypeOK'
    BY <1>1, <2>1, <2>2 DEF TablesOK
  <2>4. OwnerInv' /\ WorkerInv' /\ MutexInv'
    BY <1>1, <2>1 DEF PcOK, ScalarsOK, OwnerInv, WorkerInv, MutexInv
  <2>5. HeldInv'
    BY <1>1, <2>1 DEF PcOK, HeldInv
  <2>6. WaitingInv' /\ TaskInv'
    BY <1>1, <2>1, TaskFrame
  <2>7. QED
    BY <2>3, <2>4, <2>5, <2>6
<1>3. CASE ~WorkerMayExit
  <2> DEFINE front == Head(tasks_)
  <2>1. tasks_ # <<>>
    BY <1>1, <1>3 DEF WorkerInv, WorkerMayExit
  <2>2. /\ pc' = [pc EXCEPT ![w] = "run"]
        /\ tasks_' = Tail(tasks_)
        /\ held' = [held EXCEPT ![w] = front]
    BY <1>3 DEF WorkerTake, AfterPop, Goto
  <2>3. /\ tasks_' \in Seq(Tasks) /\ front \in Tasks /\ front = tasks_[1]
        /\ Len(tasks_) \in Nat \ {0} /\ DOMAIN tasks_ = 1 .. Len(tasks_)
        /\ DOMAIN tasks_' = 1 .. (Len(tasks_) - 1)
        /\ \A i \in 1 .. (Len(tasks_) - 1) : tasks_'[i] = tasks_[i + 1]
    BY <2>1, <2>2, TailElements DEF TablesOK
  <2> HIDE DEF front
  <2>4. /\ held'[w] = front /\ held[w] = NoTask
        /\ \A h \in Holders : h # w => held'[h] = held[h]
    BY <1>1, <2>2 DEF TablesOK, HeldInv
  <2>5. PcOK' /\ ScalarsOK'
    BY <1>1, <2>2 DEF PcOK, ScalarsOK, WorkerPc
  <2>6. TablesOK' /\ running_' \in BOOLEAN /\ quiet' \in BOOLEAN
    BY <1>1, <2>2, <2>3 DEF TablesOK
  <2>7. OwnerInv' /\ WorkerInv' /\ MutexInv'
    BY <1>1, <2>1, <2>2 DEF PcOK, ScalarsOK, OwnerInv, WorkerInv, MutexInv
  <2>8. HeldInv'
    BY <1>1, <2>2, <2>3, <2>4 DEF PcOK, HeldInv
  <2>9. /\ 1 \in DOMAIN tasks_
        /\ \A i \in DOMAIN tasks_' : i + 1 \in DOMAIN tasks_ /\ i + 1 # 1 /\ i \in Nat
    BY <2>3
  <2>10. /\ fate[front] = "accepted" /\ runs[front] = 0
         /\ \A h \in Holders : held[h] # front
         /\ \A i \in DOMAIN tasks_' : tasks_'[i] # front
    <3>1. \A i \in DOMAIN tasks_' : tasks_'[i] = tasks_[i + 1]
      BY <2>3
    <3>2. QED
      BY <2>3, <2>9, <3>1 DEF WaitingInv
  <2>11. WaitingInv'
    <3>1. ASSUME NEW i \in DOMAIN tasks_' PROVE
                 /\ fate'[tasks_'[i]] = "accepted" /\ runs'[tasks_'[i]] = 0
                 /\ \A h \in Holders : held'[h] # tasks_'[i]
                 /\ \A j \in DOMAIN tasks_' : tasks_'[i] = tasks_'[j] => i = j
      <4>1. \A k \in DOMAIN tasks_' :
              tasks_'[k] = tasks_[k + 1] /\ k + 1 \in DOMAIN tasks_ /\ k \in Nat
        BY <2>3, <2>9
      <4>2. fate'[tasks_'[i]] = "accepted" /\ runs'[tasks_'[i]] = 0
        BY <1>1, <4>1 DEF WaitingInv
      <4>3. \A h \in Holders : held'[h] # tasks_'[i]
        BY <2>4, <2>10, <4>1 DEF WaitingInv
      <4>4. \A j \in DOMAIN tasks_' : tasks_'[i] = tasks_'[j] => i + 1 = j + 1
        BY <4>1 DEF WaitingInv
      <4>5. QED
        BY <4>1, <4>2, <4>3, <4>4
    <3>2. ASSUME NEW h \in Holders, held'[h] # NoTask PROVE
                 /\ fate'[held'[h]] = "accepted" /\ runs'[held'[h]] = 0
                 /\ \A g \in Holders : held'[g] = held'[h] => g = h
      <4>1. CASE h = w
        BY <1>1, <2>4, <2>10, <4>1
      <4>2. CASE h # w
        BY <1>1, <2>4, <2>10, <3>2, <4>2 DEF WaitingInv
      <4>3. QED
        BY <4>1, <4>2
    <3>3. QED
      BY <3>1, <3>2 DEF WaitingInv
  <2>12. TaskInv'
    <3>1. SUFFICES ASSUME NEW u \in Tasks, fate[u] = "accepted", runs[u] = 0,
                          u # front
                   PROVE  (\E i \in DOMAIN tasks_' : tasks_'[i] = u)
                          \/ (\E h \in Holders : held'[h] = u)
      BY <1>1, <2>4, <2>10 DEF TaskInv
    <3>2. CASE \E h \in Holders : held[h] = u
      <4>1. PICK h \in Holders : held[h] = u
        BY <3>2
      <4>2. held'[h] = u
        BY <2>3, <2>4, <3>1, <4>1
      <4>3. QED
        BY <4>1, <4>2
    <3>3. CASE \E i \in DOMAIN tasks_ : tasks_[i] = u
      <4>1. PICK i \in DOMAIN tasks_ : tasks_[i] = u
        BY <3>3
      <4>2. i - 1 \in DOMAIN tasks_' /\ tasks_'[i - 1] = u
        BY <2>3, <3>1, <4>1
      <4>3. QED
        BY <4>2
    <3>4. (\E i \in DOMAIN tasks_ : tasks_[i] = u) \/ (\E h \in Holders : held[h] = u)
      BY <3>1 DEF TaskInv
    <3>5. QED
      BY <3>2, <3>3, <3>4
  <2>13. QED
    BY <2>5, <2>6, <2>7, <2>8, <2>11, <2>12
<1>4. QED
  BY <1>2, <1>3

\* Running a held task is the one step that changes how often a task ran.
LEMMA ExecuteTaskInv == ASSUME Inv, NEW h \in Holders, ExecuteTask(h) PROVE Inv'
<1> USE ConfigAssumption, ThreadsAssumption
    DEF Inv, TypeOK, ExecuteTask, Workers, Holders, Goto, Bump
<1> DEFINE t == held[h]
<1>1. /\ t \in Tasks /\ fate[t] = "accepted" /\ runs[t] = 0
      /\ \A g \in Holders : g # h => held[g] # t
      /\ \A i \in DOMAIN tasks_ : tasks_[i] # t
  BY ZenonT(60) DEF TablesOK, HeldInv, WaitingInv
<1>2. /\ runs' = [runs EXCEPT ![t] = @ + 1]
      /\ held' = [held EXCEPT ![h] = NoTask]
  OBVIOUS
<1>3. /\ runs'[t] = 1 /\ held'[h] = NoTask
      /\ \A u \in Tasks : u # t => runs'[u] = runs[u]
      /\ \A g \in Holders : g # h => held'[g] = held[g]
  BY <1>1, <1>2 DEF TablesOK
<1>4. PcOK'
  BY DEF PcOK, OwnerPc, ClientPc, WorkerPc
<1>5. ScalarsOK' /\ running_' \in BOOLEAN /\ quiet' \in BOOLEAN
  BY DEF ScalarsOK
<1>6. TablesOK'
  <2>1. counters' \in [CounterNames -> Nat]
    BY DEF TablesOK, CounterNames
  <2>2. QED
    BY <1>1, <1>2, <2>1 DEF TablesOK
<1>7. OwnerInv' /\ WorkerInv' /\ MutexInv'
  BY DEF PcOK, OwnerInv, WorkerInv, MutexInv
<1>8. HeldInv'
  BY <1>3 DEF PcOK, HeldInv
<1> HIDE DEF t
<1>9. WaitingInv'
  BY <1>1, <1>3 DEF TablesOK, WaitingInv
<1>10. TaskInv'
  <2>1. fate' = fate /\ tasks_' = tasks_
    OBVIOUS
  <2>2. SUFFICES ASSUME NEW u \in Tasks, u # t, fate[u] = "accepted", runs[u] = 0
                 PROVE  (\E i \in DOMAIN tasks_' : tasks_'[i] = u)
                        \/ (\E g \in Holders : held'[g] = u)
    BY <1>1, <1>3, <2>1 DEF TaskInv
  <2>3. CASE \E g \in Holders : held[g] = u
    BY <1>3, <2>2, <2>3 DEF t
  <2>4. QED
    BY <2>1, <2>2, <2>3 DEF TaskInv
<1>11. QED
  BY <1>4, <1>5, <1>6, <1>7, <1>8, <1>9, <1>10

-----------------------------------------------------------------------------
\* Every step of every thread preserves the invariant.
LEMMA InvNext == Inv /\ [Next]_vars => Inv'
<1> SUFFICES ASSUME Inv, [Next]_vars PROVE Inv'
  OBVIOUS
<1>1. CASE OwnerStep
  BY <1>1, StartPublishInv, StartResetInv, StartSpawnInv, StopFlagInv,
     StopNotifyAllInv, StopJoinInv, StopSwapInv DEF OwnerStep
<1>2. ASSUME NEW c \in Clients, ClientStep(c) PROVE Inv'
  BY <1>2, EnqueueRefuseInv, EnqueueAcceptInv, NotifyOneInv, CallerSubmitInv,
     ExecuteTaskInv, CountExecutedInv DEF ClientStep, Holders
<1>3. ASSUME NEW w \in Workers, WorkerStep(w) \/ WorkerSpurious(w) PROVE Inv'
  BY <1>3, WorkerLockInv, WorkerEvaluateInv, WorkerParkInv, WorkerTakeInv,
     WorkerSpuriousInv, ExecuteTaskInv, CountExecutedInv DEF WorkerStep, Holders
<1>4. CASE UNCHANGED vars
  <2>1. TypeOK' /\ OwnerInv' /\ WorkerInv' /\ MutexInv' /\ HeldInv'
    BY <1>4 DEF Inv, vars, TypeOK, PcOK, ScalarsOK, TablesOK, OwnerInv,
                WorkerInv, MutexInv, HeldInv
  <2>2. QED
    BY <1>4, <2>1, TaskFrame DEF Inv, vars
<1>5. QED
  BY <1>1, <1>2, <1>3, <1>4 DEF Next

\* The pool's variables keep their types, for every number of threads.
THEOREM PoolTypeCorrect == Spec => []TypeOK
<1>1. Inv => TypeOK
  BY DEF Inv
<1>2. QED
  BY <1>1, InvInit, InvNext, PTL DEF Spec

\* No task runs twice and no refused task runs, for every number of workers,
\* clients and tasks and every capacity (WorkerTake, ExecuteTask, Enqueue).
THEOREM PoolExactlyOnce == Spec => []ExactlyOnce
<1>1. Inv => ExactlyOnce
  BY DEF Inv, TaskInv, ExactlyOnce
<1>2. QED
  BY <1>1, InvInit, InvNext, PTL DEF Spec

\* Stop and a failing Start return only after every accepted task has run, so
\* the swap of tasks_ at the end of Stop never destroys a task.
THEOREM PoolStopDrains == Spec => []StopDrains
<1>1. Inv => StopDrains
  <2> SUFFICES ASSUME Inv, ~running_, pc[Owner] \in {"idle", "swap"}
               PROVE  /\ tasks_ = <<>>
                      /\ \A t \in Tasks : fate[t] = "accepted" =>
                           runs[t] = 1 \/ \E c \in Clients : held[c] = t
    BY DEF StopDrains
  <2>1. tasks_ = <<>> /\ workers_ = 0
    BY DEF Inv, TypeOK, ScalarsOK, OwnerInv
  <2>2. \A w \in Workers : held[w] = NoTask
    BY <2>1, ConfigAssumption DEF Inv, WorkerInv, HeldInv, Holders, Workers
  <2>3. QED
    BY <2>1, <2>2, ThreadsAssumption DEF Inv, TaskInv, Holders
<1>2. QED
  BY <1>1, InvInit, InvNext, PTL DEF Spec

-----------------------------------------------------------------------------
(* The counters.                                                           *)

\* submitted_count_ = queued + running + executed.
Balanced ==
  counters["submitted"] = Len(tasks_) + Cardinality(InFlight) + counters["executed"]

\* While Start resets the counters undisturbed, nothing is queued or running
\* and the counters are already zero as far as the reset has come.
ResetQuiet ==
  /\ tasks_ = <<>> /\ InFlight = {}
  /\ \A c \in Clients : pc[c] # "callerSubmit"
  /\ cursor >= 2 => counters["submitted"] = 0
  /\ cursor >= 3 => counters["executed"] = 0

CountInv ==
  /\ IsFiniteSet(InFlight)
  /\ quiet => IF pc[Owner] = "reset" THEN ResetQuiet ELSE Balanced

\* The terms of the equation are numbers.
LEMMA CountTypes ==
  ASSUME Inv, CountInv
  PROVE  /\ counters["submitted"] \in Nat /\ counters["executed"] \in Nat
         /\ Len(tasks_) \in Nat /\ Cardinality(InFlight) \in Nat
<1>1. "submitted" \in CounterNames /\ "executed" \in CounterNames
  BY DEF CounterNames
<1>2. QED
  BY <1>1, FS_CardinalityType DEF Inv, TypeOK, TablesOK, CountInv

\* A step that moves no task and leaves both counters alone.
LEMMA CountKept ==
  ASSUME CountInv, UNCHANGED <<tasks_, quiet>>, InFlight' = InFlight,
         counters'["submitted"] = counters["submitted"],
         counters'["executed"] = counters["executed"],
         pc[Owner] = "reset" <=> pc'[Owner] = "reset",
         pc[Owner] = "reset" => /\ cursor' = cursor
                                /\ \A c \in Clients : pc'[c] = "callerSubmit" => pc[c] = "callerSubmit"
  PROVE  CountInv'
<1>1. CASE pc[Owner] = "reset"
  BY <1>1 DEF CountInv, ResetQuiet
<1>2. CASE pc[Owner] # "reset"
  BY <1>2 DEF CountInv, Balanced
<1>3. QED
  BY <1>1, <1>2

\* Thread h begins or ends the execution of a task.
LEMMA InFlightStep ==
  ASSUME Inv, NEW h \in Holders, NEW label, pc' = [pc EXCEPT ![h] = label]
  PROVE  /\ label \in {"run", "count"} => InFlight' = InFlight \cup {h}
         /\ label \notin {"run", "count"} => InFlight' = InFlight \ {h}
         /\ pc'[Owner] = pc[Owner]
         /\ \A c \in Clients \ {h} : pc'[c] = pc[c]
<1>1. /\ pc \in [Workers \cup Clients \cup {Owner} -> OwnerPc \cup ClientPc \cup WorkerPc]
      /\ Owner # h
  BY ThreadsAssumption DEF Inv, TypeOK, PcOK, Holders
<1>2. QED
  BY <1>1 DEF InFlight, Holders

\* Start and Stop: the counters are reset only behind a drained queue.
LEMMA CountOwner ==
  ASSUME Inv, CountInv, OwnerStep
  PROVE  CountInv'
<1>0. /\ pc \in [Workers \cup Clients \cup {Owner} -> OwnerPc \cup ClientPc \cup WorkerPc]
      /\ Owner \notin Workers \cup Clients /\ counters \in [CounterNames -> Nat]
      /\ WorkerCount \in Nat \ {0} /\ workers_ \in Nat
  BY ThreadsAssumption, ConfigAssumption DEF Inv, TypeOK, PcOK, TablesOK, ScalarsOK, Workers
<1>1. CASE StartPublish
  <2>1. /\ pc' = [pc EXCEPT ![Owner] = "reset"] /\ UNCHANGED <<tasks_, counters>> /\ cursor' = 1
        /\ quiet' = (quiet /\ ~ \E c \in Clients : pc[c] \in {"callerSubmit", "run", "count"})
        /\ ~running_ /\ pc[Owner] = "idle"
    BY <1>1 DEF StartPublish, Goto
  <2>2. InFlight' = InFlight
    BY <1>0, <2>1 DEF InFlight
  <2>3. tasks_ = <<>> /\ workers_ = 0
    BY <1>0, <2>1 DEF Inv, OwnerInv
  <2>4. \A w \in Workers : pc[w] = "absent"
    BY <2>3, ConfigAssumption DEF Inv, WorkerInv, Workers
  <2>5. ASSUME quiet' PROVE ResetQuiet'
    <3>1. \A c \in Clients : pc[c] \notin {"callerSubmit", "run", "count"}
      BY <2>1, <2>5
    <3>2. InFlight = {}
      BY <2>4, <3>1 DEF InFlight
    <3>3. \A c \in Clients : pc'[c] = pc[c]
      BY <1>0, <2>1
    <3>4. QED
      BY <2>1, <2>2, <2>3, <3>1, <3>2, <3>3 DEF ResetQuiet
  <2>6. QED
    BY <1>0, <2>1, <2>2, <2>5 DEF CountInv
<1>2. CASE StartReset
  <2>1. /\ pc[Owner] = "reset" /\ UNCHANGED <<tasks_, quiet>>
        /\ counters' = [counters EXCEPT ![ResetOrder[cursor]] = 0]
        /\ cursor \in 1 .. 4
    BY <1>2 DEF StartReset, Inv, OwnerInv
  <2>2. /\ \/ cursor = 4 /\ pc' = [pc EXCEPT ![Owner] = "spawn"] /\ cursor' = 1
           \/ cursor # 4 /\ pc' = pc /\ cursor' = cursor + 1
    BY <1>2 DEF StartReset, Goto, ResetOrder
  <2>3. InFlight' = InFlight /\ \A c \in Clients : pc'[c] = pc[c]
    BY <1>0, <2>2 DEF InFlight
  <2>4. /\ cursor = 1 => counters'["submitted"] = 0
        /\ cursor # 1 => counters'["submitted"] = counters["submitted"]
        /\ cursor = 2 => counters'["executed"] = 0
        /\ cursor # 2 => counters'["executed"] = counters["executed"]
    <3>1. ResetOrder[1] = "submitted" /\ ResetOrder[2] = "executed"
          /\ ResetOrder[3] = "rejected" /\ ResetOrder[4] = "exception"
      BY DEF ResetOrder
    <3>2. cursor = 1 \/ cursor = 2 \/ cursor = 3 \/ cursor = 4
      BY <2>1
    <3>3. QED
      BY <1>0, <2>1, <3>1, <3>2 DEF CounterNames
  <2>5. CASE cursor = 4
    <3>1. quiet => /\ tasks_' = <<>> /\ InFlight' = {}
                   /\ counters'["submitted"] = 0 /\ counters'["executed"] = 0
      BY <2>1, <2>3, <2>4, <2>5 DEF CountInv, ResetQuiet
    <3>2. pc'[Owner] # "reset"
      BY <1>0, <2>2, <2>5
    <3>3. QED
      BY <2>1, <2>3, <3>1, <3>2, FS_EmptySet DEF CountInv, Balanced
  <2>6. CASE cursor # 4
    <3>1. quiet => ResetQuiet'
      BY <2>1, <2>2, <2>3, <2>4, <2>6 DEF CountInv, ResetQuiet
    <3>2. QED
      BY <2>1, <2>2, <2>3, <2>6, <3>1 DEF CountInv
  <2>7. QED
    BY <2>5, <2>6
<1>3. CASE StartSpawn
  <2>1. /\ UNCHANGED <<tasks_, quiet, counters>> /\ pc[Owner] = "spawn" /\ cursor \in Workers
        /\ workers_ = cursor - 1
    BY <1>3 DEF StartSpawn, Inv, OwnerInv
  <2>2. pc[cursor] = "absent"
    BY <2>1, ConfigAssumption DEF Inv, WorkerInv, Workers
  <2>3. PICK label \in {"idle", "spawn", "abort"} :
          pc' = [pc EXCEPT ![cursor] = "lock", ![Owner] = label]
    BY <1>3 DEF StartSpawn
  <2>4. InFlight' = InFlight
    BY <1>0, <2>1, <2>2, <2>3 DEF InFlight
  <2>5. QED
    BY <1>0, <2>1, <2>3, <2>4, CountKept
<1>4. CASE StopFlag
  <2>1. /\ UNCHANGED <<tasks_, quiet, counters>> /\ pc[Owner] # "reset"
        /\ pc' = [pc EXCEPT ![Owner] = "notifyAll"]
    BY <1>4 DEF StopFlag, Goto
  <2>2. InFlight' = InFlight /\ pc'[Owner] # "reset"
    BY <1>0, <2>1 DEF InFlight
  <2>3. QED
    BY <2>1, <2>2, CountKept
<1>5. CASE StopNotifyAll
  <2>1. /\ UNCHANGED <<tasks_, quiet, counters>> /\ pc[Owner] # "reset" /\ pc'[Owner] # "reset"
    BY <1>0, <1>5 DEF StopNotifyAll
  <2>2. InFlight' = InFlight
    BY <1>0, <1>5 DEF StopNotifyAll, InFlight, Waiting
  <2>3. QED
    BY <2>1, <2>2, CountKept
<1>6. CASE StopJoin
  <2>1. /\ UNCHANGED <<tasks_, quiet, counters>> /\ pc[Owner] = "join" /\ pc'[Owner] # "reset"
    BY <1>0, <1>6 DEF StopJoin
  <2>2. InFlight' = InFlight
    <3>1. CASE cursor = workers_
      <4>1. \A w \in Workers : pc[w] \in {"exited", "absent"}
        BY <1>0, <1>6, <3>1 DEF StopJoin, Inv, OwnerInv, WorkerInv, Workers
      <4>2. QED
        BY <1>0, <1>6, <3>1, <4>1 DEF StopJoin, InFlight
    <3>2. CASE cursor # workers_
      BY <1>6, <3>2 DEF StopJoin, InFlight
    <3>3. QED
      BY <3>1, <3>2
  <2>3. QED
    BY <2>1, <2>2, CountKept
<1>7. CASE StopSwap
  <2>1. /\ UNCHANGED <<quiet, counters>> /\ pc[Owner] = "swap" /\ tasks_' = <<>>
        /\ pc' = [pc EXCEPT ![Owner] = "idle"]
    BY <1>7 DEF StopSwap, Goto
  <2>2. InFlight' = InFlight /\ pc'[Owner] # "reset"
    BY <1>0, <2>1 DEF InFlight
  <2>3. tasks_' = tasks_
    BY <2>1 DEF Inv, OwnerInv
  <2>4. QED
    BY <2>1, <2>2, <2>3, CountKept
<1>8. QED
  BY <1>1, <1>2, <1>3, <1>4, <1>5, <1>6, <1>7 DEF OwnerStep

\* A thread that only moves between places outside the execution of a task.
LEMMA CountIdle ==
  ASSUME Inv, CountInv, NEW h \in Holders, NEW label, pc' = [pc EXCEPT ![h] = label],
         label \notin {"run", "count", "callerSubmit"}, h \notin InFlight,
         UNCHANGED <<tasks_, quiet, counters, cursor>>
  PROVE  CountInv'
<1>0. InFlight \ {h} = InFlight
  OBVIOUS
<1>1. InFlight' = InFlight /\ pc'[Owner] = pc[Owner] /\ \A c \in Clients \ {h} : pc'[c] = pc[c]
  BY <1>0, InFlightStep
<1>2. \A c \in Clients : pc'[c] = "callerSubmit" => pc[c] = "callerSubmit"
  BY <1>1 DEF Inv, TypeOK, PcOK
<1>3. QED
  BY <1>1, <1>2, CountKept

\* The body of the task, and the count behind it.
LEMMA CountExecution ==
  ASSUME Inv, CountInv, NEW h \in Holders, ExecuteTask(h) \/ CountExecuted(h)
  PROVE  CountInv'
<1>0. h \in InFlight
  BY DEF ExecuteTask, CountExecuted, InFlight, Holders
<1>1. ~quiet \/ pc[Owner] # "reset"
  BY <1>0 DEF CountInv, ResetQuiet
<1>2. counters \in [CounterNames -> Nat]
  BY DEF Inv, TypeOK, TablesOK
<1>3. CASE ExecuteTask(h)
  <2>1. /\ UNCHANGED <<tasks_, quiet>> /\ pc' = [pc EXCEPT ![h] = "count"]
        /\ counters' = counters \/ counters' = [counters EXCEPT !["exception"] = @ + 1]
    BY <1>3 DEF ExecuteTask, Goto, Bump
  <2>2. InFlight' = InFlight /\ pc'[Owner] = pc[Owner]
    <3>1. InFlight \cup {h} = InFlight
      BY <1>0
    <3>2. QED
      BY <2>1, <3>1, InFlightStep
  <2>3. /\ counters'["submitted"] = counters["submitted"]
        /\ counters'["executed"] = counters["executed"]
    BY <1>2, <2>1 DEF CounterNames
  <2>4. QED
    BY <1>1, <2>1, <2>2, <2>3 DEF CountInv, Balanced
<1>4. CASE CountExecuted(h)
  <2>1. PICK label \in {"lock", "idle"} : pc' = [pc EXCEPT ![h] = label]
    BY <1>4 DEF CountExecuted, Goto
  <2>2. /\ UNCHANGED <<tasks_, quiet>> /\ counters' = [counters EXCEPT !["executed"] = @ + 1]
    BY <1>4 DEF CountExecuted, Bump
  <2>3. InFlight' = InFlight \ {h} /\ pc'[Owner] = pc[Owner]
    BY <2>1, InFlightStep
  <2>4. /\ IsFiniteSet(InFlight') /\ Cardinality(InFlight') = Cardinality(InFlight) - 1
    BY <1>0, <2>3, FS_RemoveElement DEF CountInv
  <2>5. /\ counters'["submitted"] = counters["submitted"]
        /\ counters'["executed"] = counters["executed"] + 1
    BY <1>2, <2>2 DEF CounterNames
  <2>6. Balanced => Balanced'
    BY <2>2, <2>4, <2>5, CountTypes DEF Balanced
  <2>7. QED
    BY <1>1, <2>2, <2>3, <2>4, <2>6 DEF CountInv
<1>5. QED
  BY <1>3, <1>4

\* Enqueue: a task is counted as submitted when it is queued, or when its
\* caller starts to run it.
LEMMA CountClient ==
  ASSUME Inv, CountInv, NEW c \in Clients, ClientStep(c)
  PROVE  CountInv'
<1>0. /\ c \in Holders /\ counters \in [CounterNames -> Nat]
      /\ pc \in [Workers \cup Clients \cup {Owner} -> OwnerPc \cup ClientPc \cup WorkerPc]
      /\ Owner \notin Workers \cup Clients /\ Workers \cap Clients = {}
      /\ tasks_ \in Seq(Tasks)
  BY ThreadsAssumption DEF Holders, Inv, TypeOK, PcOK, TablesOK
<1>1. ASSUME NEW t \in Tasks, EnqueueRefuse(c, t) PROVE CountInv'
  <2>1. /\ UNCHANGED <<tasks_, quiet, pc, cursor>>
        /\ counters' = counters \/ counters' = [counters EXCEPT !["rejected"] = @ + 1]
    BY <1>1 DEF EnqueueRefuse, Bump
  <2>2. /\ counters'["submitted"] = counters["submitted"]
        /\ counters'["executed"] = counters["executed"] /\ InFlight' = InFlight
    BY <1>0, <2>1 DEF CounterNames, InFlight
  <2>3. QED
    BY <2>1, <2>2, CountKept
<1>2. ASSUME NEW t \in Tasks, EnqueueAccept(c, t) PROVE CountInv'
  <2>1. /\ pc[c] = "idle" /\ quiet' = (quiet /\ pc[Owner] # "reset")
    BY <1>2 DEF EnqueueAccept
  <2>2. c \notin InFlight
    BY <2>1 DEF InFlight
  <2>3. PICK label \in {"notifyOne", "callerSubmit"} :
          /\ pc' = [pc EXCEPT ![c] = label]
          /\ label = "notifyOne" =>
               /\ tasks_' = Append(tasks_, t)
               /\ counters' = [counters EXCEPT !["submitted"] = @ + 1]
          /\ label = "callerSubmit" =>
               /\ tasks_' = tasks_
               /\ counters' = [counters EXCEPT !["rejected"] = @ + 1]
    BY <1>2 DEF EnqueueAccept, Goto, Bump
  <2>4. InFlight' = InFlight /\ pc'[Owner] = pc[Owner]
    <3>1. InFlight \ {c} = InFlight
      BY <2>2
    <3>2. QED
      BY <1>0, <2>3, <3>1, InFlightStep
  <2>5. Balanced => Balanced'
    <3>1. CASE label = "notifyOne"
      <4>1. /\ counters'["submitted"] = counters["submitted"] + 1
            /\ counters'["executed"] = counters["executed"]
            /\ Len(tasks_') = Len(tasks_) + 1
        BY <1>0, <2>3, <3>1 DEF CounterNames
      <4>2. QED
        BY <2>4, <4>1, CountTypes DEF Balanced
    <3>2. CASE label = "callerSubmit"
      <4>1. /\ counters'["submitted"] = counters["submitted"]
            /\ counters'["executed"] = counters["executed"] /\ tasks_' = tasks_
        BY <1>0, <2>3, <3>2 DEF CounterNames
      <4>2. QED
        BY <2>4, <4>1 DEF Balanced
    <3>3. QED
      BY <3>1, <3>2
  <2>6. QED
    BY <2>1, <2>4, <2>5 DEF CountInv
<1>3. CASE NotifyOne(c)
  <2>1. UNCHANGED <<tasks_, quiet, counters, cursor>> /\ pc[c] = "notifyOne"
    BY <1>3 DEF NotifyOne
  <2>2. CASE pc' = [pc EXCEPT ![c] = "idle"]
    BY <1>0, <2>1, <2>2, CountIdle DEF InFlight
  <2>3. ASSUME NEW w \in Waiting, pc' = [pc EXCEPT ![c] = "idle", ![w] = "lock"] PROVE CountInv'
    <3>1. InFlight' = InFlight /\ pc'[Owner] = pc[Owner]
      BY <1>0, <2>1, <2>3 DEF InFlight, Waiting
    <3>2. \A d \in Clients : pc'[d] = "callerSubmit" => pc[d] = "callerSubmit"
      BY <1>0, <2>1, <2>3 DEF Waiting
    <3>3. QED
      BY <2>1, <3>1, <3>2, CountKept
  <2>4. QED
    BY <1>3, <2>2, <2>3 DEF NotifyOne, Goto
<1>4. CASE CallerSubmit(c)
  <2>1. /\ UNCHANGED <<tasks_, quiet>> /\ pc[c] = "callerSubmit" /\ pc' = [pc EXCEPT ![c] = "run"]
        /\ counters' = [counters EXCEPT !["submitted"] = @ + 1]
    BY <1>4 DEF CallerSubmit, Goto, Bump
  <2>2. c \notin InFlight /\ InFlight' = InFlight \cup {c} /\ pc'[Owner] = pc[Owner]
    BY <1>0, <2>1, InFlightStep DEF InFlight
  <2>3. IsFiniteSet(InFlight') /\ Cardinality(InFlight') = Cardinality(InFlight) + 1
    BY <2>2, FS_AddElement DEF CountInv
  <2>4. /\ counters'["submitted"] = counters["submitted"] + 1
        /\ counters'["executed"] = counters["executed"]
    BY <1>0, <2>1 DEF CounterNames
  <2>5. Balanced => Balanced'
    BY <2>1, <2>3, <2>4, CountTypes DEF Balanced
  <2>6. ~quiet \/ pc[Owner] # "reset"
    BY <2>1 DEF CountInv, ResetQuiet
  <2>7. QED
    BY <2>1, <2>2, <2>3, <2>5, <2>6 DEF CountInv
<1>5. QED
  BY <1>0, <1>1, <1>2, <1>3, <1>4, CountExecution DEF ClientStep

\* WorkerLoop: a task leaves the queue for the hands of the worker.
LEMMA CountWorker ==
  ASSUME Inv, CountInv, NEW w \in Workers, WorkerStep(w) \/ WorkerSpurious(w)
  PROVE  CountInv'
<1>0. w \in Holders /\ tasks_ \in Seq(Tasks)
  BY DEF Holders, Inv, TypeOK, TablesOK
<1>1. CASE WorkerLock(w) \/ WorkerEvaluate(w) \/ WorkerPark(w) \/ WorkerSpurious(w)
  <2>1. /\ UNCHANGED <<tasks_, quiet, counters, cursor>>
        /\ pc[w] \in {"lock", "eval", "park", "wait"}
    BY <1>1 DEF WorkerLock, WorkerEvaluate, WorkerPark, WorkerSpurious
  <2>2. \E label \in {"eval", "take", "park", "wait", "lock"} : pc' = [pc EXCEPT ![w] = label]
    BY <1>1 DEF WorkerLock, WorkerEvaluate, WorkerPark, WorkerSpurious, Goto
  <2>3. QED
    BY <1>0, <2>1, <2>2, CountIdle DEF InFlight
<1>2. CASE WorkerTake(w)
  <2>1. UNCHANGED <<quiet, counters, cursor>> /\ pc[w] = "take"
    BY <1>2 DEF WorkerTake
  <2>2. w \notin InFlight
    BY <2>1 DEF InFlight
  <2>3. CASE WorkerMayExit
    <3>1. tasks_' = tasks_ /\ pc' = [pc EXCEPT ![w] = "exited"]
      BY <1>2, <2>3 DEF WorkerTake, Goto
    <3>2. QED
      BY <1>0, <2>1, <2>2, <3>1, CountIdle
  <2>4. CASE ~WorkerMayExit
    <3>1. tasks_ # <<>>
      BY <2>1, <2>4 DEF Inv, WorkerInv, WorkerMayExit
    <3>2. tasks_' = Tail(tasks_) /\ pc' = [pc EXCEPT ![w] = "run"]
      BY <1>2, <2>4 DEF WorkerTake, Goto, AfterPop
    <3>3. InFlight' = InFlight \cup {w} /\ pc'[Owner] = pc[Owner]
      BY <1>0, <3>2, InFlightStep
    <3>4. IsFiniteSet(InFlight') /\ Cardinality(InFlight') = Cardinality(InFlight) + 1
      BY <2>2, <3>3, FS_AddElement DEF CountInv
    <3>5. Len(tasks_') = Len(tasks_) - 1
      BY <1>0, <3>1, <3>2
    <3>6. Balanced => Balanced'
      BY <2>1, <3>4, <3>5, CountTypes DEF Balanced
    <3>7. ~quiet \/ pc[Owner] # "reset"
      BY <3>1 DEF CountInv, ResetQuiet
    <3>8. QED
      BY <2>1, <3>3, <3>4, <3>6, <3>7 DEF CountInv
  <2>5. QED
    BY <2>3, <2>4
<1>3. QED
  BY <1>0, <1>1, <1>2, CountExecution DEF WorkerStep

\* submitted_count = queued + running + executed, for every number of threads,
\* as long as no task was in flight while Start reset the counters.
THEOREM PoolCountersConserved == Spec => []CountersConserved
<1>1. Init => CountInv
  <2> SUFFICES ASSUME Init PROVE CountInv
    OBVIOUS
  <2>1. InFlight = {} /\ pc[Owner] = "idle"
    BY ThreadsAssumption DEF Init, InFlight
  <2>2. Len(tasks_) = 0 /\ counters["submitted"] = 0 /\ counters["executed"] = 0
    BY DEF Init, CounterNames
  <2>3. QED
    BY <2>1, <2>2, FS_EmptySet DEF CountInv, Balanced
<1>2. Inv /\ CountInv /\ [Next]_vars => CountInv'
  <2> SUFFICES ASSUME Inv, CountInv, [Next]_vars PROVE CountInv'
    OBVIOUS
  <2>1. CASE UNCHANGED vars
    BY <2>1, CountKept DEF vars, InFlight
  <2>2. QED
    BY <2>1, CountOwner, CountClient, CountWorker DEF Next
<1>3. CountInv => CountersConserved
  BY DEF CountInv, CountersConserved, Balanced
<1>4. QED
  BY <1>1, <1>2, <1>3, InvInit, InvNext, PTL DEF Spec
=============================================================================
