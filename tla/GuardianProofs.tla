--------------------------- MODULE GuardianProofs ---------------------------
(***************************************************************************)
(* Proofs about Guardian and the POSIX queue inside it, for every set of   *)
(* threads, operations and messages, every capacity and restart limit.     *)
(*                                                                         *)
(* The invariant relates three lives: a descriptor lives inside a run of   *)
(* the service, a call inside a descriptor (CallInv), and the queue of the *)
(* kernel from a Create to the next Unlink (LifeInv).                      *)
(***************************************************************************)
EXTENDS Guardian, DataProofs

Labels == {"idle", "getattr", "setattr", "syscall", "asleep", "restore"}

TypeInv ==
  /\ open \in BOOLEAN /\ exists \in BOOLEAN /\ nonblock \in BOOLEAN
  /\ pc \in [Threads -> Labels]
  /\ op \in [Threads -> Operations \cup {"none"}]
  /\ arg \in [Threads -> Msgs \cup {NoMsg}]
  /\ saved \in [Threads -> BOOLEAN]
  /\ answer \in [Threads -> {"none", "ok", "timeout", "wouldBlock"}]

\* A call in progress has an open descriptor, is one the thread makes and, if
\* it is a send, has its message until the kernel took it.
CallInv ==
  \A t \in Threads : pc[t] # "idle" =>
    /\ open /\ op[t] \in Calls[t]
    /\ op[t] \in Sends /\ pc[t] # "restore" => arg[t] \in Msgs

LifeInv ==
  /\ open => exists /\ service = "running"
  /\ ~exists => queue = <<>>
  /\ service \in {"closed", "zero"} => ~exists

GuardInv ==
  /\ restarts \in Nat
  /\ verdict = "ok" => ~exists /\ service = "none"
  /\ verdict = "waitFailed" => restarts = MaxRestarts + 1
  /\ verdict # "waitFailed" => restarts <= MaxRestarts

Inv == TypeInv /\ CallInv /\ LifeInv /\ GuardInv

\* Before the first fork there is no descriptor, no call and no queue.
LEMMA InvInit == GInit => Inv
<1> SUFFICES ASSUME GInit PROVE Inv
  OBVIOUS
<1>1. TypeInv
  BY DEF GInit, Init, TypeInv, Labels
<1>2. CallInv
  BY DEF GInit, Init, CallInv
<1>3. LifeInv /\ GuardInv
  BY GuardianAssumption DEF GInit, Init, LifeInv, GuardInv
<1>4. QED
  BY <1>1, <1>2, <1>3 DEF Inv

\* A system call of a thread keeps the descriptor and the thread's call.
LEMMA StepKeepsCalls ==
  ASSUME TypeInv, CallInv, NEW t \in Threads, Step(t)
  PROVE  /\ pc' \in [Threads -> Labels] /\ saved' \in [Threads -> BOOLEAN]
         /\ nonblock' \in BOOLEAN
         /\ arg' \in [Threads -> Msgs \cup {NoMsg}]
         /\ answer' \in [Threads -> {"none", "ok", "timeout", "wouldBlock"}]
         /\ op' = op /\ open' = open /\ open
         /\ CallInv'
<1>1. CASE GetAttr(t)
  BY <1>1 DEF GetAttr, Goto, TypeInv, CallInv, Labels
<1>2. CASE SetAttr(t)
  BY <1>2 DEF SetAttr, Goto, TypeInv, CallInv, Labels
<1>3. CASE Enter(t)
  BY <1>3 DEF Enter, Finish, Goto, TypeInv, CallInv, Labels
<1>4. CASE Wake(t)
  BY <1>4 DEF Wake, Finish, Goto, TypeInv, CallInv, Labels
<1>5. CASE Expire(t)
  BY <1>5 DEF Expire, Finish, Goto, TypeInv, CallInv, Labels
<1>6. CASE Restore(t)
  BY <1>6 DEF Restore, Goto, TypeInv, CallInv, Labels
<1>7. QED
  BY <1>1, <1>2, <1>3, <1>4, <1>5, <1>6 DEF Step

\* A new call, likewise.
LEMMA BeginKeepsCalls ==
  ASSUME TypeInv, CallInv, NEW t \in Threads, NEW o \in Calls[t],
         NEW m \in Msgs \cup {NoMsg}, Begin(t, o, m)
  PROVE  /\ pc' \in [Threads -> Labels]
         /\ op' \in [Threads -> Operations \cup {"none"}]
         /\ arg' \in [Threads -> Msgs \cup {NoMsg}]
         /\ open' = open /\ open
         /\ CallInv'
<1>1. o \in Operations
  BY QueueAssumption
<1>2. QED
  BY <1>1 DEF Begin, Goto, TypeInv, CallInv, Labels

\* What the calls of the threads do to the abstract transport: they put a
\* message, take the head, or do nothing to it.
LEMMA StepOnQueue ==
  ASSUME TypeInv, CallInv, NEW t \in Threads, Step(t)
  PROVE  \/ queue' = queue
         \/ /\ Len(queue) < MaxMessages
            /\ \E m \in Msgs : queue' = Insert(queue, m, MsgPriority)
         \/ queue # <<>> /\ queue' = Tail(queue)
<1>1. CASE Enter(t)
  BY <1>1 DEF Enter, Transfer, Ready, CallInv
<1>2. CASE Wake(t)
  BY <1>2 DEF Wake, Transfer, Ready, CallInv
<1>3. CASE GetAttr(t) \/ SetAttr(t) \/ Expire(t) \/ Restore(t)
  BY <1>3 DEF GetAttr, SetAttr, Expire, Restore
<1>4. QED
  BY <1>1, <1>2, <1>3 DEF Step

\* A step of the service, one case for each thing it may be.
LEMMA WorkInv ==
  ASSUME Inv, Work
  PROVE  Inv' /\ [Abstract!Next]_<<exists, queue>>
<1> USE DEF Inv
<1>1. CASE Create
  <2>1. open' = TRUE /\ exists' = TRUE /\ service' = service /\ queue' = queue
    BY <1>1 DEF Create, Work, TypeInv
  <2>2. TypeInv' /\ CallInv'
    BY <1>1, <2>1 DEF Create, TypeInv, CallInv
  <2>3. LifeInv' /\ GuardInv'
    BY <1>1, <2>1 DEF Work, LifeInv, GuardInv
  <2>4. [Abstract!Next]_<<exists, queue>>
    BY <2>1 DEF Abstract!Next, Abstract!Create, TypeInv
  <2>5. QED
    BY <2>2, <2>3, <2>4
<1>2. CASE Close
  <2>1. open /\ open' = FALSE /\ exists' = FALSE /\ service' = "closed" /\ queue' = <<>>
    BY <1>2 DEF Close, Work
  <2>2. TypeInv' /\ CallInv'
    BY <1>2, <2>1 DEF Close, TypeInv, CallInv
  <2>3. LifeInv' /\ GuardInv'
    BY <1>2, <2>1 DEF Work, LifeInv, GuardInv
  <2>4. [Abstract!Next]_<<exists, queue>>
    BY <2>1 DEF Abstract!Next, Abstract!Close, LifeInv
  <2>5. QED
    BY <2>2, <2>3, <2>4
<1>3. ASSUME NEW t \in Threads, NEW o \in Calls[t], NEW m \in Msgs \cup {NoMsg},
             Begin(t, o, m)
      PROVE  Inv' /\ [Abstract!Next]_<<exists, queue>>
  <2>1. open /\ open' = open /\ exists' = exists /\ service' = service /\ queue' = queue
    BY <1>3 DEF Begin, Work, TypeInv, LifeInv
  <2>2. TypeInv' /\ CallInv'
    BY <1>3, <2>1, BeginKeepsCalls DEF Begin, TypeInv
  <2>3. LifeInv' /\ GuardInv'
    BY <2>1 DEF Work, LifeInv, GuardInv
  <2>4. QED
    BY <2>1, <2>2, <2>3
<1>4. ASSUME NEW t \in Threads, Step(t)
      PROVE  Inv' /\ [Abstract!Next]_<<exists, queue>>
  <2>1. open /\ open' = open /\ op' = op
    BY <1>4, StepKeepsCalls
  <2>2. exists /\ exists' = exists /\ service' = service
    BY <2>1 DEF Work, TypeInv, LifeInv
  <2>3. TypeInv' /\ CallInv'
    BY <1>4, <2>1, <2>2, StepKeepsCalls DEF TypeInv
  <2>4. LifeInv' /\ GuardInv'
    BY <2>1, <2>2 DEF Work, LifeInv, GuardInv
  <2>5. [Abstract!Next]_<<exists, queue>>
    <3>1. CASE queue' = queue
      BY <2>2, <3>1
    <3>2. ASSUME NEW m \in Msgs, Len(queue) < MaxMessages,
                 queue' = Insert(queue, m, MsgPriority)
          PROVE  Abstract!Next
      <4>1. queue' = Abstract!Insert(queue, m, MsgPriority)
        BY <3>2 DEF Insert, Abstract!Insert, InsertBehind, Abstract!InsertBehind,
                    Cardinality, Abstract!Cardinality
      <4>2. QED
        BY <2>2, <3>2, <4>1 DEF Abstract!Next, Abstract!Put
    <3>3. CASE queue # <<>> /\ queue' = Tail(queue)
      BY <2>2, <3>3 DEF Abstract!Next, Abstract!TakeHead
    <3>4. QED
      BY <1>4, <3>1, <3>2, <3>3, StepOnQueue
  <2>6. QED
    BY <2>3, <2>4, <2>5
<1>5. QED
  BY <1>1, <1>2, <1>3, <1>4 DEF Work, Next

\* The steps of the guardian, and a crash, are invisible to the transport.
LEMMA OtherInv ==
  ASSUME Inv, Return \/ Crash \/ Fork \/ Wait \/ WaitFails \/ UNCHANGED allVars
  PROVE  Inv' /\ UNCHANGED <<exists, queue>>
<1> USE DEF Inv
<1>1. CASE Return
  BY <1>1 DEF Return, vars, TypeInv, CallInv, LifeInv, GuardInv
<1>2. CASE Crash
  BY <1>2 DEF Crash, TypeInv, CallInv, LifeInv, GuardInv, Labels
<1>3. CASE Fork
  BY <1>3 DEF Fork, vars, TypeInv, CallInv, LifeInv, GuardInv
<1>4. CASE Wait
  BY <1>4, GuardianAssumption DEF Wait, vars, TypeInv, CallInv, LifeInv, GuardInv
<1>5. CASE WaitFails
  BY <1>5 DEF WaitFails, vars, TypeInv, CallInv, LifeInv, GuardInv
<1>6. CASE UNCHANGED allVars
  BY <1>6 DEF allVars, guardian, vars, TypeInv, CallInv, LifeInv, GuardInv
<1>7. QED
  BY <1>1, <1>2, <1>3, <1>4, <1>5, <1>6

\* Every step preserves the invariant and is a step of the abstract transport.
LEMMA InvNext ==
  Inv /\ [GNext]_allVars => Inv' /\ [Abstract!Next]_<<exists, queue>>
BY WorkInv, OtherInv DEF GNext

\* kOk of RunWithRestart means that the last run removed its queue, and
\* kWaitFailed that all restarts were used, for every service that crashes
\* wherever it likes.
THEOREM GuardianOkLeavesNothing == GSpec => []OkLeavesNothing
<1>1. Inv => OkLeavesNothing
  BY GuardianAssumption DEF Inv, LifeInv, GuardInv, OkLeavesNothing
<1>2. QED
  BY <1>1, InvInit, InvNext, PTL DEF GSpec

\* The system calls of any number of threads, with crashes and restarts
\* between any two of them, implement the abstract transport.
THEOREM GuardianImplementsTransport == GSpec => ImplementsTransport
<1>1. GInit => Abstract!Init
  BY DEF GInit, Init, Abstract!Init
<1>2. QED
  BY <1>1, InvInit, InvNext, PTL DEF GSpec, ImplementsTransport, Abstract!Spec

-----------------------------------------------------------------------------
(* The non-blocking mode, when one thread at most makes non-blocking calls.*)

SoleUser ==
  \A t, u \in Threads :
    Calls[t] \cap NonBlocking # {} /\ Calls[u] \cap NonBlocking # {} => t = u

Switched(t) == op[t] \in NonBlocking /\ pc[t] \in {"syscall", "restore"}

\* The flag is on exactly while some thread has switched it on; what that
\* thread will restore is off; and it does not sleep.
FlagInv ==
  /\ nonblock <=> \E t \in Threads : Switched(t)
  /\ \A t \in Threads :
       /\ op[t] \in NonBlocking /\ pc[t] \in {"setattr", "syscall", "restore"}
            => ~saved[t]
       /\ op[t] \in NonBlocking => pc[t] # "asleep"
       /\ pc[t] \in {"getattr", "setattr", "restore"} => op[t] \in NonBlocking

\* A thread in a non-blocking call is the only one.
LEMMA OnlyOne ==
  ASSUME SoleUser, CallInv, NEW t \in Threads, NEW u \in Threads,
         pc[t] # "idle", op[t] \in NonBlocking, pc[u] # "idle", op[u] \in NonBlocking
  PROVE  t = u
BY DEF SoleUser, CallInv

\* The system calls of the threads keep the flag what it should be.
LEMMA StepFlag ==
  ASSUME SoleUser, Inv, FlagInv, NEW t \in Threads, Step(t)
  PROVE  FlagInv'
<1> USE DEF Inv
<1>1. CASE GetAttr(t)
  <2>1. ~nonblock
    BY <1>1, OnlyOne DEF GetAttr, FlagInv, Switched
  <2>2. QED
    BY <1>1, <2>1 DEF GetAttr, Goto, TypeInv, FlagInv, Switched
<1>2. CASE SetAttr(t)
  BY <1>2 DEF SetAttr, Goto, TypeInv, FlagInv, Switched
<1>3. CASE Enter(t)
  BY <1>3 DEF Enter, Finish, Goto, TypeInv, FlagInv, Switched
<1>4. CASE Wake(t)
  BY <1>4 DEF Wake, Finish, Goto, TypeInv, FlagInv, Switched
<1>5. CASE Expire(t)
  BY <1>5 DEF Expire, Finish, Goto, TypeInv, FlagInv, Switched
<1>6. CASE Restore(t)
  <2>1. \A u \in Threads : Switched(u) => u = t
    BY <1>6, OnlyOne DEF Restore, FlagInv, Switched
  <2>2. QED
    BY <1>6, <2>1 DEF Restore, Goto, TypeInv, FlagInv, Switched
<1>7. QED
  BY <1>1, <1>2, <1>3, <1>4, <1>5, <1>6 DEF Step

\* And so does everything else that happens, a crash included.
LEMMA FlagNext ==
  ASSUME SoleUser, Inv, FlagInv, [GNext]_allVars
  PROVE  FlagInv'
<1> USE DEF Inv
<1>1. CASE Work
  <2>1. CASE Create
    BY <2>1 DEF Create, CallInv, FlagInv, Switched
  <2>2. CASE Close
    BY <2>2 DEF Close, FlagInv, Switched
  <2>3. ASSUME NEW t \in Threads, NEW o \in Calls[t],
               NEW m \in Msgs \cup {NoMsg}, Begin(t, o, m)
        PROVE  FlagInv'
    BY <2>3 DEF Begin, Goto, TypeInv, FlagInv, Switched
  <2>4. QED
    BY <1>1, <2>1, <2>2, <2>3, StepFlag DEF Work, Next
<1>2. CASE Crash
  BY <1>2 DEF Crash, FlagInv, Switched
<1>3. CASE Return \/ Fork \/ Wait \/ WaitFails \/ UNCHANGED allVars
  BY <1>3 DEF Return, Fork, Wait, WaitFails, allVars, vars, FlagInv, Switched
<1>4. QED
  BY <1>1, <1>2, <1>3 DEF GNext

\* The mode of the descriptor is that of the sole user's call, in every state.
LEMMA SoleUserInv == ASSUME SoleUser PROVE GSpec => [](Inv /\ FlagInv)
<1>1. GInit => FlagInv
  BY DEF GInit, Init, FlagInv, Switched, NonBlocking
<1>2. Inv /\ FlagInv /\ [GNext]_allVars => FlagInv'
  BY FlagNext
<1>3. QED
  BY <1>1, <1>2, InvInit, InvNext, PTL DEF GSpec

\* As long as at most one thread makes non-blocking calls (one publisher under
\* kDropOldest), such a call never sleeps in the kernel without a deadline,
\* however many other threads send and receive on the descriptor.  The race
\* that two such threads have needs both of them.
THEOREM SoleUserNeverSleeps ==
  ASSUME SoleUser PROVE GSpec => []NonBlockingNeverSleeps
<1>1. Inv /\ FlagInv => NonBlockingNeverSleeps
  BY DEF FlagInv, Switched, NonBlockingNeverSleeps, InNonBlockingCall
<1>2. QED
  BY <1>1, SoleUserInv, PTL

\* As long as at most one thread makes non-blocking calls, the descriptor
\* blocks again whenever no such call is in progress: RestoreQueueFlags is
\* reached on every path of SendNonBlocking and ReceiveNonBlocking.
THEOREM SoleUserRestoresFlag ==
  ASSUME SoleUser PROVE GSpec => []FlagRestored
<1>1. Inv /\ FlagInv => FlagRestored
  BY DEF FlagInv, Switched, FlagRestored, InNonBlockingCall
<1>2. QED
  BY <1>1, SoleUserInv, PTL

-----------------------------------------------------------------------------
(* The order of the queue.                                                 *)

\* A message waiting to be sent is new: it has no stamp yet and no other call
\* carries it.  So the message a call inserts is younger than all queued ones.
OrderInv ==
  /\ queue \in Seq(Msgs) /\ clock \in Nat /\ stamp \in [Msgs -> Nat]
  /\ \A i \in DOMAIN queue : stamp[queue[i]] \in 1 .. clock
  /\ \A t \in Threads : arg[t] \in Msgs =>
       /\ stamp[arg[t]] = 0
       /\ \A u \in Threads \ {t} : arg[u] # arg[t]
  /\ QueueOrdered

\* A call that is served: the kernel inserts the message or takes the head.
LEMMA TransferKeepsOrder ==
  ASSUME Inv, OrderInv, NEW t \in Threads, pc[t] \in {"syscall", "asleep"},
         Ready(t), Transfer(t), arg' = [arg EXCEPT ![t] = NoMsg]
  PROVE  OrderInv'
<1> USE QueueAssumption
<1>0. /\ queue \in Seq(Msgs) /\ clock \in Nat /\ stamp \in [Msgs -> Nat]
      /\ MsgPriority \in [Msgs -> Nat]
      /\ arg \in [Threads -> Msgs \cup {NoMsg}]
      /\ \A i \in DOMAIN queue : queue[i] \in Msgs /\ stamp[queue[i]] \in 1 .. clock
  BY DEF OrderInv, Inv, TypeInv
<1>1. CASE op[t] \in Sends
  <2> DEFINE m == arg[t]
  <2>1. /\ m \in Msgs /\ stamp[m] = 0
        /\ queue' = Insert(queue, m, MsgPriority)
        /\ clock' = clock + 1 /\ stamp' = [stamp EXCEPT ![m] = clock + 1]
    BY <1>1 DEF Transfer, Inv, CallInv, OrderInv
  <2> HIDE DEF m
  <2>2. stamp' \in [Msgs -> Nat] /\ clock' \in Nat /\ stamp'[m] = clock + 1
    BY <1>0, <2>1
  <2>3. \A i \in DOMAIN queue : queue[i] # m /\ stamp'[queue[i]] = stamp[queue[i]]
    BY <1>0, <2>1
  <2>4. QueueOrdered'
    <3>1. \A i, j \in DOMAIN queue :
            i < j => Before(queue[i], queue[j], MsgPriority, stamp)
      BY DEF OrderInv, QueueOrdered, Before
    <3>2. \A i \in DOMAIN queue : stamp'[queue[i]] = stamp[queue[i]]
                                 /\ stamp[queue[i]] < stamp'[m]
      BY <1>0, <2>2, <2>3
    <3>3. \A i, j \in DOMAIN queue' :
            i < j => Before(queue'[i], queue'[j], MsgPriority, stamp')
      BY <1>0, <2>1, <2>2, <3>1, <3>2, InsertOrdered
    <3>4. QED
      BY <3>3 DEF QueueOrdered, Before
  <2>6. /\ queue' \in Seq(Msgs)
        /\ \A i \in DOMAIN queue' :
             queue'[i] = m \/ \E k \in DOMAIN queue : queue'[i] = queue[k]
    BY <1>0, <2>1, InsertProperties
  <2>7. ASSUME NEW i \in DOMAIN queue'
        PROVE  stamp'[queue'[i]] \in 1 .. clock'
    <3>1. CASE queue'[i] = m
      BY <1>0, <2>1, <2>2, <3>1
    <3>2. ASSUME NEW k \in DOMAIN queue, queue'[i] = queue[k]
          PROVE  stamp'[queue'[i]] \in 1 .. clock'
      BY <1>0, <2>1, <2>3, <3>2
    <3>3. QED
      BY <2>6, <3>1, <3>2
  <2>8. ASSUME NEW u \in Threads, arg'[u] \in Msgs
        PROVE  /\ stamp'[arg'[u]] = 0
               /\ \A v \in Threads \ {u} : arg'[v] # arg'[u]
    <3>1. u # t /\ arg'[u] = arg[u] /\ arg[u] # m
      BY <1>0, <2>1, <2>8 DEF OrderInv, m
    <3>2. QED
      BY <1>0, <2>1, <2>8, <3>1 DEF OrderInv
  <2>9. QED
    BY <2>2, <2>4, <2>6, <2>7, <2>8 DEF OrderInv
<1>2. CASE op[t] \notin Sends
  <2>1. queue # <<>> /\ queue' = Tail(queue) /\ stamp' = stamp /\ clock' = clock
    BY <1>2 DEF Transfer, Ready
  <2>2. queue' \in Seq(Msgs)
    BY <1>0, <2>1, TailProperties
  <2>3. \A i \in DOMAIN queue' : /\ i \in Nat /\ i + 1 \in DOMAIN queue
                                /\ queue'[i] = queue[i + 1]
    BY <1>0, <2>1, TailProperties
  <2>4. QueueOrdered'
    <3>1. SUFFICES ASSUME NEW i \in DOMAIN queue', NEW j \in DOMAIN queue', i < j
                   PROVE  Before(queue'[i], queue'[j], MsgPriority, stamp)
      BY <2>1 DEF QueueOrdered, Before
    <3>2. i + 1 < j + 1
      BY <2>3, <3>1
    <3>3. \A k, l \in DOMAIN queue :
            k < l => Before(queue[k], queue[l], MsgPriority, stamp)
      BY DEF OrderInv, QueueOrdered, Before
    <3>4. Before(queue[i + 1], queue[j + 1], MsgPriority, stamp)
      BY <2>3, <3>2, <3>3
    <3>5. QED
      BY <2>3, <3>4
  <2>5. \A i \in DOMAIN queue' : stamp'[queue'[i]] \in 1 .. clock'
    BY <1>0, <2>1, <2>3
  <2>6. QED
    BY <1>0, <2>1, <2>2, <2>4, <2>5 DEF OrderInv
<1>3. QED
  BY <1>1, <1>2

\* Every step keeps the order.
LEMMA OrderNext ==
  ASSUME Inv, OrderInv, [GNext]_allVars
  PROVE  OrderInv'
<1> USE QueueAssumption
<1>1. ASSUME NEW t \in Threads, Enter(t) \/ Wake(t), Ready(t), Transfer(t), Finish(t, "ok")
      PROVE  OrderInv'
  BY <1>1, TransferKeepsOrder DEF Enter, Wake, Finish
<1>2. ASSUME NEW t \in Threads, UNCHANGED <<queue, stamp, clock>>,
             arg' = arg \/ arg' = [arg EXCEPT ![t] = NoMsg]
      PROVE  OrderInv'
  <2>1. \A u \in Threads : arg'[u] \in Msgs => arg'[u] = arg[u]
    BY <1>2 DEF Inv, TypeInv
  <2>2. ASSUME NEW u \in Threads, arg'[u] \in Msgs
        PROVE  /\ stamp'[arg'[u]] = 0
               /\ \A v \in Threads \ {u} : arg'[v] # arg'[u]
    BY <1>2, <2>1, <2>2 DEF OrderInv
  <2>3. QED
    BY <1>2, <2>2 DEF OrderInv, QueueOrdered
<1>3. ASSUME NEW t \in Threads, Step(t)
      PROVE  OrderInv'
  <2>1. CASE GetAttr(t) \/ SetAttr(t) \/ Expire(t) \/ Restore(t)
    BY <1>2, <2>1 DEF GetAttr, SetAttr, Expire, Restore, Finish
  <2>2. CASE Enter(t)
    BY <1>1, <1>2, <2>2 DEF Enter, Finish
  <2>3. CASE Wake(t)
    BY <1>1, <2>3 DEF Wake
  <2>4. QED
    BY <1>3, <2>1, <2>2, <2>3 DEF Step
<1>4. ASSUME NEW t \in Threads, NEW o \in Calls[t], NEW m \in Msgs \cup {NoMsg},
             Begin(t, o, m)
      PROVE  OrderInv'
  BY <1>4 DEF Begin, Inv, TypeInv, OrderInv, QueueOrdered
<1>5. CASE Work
  <2>1. CASE Create
    BY <2>1 DEF Create, OrderInv, QueueOrdered
  <2>2. CASE Close
    BY <2>2 DEF Close, OrderInv, QueueOrdered
  <2>3. QED
    BY <1>3, <1>4, <1>5, <2>1, <2>2 DEF Work, Next
<1>6. CASE Crash
  BY <1>6 DEF Crash, OrderInv, QueueOrdered
<1>7. CASE Return \/ Fork \/ Wait \/ WaitFails \/ UNCHANGED allVars
  <2>1. UNCHANGED <<queue, clock, stamp, arg>>
    BY <1>7 DEF Return, Fork, Wait, WaitFails, allVars, vars
  <2>2. QED
    BY <2>1 DEF OrderInv, QueueOrdered
<1>8. QED
  BY <1>5, <1>6, <1>7 DEF GNext

\* Receivers get the most urgent message first and equally urgent ones in the
\* order of sending, for every number of threads, messages and priorities, with
\* calls that sleep, expire or discard and with crashes and restarts.
THEOREM GuardianQueueOrdered == GSpec => []QueueOrdered
<1>1. GInit => OrderInv
  BY QueueAssumption DEF GInit, Init, OrderInv, QueueOrdered
<1>2. Inv /\ OrderInv /\ [GNext]_allVars => OrderInv'
  BY OrderNext
<1>3. OrderInv => QueueOrdered
  BY DEF OrderInv
<1>4. QED
  BY <1>1, <1>2, <1>3, InvInit, InvNext, PTL DEF GSpec
=============================================================================
