------------------------------- MODULE Bridge -------------------------------
(***************************************************************************)
(* InterconnectBridge (interconnect/interconnect_bridge.cpp): two message  *)
(* links between a vehicle and a robot inside one process.                 *)
(*                                                                         *)
(* Publisher threads call PublishFromVehicle and PublishFromRobot, which   *)
(* write to the link "v2r" and "r2v".  Two inbound loops, run as two tasks *)
(* of the bridge's thread pool, read one link each and route what they     *)
(* read: the loop of "v2r" to robot_router_, the loop of "r2v" to          *)
(* vehicle_router_.  One owner thread calls Start and Stop.                *)
(*                                                                         *)
(* A step is what one thread does between two accesses to state another    *)
(* thread can change: an atomic flag or counter, idempotency_mutex_, a     *)
(* transport.  Left out: the gauges and the per-topic metrics, which       *)
(* decide nothing, and the circuit state of TransportOrchestrator, which   *)
(* ResolveFailover consults without its answer depending on it.            *)
(* Encoding cannot fail here: the mode is one of the four the switch of    *)
(* EncodeByProtocol knows and the output string exists.                    *)
(***************************************************************************)
EXTENDS PriorityOrder

Links == {"v2r", "r2v"}

CONSTANTS
  Publishers,      \* threads that call Publish
  Calls,           \* the envelopes each thread may publish
  Msgs,            \* one envelope per call of Publish
  NoMsg,
  MsgLink,         \* the link of the Publish function the caller picks
  MsgKey,          \* deduplication key, or NoKey when the topic is not listed
  NoKey,
  MsgLevel,        \* the larger of the envelope's channel and QoS
  Threshold,       \* high_priority_threshold of each link
  Invalid,         \* envelopes the validity check or the authenticator refuses
  Oversize,        \* messages longer than message_size
  Verdicts,        \* how the receiving side may treat each message
  EnableCanary,    \* enable_config_canary with a gate that may close
  IdempotencyWindow,
  FlowLimit,       \* flow_limit_inflight of both links, 0 = unlimited
  Modulus,         \* 2^32 of the uint32 inflight counters, scaled down
  MaxMessages,     \* capacity of a link's queue
  Overflow,        \* "dropNew", "dropOldest" or "none", from the two policies
  MaxRetries,      \* retry_budget.max_retries
  FullCodes,       \* what a send into a full queue may answer
  FailoverEnabled, \* additional_endpoints is not empty
  PoolWorkers,     \* thread_pool.worker_count
  PoolCapacity,    \* thread_pool.queue_capacity (kRejectNewTask)
  MaxSessions,     \* bound: how often Start begins
  MaxFaults        \* bound: failures of Create, of the pool and of receive

\* How ProcessInbound may end for one message; each has its counter.
VerdictNames == {"delivered", "decodeFail", "invalidEnvelope", "expired",
                 "routeMiss", "handlerError"}

ASSUME MessagesAssumption ==
  /\ Calls \in [Publishers -> SUBSET Msgs]
  /\ MsgLink \in [Msgs -> Links]
  /\ MsgLevel \in [Msgs -> Nat]
  /\ Threshold \in [Links -> Nat]
  /\ Verdicts \in [Msgs -> SUBSET VerdictNames]
  /\ \A m \in Msgs : Verdicts[m] # {}
  /\ DOMAIN MsgKey = Msgs
  /\ Invalid \subseteq Msgs /\ Oversize \subseteq Msgs
  /\ NoMsg \notin Msgs

ASSUME LimitsAssumption ==
  /\ FlowLimit \in Nat /\ IsFiniteSet(Publishers)
  /\ Modulus \in Nat /\ FlowLimit + Cardinality(Publishers) < Modulus
  /\ IdempotencyWindow \in Nat
  /\ MaxMessages \in Nat \ {0}
  /\ MaxRetries \in Nat
  /\ PoolWorkers \in Nat \ {0}
  /\ PoolCapacity \in Nat \ {0}
  /\ MaxSessions \in Nat /\ MaxFaults \in Nat

ASSUME PolicyAssumption ==
  /\ Overflow \in {"none", "dropNew", "dropOldest"}
  /\ FullCodes \subseteq {"timeout", "wouldBlock"} /\ FullCodes # {}
  /\ EnableCanary \in BOOLEAN /\ FailoverEnabled \in BOOLEAN

VARIABLES
  running_,    \* std::atomic<bool> running_
  owner,       \* where the owner's call of Start or Stop is
  open,        \* whether each transport's queue descriptor is open
  queue,       \* the messages in each transport, in the order of receipt
  exposed,     \* publishers in DiscardOldest that its receive may put to sleep
  inflight,    \* inflight_vehicle_ and inflight_robot_
  recentKeys,  \* idempotency_recent_keys_ of the listed topic
  poolQueue,   \* inbound loops that wait for a worker of the pool
  loop,        \* where each inbound loop is
  got,         \* the message each inbound loop has read
  pc,          \* where each publisher is
  cur,         \* its message
  target,      \* the transport it sends to
  code,        \* its send_ec
  attempt,     \* its attempt in RetryOnWouldBlock
  count,       \* the bridge's counters
  outcome,     \* history: what Publish answered
  sent,        \* history: how often the message entered a transport
  end,         \* history: what became of it there
  router,      \* history: the router that received it
  passed,      \* history: the messages IsDuplicateWithinWindow let pass
  straddled,   \* history: Start reset inflight while a slot was held
  sessions, faults

pubVars  == <<pc, cur, target, code, attempt>>
loopVars == <<poolQueue, loop, got>>
linkVars == <<open, queue, exposed>>
histVars == <<outcome, sent, end, router, passed, straddled>>
boundVars == <<sessions, faults>>
vars == <<running_, owner, linkVars, inflight, recentKeys, loopVars, pubVars,
          count, histVars, boundVars>>

CounterNames == {"tx", "txFail", "invalidEnvelope", "idempotencyDrop",
                 "backpressureDrop", "failoverHit", "transportError", "rx",
                 "decodeFail", "expired", "routeMiss", "handlerError"}

OwnerPc == {"idle", "createV2r", "createR2v", "startPool", "setRunning",
            "enqueueV2r", "enqueueR2v", "abort", "stopPool", "closeV2r",
            "closeR2v"}
PublisherPc == {"idle", "dedup", "acquire", "undo", "send", "discard", "asleep",
                "restore", "resend", "retry", "release", "account"}
LoopPc == {"absent", "queued", "test", "receive", "handle", "exited"}

Init ==
  /\ running_ = FALSE
  /\ owner = "idle"
  /\ open = [l \in Links |-> FALSE]
  /\ queue = [l \in Links |-> <<>>]
  /\ exposed = {}
  /\ inflight = [l \in Links |-> 0]
  /\ recentKeys = <<>>
  /\ poolQueue = <<>>
  /\ loop = [l \in Links |-> "absent"]
  /\ got = [l \in Links |-> NoMsg]
  /\ pc = [p \in Publishers |-> "idle"]
  /\ cur = [p \in Publishers |-> NoMsg]
  /\ target = [p \in Publishers |-> "v2r"]
  /\ code = [p \in Publishers |-> "ok"]
  /\ attempt = [p \in Publishers |-> 0]
  /\ count = [c \in CounterNames |-> 0]
  /\ outcome = [m \in Msgs |-> "new"]
  /\ sent = [m \in Msgs |-> 0]
  /\ end = [m \in Msgs |-> "none"]
  /\ router = [m \in Msgs |-> "none"]
  /\ passed = <<>>
  /\ straddled = FALSE
  /\ sessions = 0
  /\ faults = 0

-----------------------------------------------------------------------------
(* Transports.  A transport is a POSIX message queue: bounded, ordered by  *)
(* priority and then by arrival.  Each call is one step here, DiscardOldest *)
(* excepted; module PosixQueue looks inside all of them.                   *)

Other(l) == IF l = "v2r" THEN "r2v" ELSE "v2r"

\* Only the link the message was published to decides, also after failover.
MsgPriority ==
  [m \in Msgs |-> IF MsgLevel[m] >= Threshold[MsgLink[m]] THEN 1 ELSE 0]

Contents(l) == {queue[l][i] : i \in DOMAIN queue[l]}

\* Close and Unlink: what the queue still holds is lost, and mq_close does not
\* wake who sleeps in a receive: nothing will come for it any more.
Release(S) ==
  /\ open' = [l \in Links |-> open[l] /\ l \notin S]
  /\ queue' = [l \in Links |-> IF l \in S THEN <<>> ELSE queue[l]]
  /\ exposed' = {p \in exposed : target[p] \notin S}
  /\ end' = [m \in Msgs |-> IF \E l \in S : m \in Contents(l) THEN "destroyed"
                                                              ELSE end[m]]

Bump(S) == count' = [c \in CounterNames |->
                       IF c \in S THEN count[c] + 1 ELSE count[c]]

-----------------------------------------------------------------------------
(* Publishers: Publish, with PublishWithBackpressure inside.               *)

Goto(p, label) == pc' = [pc EXCEPT ![p] = label]

\* The call returns: the counters S are incremented and the caller learns o.
Return(p, o, S) ==
  /\ Goto(p, "idle")
  /\ cur' = [cur EXCEPT ![p] = NoMsg]
  /\ outcome' = [outcome EXCEPT ![cur[p]] = o]
  /\ Bump(S)

\* Bridge stopped, invalid envelope, authenticator, or canary gate closed.
PublishRefuse(p, m) ==
  /\ pc[p] = "idle" /\ outcome[m] = "new"
  /\ \/ ~running_ /\ Bump({"txFail"})
     \/ running_ /\ m \in Invalid /\ Bump({"txFail", "invalidEnvelope"})
     \/ running_ /\ m \notin Invalid /\ EnableCanary /\ Bump({"txFail"})
  /\ outcome' = [outcome EXCEPT ![m] = "refused"]
  /\ UNCHANGED <<running_, owner, linkVars, inflight, recentKeys, loopVars,
                 pubVars, sent, end, router, passed, straddled, boundVars>>

PublishBegin(p, m) ==
  /\ pc[p] = "idle" /\ outcome[m] = "new"
  /\ running_ /\ m \notin Invalid
  /\ cur' = [cur EXCEPT ![p] = m]
  /\ target' = [target EXCEPT ![p] = MsgLink[m]]
  /\ outcome' = [outcome EXCEPT ![m] = "inProgress"]
  /\ Goto(p, "dedup")
  /\ UNCHANGED <<running_, owner, linkVars, inflight, recentKeys, loopVars,
                 code, attempt, count, sent, end, router, passed, straddled,
                 boundVars>>

WindowSize == IF IdempotencyWindow = 0 THEN 1 ELSE IdempotencyWindow

NeverTrimmed(keys) == keys
TrimmedTooFar(keys) ==
  IF Len(keys) >= WindowSize THEN Tail(keys) ELSE keys
\* while (bucket.size() > limit) bucket.pop_front(): one key came in.
Trimmed(keys) ==
  IF Len(keys) > WindowSize THEN Tail(keys) ELSE keys

\* ShouldApplyIdempotency and IsDuplicateWithinWindow, under
\* idempotency_mutex_: the key is recorded before anything is sent.
Dedup(p) ==
  LET m == cur[p]
      duplicate == \E i \in DOMAIN recentKeys : recentKeys[i] = MsgKey[m]
  IN  /\ pc[p] = "dedup"
      /\ \/ /\ MsgKey[m] = NoKey
            /\ Goto(p, "acquire")
            /\ UNCHANGED <<recentKeys, passed, cur, count, outcome>>
         \/ /\ MsgKey[m] # NoKey /\ ~duplicate
            /\ recentKeys' = Trimmed(Append(recentKeys, MsgKey[m]))
            /\ passed' = Append(passed, m)
            /\ Goto(p, "acquire")
            /\ UNCHANGED <<cur, count, outcome>>
         \/ /\ MsgKey[m] # NoKey /\ duplicate
            /\ Return(p, "duplicate", {"txFail", "idempotencyDrop"})
            /\ UNCHANGED <<recentKeys, passed>>
      /\ UNCHANGED <<running_, owner, linkVars, inflight, loopVars, target,
                     code, attempt, sent, end, router, straddled, boundVars>>

\* AcquireFlowSlot: fetch_add, and a look at the value it returned.
AcquireFlowSlot(p) ==
  LET l == target[p]
      current == (inflight[l] + 1) % Modulus
  IN  /\ pc[p] = "acquire"
      /\ inflight' = IF FlowLimit = 0 THEN inflight
                     ELSE [inflight EXCEPT ![l] = current]
      /\ Goto(p, IF FlowLimit # 0 /\ current > FlowLimit THEN "undo" ELSE "send")
      /\ UNCHANGED <<running_, owner, linkVars, recentKeys, loopVars, cur,
                     target, code, attempt, count, histVars, boundVars>>

\* uint32 fetch_sub
Decremented(l) == [inflight EXCEPT ![l] = (@ + Modulus - 1) % Modulus]

UndoKeepsSlot(p) ==
  /\ pc[p] = "undo"
  /\ Return(p, "failed", {"txFail", "backpressureDrop"})
  /\ UNCHANGED <<running_, owner, linkVars, inflight, recentKeys, loopVars,
                 target, code, attempt, sent, end, router, passed, straddled,
                 boundVars>>
\* The slot was one too many: fetch_sub, and Publish answers kWouldBlock.
UndoFlowSlot(p) ==
  /\ pc[p] = "undo"
  /\ inflight' = Decremented(target[p])
  /\ Return(p, "failed", {"txFail", "backpressureDrop"})
  /\ UNCHANGED <<running_, owner, linkVars, recentKeys, loopVars, target, code,
                 attempt, sent, end, router, passed, straddled, boundVars>>

\* Where PublishWithBackpressure returns to: the primary or the failover call.
Finish(p) == IF target[p] = MsgLink[cur[p]] THEN "release" ELSE "account"

\* After kWouldBlock, RetryOnWouldBlock makes attempts 0 .. MaxRetries;
\* DropPolicy::kDropNew returned before.
MayRetry(p, c) ==
  /\ c = "wouldBlock"
  /\ IF pc[p] = "retry" THEN attempt[p] < MaxRetries
     ELSE MaxRetries > 0 /\ Overflow # "dropNew"

\* What follows a failed send_once.
Sequel(p, c) ==
  IF pc[p] = "send" /\ Overflow = "dropOldest" /\ c \in {"timeout", "wouldBlock"}
  THEN "discard"
  ELSE IF MayRetry(p, c) THEN "retry" ELSE Finish(p)

Sending == {"send", "resend", "retry"}
AcceptsWhenClosed(l, m) == m \notin Oversize
Accepts(l, m) == open[l] /\ m \notin Oversize

\* send_once succeeds.
SendOk(p) ==
  LET l == target[p]
      m == cur[p]
  IN  /\ pc[p] \in Sending
      /\ Accepts(l, m) /\ Len(queue[l]) < MaxMessages
      /\ queue' = [queue EXCEPT ![l] = Insert(@, m, MsgPriority)]
      /\ sent' = [sent EXCEPT ![m] = @ + 1]
      /\ code' = [code EXCEPT ![p] = "ok"]
      /\ attempt' = [attempt EXCEPT ![p] = 0]
      /\ Goto(p, Finish(p))
      /\ UNCHANGED <<running_, owner, open, exposed, inflight, recentKeys,
                     loopVars, cur, target, count, outcome, end, router, passed,
                     straddled, boundVars>>

\* send_once fails with c.
SendFails(p, c) ==
  LET spent == pc[p] = "retry" /\ c = "wouldBlock" /\ ~MayRetry(p, c)
      sequel == Sequel(p, c)
  IN  /\ pc[p] \in Sending
      /\ code' = [code EXCEPT ![p] = IF spent THEN "timeout" ELSE c]
      /\ attempt' = [attempt EXCEPT ![p] =
                       IF pc[p] = "retry" /\ sequel = "retry" THEN @ + 1 ELSE 0]
      /\ Goto(p, sequel)
      /\ UNCHANGED <<running_, owner, linkVars, inflight, recentKeys, loopVars,
                     cur, target, count, histVars, boundVars>>

\* The queue is full until the deadline, or full and left non-blocking by a
\* concurrent DiscardOldest.
SendFull(p) ==
  /\ Accepts(target[p], cur[p]) /\ Len(queue[target[p]]) >= MaxMessages
  /\ \E c \in FullCodes : SendFails(p, c)

\* kInvalidParam: the descriptor is closed or the message too long.
SendInvalid(p) == ~Accepts(target[p], cur[p]) /\ SendFails(p, "invalid")

\* mq_receive hands p the most urgent message, which is dropped.
TakeHead(p) ==
  LET l == target[p]
  IN  /\ open[l] /\ queue[l] # <<>>
      /\ queue' = [queue EXCEPT ![l] = Tail(@)]
      /\ end' = [end EXCEPT ![Head(queue[l])] = "discarded"]
      /\ Goto(p, "restore")
      /\ UNCHANGED exposed

\* DiscardOldest fails, and there is no second send.
DiscardFails(p) ==
  /\ Goto(p, IF MayRetry(p, code[p]) THEN "retry" ELSE Finish(p))
  /\ exposed' = exposed \ {p}
  /\ UNCHANGED <<queue, end>>

DiscardUntilTaken(p) ==
  /\ pc[p] = "discard"
  /\ TakeHead(p) \/ (~open[target[p]] /\ DiscardFails(p))
  /\ UNCHANGED <<running_, owner, open, inflight, recentKeys, loopVars, cur,
                 target, code, attempt, count, outcome, sent, router, passed,
                 straddled, boundVars>>
\* DiscardOldest sets O_NONBLOCK and calls mq_receive; EAGAIN counts as
\* success too.  If the flag was cleared in between, mq_receive sleeps on an
\* empty queue, without a deadline.
DiscardOldest(p) ==
  /\ pc[p] = "discard"
  /\ \/ TakeHead(p)
     \/ /\ open[target[p]] /\ queue[target[p]] = <<>>
        /\ Goto(p, "restore") \/ (p \in exposed /\ Goto(p, "asleep"))
        /\ UNCHANGED <<queue, exposed, end>>
     \/ (~open[target[p]] /\ DiscardFails(p))
  /\ UNCHANGED <<running_, owner, open, inflight, recentKeys, loopVars, cur,
                 target, code, attempt, count, outcome, sent, router, passed,
                 straddled, boundVars>>

\* The sleeping mq_receive gets a message, if its queue still is the link's.
Wake(p) ==
  /\ pc[p] = "asleep" /\ p \in exposed
  /\ TakeHead(p)
  /\ UNCHANGED <<running_, owner, open, inflight, recentKeys, loopVars, cur,
                 target, code, attempt, count, outcome, sent, router, passed,
                 straddled, boundVars>>

\* RestoreQueueFlags, which may clear the O_NONBLOCK another publisher has just
\* set for its own receive, and DiscardOldest returns.
RestoreFlags(p) ==
  /\ pc[p] = "restore"
  /\ exposed' = (exposed \ {p})
                \cup {q \in Publishers \ {p} : /\ pc[q] = "discard"
                                               /\ target[q] = target[p]}
  /\ Bump({"backpressureDrop"})
  /\ Goto(p, "resend")
  /\ UNCHANGED <<running_, owner, open, queue, inflight, recentKeys, loopVars,
                 cur, target, code, attempt, histVars, boundVars>>

FailoverAlways(p) ==
  /\ pc[p] = "release"
  /\ inflight' = IF FlowLimit = 0 THEN inflight ELSE Decremented(target[p])
  /\ target' = [target EXCEPT ![p] = Other(@)]
  /\ Goto(p, "send")
  /\ UNCHANGED <<running_, owner, linkVars, recentKeys, loopVars, cur, code,
                 attempt, count, histVars, boundVars>>
\* ReleaseFlowSlot, and what Publish does with send_ec: on failure,
\* ResolveFailover names the transport of the other direction.
ReleaseFlowSlot(p) ==
  /\ pc[p] = "release"
  /\ inflight' = IF FlowLimit = 0 THEN inflight ELSE Decremented(target[p])
  /\ \/ /\ code[p] = "ok"
        /\ Return(p, "ok", {"tx"})
        /\ UNCHANGED target
     \/ /\ code[p] # "ok" /\ FailoverEnabled
        /\ target' = [target EXCEPT ![p] = Other(@)]
        /\ Goto(p, "send")
        /\ UNCHANGED <<cur, outcome, count>>
     \/ /\ code[p] # "ok" /\ ~FailoverEnabled
        /\ Return(p, "failed", {"txFail", "transportError"})
        /\ UNCHANGED target
  /\ UNCHANGED <<running_, owner, linkVars, recentKeys, loopVars, code, attempt,
                 sent, end, router, passed, straddled, boundVars>>

FailoverUncounted(p) ==
  /\ pc[p] = "account"
  /\ \/ code[p] = "ok" /\ Return(p, "ok", {"failoverHit"})
     \/ code[p] # "ok" /\ Return(p, "failed", {"txFail", "transportError"})
  /\ UNCHANGED <<running_, owner, linkVars, inflight, recentKeys, loopVars,
                 target, code, attempt, sent, end, router, passed, straddled,
                 boundVars>>
\* Publish after the second PublishWithBackpressure, on the failover transport.
FailoverAccount(p) ==
  /\ pc[p] = "account"
  /\ \/ code[p] = "ok" /\ Return(p, "ok", {"tx", "failoverHit"})
     \/ code[p] # "ok" /\ Return(p, "failed", {"txFail", "transportError"})
  /\ UNCHANGED <<running_, owner, linkVars, inflight, recentKeys, loopVars,
                 target, code, attempt, sent, end, router, passed, straddled,
                 boundVars>>

-----------------------------------------------------------------------------
(* The inbound loops: ProcessInbound as a task of the thread pool.         *)

LoopGoto(l, label) == loop' = [loop EXCEPT ![l] = label]
Active == {l \in Links : loop[l] \in {"test", "receive", "handle"}}

\* A free worker of the pool takes the oldest queued loop.
LoopStart(l) ==
  /\ poolQueue # <<>> /\ Head(poolQueue) = l
  /\ Cardinality(Active) < PoolWorkers
  /\ poolQueue' = Tail(poolQueue)
  /\ LoopGoto(l, "test")
  /\ UNCHANGED <<running_, owner, linkVars, inflight, recentKeys, got, pubVars,
                 count, histVars, boundVars>>

LoopForever(l) ==
  /\ loop[l] = "test"
  /\ LoopGoto(l, "receive")
  /\ UNCHANGED <<running_, owner, linkVars, inflight, recentKeys, poolQueue, got,
                 pubVars, count, histVars, boundVars>>
\* while (running_.load())
LoopTest(l) ==
  /\ loop[l] = "test"
  /\ LoopGoto(l, IF running_ THEN "receive" ELSE "exited")
  /\ UNCHANGED <<running_, owner, linkVars, inflight, recentKeys, poolQueue, got,
                 pubVars, count, histVars, boundVars>>

ReceiveWithoutRemoving(l) ==
  /\ loop[l] = "receive" /\ open[l] /\ queue[l] # <<>>
  /\ got' = [got EXCEPT ![l] = Head(queue[l])]
  /\ Bump({"rx"})
  /\ LoopGoto(l, "handle")
  /\ UNCHANGED <<running_, owner, linkVars, inflight, recentKeys, poolQueue,
                 pubVars, histVars, boundVars>>
\* ReceiveWithTimeout returns a message.
LoopReceive(l) ==
  /\ loop[l] = "receive" /\ open[l] /\ queue[l] # <<>>
  /\ got' = [got EXCEPT ![l] = Head(queue[l])]
  /\ queue' = [queue EXCEPT ![l] = Tail(@)]
  /\ Bump({"rx"})
  /\ LoopGoto(l, "handle")
  /\ UNCHANGED <<running_, owner, open, exposed, inflight, recentKeys, poolQueue,
                 pubVars, histVars, boundVars>>

LoopExitsOnError(l) ==
  /\ loop[l] = "receive"
  /\ \/ open[l] /\ queue[l] = <<>> /\ LoopGoto(l, "test") /\ UNCHANGED <<count, faults>>
     \/ /\ faults < MaxFaults
        /\ faults' = faults + 1
        /\ Bump({"transportError"})
        /\ LoopGoto(l, "exited")
  /\ UNCHANGED <<running_, owner, linkVars, inflight, recentKeys, poolQueue, got,
                 pubVars, histVars, sessions>>
\* Nothing came before the deadline, or the call failed.
LoopNothing(l) ==
  /\ loop[l] = "receive"
  /\ \/ open[l] /\ queue[l] = <<>> /\ UNCHANGED <<count, faults>>
     \/ /\ faults < MaxFaults
        /\ faults' = faults + 1
        /\ Bump({"transportError"})
  /\ LoopGoto(l, "test")
  /\ UNCHANGED <<running_, owner, linkVars, inflight, recentKeys, poolQueue, got,
                 pubVars, histVars, sessions>>

RouterOf(l) == IF l = "v2r" THEN "robot_router_" ELSE "vehicle_router_"

\* Decoding, the validity test, the latency test, the router and its handler.
LoopHandle(l) ==
  /\ loop[l] = "handle"
  /\ \E v \in Verdicts[got[l]] :
       /\ end' = [end EXCEPT ![got[l]] = v]
       /\ router' = IF v \in {"delivered", "handlerError"}
                    THEN [router EXCEPT ![got[l]] = RouterOf(l)] ELSE router
       /\ Bump({v} \cap CounterNames)
  /\ got' = [got EXCEPT ![l] = NoMsg]
  /\ LoopGoto(l, "test")
  /\ UNCHANGED <<running_, owner, linkVars, inflight, recentKeys, poolQueue,
                 pubVars, outcome, sent, passed, straddled, boundVars>>

-----------------------------------------------------------------------------
(* The owner: Start and Stop.                                              *)

\* The publishers that own a flow slot of link l, or are about to undo one.
Holders(l) ==
  {p \in Publishers : /\ pc[p] \in {"undo", "send", "discard", "asleep",
                                    "restore", "resend", "retry", "release"}
                      /\ target[p] = l /\ MsgLink[cur[p]] = l}

\* ApplyTransportTuning stores 0 into both inflight counters.
TunedInflight == [l \in Links |-> 0]

\* Start up to ApplyTransportTuning.  What it does to the configuration before
\* that, the canary's early return included, touches nothing modelled here.
StartBegin ==
  /\ owner = "idle" /\ ~running_
  /\ sessions < MaxSessions
  /\ sessions' = sessions + 1
  /\ inflight' = TunedInflight
  /\ straddled' = (straddled \/ \E l \in Links : Holders(l) # {})
  /\ owner' = "createV2r"
  /\ UNCHANGED <<running_, linkVars, recentKeys, loopVars, pubVars, count,
                 outcome, sent, end, router, passed, faults>>

\* A new descriptor blocks, also for who had set O_NONBLOCK of the old one.
Created(l, next) ==
  /\ open' = [open EXCEPT ![l] = TRUE]
  /\ exposed' = exposed \cup {p \in Publishers : pc[p] = "discard" /\ target[p] = l}
  /\ owner' = next
  /\ UNCHANGED <<queue, end, faults>>

\* A failing step of Start closes the links S created so far and returns.
StartFails(S) ==
  /\ faults < MaxFaults
  /\ faults' = faults + 1
  /\ Release(S)
  /\ owner' = "idle"

StartCreateV2r ==
  /\ owner = "createV2r"
  /\ Created("v2r", "createR2v") \/ StartFails({})
  /\ UNCHANGED <<running_, inflight, recentKeys, loopVars, pubVars, count,
                 outcome, sent, router, passed, straddled, sessions>>

CreateR2vLeaks ==
  /\ owner = "createR2v"
  /\ Created("r2v", "startPool") \/ StartFails({})
  /\ UNCHANGED <<running_, inflight, recentKeys, loopVars, pubVars, count,
                 outcome, sent, router, passed, straddled, sessions>>
StartCreateR2v ==
  /\ owner = "createR2v"
  /\ Created("r2v", "startPool") \/ StartFails({"v2r"})
  /\ UNCHANGED <<running_, inflight, recentKeys, loopVars, pubVars, count,
                 outcome, sent, router, passed, straddled, sessions>>

StartPool ==
  /\ owner = "startPool"
  /\ \/ owner' = "setRunning" /\ UNCHANGED <<linkVars, end, faults>>
     \/ StartFails(Links)
  /\ UNCHANGED <<running_, inflight, recentKeys, loopVars, pubVars, count,
                 outcome, sent, router, passed, straddled, sessions>>

StartSetRunning ==
  /\ owner = "setRunning"
  /\ running_' = TRUE
  /\ owner' = "enqueueV2r"
  /\ UNCHANGED <<linkVars, inflight, recentKeys, loopVars, pubVars, count,
                 histVars, boundVars>>

\* worker_pool_.Enqueue of one inbound loop; kThreadQueueFull makes Start call
\* Stop and return the error.
EnqueueLoop(l, here, next) ==
  /\ owner = here
  /\ IF Len(poolQueue) < PoolCapacity
     THEN /\ poolQueue' = Append(poolQueue, l)
          /\ LoopGoto(l, "queued")
          /\ owner' = next
     ELSE owner' = "abort" /\ UNCHANGED <<poolQueue, loop>>
  /\ UNCHANGED <<running_, linkVars, inflight, recentKeys, got, pubVars, count,
                 histVars, boundVars>>

StartEnqueue == \/ EnqueueLoop("v2r", "enqueueV2r", "enqueueR2v")
                \/ EnqueueLoop("r2v", "enqueueR2v", "idle")

\* running_.exchange(false); a second call of Stop returns at once.
StopExchange ==
  /\ owner \in {"idle", "abort"} /\ running_
  /\ running_' = FALSE
  /\ owner' = "stopPool"
  /\ UNCHANGED <<linkVars, inflight, recentKeys, loopVars, pubVars, count,
                 histVars, boundVars>>

StopPoolWithoutJoin ==
  /\ owner = "stopPool"
  /\ owner' = "closeV2r"
  /\ UNCHANGED <<running_, linkVars, inflight, recentKeys, loopVars, pubVars,
                 count, histVars, boundVars>>
\* worker_pool_.Stop(): every queued loop is run and every worker joined.
StopPool ==
  /\ owner = "stopPool"
  /\ \A l \in Links : loop[l] \in {"absent", "exited"}
  /\ loop' = [l \in Links |-> "absent"]
  /\ owner' = "closeV2r"
  /\ UNCHANGED <<running_, linkVars, inflight, recentKeys, poolQueue, got,
                 pubVars, count, histVars, boundVars>>

\* Close and Unlink of the two transports, one after the other.
StopClose ==
  /\ \/ owner = "closeV2r" /\ Release({"v2r"}) /\ owner' = "closeR2v"
     \/ owner = "closeR2v" /\ Release({"r2v"}) /\ owner' = "idle"
  /\ UNCHANGED <<running_, inflight, recentKeys, loopVars, pubVars, count,
                 outcome, sent, router, passed, straddled, boundVars>>

-----------------------------------------------------------------------------
OwnerStep ==
  \/ StartBegin \/ StartCreateV2r \/ StartCreateR2v \/ StartPool
  \/ StartSetRunning \/ StartEnqueue \/ StopExchange \/ StopPool \/ StopClose

\* A publisher that has begun a call goes on with it.
PublishStep(p) ==
  \/ Dedup(p) \/ AcquireFlowSlot(p) \/ UndoFlowSlot(p)
  \/ SendOk(p) \/ SendFull(p) \/ SendInvalid(p)
  \/ DiscardOldest(p) \/ Wake(p) \/ RestoreFlags(p)
  \/ ReleaseFlowSlot(p) \/ FailoverAccount(p)

LoopStep(l) ==
  LoopStart(l) \/ LoopTest(l) \/ LoopReceive(l) \/ LoopNothing(l) \/ LoopHandle(l)

Next ==
  \/ OwnerStep
  \/ \E p \in Publishers :
       \/ \E m \in Calls[p] : PublishRefuse(p, m) \/ PublishBegin(p, m)
       \/ PublishStep(p)
  \/ \E l \in Links : LoopStep(l)

\* Threads keep running: a call that began goes on, every worker of the pool
\* is scheduled, timeouts expire and handlers return.  Nobody has to call
\* Start, Stop or Publish.
Fairness ==
  /\ WF_vars(owner # "idle" /\ OwnerStep)
  /\ \A p \in Publishers : WF_vars(PublishStep(p))
  /\ \A l \in Links : WF_vars(LoopStep(l))

Spec == Init /\ [][Next]_vars /\ Fairness

-----------------------------------------------------------------------------
(* Properties.                                                             *)

OwnerTypeOK ==
  /\ running_ \in BOOLEAN /\ owner \in OwnerPc
  /\ sessions \in Nat /\ faults \in Nat

LinkTypeOK ==
  /\ open \in [Links -> BOOLEAN]
  /\ queue \in [Links -> Seq(Msgs)]
  /\ \A l \in Links : Len(queue[l]) <= MaxMessages
  /\ exposed \subseteq Publishers
  /\ inflight \in [Links -> 0 .. Modulus - 1]

LoopTypeOK ==
  /\ poolQueue \in Seq(Links) /\ Len(poolQueue) <= PoolCapacity
  /\ loop \in [Links -> LoopPc]
  /\ got \in [Links -> Msgs \cup {NoMsg}]

PublisherTypeOK ==
  /\ pc \in [Publishers -> PublisherPc]
  /\ cur \in [Publishers -> Msgs \cup {NoMsg}]
  /\ target \in [Publishers -> Links]
  /\ code \in [Publishers -> {"ok", "timeout", "wouldBlock", "invalid"}]
  /\ attempt \in [Publishers -> 0 .. MaxRetries]

WindowTypeOK ==
  /\ recentKeys \in Seq({MsgKey[m] : m \in Msgs}) /\ Len(recentKeys) <= WindowSize
  /\ passed \in Seq(Msgs)

RecordTypeOK ==
  /\ count \in [CounterNames -> Nat]
  /\ outcome \in [Msgs -> {"new", "inProgress", "refused", "duplicate",
                           "failed", "ok"}]
  /\ sent \in [Msgs -> Nat]
  /\ end \in [Msgs -> VerdictNames \cup {"none", "discarded", "destroyed"}]
  /\ router \in [Msgs -> {"none", "robot_router_", "vehicle_router_"}]
  /\ straddled \in BOOLEAN

\* Everything has its type and keeps its bound: the queues their capacity, the
\* pool's queue its own, the deduplication window its size, the retries theirs.
TypeOK ==
  /\ OwnerTypeOK /\ LinkTypeOK /\ LoopTypeOK /\ PublisherTypeOK
  /\ WindowTypeOK /\ RecordTypeOK

\* Publish tells the truth: after kOk the message entered a transport exactly
\* once, after any error not at all, whatever discards, resends, retries and
\* failover happened and whenever Stop closed the transports.
PublishTruthful ==
  \A m \in Msgs :
    /\ sent[m] <= 1
    /\ outcome[m] = "ok" => sent[m] = 1
    /\ outcome[m] \in {"refused", "duplicate", "failed"} => sent[m] = 0

\* The pairs of a link and a position where m is queued.
Places(m) ==
  {at \in Links \X (1 .. MaxMessages) :
      at[2] <= Len(queue[at[1]]) /\ queue[at[1]][at[2]] = m}

\* A message that entered a transport is in exactly one place: queued, in the
\* hands of an inbound loop, or done with (handled, dropped with a counter,
\* discarded by a later publisher, destroyed by Stop).  None is duplicated
\* and none disappears.
Conservation ==
  \A m \in Msgs :
    sent[m] = Cardinality(Places(m)) + Cardinality({l \in Links : got[l] = m})
              + (IF end[m] # "none" THEN 1 ELSE 0)

\* flow_limit_inflight holds: the counter of a link equals the number of
\* publishers that own a slot, and no more than FlowLimit of them are between
\* AcquireFlowSlot and ReleaseFlowSlot, unless Start reset the counters under
\* a publisher left over from the session before.
FlowAccounting ==
  (FlowLimit > 0 /\ ~straddled) =>
    \A l \in Links :
      /\ inflight[l] = Cardinality(Holders(l))
      /\ Cardinality({p \in Holders(l) : pc[p] # "undo"}) <= FlowLimit

\* Two messages of one deduplication key are both let through only when at
\* least a full window of other keys was recorded between them.
WindowSeparates ==
  \A i, j \in DOMAIN passed :
    (i < j /\ MsgKey[passed[i]] = MsgKey[passed[j]]) => j - i > WindowSize

\* An inbound loop never reads a transport that was closed under it: Stop
\* joins the pool before it closes, a failing Start closes before a loop runs.
LoopsReadOpenLinks ==
  \A l \in Links : loop[l] \in {"receive", "handle"} => open[l]

\* When no call of Start or Stop is in progress and the bridge is stopped,
\* both transports are closed, their queues are gone and no loop is left,
\* also after a Start that failed half way.
StoppedReleased ==
  (owner = "idle" /\ ~running_) =>
    \A l \in Links : ~open[l] /\ queue[l] = <<>> /\ loop[l] = "absent"

\* Seen from either side, a link is a transport: messages enter it only while
\* it is open and has room, leave it in priority order, and are lost only when
\* it is closed.
V2r == INSTANCE Transport WITH open <- open["v2r"], queue <- queue["v2r"]
R2v == INSTANCE Transport WITH open <- open["r2v"], queue <- queue["r2v"]
LinksAreTransports == V2r!Spec /\ R2v!Spec

Ended(S) == Cardinality({m \in Msgs : end[m] \in S})

\* tx_count and rx_count reconcile: what was sent and not yet received is
\* queued, was discarded by backpressure or destroyed by Stop.
CountersReconcile ==
  count["tx"] + Cardinality({p \in Publishers : /\ pc[p] \in {"release", "account"}
                                                /\ code[p] = "ok"})
    = Len(queue["v2r"]) + Len(queue["r2v"]) + count["rx"]
      + Ended({"discarded", "destroyed"})

\* A call of Publish can hang in one place only: asleep in the receive of
\* DiscardOldest, with nothing in the queue, after another publisher's restore
\* of the flags (or a new descriptor) came between.  Full queues, retries,
\* discards that find the queue empty and Stop never keep a call from returning.
PublishReturns ==
  \A p \in Publishers :
    []<>(pc[p] = "idle" \/ (pc[p] = "asleep" /\ queue[target[p]] = <<>>))

\* Start and Stop return: both inbound loops see running_ = false.
OwnerReturns == (owner # "idle") ~> (owner = "idle")

\* No message is left in a transport: it is received, discarded or destroyed.
MessagesEnd == \A m \in Msgs : (sent[m] = 1) ~> (end[m] # "none")

\* The two directions do not mix: what the vehicle publishes goes to the
\* robot's router and the other way round.
RoutedToPeer ==
  \A m \in Msgs : router[m] # "none" => router[m] = RouterOf(MsgLink[m])
=============================================================================
