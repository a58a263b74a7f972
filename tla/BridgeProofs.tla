---------------------------- MODULE BridgeProofs ----------------------------
(***************************************************************************)
(* Proofs about Bridge, for every number of publishers, messages and       *)
(* sessions, every capacity, flow limit and window size.                   *)
(*                                                                         *)
(* Inv is the inductive invariant.  Beside the types it says what a call   *)
(* of Publish holds at each place (CallInv), what an inbound loop holds    *)
(* (HandInv), which loops the pool has queued (PoolInv), and what the      *)
(* place of Start and Stop says of the links and the loops (LifeInv):      *)
(* neither TypeOK nor a property of the links is inductive without these.  *)
(* The flow accounts (FlowOn) and the window of keys (WindowInv) add to it *)
(* what their own theorems need.                                           *)
(*                                                                         *)
(* Of the messages: SentInv ties what Publish will answer to what has      *)
(* entered a transport; PlaceInv says that a message that entered one is   *)
(* in one place only; CountInv balances the counters with what is queued,  *)
(* lost or not yet counted; RouteInv keeps a message on its own link.      *)
(***************************************************************************)
EXTENDS Bridge, DataProofs

\* A call in progress has its message, no two calls have the same one, and the
\* flow slot is taken and given back on the link of the message.
CallInv ==
  \A p \in Publishers :
    /\ IF pc[p] = "idle" THEN cur[p] = NoMsg
       ELSE cur[p] \in Msgs /\ outcome[cur[p]] = "inProgress"
    /\ \A r \in Publishers \ {p} : pc[p] # "idle" => cur[r] # cur[p]
    /\ pc[p] \in {"dedup", "acquire", "undo", "release"} =>
         target[p] = MsgLink[cur[p]]
    /\ pc[p] \in {"discard", "asleep", "restore"} =>
         code[p] \in {"timeout", "wouldBlock"}

\* An inbound loop holds a message exactly while it handles it.
HandInv ==
  \A l \in Links : IF loop[l] = "handle" THEN got[l] \in Msgs ELSE got[l] = NoMsg

\* The pool's queue holds the queued loops, each once.
PoolInv ==
  /\ \A i \in DOMAIN poolQueue : loop[poolQueue[i]] = "queued"
  /\ \A i, j \in DOMAIN poolQueue : poolQueue[i] = poolQueue[j] => i = j

\* Where Start or Stop is tells whether the bridge runs, which links are open
\* and which loops may exist.
LifeInv ==
  /\ running_ => owner \in {"idle", "enqueueV2r", "enqueueR2v", "abort"}
  /\ owner \in {"enqueueV2r", "enqueueR2v", "abort"} => running_
  /\ open["v2r"] <=> \/ owner = "idle" /\ running_
                     \/ owner \notin {"idle", "createV2r", "closeR2v"}
  /\ open["r2v"] <=> \/ owner = "idle" /\ running_
                     \/ owner \notin {"idle", "createV2r", "createR2v"}
  /\ \A l \in Links :
       /\ ~open[l] => queue[l] = <<>>
       /\ loop[l] # "absent" => owner \in {"enqueueR2v", "abort", "stopPool"}
                                \/ (owner = "idle" /\ running_)
  /\ owner = "enqueueR2v" => loop["r2v"] = "absent"

Inv == TypeOK /\ CallInv /\ HandInv /\ PoolInv /\ LifeInv

-----------------------------------------------------------------------------
(* Small facts.                                                            *)

\* Counting modulo Modulus, as the uint32_t counters of the links do.
LEMMA ModulusFacts ==
  /\ Modulus \in Nat \ {0}
  /\ \A n \in Nat : n % Modulus \in 0 .. Modulus - 1
<1>1. Cardinality(Publishers) \in Nat
  BY LimitsAssumption, FS_CardinalityType
<1>2. Modulus \in Nat \ {0}
  BY <1>1, LimitsAssumption
<1>3. QED
  BY <1>2

\* Giving back a flow slot, wrapping as uint32_t does, keeps the type.
LEMMA DecrementedType ==
  ASSUME inflight \in [Links -> 0 .. Modulus - 1], NEW l \in Links
  PROVE  Decremented(l) \in [Links -> 0 .. Modulus - 1]
BY ModulusFacts DEF Decremented

\* Adding one to some of the counters keeps their type.
LEMMA BumpType ==
  ASSUME count \in [CounterNames -> Nat], NEW S, Bump(S)
  PROVE  count' \in [CounterNames -> Nat]
BY DEF Bump

\* The window of idempotency keys holds at least one key.
LEMMA WindowSizeType == WindowSize \in Nat \ {0}
BY LimitsAssumption DEF WindowSize

\* Appending a key and trimming keeps the window.
LEMMA TrimmedProperties ==
  ASSUME NEW S, NEW keys \in Seq(S), Len(keys) <= WindowSize, NEW k \in S
  PROVE  /\ Trimmed(Append(keys, k)) \in Seq(S)
         /\ Len(Trimmed(Append(keys, k))) <= WindowSize
BY WindowSizeType DEF Trimmed

\* The invariant holds before the first Start.
LEMMA InvInit == Init => Inv
<1> SUFFICES ASSUME Init PROVE Inv
  OBVIOUS
<1> USE MessagesAssumption, LimitsAssumption, PolicyAssumption
<1>0. << >> \in Seq(Msgs) /\ << >> \in Seq(Links) /\ Len(<< >>) = 0
      /\ << >> \in Seq({MsgKey[m] : m \in Msgs})
  OBVIOUS
<1>1. OwnerTypeOK /\ LinkTypeOK /\ LoopTypeOK
  <2>1. OwnerTypeOK
    BY DEF Init, OwnerTypeOK, OwnerPc
  <2>2. LinkTypeOK
    BY <1>0, ModulusFacts DEF Init, LinkTypeOK
  <2>3. LoopTypeOK
    BY <1>0 DEF Init, LoopTypeOK, LoopPc
  <2>4. QED
    BY <2>1, <2>2, <2>3
<1>2. PublisherTypeOK
  BY DEF Init, PublisherTypeOK, PublisherPc, Links
<1>3. RecordTypeOK /\ WindowTypeOK
  <2>1. RecordTypeOK
    BY DEF Init, RecordTypeOK
  <2>2. WindowTypeOK
    BY <1>0, WindowSizeType DEF Init, WindowTypeOK
  <2>3. QED
    BY <2>1, <2>2
<1>4. CallInv /\ HandInv /\ PoolInv /\ LifeInv
  BY DEF Init, CallInv, HandInv, PoolInv, LifeInv, Links
<1>5. QED
  BY <1>1, <1>2, <1>3, <1>4 DEF Inv, TypeOK

\* A link's queue is replaced by one that fits.
LEMMA QueueType ==
  ASSUME LinkTypeOK, NEW l \in Links, NEW q \in Seq(Msgs), Len(q) <= MaxMessages,
         queue' = [queue EXCEPT ![l] = q], exposed' \subseteq Publishers,
         UNCHANGED <<open, inflight>>
  PROVE  LinkTypeOK'
BY DEF LinkTypeOK

\* A call of Publish returns with o.
LEMMA ReturnType ==
  ASSUME TypeOK, CallInv, NEW p \in Publishers, pc[p] # "idle",
         NEW o \in {"duplicate", "failed", "ok"}, NEW S, Return(p, o, S)
  PROVE  /\ pc' \in [Publishers -> PublisherPc]
         /\ cur' \in [Publishers -> Msgs \cup {NoMsg}]
         /\ count' \in [CounterNames -> Nat]
         /\ outcome' \in [Msgs -> {"new", "inProgress", "refused", "duplicate",
                                   "failed", "ok"}]
<1>1. count' \in [CounterNames -> Nat]
  BY BumpType DEF Return, TypeOK, RecordTypeOK
<1>2. QED
  BY <1>1 DEF Return, Goto, TypeOK, RecordTypeOK, PublisherTypeOK, PublisherPc, CallInv

\* What a publisher does in one step.
PublishAction(p) ==
  PublishStep(p) \/ \E m \in Msgs : PublishRefuse(p, m) \/ PublishBegin(p, m)

\* A step of the system is a step of the owner, of a publisher or of a loop.
LEMMA NextByActor ==
  ASSUME Next
  PROVE  \/ OwnerStep
         \/ \E p \in Publishers : PublishAction(p)
         \/ \E l \in Links : LoopStep(l)
<1>1. \A p \in Publishers : Calls[p] \subseteq Msgs
  BY MessagesAssumption
<1>2. QED
  BY <1>1 DEF Next, PublishAction

\* The receive of DiscardOldest takes no message: the call goes on to restore
\* the flags, goes to sleep, or gives up.
NothingTaken(p) ==
  /\ UNCHANGED <<queue, end>>
  /\ \E label \in {"restore", "asleep", "retry", Finish(p)} : Goto(p, label)

\* It takes the most urgent message, at once or after it slept.
HeadTaken(p) ==
  /\ open[target[p]] /\ queue[target[p]] # <<>>
  /\ queue' = [queue EXCEPT ![target[p]] = Tail(@)]
  /\ end' = [end EXCEPT ![Head(queue[target[p]])] = "discarded"]
  /\ Goto(p, "restore")

\* What DiscardOldest and Wake have in common.
Discards(p) ==
  /\ pc[p] \in {"discard", "asleep"}
  /\ NothingTaken(p) \/ HeadTaken(p)
  /\ exposed' \subseteq Publishers
  /\ UNCHANGED <<running_, owner, open, inflight, recentKeys, loopVars, cur,
                 target, code, attempt, count, outcome, sent, router, passed,
                 straddled, boundVars>>

\* DiscardOldest and Wake do no more than Discards says.
LEMMA DiscardSteps ==
  ASSUME LinkTypeOK, NEW p \in Publishers, DiscardOldest(p) \/ Wake(p)
  PROVE  Discards(p)
<1>0. exposed \subseteq Publishers
  BY DEF LinkTypeOK
<1>1. pc[p] \in {"discard", "asleep"}
  BY DEF DiscardOldest, Wake
<1>2. UNCHANGED <<running_, owner, open, inflight, recentKeys, loopVars, cur,
                  target, code, attempt, count, outcome, sent, router, passed,
                  straddled, boundVars>>
  BY DEF DiscardOldest, Wake
<1>3. (NothingTaken(p) \/ HeadTaken(p)) /\ exposed' \subseteq Publishers
  <2>1. CASE TakeHead(p)
    BY <1>0, <2>1 DEF TakeHead, HeadTaken
  <2>2. CASE DiscardFails(p)
    BY <1>0, <2>2 DEF DiscardFails, NothingTaken
  <2>3. CASE /\ Goto(p, "restore") \/ Goto(p, "asleep")
             /\ UNCHANGED <<queue, exposed, end>>
    BY <1>0, <2>3 DEF NothingTaken
  <2>4. QED
    BY <2>1, <2>2, <2>3 DEF DiscardOldest, Wake
<1>4. QED
  BY <1>1, <1>2, <1>3 DEF Discards

\* The step of a publisher, case by case.
LEMMA PublishCases ==
  ASSUME LinkTypeOK, NEW p \in Publishers, PublishAction(p)
  PROVE  \/ \E m \in Msgs : PublishRefuse(p, m) \/ PublishBegin(p, m)
         \/ Dedup(p) \/ AcquireFlowSlot(p) \/ UndoFlowSlot(p) \/ SendOk(p)
         \/ \E c \in {"timeout", "wouldBlock", "invalid"} : SendFails(p, c)
         \/ Discards(p) \/ RestoreFlags(p)
         \/ ReleaseFlowSlot(p) \/ FailoverAccount(p)
BY DiscardSteps, PolicyAssumption DEF PublishAction, PublishStep, SendFull, SendInvalid

\* A step of a publisher keeps TypeOK.
LEMMA TypePublish ==
  ASSUME Inv, NEW p \in Publishers, PublishAction(p)
  PROVE  TypeOK'
<1> USE DEF Inv, TypeOK, pubVars, loopVars, linkVars, histVars, boundVars
<1> USE MessagesAssumption, LimitsAssumption, PolicyAssumption
<1>1. ASSUME NEW m \in Msgs, PublishRefuse(p, m) PROVE TypeOK'
  <2>1. UNCHANGED <<running_, owner, linkVars, inflight, loopVars, recentKeys, passed, pubVars, boundVars>>
    BY <1>1 DEF PublishRefuse
  <2>2. RecordTypeOK'
    BY <1>1, BumpType DEF PublishRefuse, RecordTypeOK
  <2>3. QED
    BY <2>1, <2>2 DEF OwnerTypeOK, LinkTypeOK, LoopTypeOK, PublisherTypeOK, WindowTypeOK
<1>2. ASSUME NEW m \in Msgs, PublishBegin(p, m) PROVE TypeOK'
  <2>1. UNCHANGED <<running_, owner, linkVars, inflight, loopVars, recentKeys, passed, boundVars>>
    BY <1>2 DEF PublishBegin
  <2>2. RecordTypeOK'
    BY <1>2 DEF PublishBegin, RecordTypeOK
  <2>3. PublisherTypeOK'
    BY <1>2 DEF PublishBegin, Goto, PublisherTypeOK, PublisherPc
  <2>4. QED
    BY <2>1, <2>2, <2>3 DEF OwnerTypeOK, LinkTypeOK, LoopTypeOK, WindowTypeOK
<1>3. CASE Dedup(p)
  <2>1. UNCHANGED <<running_, owner, linkVars, inflight, loopVars, boundVars>>
    BY <1>3 DEF Dedup
  <2>2. RecordTypeOK' /\ PublisherTypeOK'
    BY <1>3, ReturnType, ZenonT(60) DEF Dedup, Goto, RecordTypeOK, PublisherTypeOK, PublisherPc
  <2>3. WindowTypeOK'
    <3>1. cur[p] \in Msgs /\ MsgKey[cur[p]] \in {MsgKey[m] : m \in Msgs}
      BY <1>3 DEF Dedup, CallInv
    <3> DEFINE keys == Trimmed(Append(recentKeys, MsgKey[cur[p]]))
    <3>2. keys \in Seq({MsgKey[m] : m \in Msgs}) /\ Len(keys) <= WindowSize
      BY <3>1, TrimmedProperties, Zenon DEF WindowTypeOK
    <3>3. Append(passed, cur[p]) \in Seq(Msgs)
      BY <3>1 DEF WindowTypeOK
    <3>4. \/ UNCHANGED <<recentKeys, passed>>
          \/ recentKeys' = keys /\ passed' = Append(passed, cur[p])
      BY <1>3 DEF Dedup
    <3> HIDE DEF keys
    <3>5. QED
      BY <3>2, <3>3, <3>4 DEF WindowTypeOK
  <2>4. QED
    BY <2>1, <2>2, <2>3 DEF OwnerTypeOK, LinkTypeOK, LoopTypeOK
<1>4. CASE AcquireFlowSlot(p)
  <2>1. UNCHANGED <<running_, owner, linkVars, recentKeys, count, loopVars, histVars, boundVars>>
    BY <1>4 DEF AcquireFlowSlot
  <2>2. LinkTypeOK'
    <3>1. target[p] \in Links
      BY DEF PublisherTypeOK
    <3>2. (inflight[target[p]] + 1) % Modulus \in 0 .. Modulus - 1
      <4>0. inflight[target[p]] \in 0 .. Modulus - 1
        BY <3>1 DEF LinkTypeOK
      <4>1. inflight[target[p]] + 1 \in Nat
        BY <4>0, ModulusFacts
      <4>2. QED
        BY <4>1, ModulusFacts
    <3>3. QED
      BY <1>4, <3>1, <3>2 DEF AcquireFlowSlot, LinkTypeOK
  <2>3. PublisherTypeOK'
    BY <1>4 DEF AcquireFlowSlot, Goto, PublisherTypeOK, PublisherPc
  <2>4. QED
    BY <2>1, <2>2, <2>3 DEF OwnerTypeOK, LoopTypeOK, RecordTypeOK, WindowTypeOK
<1>5. CASE UndoFlowSlot(p)
  <2>1. UNCHANGED <<running_, owner, linkVars, recentKeys, passed, loopVars, boundVars>>
    BY <1>5 DEF UndoFlowSlot
  <2>2. LinkTypeOK'
    BY <1>5, DecrementedType DEF UndoFlowSlot, LinkTypeOK, PublisherTypeOK
  <2>3. RecordTypeOK'
    BY <1>5, ReturnType DEF UndoFlowSlot, RecordTypeOK
  <2>4. PublisherTypeOK'
    BY <1>5 DEF UndoFlowSlot, Return, Goto, PublisherTypeOK, PublisherPc
  <2>5. QED
    BY <2>1, <2>2, <2>3, <2>4 DEF OwnerTypeOK, LoopTypeOK, WindowTypeOK
<1>6. CASE SendOk(p)
  <2>1. UNCHANGED <<running_, owner, recentKeys, passed, loopVars, boundVars>>
    BY <1>6 DEF SendOk
  <2>2. LinkTypeOK'
    <3>1. target[p] \in Links /\ cur[p] \in Msgs /\ queue[target[p]] \in Seq(Msgs)
      BY <1>6 DEF SendOk, LinkTypeOK, PublisherTypeOK, CallInv, Sending
    <3> DEFINE q == Insert(queue[target[p]], cur[p], MsgPriority)
    <3>2. q \in Seq(Msgs) /\ Len(q) = Len(queue[target[p]]) + 1
      BY <3>1, InsertProperties
    <3>3. Len(q) <= MaxMessages
      BY <1>6, <3>1, <3>2 DEF SendOk
    <3>4. QED
      BY <1>6, <3>1, <3>2, <3>3, QueueType DEF SendOk, LinkTypeOK
  <2>3. RecordTypeOK'
    <3>1. cur[p] \in Msgs
      BY <1>6 DEF SendOk, CallInv, Sending
    <3>2. QED
      BY <1>6, <3>1, SMTT(30) DEF SendOk, RecordTypeOK
  <2>4. PublisherTypeOK'
    BY <1>6 DEF SendOk, Finish, Goto, PublisherTypeOK, PublisherPc
  <2>5. QED
    BY <2>1, <2>2, <2>3, <2>4 DEF OwnerTypeOK, LoopTypeOK, WindowTypeOK
<1>7. ASSUME NEW c \in {"timeout", "wouldBlock", "invalid"}, SendFails(p, c) PROVE TypeOK'
  <2>1. UNCHANGED <<running_, owner, linkVars, inflight, recentKeys, count, loopVars, histVars, boundVars>>
    BY <1>7 DEF SendFails
  <2>2. PublisherTypeOK'
    BY <1>7 DEF SendFails, Sequel, MayRetry, Finish, Goto, PublisherTypeOK, PublisherPc
  <2>3. QED
    BY <2>1, <2>2 DEF OwnerTypeOK, LinkTypeOK, LoopTypeOK, RecordTypeOK, WindowTypeOK
<1>8. CASE Discards(p)
  <2>1. UNCHANGED <<running_, owner, recentKeys, passed, loopVars, boundVars>>
    BY <1>8 DEF Discards
  <2>2. LinkTypeOK'
    <3>1. target[p] \in Links /\ queue[target[p]] \in Seq(Msgs)
      BY DEF PublisherTypeOK, LinkTypeOK
    <3>2. CASE NothingTaken(p)
      BY <1>8, <3>2 DEF Discards, NothingTaken, LinkTypeOK
    <3>3. CASE HeadTaken(p)
      <4>1. Tail(queue[target[p]]) \in Seq(Msgs)
            /\ Len(Tail(queue[target[p]])) <= MaxMessages
        <5>1. Len(queue[target[p]]) <= MaxMessages /\ Len(queue[target[p]]) \in Nat
          BY <3>1 DEF LinkTypeOK
        <5>2. QED
          BY <3>1, <3>3, <5>1, TailProperties DEF HeadTaken
      <4>2. QED
        BY <1>8, <3>1, <3>3, <4>1, QueueType DEF Discards, HeadTaken
    <3>4. QED
      BY <1>8, <3>2, <3>3 DEF Discards
  <2>3. RecordTypeOK'
    <3>1. target[p] \in Links /\ queue[target[p]] \in Seq(Msgs)
      BY DEF PublisherTypeOK, LinkTypeOK
    <3>2. queue[target[p]] # <<>> => Head(queue[target[p]]) \in Msgs
      BY <3>1, TailProperties
    <3>3. end' \in [Msgs -> VerdictNames \cup {"none", "discarded", "destroyed"}]
      BY <1>8, <3>2 DEF Discards, NothingTaken, HeadTaken, RecordTypeOK
    <3>4. QED
      BY <1>8, <3>3 DEF Discards, RecordTypeOK
  <2>4. PublisherTypeOK'
    <3>1. PICK label \in {"restore", "asleep", "retry", Finish(p)} : Goto(p, label)
      BY <1>8 DEF Discards, NothingTaken, HeadTaken
    <3>2. label \in PublisherPc
      BY <3>1 DEF Finish, PublisherPc
    <3>3. QED
      BY <1>8, <3>1, <3>2 DEF Discards, Goto, PublisherTypeOK
  <2>5. QED
    BY <2>1, <2>2, <2>3, <2>4 DEF OwnerTypeOK, LoopTypeOK, WindowTypeOK
<1>9. CASE ReleaseFlowSlot(p)
  <2>1. UNCHANGED <<running_, owner, linkVars, recentKeys, passed, loopVars, boundVars>>
    BY <1>9 DEF ReleaseFlowSlot
  <2>2. LinkTypeOK'
    BY <1>9, DecrementedType DEF ReleaseFlowSlot, LinkTypeOK, PublisherTypeOK
  <2>3. RecordTypeOK'
    BY <1>9, ReturnType DEF ReleaseFlowSlot, RecordTypeOK
  <2>4. PublisherTypeOK'
    BY <1>9 DEF ReleaseFlowSlot, Return, Goto, Other, Links, PublisherTypeOK, PublisherPc
  <2>5. QED
    BY <2>1, <2>2, <2>3, <2>4 DEF OwnerTypeOK, LoopTypeOK, WindowTypeOK
<1>10. CASE FailoverAccount(p)
  <2>1. UNCHANGED <<running_, owner, linkVars, inflight, loopVars, boundVars>>
    BY <1>10 DEF FailoverAccount
  <2>2. RecordTypeOK' /\ PublisherTypeOK'
    BY <1>10, ReturnType DEF FailoverAccount, RecordTypeOK, PublisherTypeOK
  <2>3. WindowTypeOK'
    BY <1>10 DEF FailoverAccount, WindowTypeOK
  <2>4. QED
    BY <2>1, <2>2, <2>3 DEF OwnerTypeOK, LinkTypeOK, LoopTypeOK
<1>11. CASE RestoreFlags(p)
  <2>1. UNCHANGED <<running_, owner, open, queue, inflight, recentKeys, loopVars, cur,
                    target, code, attempt, histVars, boundVars>>
    BY <1>11 DEF RestoreFlags
  <2>2. LinkTypeOK'
    BY <1>11, <2>1 DEF RestoreFlags, LinkTypeOK
  <2>3. RecordTypeOK'
    BY <1>11, <2>1, BumpType DEF RestoreFlags, RecordTypeOK
  <2>4. PublisherTypeOK'
    BY <1>11 DEF RestoreFlags, Goto, PublisherTypeOK, PublisherPc
  <2>5. QED
    BY <2>1, <2>2, <2>3, <2>4 DEF OwnerTypeOK, LoopTypeOK, WindowTypeOK
<1>12. QED
  BY <1>1, <1>2, <1>3, <1>4, <1>5, <1>6, <1>7, <1>8, <1>9, <1>10, <1>11, PublishCases

\* A step of an inbound loop keeps TypeOK.
LEMMA TypeLoop ==
  ASSUME Inv, NEW l \in Links, LoopStep(l)
  PROVE  TypeOK'
<1> USE DEF Inv, TypeOK, pubVars, loopVars, linkVars, histVars, boundVars
<1> USE MessagesAssumption, LimitsAssumption
<1>0. poolQueue \in Seq(Links) /\ queue[l] \in Seq(Msgs) /\ Len(queue[l]) <= MaxMessages
  BY DEF LoopTypeOK, LinkTypeOK
<1>1. CASE LoopStart(l)
  <2>1. UNCHANGED <<running_, owner, linkVars, inflight, recentKeys, pubVars, count,
                    histVars, boundVars>>
    BY <1>1 DEF LoopStart
  <2>2. poolQueue' \in Seq(Links) /\ Len(poolQueue') <= PoolCapacity
    <3>1. poolQueue # <<>> /\ poolQueue' = Tail(poolQueue)
      BY <1>1 DEF LoopStart
    <3>2. Len(poolQueue) <= PoolCapacity /\ Len(poolQueue) \in Nat
      BY <1>0 DEF LoopTypeOK
    <3>3. QED
      BY <1>0, <3>1, <3>2, TailProperties
  <2>3. LoopTypeOK'
    BY <1>1, <2>2 DEF LoopStart, LoopGoto, LoopTypeOK, LoopPc
  <2>4. QED
    BY <2>1, <2>3 DEF OwnerTypeOK, LinkTypeOK, PublisherTypeOK, WindowTypeOK, RecordTypeOK
<1>2. CASE LoopTest(l)
  <2>1. UNCHANGED <<running_, owner, linkVars, inflight, recentKeys, pubVars, count,
                    histVars, boundVars>>
    BY <1>2 DEF LoopTest
  <2>2. LoopTypeOK'
    BY <1>2 DEF LoopTest, LoopGoto, LoopTypeOK, LoopPc
  <2>3. QED
    BY <2>1, <2>2 DEF OwnerTypeOK, LinkTypeOK, PublisherTypeOK, WindowTypeOK, RecordTypeOK
<1>3. CASE LoopReceive(l)
  <2>1. UNCHANGED <<running_, owner, recentKeys, pubVars, histVars, boundVars>>
    BY <1>3 DEF LoopReceive
  <2>2. /\ Head(queue[l]) \in Msgs /\ Tail(queue[l]) \in Seq(Msgs)
        /\ Len(Tail(queue[l])) <= MaxMessages
    <3>1. queue[l] # <<>> /\ Len(queue[l]) \in Nat
      BY <1>0, <1>3 DEF LoopReceive
    <3>2. QED
      BY <1>0, <3>1, TailProperties
  <2>3. LinkTypeOK'
    BY <1>3, <2>2, QueueType DEF LoopReceive, LinkTypeOK
  <2>4. LoopTypeOK'
    BY <1>3, <2>2 DEF LoopReceive, LoopGoto, LoopTypeOK, LoopPc
  <2>5. count' \in [CounterNames -> Nat]
    BY <1>3, BumpType DEF LoopReceive, RecordTypeOK
  <2>6. QED
    BY <2>1, <2>3, <2>4, <2>5 DEF OwnerTypeOK, PublisherTypeOK, WindowTypeOK, RecordTypeOK
<1>4. CASE LoopNothing(l)
  <2>1. UNCHANGED <<running_, owner, linkVars, inflight, recentKeys, pubVars,
                    histVars, sessions>>
    BY <1>4 DEF LoopNothing
  <2>2. LoopTypeOK' /\ faults' \in Nat
    BY <1>4 DEF LoopNothing, LoopGoto, LoopTypeOK, LoopPc, OwnerTypeOK
  <2>3. count' \in [CounterNames -> Nat]
    BY <1>4, BumpType DEF LoopNothing, RecordTypeOK
  <2>4. QED
    BY <2>1, <2>2, <2>3 DEF OwnerTypeOK, LinkTypeOK, PublisherTypeOK, WindowTypeOK, RecordTypeOK
<1>5. CASE LoopHandle(l)
  <2>1. UNCHANGED <<running_, owner, linkVars, inflight, recentKeys, pubVars,
                    outcome, sent, passed, straddled, boundVars>>
    BY <1>5 DEF LoopHandle
  <2>2. LoopTypeOK'
    BY <1>5 DEF LoopHandle, LoopGoto, LoopTypeOK, LoopPc
  <2>3. PICK v \in Verdicts[got[l]] :
          /\ end' = [end EXCEPT ![got[l]] = v]
          /\ router' = router \/ router' = [router EXCEPT ![got[l]] = RouterOf(l)]
          /\ Bump({v} \cap CounterNames)
    BY <1>5 DEF LoopHandle
  <2>4. got[l] \in Msgs /\ v \in VerdictNames
    BY <1>5 DEF LoopHandle, HandInv
  <2>5. count' \in [CounterNames -> Nat]
    BY <2>3, BumpType DEF RecordTypeOK
  <2>6. RecordTypeOK'
    BY <2>1, <2>3, <2>4, <2>5 DEF RecordTypeOK, RouterOf
  <2>7. QED
    BY <2>1, <2>2, <2>6 DEF OwnerTypeOK, LinkTypeOK, PublisherTypeOK, WindowTypeOK
<1>6. QED
  BY <1>1, <1>2, <1>3, <1>4, <1>5 DEF LoopStep

\* Closing links empties their queues.
LEMMA ReleaseType ==
  ASSUME TypeOK, NEW S \in SUBSET Links, Release(S)
  PROVE  /\ open' \in [Links -> BOOLEAN]
         /\ queue' \in [Links -> Seq(Msgs)]
         /\ \A l \in Links : Len(queue'[l]) <= MaxMessages
         /\ exposed' \subseteq Publishers
         /\ end' \in [Msgs -> VerdictNames \cup {"none", "discarded", "destroyed"}]
<1>1. << >> \in Seq(Msgs) /\ Len(<< >>) = 0 /\ MaxMessages \in Nat
  BY LimitsAssumption
<1>2. queue' \in [Links -> Seq(Msgs)] /\ \A l \in Links : Len(queue'[l]) <= MaxMessages
  BY <1>1 DEF Release, TypeOK, LinkTypeOK
<1>3. open' \in [Links -> BOOLEAN] /\ exposed' \subseteq Publishers
  BY DEF Release, TypeOK, LinkTypeOK
<1>4. end' \in [Msgs -> VerdictNames \cup {"none", "discarded", "destroyed"}]
  BY DEF Release, TypeOK, RecordTypeOK
<1>5. QED
  BY <1>2, <1>3, <1>4

\* A step of Start or Stop keeps TypeOK.
LEMMA TypeOwner ==
  ASSUME Inv, OwnerStep
  PROVE  TypeOK'
<1> USE DEF Inv, TypeOK, pubVars, loopVars, linkVars, histVars, boundVars
<1> USE MessagesAssumption, LimitsAssumption
<1>0. "v2r" \in Links /\ "r2v" \in Links
  BY DEF Links
<1>1. CASE StartBegin
  <2>1. UNCHANGED <<running_, linkVars, recentKeys, loopVars, pubVars, count,
                    outcome, sent, end, router, passed, faults>>
    BY <1>1 DEF StartBegin
  <2>2. OwnerTypeOK'
    BY <1>1 DEF StartBegin, OwnerTypeOK, OwnerPc
  <2>3. LinkTypeOK'
    <3>1. 0 \in 0 .. Modulus - 1
      BY ModulusFacts
    <3>2. inflight' \in [Links -> 0 .. Modulus - 1]
      BY <1>1, <3>1 DEF StartBegin, TunedInflight
    <3>3. QED
      BY <2>1, <3>2 DEF LinkTypeOK
  <2>4. straddled' \in BOOLEAN
    BY <1>1 DEF StartBegin
  <2>5. QED
    BY <2>1, <2>2, <2>3, <2>4 DEF LoopTypeOK, PublisherTypeOK, WindowTypeOK, RecordTypeOK
<1>2. ASSUME NEW S \in SUBSET Links, StartFails(S),
             UNCHANGED <<running_, inflight, recentKeys, loopVars, pubVars, count,
                         outcome, sent, router, passed, straddled, sessions>>
      PROVE  TypeOK'
  <2>1. Release(S)
    BY <1>2 DEF StartFails
  <2>2. OwnerTypeOK'
    BY <1>2 DEF StartFails, OwnerTypeOK, OwnerPc
  <2>3. LinkTypeOK' /\ RecordTypeOK'
    BY <1>2, <2>1, ReleaseType DEF LinkTypeOK, RecordTypeOK
  <2>4. QED
    BY <1>2, <2>2, <2>3 DEF LoopTypeOK, PublisherTypeOK, WindowTypeOK
<1>3. CASE StartCreateV2r \/ StartCreateR2v \/ StartPool
  <2>1. ASSUME NEW l \in Links, NEW next \in OwnerPc, Created(l, next),
               UNCHANGED <<running_, inflight, recentKeys, loopVars, pubVars, count,
                           outcome, sent, router, passed, straddled, sessions>>
        PROVE  TypeOK'
    <3>1. LinkTypeOK' /\ OwnerTypeOK'
      BY <2>1 DEF Created, LinkTypeOK, OwnerTypeOK
    <3>2. QED
      BY <2>1, <3>1 DEF Created, LoopTypeOK, PublisherTypeOK, WindowTypeOK, RecordTypeOK
  <2>2. CASE StartCreateV2r
    BY <1>0, <1>2, <2>1, <2>2 DEF StartCreateV2r, OwnerPc
  <2>3. CASE StartCreateR2v
    BY <1>0, <1>2, <2>1, <2>3 DEF StartCreateR2v, OwnerPc
  <2>4. CASE StartPool
    <3>1. ASSUME owner' = "setRunning", UNCHANGED <<linkVars, end, faults>>
          PROVE  TypeOK'
      BY <2>4, <3>1 DEF StartPool, OwnerTypeOK, OwnerPc, LinkTypeOK, LoopTypeOK,
                        PublisherTypeOK, WindowTypeOK, RecordTypeOK
    <3>2. QED
      BY <1>2, <2>4, <3>1 DEF StartPool
  <2>5. QED
    BY <1>3, <2>2, <2>3, <2>4
<1>4. CASE StartSetRunning \/ StopExchange \/ StopPool
  <2>1. UNCHANGED <<linkVars, inflight, recentKeys, poolQueue, got, pubVars, count,
                    histVars, boundVars>>
    BY <1>4 DEF StartSetRunning, StopExchange, StopPool
  <2>2. OwnerTypeOK' /\ LoopTypeOK'
    BY <1>4, <2>1 DEF StartSetRunning, StopExchange, StopPool, OwnerTypeOK, OwnerPc,
                      LoopTypeOK, LoopPc
  <2>3. QED
    BY <2>1, <2>2 DEF LinkTypeOK, PublisherTypeOK, WindowTypeOK, RecordTypeOK
<1>5. ASSUME NEW l \in Links, NEW here, NEW next \in OwnerPc, EnqueueLoop(l, here, next)
      PROVE  TypeOK'
  <2>1. UNCHANGED <<running_, linkVars, inflight, recentKeys, got, pubVars, count,
                    histVars, boundVars>>
    BY <1>5 DEF EnqueueLoop
  <2>2. OwnerTypeOK'
    BY <1>5, <2>1 DEF EnqueueLoop, OwnerTypeOK, OwnerPc
  <2>3. LoopTypeOK'
    <3>1. /\ Append(poolQueue, l) \in Seq(Links) /\ Len(poolQueue) \in Nat
          /\ Len(Append(poolQueue, l)) = Len(poolQueue) + 1
      BY DEF LoopTypeOK
    <3>2. CASE Len(poolQueue) < PoolCapacity
      <4>1. poolQueue' = Append(poolQueue, l) /\ loop' = [loop EXCEPT ![l] = "queued"]
        BY <1>5, <3>2 DEF EnqueueLoop, LoopGoto
      <4>2. poolQueue' \in Seq(Links) /\ Len(poolQueue') <= PoolCapacity
        BY <3>1, <3>2, <4>1
      <4>3. QED
        BY <2>1, <4>1, <4>2 DEF LoopTypeOK, LoopPc
    <3>3. CASE ~(Len(poolQueue) < PoolCapacity)
      BY <1>5, <3>3 DEF EnqueueLoop, LoopTypeOK
    <3>4. QED
      BY <3>2, <3>3
  <2>4. QED
    BY <2>1, <2>2, <2>3 DEF LinkTypeOK, PublisherTypeOK, WindowTypeOK, RecordTypeOK
<1>6. CASE StopClose
  <2>1. PICK S \in SUBSET Links : Release(S) /\ owner' \in OwnerPc
    BY <1>0, <1>6 DEF StopClose, OwnerPc
  <2>2. UNCHANGED <<running_, inflight, recentKeys, loopVars, pubVars, count,
                    outcome, sent, router, passed, straddled, boundVars>>
    BY <1>6 DEF StopClose
  <2>3. LinkTypeOK' /\ RecordTypeOK'
    BY <2>1, <2>2, ReleaseType DEF LinkTypeOK, RecordTypeOK
  <2>4. QED
    BY <2>1, <2>2, <2>3 DEF OwnerTypeOK, LoopTypeOK, PublisherTypeOK, WindowTypeOK
<1>7. QED
  BY <1>0, <1>1, <1>3, <1>4, <1>5, <1>6 DEF OwnerStep, StartEnqueue, OwnerPc

-----------------------------------------------------------------------------
(* What the actors do to the links and to each other's state.              *)

\* The queue of l is left alone, or gains a message, or loses its head.
QueueStep(l) ==
  \/ queue'[l] = queue[l]
  \/ /\ open[l] /\ Len(queue[l]) < MaxMessages
     /\ \E m \in Msgs : queue'[l] = Insert(queue[l], m, MsgPriority)
  \/ open[l] /\ queue[l] # <<>> /\ queue'[l] = Tail(queue[l])

\* A publisher touches only its own call, the counters and the open links.
LEMMA PublishFrame ==
  ASSUME Inv, NEW p \in Publishers, PublishAction(p)
  PROVE  /\ UNCHANGED <<running_, owner, open, loopVars, router, straddled, boundVars>>
         /\ \A l \in Links : QueueStep(l)
<1> USE DEF Inv, TypeOK, pubVars, loopVars, linkVars, histVars, boundVars
<1>0. queue \in [Links -> Seq(Msgs)] /\ target[p] \in Links
  BY DEF LinkTypeOK, PublisherTypeOK
<1>1. ASSUME NEW m \in Msgs, PublishRefuse(p, m) \/ PublishBegin(p, m)
      PROVE  UNCHANGED <<running_, owner, linkVars, loopVars, router, straddled, boundVars>>
  BY <1>1 DEF PublishRefuse, PublishBegin
<1>2. CASE Dedup(p) \/ AcquireFlowSlot(p) \/ UndoFlowSlot(p)
  BY <1>2 DEF Dedup, AcquireFlowSlot, UndoFlowSlot, QueueStep
<1>3. CASE ReleaseFlowSlot(p) \/ FailoverAccount(p) \/ \E c : SendFails(p, c)
  BY <1>3 DEF ReleaseFlowSlot, FailoverAccount, SendFails, QueueStep
<1>4. CASE SendOk(p)
  <2>1. cur[p] \in Msgs
    BY <1>4 DEF SendOk, CallInv, Sending
  <2>2. QED
    BY <1>0, <1>4, <2>1 DEF SendOk, QueueStep, Accepts
<1>5. CASE Discards(p)
  BY <1>0, <1>5 DEF Discards, NothingTaken, HeadTaken, QueueStep
<1>6. CASE RestoreFlags(p)
  BY <1>6 DEF RestoreFlags, QueueStep
<1>7. QED
  BY <1>1, <1>2, <1>3, <1>4, <1>5, <1>6, PublishCases DEF QueueStep

\* An inbound loop touches only itself, the pool's queue and its link.
LEMMA LoopFrame ==
  ASSUME Inv, NEW l \in Links, LoopStep(l)
  PROVE  /\ UNCHANGED <<running_, owner, open, inflight, recentKeys, pubVars,
                        outcome, sent, passed, straddled, sessions>>
         /\ \A k \in Links : QueueStep(k)
<1> USE DEF Inv, TypeOK, pubVars, loopVars, linkVars, histVars, boundVars
<1>0. queue \in [Links -> Seq(Msgs)]
  BY DEF LinkTypeOK
<1>1. CASE LoopStart(l) \/ LoopTest(l) \/ LoopNothing(l) \/ LoopHandle(l)
  BY <1>1 DEF LoopStart, LoopTest, LoopNothing, LoopHandle, QueueStep
<1>2. CASE LoopReceive(l)
  BY <1>0, <1>2 DEF LoopReceive, QueueStep
<1>3. QED
  BY <1>1, <1>2 DEF LoopStep

\* The owner touches the links and the loops, never a call of Publish.
LEMMA OwnerFrame ==
  ASSUME OwnerStep
  PROVE  UNCHANGED <<recentKeys, got, pubVars, count, outcome, sent, router, passed>>
<1> USE DEF pubVars, loopVars, linkVars, histVars, boundVars
<1>1. CASE StartBegin \/ StartCreateV2r \/ StartCreateR2v \/ StartPool
  BY <1>1 DEF StartBegin, StartCreateV2r, StartCreateR2v, StartPool
<1>2. CASE StartSetRunning \/ StartEnqueue \/ StopExchange \/ StopPool \/ StopClose
  BY <1>2 DEF StartSetRunning, StartEnqueue, EnqueueLoop, StopExchange, StopPool, StopClose
<1>3. QED
  BY <1>1, <1>2 DEF OwnerStep

-----------------------------------------------------------------------------
(* The calls, the loops and the phases of Start and Stop.                  *)

\* A call that returns gives its message back.
LEMMA ReturnCalls ==
  ASSUME TypeOK, CallInv, NEW p \in Publishers, pc[p] # "idle",
         NEW o, NEW S, Return(p, o, S), UNCHANGED <<target, code>>
  PROVE  CallInv'
<1> USE MessagesAssumption DEF TypeOK, PublisherTypeOK
<1>1. /\ pc' = [pc EXCEPT ![p] = "idle"] /\ cur' = [cur EXCEPT ![p] = NoMsg]
      /\ outcome' = [outcome EXCEPT ![cur[p]] = o]
  BY DEF Return, Goto
<1>2. \A r \in Publishers \ {p} : pc[r] # "idle" =>
        cur[r] \in Msgs /\ cur[r] # cur[p] /\ outcome'[cur[r]] = outcome[cur[r]]
  BY <1>1 DEF CallInv, RecordTypeOK
<1>3. QED
  BY <1>1, <1>2 DEF CallInv

\* A call that goes on keeps its message.
LEMMA GotoCalls ==
  ASSUME TypeOK, CallInv, NEW p \in Publishers, pc[p] # "idle",
         NEW label \in PublisherPc \ {"idle"}, Goto(p, label),
         UNCHANGED <<cur, outcome>>,
         \A r \in Publishers \ {p} : target'[r] = target[r] /\ code'[r] = code[r],
         label \in {"dedup", "acquire", "undo", "release"} =>
           target'[p] = MsgLink[cur[p]],
         label \in {"discard", "asleep", "restore"} =>
           code'[p] \in {"timeout", "wouldBlock"}
  PROVE  CallInv'
BY DEF Goto, CallInv, TypeOK, PublisherTypeOK

\* A step of a publisher keeps CallInv.
LEMMA CallPublish ==
  ASSUME Inv, NEW p \in Publishers, PublishAction(p)
  PROVE  CallInv'
<1> USE DEF Inv, pubVars, loopVars, linkVars, histVars, boundVars
<1>0. /\ target \in [Publishers -> Links] /\ code \in [Publishers -> {"ok", "timeout", "wouldBlock", "invalid"}]
      /\ pc \in [Publishers -> PublisherPc]
  BY DEF TypeOK, PublisherTypeOK
<1>1. ASSUME NEW m \in Msgs, PublishRefuse(p, m) PROVE CallInv'
  <2>1. /\ UNCHANGED pubVars /\ outcome[m] = "new"
        /\ outcome' = [outcome EXCEPT ![m] = "refused"]
    BY <1>1 DEF PublishRefuse
  <2>2. \A r \in Publishers : pc[r] # "idle" => outcome'[cur[r]] = outcome[cur[r]]
    BY <2>1 DEF CallInv, TypeOK, RecordTypeOK
  <2>3. QED
    BY <2>1, <2>2 DEF CallInv
<1>2. ASSUME NEW m \in Msgs, PublishBegin(p, m) PROVE CallInv'
  <2>1. /\ pc' = [pc EXCEPT ![p] = "dedup"] /\ cur' = [cur EXCEPT ![p] = m]
        /\ target' = [target EXCEPT ![p] = MsgLink[m]] /\ code' = code
        /\ outcome' = [outcome EXCEPT ![m] = "inProgress"]
        /\ outcome[m] = "new"
    BY <1>2 DEF PublishBegin, Goto
  <2>2. \A r \in Publishers \ {p} :
          /\ cur[r] # m
          /\ pc[r] # "idle" => cur[r] \in Msgs /\ outcome'[cur[r]] = "inProgress"
    BY <2>1, MessagesAssumption DEF CallInv, TypeOK, RecordTypeOK
  <2>3. QED
    BY <2>1, <2>2 DEF CallInv, TypeOK, PublisherTypeOK, RecordTypeOK
<1>3. CASE Dedup(p)
  <2>1. ASSUME Goto(p, "acquire"), UNCHANGED <<cur, outcome>> PROVE CallInv'
    <3>1. target'[p] = MsgLink[cur[p]] /\ UNCHANGED <<target, code>>
      BY <1>3 DEF Dedup, CallInv
    <3>2. QED
      BY <1>3, <2>1, <3>1, GotoCalls DEF Dedup, PublisherPc
  <2>2. QED
    BY <1>3, <2>1, ReturnCalls DEF Dedup
<1>4. CASE AcquireFlowSlot(p)
  <2>1. target'[p] = MsgLink[cur[p]] /\ UNCHANGED <<target, code, cur, outcome>>
    BY <1>4 DEF AcquireFlowSlot, CallInv
  <2>2. QED
    BY <1>4, <2>1, GotoCalls DEF AcquireFlowSlot, PublisherPc
<1>5. CASE UndoFlowSlot(p)
  BY <1>5, ReturnCalls DEF UndoFlowSlot
<1>6. CASE SendOk(p)
  <2>1. \A r \in Publishers \ {p} : target'[r] = target[r] /\ code'[r] = code[r]
    BY <1>0, <1>6 DEF SendOk
  <2>2. UNCHANGED <<cur, outcome, target>> /\ pc[p] # "idle" /\ Goto(p, Finish(p))
    BY <1>6 DEF SendOk, Sending
  <2>3. QED
    BY <2>1, <2>2, GotoCalls DEF Finish, PublisherPc
<1>7. ASSUME NEW c \in {"timeout", "wouldBlock", "invalid"}, SendFails(p, c) PROVE CallInv'
  <2>1. \A r \in Publishers \ {p} : target'[r] = target[r] /\ code'[r] = code[r]
    BY <1>0, <1>7 DEF SendFails
  <2>2. UNCHANGED <<cur, outcome, target>> /\ pc[p] # "idle" /\ Goto(p, Sequel(p, c))
    BY <1>7 DEF SendFails, Sending
  <2>3. Sequel(p, c) = "discard" => code'[p] \in {"timeout", "wouldBlock"}
    BY <1>0, <1>7 DEF SendFails, Sequel, Finish
  <2>4. /\ Sequel(p, c) \in PublisherPc \ {"idle", "dedup", "acquire", "undo", "asleep",
                                            "restore"}
        /\ Sequel(p, c) = "release" => target[p] = MsgLink[cur[p]]
    BY DEF Sequel, Finish, PublisherPc
  <2>5. QED
    BY <2>1, <2>2, <2>3, <2>4, GotoCalls
<1>8. CASE Discards(p)
  <2>1. PICK label \in {"restore", "asleep", "retry", Finish(p)} : Goto(p, label)
    BY <1>8 DEF Discards, NothingTaken, HeadTaken
  <2>2. /\ label \in PublisherPc \ {"idle", "dedup", "acquire", "undo", "discard"}
        /\ label = "release" => target[p] = MsgLink[cur[p]]
    BY <2>1 DEF Finish, PublisherPc
  <2>3. /\ UNCHANGED <<cur, outcome, target, code>> /\ pc[p] # "idle"
        /\ code[p] \in {"timeout", "wouldBlock"}
    BY <1>8 DEF Discards, CallInv
  <2>4. QED
    BY <2>1, <2>2, <2>3, GotoCalls
<1>9. CASE ReleaseFlowSlot(p)
  <2>1. ASSUME Goto(p, "send"), UNCHANGED <<cur, outcome>>,
               target' = [target EXCEPT ![p] = Other(@)]
        PROVE  CallInv'
    <3>1. \A r \in Publishers \ {p} : target'[r] = target[r] /\ code'[r] = code[r]
      BY <1>0, <1>9, <2>1 DEF ReleaseFlowSlot
    <3>2. QED
      BY <1>9, <2>1, <3>1, GotoCalls DEF ReleaseFlowSlot, PublisherPc
  <2>2. QED
    BY <1>9, <2>1, ReturnCalls DEF ReleaseFlowSlot
<1>10. CASE FailoverAccount(p)
  BY <1>10, ReturnCalls DEF FailoverAccount
<1>11. CASE RestoreFlags(p)
  BY <1>11, GotoCalls DEF RestoreFlags, PublisherPc
<1>12. QED
  BY <1>1, <1>2, <1>3, <1>4, <1>5, <1>6, <1>7, <1>8, <1>9, <1>10, <1>11, PublishCases DEF TypeOK

\* A step of a publisher keeps the invariant.
LEMMA InvPublish ==
  ASSUME Inv, NEW p \in Publishers, PublishAction(p)
  PROVE  Inv'
<1>1. /\ UNCHANGED <<running_, owner, open, poolQueue, loop, got>>
      /\ \A l \in Links : QueueStep(l)
  BY PublishFrame DEF loopVars
<1>2. HandInv' /\ PoolInv'
  BY <1>1 DEF Inv, HandInv, PoolInv
<1>3. \A l \in Links : ~open[l] => queue'[l] = queue[l]
  BY <1>1 DEF QueueStep
<1>4. LifeInv'
  BY <1>1, <1>3 DEF Inv, LifeInv
<1>5. QED
  BY <1>2, <1>4, TypePublish, CallPublish DEF Inv

\* A step of an inbound loop keeps the invariant.
LEMMA InvLoop ==
  ASSUME Inv, NEW l \in Links, LoopStep(l)
  PROVE  Inv'
<1> USE DEF Inv
<1>0. /\ UNCHANGED <<running_, owner, open, pubVars, outcome>>
      /\ \A k \in Links : QueueStep(k)
      /\ loop \in [Links -> LoopPc] /\ got \in [Links -> Msgs \cup {NoMsg}]
      /\ poolQueue \in Seq(Links) /\ queue[l] \in Seq(Msgs)
  BY LoopFrame DEF TypeOK, LoopTypeOK, LinkTypeOK
<1>1. CallInv'
  BY <1>0 DEF CallInv, pubVars
<1>2. \A k \in Links : ~open[k] => queue'[k] = queue[k]
  BY <1>0 DEF QueueStep
<1>3. CASE LoopStart(l)
  <2>1. /\ poolQueue # <<>> /\ Head(poolQueue) = l /\ poolQueue' = Tail(poolQueue)
        /\ loop' = [loop EXCEPT ![l] = "test"] /\ got' = got
    BY <1>3 DEF LoopStart, LoopGoto
  <2>2. /\ Head(poolQueue) = poolQueue[1] /\ 1 \in DOMAIN poolQueue
        /\ \A i \in DOMAIN poolQueue' : /\ i \in Nat /\ i + 1 \in DOMAIN poolQueue
                                        /\ poolQueue'[i] = poolQueue[i + 1]
    BY <1>0, <2>1, TailProperties
  <2>3. loop[l] = "queued"
    BY <2>1, <2>2 DEF PoolInv
  <2>4. ASSUME NEW i \in DOMAIN poolQueue' PROVE poolQueue'[i] \in Links \ {l}
    <3>1. i + 1 # 1 /\ poolQueue[i + 1] \in Links
      BY <1>0, <2>2
    <3>2. QED
      BY <2>1, <2>2, <3>1 DEF PoolInv
  <2>5. \A i \in DOMAIN poolQueue' : loop'[poolQueue'[i]] = "queued"
    BY <1>0, <2>1, <2>2, <2>4 DEF PoolInv
  <2>6. ASSUME NEW i \in DOMAIN poolQueue', NEW j \in DOMAIN poolQueue',
               poolQueue'[i] = poolQueue'[j]
        PROVE  i = j
    <3>1. i + 1 = j + 1
      BY <2>2, <2>6 DEF PoolInv
    <3>2. QED
      BY <2>2, <3>1
  <2>7. HandInv' /\ PoolInv'
    BY <1>0, <2>1, <2>3, <2>5, <2>6 DEF HandInv, PoolInv
  <2>8. LifeInv'
    BY <1>0, <1>2, <2>1, <2>3 DEF LifeInv
  <2>9. QED
    BY <1>1, <2>7, <2>8, TypeLoop
<1>4. CASE LoopTest(l) \/ LoopReceive(l) \/ LoopNothing(l) \/ LoopHandle(l)
  <2>1. /\ loop[l] \in {"test", "receive", "handle"} /\ poolQueue' = poolQueue
        /\ \E label \in {"test", "receive", "handle", "exited"} : loop' = [loop EXCEPT ![l] = label]
    BY <1>4 DEF LoopTest, LoopReceive, LoopNothing, LoopHandle, LoopGoto
  <2>2. PoolInv'
    BY <1>0, <2>1 DEF PoolInv
  <2>3. LifeInv'
    BY <1>0, <1>2, <2>1 DEF LifeInv
  <2>4. HandInv'
    <3>1. CASE LoopTest(l) \/ LoopNothing(l)
      BY <1>0, <3>1 DEF LoopTest, LoopNothing, LoopGoto, HandInv
    <3>2. CASE LoopReceive(l)
      <4>1. Head(queue[l]) \in Msgs
        BY <1>0, <3>2, TailProperties DEF LoopReceive
      <4>2. QED
        BY <1>0, <3>2, <4>1 DEF LoopReceive, LoopGoto, HandInv
    <3>3. CASE LoopHandle(l)
      BY <1>0, <3>3 DEF LoopHandle, LoopGoto, HandInv
    <3>4. QED
      BY <1>4, <3>1, <3>2, <3>3
  <2>5. QED
    BY <1>1, <2>2, <2>3, <2>4, TypeLoop
<1>5. QED
  BY <1>3, <1>4 DEF LoopStep

\* A step of Start or Stop keeps the invariant.
LEMMA InvOwner ==
  ASSUME Inv, OwnerStep
  PROVE  Inv'
<1> USE DEF Inv, Links, loopVars, linkVars
<1>0. /\ UNCHANGED <<got, pubVars, outcome>>
      /\ loop \in [Links -> LoopPc] /\ open \in [Links -> BOOLEAN]
      /\ queue \in [Links -> Seq(Msgs)] /\ poolQueue \in Seq(Links)
  BY OwnerFrame DEF TypeOK, LoopTypeOK, LinkTypeOK
<1>1. CallInv'
  BY <1>0 DEF CallInv, pubVars
<1>2. CASE StartBegin \/ StartSetRunning \/ StopExchange
  <2>1. UNCHANGED <<open, queue, loopVars>>
    BY <1>2 DEF StartBegin, StartSetRunning, StopExchange
  <2>2. HandInv' /\ PoolInv'
    BY <2>1 DEF HandInv, PoolInv
  <2>3. LifeInv'
    BY <1>2, <2>1 DEF StartBegin, StartSetRunning, StopExchange, LifeInv
  <2>4. QED
    BY <1>1, <2>2, <2>3, TypeOwner
<1>3. CASE StartCreateV2r \/ StartCreateR2v \/ StartPool \/ StopClose
  <2>1. UNCHANGED <<running_, loopVars>>
    BY <1>3 DEF StartCreateV2r, StartCreateR2v, StartPool, StopClose
  <2>2. HandInv' /\ PoolInv'
    BY <2>1 DEF HandInv, PoolInv
  <2>3. LifeInv'
    <3>1. CASE StartCreateV2r
      BY <1>0, <2>1, <3>1 DEF StartCreateV2r, Created, StartFails, Release, LifeInv
    <3>2. CASE StartCreateR2v
      BY <1>0, <2>1, <3>2 DEF StartCreateR2v, Created, StartFails, Release, LifeInv
    <3>3. CASE StartPool
      <4>1. CASE owner' = "setRunning" /\ UNCHANGED <<open, queue>>
        BY <2>1, <3>3, <4>1 DEF StartPool, LifeInv
      <4>2. CASE StartFails(Links)
        <5>1. /\ owner = "startPool" /\ owner' = "idle"
              /\ \A k \in Links : open'[k] = FALSE /\ queue'[k] = <<>>
          BY <3>3, <4>2 DEF StartPool, StartFails, Release
        <5>2. QED
          BY <2>1, <5>1 DEF LifeInv
      <4>3. QED
        BY <3>3, <4>1, <4>2 DEF StartPool
    <3>4. CASE StopClose
      <4>1. CASE owner = "closeV2r"
        <5>1. /\ owner' = "closeR2v" /\ open'["v2r"] = FALSE /\ queue'["v2r"] = <<>>
              /\ (open'["r2v"] <=> open["r2v"]) /\ queue'["r2v"] = queue["r2v"]
          BY <1>0, <3>4, <4>1 DEF StopClose, Release
        <5>2. QED
          BY <2>1, <4>1, <5>1 DEF LifeInv
      <4>2. CASE owner = "closeR2v"
        <5>1. /\ owner' = "idle" /\ open'["r2v"] = FALSE /\ queue'["r2v"] = <<>>
              /\ (open'["v2r"] <=> open["v2r"]) /\ queue'["v2r"] = queue["v2r"]
          BY <1>0, <3>4, <4>2 DEF StopClose, Release
        <5>2. QED
          BY <2>1, <4>2, <5>1 DEF LifeInv
      <4>3. QED
        BY <3>4, <4>1, <4>2 DEF StopClose
    <3>5. QED
      BY <1>3, <3>1, <3>2, <3>3, <3>4
  <2>4. QED
    BY <1>1, <2>2, <2>3, TypeOwner
<1>4. ASSUME NEW l \in Links, NEW here, NEW next, EnqueueLoop(l, here, next),
             loop[l] = "absent",
             <<l, here, next>> \in {<<"v2r", "enqueueV2r", "enqueueR2v">>,
                                    <<"r2v", "enqueueR2v", "idle">>}
      PROVE  Inv'
  <2>1. UNCHANGED <<running_, open, queue>>
    BY <1>4 DEF EnqueueLoop
  <2>2. CASE UNCHANGED <<poolQueue, loop>> /\ owner' = "abort"
    BY <1>0, <1>1, <1>4, <2>1, <2>2, TypeOwner DEF EnqueueLoop, HandInv, PoolInv, LifeInv
  <2>3. CASE /\ poolQueue' = Append(poolQueue, l) /\ loop' = [loop EXCEPT ![l] = "queued"]
             /\ owner' = next
    <3>1. HandInv'
      BY <1>0, <1>4, <2>3 DEF HandInv
    <3>2. LifeInv'
      BY <1>0, <1>4, <2>1, <2>3 DEF EnqueueLoop, LifeInv
    <3>3. \A i \in DOMAIN poolQueue : poolQueue[i] \in Links \ {l}
      BY <1>0, <1>4 DEF PoolInv
    <3>4. /\ DOMAIN poolQueue = 1 .. Len(poolQueue) /\ Len(poolQueue) \in Nat
          /\ DOMAIN poolQueue' = 1 .. Len(poolQueue) + 1
          /\ poolQueue'[Len(poolQueue) + 1] = l
          /\ \A i \in DOMAIN poolQueue : poolQueue'[i] = poolQueue[i]
      BY <1>0, <2>3
    <3>5. PoolInv'
      BY <1>0, <2>3, <3>3, <3>4 DEF PoolInv
    <3>6. QED
      BY <1>1, <3>1, <3>2, <3>5, TypeOwner
  <2>4. QED
    BY <1>4, <2>2, <2>3 DEF EnqueueLoop, LoopGoto
<1>5. CASE StartEnqueue
  <2>1. CASE EnqueueLoop("v2r", "enqueueV2r", "enqueueR2v")
    BY <1>4, <2>1 DEF EnqueueLoop, LifeInv
  <2>2. CASE EnqueueLoop("r2v", "enqueueR2v", "idle")
    BY <1>4, <2>2 DEF EnqueueLoop, LifeInv
  <2>3. QED
    BY <1>5, <2>1, <2>2 DEF StartEnqueue
<1>6. CASE StopPool
  <2>1. /\ loop' = [k \in Links |-> "absent"] /\ owner = "stopPool" /\ owner' = "closeV2r"
        /\ \A k \in Links : loop[k] \in {"absent", "exited"}
        /\ UNCHANGED <<running_, open, queue, poolQueue>>
    BY <1>6 DEF StopPool
  <2>2. HandInv' /\ PoolInv'
    <3>1. \A i \in DOMAIN poolQueue : poolQueue[i] \in Links
      BY <1>0
    <3>2. \A i \in DOMAIN poolQueue : FALSE
      BY <2>1, <3>1 DEF PoolInv
    <3>3. QED
      BY <1>0, <2>1, <3>2 DEF PoolInv, HandInv
  <2>3. LifeInv'
    BY <2>1 DEF LifeInv
  <2>4. QED
    BY <1>1, <2>2, <2>3, TypeOwner
<1>7. QED
  BY <1>2, <1>3, <1>5, <1>6 DEF OwnerStep

\* Every step of the system keeps the invariant.
LEMMA InvNext == Inv /\ [Next]_vars => Inv'
<1> SUFFICES ASSUME Inv, [Next]_vars PROVE Inv'
  OBVIOUS
<1>1. CASE UNCHANGED vars
  BY <1>1 DEF vars, pubVars, loopVars, linkVars, histVars, boundVars, Inv, TypeOK,
              OwnerTypeOK, LinkTypeOK, LoopTypeOK, PublisherTypeOK, WindowTypeOK,
              RecordTypeOK, CallInv, HandInv, PoolInv, LifeInv
<1>2. CASE Next
  BY <1>2, InvPublish, InvLoop, InvOwner, NextByActor
<1>3. QED
  BY <1>1, <1>2

\* The bounds hold for every configuration: no queue, window, retry or inflight
\* counter leaves its range.
THEOREM BridgeTypeOK == Spec => []TypeOK
<1>1. Inv => TypeOK
  BY DEF Inv
<1>2. QED
  BY <1>1, InvInit, InvNext, PTL DEF Spec

\* Stop joins the inbound loops before it closes a transport, and a Start that
\* fails closes before a loop exists: no loop reads a closed transport.
THEOREM BridgeLoopsReadOpenLinks == Spec => []LoopsReadOpenLinks
<1>1. Inv => LoopsReadOpenLinks
  BY DEF Inv, LifeInv, LoopsReadOpenLinks, Links
<1>2. QED
  BY <1>1, InvInit, InvNext, PTL DEF Spec

\* After Stop, and after a Start that failed anywhere, both transports are
\* closed, their queues are gone and no loop is left.
THEOREM BridgeStoppedReleased == Spec => []StoppedReleased
<1>1. Inv => StoppedReleased
  BY DEF Inv, LifeInv, StoppedReleased, Links
<1>2. QED
  BY <1>1, InvInit, InvNext, PTL DEF Spec

-----------------------------------------------------------------------------
(* Each link implements the abstract transport.                            *)

\* What the owner does to a link: nothing, Create, or Close and Unlink.
LEMMA OwnerOnLinks ==
  ASSUME Inv, OwnerStep, NEW l \in Links
  PROVE  \/ open'[l] = open[l] /\ queue'[l] = queue[l]
         \/ ~open[l] /\ open'[l] = TRUE /\ queue'[l] = queue[l]
         \/ open[l] /\ open'[l] = FALSE /\ queue'[l] = <<>>
<1> USE DEF linkVars, Inv, Links
<1>0. open \in [Links -> BOOLEAN] /\ queue \in [Links -> Seq(Msgs)]
  BY DEF TypeOK, LinkTypeOK
<1>1. CASE \/ StartBegin \/ StartSetRunning \/ StartEnqueue \/ StopExchange \/ StopPool
  BY <1>1 DEF StartBegin, StartSetRunning, StartEnqueue, EnqueueLoop, StopExchange, StopPool
<1>2. ASSUME NEW k \in Links, NEW next, Created(k, next), ~open[k]
      PROVE  \/ open'[l] = open[l] /\ queue'[l] = queue[l]
             \/ ~open[l] /\ open'[l] = TRUE /\ queue'[l] = queue[l]
  <2>1. CASE l = k
    BY <1>0, <1>2, <2>1 DEF Created
  <2>2. CASE l # k
    BY <1>0, <1>2, <2>2 DEF Created
  <2>3. QED
    BY <2>1, <2>2
<1>3. ASSUME NEW S \in SUBSET Links, Release(S), \A k \in S : open[k]
      PROVE  \/ open'[l] = open[l] /\ queue'[l] = queue[l]
             \/ open[l] /\ open'[l] = FALSE /\ queue'[l] = <<>>
  <2>1. CASE l \in S
    BY <1>3, <2>1 DEF Release
  <2>2. CASE l \notin S
    BY <1>0, <1>3, <2>2 DEF Release
  <2>3. QED
    BY <2>1, <2>2
<1>4. CASE StartCreateV2r
  BY <1>2, <1>3, <1>4 DEF StartCreateV2r, StartFails, LifeInv
<1>5. CASE StartCreateR2v
  BY <1>2, <1>3, <1>5 DEF StartCreateR2v, StartFails, LifeInv
<1>6. CASE StartPool
  BY <1>3, <1>6 DEF StartPool, StartFails, LifeInv
<1>7. CASE StopClose
  BY <1>3, <1>7 DEF StopClose, LifeInv
<1>8. QED
  BY <1>1, <1>4, <1>5, <1>6, <1>7 DEF OwnerStep

\* What any step does to a link is a step of a transport or none at all.
LinkStep(l) ==
  \/ open'[l] = open[l] /\ queue'[l] = queue[l]
  \/ ~open[l] /\ open'[l] = TRUE /\ queue'[l] = queue[l]
  \/ open[l] /\ open'[l] = FALSE /\ queue'[l] = <<>>
  \/ open'[l] = open[l] /\ QueueStep(l)

\* Every step of the system does to a link what LinkStep says.
LEMMA NextOnLinks ==
  ASSUME Inv, [Next]_vars, NEW l \in Links
  PROVE  LinkStep(l)
<1>1. CASE UNCHANGED vars
  BY <1>1 DEF vars, linkVars, LinkStep
<1>2. CASE OwnerStep
  BY <1>2, OwnerOnLinks DEF LinkStep
<1>3. ASSUME NEW p \in Publishers, PublishAction(p) PROVE LinkStep(l)
  BY <1>3, PublishFrame DEF LinkStep
<1>4. ASSUME NEW k \in Links, LoopStep(k) PROVE LinkStep(l)
  BY <1>4, LoopFrame DEF LinkStep
<1>5. QED
  BY <1>1, <1>2, <1>3, <1>4, NextByActor

\* Seen from either side, a link is a transport, whatever publishers, loops and
\* the owner interleave.
THEOREM BridgeLinksAreTransports == Spec => LinksAreTransports
<1>1. Init => V2r!Init /\ R2v!Init
  BY DEF Init, V2r!Init, R2v!Init, Links
<1>2. Inv /\ [Next]_vars => [V2r!Next]_<<open["v2r"], queue["v2r"]>>
  <2> SUFFICES ASSUME Inv, [Next]_vars, ~ UNCHANGED <<open["v2r"], queue["v2r"]>>
               PROVE  V2r!Next
    OBVIOUS
  <2>1. LinkStep("v2r")
    BY NextOnLinks DEF Links
  <2>2. ASSUME NEW m \in Msgs
        PROVE  Insert(queue["v2r"], m, MsgPriority) = V2r!Insert(queue["v2r"], m, MsgPriority)
    BY DEF Insert, V2r!Insert, InsertBehind, V2r!InsertBehind, Cardinality,
           V2r!Cardinality
  <2>3. QED
    BY <2>1, <2>2 DEF LinkStep, QueueStep, V2r!Next, V2r!Create, V2r!Put,
                      V2r!TakeHead, V2r!Close
<1>3. Inv /\ [Next]_vars => [R2v!Next]_<<open["r2v"], queue["r2v"]>>
  <2> SUFFICES ASSUME Inv, [Next]_vars, ~ UNCHANGED <<open["r2v"], queue["r2v"]>>
               PROVE  R2v!Next
    OBVIOUS
  <2>1. LinkStep("r2v")
    BY NextOnLinks DEF Links
  <2>2. ASSUME NEW m \in Msgs
        PROVE  Insert(queue["r2v"], m, MsgPriority) = R2v!Insert(queue["r2v"], m, MsgPriority)
    BY DEF Insert, R2v!Insert, InsertBehind, R2v!InsertBehind, Cardinality,
           R2v!Cardinality
  <2>3. QED
    BY <2>1, <2>2 DEF LinkStep, QueueStep, R2v!Next, R2v!Create, R2v!Put,
                      R2v!TakeHead, R2v!Close
<1>4. QED
  BY <1>1, <1>2, <1>3, InvInit, InvNext, PTL
     DEF Spec, LinksAreTransports, V2r!Spec, R2v!Spec

-----------------------------------------------------------------------------
(* The flow slots.                                                         *)

\* Publisher p owns a slot of link l, or is about to undo one.
Slot(p, l) ==
  /\ pc[p] \in {"undo", "send", "discard", "asleep", "restore", "resend", "retry",
                "release"}
  /\ target[p] = l /\ MsgLink[cur[p]] = l

\* What FlowAccounting says of one link.
FlowOn(l) ==
  /\ inflight[l] = Cardinality(Holders(l))
  /\ Cardinality({p \in Holders(l) : pc[p] # "undo"}) <= FlowLimit

\* There are no more holders than publishers, so the counter cannot wrap.
LEMMA HoldersCount ==
  ASSUME NEW l
  PROVE  /\ IsFiniteSet(Holders(l)) /\ Cardinality(Holders(l)) \in Nat
         /\ FlowLimit + Cardinality(Holders(l)) < Modulus
         /\ IsFiniteSet({p \in Holders(l) : pc[p] # "undo"})
         /\ Cardinality({p \in Holders(l) : pc[p] # "undo"}) \in Nat
         /\ Cardinality({p \in Holders(l) : pc[p] # "undo"}) <= Cardinality(Holders(l))
<1>1. Holders(l) \subseteq Publishers
  BY DEF Holders
<1>2. /\ IsFiniteSet(Holders(l)) /\ Cardinality(Holders(l)) \in Nat
      /\ Cardinality(Holders(l)) <= Cardinality(Publishers)
      /\ Cardinality(Publishers) \in Nat
  BY <1>1, LimitsAssumption, FS_Subset, FS_CardinalityType
<1>3. {p \in Holders(l) : pc[p] # "undo"} \subseteq Holders(l)
  OBVIOUS
<1>4. /\ IsFiniteSet({p \in Holders(l) : pc[p] # "undo"})
      /\ Cardinality({p \in Holders(l) : pc[p] # "undo"}) <= Cardinality(Holders(l))
      /\ Cardinality({p \in Holders(l) : pc[p] # "undo"}) \in Nat
  BY <1>2, <1>3, FS_Subset, FS_CardinalityType
<1>5. QED
  BY <1>2, <1>4, LimitsAssumption

\* The publishers other than p are where they were.
OthersStay(p) ==
  \A r \in Publishers \ {p} : pc'[r] = pc[r] /\ cur'[r] = cur[r] /\ target'[r] = target[r]

\* A step of p that neither takes nor gives back a slot.
LEMMA SlotKept ==
  ASSUME NEW p \in Publishers, OthersStay(p), NEW l \in Links, FlowOn(l),
         inflight'[l] = inflight[l], Slot(p, l)' <=> Slot(p, l),
         Slot(p, l) => (pc'[p] = "undo" <=> pc[p] = "undo")
  PROVE  FlowOn(l)'
<1>1. Holders(l)' = Holders(l)
  BY DEF Holders, Slot, OthersStay
<1>2. {r \in Holders(l)' : pc'[r] # "undo"} = {r \in Holders(l) : pc[r] # "undo"}
  BY <1>1 DEF Holders, Slot, OthersStay
<1>3. QED
  BY <1>1, <1>2 DEF FlowOn

\* p gives its slot back: fetch_sub never goes below zero.
LEMMA SlotGiven ==
  ASSUME NEW p \in Publishers, OthersStay(p), NEW l \in Links, FlowOn(l),
         Slot(p, l), ~Slot(p, l)', inflight' = Decremented(l), l \in DOMAIN inflight
  PROVE  FlowOn(l)'
<1>1. p \in Holders(l) /\ Holders(l)' = Holders(l) \ {p}
  BY DEF Holders, Slot, OthersStay
<1>2. {r \in Holders(l)' : pc'[r] # "undo"} \subseteq {r \in Holders(l) : pc[r] # "undo"}
  BY <1>1 DEF Holders, Slot, OthersStay
<1>3. /\ Cardinality(Holders(l)') = Cardinality(Holders(l)) - 1
      /\ Cardinality(Holders(l)) \in Nat /\ Cardinality(Holders(l)) # 0
      /\ Cardinality(Holders(l)) < Modulus /\ Modulus \in Nat /\ FlowLimit \in Nat
  <2>1. /\ IsFiniteSet(Holders(l)) /\ Cardinality(Holders(l)) \in Nat
        /\ FlowLimit + Cardinality(Holders(l)) < Modulus
        /\ Modulus \in Nat /\ FlowLimit \in Nat
    BY HoldersCount, LimitsAssumption
  <2>2. Cardinality(Holders(l)) < Modulus
    BY <2>1
  <2>3. Cardinality(Holders(l)) # 0
    BY <1>1, <2>1, FS_EmptySet
  <2>4. Cardinality(Holders(l) \ {p}) = Cardinality(Holders(l)) - 1
    BY <1>1, <2>1, FS_RemoveElement
  <2>5. QED
    BY <1>1, <2>1, <2>2, <2>3, <2>4
<1>4. inflight[l] = Cardinality(Holders(l))
  BY DEF FlowOn
<1>5. inflight'[l] = (inflight[l] + Modulus - 1) % Modulus
  BY DEF Decremented
<1>6. inflight'[l] = Cardinality(Holders(l)')
  BY <1>3, <1>4, <1>5
<1>7. Cardinality({r \in Holders(l)' : pc'[r] # "undo"})
        <= Cardinality({r \in Holders(l) : pc[r] # "undo"})
  BY <1>2, HoldersCount, FS_Subset
<1>8. /\ Cardinality({r \in Holders(l)' : pc'[r] # "undo"}) \in Nat
      /\ Cardinality({r \in Holders(l) : pc[r] # "undo"}) \in Nat
  BY <1>2, HoldersCount, FS_Subset, FS_CardinalityType
<1>9. Cardinality({r \in Holders(l)' : pc'[r] # "undo"}) <= FlowLimit
  BY <1>3, <1>7, <1>8 DEF FlowOn
<1>10. QED
  BY <1>6, <1>9 DEF FlowOn

\* p takes a slot, to keep it only if the counter stayed within the limit.
LEMMA SlotTaken ==
  ASSUME NEW p \in Publishers, OthersStay(p), NEW l \in Links, FlowOn(l),
         ~Slot(p, l), Slot(p, l)', inflight'[l] = (inflight[l] + 1) % Modulus,
         pc'[p] # "undo" => inflight'[l] <= FlowLimit
  PROVE  FlowOn(l)'
<1>1. p \notin Holders(l) /\ Holders(l)' = Holders(l) \cup {p}
  BY DEF Holders, Slot, OthersStay
<1>2. /\ Cardinality(Holders(l)') = Cardinality(Holders(l)) + 1
      /\ IsFiniteSet(Holders(l)') /\ Holders(l)' \subseteq Publishers
  <2>1. IsFiniteSet(Holders(l)) /\ Holders(l) \subseteq Publishers
    BY HoldersCount DEF Holders
  <2>2. /\ Cardinality(Holders(l) \cup {p}) = Cardinality(Holders(l)) + 1
        /\ IsFiniteSet(Holders(l) \cup {p})
    BY <1>1, <2>1, FS_AddElement
  <2>3. QED
    BY <1>1, <2>1, <2>2
<1>3. /\ Cardinality(Holders(l)') <= Cardinality(Publishers)
      /\ Cardinality(Publishers) \in Nat /\ Cardinality(Holders(l)') \in Nat
      /\ Cardinality(Holders(l)) \in Nat
      /\ Modulus \in Nat /\ FlowLimit \in Nat /\ FlowLimit + Cardinality(Publishers) < Modulus
  BY <1>2, FS_Subset, FS_CardinalityType, HoldersCount, LimitsAssumption
<1>4. inflight[l] = Cardinality(Holders(l))
  BY DEF FlowOn
<1>5. inflight[l] + 1 \in Nat /\ inflight[l] + 1 < Modulus
  BY <1>2, <1>3, <1>4
<1>6. inflight'[l] = inflight[l] + 1
  BY <1>3, <1>5
<1>7. inflight'[l] = Cardinality(Holders(l)')
  BY <1>2, <1>4, <1>6
<1>8. Cardinality({r \in Holders(l)' : pc'[r] # "undo"}) <= FlowLimit
  <2>1. CASE pc'[p] = "undo"
    <3>1. {r \in Holders(l)' : pc'[r] # "undo"} = {r \in Holders(l) : pc[r] # "undo"}
      BY <1>1, <2>1 DEF Holders, OthersStay
    <3>2. QED
      BY <3>1 DEF FlowOn
  <2>2. CASE pc'[p] # "undo"
    <3>1. {r \in Holders(l)' : pc'[r] # "undo"} \subseteq Holders(l)'
      OBVIOUS
    <3>2. /\ Cardinality({r \in Holders(l)' : pc'[r] # "undo"}) <= Cardinality(Holders(l)')
          /\ Cardinality({r \in Holders(l)' : pc'[r] # "undo"}) \in Nat
      BY <1>2, <3>1, FS_Subset, FS_CardinalityType
    <3>3. QED
      BY <1>3, <1>7, <2>2, <3>2
  <2>3. QED
    BY <2>1, <2>2
<1>9. QED
  BY <1>7, <1>8 DEF FlowOn

\* A step of Publish keeps the books of every link.
LEMMA FlowPublish ==
  ASSUME Inv, FlowLimit > 0, NEW p \in Publishers, PublishAction(p),
         \A l \in Links : FlowOn(l)
  PROVE  \A l \in Links : FlowOn(l)'
<1> USE DEF pubVars, loopVars, linkVars, histVars, boundVars, Goto
<1>0. /\ pc \in [Publishers -> PublisherPc] /\ target \in [Publishers -> Links]
      /\ cur \in [Publishers -> Msgs \cup {NoMsg}] /\ target[p] \in Links
      /\ inflight \in [Links -> 0 .. Modulus - 1]
      /\ FlowLimit # 0
  BY LimitsAssumption DEF Inv, TypeOK, PublisherTypeOK, LinkTypeOK
<1>1. ASSUME NEW m \in Msgs, PublishRefuse(p, m) \/ PublishBegin(p, m), NEW l \in Links
      PROVE  FlowOn(l)'
  <2>1. OthersStay(p) /\ inflight' = inflight /\ ~Slot(p, l) /\ ~Slot(p, l)'
    BY <1>0, <1>1 DEF PublishRefuse, PublishBegin, OthersStay, Slot
  <2>2. QED
    BY <2>1, SlotKept
<1>2. ASSUME Dedup(p), NEW l \in Links PROVE FlowOn(l)'
  <2>1. OthersStay(p) /\ inflight' = inflight /\ ~Slot(p, l) /\ ~Slot(p, l)'
    BY <1>0, <1>2 DEF Dedup, Return, OthersStay, Slot
  <2>2. QED
    BY <2>1, SlotKept
<1>3. ASSUME AcquireFlowSlot(p), NEW l \in Links PROVE FlowOn(l)'
  <2>1. /\ OthersStay(p) /\ ~Slot(p, l) /\ target'[p] = target[p] /\ cur'[p] = cur[p]
        /\ MsgLink[cur[p]] = target[p]
    BY <1>0, <1>3 DEF AcquireFlowSlot, OthersStay, Slot, Inv, CallInv
  <2>2. CASE l = target[p]
    <3>1. inflight'[l] = (inflight[l] + 1) % Modulus
      BY <1>0, <1>3, <2>2 DEF AcquireFlowSlot
    <3>2. pc'[p] = IF inflight'[l] > FlowLimit THEN "undo" ELSE "send"
      BY <1>0, <1>3, <2>2, <3>1 DEF AcquireFlowSlot
    <3>3. Slot(p, l)'
      BY <2>1, <2>2, <3>2 DEF Slot
    <3>4. pc'[p] # "undo" => inflight'[l] <= FlowLimit
      <4>1. inflight'[l] \in Nat /\ FlowLimit \in Nat
        BY <1>0, <3>1, ModulusFacts, LimitsAssumption
      <4>2. QED
        BY <3>2, <4>1
    <3>5. QED
      BY <2>1, <3>1, <3>3, <3>4, SlotTaken
  <2>3. CASE l # target[p]
    <3>1. inflight'[l] = inflight[l] /\ ~Slot(p, l)'
      BY <1>0, <1>3, <2>1, <2>3 DEF AcquireFlowSlot, Slot
    <3>2. QED
      BY <2>1, <3>1, SlotKept
  <2>4. QED
    BY <2>2, <2>3
<1>4. ASSUME UndoFlowSlot(p) \/ ReleaseFlowSlot(p), NEW l \in Links PROVE FlowOn(l)'
  <2>1. /\ inflight' = Decremented(target[p]) /\ MsgLink[cur[p]] = target[p]
        /\ pc[p] \in {"undo", "release"} /\ OthersStay(p)
    BY <1>0, <1>4 DEF UndoFlowSlot, ReleaseFlowSlot, Return, OthersStay, Inv, CallInv
  <2>2. ~Slot(p, l)'
    <3>1. \/ pc'[p] = "idle"
          \/ cur'[p] = cur[p] /\ target'[p] = Other(target[p])
      BY <1>0, <1>4 DEF UndoFlowSlot, ReleaseFlowSlot, Return
    <3>2. Other(target[p]) # target[p]
      BY <1>0 DEF Other, Links
    <3>3. QED
      BY <2>1, <3>1, <3>2 DEF Slot
  <2>3. CASE l = target[p]
    <3>1. Slot(p, l) /\ inflight' = Decremented(l) /\ l \in DOMAIN inflight
      BY <1>0, <2>1, <2>3 DEF Slot
    <3>2. QED
      BY <2>1, <2>2, <3>1, SlotGiven
  <2>4. CASE l # target[p]
    <3>1. ~Slot(p, l) /\ inflight'[l] = inflight[l]
      BY <1>0, <2>1, <2>4 DEF Slot, Decremented
    <3>2. QED
      BY <2>1, <2>2, <3>1, SlotKept
  <2>5. QED
    BY <2>3, <2>4
<1>5. ASSUME SendOk(p) \/ Discards(p) \/ RestoreFlags(p) \/ \E c : SendFails(p, c),
             NEW l \in Links
      PROVE  FlowOn(l)'
  <2>1. /\ OthersStay(p) /\ UNCHANGED <<inflight, cur, target>>
        /\ pc[p] \in {"send", "discard", "asleep", "restore", "resend", "retry"}
        /\ pc'[p] \in {"discard", "asleep", "restore", "resend", "retry", Finish(p)}
    <3>1. CASE SendOk(p) \/ \E c : SendFails(p, c)
      BY <1>0, <3>1 DEF SendOk, SendFails, Sequel, Sending, OthersStay
    <3>2. CASE Discards(p) \/ RestoreFlags(p)
      BY <1>0, <3>2 DEF Discards, NothingTaken, HeadTaken, RestoreFlags, OthersStay
    <3>3. QED
      BY <1>5, <3>1, <3>2
  <2>2. CASE target[p] = MsgLink[cur[p]]
    BY <2>1, <2>2, SlotKept DEF Slot, Finish
  <2>3. CASE target[p] # MsgLink[cur[p]]
    BY <2>1, <2>3, SlotKept DEF Slot
  <2>4. QED
    BY <2>2, <2>3
<1>6. ASSUME FailoverAccount(p), NEW l \in Links PROVE FlowOn(l)'
  <2>1. OthersStay(p) /\ inflight' = inflight /\ ~Slot(p, l) /\ ~Slot(p, l)'
    BY <1>0, <1>6 DEF FailoverAccount, Return, OthersStay, Slot
  <2>2. QED
    BY <2>1, SlotKept
<1>7. QED
  BY <1>1, <1>2, <1>3, <1>4, <1>5, <1>6, PublishCases DEF Inv, TypeOK

\* Of the owner's steps only the start of a session touches the counters.
LEMMA FlowOwner ==
  ASSUME Inv, OwnerStep, FlowAccounting
  PROVE  FlowAccounting'
<1> USE DEF pubVars, loopVars, linkVars, histVars, boundVars
<1>0. UNCHANGED <<pc, cur, target>>
  BY OwnerFrame
<1>1. CASE StartBegin
  <2> SUFFICES ASSUME ~straddled', NEW l \in Links
               PROVE  inflight'[l] = 0 /\ Holders(l)' = {} /\ {p \in Holders(l)' : pc'[p] # "undo"} = {}
    BY FS_EmptySet, LimitsAssumption DEF FlowAccounting
  <2>1. Holders(l) = {}
    BY <1>1 DEF StartBegin
  <2>2. QED
    BY <1>0, <1>1, <2>1 DEF StartBegin, TunedInflight, Holders
<1>2. CASE UNCHANGED <<inflight, straddled>>
  BY <1>0, <1>2 DEF FlowAccounting, Holders
<1>3. CASE StartCreateV2r \/ StartCreateR2v \/ StartPool
  BY <1>2, <1>3 DEF StartCreateV2r, StartCreateR2v, StartPool
<1>4. CASE StartSetRunning \/ StartEnqueue \/ StopExchange \/ StopPool \/ StopClose
  BY <1>2, <1>4 DEF StartSetRunning, StartEnqueue, EnqueueLoop, StopExchange, StopPool, StopClose
<1>5. QED
  BY <1>1, <1>3, <1>4 DEF OwnerStep

\* The flow limit holds: the in-flight counter of a link is the number of
\* publishers that own a slot, the uint32 counter never wraps, and no more than
\* flow_limit_inflight of them are past AcquireFlowSlot, for any number of
\* publishers, unless Start reset the counters under one of them.
THEOREM BridgeFlowAccounting == Spec => []FlowAccounting
<1>1. Init => FlowAccounting
  <2> SUFFICES ASSUME Init, NEW l \in Links
               PROVE  inflight[l] = 0 /\ Holders(l) = {} /\ {p \in Holders(l) : pc[p] # "undo"} = {}
    BY FS_EmptySet, LimitsAssumption DEF FlowAccounting
  <2>1. QED
    BY DEF Init, Holders
<1>2. Inv /\ FlowAccounting /\ [Next]_vars => FlowAccounting'
  <2> SUFFICES ASSUME Inv, FlowAccounting, [Next]_vars PROVE FlowAccounting'
    OBVIOUS
  <2>1. CASE UNCHANGED vars
    BY <2>1 DEF vars, pubVars, histVars, FlowAccounting, Holders
  <2>2. ASSUME NEW p \in Publishers, PublishAction(p) PROVE FlowAccounting'
    <3> SUFFICES ASSUME FlowLimit > 0, ~straddled' PROVE \A l \in Links : FlowOn(l)'
      BY DEF FlowAccounting, FlowOn
    <3>1. straddled' = straddled
      BY <2>2, PublishFrame
    <3>2. \A l \in Links : FlowOn(l)
      BY <3>1 DEF FlowAccounting, FlowOn
    <3>3. QED
      BY <2>2, <3>2, FlowPublish
  <2>3. ASSUME NEW l \in Links, LoopStep(l) PROVE FlowAccounting'
    BY <2>3, LoopFrame DEF pubVars, FlowAccounting, Holders
  <2>4. QED
    BY <2>1, <2>2, <2>3, FlowOwner, NextByActor
<1>3. QED
  BY <1>1, <1>2, InvInit, InvNext, PTL DEF Spec

-----------------------------------------------------------------------------
(* The deduplication window.                                               *)

\* idempotency_recent_keys_ holds the keys of the last messages let through,
\* in order: all of them until the window is full.
WindowInv ==
  /\ Len(recentKeys) = IF Len(passed) < WindowSize THEN Len(passed) ELSE WindowSize
  /\ \A i \in 1 .. Len(recentKeys) :
       recentKeys[i] = MsgKey[passed[(Len(passed) - Len(recentKeys)) + i]]

\* A message whose key is not in the window is let through.
LEMMA WindowStep ==
  ASSUME TypeOK, WindowInv, WindowSeparates, NEW m \in Msgs,
         \A i \in DOMAIN recentKeys : recentKeys[i] # MsgKey[m],
         recentKeys' = Trimmed(Append(recentKeys, MsgKey[m])),
         passed' = Append(passed, m)
  PROVE  WindowInv' /\ WindowSeparates'
<1> DEFINE n == Len(recentKeys)
           k == Len(passed)
           keys == Append(recentKeys, MsgKey[m])
<1>0. /\ recentKeys \in Seq({MsgKey[x] : x \in Msgs}) /\ passed \in Seq(Msgs)
      /\ n \in Nat /\ k \in Nat /\ n <= k /\ WindowSize \in Nat \ {0} /\ n <= WindowSize
  BY WindowSizeType DEF TypeOK, WindowTypeOK, WindowInv
<1>1. /\ Len(passed') = k + 1 /\ DOMAIN passed' = 1 .. k + 1
      /\ passed'[k + 1] = m /\ \A i \in 1 .. k : passed'[i] = passed[i]
  BY <1>0
<1>2. /\ keys \in Seq({MsgKey[x] : x \in Msgs}) /\ Len(keys) = n + 1
      /\ keys[n + 1] = MsgKey[m] /\ \A i \in 1 .. n : keys[i] = recentKeys[i]
  BY <1>0
<1>3. \A i \in 1 .. n + 1 : keys[i] = MsgKey[passed'[(k - n) + i]]
  <2> SUFFICES ASSUME NEW i \in 1 .. n + 1 PROVE keys[i] = MsgKey[passed'[(k - n) + i]]
    OBVIOUS
  <2>1. CASE i = n + 1
    <3>1. (k - n) + i = k + 1
      BY <1>0, <2>1
    <3>2. QED
      BY <1>1, <1>2, <2>1, <3>1
  <2>2. CASE i # n + 1
    <3>1. i \in 1 .. n /\ (k - n) + i \in 1 .. k
      BY <1>0, <2>2
    <3>2. recentKeys[i] = MsgKey[passed[(k - n) + i]]
      BY <3>1 DEF WindowInv
    <3>3. QED
      BY <1>1, <1>2, <3>1, <3>2
  <2>3. QED
    BY <2>1, <2>2
<1>4. WindowInv'
  <2>1. CASE n + 1 > WindowSize
    <3>1. recentKeys' = Tail(keys) /\ n = WindowSize /\ k >= WindowSize
      BY <1>0, <1>2, <2>1 DEF Trimmed, WindowInv
    <3>2. Len(recentKeys') = n /\ \A i \in 1 .. n : recentKeys'[i] = keys[i + 1]
      BY <1>0, <1>2, <3>1
    <3>3. ASSUME NEW i \in 1 .. n
          PROVE  recentKeys'[i] = MsgKey[passed'[((k + 1) - n) + i]]
      <4>1. i + 1 \in 1 .. n + 1 /\ ((k + 1) - n) + i = (k - n) + (i + 1)
        BY <1>0
      <4>2. QED
        BY <1>3, <3>2, <4>1
    <3>4. Len(recentKeys') = IF Len(passed') < WindowSize THEN Len(passed') ELSE WindowSize
      BY <1>0, <1>1, <3>1, <3>2
    <3>5. ASSUME NEW i \in 1 .. Len(recentKeys')
          PROVE  recentKeys'[i] = MsgKey[passed'[(Len(passed') - Len(recentKeys')) + i]]
      BY <1>1, <3>2, <3>3
    <3>6. QED
      BY <3>4, <3>5 DEF WindowInv
  <2>2. CASE ~(n + 1 > WindowSize)
    <3>1. recentKeys' = keys /\ n < WindowSize /\ k = n
      BY <1>0, <1>2, <2>2 DEF Trimmed, WindowInv
    <3>2. ASSUME NEW i \in 1 .. n + 1
          PROVE  recentKeys'[i] = MsgKey[passed'[((k + 1) - (n + 1)) + i]]
      <4>1. ((k + 1) - (n + 1)) + i = (k - n) + i
        BY <1>0
      <4>2. QED
        BY <1>3, <3>1, <4>1
    <3>3. Len(recentKeys') = n + 1
      BY <1>2, <3>1
    <3>4. Len(recentKeys') = IF Len(passed') < WindowSize THEN Len(passed') ELSE WindowSize
      BY <1>0, <1>1, <3>1, <3>3
    <3>5. ASSUME NEW i \in 1 .. Len(recentKeys')
          PROVE  recentKeys'[i] = MsgKey[passed'[(Len(passed') - Len(recentKeys')) + i]]
      BY <1>1, <3>3, <3>2
    <3>6. QED
      BY <3>4, <3>5 DEF WindowInv
  <2>3. QED
    BY <2>1, <2>2
<1>5. ASSUME NEW i \in 1 .. k, MsgKey[passed[i]] = MsgKey[m]
      PROVE  (k + 1) - i > WindowSize
  <2>1. i <= k - n
    <3> SUFFICES ASSUME i > k - n PROVE FALSE
      BY <1>0
    <3>1. i - (k - n) \in 1 .. n /\ (k - n) + (i - (k - n)) = i
      BY <1>0
    <3>2. recentKeys[i - (k - n)] = MsgKey[passed[i]]
      BY <3>1 DEF WindowInv
    <3>3. i - (k - n) \in DOMAIN recentKeys
      BY <1>0, <3>1
    <3>4. QED
      BY <1>5, <3>2, <3>3
  <2>2. n = WindowSize
    BY <1>0, <2>1 DEF WindowInv
  <2>3. QED
    BY <1>0, <2>1, <2>2
<1>6. ASSUME NEW i \in DOMAIN passed', NEW j \in DOMAIN passed', i < j,
             MsgKey[passed'[i]] = MsgKey[passed'[j]]
      PROVE  j - i > WindowSize
  <2>1. i \in 1 .. k /\ j \in 1 .. k + 1
    BY <1>0, <1>1, <1>6
  <2>2. CASE j = k + 1
    BY <1>1, <1>5, <1>6, <2>1, <2>2
  <2>3. CASE j # k + 1
    <3>1. j \in 1 .. k /\ DOMAIN passed = 1 .. k
      BY <1>0, <2>1, <2>3
    <3>2. MsgKey[passed[i]] = MsgKey[passed[j]]
      BY <1>1, <1>6, <2>1, <3>1
    <3>3. QED
      BY <1>6, <2>1, <3>1, <3>2 DEF WindowSeparates
  <2>4. QED
    BY <2>2, <2>3
<1>7. QED
  BY <1>4, <1>6 DEF WindowSeparates

\* Of the steps of Publish only the deduplication touches the window.
LEMMA WindowPublish ==
  ASSUME Inv, WindowInv, WindowSeparates, NEW p \in Publishers, PublishAction(p)
  PROVE  WindowInv' /\ WindowSeparates'
<1> USE DEF pubVars, loopVars, linkVars, histVars, boundVars
<1>1. CASE UNCHANGED <<recentKeys, passed>>
  BY <1>1 DEF WindowInv, WindowSeparates
<1>2. CASE Dedup(p)
  <2>1. PICK m : m = cur[p]
    OBVIOUS
  <2>2. m \in Msgs
    BY <1>2, <2>1 DEF Dedup, Inv, CallInv
  <2>3. \/ UNCHANGED <<recentKeys, passed>>
        \/ /\ \A i \in DOMAIN recentKeys : recentKeys[i] # MsgKey[m]
           /\ recentKeys' = Trimmed(Append(recentKeys, MsgKey[m]))
           /\ passed' = Append(passed, m)
    BY <1>2, <2>1 DEF Dedup
  <2>4. QED
    BY <1>1, <2>2, <2>3, WindowStep DEF Inv
<1>3. ASSUME NEW m \in Msgs, PublishRefuse(p, m) \/ PublishBegin(p, m)
      PROVE  UNCHANGED <<recentKeys, passed>>
  BY <1>3 DEF PublishRefuse, PublishBegin
<1>4. ASSUME \/ AcquireFlowSlot(p) \/ UndoFlowSlot(p) \/ ReleaseFlowSlot(p)
             \/ FailoverAccount(p)
      PROVE  UNCHANGED <<recentKeys, passed>>
  BY <1>4 DEF AcquireFlowSlot, UndoFlowSlot, ReleaseFlowSlot, FailoverAccount
<1>5. ASSUME SendOk(p) \/ Discards(p) \/ RestoreFlags(p) \/ \E c : SendFails(p, c)
      PROVE  UNCHANGED <<recentKeys, passed>>
  BY <1>5 DEF SendOk, Discards, RestoreFlags, SendFails
<1>6. QED
  BY <1>1, <1>2, <1>3, <1>4, <1>5, PublishCases DEF Inv, TypeOK

\* Two messages of one deduplication key are both let through only when at
\* least a full window of other keys was recorded between them, for any window
\* size and any interleaving of the publishers.
THEOREM BridgeWindowSeparates == Spec => []WindowSeparates
<1>1. Init => WindowInv /\ WindowSeparates
  BY WindowSizeType DEF Init, WindowInv, WindowSeparates
<1>2. Inv /\ WindowInv /\ WindowSeparates /\ [Next]_vars => WindowInv' /\ WindowSeparates'
  <2> SUFFICES ASSUME Inv, WindowInv, WindowSeparates, [Next]_vars
               PROVE  WindowInv' /\ WindowSeparates'
    OBVIOUS
  <2>1. CASE UNCHANGED <<recentKeys, passed>>
    BY <2>1 DEF WindowInv, WindowSeparates
  <2>2. QED
    BY <2>1, WindowPublish, LoopFrame, OwnerFrame, NextByActor DEF vars, histVars
<1>3. QED
  BY <1>1, <1>2, InvInit, InvNext, PTL DEF Spec

-----------------------------------------------------------------------------
(* What Publish answers.                                                   *)

\* A message is sent at most once, and a call in progress knows whether its
\* message was: exactly when the call is past a send that returned kOk.
Succeeded(p) == pc[p] \in {"release", "account"} /\ code[p] = "ok"

SentInv ==
  /\ \A m \in Msgs :
       /\ sent[m] \in {0, 1}
       /\ outcome[m] = "ok" => sent[m] = 1
       /\ outcome[m] \in {"new", "refused", "duplicate", "failed"} => sent[m] = 0
  /\ \A p \in Publishers : pc[p] # "idle" => (sent[cur[p]] = 1 <=> Succeeded(p))

\* A call returns what it knows.
LEMMA ReturnSent ==
  ASSUME Inv, SentInv, NEW p \in Publishers, pc[p] # "idle",
         NEW o \in {"duplicate", "failed", "ok"}, NEW S, Return(p, o, S),
         UNCHANGED <<sent, code>>, o = "ok" <=> Succeeded(p)
  PROVE  SentInv'
<1>1. /\ pc' = [pc EXCEPT ![p] = "idle"] /\ cur' = [cur EXCEPT ![p] = NoMsg]
      /\ outcome' = [outcome EXCEPT ![cur[p]] = o]
      /\ pc \in [Publishers -> PublisherPc] /\ outcome \in [Msgs -> {"new", "inProgress", "refused", "duplicate", "failed", "ok"}]
      /\ cur \in [Publishers -> Msgs \cup {NoMsg}]
      /\ cur[p] \in Msgs
  BY DEF Return, Goto, Inv, TypeOK, PublisherTypeOK, RecordTypeOK, CallInv
<1>2. \A m \in Msgs : outcome'[m] = IF m = cur[p] THEN o ELSE outcome[m]
  BY <1>1
<1>3. \A r \in Publishers : pc'[r] # "idle" =>
        cur'[r] = cur[r] /\ pc'[r] = pc[r] /\ (Succeeded(r)' <=> Succeeded(r))
  BY <1>1 DEF Succeeded
<1>4. QED
  BY <1>1, <1>2, <1>3 DEF SentInv

\* A call goes on without sending.
LEMMA GotoSent ==
  ASSUME Inv, SentInv, NEW p \in Publishers, pc[p] # "idle", NEW label,
         Goto(p, label), label # "idle", UNCHANGED <<sent, cur, outcome>>,
         \A r \in Publishers \ {p} : code'[r] = code[r],
         ~Succeeded(p), label \in {"release", "account"} => code'[p] # "ok"
  PROVE  SentInv'
<1>1. pc' = [pc EXCEPT ![p] = label] /\ pc \in [Publishers -> PublisherPc]
  BY DEF Goto, Inv, TypeOK, PublisherTypeOK
<1>2. ~Succeeded(p)' /\ \A r \in Publishers \ {p} : Succeeded(r)' <=> Succeeded(r)
  BY <1>1 DEF Succeeded
<1>3. QED
  BY <1>1, <1>2 DEF SentInv

\* A step of a publisher keeps SentInv: only a send that returned kOk counts a
\* message as sent, and the call remembers it until it returns.
LEMMA SentPublish ==
  ASSUME Inv, SentInv, NEW p \in Publishers, PublishAction(p)
  PROVE  SentInv'
<1> USE DEF pubVars, histVars
<1>0. /\ code \in [Publishers -> {"ok", "timeout", "wouldBlock", "invalid"}]
      /\ pc \in [Publishers -> PublisherPc] /\ sent \in [Msgs -> Nat]
      /\ outcome \in [Msgs -> {"new", "inProgress", "refused", "duplicate", "failed", "ok"}]
      /\ cur \in [Publishers -> Msgs \cup {NoMsg}]
      /\ \A r \in Publishers : pc[r] # "idle" => cur[r] \in Msgs
                                                 /\ outcome[cur[r]] = "inProgress"
  BY DEF Inv, TypeOK, PublisherTypeOK, RecordTypeOK, CallInv
<1>1. ASSUME NEW m \in Msgs, PublishRefuse(p, m) PROVE SentInv'
  <2>1. /\ UNCHANGED <<pc, cur, code, sent>> /\ outcome[m] = "new"
        /\ outcome' = [outcome EXCEPT ![m] = "refused"]
    BY <1>1 DEF PublishRefuse
  <2>2. QED
    BY <1>0, <2>1 DEF SentInv, Succeeded
<1>2. ASSUME NEW m \in Msgs, PublishBegin(p, m) PROVE SentInv'
  <2>1. /\ pc' = [pc EXCEPT ![p] = "dedup"] /\ cur' = [cur EXCEPT ![p] = m]
        /\ UNCHANGED <<code, sent>> /\ outcome[m] = "new"
        /\ outcome' = [outcome EXCEPT ![m] = "inProgress"]
    BY <1>2 DEF PublishBegin, Goto
  <2>2. sent[m] = 0
    BY <2>1 DEF SentInv
  <2>3. \A r \in Publishers \ {p} : cur'[r] = cur[r] /\ pc'[r] = pc[r]
    BY <1>0, <2>1
  <2>4. cur'[p] = m /\ ~Succeeded(p)'
    BY <1>0, <2>1 DEF Succeeded
  <2>5. QED
    BY <1>0, <2>1, <2>2, <2>3, <2>4 DEF SentInv, Succeeded
<1>3. CASE Dedup(p)
  BY <1>3, ReturnSent, GotoSent DEF Dedup, Succeeded
<1>4. CASE AcquireFlowSlot(p)
  BY <1>4, GotoSent DEF AcquireFlowSlot, Succeeded
<1>5. CASE UndoFlowSlot(p)
  BY <1>5, ReturnSent DEF UndoFlowSlot, Succeeded
<1>6. CASE SendOk(p)
  <2>1. /\ pc[p] \in Sending /\ pc' = [pc EXCEPT ![p] = Finish(p)]
        /\ code' = [code EXCEPT ![p] = "ok"]
        /\ sent' = [sent EXCEPT ![cur[p]] = @ + 1] /\ UNCHANGED <<cur, outcome>>
    BY <1>6 DEF SendOk, Goto
  <2>2. /\ cur[p] \in Msgs /\ outcome[cur[p]] = "inProgress" /\ sent[cur[p]] = 0
    BY <1>0, <2>1 DEF SentInv, Succeeded, Sending
  <2>3. sent'[cur[p]] = 1 /\ Succeeded(p)'
    BY <1>0, <2>1, <2>2 DEF Succeeded, Finish
  <2>4. \A m \in Msgs \ {cur[p]} : sent'[m] = sent[m]
    BY <1>0, <2>1
  <2>5. \A r \in Publishers \ {p} : /\ pc[r] # "idle" => cur[r] # cur[p]
                                    /\ pc'[r] = pc[r]
                                    /\ Succeeded(r)' <=> Succeeded(r)
    BY <1>0, <2>1 DEF Inv, CallInv, Succeeded, Sending
  <2>6. \A m \in Msgs : /\ sent'[m] \in {0, 1}
                        /\ outcome'[m] = "ok" => sent'[m] = 1
                        /\ outcome'[m] \in {"new", "refused", "duplicate", "failed"}
                             => sent'[m] = 0
    BY <2>1, <2>2, <2>3, <2>4 DEF SentInv
  <2>7. \A r \in Publishers : pc'[r] # "idle" => (sent'[cur'[r]] = 1 <=> Succeeded(r)')
    BY <1>0, <2>1, <2>3, <2>4, <2>5 DEF SentInv
  <2>8. QED
    BY <2>6, <2>7 DEF SentInv
<1>7. ASSUME NEW c \in {"timeout", "wouldBlock", "invalid"}, SendFails(p, c) PROVE SentInv'
  <2>1. /\ pc[p] \in Sending /\ Goto(p, Sequel(p, c)) /\ UNCHANGED <<sent, cur, outcome>>
        /\ \A r \in Publishers \ {p} : code'[r] = code[r]
        /\ code'[p] # "ok"
    BY <1>0, <1>7 DEF SendFails
  <2>2. Sequel(p, c) # "idle"
    BY DEF Sequel, Finish
  <2>3. QED
    BY <2>1, <2>2, GotoSent DEF Sending, Succeeded
<1>8. CASE Discards(p) \/ RestoreFlags(p)
  <2>1. /\ pc[p] \in {"discard", "asleep", "restore"}
        /\ UNCHANGED <<sent, cur, outcome, code>>
        /\ \E label : label # "idle" /\ Goto(p, label)
    BY <1>8 DEF Discards, NothingTaken, HeadTaken, RestoreFlags, Finish
  <2>2. code[p] # "ok"
    BY <2>1 DEF Inv, CallInv
  <2>3. QED
    BY <2>1, <2>2, GotoSent DEF Succeeded
<1>9. CASE ReleaseFlowSlot(p)
  BY <1>9, ReturnSent, GotoSent DEF ReleaseFlowSlot, Succeeded
<1>10. CASE FailoverAccount(p)
  BY <1>10, ReturnSent DEF FailoverAccount, Succeeded
<1>11. QED
  BY <1>1, <1>2, <1>3, <1>4, <1>5, <1>6, <1>7, <1>8, <1>9, <1>10, PublishCases
     DEF Inv, TypeOK

\* Every step of the system keeps SentInv: owner and loops send nothing.
LEMMA SentNext ==
  ASSUME Inv, SentInv, [Next]_vars
  PROVE  SentInv'
<1>1. CASE UNCHANGED <<pc, cur, code, outcome, sent>>
  BY <1>1 DEF SentInv, Succeeded
<1>2. CASE OwnerStep \/ UNCHANGED vars \/ \E l \in Links : LoopStep(l)
  BY <1>1, <1>2, OwnerFrame, LoopFrame DEF vars, pubVars, histVars
<1>3. QED
  BY <1>2, SentPublish, NextByActor

\* Publish tells the truth: kOk means that the message entered a transport
\* once, an error that it entered none, whatever discards, resends, retries and
\* failover happened and whenever Stop closed the transports.
THEOREM BridgePublishTruthful == Spec => []PublishTruthful
<1>1. Init => SentInv
  BY DEF Init, SentInv
<1>2. Inv /\ SentInv /\ [Next]_vars => SentInv'
  BY SentNext
<1>3. SentInv => PublishTruthful
  BY DEF SentInv, PublishTruthful
<1>4. QED
  BY <1>1, <1>2, <1>3, InvInit, InvNext, PTL DEF Spec

-----------------------------------------------------------------------------
(* Where a message is.                                                     *)

\* No message is in two places, and the messages that were sent are those that
\* are somewhere: queued, in the hands of a loop, or done with.
PlaceOf(m) ==
  /\ \A k, l \in Links : m \in Contents(k) /\ m \in Contents(l) => k = l
  /\ \A k, l \in Links : got[k] = m /\ got[l] = m => k = l
  /\ \A k, l \in Links : m \in Contents(k) => got[l] # m
  /\ end[m] # "none" => \A l \in Links : m \notin Contents(l) /\ got[l] # m
  /\ sent[m] = 1 <=> \/ end[m] # "none"
                     \/ \E l \in Links : m \in Contents(l) \/ got[l] = m

PlaceInv ==
  /\ \A l \in Links : Distinct(queue[l])
  /\ \A m \in Msgs : PlaceOf(m)

\* A step that does not move m keeps its place.
LEMMA PlaceKept ==
  ASSUME NEW m, PlaceOf(m), end'[m] = end[m], sent'[m] = sent[m],
         \A l \in Links : /\ m \in Contents(l)' <=> m \in Contents(l)
                          /\ got'[l] = m <=> got[l] = m
  PROVE  PlaceOf(m)'
BY DEF PlaceOf

\* The messages of a link are the elements of its queue ...
LEMMA ContentsAreElements ==
  ASSUME NEW l PROVE Contents(l) = Elements(queue[l])
BY DEF Contents, Elements

\* ... after a step as before it.
LEMMA ContentsNext ==
  ASSUME NEW l PROVE Contents(l)' = Elements(queue'[l])
BY DEF Contents, Elements

\* A head that leaves its link: it was there and nowhere else.
LEMMA HeadLeaves ==
  ASSUME Inv, PlaceInv, NEW l \in Links, queue[l] # <<>>,
         queue' = [queue EXCEPT ![l] = Tail(@)]
  PROVE  /\ Head(queue[l]) \in Contents(l) /\ Head(queue[l]) \in Msgs
         /\ Contents(l)' = Contents(l) \ {Head(queue[l])}
         /\ \A k \in Links \ {l} : Contents(k)' = Contents(k)
         /\ \A k \in Links : Distinct(queue'[k])
<1>1. queue \in [Links -> Seq(Msgs)] /\ queue[l] \in Seq(Msgs)
  BY DEF Inv, TypeOK, LinkTypeOK
<1>2. /\ Head(queue[l]) \in Msgs /\ Head(queue[l]) \in Contents(l)
      /\ Elements(queue[l]) = Elements(Tail(queue[l])) \cup {Head(queue[l])}
      /\ Distinct(Tail(queue[l])) /\ Head(queue[l]) \notin Elements(Tail(queue[l]))
  BY <1>1, TailElements, TailProperties, ContentsAreElements DEF PlaceInv
<1>3. queue'[l] = Tail(queue[l]) /\ \A k \in Links \ {l} : queue'[k] = queue[k]
  BY <1>1
<1>4. QED
  BY <1>2, <1>3, ContentsAreElements, ContentsNext DEF PlaceInv

\* A step of a publisher keeps every message in one place: a send puts one that
\* was nowhere into one queue, a discarded head leaves its queue for good.
LEMMA PlacePublish ==
  ASSUME Inv, SentInv, PlaceInv, NEW p \in Publishers, PublishAction(p)
  PROVE  PlaceInv'
<1> USE DEF pubVars, loopVars, linkVars, histVars, boundVars
<1>0. /\ queue \in [Links -> Seq(Msgs)] /\ target[p] \in Links
      /\ sent \in [Msgs -> Nat] /\ DOMAIN end = Msgs
  BY DEF Inv, TypeOK, LinkTypeOK, PublisherTypeOK, RecordTypeOK
<1>1. CASE UNCHANGED <<queue, got, end, sent>>
  BY <1>1 DEF PlaceInv, PlaceOf, Contents, Distinct
<1>2. CASE SendOk(p)
  <2>a. PICK l \in Links : l = target[p]
    BY <1>0
  <2>b. PICK m : m = cur[p]
    OBVIOUS
  <2>0. l = target[p] /\ m = cur[p]
    BY <2>a, <2>b
  <2>1. /\ m \in Msgs /\ sent[m] = 0 /\ UNCHANGED <<got, end>>
        /\ queue' = [queue EXCEPT ![l] = Insert(@, m, MsgPriority)]
        /\ sent' = [sent EXCEPT ![m] = @ + 1]
    BY <1>2, <2>0 DEF SendOk, Sending, Inv, CallInv, SentInv, Succeeded
  <2>2. end[m] = "none" /\ \A k \in Links : m \notin Contents(k) /\ got[k] # m
    BY <2>1 DEF PlaceInv, PlaceOf
  <2>3. queue'[l] = Insert(queue[l], m, MsgPriority) /\ queue[l] \in Seq(Msgs)
        /\ \A k \in Links \ {l} : queue'[k] = queue[k]
    BY <1>0, <2>1
  <2>4. Elements(queue'[l]) = Elements(queue[l]) \cup {m} /\ Distinct(queue'[l])
    <3>1. m \notin Elements(queue[l]) /\ Distinct(queue[l])
      BY <2>2, ContentsAreElements DEF PlaceInv
    <3>2. QED
      BY <2>1, <2>3, <3>1, InsertElements
  <2>5. /\ Contents(l)' = Contents(l) \cup {m}
        /\ \A k \in Links \ {l} : Contents(k)' = Contents(k)
    BY <2>3, <2>4, ContentsAreElements, ContentsNext
  <2>6. sent'[m] = 1 /\ \A n \in Msgs \ {m} : sent'[n] = sent[n]
    BY <1>0, <2>1
  <2>7. PlaceOf(m)'
    BY <2>1, <2>2, <2>5, <2>6 DEF PlaceOf
  <2>8. ASSUME NEW n \in Msgs \ {m} PROVE PlaceOf(n)'
    BY <2>1, <2>5, <2>6, PlaceKept DEF PlaceInv
  <2>9. QED
    BY <2>3, <2>4, <2>7, <2>8 DEF PlaceInv
<1>3. CASE Discards(p) /\ HeadTaken(p)
  <2>a. PICK l \in Links : l = target[p]
    BY <1>0
  <2>b. PICK m : m = Head(queue[l])
    OBVIOUS
  <2>0. l = target[p] /\ m = Head(queue[l])
    BY <2>a, <2>b
  <2>1. /\ queue[l] # <<>> /\ queue' = [queue EXCEPT ![l] = Tail(@)]
        /\ end' = [end EXCEPT ![m] = "discarded"] /\ UNCHANGED <<got, sent>>
    BY <1>3, <2>0 DEF Discards, HeadTaken
  <2>2. /\ m \in Contents(l) /\ m \in Msgs /\ Contents(l)' = Contents(l) \ {m}
        /\ \A k \in Links \ {l} : Contents(k)' = Contents(k)
        /\ \A k \in Links : Distinct(queue'[k])
    BY <2>0, <2>1, HeadLeaves
  <2>3. end'[m] = "discarded" /\ \A n \in Msgs \ {m} : end'[n] = end[n]
    BY <1>0, <2>1, <2>2
  <2>4. PlaceOf(m)'
    BY <2>1, <2>2, <2>3 DEF PlaceInv, PlaceOf
  <2>5. ASSUME NEW n \in Msgs \ {m} PROVE PlaceOf(n)'
    BY <2>1, <2>2, <2>3, PlaceKept DEF PlaceInv
  <2>6. QED
    BY <2>2, <2>4, <2>5 DEF PlaceInv
<1>4. ASSUME ~SendOk(p), ~(Discards(p) /\ HeadTaken(p))
      PROVE  UNCHANGED <<queue, got, end, sent>>
  <2>1. ASSUME NEW m \in Msgs, PublishRefuse(p, m) \/ PublishBegin(p, m)
        PROVE  UNCHANGED <<queue, got, end, sent>>
    BY <2>1 DEF PublishRefuse, PublishBegin
  <2>2. CASE \/ Dedup(p) \/ AcquireFlowSlot(p) \/ UndoFlowSlot(p)
             \/ ReleaseFlowSlot(p) \/ FailoverAccount(p) \/ \E c : SendFails(p, c)
    BY <2>2 DEF Dedup, AcquireFlowSlot, UndoFlowSlot, ReleaseFlowSlot, FailoverAccount, SendFails
  <2>3. CASE (Discards(p) /\ NothingTaken(p)) \/ RestoreFlags(p)
    BY <2>3 DEF Discards, NothingTaken, RestoreFlags
  <2>4. QED
    BY <1>4, <2>1, <2>2, <2>3, PublishCases DEF Discards, Inv, TypeOK
<1>5. QED
  BY <1>1, <1>2, <1>3, <1>4

\* A step of an inbound loop keeps every message in one place: a receive moves
\* the head into the hands of the loop, the handler ends its way.
LEMMA PlaceLoop ==
  ASSUME Inv, PlaceInv, NEW l \in Links, LoopStep(l)
  PROVE  PlaceInv'
<1> USE DEF pubVars, loopVars, linkVars, histVars, boundVars
<1>0. got \in [Links -> Msgs \cup {NoMsg}] /\ DOMAIN end = Msgs
  BY DEF Inv, TypeOK, LoopTypeOK, RecordTypeOK
<1>1. CASE LoopStart(l) \/ LoopTest(l) \/ LoopNothing(l)
  <2>1. UNCHANGED <<queue, got, end, sent>>
    BY <1>1 DEF LoopStart, LoopTest, LoopNothing
  <2>2. QED
    BY <2>1 DEF PlaceInv, PlaceOf, Contents, Distinct
<1>2. CASE LoopReceive(l)
  <2>0. PICK m : m = Head(queue[l])
    OBVIOUS
  <2>1. /\ queue[l] # <<>> /\ queue' = [queue EXCEPT ![l] = Tail(@)]
        /\ got' = [got EXCEPT ![l] = m] /\ UNCHANGED <<end, sent>> /\ got[l] = NoMsg
    BY <1>2, <2>0 DEF LoopReceive, Inv, HandInv
  <2>2. /\ m \in Contents(l) /\ m \in Msgs /\ Contents(l)' = Contents(l) \ {m}
        /\ \A k \in Links \ {l} : Contents(k)' = Contents(k)
        /\ \A k \in Links : Distinct(queue'[k])
    BY <2>0, <2>1, HeadLeaves
  <2>3. got'[l] = m /\ \A k \in Links \ {l} : got'[k] = got[k]
    BY <1>0, <2>1
  <2>4. PlaceOf(m)'
    BY <2>1, <2>2, <2>3 DEF PlaceInv, PlaceOf
  <2>5. ASSUME NEW n \in Msgs \ {m} PROVE PlaceOf(n)'
    BY <2>1, <2>2, <2>3, PlaceKept, MessagesAssumption DEF PlaceInv
  <2>6. QED
    BY <2>2, <2>4, <2>5 DEF PlaceInv
<1>3. CASE LoopHandle(l)
  <2>0. PICK m : m = got[l]
    OBVIOUS
  <2>1. PICK v \in Verdicts[m] : end' = [end EXCEPT ![m] = v]
    BY <1>3, <2>0 DEF LoopHandle
  <2>2. /\ got' = [got EXCEPT ![l] = NoMsg] /\ UNCHANGED <<queue, sent>> /\ m \in Msgs
    BY <1>3, <2>0 DEF LoopHandle, Inv, HandInv
  <2>3. v # "none"
    BY <2>2, MessagesAssumption DEF VerdictNames
  <2>4. end'[m] = v /\ \A n \in Msgs \ {m} : end'[n] = end[n]
    BY <1>0, <2>1, <2>2
  <2>5. got'[l] = NoMsg /\ \A k \in Links \ {l} : got'[k] = got[k]
    BY <1>0, <2>2
  <2>6. \A k \in Links : Contents(k)' = Contents(k) /\ Distinct(queue'[k])
    BY <2>2 DEF Contents, PlaceInv
  <2>7. PlaceOf(m)'
    BY <2>0, <2>2, <2>3, <2>4, <2>5, <2>6, MessagesAssumption DEF PlaceInv, PlaceOf
  <2>8. ASSUME NEW n \in Msgs \ {m} PROVE PlaceOf(n)'
    BY <2>0, <2>2, <2>4, <2>5, <2>6, PlaceKept, MessagesAssumption DEF PlaceInv
  <2>9. QED
    BY <2>6, <2>7, <2>8 DEF PlaceInv
<1>4. QED
  BY <1>1, <1>2, <1>3 DEF LoopStep

\* The owner only ever loses messages by closing links.
LEMMA OwnerReleases ==
  ASSUME OwnerStep
  PROVE  UNCHANGED <<queue, end>> \/ \E S \in SUBSET Links : Release(S)
<1> USE DEF linkVars, histVars, Links
<1>1. CASE StartBegin \/ StartSetRunning \/ StartEnqueue \/ StopExchange \/ StopPool
  BY <1>1 DEF StartBegin, StartSetRunning, StartEnqueue, EnqueueLoop, StopExchange, StopPool
<1>2. CASE StartCreateV2r \/ StartCreateR2v \/ StartPool
  BY <1>2 DEF StartCreateV2r, StartCreateR2v, StartPool, Created, StartFails
<1>3. CASE StopClose
  BY <1>3 DEF StopClose
<1>4. QED
  BY <1>1, <1>2, <1>3 DEF OwnerStep

\* A step of Start or Stop keeps every message in one place: what the queues
\* held when a transport is destroyed is destroyed with it.
LEMMA PlaceOwner ==
  ASSUME Inv, PlaceInv, OwnerStep
  PROVE  PlaceInv'
<1>1. UNCHANGED <<got, sent>>
  BY OwnerFrame
<1>2. CASE UNCHANGED <<queue, end>>
  BY <1>1, <1>2 DEF PlaceInv, PlaceOf, Contents, Distinct
<1>3. ASSUME NEW S \in SUBSET Links, Release(S) PROVE PlaceInv'
  <2>1. \A l \in Links : queue'[l] = IF l \in S THEN <<>> ELSE queue[l]
    BY <1>3 DEF Release
  <2>2. \A l \in Links : Contents(l)' = IF l \in S THEN {} ELSE Contents(l)
    <3>1. Elements(<< >>) = {}
      BY DEF Elements
    <3>2. QED
      BY <2>1, <3>1, ContentsAreElements, ContentsNext
  <2>3. \A l \in Links : Distinct(queue'[l])
    BY <2>1 DEF PlaceInv, Distinct
  <2>4. \A m \in Msgs : end'[m] = IF \E l \in S : m \in Contents(l) THEN "destroyed" ELSE end[m]
    BY <1>3 DEF Release
  <2>5. QED
    BY <1>1, <2>2, <2>3, <2>4 DEF PlaceInv, PlaceOf
<1>4. QED
  BY <1>2, <1>3, OwnerReleases

\* Every step of the system keeps PlaceInv.
LEMMA PlaceNext ==
  ASSUME Inv, SentInv, PlaceInv, [Next]_vars
  PROVE  PlaceInv'
<1>1. CASE UNCHANGED vars
  BY <1>1 DEF vars, linkVars, loopVars, histVars, PlaceInv, PlaceOf, Contents, Distinct
<1>2. QED
  BY <1>1, PlacePublish, PlaceLoop, PlaceOwner, NextByActor

\* A message that is in no link has no place there, one that is has one.
LEMMA PlacesCount ==
  ASSUME Inv, PlaceInv, NEW m \in Msgs
  PROVE  Cardinality(Places(m)) = IF \E l \in Links : m \in Contents(l) THEN 1 ELSE 0
<1>0. \A l \in Links : /\ queue[l] \in Seq(Msgs) /\ Len(queue[l]) \in Nat
                       /\ Len(queue[l]) <= MaxMessages
                       /\ DOMAIN queue[l] = 1 .. Len(queue[l])
  BY DEF Inv, TypeOK, LinkTypeOK
<1>1. CASE \A l \in Links : m \notin Contents(l)
  <2>1. ASSUME NEW at \in Places(m) PROVE FALSE
    <3>1. PICK l \in Links, i \in 1 .. MaxMessages : at = <<l, i>>
      BY DEF Places
    <3>2. i <= Len(queue[l]) /\ queue[l][i] = m
      BY <3>1 DEF Places
    <3>3. i \in DOMAIN queue[l]
      BY <1>0, <3>2
    <3>4. QED
      BY <1>1, <3>2, <3>3 DEF Contents
  <2>2. Places(m) = {}
    BY <2>1
  <2>3. QED
    BY <1>1, <2>2, FS_EmptySet
<1>2. ASSUME NEW l \in Links, m \in Contents(l) PROVE Cardinality(Places(m)) = 1
  <2>1. PICK i \in DOMAIN queue[l] : queue[l][i] = m
    BY <1>2 DEF Contents
  <2>2. i \in 1 .. MaxMessages /\ i <= Len(queue[l])
    BY <1>0, <2>1, LimitsAssumption
  <2>3. ASSUME NEW k \in Links, NEW j \in 1 .. MaxMessages, j <= Len(queue[k]), queue[k][j] = m
        PROVE  k = l /\ j = i
    <3>1. j \in DOMAIN queue[k]
      BY <1>0, <2>3
    <3>2. m \in Contents(k)
      BY <2>3, <3>1 DEF Contents
    <3>3. QED
      BY <1>2, <2>1, <2>3, <3>1, <3>2 DEF PlaceInv, PlaceOf, Distinct
  <2>4. <<l, i>> \in Places(m)
    BY <2>1, <2>2 DEF Places
  <2>5. \A at \in Places(m) : at = <<l, i>>
    BY <2>3 DEF Places
  <2>6. Places(m) = {<<l, i>>}
    BY <2>4, <2>5
  <2>7. QED
    BY <2>6, FS_Singleton
<1>3. QED
  BY <1>1, <1>2

\* A message is in the hands of at most one loop.
LEMMA HandsCount ==
  ASSUME PlaceInv, NEW m \in Msgs
  PROVE  Cardinality({l \in Links : got[l] = m})
           = IF \E l \in Links : got[l] = m THEN 1 ELSE 0
<1>1. CASE \A l \in Links : got[l] # m
  <2>1. {l \in Links : got[l] = m} = {}
    BY <1>1
  <2>2. QED
    BY <1>1, <2>1, FS_EmptySet
<1>2. ASSUME NEW l \in Links, got[l] = m
      PROVE  Cardinality({k \in Links : got[k] = m}) = 1
  <2>1. {k \in Links : got[k] = m} = {l}
    BY <1>2 DEF PlaceInv, PlaceOf
  <2>2. QED
    BY <2>1, FS_Singleton
<1>3. QED
  BY <1>1, <1>2

\* A message that entered a transport is queued, or in the hands of an inbound
\* loop, or done with, and never two of these: none is duplicated and none
\* disappears, for any number of publishers, messages and sessions.
THEOREM BridgeConservation == Spec => []Conservation
<1>1. Init => SentInv /\ PlaceInv
  BY MessagesAssumption DEF Init, SentInv, PlaceInv, PlaceOf, Contents, Distinct
<1>2. Inv /\ SentInv /\ PlaceInv /\ [Next]_vars => SentInv' /\ PlaceInv'
  BY SentNext, PlaceNext
<1>3. Inv /\ SentInv /\ PlaceInv => Conservation
  <2> SUFFICES ASSUME Inv, SentInv, PlaceInv, NEW m \in Msgs
               PROVE  sent[m] = Cardinality(Places(m))
                                + Cardinality({l \in Links : got[l] = m})
                                + (IF end[m] # "none" THEN 1 ELSE 0)
    BY DEF Conservation
  <2>1. sent[m] \in {0, 1} /\ PlaceOf(m)
    BY DEF SentInv, PlaceInv
  <2>2. QED
    BY <2>1, PlacesCount, HandsCount DEF PlaceOf
<1>4. QED
  BY <1>1, <1>2, <1>3, InvInit, InvNext, PTL DEF Spec

-----------------------------------------------------------------------------
(* The counters.                                                           *)

\* The messages that were sent and will never be received.
Lost == {m \in Msgs : end[m] \in {"discarded", "destroyed"}}

\* The publishers between a successful send and its count.
Uncounted == {p \in Publishers : Succeeded(p)}

\* The messages in the transports.
Backlog == Len(queue["v2r"]) + Len(queue["r2v"])

CountInv ==
  /\ IsFiniteSet(Lost)
  /\ count["tx"] + Cardinality(Uncounted)
       = Backlog + count["rx"] + Cardinality(Lost)

\* Two lengths add up to a number.
LEMMA SumOfLengths ==
  ASSUME NEW a \in Nat, NEW b \in Nat
  PROVE  a + b \in Nat
OBVIOUS

\* The terms of the equation are numbers.
LEMMA CountTypes ==
  ASSUME TypeOK, CountInv
  PROVE  /\ count["tx"] \in Nat /\ count["rx"] \in Nat
         /\ Backlog \in Nat
         /\ IsFiniteSet(Uncounted) /\ Cardinality(Uncounted) \in Nat
         /\ Cardinality(Lost) \in Nat
<1>1. "tx" \in CounterNames /\ "rx" \in CounterNames
  BY DEF CounterNames
<1>2. count["tx"] \in Nat /\ count["rx"] \in Nat
  BY <1>1 DEF TypeOK, RecordTypeOK
<1>3. Backlog \in Nat
  <2>1. Len(queue["v2r"]) \in Nat /\ Len(queue["r2v"]) \in Nat
    BY DEF TypeOK, LinkTypeOK, Links
  <2>2. QED
    BY <2>1, SumOfLengths, Zenon DEF Backlog
<1>4. Uncounted \subseteq Publishers /\ IsFiniteSet(Publishers)
  BY LimitsAssumption DEF Uncounted
<1>5. IsFiniteSet(Uncounted) /\ Cardinality(Uncounted) \in Nat
  BY <1>4, FS_Subset, FS_CardinalityType
<1>6. Cardinality(Lost) \in Nat
  BY FS_CardinalityType DEF CountInv
<1>7. QED
  BY <1>2, <1>3, <1>5, <1>6

\* Bump changes the named counters by one and no other.
LEMMA BumpCounts ==
  ASSUME NEW S, Bump(S)
  PROVE  /\ count'["tx"] = IF "tx" \in S THEN count["tx"] + 1 ELSE count["tx"]
         /\ count'["rx"] = IF "rx" \in S THEN count["rx"] + 1 ELSE count["rx"]
BY DEF Bump, CounterNames

\* A call returns: if it succeeded it is counted, else nothing changes.
LEMMA ReturnCounts ==
  ASSUME Inv, CountInv, NEW p \in Publishers, pc[p] # "idle", NEW o, NEW S,
         Return(p, o, S), UNCHANGED <<queue, end, code>>, "rx" \notin S,
         "tx" \in S <=> Succeeded(p)
  PROVE  CountInv'
<1>1. pc' = [pc EXCEPT ![p] = "idle"] /\ pc \in [Publishers -> PublisherPc]
  BY DEF Return, Goto, Inv, TypeOK, PublisherTypeOK
<1>2. Lost' = Lost
  BY DEF Lost
<1>3. Uncounted' = Uncounted \ {p}
  BY <1>1 DEF Uncounted, Succeeded
<1>4. Cardinality(Uncounted') = IF Succeeded(p) THEN Cardinality(Uncounted) - 1
                                                ELSE Cardinality(Uncounted)
  BY <1>3, CountTypes, FS_RemoveElement DEF Uncounted, Inv
<1>5. /\ count'["tx"] = IF Succeeded(p) THEN count["tx"] + 1 ELSE count["tx"]
      /\ count'["rx"] = count["rx"]
  BY BumpCounts DEF Return
<1>6. /\ count["tx"] \in Nat /\ Cardinality(Uncounted) \in Nat
      /\ count'["tx"] + Cardinality(Uncounted') = count["tx"] + Cardinality(Uncounted)
  BY <1>4, <1>5, CountTypes DEF Inv
<1>7. QED
  BY <1>2, <1>5, <1>6 DEF CountInv, Backlog

\* A call goes on without having succeeded.
LEMMA GotoCounts ==
  ASSUME Inv, CountInv, NEW p \in Publishers, NEW label, Goto(p, label),
         UNCHANGED <<queue, end>>, ~Succeeded(p),
         label \in {"release", "account"} => code'[p] # "ok",
         \A r \in Publishers \ {p} : code'[r] = code[r],
         count'["tx"] = count["tx"], count'["rx"] = count["rx"]
  PROVE  CountInv'
<1>1. pc' = [pc EXCEPT ![p] = label] /\ pc \in [Publishers -> PublisherPc]
  BY DEF Goto, Inv, TypeOK, PublisherTypeOK
<1>2. Lost' = Lost
  BY DEF Lost
<1>3. Uncounted' = Uncounted
  BY <1>1 DEF Uncounted, Succeeded
<1>4. QED
  BY <1>2, <1>3 DEF CountInv, Backlog

\* One link changes its length and the other is left alone.
LEMMA BacklogStep ==
  ASSUME Inv, NEW l \in Links, \A k \in Links \ {l} : queue'[k] = queue[k], NEW n \in Int,
         Len(queue'[l]) = Len(queue[l]) + n
  PROVE  Backlog' = Backlog + n
<1>1. Len(queue["v2r"]) \in Nat /\ Len(queue["r2v"]) \in Nat
  BY DEF Inv, TypeOK, LinkTypeOK, Links
<1>2. CASE l = "v2r"
  <2>1. "r2v" \in Links \ {l}
    BY <1>2 DEF Links
  <2>2. queue'["r2v"] = queue["r2v"]
    BY <2>1
  <2>3. Len(queue'["r2v"]) = Len(queue["r2v"]) /\ Len(queue'["v2r"]) = Len(queue["v2r"]) + n
    BY <1>2, <2>2
  <2>4. PICK a \in Nat, b \in Nat : a = Len(queue["v2r"]) /\ b = Len(queue["r2v"])
    BY <1>1
  <2>5. Backlog' = (a + n) + b /\ Backlog = a + b
    BY <2>3, <2>4, Zenon DEF Backlog
  <2>6. QED
    BY <2>5
<1>3. CASE l = "r2v"
  <2>1. "v2r" \in Links \ {l}
    BY <1>3 DEF Links
  <2>2. queue'["v2r"] = queue["v2r"]
    BY <2>1
  <2>3. Len(queue'["v2r"]) = Len(queue["v2r"]) /\ Len(queue'["r2v"]) = Len(queue["r2v"]) + n
    BY <1>3, <2>2
  <2>4. PICK a \in Nat, b \in Nat : a = Len(queue["v2r"]) /\ b = Len(queue["r2v"])
    BY <1>1
  <2>5. Backlog' = a + (b + n) /\ Backlog = a + b
    BY <2>3, <2>4, Zenon DEF Backlog
  <2>6. QED
    BY <2>5
<1>4. QED
  BY <1>2, <1>3 DEF Links

\* The head of a link leaves it for good: the link is one shorter.
LEMMA HeadShortens ==
  ASSUME Inv, NEW l \in Links, queue[l] # <<>>,
         queue' = [queue EXCEPT ![l] = Tail(@)]
  PROVE  Backlog' = Backlog - 1
<1>1. queue \in [Links -> Seq(Msgs)] /\ queue[l] \in Seq(Msgs)
  BY DEF Inv, TypeOK, LinkTypeOK
<1>2. Len(queue'[l]) = Len(queue[l]) + (-1) /\ -1 \in Int
  BY <1>1, TailProperties
<1>3. \A k \in Links \ {l} : queue'[k] = queue[k]
  BY <1>1
<1>4. Backlog' = Backlog + (-1)
  BY <1>2, <1>3, BacklogStep
<1>5. Backlog \in Nat
  <2>1. Len(queue["v2r"]) \in Nat /\ Len(queue["r2v"]) \in Nat
    BY <1>1 DEF Links
  <2>2. QED
    BY <2>1, SumOfLengths, Zenon DEF Backlog
<1>6. QED
  BY <1>4, <1>5

\* A step of a publisher keeps the balance of the counters: a send adds to the
\* backlog and to the calls not yet counted, the count of a call takes it from
\* the latter, a discard moves a message from the backlog to the lost ones.
LEMMA CountPublish ==
  ASSUME Inv, SentInv, PlaceInv, CountInv, NEW p \in Publishers, PublishAction(p)
  PROVE  CountInv'
<1> USE DEF pubVars, loopVars, linkVars, histVars, boundVars
<1>0. /\ code \in [Publishers -> {"ok", "timeout", "wouldBlock", "invalid"}]
      /\ pc \in [Publishers -> PublisherPc] /\ DOMAIN end = Msgs
      /\ queue \in [Links -> Seq(Msgs)] /\ target[p] \in Links
  BY DEF Inv, TypeOK, PublisherTypeOK, RecordTypeOK, LinkTypeOK
<1>1. ASSUME NEW m \in Msgs, PublishRefuse(p, m) PROVE CountInv'
  <2>1. UNCHANGED <<pc, code, queue, end>>
    BY <1>1 DEF PublishRefuse
  <2>2. count'["tx"] = count["tx"] /\ count'["rx"] = count["rx"]
    BY <1>1, BumpCounts DEF PublishRefuse
  <2>3. QED
    BY <2>1, <2>2 DEF CountInv, Backlog, Lost, Uncounted, Succeeded
<1>2. ASSUME NEW m \in Msgs, PublishBegin(p, m) PROVE CountInv'
  BY <1>2, GotoCounts DEF PublishBegin, Succeeded
<1>3. CASE Dedup(p)
  BY <1>3, ReturnCounts, GotoCounts DEF Dedup, Succeeded
<1>4. CASE AcquireFlowSlot(p)
  BY <1>4, GotoCounts DEF AcquireFlowSlot, Succeeded
<1>5. CASE UndoFlowSlot(p)
  BY <1>5, ReturnCounts DEF UndoFlowSlot, Succeeded
<1>6. CASE SendOk(p)
  <2>a. PICK l \in Links : l = target[p]
    BY <1>0
  <2>b. PICK m : m = cur[p]
    OBVIOUS
  <2>0. l = target[p] /\ m = cur[p]
    BY <2>a, <2>b
  <2>1. /\ pc[p] \in Sending /\ pc' = [pc EXCEPT ![p] = Finish(p)]
        /\ code' = [code EXCEPT ![p] = "ok"] /\ UNCHANGED <<end, count>>
        /\ queue' = [queue EXCEPT ![l] = Insert(@, m, MsgPriority)] /\ m \in Msgs
    BY <1>6, <2>0 DEF SendOk, Goto, Sending, Inv, CallInv
  <2>2. p \notin Uncounted /\ Uncounted' = Uncounted \cup {p}
    BY <1>0, <2>1 DEF Uncounted, Succeeded, Sending, Finish
  <2>3. Cardinality(Uncounted') = Cardinality(Uncounted) + 1
    BY <2>2, CountTypes, FS_AddElement DEF Inv
  <2>4. Len(queue'[l]) = Len(queue[l]) + 1 /\ \A k \in Links \ {l} : queue'[k] = queue[k]
    BY <1>0, <2>1, InsertProperties
  <2>5. Backlog' = Backlog + 1
    BY <2>4, BacklogStep
  <2>6. Lost' = Lost
    BY <2>1 DEF Lost
  <2>7. /\ Backlog \in Nat /\ count["tx"] \in Nat /\ count["rx"] \in Nat
        /\ Cardinality(Uncounted) \in Nat /\ Cardinality(Lost) \in Nat
    BY CountTypes DEF Inv
  <2>8. count'["tx"] = count["tx"] /\ count'["rx"] = count["rx"]
    BY <2>1
  <2>9. QED
    BY <2>3, <2>5, <2>6, <2>7, <2>8, SMTT(60) DEF CountInv
<1>7. ASSUME NEW c \in {"timeout", "wouldBlock", "invalid"}, SendFails(p, c) PROVE CountInv'
  <2>1. /\ pc[p] \in Sending /\ Goto(p, Sequel(p, c)) /\ UNCHANGED <<queue, end, count>>
        /\ \A r \in Publishers \ {p} : code'[r] = code[r]
        /\ code'[p] # "ok"
    BY <1>0, <1>7 DEF SendFails
  <2>2. QED
    BY <2>1, GotoCounts DEF Sending, Succeeded
<1>8. CASE Discards(p) \/ RestoreFlags(p)
  <2>1. PICK label : Goto(p, label)
    BY <1>8 DEF Discards, NothingTaken, HeadTaken, RestoreFlags
  <2>2. /\ pc[p] \in {"discard", "asleep", "restore"} /\ code' = code /\ code[p] # "ok"
        /\ count'["tx"] = count["tx"] /\ count'["rx"] = count["rx"]
    BY <1>8, BumpCounts DEF Discards, RestoreFlags, Inv, CallInv
  <2>3. CASE UNCHANGED <<queue, end>>
    BY <2>1, <2>2, <2>3, GotoCounts DEF Succeeded
  <2>4. CASE ~UNCHANGED <<queue, end>>
    <3>a. PICK l \in Links : l = target[p]
      BY <1>0
    <3>b. PICK m : m = Head(queue[l])
      OBVIOUS
    <3>0. l = target[p] /\ m = Head(queue[l])
      BY <3>a, <3>b
    <3>1. /\ queue[l] # <<>> /\ queue' = [queue EXCEPT ![l] = Tail(@)]
          /\ end' = [end EXCEPT ![m] = "discarded"]
      BY <1>8, <2>4, <3>0 DEF Discards, NothingTaken, HeadTaken, RestoreFlags
    <3>2. m \in Msgs /\ end[m] = "none"
      BY <3>0, <3>1, HeadLeaves DEF PlaceInv, PlaceOf
    <3>3. m \notin Lost /\ Lost' = Lost \cup {m}
      BY <1>0, <3>1, <3>2 DEF Lost
    <3>4. IsFiniteSet(Lost') /\ Cardinality(Lost') = Cardinality(Lost) + 1
      BY <3>3, FS_AddElement DEF CountInv
    <3>5. Uncounted' = Uncounted
      BY <1>0, <2>1, <2>2 DEF Goto, Uncounted, Succeeded
    <3>6. Backlog' = Backlog - 1
      BY <3>1, HeadShortens
    <3>7. /\ Backlog \in Nat /\ count["tx"] \in Nat /\ count["rx"] \in Nat
          /\ Cardinality(Uncounted) \in Nat /\ Cardinality(Lost) \in Nat
      BY CountTypes DEF Inv
    <3>8. QED
      BY <2>2, <3>4, <3>5, <3>6, <3>7, SMTT(60) DEF CountInv
  <2>5. QED
    BY <2>3, <2>4
<1>9. CASE ReleaseFlowSlot(p)
  <2>1. CASE code[p] = "ok"
    BY <1>9, <2>1, ReturnCounts DEF ReleaseFlowSlot, Succeeded
  <2>2. CASE code[p] # "ok"
    BY <1>9, <2>2, ReturnCounts, GotoCounts DEF ReleaseFlowSlot, Succeeded
  <2>3. QED
    BY <2>1, <2>2
<1>10. CASE FailoverAccount(p)
  BY <1>10, ReturnCounts DEF FailoverAccount, Succeeded
<1>11. QED
  BY <1>1, <1>2, <1>3, <1>4, <1>5, <1>6, <1>7, <1>8, <1>9, <1>10, PublishCases
     DEF Inv, TypeOK

\* A step of an inbound loop keeps the balance: a receive takes a message from
\* the backlog and counts it.
LEMMA CountLoop ==
  ASSUME Inv, PlaceInv, CountInv, NEW l \in Links, LoopStep(l)
  PROVE  CountInv'
<1> USE DEF pubVars, loopVars, linkVars, histVars, boundVars
<1>0. Uncounted' = Uncounted
  BY LoopFrame DEF Uncounted, Succeeded
<1>1. CASE LoopStart(l) \/ LoopTest(l) \/ LoopNothing(l)
  <2>1. UNCHANGED <<queue, end>>
    BY <1>1 DEF LoopStart, LoopTest, LoopNothing
  <2>2. count'["tx"] = count["tx"] /\ count'["rx"] = count["rx"]
    BY <1>1, BumpCounts DEF LoopStart, LoopTest, LoopNothing
  <2>3. QED
    BY <1>0, <2>1, <2>2 DEF CountInv, Backlog, Lost
<1>2. CASE LoopReceive(l)
  <2>1. /\ queue[l] # <<>> /\ queue' = [queue EXCEPT ![l] = Tail(@)] /\ end' = end
        /\ count'["tx"] = count["tx"] /\ count'["rx"] = count["rx"] + 1
    BY <1>2, BumpCounts DEF LoopReceive
  <2>2. Backlog' = Backlog - 1
    BY <2>1, HeadShortens
  <2>3. Lost' = Lost
    BY <2>1 DEF Lost
  <2>4. /\ Backlog \in Nat /\ count["tx"] \in Nat /\ count["rx"] \in Nat
        /\ Cardinality(Uncounted) \in Nat /\ Cardinality(Lost) \in Nat
    BY CountTypes DEF Inv
  <2>5. QED
    BY <1>0, <2>1, <2>2, <2>3, <2>4, SMTT(60) DEF CountInv
<1>3. CASE LoopHandle(l)
  <2>0. PICK m : m = got[l]
    OBVIOUS
  <2>1. PICK v \in Verdicts[m] : end' = [end EXCEPT ![m] = v] /\ Bump({v} \cap CounterNames)
    BY <1>3, <2>0 DEF LoopHandle
  <2>2. queue' = queue /\ m \in Msgs
    BY <1>3, <2>0 DEF LoopHandle, Inv, HandInv
  <2>3. v \in VerdictNames
    BY <2>2, MessagesAssumption
  <2>4. end[m] = "none"
    BY <2>0, <2>2 DEF PlaceInv, PlaceOf
  <2>5. Lost' = Lost
    BY <2>1, <2>3, <2>4 DEF Lost, VerdictNames, Inv, TypeOK, RecordTypeOK
  <2>6. count'["tx"] = count["tx"] /\ count'["rx"] = count["rx"]
    BY <2>1, <2>3, BumpCounts DEF VerdictNames
  <2>7. QED
    BY <1>0, <2>2, <2>5, <2>6 DEF CountInv, Backlog
<1>4. QED
  BY <1>1, <1>2, <1>3 DEF LoopStep

\* The size of the union of two disjoint finite sets.
LEMMA DisjointUnion ==
  ASSUME NEW A, NEW B, IsFiniteSet(A), IsFiniteSet(B), A \cap B = {}
  PROVE  IsFiniteSet(A \cup B) /\ Cardinality(A \cup B) = Cardinality(A) + Cardinality(B)
<1>1. Cardinality(A) \in Nat /\ Cardinality(B) \in Nat /\ Cardinality(A \cap B) = 0
  BY FS_CardinalityType, FS_EmptySet
<1>2. /\ IsFiniteSet(A \cup B)
      /\ Cardinality(A \cup B) = Cardinality(A) + Cardinality(B) - Cardinality(A \cap B)
  BY FS_Union
<1>3. QED
  BY <1>1, <1>2

\* What is destroyed when the links S are closed: their contents.
LEMMA ReleaseCounts ==
  ASSUME Inv, PlaceInv, CountInv, NEW S \in SUBSET Links, Release(S),
         UNCHANGED <<count, pc, code>>
  PROVE  CountInv'
<1> DEFINE Gone(l) == IF l \in S THEN Elements(queue[l]) ELSE {}
<1>0. \A l \in Links : /\ queue[l] \in Seq(Msgs) /\ Len(queue[l]) \in Nat
                       /\ queue'[l] = IF l \in S THEN <<>> ELSE queue[l]
                       /\ Distinct(queue[l])
  BY DEF Inv, TypeOK, LinkTypeOK, Release, PlaceInv
<1>1. \A l \in Links : /\ IsFiniteSet(Gone(l)) /\ Cardinality(Gone(l)) \in Nat
                       /\ Len(queue'[l]) \in Nat
                       /\ Len(queue[l]) = Len(queue'[l]) + Cardinality(Gone(l))
  <2>1. ASSUME NEW l \in Links, l \in S
        PROVE  /\ IsFiniteSet(Gone(l)) /\ Cardinality(Gone(l)) = Len(queue[l])
               /\ Len(queue'[l]) = 0
    BY <1>0, <2>1, ElementsCount
  <2>2. ASSUME NEW l \in Links, l \notin S
        PROVE  /\ IsFiniteSet(Gone(l)) /\ Cardinality(Gone(l)) = 0
               /\ Len(queue'[l]) = Len(queue[l])
    BY <1>0, <2>2, FS_EmptySet
  <2> HIDE DEF Gone
  <2>3. QED
    BY <1>0, <2>1, <2>2
<1>2. \A m \in Msgs : end'[m] = IF \E l \in S : m \in Contents(l) THEN "destroyed" ELSE end[m]
  BY DEF Release
<1>3. Lost' = (Lost \cup Gone("v2r")) \cup Gone("r2v")
  <2>1. \A l \in Links : Gone(l) \subseteq Msgs
    BY <1>0 DEF Elements
  <2>2. \A m \in Msgs : (\E l \in S : m \in Contents(l)) <=> m \in Gone("v2r") \/ m \in Gone("r2v")
    BY ContentsAreElements DEF Links
  <2>3. \A m \in Msgs : (m \in Gone("v2r") \/ m \in Gone("r2v")) => end[m] = "none"
    BY ContentsAreElements DEF PlaceInv, PlaceOf, Links
  <2> HIDE DEF Gone
  <2>4. QED
    BY <1>2, <2>1, <2>2, <2>3 DEF Lost, Links
<1>4. Lost \cap Gone("v2r") = {} /\ (Lost \cup Gone("v2r")) \cap Gone("r2v") = {}
  <2>1. \A m \in Lost : m \in Msgs /\ end[m] # "none"
    BY DEF Lost
  <2>2. \A m \in Lost : m \notin Gone("v2r") /\ m \notin Gone("r2v")
    BY <2>1, ContentsAreElements DEF PlaceInv, PlaceOf, Links
  <2>3. \A m \in Gone("v2r") : m \in Msgs /\ m \in Contents("v2r")
    BY <1>0, ContentsAreElements DEF Elements, Links
  <2>4. \A m \in Gone("r2v") : m \in Contents("r2v")
    BY ContentsAreElements
  <2>5. \A m \in Gone("v2r") : m \notin Gone("r2v")
    BY <2>3, <2>4 DEF PlaceInv, PlaceOf, Links
  <2> HIDE DEF Gone
  <2>6. QED
    BY <2>2, <2>5
<1> HIDE DEF Gone
<1>5. "v2r" \in Links /\ "r2v" \in Links
  BY DEF Links
<1>6. /\ IsFiniteSet(Lost \cup Gone("v2r"))
      /\ Cardinality(Lost \cup Gone("v2r")) = Cardinality(Lost) + Cardinality(Gone("v2r"))
  BY <1>1, <1>4, <1>5, DisjointUnion DEF CountInv
<1>7. /\ IsFiniteSet(Lost')
      /\ Cardinality(Lost') = (Cardinality(Lost) + Cardinality(Gone("v2r")))
                              + Cardinality(Gone("r2v"))
  <2>1. /\ IsFiniteSet((Lost \cup Gone("v2r")) \cup Gone("r2v"))
        /\ Cardinality((Lost \cup Gone("v2r")) \cup Gone("r2v"))
             = Cardinality(Lost \cup Gone("v2r")) + Cardinality(Gone("r2v"))
    BY <1>1, <1>4, <1>5, <1>6, DisjointUnion
  <2>2. QED
    BY <1>3, <1>6, <2>1
<1>8. PICK a \in Nat, b \in Nat, c \in Nat, d \in Nat :
        /\ a = Len(queue'["v2r"]) /\ b = Len(queue'["r2v"])
        /\ c = Cardinality(Gone("v2r")) /\ d = Cardinality(Gone("r2v"))
  BY <1>1, <1>5
<1>9. Backlog' = a + b /\ Backlog = (a + c) + (b + d)
  BY <1>1, <1>5, <1>8, Zenon DEF Backlog
<1>10. Cardinality(Lost') = (Cardinality(Lost) + c) + d
  BY <1>7, <1>8
<1>11. Uncounted' = Uncounted
  BY DEF Uncounted, Succeeded
<1>12. /\ count["tx"] \in Nat /\ count["rx"] \in Nat
       /\ Cardinality(Uncounted) \in Nat /\ Cardinality(Lost) \in Nat
  BY CountTypes DEF Inv
<1>13. QED
  BY <1>7, <1>9, <1>10, <1>11, <1>12 DEF CountInv

\* Every step of the system keeps the balance.
LEMMA CountNext ==
  ASSUME Inv, SentInv, PlaceInv, CountInv, [Next]_vars
  PROVE  CountInv'
<1>1. CASE UNCHANGED vars
  BY <1>1 DEF vars, linkVars, pubVars, histVars, CountInv, Lost, Uncounted, Succeeded, Backlog
<1>2. CASE OwnerStep
  <2>1. UNCHANGED <<count, pc, code>>
    BY <1>2, OwnerFrame DEF pubVars
  <2>2. CASE UNCHANGED <<queue, end>>
    BY <2>1, <2>2 DEF CountInv, Lost, Uncounted, Succeeded, Backlog
  <2>3. QED
    BY <1>2, <2>1, <2>2, OwnerReleases, ReleaseCounts
<1>3. QED
  BY <1>1, <1>2, CountPublish, CountLoop, NextByActor

\* tx_count and rx_count reconcile with the queues, whatever backpressure
\* discards, retries, failover and Stop do, for any number of publishers,
\* messages and sessions.
THEOREM BridgeCountersReconcile == Spec => []CountersReconcile
<1>1. Init => SentInv /\ PlaceInv /\ CountInv
  <2> SUFFICES ASSUME Init PROVE SentInv /\ PlaceInv /\ CountInv
    OBVIOUS
  <2>1. SentInv /\ PlaceInv
    BY MessagesAssumption DEF Init, SentInv, PlaceInv, PlaceOf, Contents, Distinct
  <2>2. Lost = {} /\ Uncounted = {}
    BY DEF Init, Lost, Uncounted, Succeeded
  <2>3. Backlog = 0 /\ count["tx"] = 0 /\ count["rx"] = 0
    BY DEF Init, Backlog, CounterNames, Links
  <2>4. QED
    BY <2>1, <2>2, <2>3, FS_EmptySet DEF CountInv
<1>2. Inv /\ SentInv /\ PlaceInv /\ CountInv /\ [Next]_vars
        => SentInv' /\ PlaceInv' /\ CountInv'
  BY SentNext, PlaceNext, CountNext
<1>3. CountInv => CountersReconcile
  BY DEF CountInv, CountersReconcile, Ended, Lost, Uncounted, Succeeded, Backlog
<1>4. QED
  BY <1>1, <1>2, <1>3, InvInit, InvNext, PTL DEF Spec

-----------------------------------------------------------------------------
(* The two directions.                                                     *)

\* Without failover a message never leaves the link it was published to.
CallsOnOwnLink ==
  \A p \in Publishers : pc[p] # "idle" => target[p] = MsgLink[cur[p]]
LinkOwns(l) ==
  /\ \A m \in Contents(l) : MsgLink[m] = l
  /\ got[l] # NoMsg => MsgLink[got[l]] = l
RouteInv == CallsOnOwnLink /\ (\A l \in Links : LinkOwns(l)) /\ RoutedToPeer

\* A publisher sends to the link of its message, as long as nothing fails over.
LEMMA RoutePublish ==
  ASSUME ~FailoverEnabled, Inv, RouteInv, NEW p \in Publishers, PublishAction(p)
  PROVE  RouteInv'
<1> USE DEF pubVars, loopVars, linkVars, histVars, boundVars
<1>0. /\ queue \in [Links -> Seq(Msgs)] /\ target \in [Publishers -> Links]
      /\ pc \in [Publishers -> PublisherPc] /\ cur \in [Publishers -> Msgs \cup {NoMsg}]
  BY DEF Inv, TypeOK, LinkTypeOK, PublisherTypeOK
<1>1. UNCHANGED <<got, router>>
  BY PublishFrame
<1>2. RoutedToPeer'
  BY <1>1 DEF RouteInv, RoutedToPeer
<1>3. CallsOnOwnLink'
  <2>1. ASSUME NEW m \in Msgs, PublishRefuse(p, m) \/ PublishBegin(p, m)
        PROVE  CallsOnOwnLink'
    <3>1. CASE PublishRefuse(p, m)
      BY <3>1 DEF PublishRefuse, RouteInv, CallsOnOwnLink
    <3>2. CASE PublishBegin(p, m)
      <4>1. \A r \in Publishers \ {p} : UNCHANGED <<pc[r], cur[r], target[r]>>
        BY <1>0, <3>2 DEF PublishBegin, Goto
      <4>2. cur'[p] = m /\ target'[p] = MsgLink[m]
        BY <1>0, <3>2 DEF PublishBegin
      <4>3. QED
        BY <4>1, <4>2 DEF RouteInv, CallsOnOwnLink
    <3>3. QED
      BY <2>1, <3>1, <3>2
  <2>2. CASE Dedup(p) \/ AcquireFlowSlot(p) \/ UndoFlowSlot(p)
    BY <1>0, <2>2 DEF Dedup, AcquireFlowSlot, UndoFlowSlot, Return, Goto, RouteInv, CallsOnOwnLink
  <2>3. CASE ReleaseFlowSlot(p) \/ FailoverAccount(p)
    BY <1>0, <2>3 DEF ReleaseFlowSlot, FailoverAccount, Return, Goto, RouteInv, CallsOnOwnLink
  <2>4. CASE SendOk(p) \/ Discards(p) \/ RestoreFlags(p) \/ \E c : SendFails(p, c)
    <3>1. pc[p] # "idle" /\ UNCHANGED <<cur, target>> /\ \A r \in Publishers \ {p} : pc'[r] = pc[r]
      BY <1>0, <2>4 DEF SendOk, Discards, NothingTaken, HeadTaken, RestoreFlags, SendFails,
                        Goto, Sending
    <3>2. QED
      BY <3>1 DEF RouteInv, CallsOnOwnLink
  <2>5. QED
    BY <2>1, <2>2, <2>3, <2>4, PublishCases DEF Inv, TypeOK
<1>4. ASSUME NEW k \in Links PROVE LinkOwns(k)'
  <2>0. queue[k] \in Seq(Msgs)
    BY <1>0
  <2>1. \/ queue'[k] = queue[k]
        \/ queue[k] # <<>> /\ queue'[k] = Tail(queue[k])
        \/ /\ k = MsgLink[cur[p]] /\ cur[p] \in Msgs
           /\ queue'[k] = Insert(queue[k], cur[p], MsgPriority)
    <3>1. CASE SendOk(p)
      BY <1>0, <3>1 DEF SendOk, Sending, RouteInv, CallsOnOwnLink, Inv, CallInv
    <3>2. CASE Discards(p) \/ RestoreFlags(p)
      BY <1>0, <3>2 DEF Discards, NothingTaken, HeadTaken, RestoreFlags
    <3>3. ASSUME NEW m \in Msgs, PublishRefuse(p, m) \/ PublishBegin(p, m)
          PROVE  queue'[k] = queue[k]
      BY <3>3 DEF PublishRefuse, PublishBegin
    <3>4. CASE \/ Dedup(p) \/ AcquireFlowSlot(p) \/ UndoFlowSlot(p)
               \/ ReleaseFlowSlot(p) \/ FailoverAccount(p) \/ \E c : SendFails(p, c)
      BY <3>4 DEF Dedup, AcquireFlowSlot, UndoFlowSlot, ReleaseFlowSlot, FailoverAccount, SendFails
    <3>5. QED
      BY <3>1, <3>2, <3>3, <3>4, PublishCases DEF Inv, TypeOK
  <2>2. \A m \in Elements(queue'[k]) : m \in Elements(queue[k]) \/ MsgLink[m] = k
    BY <2>0, <2>1, InsertElements, TailElements
  <2>3. \A m \in Contents(k)' : MsgLink[m] = k
    BY <2>2, ContentsAreElements, ContentsNext DEF RouteInv, LinkOwns
  <2>4. QED
    BY <1>1, <2>3 DEF RouteInv, LinkOwns
<1>5. QED
  BY <1>2, <1>3, <1>4 DEF RouteInv

\* An inbound loop reads its own link and hands what it read to the router of
\* the other side.
LEMMA RouteLoop ==
  ASSUME Inv, RouteInv, NEW l \in Links, LoopStep(l)
  PROVE  RouteInv'
<1> USE DEF pubVars, loopVars, linkVars, histVars, boundVars
<1>0. /\ got \in [Links -> Msgs \cup {NoMsg}] /\ queue \in [Links -> Seq(Msgs)]
      /\ DOMAIN router = Msgs
  BY DEF Inv, TypeOK, LoopTypeOK, LinkTypeOK, RecordTypeOK
<1>1. CallsOnOwnLink'
  BY LoopFrame DEF RouteInv, CallsOnOwnLink
<1>2. CASE LoopStart(l) \/ LoopTest(l) \/ LoopNothing(l)
  <2>1. UNCHANGED <<queue, got, router>>
    BY <1>2 DEF LoopStart, LoopTest, LoopNothing
  <2>2. QED
    BY <1>1, <2>1 DEF RouteInv, LinkOwns, RoutedToPeer, Contents
<1>3. CASE LoopReceive(l)
  <2>1. /\ queue[l] # <<>> /\ queue' = [queue EXCEPT ![l] = Tail(@)]
        /\ got' = [got EXCEPT ![l] = Head(queue[l])] /\ router' = router
    BY <1>3 DEF LoopReceive
  <2>2. queue[l] \in Seq(Msgs) /\ queue'[l] = Tail(queue[l])
    BY <1>0, <2>1
  <2>3. /\ Head(queue[l]) \in Elements(queue[l])
        /\ Elements(queue'[l]) \subseteq Elements(queue[l])
    BY <2>1, <2>2, TailElements
  <2>4. LinkOwns(l)'
    BY <1>0, <2>1, <2>3, ContentsAreElements, ContentsNext DEF RouteInv, LinkOwns
  <2>5. ASSUME NEW k \in Links \ {l} PROVE LinkOwns(k)'
    <3>1. queue'[k] = queue[k] /\ got'[k] = got[k]
      BY <1>0, <2>1
    <3>2. QED
      BY <3>1, ContentsAreElements, ContentsNext DEF RouteInv, LinkOwns
  <2>6. QED
    BY <1>1, <2>1, <2>4, <2>5 DEF RouteInv, RoutedToPeer
<1>4. CASE LoopHandle(l)
  <2>0. PICK m : m = got[l]
    OBVIOUS
  <2>1. m \in Msgs /\ MsgLink[m] = l
    BY <1>4, <2>0, MessagesAssumption DEF LoopHandle, Inv, HandInv, RouteInv, LinkOwns
  <2>2. /\ queue' = queue /\ got' = [got EXCEPT ![l] = NoMsg]
        /\ router' \in {router, [router EXCEPT ![m] = RouterOf(l)]}
    BY <1>4, <2>0 DEF LoopHandle
  <2>3. RoutedToPeer'
    BY <1>0, <2>1, <2>2 DEF RouteInv, RoutedToPeer
  <2>4. \A k \in Links : LinkOwns(k)'
    BY <1>0, <2>2 DEF RouteInv, LinkOwns, Contents
  <2>5. QED
    BY <1>1, <2>3, <2>4 DEF RouteInv
<1>5. QED
  BY <1>2, <1>3, <1>4 DEF LoopStep

\* As long as ResolveFailover names no other transport, what the vehicle
\* publishes goes to the robot's router only and the other way round: the
\* mixing that the failover run shows has no other cause.
THEOREM BridgeRoutedWithoutFailover ==
  ASSUME ~FailoverEnabled
  PROVE  Spec => []RoutedToPeer
<1>1. Init => RouteInv
  BY DEF Init, RouteInv, CallsOnOwnLink, LinkOwns, Contents, RoutedToPeer
<1>2. Inv /\ RouteInv /\ [Next]_vars => RouteInv'
  <2> SUFFICES ASSUME Inv, RouteInv, [Next]_vars PROVE RouteInv'
    OBVIOUS
  <2>1. CASE UNCHANGED vars
    BY <2>1 DEF vars, linkVars, loopVars, pubVars, histVars, RouteInv, CallsOnOwnLink,
                LinkOwns, Contents, RoutedToPeer
  <2>2. CASE OwnerStep
    <3>1. UNCHANGED <<got, pc, cur, target, router>>
      BY <2>2, OwnerFrame DEF pubVars
    <3>2. CASE UNCHANGED <<queue, end>>
      BY <3>1, <3>2 DEF RouteInv, CallsOnOwnLink, LinkOwns, Contents, RoutedToPeer
    <3>3. ASSUME NEW S \in SUBSET Links, Release(S) PROVE RouteInv'
      <4>1. \A l \in Links : queue'[l] = IF l \in S THEN <<>> ELSE queue[l]
        BY <3>3 DEF Release
      <4>2. \A l \in Links : Contents(l)' \subseteq Contents(l)
        BY <4>1 DEF Contents
      <4>3. QED
        BY <3>1, <4>2 DEF RouteInv, CallsOnOwnLink, LinkOwns, RoutedToPeer
    <3>4. QED
      BY <2>2, <3>2, <3>3, OwnerReleases
  <2>3. QED
    BY <2>1, <2>2, RoutePublish, RouteLoop, NextByActor
<1>3. RouteInv => RoutedToPeer
  BY DEF RouteInv
<1>4. QED
  BY <1>1, <1>2, <1>3, InvInit, InvNext, PTL DEF Spec
=============================================================================
