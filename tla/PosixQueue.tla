----------------------------- MODULE PosixQueue -----------------------------
(***************************************************************************)
(* PosixMessageQueue (ipc/posix_message_queue.cpp) under PosixMqTransport: *)
(* one queue descriptor shared by threads.                                 *)
(*                                                                         *)
(* SendWithTimeout and ReceiveWithTimeout are one system call each.        *)
(* SendNonBlocking and ReceiveNonBlocking (which is all DiscardOldest does)*)
(* are four: read the flags, set O_NONBLOCK, call, write the flags back.   *)
(* O_NONBLOCK belongs to the descriptor, so these steps of one thread      *)
(* change what the calls of every other thread do.                         *)
(***************************************************************************)
EXTENDS PriorityOrder

CONSTANTS
  Threads,
  Calls,         \* the operations each thread uses
  Msgs,          \* one message per send
  NoMsg,
  MsgPriority,
  MaxMessages    \* QueueConfig::max_messages

Sends == {"SendWithTimeout", "SendNonBlocking"}
NonBlocking == {"SendNonBlocking", "ReceiveNonBlocking"}
Operations == Sends \cup {"ReceiveWithTimeout", "ReceiveNonBlocking"}

ASSUME QueueAssumption ==
  /\ Calls \in [Threads -> SUBSET Operations]
  /\ MsgPriority \in [Msgs -> Nat]
  /\ MaxMessages \in Nat \ {0}
  /\ NoMsg \notin Msgs

VARIABLES
  open,       \* mqd_ >= 0
  queue,      \* the kernel's queue, in the order of receipt
  nonblock,   \* O_NONBLOCK of the open descriptor
  pc, op, arg,
  saved,      \* original_flags of a non-blocking call
  answer,     \* what the last call of each thread returned
  stamp,      \* history: the place of each message in the order of sending
  clock       \* history: how many messages were sent

vars == <<open, queue, nonblock, pc, op, arg, saved, answer, stamp, clock>>

Init ==
  /\ open = FALSE
  /\ queue = <<>>
  /\ nonblock = FALSE
  /\ pc = [t \in Threads |-> "idle"]
  /\ op = [t \in Threads |-> "none"]
  /\ arg = [t \in Threads |-> NoMsg]
  /\ saved = [t \in Threads |-> FALSE]
  /\ answer = [t \in Threads |-> "none"]
  /\ stamp = [m \in Msgs |-> 0]
  /\ clock = 0

Goto(t, label) == pc' = [pc EXCEPT ![t] = label]

\* mq_open(O_CREAT | O_RDWR): a new descriptor blocks.
Create ==
  /\ ~open
  /\ open' = TRUE
  /\ nonblock' = FALSE
  /\ UNCHANGED <<queue, pc, op, arg, saved, answer, stamp, clock>>

\* A thread enters one of the four operations; a send brings a new message,
\* and DiscardOldest is called right after a send that met congestion, as
\* InterconnectBridge::PublishWithBackpressure does.
Begin(t, o, m) ==
  /\ open /\ pc[t] = "idle" /\ o \in Calls[t]
  /\ IF o \in Sends
     THEN m \in Msgs /\ stamp[m] = 0 /\ \A u \in Threads : arg[u] # m
     ELSE m = NoMsg
  /\ o = "ReceiveNonBlocking" => answer[t] \in {"timeout", "wouldBlock"}
  /\ op' = [op EXCEPT ![t] = o]
  /\ arg' = [arg EXCEPT ![t] = m]
  /\ Goto(t, IF o \in NonBlocking THEN "getattr" ELSE "syscall")
  /\ UNCHANGED <<open, queue, nonblock, saved, answer, stamp, clock>>

\* SetQueueNonBlocking: mq_getattr ...
GetAttr(t) ==
  /\ pc[t] = "getattr"
  /\ saved' = [saved EXCEPT ![t] = nonblock]
  /\ Goto(t, "setattr")
  /\ UNCHANGED <<open, queue, nonblock, op, arg, answer, stamp, clock>>

SetAttrClears(t) ==
  /\ pc[t] = "setattr"
  /\ nonblock' = FALSE
  /\ Goto(t, "syscall")
  /\ UNCHANGED <<open, queue, op, arg, saved, answer, stamp, clock>>
\* ... and mq_setattr with O_NONBLOCK.
SetAttr(t) ==
  /\ pc[t] = "setattr"
  /\ nonblock' = TRUE
  /\ Goto(t, "syscall")
  /\ UNCHANGED <<open, queue, op, arg, saved, answer, stamp, clock>>

\* The kernel can serve the call at once.
Ready(t) ==
  IF op[t] \in Sends THEN Len(queue) < MaxMessages ELSE queue # <<>>

\* What the kernel does with the queue when it serves the call.
Transfer(t) ==
  IF op[t] \in Sends
  THEN /\ queue' = Insert(queue, arg[t], MsgPriority)
       /\ clock' = clock + 1
       /\ stamp' = [stamp EXCEPT ![arg[t]] = clock + 1]
  ELSE queue' = Tail(queue) /\ UNCHANGED <<stamp, clock>>

\* The system call returns; a non-blocking operation still restores the flags.
Finish(t, a) ==
  /\ answer' = [answer EXCEPT ![t] = a]
  /\ arg' = [arg EXCEPT ![t] = NoMsg]
  /\ Goto(t, IF op[t] \in NonBlocking THEN "restore" ELSE "idle")

\* mq_timedsend, mq_timedreceive, mq_send or mq_receive: the kernel looks at
\* O_NONBLOCK on entry only.
Enter(t) ==
  /\ pc[t] = "syscall"
  /\ \/ Ready(t) /\ Transfer(t) /\ Finish(t, "ok")
     \/ /\ ~Ready(t) /\ nonblock                               \* EAGAIN
        /\ Finish(t, "wouldBlock")
        /\ UNCHANGED <<queue, stamp, clock>>
     \/ /\ ~Ready(t) /\ ~nonblock
        /\ Goto(t, "asleep")
        /\ UNCHANGED <<queue, arg, answer, stamp, clock>>
  /\ UNCHANGED <<open, nonblock, op, saved>>

\* A sleeping call is served.
Wake(t) ==
  /\ pc[t] = "asleep" /\ Ready(t)
  /\ Transfer(t) /\ Finish(t, "ok")
  /\ UNCHANGED <<open, nonblock, op, saved>>

ExpireNever(t) == pc[t] = "asleep" /\ FALSE /\ UNCHANGED vars
\* ETIMEDOUT: only the timed calls have a deadline (MakeAbsTimeout).
Expire(t) ==
  /\ pc[t] = "asleep" /\ op[t] \notin NonBlocking
  /\ Finish(t, "timeout")
  /\ UNCHANGED <<open, queue, nonblock, op, saved, stamp, clock>>

RestoreSkippedOnError(t) ==
  /\ pc[t] = "restore"
  /\ nonblock' = IF answer[t] = "ok" THEN saved[t] ELSE nonblock
  /\ Goto(t, "idle")
  /\ UNCHANGED <<open, queue, op, arg, saved, answer, stamp, clock>>
\* RestoreQueueFlags, whatever the call returned.
Restore(t) ==
  /\ pc[t] = "restore"
  /\ nonblock' = saved[t]
  /\ Goto(t, "idle")
  /\ UNCHANGED <<open, queue, op, arg, saved, answer, stamp, clock>>

CloseKeepsMessages ==
  /\ open /\ \A t \in Threads : pc[t] = "idle"
  /\ open' = FALSE
  /\ UNCHANGED <<queue, nonblock, pc, op, arg, saved, answer, stamp, clock>>
\* Close and Unlink, with no call in progress: the bridge joins its inbound
\* loops before, and Bridge models the publishers that come late.
Close ==
  /\ open /\ \A t \in Threads : pc[t] = "idle"
  /\ open' = FALSE
  /\ queue' = <<>>
  /\ UNCHANGED <<nonblock, pc, op, arg, saved, answer, stamp, clock>>

Step(t) == GetAttr(t) \/ SetAttr(t) \/ Enter(t) \/ Wake(t) \/ Expire(t)
           \/ Restore(t)

Next ==
  \/ Create \/ Close
  \/ \E t \in Threads :
       \/ \E o \in Calls[t], m \in Msgs \cup {NoMsg} : Begin(t, o, m)
       \/ Step(t)

\* Threads are scheduled and deadlines pass; nobody has to call anything.
Spec == Init /\ [][Next]_vars /\ \A t \in Threads : WF_vars(Step(t))

-----------------------------------------------------------------------------
(* Properties.                                                             *)

\* Receivers get the highest priority first and, within a priority, the order
\* of sending, whatever calls slept, expired or were discarded meanwhile.
QueueOrdered ==
  \A i, j \in DOMAIN queue : i < j =>
    \/ MsgPriority[queue[i]] > MsgPriority[queue[j]]
    \/ /\ MsgPriority[queue[i]] = MsgPriority[queue[j]]
       /\ stamp[queue[i]] < stamp[queue[j]]

InNonBlockingCall(t) == pc[t] # "idle" /\ op[t] \in NonBlocking

\* No half-switched descriptor: when no non-blocking call is in progress the
\* descriptor blocks again.
FlagRestored == (\A t \in Threads : ~InNonBlockingCall(t)) => ~nonblock

\* A non-blocking call never sleeps in the kernel, where it has no deadline.
NonBlockingNeverSleeps ==
  \A t \in Threads : pc[t] = "asleep" => op[t] \notin NonBlocking

\* Every call returns, at the latest when its deadline passes.
CallsReturn == \A t \in Threads : (pc[t] # "idle") ~> (pc[t] = "idle")
=============
