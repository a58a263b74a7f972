----------------------------- MODULE Transport -----------------------------
(***************************************************************************)
(* What ITransport (interconnect/transport.hpp) promises of one transport, *)
(* as an abstract specification: a bounded queue in priority order that    *)
(* loses messages only to a receiver, to DiscardOldest or to Close.        *)
(*                                                                         *)
(* PosixQueue, which looks inside the calls of the POSIX implementation,   *)
(* and each link of Bridge, which uses the calls, both implement it.       *)
(***************************************************************************)
EXTENDS PriorityOrder

CONSTANTS Msgs, MsgPriority, MaxMessages

VARIABLES open, queue

Init == ~open /\ queue = <<>>

Create == ~open /\ open' /\ UNCHANGED queue

\* SendWithTimeout with kOk
Put(m) ==
  /\ open /\ Len(queue) < MaxMessages
  /\ queue' = Insert(queue, m, MsgPriority)
  /\ UNCHANGED open

\* ReceiveWithTimeout with kOk, or a DiscardOldest that found something
TakeHead ==
  /\ open /\ queue # <<>>
  /\ queue' = Tail(queue)
  /\ UNCHANGED open

\* Close and Unlink
Close == open /\ open' = FALSE /\ queue' = <<>>

Next == Create \/ (\E m \in Msgs : Put(m)) \/ TakeHead \/ Close

Spec == Init /\ [][Next]_<<open, queue>>
=============================================================================
