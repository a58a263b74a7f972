------------------------------ MODULE Guardian ------------------------------
(***************************************************************************)
(* ProcessGuardian::RunWithRestart around a service that uses a POSIX      *)
(* queue, as ServiceEntry of demo/main.cpp does: Create, work of the       *)
(* threads, Close and Unlink, exit code 0.                                 *)
(*                                                                         *)
(* The process may die between any two system calls.  Its threads and its  *)
(* descriptor go with it; the queue is the kernel's and stays, so that the *)
(* mq_open of the next run, without O_EXCL, finds it with its messages.    *)
(***************************************************************************)
EXTENDS PosixQueue

CONSTANT MaxRestarts   \* max_restart_times

ASSUME GuardianAssumption == MaxRestarts \in Nat

VARIABLES
  service,   \* "none", "running", "closed" (past Close and Unlink), and how it
             \* ended: "zero" or "nonzero"
  restarts,  \* restart_count
  verdict,   \* what RunWithRestart returned; kProcessWaitFailed is "waitFailed"
             \* when it has given up and "abandoned" when waitpid failed
  exists     \* the queue's name exists in the kernel

guardian == <<service, restarts, verdict>>
allVars == <<vars, guardian, exists>>

GInit ==
  /\ Init
  /\ service = "none" /\ restarts = 0 /\ verdict = "none"
  /\ exists = FALSE

\* A step of the service, which closes the queue once, at its end.
Work ==
  /\ service = "running" /\ Next
  /\ IF open /\ ~open'
     THEN exists' = FALSE /\ service' = "closed"
     ELSE exists' = (exists \/ open') /\ UNCHANGED service
  /\ UNCHANGED <<restarts, verdict>>

\* ServiceEntry returns: not 0 when Create failed; 0, or another code when the
\* pool refused, once the queue is closed.
Return ==
  /\ \/ service = "running" /\ ~open /\ service' = "nonzero"
     \/ service = "closed" /\ service' \in {"zero", "nonzero"}
  /\ UNCHANGED <<vars, restarts, verdict, exists>>

\* The process is killed by a signal.  Between Close and Unlink that leaves
\* what it leaves just before Close.
Crash ==
  /\ service \in {"running", "closed"}
  /\ service' = "nonzero"
  /\ open' = FALSE /\ nonblock' = FALSE
  /\ pc' = [t \in Threads |-> "idle"]
  /\ op' = [t \in Threads |-> "none"]
  /\ arg' = [t \in Threads |-> NoMsg]
  /\ saved' = [t \in Threads |-> FALSE]
  /\ answer' = [t \in Threads |-> "none"]
  /\ UNCHANGED <<queue, stamp, clock, restarts, verdict, exists>>

\* fork, or its failure.
Fork ==
  /\ service = "none" /\ verdict = "none"
  /\ \/ service' = "running" /\ UNCHANGED verdict
     \/ verdict' = "forkFailed" /\ UNCHANGED service
  /\ UNCHANGED <<vars, restarts, exists>>

AnyExitIsFine ==
  /\ service \in {"zero", "nonzero"} /\ verdict = "none"
  /\ service' = "none" /\ verdict' = "ok"
  /\ UNCHANGED <<vars, restarts, exists>>
\* waitpid: only exit code 0 is success; anything else counts as a restart.
Wait ==
  /\ service \in {"zero", "nonzero"} /\ verdict = "none"
  /\ service' = "none"
  /\ IF service = "zero"
     THEN verdict' = "ok" /\ UNCHANGED restarts
     ELSE /\ restarts' = restarts + 1
          /\ verdict' = IF restarts' <= MaxRestarts THEN verdict ELSE "waitFailed"
  /\ UNCHANGED <<vars, exists>>

\* waitpid fails, interrupted by a signal for one: the guardian returns
\* kProcessWaitFailed and leaves the service to itself.
WaitFails ==
  /\ service # "none" /\ verdict = "none"
  /\ verdict' = "abandoned"
  /\ UNCHANGED <<vars, service, restarts, exists>>

GNext == Work \/ Return \/ Crash \/ Fork \/ Wait \/ WaitFails

\* Threads are scheduled and deadlines pass while the process lives.
GSpec ==
  /\ GInit /\ [][GNext]_allVars
  /\ \A t \in Threads : WF_allVars(service = "running" /\ Step(t)
                                   /\ UNCHANGED <<guardian, exists>>)

-----------------------------------------------------------------------------
(* Properties.                                                             *)

\* RunWithRestart answers kOk only when the last run has removed its queue, so
\* nothing is left behind by a crash that a later run did not find and clear;
\* it gives up only after 1 + max_restart_times runs.
OkLeavesNothing ==
  /\ verdict = "ok" => ~exists /\ queue = <<>>
  /\ verdict = "waitFailed" => restarts = MaxRestarts + 1
  /\ restarts <= MaxRestarts + 1

\* The calls of the threads, step by step, are those of one abstract transport
\* that is open as long as the queue exists: a crash at any point and the
\* Create of the next run are invisible to it, so they lose and duplicate no
\* message.
Abstract == INSTANCE Transport WITH open <- exists
ImplementsTransport == Abstract!Spec
=============================================================================
