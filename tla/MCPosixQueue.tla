---------------------------- MODULE MCPosixQueue ----------------------------
(* Small instances: publishers that send and discard, and an inbound loop, *)
(* in a process that may crash.  m1 is urgent, the others are not.         *)
EXTENDS Guardian, TLC

CONSTANTS pub1, pub2, inbound, m1, m2, m3

Send == "SendWithTimeout"
Discard == "ReceiveNonBlocking"

\* Only one thread ever switches O_NONBLOCK.
OneDiscarder == pub1 :> {Send, Discard, "SendNonBlocking"} @@ pub2 :> {Send}
                @@ inbound :> {"ReceiveWithTimeout"}

\* Two publishers under BackpressurePolicy::kDropOldest.
TwoDiscarders == pub1 :> {Send, Discard} @@ pub2 :> {Send, Discard}
                 @@ inbound :> {"ReceiveWithTimeout"}

Urgency == m1 :> 1 @@ m2 :> 0 @@ m3 :> 0
=============================================================================
