------------------------------ MODULE MCBridge ------------------------------
(* Small instances of Bridge: two publishers, three messages from the      *)
(* vehicle.  Where the topic is listed for deduplication, m1 and m3 carry  *)
(* the same key; m1 is urgent.  The link from the robot fills through      *)
(* failover.                                                               *)
EXTENDS Bridge, TLC

CONSTANTS p1, p2, m1, m2, m3, k1, k2

AnyCalls == [p \in Publishers |-> Msgs]
FixedCalls == p1 :> {m1, m2} @@ p2 :> {m3}
MCMsgLink == [m \in Msgs |-> "v2r"]
MCMsgKey == m1 :> k1 @@ m2 :> k2 @@ m3 :> k1
MCNoKeys == [m \in Msgs |-> NoKey]
MCMsgLevel == m1 :> 2 @@ m2 :> 1 @@ m3 :> 0
MCThreshold == "v2r" :> 2 @@ "r2v" :> 1
MCVerdicts == m1 :> {"delivered"} @@ m2 :> {"expired"} @@ m3 :> {"routeMiss"}

Symmetry == Permutations({p1, p2})
=============================================================================
