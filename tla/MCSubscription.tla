---------------------------- MODULE MCSubscription ----------------------------
(* Small instances of Subscription: see the .cfg files that name this module. *)
EXTENDS Subscription, TLC

\* Bodies that ask for seats, for a better plan, or for a status.
Resize(n) == [total |-> n, upgrade |-> FALSE, status |-> None]
Upgrade == [total |-> 0, upgrade |-> TRUE, status |-> None]
SeatPatches == {Resize(n) : n \in Limits \ {0}} \cup {Upgrade}
NoPatches == {}

OneAtATime == AllOps \ {"autoAssign", "admin", "billing", "sweep"}
RacingOps == {"create", "admin", "assign", "sync", "sweep", "billing"}
NoFaults == {}
EveryFault == AllFaults
===============================================================================
