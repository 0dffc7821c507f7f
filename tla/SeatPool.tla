------------------------------- MODULE SeatPool -------------------------------
(***************************************************************************)
(* What an organization buys with a subscription: for each module a pool   *)
(* of seats, open or closed, that holds at most as many users as it has    *)
(* seats, that closes before it is emptied and opens only when empty.      *)
(* Subscription implements it when requests do not overlap.                *)
(***************************************************************************)
EXTENDS Naturals, FiniteSets

CONSTANTS Modules, Users

VARIABLES open, capacity, holders

vars == <<open, capacity, holders>>

Init ==
  /\ open = [m \in Modules |-> FALSE]
  /\ capacity = [m \in Modules |-> 0]
  /\ holders = [m \in Modules |-> {}]

\* Any number of seats may be asked for.
ChangeCapacity(m) == capacity' = [capacity EXCEPT ![m] = capacity'[m]]

Open(m) ==
  /\ ~open[m] /\ holders[m] = {}
  /\ open' = [open EXCEPT ![m] = TRUE]
  /\ ChangeCapacity(m) /\ capacity'[m] \in Nat
  /\ UNCHANGED holders

Resize(m) ==
  /\ ChangeCapacity(m) /\ capacity'[m] >= Cardinality(holders[m])
  /\ UNCHANGED <<open, holders>>

Take(m, u) ==
  /\ open[m] /\ u \notin holders[m] /\ Cardinality(holders[m]) < capacity[m]
  /\ holders' = [holders EXCEPT ![m] = @ \cup {u}]
  /\ UNCHANGED <<open, capacity>>

Release(m, u) ==
  /\ u \in holders[m]
  /\ holders' = [holders EXCEPT ![m] = @ \ {u}]
  /\ UNCHANGED <<open, capacity>>

Close(m) ==
  /\ open[m]
  /\ open' = [open EXCEPT ![m] = FALSE]
  /\ UNCHANGED <<capacity, holders>>

Clear(m) ==
  /\ ~open[m]
  /\ holders' = [holders EXCEPT ![m] = {}]
  /\ UNCHANGED <<open, capacity>>

Next ==
  \E m \in Modules :
    \/ Open(m) \/ Resize(m) \/ Close(m) \/ Clear(m)
    \/ \E u \in Users : Take(m, u) \/ Release(m, u)

Spec == Init /\ [][Next]_vars
===============================================================================
