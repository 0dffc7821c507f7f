CONSTANTS
  None = None
  Procs = {p1}
  Modules = {m1}
  Users = {u1, u2, u3}
  Limits = {1, 2}
  Trials = {TRUE, FALSE}
  Patches <- SeatPatches
  Ops <- OneAtATime
  Faults <- NoFaults
  Inserts = 5
  Reports = 0
SPECIFICATION Spec
INVARIANTS
  TypeOK
  UsedSeatsExact
PROPERTIES
  KeepsSeatPool
CHECK_DEADLOCK FALSE
