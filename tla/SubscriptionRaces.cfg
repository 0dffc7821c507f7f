CONSTANTS
  None = None
  Procs = {p1, p2}
  Modules = {m1}
  Users = {u1, u2}
  Limits = {1}
  Trials = {TRUE}
  Patches <- NoPatches
  Ops <- RacingOps
  Faults <- EveryFault
  Inserts = 3
  Reports = 1
SPECIFICATION FairSpec
INVARIANTS
  OverBookedByRacesOnly
PROPERTIES
  UsedSeatsHeal
  TrialsEnd
CHECK_DEADLOCK FALSE
