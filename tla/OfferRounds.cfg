CONSTANTS
  None = None
  Procs = {p1, p2}
  Apps = {a1}
  Users = {u1, u2, hr}
  Privileged = {hr}
  Rounds <- AnyRound
  Tasks = 1
  Ops <- EveryOp
  Alone <- MostAlone
  CrashOps = {"accept"}
  Offers = 2
  Rows = 4
  Checklists = 1
SPECIFICATION FairSpec
INVARIANTS
  TypeOK
  OneLiveOffer
  SentIsApproved
  NoneIsStuck
  HiredIsAccepted
PROPERTIES
  HireGetsChecklist
CHECK_DEADLOCK FALSE
