CONSTANTS
  casual = casual
  earned = earned
  Procs = {p1}
  Employees = {e1}
  Types = {casual, earned}
  NoApproval = {earned}
  CarryForward = {earned}
  Quota = 2
  Periods = 2
  PeriodLength = 1
  WorkDays = {1, 2}
  Counts = {3}
  Extras <- Cuts
  Uses = {0}
  Punches = {"absent"}
  MaxApplications = 2
  Spans <- ThreeSpans
  Ops <- EveryOp
SPECIFICATION Spec
INVARIANTS
  TypeOK
  UsedIsApproved
  BalanceIsWhatIsLeft
  NoDayTwice
  LeaveRowIsApproved
CHECK_DEADLOCK FALSE
