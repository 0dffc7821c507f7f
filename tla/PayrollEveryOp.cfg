CONSTANTS
  r1 = r1
  r2 = r2
  e1 = e1
  e2 = e2
  l1 = l1
  l2 = l2
  c1 = c1
  c2 = c2
  None = None
  Procs = {p1}
  Runs = {r1}
  Employees = {e1}
  Loans = {l1}
  Claims = {c1}
  Principals = {0, 140, 250}
  Instalments = {100}
  Payments = {150}
  Expenses = {40, 150}
  PeriodOf <- OneMonth
  BorrowerOf <- Borrowers
  ClaimantOf <- Claimants
  Ops <- EveryOp
  CrashOps <- EveryOp
SPECIFICATION Spec
INVARIANTS
  TypeOK
  ActiveOwes
CHECK_DEADLOCK FALSE
