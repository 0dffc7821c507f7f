CONSTANTS
  r1 = r1
  r2 = r2
  e1 = e1
  e2 = e2
  l1 = l1
  l2 = l2
  c1 = c1
  c2 = c2
  None = None
  Procs = {p1}
  Runs = {r1}
  Employees = {e1}
  Loans = {l1}
  Claims = {}
  Principals = {200}
  Instalments = {100}
  Payments = {}
  Expenses = {}
  PeriodOf <- OneMonth
  BorrowerOf <- Borrowers
  ClaimantOf <- Claimants
  Ops <- RevertOps
  CrashOps <- NoOps
SPECIFICATION Spec
INVARIANTS
  RetryBalances
CHECK_DEADLOCK FALSE
