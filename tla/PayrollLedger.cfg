CONSTANTS
  r1 = r1
  r2 = r2
  e1 = e1
  e2 = e2
  l1 = l1
  l2 = l2
  c1 = c1
  c2 = c2
  None = None
  Procs = {p1}
  Runs = {r1, r2}
  Employees = {e1, e2}
  Loans = {l1, l2}
  Claims = {}
  Principals = {240, 250}
  Instalments = {200, 400}
  Payments = {}
  Expenses = {}
  PeriodOf <- OneMonth
  BorrowerOf <- Borrowers
  ClaimantOf <- Claimants
  Ops <- LedgerOps
  CrashOps <- Undoing
SPECIFICATION Spec
INVARIANTS
  LedgerBalanced
  SlipsFollowRun
  UndoneOwesAll
  OwesAtMostPrincipal
CHECK_DEADLOCK FALSE
