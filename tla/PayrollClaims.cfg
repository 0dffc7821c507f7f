CONSTANTS
  r1 = r1
  r2 = r2
  e1 = e1
  e2 = e2
  l1 = l1
  l2 = l2
  c1 = c1
  c2 = c2
  None = None
  Procs = {p1}
  Runs = {r1, r2}
  Employees = {e1, e2}
  Loans = {}
  Claims = {c1, c2}
  Principals = {}
  Instalments = {}
  Payments = {}
  Expenses = {120, 150}
  PeriodOf <- TwoMonths
  BorrowerOf <- Borrowers
  ClaimantOf <- Claimants
  Ops <- ReimbursementOps
  CrashOps <- NoOps
SPECIFICATION Spec
INVARIANTS
  ClaimPaidOnce
  PaidClaimOnPayslip
  RefundShowsClaim
CHECK_DEADLOCK FALSE
