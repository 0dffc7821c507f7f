CONSTANTS
  e1 = e1
  e2 = e2
  None = None
  Procs = {p1}
  Employees = {e1}
  NetPay <- AllPaid
  Accounts = {a, b}
  Ops <- BankOps
  Faults = {"refused", "reorder", "duplicate"}
  Batches = 1
  Disbursals = 1
  Clock = 2
SPECIFICATION Spec
INVARIANTS
  PaidOnceWhileKeyFits
  ProcessedIsPaid
  PayoutsTracked
PROPERTIES
  PaysCurrentAccount
CHECK_DEADLOCK FALSE
