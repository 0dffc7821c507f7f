CONSTANTS
  e1 = e1
  e2 = e2
  None = None
  Procs = {p1}
  Employees = {e1}
  NetPay <- AllPaid
  Accounts = {a}
  Ops <- RetryOps
  Faults = {"refused"}
  Batches = 1
  Disbursals = 2
  Clock = 1
SPECIFICATION Spec
INVARIANTS
  SlipPaidOnce
CHECK_DEADLOCK FALSE
