CONSTANTS
  e1 = e1
  e2 = e2
  None = None
  Procs = {p1, p2}
  Employees = {e1, e2}
  NetPay <- FirstPaid
  Accounts = {a}
  Ops <- DisburseOps
  Faults <- EveryFault
  Batches = 1
  Disbursals = 2
  Clock = 0
SPECIFICATION Spec
SYMMETRY Symmetric
INVARIANTS
  TypeOK
  SlipPaidOnce
CHECK_DEADLOCK FALSE
