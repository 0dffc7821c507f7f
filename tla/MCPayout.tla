------------------------------ MODULE MCPayout ------------------------------
(* Small instances of Payout: see the .cfg files that name this module. *)
EXTENDS Payout, TLC

CONSTANTS e1, e2

\* Everyone is paid, or the second employee's net pay is zero.
AllPaid == [e \in Employees |-> 1]
FirstPaid == [e \in Employees |-> IF e = e2 THEN 0 ELSE 1]

RunOps == {"compute", "approve", "markPaid", "rerun"}
DisburseOps == RunOps \cup {"disburseRun", "webhook"}
RetryOps == {"compute", "disburseRun", "retryPayout", "webhook"}
BankOps == RetryOps \cup {"editBank"}
EveryFault == AllFaults

Symmetric == Permutations(Procs)
=============================================================================
