---------------------------- MODULE MCPayrollRun ----------------------------
(* Small instances of PayrollRun: see the .cfg files that name this module. *)
EXTENDS PayrollRun, TLC

CONSTANTS r1, r2, e1, e2, l1, l2, c1, c2

\* Two ids for one month (a deleted run can be created anew), or one for each of two.
OneMonth == [r \in Runs |-> "May"]
TwoMonths == r1 :> "May" @@ r2 :> "June"

\* The second loan and the second claim are the second employee's.
Borrowers == [l \in Loans |-> IF l = l2 THEN e2 ELSE e1]
Claimants == [c \in Claims |-> IF c = c2 THEN e2 ELSE e1]

RunsForward == {"createRun", "computePayroll", "approveRun", "markPaid"}
RunsUndone == RunsForward \cup {"rerunRun", "deleteRun"}
ClaimOps == {"submitClaim", "approveClaim", "rejectClaim", "updateClaim"}
Undoing == {"rerunRun", "deleteRun"}

LedgerOps == RunsUndone \cup {"createLoan"}
ReimbursementOps == RunsUndone \cup ClaimOps
EveryOp == AllOps
RetryOps == {"createRun", "computePayroll", "createLoan"}
RevertOps == RetryOps \cup {"revertToDraft"}
NoOps == {}
=============================================================================
