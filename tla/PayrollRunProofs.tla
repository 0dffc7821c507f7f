-------------------------- MODULE PayrollRunProofs --------------------------
(***************************************************************************)
(* Theorems of PayrollRun, for every number of runs, employees, loans and  *)
(* claims, every choice of endpoints in use and every choice of handlers   *)
(* that may stop half way.  Types and the bounds of a loan hold for any    *)
(* number of requests that overlap; what is said of payslips, claims and   *)
(* the ledger of loans, for requests that do not: the code has no          *)
(* transaction and no lock, and two computations of a run deduct twice.    *)
(***************************************************************************)
EXTENDS PayrollRun, SumTheorems, TLAPS

\* TypeOK is not inductive: a payslip gets its run and its employee from the
\* handler that inserts it.  A handler of a run endpoint knows its run, and one
\* between reading the loans and inserting the payslip knows its employee.
WellPlaced(handler) ==
  /\ handler.op \in RunOps => handler.run \in Runs
  /\ handler.at \in {"employees", "debit", "refund"} => handler.op = "computePayroll"
  /\ handler.at \in {"debit", "refund"} => handler.employee \in Employees

Handler == {handler \in Request : WellPlaced(handler)}

TypeInv == TypeOK /\ req \in [Procs -> Handler]

-----------------------------------------------------------------------------
(* The lines a handler reads are lines, and the row it writes is a row. *)

LEMMA IdleType == Idle \in Handler
BY DEF Idle, Handler, WellPlaced, Request, Places, RunOps

\* Capping the instalment at what is owed gives an amount of money.
LEMMA Arithmetic == \A a, b \in Nat : Least(a, b) \in Nat /\ Minus(a, b) \in Nat
                                      /\ Minus(a, b) <= a /\ Least(a, b) <= b
BY DEF Least, Minus

\* Rounding moves an amount by half a rupee at most, and makes nothing of nothing.
LEMMA RoundedIs ==
  ASSUME NEW a \in Nat
  PROVE  Rounded(a) \in Nat /\ Rounded(a) <= a + 50 /\ (Rounded(a) > 0 => a > 0)
BY DEF Rounded

\* The instalment takes no more than half a rupee too much, and nothing of nothing.
LEMMA InstalmentIs ==
  ASSUME NEW row \in Loan
  PROVE  /\ Instalment(row) \in Nat
         /\ Instalment(row) <= row.outstanding + 50
         /\ Instalment(row) > 0 => row.outstanding > 0
<1>1. row.emi \in Nat /\ row.outstanding \in Nat
  BY DEF Loan
<1>2. PICK emi, owed \in Nat : emi = Rounded(row.emi) /\ owed = Rounded(row.outstanding)
  BY <1>1, RoundedIs
<1>3. Instalment(row) = Least(emi, owed)
  BY <1>2 DEF Instalment
<1>4. Instalment(row) \in Nat /\ Instalment(row) <= owed
  BY <1>2, <1>3, Arithmetic
<1>5. owed <= row.outstanding + 50 /\ (owed > 0 => row.outstanding > 0)
  BY <1>1, <1>2, RoundedIs
<1> QED BY <1>1, <1>2, <1>4, <1>5

LEMMA SnapshotType ==
  ASSUME TypeOK, NEW l \in Loans, NEW amount \in Nat
  PROVE  Snapshot(l, amount) \in Debit
BY DEF TypeOK, Snapshot, Debit, Loan

LEMMA ClaimSnapshotType ==
  ASSUME TypeOK, NEW c \in Claims, NEW amount \in Nat
  PROVE  ClaimSnapshot(c, amount) \in Refund
BY DEF TypeOK, ClaimSnapshot, Refund, Claim

LEMMA RepaidType ==
  ASSUME NEW row \in Loan, NEW d \in Debit
  PROVE  Repaid(row, d) \in Loan
BY Arithmetic DEF Repaid, Loan, Debit, LoanStatus

-----------------------------------------------------------------------------
(* Each write keeps the type of its table. *)

LEMMA SetRunType ==
  ASSUME TypeOK, NEW r, NEW status \in RunStatus, SetRun(r, status)
  PROVE  runs' \in [Runs -> RunStatus]
BY DEF TypeOK, SetRun

LEMMA SetLoanType ==
  ASSUME TypeOK, NEW l, NEW row \in Loan, SetLoan(l, row)
  PROVE  loans' \in [Loans -> Loan]
BY DEF TypeOK, SetLoan

LEMMA SetClaimType ==
  ASSUME TypeOK, NEW c, NEW row \in Claim, SetClaim(c, row)
  PROVE  claims' \in [Claims -> Claim]
BY DEF TypeOK, SetClaim

\* A handler is replaced by a well-formed one.
LEMMA BecomesType ==
  ASSUME TypeInv, NEW p \in Procs, NEW handler \in Handler, Becomes(p, handler)
  PROVE  req' \in [Procs -> Handler]
BY DEF TypeInv, Becomes

\* So it is enough to look at the new handler and at the tables.
LEMMA TypeInvStep ==
  ASSUME runs' \in [Runs -> RunStatus], slips' \subseteq Payslip, loans' \in [Loans -> Loan],
         claims' \in [Claims -> Claim], req' \in [Procs -> Handler]
  PROVE  TypeInv'
BY DEF TypeInv, TypeOK, Handler

LEMMA AcceptType ==
  ASSUME TypeInv, NEW p \in Procs, NEW op \in Ops \cap RunOps,
         NEW at \in Places \ {"employees", "debit", "refund"}, NEW r \in Runs, Accept(p, op, at, r)
  PROVE  req' \in [Procs -> Handler]
<1>1. [Idle EXCEPT !.op = op, !.at = at, !.run = r] \in Handler
  BY DEF Idle, Handler, WellPlaced, Request
<1> QED BY <1>1, BecomesType DEF Accept

LEMMA RespondType ==
  ASSUME TypeInv, NEW p \in Procs, Respond(p)
  PROVE  req' \in [Procs -> Handler]
BY IdleType, BecomesType DEF Respond

LEMMA GoToType ==
  ASSUME TypeInv, NEW p \in Procs, NEW at \in Places \ {"employees", "debit", "refund"}, GoTo(p, at)
  PROVE  req' \in [Procs -> Handler]
<1>1. [req[p] EXCEPT !.at = at] \in Handler
  BY DEF TypeInv, Handler, WellPlaced, Request
<1> QED BY <1>1, BecomesType DEF GoTo

LEMMA EmployeeDoneType ==
  ASSUME TypeInv, NEW p \in Procs, NEW e, req[p].op = "computePayroll", EmployeeDone(p, e)
  PROVE  req' \in [Procs -> Handler]
<1> DEFINE left == req[p].left \ {e}
           at == IF left = {} THEN "write" ELSE "employees"
           handler == [req[p] EXCEPT !.left = left, !.employee = None,
                                     !.debits = {}, !.refunds = {}, !.at = at]
<1>1. left \in SUBSET Employees /\ at \in {"write", "employees"}
  BY DEF TypeInv, Handler, Request
<1>2. handler \in Handler
  <2>1. req[p] \in Handler
    BY DEF TypeInv
  <2> HIDE DEF left, at
  <2> QED BY <1>1, <2>1 DEF Handler, WellPlaced, Request, Places
<1>3. Becomes(p, handler)
  BY DEF EmployeeDone
<1> QED BY <1>2, <1>3, BecomesType

-----------------------------------------------------------------------------
(* Type correctness *)

\* The steps of the endpoints of a run keep the types.
LEMMA RunStepType ==
  ASSUME TypeInv, NEW p \in Procs, RunStep(p)
  PROVE  TypeInv'
<1>a. TypeOK /\ req[p] \in Handler /\ req[p] \in Request
  BY DEF TypeInv, TypeOK
<1>b. /\ runs \in [Runs -> RunStatus] /\ slips \subseteq Payslip
      /\ loans \in [Loans -> Loan] /\ claims \in [Claims -> Claim]
  BY <1>a DEF TypeOK
<1>1. ASSUME NEW r \in Runs,
             BeginCreateRun(p, r) \/ BeginCompute(p, r) \/ BeginApprove(p, r)
             \/ BeginMarkPaid(p, r) \/ BeginCancelRun(p, r) \/ BeginRevert(p, r)
             \/ BeginRerun(p, r) \/ BeginDeleteRun(p, r)
      PROVE  TypeInv'
  <2>1. req' \in [Procs -> Handler]
    BY <1>1, AcceptType
    DEF BeginCreateRun, BeginCompute, BeginApprove, BeginMarkPaid, BeginCancelRun,
        BeginRevert, BeginRerun, BeginDeleteRun, Free, Places, RunOps
  <2> QED
    BY <1>1, <1>b, <2>1, TypeInvStep
    DEF BeginCreateRun, BeginCompute, BeginApprove, BeginMarkPaid, BeginCancelRun,
        BeginRevert, BeginRerun, BeginDeleteRun
<1>2. ASSUME InsertRun(p) PROVE TypeInv'
  <2>1. runs' \in [Runs -> RunStatus]
    BY <1>2, <1>b DEF InsertRun, RunStatus
  <2> QED BY <1>2, <1>b, <2>1, RespondType, TypeInvStep DEF InsertRun
<1>3. ASSUME WipeSlips(p) PROVE TypeInv'
  <2>1. CASE req[p].op = "computePayroll" /\ Employees # {}
    <3>1. [req[p] EXCEPT !.at = "employees", !.left = Employees] \in Handler
      BY <1>a, <2>1 DEF Handler, WellPlaced, Request, Places
    <3> QED BY <1>3, <1>b, <2>1, <3>1, BecomesType, TypeInvStep DEF WipeSlips
  <2>2. CASE ~(req[p].op = "computePayroll" /\ Employees # {})
    <3>1. GoTo(p, "write")
      BY <1>3, <2>2 DEF WipeSlips
    <3>2. req' \in [Procs -> Handler]
      BY <3>1, GoToType DEF Places
    <3> QED BY <1>3, <1>b, <3>2, TypeInvStep DEF WipeSlips
  <2> QED BY <2>1, <2>2
<1>4. ASSUME MarkSlipsPaid(p) PROVE TypeInv'
  <2>1. req' \in [Procs -> Handler]
    BY <1>4, GoToType DEF MarkSlipsPaid, Places
  <2>2. slips' \subseteq Payslip
    BY <1>4, <1>b DEF MarkSlipsPaid, SlipsOf, Payslip
  <2> QED BY <1>4, <1>b, <2>1, <2>2, TypeInvStep DEF MarkSlipsPaid
<1>5. ASSUME CollectLines(p) PROVE TypeInv'
  <2> DEFINE mine == SlipsOf(req[p].run)
             collected == [req[p] EXCEPT !.at = "restore",
                                         !.debits = UNION {s.debits : s \in mine},
                                         !.refunds = UNION {s.refunds : s \in mine}]
  <2>1. UNION {s.debits : s \in mine} \subseteq Debit /\ UNION {s.refunds : s \in mine} \subseteq Refund
    BY <1>b, SMTT(40) DEF SlipsOf, Payslip
  <2>2. collected \in Handler
    BY <1>a, <2>1, ZenonT(60) DEF Handler, WellPlaced, Request, Places
  <2>3. Becomes(p, collected)
    BY <1>5 DEF CollectLines
  <2> QED BY <1>5, <1>b, <2>2, <2>3, BecomesType, TypeInvStep DEF CollectLines
<1>6. ASSUME WriteRun(p) PROVE TypeInv'
  <2>1. Outcome[req[p].op] \in RunStatus
    BY <1>6 DEF WriteRun, Outcome, RunStatus
  <2>2. runs' \in [Runs -> RunStatus]
    BY <1>6, <1>a, <2>1, SetRunType DEF WriteRun
  <2>3. slips' \subseteq Payslip
    BY <1>6, <1>b DEF WriteRun
  <2> QED BY <1>6, <1>b, <2>2, <2>3, RespondType, TypeInvStep DEF WriteRun
<1>7. ASSUME NEW e \in Employees, SkipEmployee(p, e) PROVE TypeInv'
  <2>1. req[p].op = "computePayroll"
    BY <1>7, <1>a DEF SkipEmployee, Handler, WellPlaced
  <2> QED BY <1>7, <1>b, <2>1, EmployeeDoneType, TypeInvStep DEF SkipEmployee
<1>8. ASSUME NEW e \in Employees, ReadLoans(p, e) PROVE TypeInv'
  <2> DEFINE active == {l \in Loans : BorrowerOf[l] = e /\ loans[l].status = "active"}
             lines == {Snapshot(l, Instalment(loans[l])) : l \in active}
             reading == [req[p] EXCEPT !.at = "debit", !.employee = e,
                                       !.owed = {d \in lines : d.amount > 0}]
  <2>1. \A l \in Loans : Instalment(loans[l]) \in Nat
    BY <1>b, InstalmentIs
  <2>2. lines \subseteq Debit
    BY <1>a, <2>1, SnapshotType
  <2>3. reading \in Handler
    <3> HIDE DEF lines
    <3> QED BY <1>8, <1>a, <2>2 DEF ReadLoans, Handler, WellPlaced, Request, Places
  <2>4. Becomes(p, reading)
    BY <1>8 DEF ReadLoans
  <2> QED BY <1>8, <1>b, <2>3, <2>4, BecomesType, TypeInvStep DEF ReadLoans
<1>9. ASSUME NEW d \in req[p].owed, DebitLoan(p, d) PROVE TypeInv'
  <2> DEFINE debited == [req[p] EXCEPT !.owed = @ \ {d}, !.debits = @ \cup {d}]
  <2>1. d \in Debit /\ loans[d.loan] \in Loan
    BY <1>a, <1>b DEF Request, Debit
  <2>2. loans' \in [Loans -> Loan]
    BY <1>9, <1>a, <2>1, RepaidType, SetLoanType DEF DebitLoan
  <2>3. debited \in Handler
    BY <1>9, <1>a, <2>1 DEF DebitLoan, Handler, WellPlaced, Request
  <2>4. Becomes(p, debited)
    BY <1>9 DEF DebitLoan
  <2> QED BY <1>9, <1>b, <2>2, <2>3, <2>4, BecomesType, TypeInvStep DEF DebitLoan
<1>10. ASSUME NEW d \in req[p].debits, RestoreLoan(p, d) PROVE TypeInv'
  <2>1. d \in Debit /\ loans[d.loan] \in Loan
    BY <1>a, <1>b DEF Request, Debit
  <2>2. [loans[d.loan] EXCEPT !.outstanding = d.outstanding, !.status = d.status] \in Loan
    BY <2>1 DEF Loan, Debit
  <2>3. loans' \in [Loans -> Loan]
    BY <1>10, <1>a, <2>2, SetLoanType DEF RestoreLoan
  <2>4. [req[p] EXCEPT !.debits = @ \ {d}] \in Handler
    BY <1>a DEF Handler, WellPlaced, Request
  <2> QED BY <1>10, <1>b, <2>3, <2>4, BecomesType, TypeInvStep DEF RestoreLoan
<1>11. ASSUME NEW f \in req[p].due, RefundClaim(p, f) PROVE TypeInv'
  <2> DEFINE refunded == [req[p] EXCEPT !.due = @ \ {f}, !.refunds = @ \cup {f}]
  <2>1. f \in Refund /\ claims[f.claim] \in Claim
    BY <1>a, <1>b DEF Request, Refund
  <2>2. PeriodOf[req[p].run] \in Periods
    BY <1>11, <1>a DEF RefundClaim, Handler, WellPlaced, Periods, RunOps
  <2>3. [claims[f.claim] EXCEPT !.status = "paid", !.paidIn = PeriodOf[req[p].run]] \in Claim
    BY <2>1, <2>2 DEF Claim, ClaimStatus
  <2>4. claims' \in [Claims -> Claim]
    BY <1>11, <1>a, <2>3, SetClaimType DEF RefundClaim
  <2>5. refunded \in Handler
    BY <1>11, <1>a, <2>1 DEF Handler, WellPlaced, Request
  <2>6. Becomes(p, refunded)
    BY <1>11 DEF RefundClaim
  <2> QED BY <1>11, <1>b, <2>4, <2>5, <2>6, BecomesType, TypeInvStep DEF RefundClaim
<1>12. ASSUME NEW f \in req[p].refunds, RestoreClaim(p, f) PROVE TypeInv'
  <2>1. f \in Refund /\ claims[f.claim] \in Claim
    BY <1>a, <1>b DEF Request, Refund
  <2>2. [claims[f.claim] EXCEPT !.status = f.status, !.paidIn = f.paidIn] \in Claim
    BY <2>1 DEF Claim, Refund
  <2>3. claims' \in [Claims -> Claim]
    BY <1>12, <1>a, <2>2, SetClaimType DEF RestoreClaim
  <2>4. [req[p] EXCEPT !.refunds = @ \ {f}] \in Handler
    BY <1>a DEF Handler, WellPlaced, Request
  <2> QED BY <1>12, <1>b, <2>3, <2>4, BecomesType, TypeInvStep DEF RestoreClaim
<1>13. ASSUME ReadClaims(p) PROVE TypeInv'
  <2> DEFINE approved == {c \in Claims : /\ ClaimantOf[c] = req[p].employee
                                         /\ claims[c].status = "approved"}
             lines == {ClaimSnapshot(c, Rounded(claims[c].amount)) : c \in approved}
             reading == [req[p] EXCEPT !.at = "refund", !.due = {f \in lines : f.amount > 0}]
  <2>1. \A c \in Claims : Rounded(claims[c].amount) \in Nat
    BY <1>b, RoundedIs DEF Claim
  <2>2. lines \subseteq Refund
    BY <1>a, <2>1, ClaimSnapshotType
  <2>3. reading \in Handler
    <3> HIDE DEF lines
    <3> QED BY <1>13, <1>a, <2>2 DEF ReadClaims, Handler, WellPlaced, Request, Places
  <2>4. Becomes(p, reading)
    BY <1>13 DEF ReadClaims
  <2> QED BY <1>13, <1>b, <2>3, <2>4, BecomesType, TypeInvStep DEF ReadClaims
<1>14. ASSUME InsertPayslip(p) PROVE TypeInv'
  <2>1. req[p].op = "computePayroll" /\ req[p].run \in Runs /\ req[p].employee \in Employees
    BY <1>14, <1>a DEF InsertPayslip, Handler, WellPlaced, RunOps
  <2>2. req' \in [Procs -> Handler]
    BY <1>14, <2>1, RespondType, EmployeeDoneType DEF InsertPayslip
  <2>3. slips' \subseteq Payslip
    BY <1>14, <1>a, <1>b, <2>1 DEF InsertPayslip, Payslip, Request
  <2> QED BY <1>14, <1>b, <2>2, <2>3, TypeInvStep DEF InsertPayslip
<1>15. ASSUME Crash(p) PROVE TypeInv'
  BY <1>15, <1>b, RespondType, TypeInvStep DEF Crash
<1> QED BY <1>1, <1>2, <1>3, <1>4, <1>5, <1>6, <1>7, <1>8, <1>9, <1>10, <1>11, <1>12,
           <1>13, <1>14, <1>15 DEF RunStep

\* So do the endpoints that work on one row of loans or reimbursements.
LEMMA RowStepType ==
  ASSUME TypeInv, NEW p \in Procs, RowStep(p)
  PROVE  TypeInv'
<1>a. TypeOK /\ req[p] \in Handler /\ req[p] \in Request
  BY DEF TypeInv, TypeOK
<1>b. /\ runs \in [Runs -> RunStatus] /\ slips \subseteq Payslip
      /\ loans \in [Loans -> Loan] /\ claims \in [Claims -> Claim]
  BY <1>a DEF TypeOK
<1>1. ASSUME NEW l \in Loans, NEW payment \in Payments, BeginRecordPayment(p, l, payment)
      PROVE  TypeInv'
  <2> DEFINE handler == [Idle EXCEPT !.op = "recordPayment", !.at = "write",
                                     !.owed = {Snapshot(l, payment)}]
  <2>1. Snapshot(l, payment) \in Debit
    BY <1>a, SnapshotType, AmountAssumption
  <2>2. handler \in Handler
    BY <1>1, <2>1 DEF BeginRecordPayment, Free, Idle, Handler, WellPlaced, Request, Places, RunOps
  <2> QED BY <1>1, <1>b, <2>2, BecomesType, TypeInvStep DEF BeginRecordPayment
<1>2. ASSUME NEW l \in Loans, NEW principal \in Principals, BeginUpdateLoan(p, l, principal)
      PROVE  TypeInv'
  <2> DEFINE repaid == Minus(loans[l].principal, loans[l].outstanding)
             handler == [Idle EXCEPT !.op = "updateLoan", !.at = "write", !.amount = principal,
                                     !.owed = {Snapshot(l, repaid)}]
  <2>1. repaid \in Nat
    BY <1>b, Arithmetic DEF Loan
  <2>2. Snapshot(l, repaid) \in Debit
    BY <1>a, <2>1, SnapshotType
  <2>3. handler \in Handler
    BY <1>2, <2>2, AmountAssumption
    DEF BeginUpdateLoan, Free, Idle, Handler, WellPlaced, Request, Places, RunOps
  <2>4. Becomes(p, handler)
    BY <1>2 DEF BeginUpdateLoan
  <2> QED BY <1>2, <1>b, <2>3, <2>4, BecomesType, TypeInvStep DEF BeginUpdateLoan
<1>3. ASSUME NEW d \in req[p].owed, WritePayment(p, d) PROVE TypeInv'
  <2>1. d \in Debit /\ loans[d.loan] \in Loan
    BY <1>a, <1>b DEF Request, Debit
  <2>2. loans' \in [Loans -> Loan]
    BY <1>3, <1>a, <2>1, RepaidType, SetLoanType DEF WritePayment
  <2> QED BY <1>3, <1>b, <2>2, RespondType, TypeInvStep DEF WritePayment
<1>4. ASSUME NEW d \in req[p].owed, NEW emi \in Instalments, WriteLoanUpdate(p, d, emi)
      PROVE  TypeInv'
  <2> DEFINE rest == Minus(req[p].amount, d.amount)
             settled == rest = 0 /\ d.status = "active"
             row == [status |-> IF settled THEN "completed" ELSE loans[d.loan].status,
                     principal |-> req[p].amount, outstanding |-> rest, emi |-> emi]
  <2>1. d \in Debit /\ loans[d.loan] \in Loan /\ req[p].amount \in Nat
    BY <1>a, <1>b DEF Request, Debit
  <2>2. rest \in Nat /\ emi \in Nat
    BY <2>1, Arithmetic, AmountAssumption DEF Debit
  <2>3. row \in Loan
    BY <2>1, <2>2 DEF Loan, LoanStatus
  <2>4. SetLoan(d.loan, row)
    BY <1>4 DEF WriteLoanUpdate
  <2>5. loans' \in [Loans -> Loan]
    BY <1>a, <2>3, <2>4, SetLoanType
  <2> QED BY <1>4, <1>b, <2>5, RespondType, TypeInvStep DEF WriteLoanUpdate
<1>5. ASSUME NEW op \in Ops, NEW c \in Claims, NEW amount \in Expenses, BeginClaim(p, op, c, amount)
      PROVE  TypeInv'
  <2> DEFINE handler == [Idle EXCEPT !.op = op, !.at = "write", !.due = {ClaimSnapshot(c, amount)}]
  <2>1. ClaimSnapshot(c, amount) \in Refund
    BY <1>a, ClaimSnapshotType, AmountAssumption
  <2>2. handler \in Handler
    BY <1>5, <2>1 DEF BeginClaim, Idle, Handler, WellPlaced, Request, Places, RunOps
  <2> QED BY <1>5, <1>b, <2>2, BecomesType, TypeInvStep DEF BeginClaim
<1>6. ASSUME NEW f \in req[p].due, WriteClaim(p, f) PROVE TypeInv'
  <2> DEFINE row == claims[f.claim]
             written == CASE req[p].op = "approveClaim" ->
                               [row EXCEPT !.status = "approved", !.amount = f.amount]
                          [] req[p].op = "rejectClaim" -> [row EXCEPT !.status = "rejected"]
                          [] req[p].op = "updateClaim" -> [row EXCEPT !.amount = f.amount]
  <2>1. f \in Refund /\ row \in Claim
    BY <1>a, <1>b DEF Request, Refund
  <2>2. written \in Claim
    BY <1>6, <2>1 DEF WriteClaim, Claim, Refund, ClaimStatus
  <2>3. SetClaim(f.claim, written)
    BY <1>6 DEF WriteClaim
  <2>4. claims' \in [Claims -> Claim]
    BY <1>a, <2>2, <2>3, SetClaimType
  <2> QED BY <1>6, <1>b, <2>4, RespondType, TypeInvStep DEF WriteClaim
<1> QED BY <1>1, <1>2, <1>3, <1>4, <1>5, <1>6 DEF RowStep

\* And the endpoints that are one statement.
LEMMA AtomicType ==
  ASSUME TypeInv, Atomic
  PROVE  TypeInv'
<1>a. TypeOK
  BY DEF TypeInv
<1>b. /\ runs \in [Runs -> RunStatus] /\ slips \subseteq Payslip /\ req \in [Procs -> Handler]
      /\ loans \in [Loans -> Loan] /\ claims \in [Claims -> Claim]
  BY DEF TypeInv, TypeOK
<1>1. ASSUME NEW l \in Loans, NEW principal \in Principals, NEW emi \in Instalments,
             CreateLoan(l, principal, emi)
      PROVE  TypeInv'
  <2>1. loans' \in [Loans -> Loan]
    BY <1>1, <1>b, AmountAssumption DEF CreateLoan, Loan, LoanStatus
  <2> QED BY <1>1, <1>b, <2>1, TypeInvStep DEF CreateLoan
<1>2. ASSUME NEW l \in Loans, CancelLoan(l) \/ DeleteLoan(l) PROVE TypeInv'
  <2>1. \A status \in LoanStatus : [loans[l] EXCEPT !.status = status] \in Loan
    BY <1>b DEF Loan
  <2>2. loans' \in [Loans -> Loan]
    BY <1>2, <1>a, <2>1, SetLoanType DEF CancelLoan, DeleteLoan, LoanStatus
  <2> QED BY <1>2, <1>b, <2>2, TypeInvStep DEF CancelLoan, DeleteLoan
<1>3. ASSUME NEW c \in Claims, NEW amount \in Expenses, SubmitClaim(c, amount) PROVE TypeInv'
  <2>1. claims' \in [Claims -> Claim]
    BY <1>3, <1>b, AmountAssumption DEF SubmitClaim, Claim, ClaimStatus
  <2> QED BY <1>3, <1>b, <2>1, TypeInvStep DEF SubmitClaim
<1>4. ASSUME NEW c \in Claims, (\E period \in Periods : PayClaim(c, period)) \/ RemoveClaim(c)
      PROVE  TypeInv'
  <2>1. \A period \in Periods : [claims[c] EXCEPT !.status = "paid", !.paidIn = period] \in Claim
    BY <1>b DEF Claim, ClaimStatus
  <2>2. [claims[c] EXCEPT !.status = "deleted"] \in Claim
    BY <1>b DEF Claim, ClaimStatus
  <2>3. claims' \in [Claims -> Claim]
    BY <1>4, <1>a, <2>1, <2>2, SetClaimType DEF PayClaim, RemoveClaim
  <2> QED BY <1>4, <1>b, <2>3, TypeInvStep DEF PayClaim, RemoveClaim
<1> QED BY <1>1, <1>2, <1>3, <1>4 DEF Atomic

LEMMA TypeInvInit == Init => TypeInv
<1> SUFFICES ASSUME Init PROVE TypeInv
  OBVIOUS
<1>1. req \in [Procs -> Handler]
  BY IdleType DEF Init
<1>2. NoLoan \in Loan /\ NoClaim \in Claim
  BY DEF NoLoan, NoClaim, Loan, Claim, LoanStatus, ClaimStatus
<1> QED BY <1>1, <1>2 DEF Init, TypeInv, TypeOK, RunStatus, Handler

LEMMA TypeInvNext == TypeInv /\ [Next]_vars => TypeInv'
<1> SUFFICES ASSUME TypeInv, [Next]_vars PROVE TypeInv'
  OBVIOUS
<1>1. CASE Next
  BY <1>1, RunStepType, RowStepType, AtomicType DEF Next
<1>2. CASE UNCHANGED vars
  BY <1>2 DEF vars, TypeInv, TypeOK
<1> QED BY <1>1, <1>2

LEMMA TypeInvariant == Spec => []TypeInv
<1>1. Init => TypeInv
  BY TypeInvInit
<1>2. TypeInv /\ [Next]_vars => TypeInv'
  BY TypeInvNext
<1> QED BY <1>1, <1>2, PTL DEF Spec

\* The tables and the handlers keep their shape, whatever interleaves or fails.
THEOREM TypeCorrect == Spec => []TypeOK
<1>1. TypeInv => TypeOK
  BY DEF TypeInv
<1> QED BY <1>1, TypeInvariant, PTL

-----------------------------------------------------------------------------
(* The loan ledger, when nobody edits a loan *)

\* A snapshot was taken from an active loan that owed something, and no more
\* than was lent: writing it back, or writing what it leaves after a repayment,
\* cannot spoil the row, however late it happens.
SoundLine(d) ==
  /\ loans[d.loan].status # "absent"
  /\ d.status = "active"
  /\ d.outstanding <= loans[d.loan].principal
  /\ loans[d.loan].principal > 0 => d.outstanding > 0

LinesSound ==
  /\ \A s \in slips : \A d \in s.debits : SoundLine(d)
  /\ \A p \in Procs : \A d \in req[p].owed \cup req[p].debits : SoundLine(d)

LedgerInv == TypeInv /\ ActiveOwes /\ OwesAtMostPrincipal /\ LinesSound

RowSound(row) ==
  /\ row.outstanding <= row.principal
  /\ row.status = "active" /\ row.principal > 0 => row.outstanding > 0

\* What a step may do to a row that exists: not change what was lent.
Keeps(row, new) == row.status # "absent" => new.status # "absent" /\ new.principal = row.principal

LEMMA LedgerIsRowSound == ActiveOwes /\ OwesAtMostPrincipal <=> \A l \in Loans : RowSound(loans[l])
BY DEF ActiveOwes, OwesAtMostPrincipal, RowSound

LEMMA RepaidSound ==
  ASSUME NEW row \in Loan, NEW d \in Debit, d.outstanding <= row.principal, row.status # "absent"
  PROVE  RowSound(Repaid(row, d)) /\ Keeps(row, Repaid(row, d))
<1>1. Minus(d.outstanding, d.amount) \in Nat /\ Minus(d.outstanding, d.amount) <= d.outstanding
  BY Arithmetic DEF Debit
<1>2. d.outstanding \in Nat /\ row.principal \in Nat
  BY DEF Debit, Loan
<1> QED BY <1>1, <1>2 DEF Repaid, RowSound, Keeps, Loan

\* A write to one row that keeps the row sound keeps the ledger sound.
LEMMA SetLoanSound ==
  ASSUME TypeInv, ActiveOwes, OwesAtMostPrincipal, NEW l \in Loans, NEW row \in Loan,
         RowSound(row), Keeps(loans[l], row), SetLoan(l, row)
  PROVE  \A k \in Loans : RowSound(loans'[k]) /\ Keeps(loans[k], loans'[k])
BY LedgerIsRowSound DEF TypeInv, TypeOK, SetLoan, Keeps

\* A step that leaves loans alone.
LEMMA UnchangedSound ==
  ASSUME ActiveOwes, OwesAtMostPrincipal, UNCHANGED loans
  PROVE  \A k \in Loans : RowSound(loans'[k]) /\ Keeps(loans[k], loans'[k])
BY LedgerIsRowSound DEF Keeps

\* The lines stay sound when rows are kept and every line after the step was one
\* before it, or is the snapshot of an active loan.
LEMMA LinesStaySound ==
  ASSUME LedgerInv,
         \A k \in Loans : Keeps(loans[k], loans'[k]),
         NEW d \in Debit,
         \/ \E s \in slips : d \in s.debits
         \/ \E p \in Procs : d \in req[p].owed \cup req[p].debits
         \/ /\ loans[d.loan].status = "active"
            /\ d.status = "active" /\ d.outstanding = loans[d.loan].outstanding
  PROVE  SoundLine(d)'
<1>1. d.loan \in Loans
  BY DEF Debit
<1>2. SoundLine(d)
  BY <1>1 DEF LedgerInv, LinesSound, SoundLine, ActiveOwes, OwesAtMostPrincipal
<1> QED BY <1>1, <1>2 DEF SoundLine, Keeps

\* Every write to a loan keeps the row sound and keeps what was lent.
LEMMA LoanWritesSound ==
  ASSUME LedgerInv, "updateLoan" \notin Ops, Next
  PROVE  \A k \in Loans : RowSound(loans'[k]) /\ Keeps(loans[k], loans'[k])
<1>a. TypeInv /\ ActiveOwes /\ OwesAtMostPrincipal /\ loans \in [Loans -> Loan]
  BY DEF LedgerInv, TypeInv, TypeOK
<1>1. ASSUME NEW p \in Procs, NEW d \in req[p].owed, DebitLoan(p, d) \/ WritePayment(p, d)
      PROVE  \A k \in Loans : RowSound(loans'[k]) /\ Keeps(loans[k], loans'[k])
  <2>1. d \in Debit /\ d.loan \in Loans /\ loans[d.loan] \in Loan /\ SoundLine(d)
    BY <1>a DEF LedgerInv, LinesSound, TypeInv, TypeOK, Request, Debit
  <2>2. RowSound(Repaid(loans[d.loan], d)) /\ Keeps(loans[d.loan], Repaid(loans[d.loan], d))
    BY <2>1, RepaidSound DEF SoundLine
  <2>3. Repaid(loans[d.loan], d) \in Loan
    BY <2>1, RepaidType
  <2>4. SetLoan(d.loan, Repaid(loans[d.loan], d))
    BY <1>1 DEF DebitLoan, WritePayment
  <2> QED BY <1>a, <2>1, <2>2, <2>3, <2>4, SetLoanSound
<1>2. ASSUME NEW p \in Procs, NEW d \in req[p].debits, RestoreLoan(p, d)
      PROVE  \A k \in Loans : RowSound(loans'[k]) /\ Keeps(loans[k], loans'[k])
  <2> DEFINE row == [loans[d.loan] EXCEPT !.outstanding = d.outstanding, !.status = d.status]
  <2>1. d \in Debit /\ d.loan \in Loans /\ loans[d.loan] \in Loan /\ SoundLine(d)
    BY <1>a DEF LedgerInv, LinesSound, TypeInv, TypeOK, Request, Debit
  <2>2. row \in Loan /\ RowSound(row) /\ Keeps(loans[d.loan], row)
    BY <2>1 DEF Loan, Debit, SoundLine, RowSound, Keeps
  <2>3. SetLoan(d.loan, row)
    BY <1>2 DEF RestoreLoan
  <2> QED BY <1>a, <2>1, <2>2, <2>3, SetLoanSound
<1>3. ASSUME NEW l \in Loans, NEW principal \in Principals, NEW emi \in Instalments,
             CreateLoan(l, principal, emi)
      PROVE  \A k \in Loans : RowSound(loans'[k]) /\ Keeps(loans[k], loans'[k])
  BY <1>3, <1>a, LedgerIsRowSound, AmountAssumption DEF CreateLoan, RowSound, Keeps
<1>4. ASSUME NEW l \in Loans, CancelLoan(l) \/ DeleteLoan(l)
      PROVE  \A k \in Loans : RowSound(loans'[k]) /\ Keeps(loans[k], loans'[k])
  <2>1. ASSUME NEW status \in {"cancelled", "deleted"}
        PROVE  LET row == [loans[l] EXCEPT !.status = status]
               IN row \in Loan /\ RowSound(row) /\ Keeps(loans[l], row)
    BY <1>a, LedgerIsRowSound DEF Loan, LoanStatus, RowSound, Keeps
  <2> QED BY <1>4, <1>a, <2>1, SetLoanSound DEF CancelLoan, DeleteLoan
<1>5. \A p \in Procs : \A d \in req[p].owed : \A emi \in Instalments : ~WriteLoanUpdate(p, d, emi)
  BY DEF LedgerInv, TypeInv, TypeOK, Request, WriteLoanUpdate
<1>6. CASE UNCHANGED loans
  BY <1>6, <1>a, UnchangedSound
<1>7. ASSUME NEW p \in Procs, RunStep(p)
      PROVE  \A k \in Loans : RowSound(loans'[k]) /\ Keeps(loans[k], loans'[k])
  BY <1>7, <1>1, <1>2, <1>6, Zenon
  DEF RunStep, BeginCreateRun, BeginCompute, BeginApprove, BeginMarkPaid, BeginCancelRun,
      BeginRevert, BeginRerun, BeginDeleteRun, InsertRun, WipeSlips, MarkSlipsPaid, CollectLines,
      WriteRun, SkipEmployee, ReadLoans, RefundClaim, RestoreClaim, ReadClaims, InsertPayslip, Crash
<1>8. ASSUME NEW p \in Procs, RowStep(p)
      PROVE  \A k \in Loans : RowSound(loans'[k]) /\ Keeps(loans[k], loans'[k])
  BY <1>8, <1>1, <1>5, <1>6, Zenon
  DEF RowStep, BeginRecordPayment, BeginUpdateLoan, BeginClaim, WriteClaim
<1>9. ASSUME Atomic
      PROVE  \A k \in Loans : RowSound(loans'[k]) /\ Keeps(loans[k], loans'[k])
  BY <1>9, <1>3, <1>4, <1>6 DEF Atomic, SubmitClaim, PayClaim, RemoveClaim
<1> QED BY <1>7, <1>8, <1>9 DEF Next

\* Where the lines of the next state come from.
Known(d) ==
  \/ \E s \in slips : d \in s.debits
  \/ \E p \in Procs : d \in req[p].owed \cup req[p].debits
  \/ /\ d.loan \in Loans /\ loans[d.loan].status = "active"
     /\ d.status = "active" /\ d.outstanding = loans[d.loan].outstanding

HandlersKnown == \A p \in Procs : \A d \in req'[p].owed \cup req'[p].debits : Known(d)
SlipsKnown == \A s \in slips' : \A d \in s.debits : Known(d)

LEMMA BecomesKnown ==
  ASSUME TypeInv, NEW p \in Procs, NEW handler, Becomes(p, handler),
         \A d \in handler.owed \cup handler.debits : Known(d)
  PROVE  HandlersKnown
BY DEF TypeInv, TypeOK, Becomes, HandlersKnown, Known

LEMMA RespondKnown ==
  ASSUME TypeInv, NEW p \in Procs, Respond(p)
  PROVE  HandlersKnown
BY BecomesKnown DEF Respond, Idle

\* A handler that keeps or drops lines, and takes none from elsewhere.
LEMMA KeepsKnown ==
  ASSUME TypeInv, NEW p \in Procs, NEW handler, Becomes(p, handler),
         handler.owed \cup handler.debits \subseteq req[p].owed \cup req[p].debits
  PROVE  HandlersKnown
BY BecomesKnown DEF Known

LEMMA FewerSlipsKnown == slips' \subseteq slips => SlipsKnown
BY DEF SlipsKnown, Known

LEMMA SnapshotKnown ==
  ASSUME NEW l \in Loans, NEW amount, loans[l].status = "active"
  PROVE  Known(Snapshot(l, amount))
BY DEF Known, Snapshot

LEMMA LinesKnown ==
  ASSUME TypeInv, "updateLoan" \notin Ops, Next
  PROVE  HandlersKnown /\ SlipsKnown
<1>a. \A p \in Procs : req[p] \in Handler /\ req[p] \in Request
  BY DEF TypeInv, TypeOK
<1>b. UNCHANGED slips => SlipsKnown
  BY FewerSlipsKnown
<1>c. UNCHANGED req => HandlersKnown
  BY DEF HandlersKnown, Known
<1>1. ASSUME NEW p \in Procs, NEW r \in Runs,
             BeginCreateRun(p, r) \/ BeginCompute(p, r) \/ BeginApprove(p, r)
             \/ BeginMarkPaid(p, r) \/ BeginCancelRun(p, r) \/ BeginRevert(p, r)
             \/ BeginRerun(p, r) \/ BeginDeleteRun(p, r)
      PROVE  HandlersKnown /\ SlipsKnown
  <2>1. \A op, at : Accept(p, op, at, r) => HandlersKnown
    BY BecomesKnown DEF Accept, Idle
  <2> QED
    BY <1>1, <1>b, <2>1
    DEF BeginCreateRun, BeginCompute, BeginApprove, BeginMarkPaid, BeginCancelRun,
        BeginRevert, BeginRerun, BeginDeleteRun
<1>2. ASSUME NEW p \in Procs, InsertRun(p) \/ Crash(p) PROVE HandlersKnown /\ SlipsKnown
  BY <1>2, <1>b, RespondKnown DEF InsertRun, Crash
<1>3. ASSUME NEW p \in Procs, WipeSlips(p) PROVE HandlersKnown /\ SlipsKnown
  <2>1. /\ [req[p] EXCEPT !.at = "employees", !.left = Employees].owed = req[p].owed
        /\ [req[p] EXCEPT !.at = "employees", !.left = Employees].debits = req[p].debits
        /\ [req[p] EXCEPT !.at = "write"].owed = req[p].owed
        /\ [req[p] EXCEPT !.at = "write"].debits = req[p].debits
    BY <1>a DEF Request
  <2> QED BY <1>3, <2>1, KeepsKnown, FewerSlipsKnown DEF WipeSlips, GoTo
<1>4. ASSUME NEW p \in Procs, MarkSlipsPaid(p) PROVE HandlersKnown /\ SlipsKnown
  <2>1. /\ [req[p] EXCEPT !.at = "write"].owed = req[p].owed
        /\ [req[p] EXCEPT !.at = "write"].debits = req[p].debits
    BY <1>a DEF Request
  <2>2. HandlersKnown
    BY <1>4, <2>1, KeepsKnown DEF MarkSlipsPaid, GoTo
  <2>3. \A s \in slips : [s EXCEPT !.status = "paid"].debits = s.debits
    BY DEF TypeInv, TypeOK, Payslip
  <2>4. \A s \in slips' : \E t \in slips : s.debits = t.debits
    BY <1>4, <2>3 DEF MarkSlipsPaid, SlipsOf
  <2>5. SlipsKnown
    BY <2>4 DEF SlipsKnown, Known
  <2> QED BY <2>2, <2>5
<1>5. ASSUME NEW p \in Procs, CollectLines(p) PROVE HandlersKnown /\ SlipsKnown
  <2> DEFINE mine == SlipsOf(req[p].run)
             collected == [req[p] EXCEPT !.at = "restore",
                                         !.debits = UNION {s.debits : s \in mine},
                                         !.refunds = UNION {s.refunds : s \in mine}]
  <2>1. collected.owed = req[p].owed /\ collected.debits = UNION {s.debits : s \in mine}
    BY <1>a DEF Request
  <2>2. \A d \in UNION {s.debits : s \in mine} : Known(d)
    BY DEF SlipsOf, Known
  <2>3. \A d \in collected.owed \cup collected.debits : Known(d)
    BY <2>1, <2>2 DEF Known
  <2>4. Becomes(p, collected)
    BY <1>5 DEF CollectLines
  <2> QED BY <1>5, <1>b, <2>3, <2>4, BecomesKnown DEF CollectLines
<1>6. ASSUME NEW p \in Procs, WriteRun(p) PROVE HandlersKnown /\ SlipsKnown
  BY <1>6, RespondKnown, FewerSlipsKnown DEF WriteRun
<1>7. ASSUME NEW p \in Procs, NEW e, EmployeeDone(p, e) PROVE HandlersKnown
  <2> DEFINE left == req[p].left \ {e}
             handler == [req[p] EXCEPT !.left = left, !.employee = None, !.debits = {}, !.refunds = {},
                                       !.at = IF left = {} THEN "write" ELSE "employees"]
  <2>1. handler.owed = req[p].owed /\ handler.debits = {}
    BY <1>a DEF Request
  <2>2. Becomes(p, handler)
    BY <1>7 DEF EmployeeDone
  <2> QED BY <2>1, <2>2, KeepsKnown
<1>8. ASSUME NEW p \in Procs, NEW e \in Employees, ReadLoans(p, e)
      PROVE  HandlersKnown /\ SlipsKnown
  <2> DEFINE active == {l \in Loans : BorrowerOf[l] = e /\ loans[l].status = "active"}
             lines == {Snapshot(l, Instalment(loans[l])) : l \in active}
             kept == {d \in lines : d.amount > 0}
             reading == [req[p] EXCEPT !.at = "debit", !.employee = e, !.owed = kept]
  <2>1. \A d \in kept : Known(d)
    BY SnapshotKnown
  <2>2. reading.owed = kept /\ reading.debits = req[p].debits
    <3> HIDE DEF kept
    <3> QED BY <1>a DEF Request
  <2>3. \A d \in reading.owed \cup reading.debits : Known(d)
    BY <2>1, <2>2 DEF Known
  <2>4. Becomes(p, reading)
    BY <1>8 DEF ReadLoans
  <2> HIDE DEF reading
  <2> QED BY <1>8, <1>b, <2>3, <2>4, BecomesKnown DEF ReadLoans
<1>9. ASSUME NEW p \in Procs, NEW d \in req[p].owed, DebitLoan(p, d)
      PROVE  HandlersKnown /\ SlipsKnown
  <2> DEFINE debited == [req[p] EXCEPT !.owed = @ \ {d}, !.debits = @ \cup {d}]
  <2>1. debited.owed = req[p].owed \ {d} /\ debited.debits = req[p].debits \cup {d}
    BY <1>a DEF Request
  <2>2. Becomes(p, debited)
    BY <1>9 DEF DebitLoan
  <2> QED BY <1>9, <1>b, <2>1, <2>2, KeepsKnown DEF DebitLoan
<1>10. ASSUME NEW p \in Procs, NEW d \in req[p].debits, RestoreLoan(p, d)
       PROVE  HandlersKnown /\ SlipsKnown
  <2> DEFINE restored == [req[p] EXCEPT !.debits = @ \ {d}]
  <2>1. restored.owed = req[p].owed /\ restored.debits = req[p].debits \ {d}
    BY <1>a DEF Request
  <2> QED BY <1>10, <1>b, <2>1, KeepsKnown DEF RestoreLoan
<1>11. ASSUME NEW p \in Procs, NEW f, RefundClaim(p, f) \/ RestoreClaim(p, f) \/ ReadClaims(p)
       PROVE  HandlersKnown /\ SlipsKnown
  <2>1. ASSUME NEW due, NEW refunds, Becomes(p, [req[p] EXCEPT !.due = due, !.refunds = refunds])
        PROVE  HandlersKnown
    <3> DEFINE handler == [req[p] EXCEPT !.due = due, !.refunds = refunds]
    <3>1. handler.owed = req[p].owed /\ handler.debits = req[p].debits
      BY <1>a DEF Request
    <3> QED BY <2>1, <3>1, KeepsKnown
  <2>2. CASE RefundClaim(p, f)
    <3>1. HandlersKnown
      BY <2>1, <2>2 DEF RefundClaim
    <3> QED BY <2>2, <3>1, <1>b DEF RefundClaim
  <2>3. CASE RestoreClaim(p, f)
    <3> DEFINE handler == [req[p] EXCEPT !.refunds = @ \ {f}]
    <3>1. handler.owed = req[p].owed /\ handler.debits = req[p].debits
      BY <1>a DEF Request
    <3> QED BY <2>3, <3>1, <1>b, KeepsKnown DEF RestoreClaim
  <2>4. CASE ReadClaims(p)
    <3> DEFINE approved == {c \in Claims : /\ ClaimantOf[c] = req[p].employee
                                           /\ claims[c].status = "approved"}
               lines == {ClaimSnapshot(c, Rounded(claims[c].amount)) : c \in approved}
               kept == {x \in lines : x.amount > 0}
               handler == [req[p] EXCEPT !.at = "refund", !.due = kept]
    <3>1. handler.owed = req[p].owed /\ handler.debits = req[p].debits
      <4> HIDE DEF kept
      <4> QED BY <1>a DEF Request
    <3>2. Becomes(p, handler)
      BY <2>4 DEF ReadClaims
    <3> HIDE DEF handler
    <3> QED BY <2>4, <3>1, <3>2, <1>b, KeepsKnown DEF ReadClaims
  <2> QED BY <1>11, <2>2, <2>3, <2>4
<1>12. ASSUME NEW p \in Procs, InsertPayslip(p) PROVE HandlersKnown /\ SlipsKnown
  <2>1. HandlersKnown
    BY <1>12, <1>7, RespondKnown DEF InsertPayslip
  <2>2. SlipsKnown
    BY <1>12, <1>b DEF InsertPayslip, SlipsKnown, Known
  <2> QED BY <2>1, <2>2
<1>13. ASSUME NEW p \in Procs, NEW e \in Employees, SkipEmployee(p, e)
       PROVE  HandlersKnown /\ SlipsKnown
  BY <1>13, <1>7, <1>b DEF SkipEmployee
<1>14. ASSUME NEW p \in Procs, NEW l \in Loans, NEW payment \in Payments,
              BeginRecordPayment(p, l, payment)
       PROVE  HandlersKnown /\ SlipsKnown
  <2> DEFINE handler == [Idle EXCEPT !.op = "recordPayment", !.at = "write",
                                     !.owed = {Snapshot(l, payment)}]
  <2>1. handler.owed = {Snapshot(l, payment)} /\ handler.debits = {}
    BY DEF Idle
  <2>2. Known(Snapshot(l, payment))
    BY <1>14, SnapshotKnown DEF BeginRecordPayment
  <2>3. Becomes(p, handler)
    BY <1>14 DEF BeginRecordPayment
  <2> HIDE DEF handler
  <2> QED BY <1>14, <1>b, <2>1, <2>2, <2>3, BecomesKnown DEF BeginRecordPayment
<1>15. ASSUME NEW p \in Procs, NEW op \in Ops, NEW c \in Claims, NEW amount \in Expenses,
              BeginClaim(p, op, c, amount)
       PROVE  HandlersKnown /\ SlipsKnown
  BY <1>15, <1>b, BecomesKnown DEF BeginClaim, Idle
<1>16. ASSUME NEW p \in Procs, NEW d, (\E emi \in Instalments : WriteLoanUpdate(p, d, emi))
                                      \/ WritePayment(p, d) \/ WriteClaim(p, d)
       PROVE  HandlersKnown /\ SlipsKnown
  BY <1>16, <1>b, RespondKnown DEF WriteLoanUpdate, WritePayment, WriteClaim
<1>17. ASSUME NEW p \in Procs, RunStep(p) PROVE HandlersKnown /\ SlipsKnown
  BY <1>17, <1>1, <1>2, <1>3, <1>4, <1>5, <1>6, <1>8, <1>9, <1>10, <1>11, <1>12, <1>13 DEF RunStep
<1>18. ASSUME NEW p \in Procs, RowStep(p) PROVE HandlersKnown /\ SlipsKnown
  BY <1>18, <1>14, <1>15, <1>16 DEF RowStep, BeginUpdateLoan, Free
<1>19. ASSUME Atomic PROVE HandlersKnown /\ SlipsKnown
  BY <1>19, <1>b, <1>c DEF Atomic, CreateLoan, CancelLoan, DeleteLoan, SubmitClaim, PayClaim, RemoveClaim
<1> QED BY <1>17, <1>18, <1>19 DEF Next

LEMMA LedgerInvInit == Init => LedgerInv
<1> SUFFICES ASSUME Init PROVE LedgerInv
  OBVIOUS
<1>1. TypeInv
  BY TypeInvInit
<1>2. ActiveOwes /\ OwesAtMostPrincipal
  BY DEF Init, NoLoan, ActiveOwes, OwesAtMostPrincipal
<1>3. LinesSound
  BY DEF Init, Idle, LinesSound
<1> QED BY <1>1, <1>2, <1>3 DEF LedgerInv

LEMMA LedgerInvNext == "updateLoan" \notin Ops /\ LedgerInv /\ [Next]_vars => LedgerInv'
<1> SUFFICES ASSUME "updateLoan" \notin Ops, LedgerInv, [Next]_vars PROVE LedgerInv'
  OBVIOUS
<1>1. CASE Next
  <2>1. TypeInv /\ TypeInv'
    BY <1>1, TypeInvNext DEF LedgerInv
  <2>2. \A k \in Loans : RowSound(loans'[k]) /\ Keeps(loans[k], loans'[k])
    BY <1>1, LoanWritesSound
  <2>3. ActiveOwes' /\ OwesAtMostPrincipal'
    BY <2>2 DEF ActiveOwes, OwesAtMostPrincipal, RowSound
  <2>4. HandlersKnown /\ SlipsKnown
    BY <1>1, <2>1, LinesKnown
  <2>5. ASSUME NEW d \in Debit, Known(d) PROVE SoundLine(d)'
    BY <2>2, <2>5, LinesStaySound DEF Known
  <2>6. /\ \A s \in slips' : s.debits \subseteq Debit
        /\ \A p \in Procs : req'[p].owed \subseteq Debit /\ req'[p].debits \subseteq Debit
    BY <2>1 DEF TypeInv, TypeOK, Payslip, Request
  <2>7. LinesSound'
    BY <2>4, <2>5, <2>6 DEF HandlersKnown, SlipsKnown, LinesSound
  <2> QED BY <2>1, <2>3, <2>7 DEF LedgerInv
<1>2. CASE UNCHANGED vars
  BY <1>2 DEF vars, LedgerInv, TypeInv, TypeOK, ActiveOwes, OwesAtMostPrincipal, LinesSound, SoundLine
<1> QED BY <1>1, <1>2

LEMMA LedgerInvariant == ASSUME "updateLoan" \notin Ops PROVE Spec => []LedgerInv
<1>1. Init => LedgerInv
  BY LedgerInvInit
<1>2. LedgerInv /\ [Next]_vars => LedgerInv'
  BY LedgerInvNext
<1> QED BY <1>1, <1>2, PTL DEF Spec

\* However requests interleave and wherever they fail, no loan ever owes more than
\* was lent, unless a principal is edited.
THEOREM NoLoanGrows == ASSUME "updateLoan" \notin Ops PROVE Spec => []OwesAtMostPrincipal
<1>1. LedgerInv => OwesAtMostPrincipal
  BY DEF LedgerInv
<1> QED BY <1>1, LedgerInvariant, PTL

-----------------------------------------------------------------------------
(* One request at a time: what its handler has and has not done yet *)

Alone == \A p, q \in Procs : p = q

\* The handler of the one request.
The == IF Procs = {} THEN Idle ELSE req[CHOOSE p \in Procs : TRUE]

ClaimOps == {"approveClaim", "rejectClaim", "updateClaim"}

\* In what follows h is a handler, r a run, rs, ss, ln and cl the four tables.
Restoring(h, r) == h.at = "restore" /\ h.run = r
Computing(h, r) == h.at \in {"employees", "debit", "refund", "write"} /\ h.op = "computePayroll" /\ h.run = r

\* Which endpoint a handler serves, from where it stands.
PlaceOps(h) ==
  /\ h.at = "idle" => h = Idle
  /\ h.at = "insert" => h.op = "createRun"
  /\ h.at = "wipe" => h.op \in {"computePayroll", "cancelRun", "revertToDraft"}
  /\ h.at \in {"employees", "debit", "refund"} => h.op = "computePayroll"
  /\ h.at = "slips" => h.op = "markPaid"
  /\ h.at \in {"collect", "restore"} => h.op \in {"rerunRun", "deleteRun"}
  /\ h.op \notin RunOps => h.at \in {"idle", "write"}
  /\ h.at \in {"wipe", "employees", "slips", "collect", "write"} \/ h.op \in RowOps => h.debits = {} /\ h.refunds = {}
  /\ h.at = "debit" => h.refunds = {}

\* The run is as the handler found it.
Found == [createRun |-> {"absent"}, computePayroll |-> {"draft"}, approveRun |-> {"computed"},
          markPaid |-> {"approved"},
          cancelRun |-> RunStatus \ {"absent", "deleted"},
          revertToDraft |-> RunStatus \ {"absent", "deleted"},
          rerunRun |-> RunStatus \ {"absent", "deleted"},
          deleteRun |-> RunStatus \ {"absent", "deleted"}]
FoundStill(h, rs) == h.op \in RunOps => rs[h.run] \in Found[h.op]

\* A stored payslip is of a computed run or of the computation under way.
SlipRuns(h, rs, ss) ==
  \A s \in ss : rs[s.run] \in {"computed", "approved", "paid"} \/ Computing(h, s.run)

\* What a handler is about to take back has no payslips any more.
Undone(h, ss) ==
  h.at = "write" /\ h.op \in {"cancelRun", "revertToDraft", "rerunRun", "deleteRun"}
    => \A s \in ss : s.run # h.run

\* No employee that a computation has still to do has a payslip.
Fresh(h, ss) ==
  /\ h.at \in {"employees", "debit", "refund"} => \A s \in ss : s.run = h.run => s.employee \notin h.left
  /\ h.at \in {"debit", "refund"} => h.employee \in h.left

\* A run has one payslip for an employee.
OneEach(ss) == \A s, t \in ss : s.run = t.run /\ s.employee = t.employee => s = t

\* A handler finds its run as it left it, and the payslips are of runs that have any.
RunInv ==
  /\ TypeInv /\ PlaceOps(The) /\ FoundStill(The, runs)
  /\ SlipRuns(The, runs, slips) /\ Undone(The, slips) /\ Fresh(The, slips) /\ OneEach(slips)

\* The payslips of a paid run are paid; those of a run about to be paid, too.
PaidSlips(h, rs, ss) ==
  \A s \in ss : s.status = "paid" <=>
    rs[s.run] = "paid" \/ (h.op = "markPaid" /\ h.at = "write" /\ h.run = s.run)

PaidInv == RunInv /\ PaidSlips(The, runs, slips)

\* c is on no payslip.
Unclaimed(ss, c) == \A s \in ss : \A f \in s.refunds : f.claim # c
\* A claim is on one payslip, once; a line shows the amount of its claim.
ShownOnce(ss) ==
  \A s, t \in ss : \A f \in s.refunds : \A g \in t.refunds : f.claim = g.claim => s = t /\ f = g
Shows(f, cl) == f.status = "approved" /\ cl[f.claim].status # "absent" /\ f.amount = Rounded(cl[f.claim].amount)

\* A claim on a payslip is closed to edits and to another computation, unless its
\* run is being taken back.
Closed(row) == row.status \in {"paid", "deleted"}
SlipsShow(h, ss, cl) ==
  \A s \in ss : \A f \in s.refunds :
    Shows(f, cl) /\ (Closed(cl[f.claim]) \/ Restoring(h, s.run))

\* The claims a computation holds are on no payslip, so it may put them on one.
LinesShow(h, ss, cl) ==
  h.at = "refund" =>
    /\ \A f \in h.due \cup h.refunds : Shows(f, cl) /\ Unclaimed(ss, f.claim)
    /\ \A f, g \in h.due \cup h.refunds : f.claim = g.claim => f = g
    /\ \A f \in h.refunds : Closed(cl[f.claim])
    /\ h.due \cap h.refunds = {}

\* The lines to take back are lines of payslips, and an edit is of an open claim.
FromSlips(h, ss) ==
  h.at = "restore" => \A f \in h.refunds : \E s \in ss : s.run = h.run /\ f \in s.refunds
EditsUnclaimed(h, ss) == h.op \in ClaimOps => \A f \in h.due : Unclaimed(ss, f.claim)

ClaimsRight(h, ss, cl) ==
  ShownOnce(ss) /\ SlipsShow(h, ss, cl) /\ LinesShow(h, ss, cl) /\ FromSlips(h, ss) /\ EditsUnclaimed(h, ss)

ClaimInv == TypeInv /\ PlaceOps(The) /\ ClaimsRight(The, slips, claims)

\* A claim on a payslip is paid in its month, until the line is taken back; a paid
\* claim is on a payslip or in the hand of the computation that pays it.
PaidIn(row, r) == row.status = "paid" /\ row.paidIn = PeriodOf[r]
SlipsPay(h, ss, cl) ==
  \A s \in ss : \A f \in s.refunds :
    IF Restoring(h, s.run) /\ f \notin h.refunds THEN cl[f.claim].status = "approved"
                                                 ELSE PaidIn(cl[f.claim], s.run)
LinesPay(h, cl) == h.at = "refund" => \A f \in h.refunds : PaidIn(cl[f.claim], h.run)
PaidShown(h, ss, cl) ==
  \A c \in Claims : cl[c].status = "paid" =>
    ~Unclaimed(ss, c) \/ (h.at = "refund" /\ \E f \in h.refunds : f.claim = c)
NoneDeleted(cl) == \A c \in Claims : cl[c].status # "deleted"
PayRight(h, ss, cl) == NoneDeleted(cl) /\ SlipsPay(h, ss, cl) /\ LinesPay(h, cl) /\ PaidShown(h, ss, cl)

PayInv == RunInv /\ ClaimInv /\ PayRight(The, slips, claims)

\* The runs of one month exclude each other: createRun refuses a second.
OneMonth == \A r, q \in Runs : PeriodOf[r] = PeriodOf[q]
OneStored(rs) == \A r, q \in Runs : rs[r] \notin {"absent", "deleted"} /\ rs[q] \notin {"absent", "deleted"} => r = q
\* d takes its amount, rounded, from what was lent
Takes(d, ln) ==
  /\ Stored(ln[d.loan]) /\ d.status = "active"
  /\ d.outstanding = ln[d.loan].principal /\ d.amount <= d.outstanding + 50

\* Nothing else has touched the loan since, and so its debt is whole without the line.
Taken(d, ln) == ln[d.loan].outstanding = Minus(d.outstanding, d.amount)
Owed(l, ln) == ln[l].outstanding = ln[l].principal
Single(ds) == \A d, e \in ds : d.loan = e.loan => d = e

\* A stored line has been taken from the loan, or given back by an undo under way
\* or one that stopped.
SlipsTake(h, ss, ln) ==
  \A s \in ss :
    /\ Single(s.debits)
    /\ \A d \in s.debits :
         /\ BorrowerOf[d.loan] = s.employee /\ Takes(d, ln)
         /\ Taken(d, ln) \/ Owed(d.loan, ln)
         /\ Computing(h, s.run) => Taken(d, ln)
         /\ Restoring(h, s.run) /\ d \notin h.debits => Owed(d.loan, ln)
LinesTake(h, ln) ==
  /\ h.at \in {"debit", "refund"} =>
       /\ Single(h.debits)
       /\ \A d \in h.debits : BorrowerOf[d.loan] = h.employee /\ Takes(d, ln) /\ Taken(d, ln)
  /\ h.at = "debit" =>
       /\ Single(h.owed \cup h.debits) /\ h.owed \cap h.debits = {}
       /\ \A d \in h.owed : BorrowerOf[d.loan] = h.employee /\ Takes(d, ln)

\* What no line takes is owed in full.
NoLines(h, ss, l) ==
  /\ \A s \in ss : \A d \in s.debits : d.loan # l
  /\ h.at \in {"debit", "refund"} => \A d \in h.debits : d.loan # l
RestOwed(h, ss, ln) == \A l \in Loans : NoLines(h, ss, l) => Owed(l, ln)
TakenBack(h, ss) ==
  h.at = "restore" => \A d \in h.debits : \E s \in ss : s.run = h.run /\ d \in s.debits
LoansRight(h, ss, ln) == SlipsTake(h, ss, ln) /\ LinesTake(h, ln) /\ TakenBack(h, ss) /\ RestOwed(h, ss, ln)

LoanInv == RunInv /\ OneStored(runs) /\ LoansRight(The, slips, loans)

-----------------------------------------------------------------------------
(* What a step does to the handler *)

LEMMA TheHandler ==
  ASSUME Alone, TypeInv, NEW p \in Procs
  PROVE  The = req[p] /\ The' = req'[p] /\ req[p] \in Handler /\ req[p] \in Request
<1>1. (CHOOSE q \in Procs : TRUE) = p /\ Procs # {}
  BY DEF Alone
<1>2. The = req[p] /\ The' = req'[p]
  BY <1>1, Zenon DEF The
<1> QED BY <1>2 DEF TypeInv, Handler

LEMMA BecomesIs ==
  ASSUME TypeInv, NEW p \in Procs, NEW handler, Becomes(p, handler)
  PROVE  req'[p] = handler
BY DEF TypeInv, Becomes

Tables == <<runs, slips, loans, claims>>

\* The first step of an endpoint of a run.
FirstPlace ==
  [createRun |-> {"insert"}, computePayroll |-> {"wipe"}, approveRun |-> {"write"},
   markPaid |-> {"slips"}, cancelRun |-> {"wipe"}, revertToDraft |-> {"wipe", "write"},
   rerunRun |-> {"collect", "write"}, deleteRun |-> {"collect"}]

NoLinesYet(h) == h.left = {} /\ h.owed = {} /\ h.due = {} /\ h.debits = {} /\ h.refunds = {}

LEMMA IdleIs == Idle.op = "idle" /\ Idle.at = "idle" /\ Idle.run = None /\ NoLinesYet(Idle)
BY DEF Idle, NoLinesYet

LEMMA BeginIs ==
  ASSUME TypeInv, NEW p \in Procs, NEW r \in Runs,
         BeginCreateRun(p, r) \/ BeginCompute(p, r) \/ BeginApprove(p, r)
         \/ BeginMarkPaid(p, r) \/ BeginCancelRun(p, r) \/ BeginRevert(p, r)
         \/ BeginRerun(p, r) \/ BeginDeleteRun(p, r),
         NEW n, n = req'[p]
  PROVE  /\ req[p] = Idle /\ UNCHANGED Tables
         /\ n.op \in RunOps /\ n.at \in FirstPlace[n.op] /\ n.run = r /\ NoLinesYet(n)
         /\ runs[r] \in Found[n.op]
         /\ n.op \in {"revertToDraft", "rerunRun"} /\ n.at = "write" => runs[r] \in {"draft", "cancelled"}
<1>1. runs[r] \in RunStatus
  BY DEF TypeInv, TypeOK
<1>2. PICK op, at : /\ Accept(p, op, at, r) /\ op \in RunOps /\ at \in FirstPlace[op]
                    /\ runs[r] \in Found[op] /\ req[p] = Idle /\ UNCHANGED Tables
                    /\ op \in {"revertToDraft", "rerunRun"} /\ at = "write"
                         => runs[r] \in {"draft", "cancelled"}
  BY <1>1 DEF BeginCreateRun, BeginCompute, BeginApprove, BeginMarkPaid, BeginCancelRun, BeginRevert,
     BeginRerun, BeginDeleteRun, Free, FirstPlace, Found, RunOps, StoredRun, RunStatus, Tables
<1>3. n = [Idle EXCEPT !.op = op, !.at = at, !.run = r]
  BY <1>2, BecomesIs DEF Accept
<1>4. n.op = op /\ n.at = at /\ n.run = r /\ NoLinesYet(n)
  BY <1>3 DEF Idle, NoLinesYet
<1> QED BY <1>2, <1>4

LEMMA RespondIs == ASSUME TypeInv, NEW p \in Procs, Respond(p) PROVE req'[p] = Idle
BY BecomesIs DEF Respond

LEMMA WipeIs ==
  ASSUME TypeInv, NEW p \in Procs, WipeSlips(p), NEW h, h = req[p], NEW n, n = req'[p]
  PROVE  /\ h.at = "wipe" \/ (h.at = "restore" /\ h.debits = {} /\ h.refunds = {})
         /\ slips' = slips \ SlipsOf(h.run) /\ UNCHANGED <<runs, loans, claims>>
         /\ n.op = h.op /\ n.run = h.run /\ n.debits = h.debits /\ n.refunds = h.refunds
         /\ n.owed = h.owed /\ n.due = h.due
         /\ n.at = "write" \/ (n.at = "employees" /\ h.op = "computePayroll")
<1>1. h \in Request
  BY DEF TypeInv, TypeOK
<1>2. \/ n = [h EXCEPT !.at = "write"]
      \/ h.op = "computePayroll" /\ n = [h EXCEPT !.at = "employees", !.left = Employees]
  BY BecomesIs DEF WipeSlips, GoTo
<1> QED BY <1>1, <1>2 DEF WipeSlips, Request

LEMMA DoneIs ==
  ASSUME TypeInv, NEW p \in Procs, NEW e, EmployeeDone(p, e), NEW h, h = req[p], NEW n, n = req'[p]
  PROVE  /\ n.op = h.op /\ n.run = h.run /\ n.owed = h.owed /\ n.due = h.due
         /\ n.debits = {} /\ n.refunds = {} /\ n.left = h.left \ {e}
         /\ n.at \in {"employees", "write"}
<1>1. h \in Request
  BY DEF TypeInv, TypeOK
<1> DEFINE left == h.left \ {e}
<1>2. PICK at \in {"employees", "write"} :
        n = [h EXCEPT !.left = left, !.employee = None, !.debits = {}, !.refunds = {}, !.at = at]
  BY BecomesIs DEF EmployeeDone
<1> HIDE DEF left
<1>3. /\ n.op = h.op /\ n.run = h.run /\ n.owed = h.owed /\ n.due = h.due
      /\ n.debits = {} /\ n.refunds = {} /\ n.left = left /\ n.at = at
  BY <1>1, <1>2 DEF Request
<1> QED BY <1>3 DEF left

LEMMA ReadLoansIs ==
  ASSUME TypeInv, NEW p \in Procs, NEW e, ReadLoans(p, e), NEW h, h = req[p], NEW n, n = req'[p]
  PROVE  /\ h.at = "employees" /\ e \in h.left /\ UNCHANGED Tables
         /\ n.op = h.op /\ n.run = h.run /\ n.at = "debit" /\ n.employee = e /\ n.left = h.left
         /\ n.debits = h.debits /\ n.refunds = h.refunds /\ n.due = h.due
         /\ n.owed = {d \in {Snapshot(l, Instalment(loans[l])) :
                               l \in {l \in Loans : BorrowerOf[l] = e /\ loans[l].status = "active"}} :
                        d.amount > 0}
<1>1. h \in Request
  BY DEF TypeInv, TypeOK
<1>2. PICK owed : owed = {d \in {Snapshot(l, Instalment(loans[l])) :
                                   l \in {l \in Loans : BorrowerOf[l] = e /\ loans[l].status = "active"}} :
                            d.amount > 0}
  OBVIOUS
<1>3. n = [h EXCEPT !.at = "debit", !.employee = e, !.owed = owed]
  BY <1>2, BecomesIs DEF ReadLoans
<1>4. /\ n.op = h.op /\ n.run = h.run /\ n.at = "debit" /\ n.employee = e /\ n.left = h.left
      /\ n.debits = h.debits /\ n.refunds = h.refunds /\ n.due = h.due /\ n.owed = owed
  BY <1>1, <1>3 DEF Request
<1> QED BY <1>2, <1>4 DEF ReadLoans, Tables

LEMMA ReadClaimsIs ==
  ASSUME TypeInv, NEW p \in Procs, ReadClaims(p), NEW h, h = req[p], NEW n, n = req'[p]
  PROVE  /\ h.at = "debit" /\ h.owed = {} /\ UNCHANGED Tables
         /\ n.op = h.op /\ n.run = h.run /\ n.at = "refund" /\ n.employee = h.employee /\ n.left = h.left
         /\ n.debits = h.debits /\ n.refunds = h.refunds /\ n.owed = h.owed
         /\ n.due = {f \in {ClaimSnapshot(c, Rounded(claims[c].amount)) :
                              c \in {c \in Claims : /\ ClaimantOf[c] = h.employee
                                                    /\ claims[c].status = "approved"}} :
                       f.amount > 0}
<1>1. h \in Request
  BY DEF TypeInv, TypeOK
<1>2. PICK due : due = {f \in {ClaimSnapshot(c, Rounded(claims[c].amount)) :
                                 c \in {c \in Claims : /\ ClaimantOf[c] = h.employee
                                                       /\ claims[c].status = "approved"}} :
                          f.amount > 0}
  OBVIOUS
<1>3. n = [h EXCEPT !.at = "refund", !.due = due]
  BY <1>2, BecomesIs DEF ReadClaims
<1>4. /\ n.op = h.op /\ n.run = h.run /\ n.at = "refund" /\ n.employee = h.employee /\ n.left = h.left
      /\ n.debits = h.debits /\ n.refunds = h.refunds /\ n.owed = h.owed /\ n.due = due
  BY <1>1, <1>3 DEF Request
<1> QED BY <1>2, <1>4 DEF ReadClaims, Tables

\* A line is written and is the payslip's, or, when the run is taken back, is done.
LEMMA DebitIs ==
  ASSUME TypeInv, NEW p \in Procs, NEW x, DebitLoan(p, x), NEW h, h = req[p], NEW n, n = req'[p]
  PROVE  /\ n.op = h.op /\ n.run = h.run /\ n.at = h.at /\ n.employee = h.employee /\ n.left = h.left
         /\ h.at = "debit" /\ x \in h.owed /\ UNCHANGED <<runs, slips, claims>>
         /\ n.owed = h.owed \ {x} /\ n.debits = h.debits \cup {x}
         /\ n.due = h.due /\ n.refunds = h.refunds
<1>1. h \in Request
  BY DEF TypeInv, TypeOK
<1>2. n = [h EXCEPT !.owed = @ \ {x}, !.debits = @ \cup {x}]
  BY BecomesIs DEF DebitLoan
<1> QED BY <1>1, <1>2 DEF DebitLoan, Request

LEMMA RefundIs ==
  ASSUME TypeInv, NEW p \in Procs, NEW x, RefundClaim(p, x), NEW h, h = req[p], NEW n, n = req'[p]
  PROVE  /\ n.op = h.op /\ n.run = h.run /\ n.at = h.at /\ n.employee = h.employee /\ n.left = h.left
         /\ h.at = "refund" /\ x \in h.due /\ UNCHANGED <<runs, slips, loans>>
         /\ n.due = h.due \ {x} /\ n.refunds = h.refunds \cup {x}
         /\ n.owed = h.owed /\ n.debits = h.debits
<1>1. h \in Request
  BY DEF TypeInv, TypeOK
<1>2. n = [h EXCEPT !.due = @ \ {x}, !.refunds = @ \cup {x}]
  BY BecomesIs DEF RefundClaim
<1> QED BY <1>1, <1>2 DEF RefundClaim, Request

LEMMA RestoreLoanIs ==
  ASSUME TypeInv, NEW p \in Procs, NEW x, RestoreLoan(p, x), NEW h, h = req[p], NEW n, n = req'[p]
  PROVE  /\ n.op = h.op /\ n.run = h.run /\ n.at = h.at /\ n.employee = h.employee /\ n.left = h.left
         /\ h.at = "restore" /\ x \in h.debits /\ UNCHANGED <<runs, slips, claims>>
         /\ n.debits = h.debits \ {x} /\ n.refunds = h.refunds
<1>1. h \in Request
  BY DEF TypeInv, TypeOK
<1>2. n = [h EXCEPT !.debits = @ \ {x}]
  BY BecomesIs DEF RestoreLoan
<1> QED BY <1>1, <1>2 DEF RestoreLoan, Request

LEMMA RestoreClaimIs ==
  ASSUME TypeInv, NEW p \in Procs, NEW x, RestoreClaim(p, x), NEW h, h = req[p], NEW n, n = req'[p]
  PROVE  /\ n.op = h.op /\ n.run = h.run /\ n.at = h.at /\ n.employee = h.employee /\ n.left = h.left
         /\ h.at = "restore" /\ x \in h.refunds /\ UNCHANGED <<runs, slips, loans>>
         /\ n.refunds = h.refunds \ {x} /\ n.debits = h.debits
<1>1. h \in Request
  BY DEF TypeInv, TypeOK
<1>2. n = [h EXCEPT !.refunds = @ \ {x}]
  BY BecomesIs DEF RestoreClaim
<1> QED BY <1>1, <1>2 DEF RestoreClaim, Request

LEMMA CollectIs ==
  ASSUME TypeInv, NEW p \in Procs, CollectLines(p), NEW h, h = req[p], NEW n, n = req'[p]
  PROVE  /\ h.at = "collect" /\ UNCHANGED Tables
         /\ n.op = h.op /\ n.run = h.run /\ n.at = "restore"
         /\ n.debits = UNION {s.debits : s \in SlipsOf(h.run)}
         /\ n.refunds = UNION {s.refunds : s \in SlipsOf(h.run)}
<1>1. h \in Request
  BY DEF TypeInv, TypeOK
<1>2. PICK debits, refunds : /\ debits = UNION {s.debits : s \in SlipsOf(h.run)}
                             /\ refunds = UNION {s.refunds : s \in SlipsOf(h.run)}
  OBVIOUS
<1>3. n = [h EXCEPT !.at = "restore", !.debits = debits, !.refunds = refunds]
  BY <1>2, BecomesIs DEF CollectLines
<1> QED BY <1>1, <1>2, <1>3 DEF CollectLines, Request, Tables

LEMMA MarkIs ==
  ASSUME TypeInv, NEW p \in Procs, MarkSlipsPaid(p), NEW h, h = req[p], NEW n, n = req'[p]
  PROVE  /\ h.at = "slips" /\ UNCHANGED <<runs, loans, claims>>
         /\ n.op = h.op /\ n.run = h.run /\ n.at = "write"
         /\ n.owed = h.owed /\ n.due = h.due /\ n.debits = h.debits /\ n.refunds = h.refunds
<1>1. h \in Request
  BY DEF TypeInv, TypeOK
<1>2. n = [h EXCEPT !.at = "write"]
  BY BecomesIs DEF MarkSlipsPaid, GoTo
<1> QED BY <1>1, <1>2 DEF MarkSlipsPaid, Request

LEMMA RowBeginIs ==
  ASSUME TypeInv, NEW p \in Procs,
         \/ \E l \in Loans, payment \in Payments : BeginRecordPayment(p, l, payment)
         \/ \E l \in Loans, principal \in Principals : BeginUpdateLoan(p, l, principal)
         \/ \E op \in Ops, c \in Claims, amount \in Expenses : BeginClaim(p, op, c, amount),
         NEW n, n = req'[p]
  PROVE  /\ req[p] = Idle /\ UNCHANGED Tables /\ n.op \in RowOps /\ n.at = "write"
         /\ n.debits = {} /\ n.refunds = {}
         /\ n.op \in {"recordPayment", "updateLoan"} => n.op \in Ops
         /\ n.op \in ClaimOps => \E c \in Claims, amount \in Expenses :
              n.due = {ClaimSnapshot(c, amount)} /\ claims[c].status \in {"pending", "approved"}
<1>1. CASE \E op \in Ops, c \in Claims, amount \in Expenses : BeginClaim(p, op, c, amount)
  <2>1. PICK op \in Ops, c \in Claims, amount \in Expenses : BeginClaim(p, op, c, amount)
    BY <1>1
  <2>2. PICK due : due = {ClaimSnapshot(c, amount)}
    OBVIOUS
  <2>3. n = [Idle EXCEPT !.op = op, !.at = "write", !.due = due]
    BY <2>1, <2>2, BecomesIs DEF BeginClaim
  <2>4. /\ op \in ClaimOps /\ req[p] = Idle /\ claims[c].status \in {"pending", "approved"}
        /\ UNCHANGED Tables
    BY <2>1 DEF BeginClaim, Free, ClaimOps, Tables
  <2> QED BY <2>2, <2>3, <2>4 DEF Idle, RowOps, ClaimOps
<1>2. CASE \E l \in Loans, payment \in Payments : BeginRecordPayment(p, l, payment)
  <2>1. PICK owed : n = [Idle EXCEPT !.op = "recordPayment", !.at = "write", !.owed = owed]
    BY <1>2, BecomesIs DEF BeginRecordPayment
  <2> QED BY <1>2, <2>1 DEF BeginRecordPayment, Free, Idle, RowOps, ClaimOps, Tables
<1>3. CASE \E l \in Loans, principal \in Principals : BeginUpdateLoan(p, l, principal)
  <2>1. PICK owed, amount : n = [Idle EXCEPT !.op = "updateLoan", !.at = "write", !.amount = amount,
                                             !.owed = owed]
    BY <1>3, BecomesIs DEF BeginUpdateLoan
  <2> QED BY <1>3, <2>1 DEF BeginUpdateLoan, Free, Idle, RowOps, ClaimOps, Tables
<1> QED BY <1>1, <1>2, <1>3

LEMMA MarkedIs ==
  ASSUME TypeInv, NEW p \in Procs, MarkSlipsPaid(p)
  PROVE  \A t \in slips' : \E s \in slips :
           /\ t.run = s.run /\ t.employee = s.employee /\ t.debits = s.debits /\ t.refunds = s.refunds
           /\ t = IF s.run = req[p].run THEN [s EXCEPT !.status = "paid"] ELSE s
           /\ t.status = IF s.run = req[p].run THEN "paid" ELSE s.status
<1>1. slips \subseteq Payslip
  BY DEF TypeInv, TypeOK
<1>2. \A s \in slips : LET t == [s EXCEPT !.status = "paid"]
                       IN /\ t.run = s.run /\ t.employee = s.employee /\ t.debits = s.debits
                          /\ t.refunds = s.refunds /\ t.status = "paid"
  BY <1>1 DEF Payslip
<1>3. ASSUME NEW t \in slips'
      PROVE  \E s \in slips :
               /\ t.run = s.run /\ t.employee = s.employee /\ t.debits = s.debits /\ t.refunds = s.refunds
               /\ t = IF s.run = req[p].run THEN [s EXCEPT !.status = "paid"] ELSE s
               /\ t.status = IF s.run = req[p].run THEN "paid" ELSE s.status
  <2>1. PICK s \in slips : t = IF s.run = req[p].run THEN [s EXCEPT !.status = "paid"] ELSE s
    BY DEF MarkSlipsPaid, SlipsOf
  <2>2. CASE s.run = req[p].run
    BY <1>2, <2>1, <2>2
  <2>3. CASE s.run # req[p].run
    BY <2>1, <2>3
  <2> QED BY <2>2, <2>3
<1> QED BY <1>3

LEMMA UnmarkedIs ==
  ASSUME TypeInv, NEW p \in Procs, MarkSlipsPaid(p)
  PROVE  \A s \in slips : \E t \in slips' :
           t.run = s.run /\ t.employee = s.employee /\ t.debits = s.debits /\ t.refunds = s.refunds
<1>1. slips \subseteq Payslip
  BY DEF TypeInv, TypeOK
<1> SUFFICES ASSUME NEW s \in slips
             PROVE  \E t \in slips' : /\ t.run = s.run /\ t.employee = s.employee
                                      /\ t.debits = s.debits /\ t.refunds = s.refunds
  OBVIOUS
<1>2. CASE s.run = req[p].run
  <2>1. [s EXCEPT !.status = "paid"] \in slips'
    BY <1>2 DEF MarkSlipsPaid, SlipsOf
  <2>2. PICK t : t = [s EXCEPT !.status = "paid"]
    OBVIOUS
  <2>3. t.run = s.run /\ t.employee = s.employee /\ t.debits = s.debits /\ t.refunds = s.refunds
    BY <1>1, <2>2 DEF Payslip
  <2> QED BY <2>1, <2>2, <2>3
<1>3. CASE s.run # req[p].run
  <2>1. s \in slips'
    BY <1>3 DEF MarkSlipsPaid, SlipsOf
  <2> QED BY <2>1
<1> QED BY <1>2, <1>3

LEMMA WriteIs ==
  ASSUME TypeInv, NEW p \in Procs, WriteRun(p), NEW h, h = req[p], FoundStill(h, runs)
  PROVE  /\ h.at = "write" /\ h.op \in RunOps /\ h.op \in DOMAIN Outcome /\ h.run \in Runs
         /\ req'[p] = Idle /\ UNCHANGED <<loans, claims>>
         /\ runs' = [runs EXCEPT ![h.run] = Outcome[h.op]]
         /\ slips' = IF h.op = "deleteRun" THEN slips \ SlipsOf(h.run) ELSE slips
<1>1. h \in Handler /\ h.op \in RunOps
  BY DEF TypeInv, WriteRun, Outcome, RunOps
<1>2. StoredRun(h.run)
  BY <1>1 DEF FoundStill, Found, StoredRun, WriteRun, Outcome
<1> QED BY <1>1, <1>2, RespondIs DEF WriteRun, SetRun, Handler, WellPlaced

\* A handler that has nothing under way says nothing of the payslips.
LEMMA AtRest ==
  ASSUME NEW n, n = Idle
  PROVE  /\ PlaceOps(n) /\ \A rs : FoundStill(n, rs)
         /\ \A ss : Undone(n, ss) /\ Fresh(n, ss) /\ \A r : ~Computing(n, r)
BY DEF Idle, PlaceOps, FoundStill, Undone, Fresh, Computing, RunOps, RowOps

-----------------------------------------------------------------------------
(* An active loan owes something, edits or not *)

\* No edit overlaps a handler that writes snapshots of loans back.
EditsMeetNoUndo ==
  "updateLoan" \in Ops => Alone \/ {"rerunRun", "deleteRun"} \cap Ops = {}

Owes(row) == row.status = "active" /\ row.principal > 0 => row.outstanding > 0

\* The lines of a computation, and so of a payslip, are of loans that owed something.
AllOwed(ds) == \A d \in ds : d.outstanding > 0
LinesOwed(h) == AllOwed(h.debits) /\ (h.at = "debit" => AllOwed(h.owed))

\* An edit that read a settled loan does not meet an active one: it would leave
\* it active, whatever is left.
EditStands(h, ln) ==
  h.op = "updateLoan" =>
    \A d \in h.owed : /\ ln[d.loan].status # "absent"
                      /\ ln[d.loan].status = "active" => d.status = "active"

EditPlaced(h) ==
  /\ h.op = "updateLoan" => h.at = "write"
  /\ h.at \in {"collect", "restore"} => h.op \in {"rerunRun", "deleteRun"}

OweInv ==
  /\ TypeInv /\ ActiveOwes
  /\ \A s \in slips : AllOwed(s.debits)
  /\ \A p \in Procs : LinesOwed(req[p]) /\ EditPlaced(req[p]) /\ EditStands(req[p], loans)

LEMMA OthersStay ==
  ASSUME TypeInv, NEW p \in Procs, RunStep(p) \/ RowStep(p)
  PROVE  \A q \in Procs : q # p => req'[q] = req[q]
<1>1. ASSUME NEW handler, Becomes(p, handler)
      PROVE  \A q \in Procs : q # p => req'[q] = req[q]
  BY <1>1 DEF TypeInv, TypeOK, Becomes
<1>2. RunStep(p) => \E handler : Becomes(p, handler)
  BY Zenon DEF RunStep, BeginCreateRun, BeginCompute, BeginApprove, BeginMarkPaid, BeginCancelRun,
    BeginRevert, BeginRerun, BeginDeleteRun, InsertRun, WipeSlips, MarkSlipsPaid, CollectLines,
    WriteRun, SkipEmployee, ReadLoans, DebitLoan, RestoreLoan, RefundClaim, RestoreClaim, ReadClaims,
    InsertPayslip, Crash, Accept, GoTo, EmployeeDone, Respond
<1>3. RowStep(p) => \E handler : Becomes(p, handler)
  BY Zenon DEF RowStep, BeginRecordPayment, BeginUpdateLoan, WritePayment, WriteLoanUpdate, BeginClaim,
    WriteClaim, Respond
<1> QED BY <1>1, <1>2, <1>3

LEMMA SnapshotOwed ==
  ASSUME NEW l \in Loans, loans[l] \in Loan, NEW d,
         d = Snapshot(l, Instalment(loans[l])), d.amount > 0
  PROVE  d.outstanding > 0
<1>1. d.amount = Instalment(loans[l]) /\ d.outstanding = loans[l].outstanding
  BY DEF Snapshot
<1> QED BY <1>1, InstalmentIs

\* No step puts a line of a settled loan on a payslip.
LEMMA RunStepOwed ==
  ASSUME OweInv, NEW p \in Procs, RunStep(p), NEW n, n = req'[p]
  PROVE  /\ \A s \in slips' : AllOwed(s.debits)
         /\ LinesOwed(n) /\ EditPlaced(n) /\ n.op # "updateLoan"
<1>1. PICK h : h = req[p]
  OBVIOUS
<1>2. /\ TypeInv /\ h \in Handler /\ LinesOwed(h) /\ EditPlaced(h)
      /\ \A s \in slips : AllOwed(s.debits)
  BY <1>1 DEF OweInv, TypeInv
<1>3. ASSUME NEW r \in Runs,
             BeginCreateRun(p, r) \/ BeginCompute(p, r) \/ BeginApprove(p, r)
             \/ BeginMarkPaid(p, r) \/ BeginCancelRun(p, r) \/ BeginRevert(p, r)
             \/ BeginRerun(p, r) \/ BeginDeleteRun(p, r)
      PROVE  UNCHANGED slips /\ LinesOwed(n) /\ EditPlaced(n) /\ n.op # "updateLoan"
  <2>1. UNCHANGED slips /\ n.op \in RunOps /\ n.at \in FirstPlace[n.op] /\ NoLinesYet(n)
    BY <1>2, <1>3, BeginIs DEF Tables
  <2> QED BY <2>1 DEF FirstPlace, RunOps, NoLinesYet, LinesOwed, AllOwed, EditPlaced
<1>4. CASE InsertRun(p) \/ WriteRun(p) \/ Crash(p)
  <2>1. n = Idle /\ slips' \subseteq slips
    BY <1>2, <1>4, RespondIs DEF InsertRun, WriteRun, Crash
  <2> QED BY <1>2, <2>1 DEF Idle, LinesOwed, AllOwed, EditPlaced
<1>5. CASE WipeSlips(p)
  <2>1. /\ h.at \in {"wipe", "restore"} /\ slips' \subseteq slips /\ n.op = h.op /\ n.debits = h.debits
        /\ n.at \in {"write", "employees"}
    BY <1>1, <1>2, <1>5, WipeIs
  <2> QED BY <1>2, <2>1 DEF LinesOwed, EditPlaced
<1>6. CASE MarkSlipsPaid(p)
  <2>1. h.at = "slips" /\ n.op = h.op /\ n.at = "write" /\ n.debits = h.debits
    BY <1>1, <1>2, <1>6, MarkIs
  <2>2. \A t \in slips' : \E s \in slips : t.debits = s.debits
    BY <1>2, <1>6, MarkedIs
  <2> QED BY <1>2, <2>1, <2>2 DEF LinesOwed, EditPlaced
<1>7. CASE CollectLines(p)
  <2>1. /\ h.at = "collect" /\ UNCHANGED slips /\ n.op = h.op /\ n.at = "restore"
        /\ n.debits = UNION {s.debits : s \in SlipsOf(h.run)}
    BY <1>1, <1>2, <1>7, CollectIs DEF Tables
  <2>2. AllOwed(n.debits)
    BY <1>2, <2>1 DEF AllOwed, SlipsOf
  <2> QED BY <1>2, <2>1, <2>2 DEF LinesOwed, EditPlaced
<1>8. ASSUME NEW e, EmployeeDone(p, e), h.at \in {"employees", "refund"}
      PROVE  LinesOwed(n) /\ EditPlaced(n) /\ n.op # "updateLoan"
  <2>1. n.op = h.op /\ n.debits = {} /\ n.at \in {"employees", "write"}
    BY <1>1, <1>2, <1>8, DoneIs
  <2> QED BY <1>2, <1>8, <2>1 DEF LinesOwed, AllOwed, EditPlaced
<1>9. ASSUME NEW e, SkipEmployee(p, e)
      PROVE  UNCHANGED slips /\ LinesOwed(n) /\ EditPlaced(n) /\ n.op # "updateLoan"
  BY <1>1, <1>8, <1>9 DEF SkipEmployee
<1>10. ASSUME NEW e, ReadLoans(p, e)
       PROVE  UNCHANGED slips /\ LinesOwed(n) /\ EditPlaced(n) /\ n.op # "updateLoan"
  <2> DEFINE active == {l \in Loans : BorrowerOf[l] = e /\ loans[l].status = "active"}
  <2>1. /\ h.at = "employees" /\ UNCHANGED slips /\ n.op = h.op /\ n.at = "debit" /\ n.debits = h.debits
        /\ \A d \in n.owed : d.amount > 0 /\ \E l \in active :
             d = Snapshot(l, Instalment(loans[l]))
    BY <1>1, <1>2, <1>10, ReadLoansIs DEF Tables
  <2>2. \A l \in active : l \in Loans /\ loans[l] \in Loan
    BY <1>2 DEF TypeInv, TypeOK
  <2>3. AllOwed(n.owed)
    BY <2>1, <2>2, SnapshotOwed DEF AllOwed
  <2> QED BY <1>2, <2>1, <2>3 DEF LinesOwed, EditPlaced
<1>11. ASSUME NEW x, DebitLoan(p, x) \/ RestoreLoan(p, x) \/ RefundClaim(p, x) \/ RestoreClaim(p, x)
       PROVE  UNCHANGED slips /\ LinesOwed(n) /\ EditPlaced(n) /\ n.op # "updateLoan"
  <2>1. CASE DebitLoan(p, x)
    <3>1. /\ UNCHANGED slips /\ n.op = h.op /\ n.at = h.at /\ h.at = "debit" /\ x \in h.owed
          /\ n.owed = h.owed \ {x} /\ n.debits = h.debits \cup {x}
      BY <1>1, <1>2, <2>1, DebitIs
    <3> QED BY <1>2, <3>1 DEF LinesOwed, AllOwed, EditPlaced
  <2>2. CASE RestoreLoan(p, x) \/ RefundClaim(p, x) \/ RestoreClaim(p, x)
    <3>1. /\ UNCHANGED slips /\ n.op = h.op /\ n.at = h.at /\ h.at \in {"restore", "refund"}
          /\ n.debits \subseteq h.debits
      BY <1>1, <1>2, <2>2, RestoreLoanIs, RefundIs, RestoreClaimIs
    <3> QED BY <1>2, <3>1 DEF LinesOwed, AllOwed, EditPlaced
  <2> QED BY <1>11, <2>1, <2>2
<1>12. CASE ReadClaims(p)
  <2>1. UNCHANGED slips /\ n.op = h.op /\ h.at = "debit" /\ n.at = "refund" /\ n.debits = h.debits
    BY <1>1, <1>2, <1>12, ReadClaimsIs DEF Tables
  <2> QED BY <1>2, <2>1 DEF LinesOwed, EditPlaced
<1>13. CASE InsertPayslip(p)
  <2> DEFINE slip == [run |-> req[p].run, employee |-> req[p].employee, status |-> "generated",
                      debits |-> req[p].debits, refunds |-> req[p].refunds]
  <2>1. CASE Respond(p) /\ UNCHANGED slips
    <3>1. n = Idle
      BY <1>2, <2>1, RespondIs
    <3> QED BY <1>2, <2>1, <3>1 DEF Idle, LinesOwed, AllOwed, EditPlaced
  <2>2. CASE EmployeeDone(p, req[p].employee) /\ slips' = slips \cup {slip}
    <3>1. h.at = "refund"
      BY <1>1, <1>13 DEF InsertPayslip
    <3>2. AllOwed(slip.debits)
      BY <1>1, <1>2 DEF LinesOwed
    <3> QED BY <1>2, <1>8, <2>2, <3>1, <3>2
  <2> QED BY <1>13, <2>1, <2>2 DEF InsertPayslip
<1> QED BY <1>2, <1>3, <1>4, <1>5, <1>6, <1>7, <1>9, <1>10, <1>11, <1>12, <1>13 DEF RunStep

LEMMA RowStepOwed ==
  ASSUME OweInv, NEW p \in Procs, RowStep(p), NEW n, n = req'[p]
  PROVE  UNCHANGED slips /\ LinesOwed(n) /\ EditPlaced(n)
<1>1. TypeInv
  BY DEF OweInv
<1>2. CASE \/ \E l \in Loans, payment \in Payments : BeginRecordPayment(p, l, payment)
           \/ \E l \in Loans, principal \in Principals : BeginUpdateLoan(p, l, principal)
           \/ \E op \in Ops, c \in Claims, amount \in Expenses : BeginClaim(p, op, c, amount)
  <2>1. UNCHANGED slips /\ n.at = "write" /\ n.debits = {}
    BY <1>1, <1>2, RowBeginIs DEF Tables
  <2> QED BY <2>1 DEF LinesOwed, AllOwed, EditPlaced
<1>3. ASSUME NEW d, WritePayment(p, d) \/ WriteClaim(p, d)
                    \/ \E emi \in Instalments : WriteLoanUpdate(p, d, emi)
      PROVE  UNCHANGED slips /\ LinesOwed(n) /\ EditPlaced(n)
  <2>1. n = Idle /\ UNCHANGED slips
    BY <1>1, <1>3, RespondIs DEF WritePayment, WriteClaim, WriteLoanUpdate
  <2> QED BY <2>1 DEF Idle, LinesOwed, AllOwed, EditPlaced
<1> QED BY <1>2, <1>3 DEF RowStep

\* What a write does to a row, but for one that takes a run back.
Onward(row, new) ==
  row.status # "absent" => new.status # "absent" /\ (new.status = "active" => row.status = "active")

LoansOnward == \A l \in Loans : Owes(loans'[l]) /\ Onward(loans[l], loans'[l])

LEMMA SetLoanOnward ==
  ASSUME TypeInv, ActiveOwes, NEW l \in Loans, NEW row, Owes(row), Onward(loans[l], row), SetLoan(l, row)
  PROVE  LoansOnward
BY DEF TypeInv, TypeOK, ActiveOwes, Owes, Onward, SetLoan, LoansOnward

LEMMA UnchangedOnward == ASSUME ActiveOwes, UNCHANGED loans PROVE LoansOnward
BY DEF ActiveOwes, Owes, Onward, LoansOnward

\* What a repayment leaves is completed, or owes something.
LEMMA RepaidOwes ==
  ASSUME NEW row \in Loan, NEW d \in Debit
  PROVE  Owes(Repaid(row, d)) /\ Onward(row, Repaid(row, d))
<1>1. Minus(d.outstanding, d.amount) \in Nat
  BY Arithmetic DEF Debit
<1> QED BY <1>1 DEF Repaid, Owes, Onward, Loan

LEMMA EditOwes ==
  ASSUME TypeInv, NEW p \in Procs, NEW d \in req[p].owed, NEW emi \in Instalments,
         WriteLoanUpdate(p, d, emi), EditStands(req[p], loans), ActiveOwes
  PROVE  LoansOnward
<1> DEFINE rest == Minus(req[p].amount, d.amount)
           settled == rest = 0 /\ d.status = "active"
           row == [status |-> IF settled THEN "completed" ELSE loans[d.loan].status,
                   principal |-> req[p].amount, outstanding |-> rest, emi |-> emi]
<1>1. /\ d \in Debit /\ d.loan \in Loans /\ loans[d.loan] \in Loan /\ req[p].amount \in Nat
      /\ d.amount \in Nat /\ rest \in Nat
  <2>1. req[p] \in Request /\ loans \in [Loans -> Loan]
    BY DEF TypeInv, TypeOK
  <2>2. d \in Debit /\ req[p].amount \in Nat
    BY <2>1 DEF Request
  <2> QED BY <2>1, <2>2, Arithmetic DEF Debit
<1>2. loans[d.loan].status = "active" => d.status = "active"
  BY DEF EditStands, WriteLoanUpdate
<1>3. row.outstanding = rest /\ row.status = IF settled THEN "completed" ELSE loans[d.loan].status
  OBVIOUS
<1>4. Owes(row) /\ Onward(loans[d.loan], row)
  <2> HIDE DEF row, rest
  <2> QED BY <1>1, <1>2, <1>3 DEF Owes, Onward, Loan
<1>5. SetLoan(d.loan, row)
  BY DEF WriteLoanUpdate
<1> HIDE DEF row
<1> QED BY <1>1, <1>4, <1>5, SetLoanOnward

LEMMA LoansGoOnward ==
  ASSUME OweInv, Next, \A p \in Procs : \A d \in req[p].debits : ~RestoreLoan(p, d)
  PROVE  LoansOnward
<1>1. /\ TypeInv /\ ActiveOwes /\ loans \in [Loans -> Loan]
      /\ \A p \in Procs : req[p].owed \subseteq Debit /\ EditStands(req[p], loans)
  BY DEF OweInv, TypeInv, TypeOK, Request
<1>2. ASSUME NEW p \in Procs, NEW d \in req[p].owed, DebitLoan(p, d) \/ WritePayment(p, d)
      PROVE  LoansOnward
  <2>1. d \in Debit /\ d.loan \in Loans /\ loans[d.loan] \in Loan
    BY <1>1 DEF Debit
  <2>2. SetLoan(d.loan, Repaid(loans[d.loan], d))
    BY <1>2 DEF DebitLoan, WritePayment
  <2> QED BY <1>1, <2>1, <2>2, RepaidOwes, SetLoanOnward
<1>3. ASSUME NEW l \in Loans, NEW principal \in Principals, NEW emi \in Instalments,
             CreateLoan(l, principal, emi)
      PROVE  LoansOnward
  BY <1>1, <1>3, AmountAssumption DEF CreateLoan, ActiveOwes, Owes, Onward, LoansOnward
<1>4. ASSUME NEW l \in Loans, CancelLoan(l) \/ DeleteLoan(l) PROVE LoansOnward
  <2>1. \A status \in {"cancelled", "deleted"} :
          LET row == [loans[l] EXCEPT !.status = status] IN Owes(row) /\ Onward(loans[l], row)
    BY <1>1 DEF Loan, Owes, Onward
  <2> QED BY <1>1, <1>4, <2>1, SetLoanOnward DEF CancelLoan, DeleteLoan
<1>5. CASE UNCHANGED loans
  BY <1>1, <1>5, UnchangedOnward
<1>6. ASSUME NEW p \in Procs, RunStep(p) PROVE LoansOnward
  BY <1>2, <1>5, <1>6, Zenon
  DEF RunStep, BeginCreateRun, BeginCompute, BeginApprove, BeginMarkPaid, BeginCancelRun,
      BeginRevert, BeginRerun, BeginDeleteRun, InsertRun, WipeSlips, MarkSlipsPaid, CollectLines,
      WriteRun, SkipEmployee, ReadLoans, RefundClaim, RestoreClaim, ReadClaims, InsertPayslip, Crash
<1>7. ASSUME NEW p \in Procs, RowStep(p) PROVE LoansOnward
  BY <1>1, <1>2, <1>5, <1>7, EditOwes, Zenon
  DEF RowStep, BeginRecordPayment, BeginUpdateLoan, BeginClaim, WriteClaim
<1>8. ASSUME Atomic PROVE LoansOnward
  BY <1>3, <1>4, <1>5, <1>8 DEF Atomic, SubmitClaim, PayClaim, RemoveClaim
<1> QED BY <1>6, <1>7, <1>8 DEF Next

\* What is written back was owed.
LEMMA RestoreOwes ==
  ASSUME OweInv, NEW p \in Procs, NEW d \in req[p].debits, RestoreLoan(p, d)
  PROVE  ActiveOwes'
<1>1. /\ d \in Debit /\ d.loan \in Loans /\ d.outstanding > 0
      /\ loans \in [Loans -> Loan] /\ ActiveOwes
  BY DEF OweInv, LinesOwed, AllOwed, TypeInv, TypeOK, Request, Debit
<1>2. PICK row : row = [loans[d.loan] EXCEPT !.outstanding = d.outstanding, !.status = d.status]
  OBVIOUS
<1>3. row.outstanding = d.outstanding
  BY <1>1, <1>2 DEF Loan
<1>4. SetLoan(d.loan, row)
  BY <1>2 DEF RestoreLoan
<1> QED BY <1>1, <1>3, <1>4 DEF SetLoan, ActiveOwes

\* An edit that has begun is of the row it found, and nobody writes snapshots back
\* before it is done.
LEMMA EditsStand ==
  ASSUME OweInv, EditsMeetNoUndo, Next, NEW q \in Procs
  PROVE  EditStands(req[q], loans)'
<1>1. /\ TypeInv /\ TypeInv' /\ req[q] \in Request /\ EditStands(req[q], loans)
      /\ \A p \in Procs : EditPlaced(req[p]) /\ req[p] \in Request
  BY TypeInvNext DEF OweInv, TypeInv, TypeOK
<1>2. SUFFICES ASSUME req'[q].op = "updateLoan" PROVE EditStands(req'[q], loans')
  BY DEF EditStands
<1>3. ASSUME req'[q] = req[q], LoansOnward PROVE EditStands(req'[q], loans')
  <2>1. \A d \in req[q].owed : d.loan \in Loans
    BY <1>1 DEF Request, Debit
  <2> QED BY <1>1, <1>3, <2>1 DEF EditStands, LoansOnward, Onward
<1>4. ASSUME NEW p \in Procs, NEW d \in req[p].debits, RestoreLoan(p, d) PROVE FALSE
  <2>1. req[p].at = "restore" /\ req'[p].op = req[p].op
    BY <1>1, <1>4, RestoreLoanIs
  <2>2. req[p].op \in {"rerunRun", "deleteRun"} /\ req[p].op \in Ops /\ req'[p].op = req[p].op
    BY <1>1, <2>1 DEF EditPlaced, Request
  <2>3. req'[q].op \in Ops /\ q # p
    BY <1>1, <1>2, <2>2 DEF TypeInv, TypeOK, Request
  <2> QED BY <1>2, <2>2, <2>3 DEF EditsMeetNoUndo, Alone
<1>5. LoansOnward
  BY <1>4, LoansGoOnward
<1>6. CASE Atomic
  BY <1>3, <1>5, <1>6
  DEF Atomic, CreateLoan, CancelLoan, DeleteLoan, SubmitClaim, PayClaim, RemoveClaim
<1>7. ASSUME NEW p \in Procs, RunStep(p) \/ RowStep(p) PROVE EditStands(req'[q], loans')
  <2>1. CASE q = p /\ RunStep(p)
    BY <1>2, <2>1, RunStepOwed
  <2>2. CASE q = p /\ RowStep(p)
    <3>1. CASE \E l \in Loans, principal \in Principals : BeginUpdateLoan(p, l, principal)
      <4>1. PICK l \in Loans, principal \in Principals : BeginUpdateLoan(p, l, principal)
        BY <3>1
      <4>2. PICK d : d = Snapshot(l, Minus(loans[l].principal, loans[l].outstanding))
        OBVIOUS
      <4>3. req'[p].owed = {d}
        <5>1. req'[p] = [Idle EXCEPT !.op = "updateLoan", !.at = "write", !.amount = principal, !.owed = {d}]
          BY <1>1, <4>1, <4>2, BecomesIs DEF BeginUpdateLoan
        <5> QED BY <5>1 DEF Idle
      <4>4. /\ d.loan = l /\ d.status = loans[l].status /\ loans[l].status # "absent"
            /\ UNCHANGED loans
        BY <4>1, <4>2 DEF BeginUpdateLoan, Snapshot, Stored
      <4> QED BY <2>2, <4>3, <4>4 DEF EditStands
    <3>2. ASSUME NEW l \in Loans, NEW payment \in Payments, BeginRecordPayment(p, l, payment) PROVE FALSE
      <4>1. PICK owed : req'[p] = [Idle EXCEPT !.op = "recordPayment", !.at = "write", !.owed = owed]
        BY <1>1, <3>2, BecomesIs DEF BeginRecordPayment
      <4> QED BY <1>2, <2>2, <4>1 DEF Idle
    <3>3. ASSUME NEW op \in Ops, NEW c \in Claims, NEW amount \in Expenses, BeginClaim(p, op, c, amount)
          PROVE  FALSE
      <4>1. PICK due : req'[p] = [Idle EXCEPT !.op = op, !.at = "write", !.due = due]
        BY <1>1, <3>3, BecomesIs DEF BeginClaim
      <4>2. op # "updateLoan"
        BY <3>3 DEF BeginClaim
      <4> QED BY <1>2, <2>2, <4>1, <4>2 DEF Idle
    <3>4. ASSUME NEW d, WritePayment(p, d) \/ WriteClaim(p, d)
                        \/ \E emi \in Instalments : WriteLoanUpdate(p, d, emi)
          PROVE  FALSE
      <4>1. req'[p] = Idle
        BY <1>1, <3>4, RespondIs DEF WritePayment, WriteClaim, WriteLoanUpdate
      <4> QED BY <1>2, <2>2, <4>1 DEF Idle
    <3> QED BY <2>2, <3>1, <3>2, <3>3, <3>4 DEF RowStep
  <2>3. CASE q # p
    <3>1. req'[q] = req[q]
      BY <1>1, <1>7, <2>3, OthersStay
    <3> QED BY <1>3, <1>5, <3>1
  <2> QED BY <1>7, <2>1, <2>2, <2>3
<1> QED BY <1>6, <1>7 DEF Next

LEMMA OweNext == EditsMeetNoUndo /\ OweInv /\ [Next]_vars => OweInv'
<1> SUFFICES ASSUME EditsMeetNoUndo, OweInv, [Next]_vars PROVE OweInv'
  OBVIOUS
<1>1. CASE Next
  <2>1. TypeInv /\ TypeInv'
    BY <1>1, TypeInvNext DEF OweInv
  <2>2. ActiveOwes'
    <3>1. CASE \E p \in Procs : \E d \in req[p].debits : RestoreLoan(p, d)
      BY <3>1, RestoreOwes
    <3>2. CASE ~\E p \in Procs : \E d \in req[p].debits : RestoreLoan(p, d)
      <4>1. LoansOnward
        BY <1>1, <3>2, LoansGoOnward
      <4> QED BY <4>1 DEF LoansOnward, Owes, ActiveOwes
    <3> QED BY <3>1, <3>2
  <2>3. /\ \A s \in slips' : AllOwed(s.debits)
        /\ \A q \in Procs : LinesOwed(req'[q]) /\ EditPlaced(req'[q])
    <3>1. CASE Atomic
      <4>1. UNCHANGED <<slips, req>>
        BY <3>1 DEF Atomic, CreateLoan, CancelLoan, DeleteLoan, SubmitClaim, PayClaim, RemoveClaim
      <4> QED BY <4>1 DEF OweInv
    <3>2. ASSUME NEW p \in Procs, RunStep(p) \/ RowStep(p)
          PROVE  /\ \A s \in slips' : AllOwed(s.debits)
                 /\ \A q \in Procs : LinesOwed(req'[q]) /\ EditPlaced(req'[q])
      <4>1. /\ \A s \in slips' : AllOwed(s.debits)
            /\ LinesOwed(req'[p]) /\ EditPlaced(req'[p])
        BY <3>2, RunStepOwed, RowStepOwed DEF OweInv
      <4>2. \A q \in Procs : q # p => req'[q] = req[q]
        BY <2>1, <3>2, OthersStay
      <4> QED BY <4>1, <4>2 DEF OweInv
    <3> QED BY <1>1, <3>1, <3>2 DEF Next
  <2>4. \A q \in Procs : EditStands(req'[q], loans')
    BY <1>1, EditsStand
  <2> QED BY <2>1, <2>2, <2>3, <2>4 DEF OweInv
<1>2. CASE UNCHANGED vars
  <2>1. TypeInv'
    BY TypeInvNext DEF OweInv
  <2> QED BY <1>2, <2>1 DEF vars, OweInv, ActiveOwes
<1> QED BY <1>1, <1>2

\* However requests interleave and wherever they fail, an active loan of a positive
\* principal owes something, unless an edit overlaps a handler that takes a run back.
THEOREM NoActiveLoanIsSettled == ASSUME EditsMeetNoUndo PROVE Spec => []ActiveOwes
<1>1. Init => OweInv
  <2> SUFFICES ASSUME Init PROVE OweInv
    OBVIOUS
  <2>1. TypeInv /\ ActiveOwes
    BY TypeInvInit DEF Init, NoLoan, ActiveOwes
  <2> QED BY <2>1 DEF Init, Idle, OweInv, LinesOwed, AllOwed, EditPlaced, EditStands
<1>2. OweInv => ActiveOwes
  BY DEF OweInv
<1> QED BY <1>1, <1>2, OweNext, PTL DEF Spec

-----------------------------------------------------------------------------
(* Where a handler stands tells which endpoint it serves *)

LEMMA PlaceNext ==
  ASSUME Alone, TypeInv, PlaceOps(The), [Next]_vars
  PROVE  PlaceOps(The')
<1>a. SUFFICES ASSUME NEW p \in Procs, RunStep(p) \/ RowStep(p) PROVE PlaceOps(The')
  <2>1. CASE UNCHANGED vars \/ Atomic
    <3>1. The' = The
      BY <2>1 DEF The, vars, Atomic, CreateLoan, CancelLoan, DeleteLoan, SubmitClaim, PayClaim, RemoveClaim
    <3> QED BY <3>1
  <2> QED BY <2>1 DEF Next
<1>1. PICK h, n : h = req[p] /\ n = req'[p]
  OBVIOUS
<1>2. The = h /\ The' = n /\ PlaceOps(h)
  BY <1>1, TheHandler
<1> SUFFICES PlaceOps(n)
  BY <1>2
<1>3. ASSUME NEW r \in Runs,
             BeginCreateRun(p, r) \/ BeginCompute(p, r) \/ BeginApprove(p, r)
             \/ BeginMarkPaid(p, r) \/ BeginCancelRun(p, r) \/ BeginRevert(p, r)
             \/ BeginRerun(p, r) \/ BeginDeleteRun(p, r)
      PROVE  PlaceOps(n)
  <2>1. n.op \in RunOps /\ n.at \in FirstPlace[n.op] /\ NoLinesYet(n)
    BY <1>1, <1>3, BeginIs
  <2> QED BY <2>1 DEF PlaceOps, FirstPlace, RunOps, NoLinesYet
<1>4. CASE InsertRun(p) \/ WriteRun(p) \/ Crash(p)
  <2>1. n = Idle
    BY <1>1, <1>4, RespondIs DEF InsertRun, WriteRun, Crash
  <2> QED BY <2>1, AtRest
<1>5. CASE WipeSlips(p)
  <2>1. /\ h.at = "wipe" \/ (h.at = "restore" /\ h.debits = {} /\ h.refunds = {})
        /\ n.op = h.op /\ n.debits = h.debits /\ n.refunds = h.refunds
        /\ n.at = "write" \/ (n.at = "employees" /\ h.op = "computePayroll")
    BY <1>1, <1>5, WipeIs
  <2> QED BY <1>2, <2>1 DEF PlaceOps
<1>6. CASE MarkSlipsPaid(p)
  <2>1. h.at = "slips" /\ n.op = h.op /\ n.at = "write" /\ n.debits = h.debits /\ n.refunds = h.refunds
    BY <1>1, <1>6, MarkIs
  <2> QED BY <1>2, <2>1 DEF PlaceOps, RunOps, RowOps
<1>7. CASE CollectLines(p)
  <2>1. h.at = "collect" /\ n.op = h.op /\ n.at = "restore"
    BY <1>1, <1>7, CollectIs
  <2> QED BY <1>2, <2>1 DEF PlaceOps, RowOps
<1>8. ASSUME NEW e, EmployeeDone(p, e), h.op = "computePayroll"
      PROVE  PlaceOps(n)
  <2>1. n.op = h.op /\ n.debits = {} /\ n.refunds = {} /\ n.at \in {"employees", "write"}
    BY <1>1, <1>8, DoneIs
  <2> QED BY <1>8, <2>1 DEF PlaceOps, RunOps
<1>9. ASSUME NEW e, SkipEmployee(p, e) PROVE PlaceOps(n)
  BY <1>1, <1>2, <1>8, <1>9 DEF SkipEmployee, PlaceOps
<1>10. ASSUME NEW e, ReadLoans(p, e) PROVE PlaceOps(n)
  <2>1. /\ h.at = "employees" /\ n.op = h.op /\ n.at = "debit"
        /\ n.debits = h.debits /\ n.refunds = h.refunds
    BY <1>1, <1>10, ReadLoansIs
  <2> QED BY <1>2, <2>1 DEF PlaceOps
<1>11. CASE \/ ReadClaims(p)
            \/ \E x : DebitLoan(p, x) \/ RefundClaim(p, x) \/ RestoreLoan(p, x) \/ RestoreClaim(p, x)
  <2>1. /\ n.op = h.op
        /\ \/ h.at = "debit" /\ n.at \in {"debit", "refund"} /\ n.refunds = h.refunds
           \/ h.at = "refund" /\ n.at = "refund"
           \/ h.at = "restore" /\ n.at = "restore"
    <3>1. CASE ReadClaims(p)
      BY <1>1, <3>1, ReadClaimsIs
    <3>2. CASE \E x : DebitLoan(p, x)
      BY <1>1, <3>2, DebitIs
    <3>3. CASE \E x : RefundClaim(p, x)
      BY <1>1, <3>3, RefundIs
    <3>4. CASE \E x : RestoreLoan(p, x)
      BY <1>1, <3>4, RestoreLoanIs
    <3>5. CASE \E x : RestoreClaim(p, x)
      BY <1>1, <3>5, RestoreClaimIs
    <3> QED BY <1>11, <3>1, <3>2, <3>3, <3>4, <3>5
  <2> QED BY <1>2, <2>1 DEF PlaceOps, RowOps
<1>12. CASE InsertPayslip(p)
  <2>1. h.op = "computePayroll" /\ (n = Idle \/ EmployeeDone(p, h.employee))
    BY <1>1, <1>12, RespondIs DEF InsertPayslip
  <2> QED BY <1>8, <2>1, AtRest
<1>13. CASE \/ \E l \in Loans, payment \in Payments : BeginRecordPayment(p, l, payment)
            \/ \E l \in Loans, principal \in Principals : BeginUpdateLoan(p, l, principal)
            \/ \E op \in Ops, c \in Claims, amount \in Expenses : BeginClaim(p, op, c, amount)
  <2>1. n.op \in RowOps /\ n.at = "write" /\ n.debits = {} /\ n.refunds = {}
    BY <1>1, <1>13, RowBeginIs, SMTT(40)
  <2> QED BY <2>1 DEF PlaceOps, RowOps
<1>14. CASE \/ \E d \in req[p].owed : \/ WritePayment(p, d)
                                      \/ \E emi \in Instalments : WriteLoanUpdate(p, d, emi)
            \/ \E f \in req[p].due : WriteClaim(p, f)
  <2>1. n = Idle
    BY <1>1, <1>14, RespondIs DEF WritePayment, WriteLoanUpdate, WriteClaim
  <2> QED BY <2>1, AtRest
<1>15. CASE RunStep(p)
  BY <1>15, <1>3, <1>4, <1>5, <1>6, <1>7, <1>9, <1>10, <1>11, <1>12 DEF RunStep
<1>16. CASE RowStep(p)
  BY <1>16, <1>13, <1>14 DEF RowStep
<1> QED BY <1>a, <1>15, <1>16

-----------------------------------------------------------------------------
(* Payslips follow their run *)

LEMMA RunInvStep ==
  ASSUME TypeInv', NEW n, The' = n, PlaceOps(n), FoundStill(n, runs'), SlipRuns(n, runs', slips'),
         Undone(n, slips'), Fresh(n, slips'), OneEach(slips')
  PROVE  RunInv'
BY DEF RunInv

\* Neither the run of the handler nor the payslips change.
LEMMA RunMoves ==
  ASSUME RunInv, TypeInv', NEW h, The = h, NEW n, The' = n, runs' = runs, slips' = slips,
         n.op = h.op, n.run = h.run, PlaceOps(n), Fresh(n, slips),
         \A r : Computing(h, r) => Computing(n, r),
         n.at = "write" => h.at = "write" \/ n.op \in {"computePayroll", "markPaid"}
  PROVE  RunInv'
<1>1. FoundStill(n, runs) /\ SlipRuns(n, runs, slips) /\ Undone(n, slips) /\ OneEach(slips)
  BY DEF RunInv, FoundStill, SlipRuns, Undone
<1> QED BY <1>1, RunInvStep

LEMMA RunResponds ==
  ASSUME RunInv, TypeInv', NEW h, The = h, The' = Idle, runs' = runs, slips' = slips,
         h.op # "computePayroll"
  PROVE  RunInv'
<1>1. PICK n : n = Idle
  OBVIOUS
<1>2. SlipRuns(n, runs, slips) /\ OneEach(slips)
  BY DEF RunInv, SlipRuns, Computing
<1> QED BY <1>1, <1>2, AtRest, RunInvStep

LEMMA BeginKeepsRuns ==
  ASSUME Alone, RunInv, TypeInv', NEW p \in Procs, NEW r \in Runs,
         BeginCreateRun(p, r) \/ BeginCompute(p, r) \/ BeginApprove(p, r)
         \/ BeginMarkPaid(p, r) \/ BeginCancelRun(p, r) \/ BeginRevert(p, r)
         \/ BeginRerun(p, r) \/ BeginDeleteRun(p, r)
  PROVE  RunInv'
<1>1. PICK n : n = req'[p]
  OBVIOUS
<1>2. TypeInv /\ The = req[p] /\ The' = n
  BY <1>1, TheHandler DEF RunInv
<1>3. /\ req[p] = Idle /\ runs' = runs /\ slips' = slips
      /\ n.op \in RunOps /\ n.at \in FirstPlace[n.op] /\ n.run = r /\ NoLinesYet(n)
      /\ runs[r] \in Found[n.op]
      /\ n.op \in {"revertToDraft", "rerunRun"} /\ n.at = "write" => runs[r] \in {"draft", "cancelled"}
  BY <1>1, <1>2, BeginIs DEF Tables
<1>4. SlipRuns(Idle, runs, slips) /\ OneEach(slips)
  BY <1>2, <1>3 DEF RunInv
<1>5. \A s \in slips : runs[s.run] \in {"computed", "approved", "paid"}
  BY <1>4, AtRest DEF SlipRuns
<1>6. PlaceOps(n) /\ FoundStill(n, runs) /\ Fresh(n, slips)
  BY <1>3 DEF PlaceOps, FoundStill, Fresh, FirstPlace, RunOps, NoLinesYet
<1>7. SlipRuns(n, runs, slips) /\ Undone(n, slips)
  BY <1>3, <1>5 DEF SlipRuns, Undone, FirstPlace
<1> QED BY <1>2, <1>3, <1>4, <1>6, <1>7, RunInvStep

LEMMA InsertRunKeepsRuns ==
  ASSUME Alone, RunInv, TypeInv', NEW p \in Procs, InsertRun(p)
  PROVE  RunInv'
<1> DEFINE h == req[p]
<1>1. TypeInv /\ The = h /\ h \in Handler /\ The' = Idle
  BY TheHandler, RespondIs DEF RunInv, InsertRun
<1>2. h.op = "createRun" /\ h.run \in Runs /\ runs[h.run] = "absent"
  BY <1>1 DEF InsertRun, RunInv, FoundStill, Found, RunOps, Handler, WellPlaced
<1>3. slips' = slips /\ (runs' = runs \/ runs' = [runs EXCEPT ![h.run] = "draft"])
  BY DEF InsertRun
<1>4. \A s \in slips : runs[s.run] \in {"computed", "approved", "paid"}
  BY <1>1, <1>2 DEF RunInv, SlipRuns, Computing
<1>5. PICK n : n = Idle
  OBVIOUS
<1>6. \A s \in slips : s.run # h.run /\ runs'[s.run] = runs[s.run]
  <2>1. ASSUME NEW s \in slips PROVE s.run # h.run /\ runs'[s.run] = runs[s.run]
    <3>1. s.run \in Runs /\ runs \in [Runs -> RunStatus]
      BY <1>1 DEF TypeInv, TypeOK, Payslip
    <3>2. s.run # h.run
      BY <1>2, <1>4
    <3> QED BY <1>3, <3>1, <3>2
  <2> QED BY <2>1
<1>7. SlipRuns(n, runs', slips) /\ OneEach(slips)
  BY <1>4, <1>6 DEF RunInv, SlipRuns
<1> QED BY <1>1, <1>3, <1>5, <1>7, AtRest, RunInvStep

LEMMA WipeKeepsRuns ==
  ASSUME Alone, RunInv, TypeInv', NEW p \in Procs, WipeSlips(p)
  PROVE  RunInv'
<1>1. PICK h, n : h = req[p] /\ n = req'[p]
  OBVIOUS
<1>2. TypeInv /\ The = h /\ The' = n
  BY <1>1, TheHandler DEF RunInv
<1>3. /\ h.at = "wipe" \/ (h.at = "restore" /\ h.debits = {} /\ h.refunds = {})
      /\ slips' = slips \ SlipsOf(h.run) /\ runs' = runs
      /\ n.op = h.op /\ n.run = h.run /\ n.debits = h.debits /\ n.refunds = h.refunds
      /\ n.at = "write" \/ (n.at = "employees" /\ h.op = "computePayroll")
  BY <1>1, <1>2, WipeIs
<1>4. PlaceOps(h) /\ FoundStill(h, runs) /\ SlipRuns(h, runs, slips) /\ OneEach(slips)
  BY <1>2 DEF RunInv
<1>5. \A s \in slips' : s \in slips /\ s.run # h.run
  BY <1>3 DEF SlipsOf
<1>6. PlaceOps(n) /\ FoundStill(n, runs)
  BY <1>3, <1>4 DEF PlaceOps, FoundStill
<1>7. SlipRuns(n, runs, slips') /\ Undone(n, slips') /\ Fresh(n, slips') /\ OneEach(slips')
  BY <1>3, <1>4, <1>5 DEF SlipRuns, Undone, Fresh, OneEach, Computing
<1> QED BY <1>2, <1>3, <1>6, <1>7, RunInvStep

LEMMA EmployeeKeepsRuns ==
  ASSUME Alone, RunInv, TypeInv', NEW p \in Procs, NEW e, SkipEmployee(p, e) \/ ReadLoans(p, e)
  PROVE  RunInv'
<1>1. PICK h, n : h = req[p] /\ n = req'[p]
  OBVIOUS
<1>2. TypeInv /\ The = h /\ The' = n /\ PlaceOps(h) /\ Fresh(h, slips)
  BY <1>1, TheHandler DEF RunInv
<1>3. CASE SkipEmployee(p, e)
  <2>1. h.at = "employees" /\ runs' = runs /\ slips' = slips /\ EmployeeDone(p, e)
    BY <1>1, <1>3 DEF SkipEmployee
  <2>2. /\ n.op = h.op /\ n.run = h.run /\ n.debits = {} /\ n.refunds = {} /\ n.left = h.left \ {e}
        /\ n.at \in {"employees", "write"}
    BY <1>1, <1>2, <2>1, DoneIs
  <2>3. PlaceOps(n) /\ Fresh(n, slips) /\ \A r : Computing(h, r) => Computing(n, r)
    BY <1>2, <2>1, <2>2 DEF PlaceOps, Fresh, Computing
  <2>4. n.op = "computePayroll"
    BY <1>2, <2>1, <2>2 DEF PlaceOps
  <2> QED BY <1>2, <2>1, <2>2, <2>3, <2>4, RunMoves
<1>4. CASE ReadLoans(p, e)
  <2>1. /\ h.at = "employees" /\ e \in h.left /\ runs' = runs /\ slips' = slips
        /\ n.op = h.op /\ n.run = h.run /\ n.at = "debit" /\ n.employee = e /\ n.left = h.left
        /\ n.debits = h.debits /\ n.refunds = h.refunds
    BY <1>1, <1>2, <1>4, ReadLoansIs DEF Tables
  <2>2. PlaceOps(n) /\ Fresh(n, slips) /\ \A r : Computing(h, r) => Computing(n, r)
    BY <1>2, <2>1 DEF PlaceOps, Fresh, Computing
  <2> QED BY <1>2, <2>1, <2>2, RunMoves
<1> QED BY <1>3, <1>4

LEMMA LineKeepsRuns ==
  ASSUME Alone, RunInv, TypeInv', NEW p \in Procs,
         \/ ReadClaims(p)
         \/ \E x : DebitLoan(p, x) \/ RefundClaim(p, x) \/ RestoreLoan(p, x) \/ RestoreClaim(p, x)
  PROVE  RunInv'
<1>1. PICK h, n : h = req[p] /\ n = req'[p]
  OBVIOUS
<1>2. TypeInv /\ The = h /\ The' = n /\ PlaceOps(h) /\ Fresh(h, slips)
  BY <1>1, TheHandler DEF RunInv
<1>3. /\ runs' = runs /\ slips' = slips /\ n.op = h.op /\ n.run = h.run
      /\ \/ h.at = "debit" /\ n.at \in {"debit", "refund"} /\ n.refunds = h.refunds
            /\ n.employee = h.employee /\ n.left = h.left
         \/ h.at = "refund" /\ n.at = "refund" /\ n.employee = h.employee /\ n.left = h.left
         \/ h.at = "restore" /\ n.at = "restore"
  <2>1. CASE ReadClaims(p)
    BY <1>1, <1>2, <2>1, ReadClaimsIs DEF Tables
  <2>2. CASE \E x : DebitLoan(p, x)
    BY <1>1, <1>2, <2>2, DebitIs
  <2>3. CASE \E x : RefundClaim(p, x)
    BY <1>1, <1>2, <2>3, RefundIs
  <2>4. CASE \E x : RestoreLoan(p, x)
    BY <1>1, <1>2, <2>4, RestoreLoanIs
  <2>5. CASE \E x : RestoreClaim(p, x)
    BY <1>1, <1>2, <2>5, RestoreClaimIs
  <2> QED BY <2>1, <2>2, <2>3, <2>4, <2>5
<1>4. PlaceOps(n)
  BY <1>2, <1>3 DEF PlaceOps, RowOps
<1>5. Fresh(n, slips) /\ \A r : Computing(h, r) => Computing(n, r)
  BY <1>2, <1>3, <1>4 DEF Fresh, Computing, PlaceOps
<1>6. n.at = "write" => h.at = "write"
  BY <1>3
<1> QED BY <1>2, <1>3, <1>4, <1>5, <1>6, RunMoves

LEMMA CollectKeepsRuns ==
  ASSUME Alone, RunInv, TypeInv', NEW p \in Procs, CollectLines(p)
  PROVE  RunInv'
<1>1. PICK h, n : h = req[p] /\ n = req'[p]
  OBVIOUS
<1>2. TypeInv /\ The = h /\ The' = n /\ PlaceOps(h)
  BY <1>1, TheHandler DEF RunInv
<1>3. /\ h.at = "collect" /\ runs' = runs /\ slips' = slips
      /\ n.op = h.op /\ n.run = h.run /\ n.at = "restore"
  BY <1>1, <1>2, CollectIs DEF Tables
<1>4. PlaceOps(n) /\ Fresh(n, slips) /\ \A r : ~Computing(h, r)
  BY <1>2, <1>3 DEF PlaceOps, Fresh, Computing, RowOps
<1> QED BY <1>2, <1>3, <1>4, RunMoves

LEMMA MarkKeepsRuns ==
  ASSUME Alone, RunInv, TypeInv', NEW p \in Procs, MarkSlipsPaid(p)
  PROVE  RunInv'
<1>1. PICK h, n : h = req[p] /\ n = req'[p]
  OBVIOUS
<1>2. TypeInv /\ The = h /\ The' = n /\ PlaceOps(h) /\ FoundStill(h, runs)
  BY <1>1, TheHandler DEF RunInv
<1>3. /\ h.at = "slips" /\ runs' = runs /\ n.op = h.op /\ n.run = h.run /\ n.at = "write"
      /\ n.debits = h.debits /\ n.refunds = h.refunds
  BY <1>1, <1>2, MarkIs
<1>4. h.op = "markPaid" /\ FoundStill(n, runs)
  BY <1>2, <1>3 DEF PlaceOps, FoundStill
<1>5. n.debits = {} /\ n.refunds = {}
  BY <1>2, <1>3 DEF PlaceOps
<1>6. PlaceOps(n) /\ Undone(n, slips') /\ Fresh(n, slips')
  BY <1>3, <1>4, <1>5 DEF PlaceOps, Undone, Fresh, RunOps, RowOps
<1>7. \A t \in slips' : \E s \in slips :
        t.run = s.run /\ t.employee = s.employee
        /\ t = IF s.run = req[p].run THEN [s EXCEPT !.status = "paid"] ELSE s
  BY <1>2, MarkedIs
<1>8. SlipRuns(h, runs, slips) /\ OneEach(slips)
  BY <1>2 DEF RunInv
<1>9. SlipRuns(n, runs, slips') /\ OneEach(slips')
  <2>1. SlipRuns(n, runs, slips')
    BY <1>3, <1>4, <1>7, <1>8 DEF SlipRuns, Computing
  <2>2. ASSUME NEW t \in slips', NEW u \in slips', t.run = u.run, t.employee = u.employee
        PROVE  t = u
    BY <1>7, <1>8, <2>2 DEF OneEach
  <2> QED BY <2>1, <2>2 DEF OneEach
<1> QED BY <1>2, <1>3, <1>4, <1>6, <1>9, RunInvStep

LEMMA PayslipKeepsRuns ==
  ASSUME Alone, RunInv, TypeInv', NEW p \in Procs, InsertPayslip(p)
  PROVE  /\ RunInv' /\ EmployeeDone(p, req[p].employee)
         /\ slips' = slips \cup {[run |-> req[p].run, employee |-> req[p].employee,
                                  status |-> "generated", debits |-> req[p].debits,
                                  refunds |-> req[p].refunds]}
<1>1. PICK h, n : h = req[p] /\ n = req'[p]
  OBVIOUS
<1>2. /\ TypeInv /\ The = h /\ The' = n /\ PlaceOps(h) /\ Fresh(h, slips) /\ FoundStill(h, runs)
      /\ SlipRuns(h, runs, slips) /\ OneEach(slips)
  BY <1>1, TheHandler DEF RunInv
<1>3. h.at = "refund" /\ h.op = "computePayroll" /\ runs' = runs
  BY <1>1 DEF InsertPayslip
<1>4. runs[h.run] = "draft" /\ h.employee \in h.left
  BY <1>2, <1>3 DEF FoundStill, Found, Fresh, RunOps
<1>5. \A s \in slips : s.run = h.run => s.employee # h.employee
  BY <1>2, <1>3, <1>4 DEF Fresh
<1>6. PICK slip : slip = [run |-> h.run, employee |-> h.employee, status |-> "generated",
                          debits |-> h.debits, refunds |-> h.refunds]
  OBVIOUS
<1>7. EmployeeDone(p, h.employee) /\ slips' = slips \cup {slip}
  BY <1>1, <1>4, <1>5, <1>6 DEF InsertPayslip, SlipsOf, StoredRun
<1>8. /\ n.op = h.op /\ n.run = h.run /\ n.debits = {} /\ n.refunds = {} /\ n.left = h.left \ {h.employee}
      /\ n.at \in {"employees", "write"}
  BY <1>1, <1>2, <1>7, DoneIs
<1>9. slip.run = h.run /\ slip.employee = h.employee
  BY <1>6
<1>10. PlaceOps(n) /\ FoundStill(n, runs) /\ Undone(n, slips')
  BY <1>2, <1>3, <1>8 DEF PlaceOps, FoundStill, Undone, RowOps
<1>11. SlipRuns(n, runs, slips') /\ Fresh(n, slips') /\ OneEach(slips')
  BY <1>2, <1>3, <1>5, <1>7, <1>8, <1>9 DEF SlipRuns, Fresh, OneEach, Computing
<1>12. RunInv'
  BY <1>2, <1>3, <1>10, <1>11, RunInvStep
<1> QED BY <1>1, <1>6, <1>7, <1>12

LEMMA WriteKeepsRuns ==
  ASSUME Alone, RunInv, TypeInv', NEW p \in Procs, WriteRun(p)
  PROVE  RunInv'
<1>1. PICK h : h = req[p]
  OBVIOUS
<1>2. /\ TypeInv /\ The = h /\ PlaceOps(h) /\ FoundStill(h, runs) /\ Undone(h, slips)
      /\ SlipRuns(h, runs, slips) /\ OneEach(slips) /\ The' = req'[p]
  BY <1>1, TheHandler DEF RunInv
<1>3. /\ h.at = "write" /\ h.op \in RunOps /\ h.op \in DOMAIN Outcome /\ h.run \in Runs
      /\ req'[p] = Idle
      /\ runs' = [runs EXCEPT ![h.run] = Outcome[h.op]]
      /\ slips' = IF h.op = "deleteRun" THEN slips \ SlipsOf(h.run) ELSE slips
  BY <1>1, <1>2, WriteIs
<1>4. \A s \in slips' : s \in slips /\ s.run \in Runs
  BY <1>2, <1>3 DEF TypeInv, TypeOK, Payslip
<1>5. PICK n : n = Idle
  OBVIOUS
<1>6. \A s \in slips : s.run = h.run => Outcome[h.op] \in {"computed", "approved", "paid"}
  BY <1>2, <1>3 DEF Undone, Outcome
<1>7. runs \in [Runs -> RunStatus]
  BY <1>2 DEF TypeInv, TypeOK
<1>8. SlipRuns(n, runs', slips')
  <2> SUFFICES ASSUME NEW s \in slips' PROVE runs'[s.run] \in {"computed", "approved", "paid"}
    BY DEF SlipRuns
  <2>1. CASE s.run = h.run
    BY <1>3, <1>4, <1>6, <1>7, <2>1
  <2>2. CASE s.run # h.run
    BY <1>2, <1>3, <1>4, <1>7, <2>2 DEF SlipRuns, Computing
  <2> QED BY <2>1, <2>2
<1>9. OneEach(slips')
  BY <1>2, <1>4 DEF OneEach
<1> QED BY <1>2, <1>3, <1>5, <1>8, <1>9, AtRest, RunInvStep

LEMMA RestKeepsRuns ==
  ASSUME Alone, RunInv, TypeInv', "computePayroll" \notin CrashOps, NEW p \in Procs,
         Crash(p) \/ RowStep(p)
  PROVE  RunInv'
<1>1. PICK h, n : h = req[p] /\ n = req'[p]
  OBVIOUS
<1>2. TypeInv /\ The = h /\ The' = n /\ PlaceOps(h)
  BY <1>1, TheHandler DEF RunInv
<1>3. CASE Crash(p)
  <2>1. h.op # "computePayroll" /\ n = Idle /\ runs' = runs /\ slips' = slips
    BY <1>1, <1>2, <1>3, RespondIs, SMTT(40) DEF Crash
  <2> QED BY <1>2, <2>1, RunResponds
<1>4. CASE \/ \E d \in req[p].owed : \/ WritePayment(p, d)
                                     \/ \E emi \in Instalments : WriteLoanUpdate(p, d, emi)
           \/ \E f \in req[p].due : WriteClaim(p, f)
  <2>1. h.op # "computePayroll" /\ n = Idle /\ runs' = runs /\ slips' = slips
    BY <1>1, <1>2, <1>4, RespondIs DEF WritePayment, WriteLoanUpdate, WriteClaim
  <2> QED BY <1>2, <2>1, RunResponds
<1>5. CASE \/ \E l \in Loans, payment \in Payments : BeginRecordPayment(p, l, payment)
           \/ \E l \in Loans, principal \in Principals : BeginUpdateLoan(p, l, principal)
           \/ \E op \in Ops, c \in Claims, amount \in Expenses : BeginClaim(p, op, c, amount)
  <2>1. /\ h = Idle /\ runs' = runs /\ slips' = slips /\ n.op \in RowOps /\ n.at = "write"
        /\ n.debits = {} /\ n.refunds = {}
    BY <1>1, <1>2, <1>5, RowBeginIs DEF Tables
  <2>2. SlipRuns(h, runs, slips) /\ OneEach(slips)
    BY <1>2 DEF RunInv
  <2>3. PlaceOps(n) /\ FoundStill(n, runs) /\ Undone(n, slips) /\ Fresh(n, slips)
    BY <2>1 DEF PlaceOps, FoundStill, Undone, Fresh, RowOps, RunOps
  <2>4. SlipRuns(n, runs, slips)
    BY <2>1, <2>2, AtRest DEF SlipRuns
  <2> QED BY <1>2, <2>1, <2>2, <2>3, <2>4, RunInvStep
<1> QED BY <1>3, <1>4, <1>5 DEF RowStep

LEMMA StillKeepsRuns ==
  ASSUME RunInv, TypeInv', UNCHANGED <<runs, slips, req>>
  PROVE  RunInv'
<1>1. The' = The
  BY DEF The
<1> QED BY <1>1 DEF RunInv, PlaceOps, FoundStill, SlipRuns, Undone, Fresh, OneEach, Computing

LEMMA RunInvNext ==
  ASSUME Alone, "computePayroll" \notin CrashOps, RunInv, [Next]_vars
  PROVE  RunInv'
<1>1. TypeInv'
  BY TypeInvNext DEF RunInv
<1>2. CASE UNCHANGED vars \/ Atomic
  <2>1. UNCHANGED <<runs, slips, req>>
    BY <1>2 DEF vars, Atomic, CreateLoan, CancelLoan, DeleteLoan, SubmitClaim, PayClaim, RemoveClaim
  <2> QED BY <1>1, <2>1, StillKeepsRuns
<1>3. ASSUME NEW p \in Procs, RunStep(p) PROVE RunInv'
  BY <1>1, <1>3, BeginKeepsRuns, InsertRunKeepsRuns, WipeKeepsRuns, EmployeeKeepsRuns, LineKeepsRuns,
     CollectKeepsRuns, MarkKeepsRuns, PayslipKeepsRuns, WriteKeepsRuns, RestKeepsRuns DEF RunStep
<1>4. ASSUME NEW p \in Procs, RowStep(p) PROVE RunInv'
  BY <1>1, <1>4, RestKeepsRuns
<1> QED BY <1>2, <1>3, <1>4 DEF Next

LEMMA RunInvInit == ASSUME Init PROVE RunInv
<1>1. The = Idle
  <2>1. Procs # {} => (CHOOSE p \in Procs : TRUE) \in Procs
    OBVIOUS
  <2> QED BY <2>1 DEF Init, The
<1>2. SlipRuns(Idle, runs, slips) /\ OneEach(slips)
  BY DEF Init, SlipRuns, OneEach
<1>3. TypeInv
  BY TypeInvInit
<1>4. PlaceOps(Idle) /\ FoundStill(Idle, runs) /\ Undone(Idle, slips) /\ Fresh(Idle, slips)
  BY AtRest
<1> QED BY <1>1, <1>2, <1>3, <1>4 DEF RunInv

-----------------------------------------------------------------------------
(* The payslips of a paid run are paid *)

\* The payslips left, of the runs left as they were.
LEMMA PaidStays ==
  ASSUME NEW h, NEW n, PaidSlips(h, runs, slips), slips' \subseteq slips,
         \A s \in slips' : runs'[s.run] = runs[s.run],
         h.op = "markPaid" => h.at # "write", n.op = "markPaid" => n.at # "write"
  PROVE  PaidSlips(n, runs', slips')
BY DEF PaidSlips

LEMMA PaidInvNext ==
  ASSUME Alone, "computePayroll" \notin CrashOps, "markPaid" \notin CrashOps, PaidInv, [Next]_vars
  PROVE  PaidInv'
<1>a. RunInv /\ RunInv' /\ TypeInv
  BY RunInvNext DEF PaidInv, RunInv
<1>b. SUFFICES ASSUME NEW p \in Procs, RunStep(p) \/ RowStep(p) PROVE PaidSlips(The', runs', slips')
  <2>1. CASE UNCHANGED vars \/ Atomic
    <3>1. UNCHANGED <<runs, slips, req>>
      BY <2>1 DEF vars, Atomic, CreateLoan, CancelLoan, DeleteLoan, SubmitClaim, PayClaim, RemoveClaim
    <3>2. The' = The
      BY <3>1 DEF The
    <3> QED BY <1>a, <3>1, <3>2 DEF PaidInv, PaidSlips
  <2> QED BY <1>a, <2>1 DEF Next, PaidInv
<1>1. PICK h, n : h = req[p] /\ n = req'[p]
  OBVIOUS
<1>2. /\ The = h /\ The' = n /\ PlaceOps(h) /\ FoundStill(h, runs) /\ SlipRuns(h, runs, slips)
      /\ Undone(h, slips) /\ PaidSlips(h, runs, slips)
  BY <1>1, <1>a, TheHandler DEF RunInv, PaidInv
<1> SUFFICES PaidSlips(n, runs', slips')
  BY <1>2
<1>3. \A s \in slips : s.run \in Runs
  BY <1>a DEF TypeInv, TypeOK, Payslip
<1>4. ASSUME NEW r \in Runs,
             BeginCreateRun(p, r) \/ BeginCompute(p, r) \/ BeginApprove(p, r)
             \/ BeginMarkPaid(p, r) \/ BeginCancelRun(p, r) \/ BeginRevert(p, r)
             \/ BeginRerun(p, r) \/ BeginDeleteRun(p, r)
      PROVE  PaidSlips(n, runs', slips')
  <2>1. /\ h = Idle /\ runs' = runs /\ slips' = slips
        /\ n.op \in RunOps /\ n.at \in FirstPlace[n.op]
    BY <1>1, <1>a, <1>4, BeginIs DEF Tables
  <2>2. n.op = "markPaid" => n.at # "write"
    BY <2>1 DEF FirstPlace
  <2> QED BY <1>2, <2>1, <2>2, IdleIs, PaidStays
<1>5. CASE InsertRun(p)
  <2>1. h.op = "createRun" /\ h.run \in Runs /\ runs[h.run] = "absent"
    BY <1>1, <1>2, <1>5, <1>a DEF InsertRun, FoundStill, Found, RunOps, TypeInv, Handler, WellPlaced
  <2>2. slips' = slips /\ (runs' = runs \/ runs' = [runs EXCEPT ![h.run] = "draft"]) /\ n = Idle
    BY <1>1, <1>5, <1>a, RespondIs DEF InsertRun
  <2>3. \A s \in slips : s.run # h.run
    BY <1>2, <2>1 DEF SlipRuns, Computing
  <2>4. \A s \in slips : runs'[s.run] = runs[s.run]
    BY <1>3, <1>a, <2>2, <2>3 DEF TypeInv, TypeOK
  <2> QED BY <1>2, <2>1, <2>2, <2>4, IdleIs, PaidStays
<1>6. CASE WipeSlips(p)
  <2>1. h.at \in {"wipe", "restore"} /\ slips' \subseteq slips /\ runs' = runs /\ n.op = h.op
    BY <1>1, <1>6, <1>a, WipeIs
  <2> QED BY <1>2, <2>1, PaidStays DEF PlaceOps
<1>7. CASE MarkSlipsPaid(p)
  <2>1. h.at = "slips" /\ runs' = runs /\ n.op = h.op /\ n.run = h.run /\ n.at = "write"
    BY <1>1, <1>7, <1>a, MarkIs
  <2>2. h.op = "markPaid" /\ runs[h.run] = "approved"
    BY <1>2, <2>1 DEF PlaceOps, FoundStill, Found, RunOps
  <2>3. \A t \in slips' : \E s \in slips :
           t.run = s.run /\ t.status = IF s.run = req[p].run THEN "paid" ELSE s.status
    BY <1>7, <1>a, MarkedIs
  <2>4. ASSUME NEW t \in slips'
        PROVE  t.status = "paid" <=> runs[t.run] = "paid" \/ h.run = t.run
    <3>1. PICK s \in slips : t.run = s.run /\ t.status = IF s.run = h.run THEN "paid" ELSE s.status
      BY <1>1, <2>3
    <3>2. s.status = "paid" <=> runs[s.run] = "paid"
      BY <1>2, <2>1 DEF PaidSlips
    <3> QED BY <2>2, <3>1, <3>2
  <2>5. n.op = "markPaid" /\ n.run = h.run /\ n.at = "write" /\ runs' = runs
    BY <2>1, <2>2
  <2> QED BY <2>4, <2>5 DEF PaidSlips
<1>8. CASE CollectLines(p)
  <2>1. h.at = "collect" /\ runs' = runs /\ slips' = slips /\ n.at = "restore"
    BY <1>1, <1>8, <1>a, CollectIs DEF Tables
  <2> QED BY <1>2, <2>1, PaidStays
<1>9. CASE WriteRun(p)
  <2>1. /\ h.at = "write" /\ h.op \in RunOps /\ h.op \in DOMAIN Outcome /\ h.run \in Runs /\ n = Idle
        /\ runs' = [runs EXCEPT ![h.run] = Outcome[h.op]] /\ slips' \subseteq slips
    BY <1>1, <1>2, <1>9, <1>a, WriteIs
  <2>2. runs \in [Runs -> RunStatus]
    BY <1>a DEF TypeInv, TypeOK
  <2>i. n.op # "markPaid"
    BY <2>1, IdleIs
  <2> SUFFICES ASSUME NEW s \in slips' PROVE s.status = "paid" <=> runs'[s.run] = "paid"
    BY <2>i DEF PaidSlips
  <2>3. s.run \in Runs /\ (s.status = "paid" <=> runs[s.run] = "paid" \/ (h.op = "markPaid" /\ h.run = s.run))
    BY <1>2, <1>3, <2>1 DEF PaidSlips
  <2>4. CASE s.run # h.run
    BY <2>1, <2>2, <2>3, <2>4
  <2>5. CASE s.run = h.run
    <3>1. h.op \in {"computePayroll", "approveRun", "markPaid"} /\ runs[h.run] \in {"draft", "computed", "approved"}
      BY <1>2, <2>1, <2>5 DEF Undone, FoundStill, Found, Outcome
    <3>2. runs'[s.run] = Outcome[h.op]
      BY <2>1, <2>2, <2>5
    <3> QED BY <2>3, <2>5, <3>1, <3>2 DEF Outcome
  <2> QED BY <2>4, <2>5
<1>10. ASSUME NEW e, SkipEmployee(p, e) \/ ReadLoans(p, e) PROVE PaidSlips(n, runs', slips')
  <2>1. h.at = "employees" /\ runs' = runs /\ slips' = slips
    BY <1>1, <1>10 DEF SkipEmployee, ReadLoans
  <2>2. n.op = h.op
    BY <1>1, <1>10, <1>a, DoneIs, ReadLoansIs DEF SkipEmployee
  <2> QED BY <1>2, <2>1, <2>2, PaidStays DEF PlaceOps
<1>11. CASE \/ ReadClaims(p)
            \/ \E x : DebitLoan(p, x) \/ RefundClaim(p, x) \/ RestoreLoan(p, x) \/ RestoreClaim(p, x)
  <2>1. h.at # "write" /\ n.at # "write" /\ runs' = runs /\ slips' = slips
    BY <1>1, <1>11, <1>a, ReadClaimsIs, DebitIs, RefundIs, RestoreLoanIs, RestoreClaimIs DEF Tables
  <2> QED BY <1>2, <2>1, PaidStays
<1>12. CASE InsertPayslip(p)
  <2>1. PICK slip : slip = [run |-> h.run, employee |-> h.employee, status |-> "generated",
                            debits |-> h.debits, refunds |-> h.refunds]
    OBVIOUS
  <2>2. /\ EmployeeDone(p, h.employee) /\ slips' = slips \cup {slip} /\ runs' = runs
        /\ h.at = "refund" /\ h.op = "computePayroll"
    BY <1>1, <1>12, <1>a, <2>1, PayslipKeepsRuns DEF InsertPayslip, RunInv
  <2>3. n.op = "computePayroll" /\ runs[h.run] = "draft" /\ slip.run = h.run /\ slip.status = "generated"
    BY <1>1, <1>2, <1>a, <2>1, <2>2, DoneIs DEF FoundStill, Found, RunOps
  <2> QED BY <1>2, <2>2, <2>3 DEF PaidSlips
<1>13. CASE Crash(p) \/ RowStep(p)
  <2>1. runs' = runs /\ slips' = slips
    BY <1>13, Zenon DEF Crash, RowStep, BeginRecordPayment, BeginUpdateLoan, WritePayment,
      WriteLoanUpdate, BeginClaim, WriteClaim
  <2>2. CASE Crash(p)
    BY <1>1, <1>2, <1>a, <2>1, <2>2, IdleIs, RespondIs, PaidStays, SMTT(40) DEF Crash
  <2>3. CASE \/ \E d \in req[p].owed : \/ WritePayment(p, d)
                                       \/ \E emi \in Instalments : WriteLoanUpdate(p, d, emi)
             \/ \E f \in req[p].due : WriteClaim(p, f)
    BY <1>1, <1>2, <1>a, <2>1, <2>3, IdleIs, RespondIs, PaidStays DEF WritePayment, WriteLoanUpdate, WriteClaim
  <2>4. CASE \/ \E l \in Loans, payment \in Payments : BeginRecordPayment(p, l, payment)
             \/ \E l \in Loans, principal \in Principals : BeginUpdateLoan(p, l, principal)
             \/ \E op \in Ops, c \in Claims, amount \in Expenses : BeginClaim(p, op, c, amount)
    <3>1. h = Idle /\ n.op \in RowOps
      BY <1>1, <1>a, <2>4, RowBeginIs
    <3> QED BY <1>2, <2>1, <3>1, IdleIs, PaidStays DEF RowOps
  <2> QED BY <1>13, <2>2, <2>3, <2>4 DEF RowStep
<1> QED
  BY <1>b, <1>4, <1>5, <1>6, <1>7, <1>8, <1>9, <1>10, <1>11, <1>12, <1>13 DEF RunStep

LEMMA QuietIsIdle == Quiet => The = Idle
<1>1. Procs # {} => (CHOOSE p \in Procs : TRUE) \in Procs
  OBVIOUS
<1> QED BY <1>1 DEF Quiet, The

\* Requests one after the other, none of computePayroll and markPaid failing half
\* way: between requests a run that is not computed has no payslips, and those of
\* a paid run, and only those, are marked paid.
THEOREM SlipsAreOfTheirRun ==
  ASSUME Alone, "computePayroll" \notin CrashOps, "markPaid" \notin CrashOps
  PROVE  Spec => []SlipsFollowRun
<1>1. Init => PaidInv
  BY RunInvInit DEF PaidInv, PaidSlips, Init
<1>2. PaidInv /\ [Next]_vars => PaidInv'
  BY PaidInvNext
<1>3. PaidInv => SlipsFollowRun
  BY QuietIsIdle, AtRest, IdleIs DEF PaidInv, RunInv, SlipRuns, PaidSlips, SlipsFollowRun
<1> QED BY <1>1, <1>2, <1>3, PTL DEF Spec

-----------------------------------------------------------------------------
(* A claim is on one payslip, with its amount *)

LEMMA LineTypes ==
  ASSUME TypeInv
  PROVE  /\ \A s \in slips : /\ s.run \in Runs /\ s.employee \in Employees
                             /\ \A f \in s.refunds : f \in Refund /\ f.claim \in Claims
                             /\ \A d \in s.debits : d \in Debit /\ d.loan \in Loans
         /\ \A p \in Procs : /\ \A f \in req[p].due \cup req[p].refunds : f \in Refund /\ f.claim \in Claims
                             /\ \A d \in req[p].owed \cup req[p].debits : d \in Debit /\ d.loan \in Loans
BY DEF TypeInv, TypeOK, Payslip, Request, Refund, Debit

\* What a step may do to a claim that is on a payslip, or about to be.
Holds(row, new) ==
  row.status # "absent" => /\ new.status # "absent" /\ new.amount = row.amount
                           /\ Closed(row) => Closed(new)

LEMMA SlipsStillShow ==
  ASSUME TypeInv, NEW h, NEW n, ShownOnce(slips), SlipsShow(h, slips, claims), slips' \subseteq slips,
         \A c \in Claims : Holds(claims[c], claims'[c]),
         \A s \in slips' : Restoring(h, s.run) => Restoring(n, s.run)
  PROVE  ShownOnce(slips') /\ SlipsShow(n, slips', claims')
<1>1. ShownOnce(slips')
  BY DEF ShownOnce
<1>2. ASSUME NEW s \in slips', NEW f \in s.refunds
      PROVE  Shows(f, claims') /\ (Closed(claims'[f.claim]) \/ Restoring(n, s.run))
  <2>1. s \in slips /\ f.claim \in Claims
    BY LineTypes
  <2>2. Shows(f, claims) /\ (Closed(claims[f.claim]) \/ Restoring(h, s.run))
    BY <2>1 DEF SlipsShow
  <2>3. Holds(claims[f.claim], claims'[f.claim])
    BY <2>1
  <2> QED BY <2>2, <2>3 DEF Holds, Shows
<1> QED BY <1>1, <1>2 DEF SlipsShow

\* The handler does not build a payslip, and takes back no line it did not before.
LEMMA ClaimsStay ==
  ASSUME TypeInv, NEW h, NEW n, ClaimsRight(h, slips, claims), slips' \subseteq slips,
         \A c \in Claims : Holds(claims[c], claims'[c]),
         \A s \in slips' : Restoring(h, s.run) => Restoring(n, s.run),
         n.at # "refund", n.op \notin ClaimOps,
         n.at = "restore" => /\ h.at = "restore" /\ n.run = h.run
                             /\ n.refunds \subseteq h.refunds /\ slips' = slips
  PROVE  ClaimsRight(n, slips', claims')
<1>1. ShownOnce(slips') /\ SlipsShow(n, slips', claims')
  BY SlipsStillShow DEF ClaimsRight
<1>2. LinesShow(n, slips', claims') /\ EditsUnclaimed(n, slips')
  BY DEF LinesShow, EditsUnclaimed
<1>3. FromSlips(n, slips')
  BY DEF ClaimsRight, FromSlips
<1> QED BY <1>1, <1>2, <1>3 DEF ClaimsRight

LEMMA SameHolds == claims' = claims => \A c \in Claims : Holds(claims[c], claims'[c])
BY DEF Holds

\* A claim that is neither paid nor removed is on no payslip, unless its run is
\* being taken back.
LEMMA OpenIsUnclaimed ==
  ASSUME NEW h, SlipsShow(h, slips, claims), h.at # "restore", NEW c, ~Closed(claims[c])
  PROVE  Unclaimed(slips, c)
BY DEF SlipsShow, Restoring, Unclaimed

\* The endpoints of one row of reimbursements that are one statement.
LEMMA AtomicKeepsClaims ==
  ASSUME TypeInv, NEW h, ClaimsRight(h, slips, claims), h = The, Atomic,
         \A f \in h.due \cup h.refunds : f.claim \in Claims
  PROVE  ClaimsRight(h, slips', claims')
<1>1. slips' = slips
  BY DEF Atomic, CreateLoan, CancelLoan, DeleteLoan, SubmitClaim, PayClaim, RemoveClaim
<1>2. ASSUME NEW k \in Claims PROVE Holds(claims[k], claims'[k])
  <2>1. claims \in [Claims -> Claim]
    BY DEF TypeInv, TypeOK
  <2>2. CASE claims' = claims
    BY <2>2, SameHolds
  <2>3. ASSUME NEW c \in Claims, NEW amount, SubmitClaim(c, amount)
        PROVE  Holds(claims[k], claims'[k])
    BY <2>1, <2>3 DEF SubmitClaim, Holds
  <2>4. ASSUME NEW c \in Claims, NEW row, claims' = [claims EXCEPT ![c] = row], Closed(row),
               row.amount = claims[c].amount
        PROVE  Holds(claims[k], claims'[k])
    BY <2>1, <2>4 DEF Holds, Closed
  <2>5. ASSUME NEW c \in Claims, NEW period, PayClaim(c, period)
        PROVE  Holds(claims[k], claims'[k])
    <3>1. PICK row : row = [claims[c] EXCEPT !.status = "paid", !.paidIn = period]
      OBVIOUS
    <3>2. Closed(row) /\ row.amount = claims[c].amount
      BY <2>1, <3>1 DEF Closed, Claim
    <3>3. claims' = [claims EXCEPT ![c] = row]
      BY <2>5, <3>1 DEF PayClaim, SetClaim
    <3> QED BY <2>4, <3>2, <3>3
  <2>6. ASSUME NEW c \in Claims, RemoveClaim(c)
        PROVE  Holds(claims[k], claims'[k])
    <3>1. PICK row : row = [claims[c] EXCEPT !.status = "deleted"]
      OBVIOUS
    <3>2. Closed(row) /\ row.amount = claims[c].amount
      BY <2>1, <3>1 DEF Closed, Claim
    <3>3. claims' = [claims EXCEPT ![c] = row]
      BY <2>6, <3>1 DEF RemoveClaim, SetClaim
    <3> QED BY <2>4, <3>2, <3>3
  <2> QED BY <2>2, <2>3, <2>5, <2>6 DEF Atomic, CreateLoan, CancelLoan, DeleteLoan
<1>3. ShownOnce(slips) /\ SlipsShow(h, slips, claims')
  BY <1>1, <1>2, SlipsStillShow DEF ClaimsRight
<1>4. LinesShow(h, slips, claims')
  <2> SUFFICES ASSUME h.at = "refund" PROVE LinesShow(h, slips, claims')
    BY DEF LinesShow
  <2>1. LinesShow(h, slips, claims)
    BY DEF ClaimsRight
  <2>2. \A f \in h.due \cup h.refunds : Holds(claims[f.claim], claims'[f.claim])
    BY <1>2
  <2>3. \A f \in h.due \cup h.refunds : Shows(f, claims')
    BY <2>1, <2>2 DEF LinesShow, Shows, Holds
  <2>4. \A f \in h.refunds : Closed(claims'[f.claim])
    BY <2>1, <2>2 DEF LinesShow, Shows, Holds
  <2> QED BY <2>1, <2>3, <2>4 DEF LinesShow
<1> QED BY <1>1, <1>3, <1>4 DEF ClaimsRight, FromSlips, EditsUnclaimed

LEMMA BeginKeepsClaims ==
  ASSUME TypeInv, NEW p \in Procs, NEW h, h = req[p], NEW n, n = req'[p], NEW r \in Runs,
         ClaimsRight(h, slips, claims),
         BeginCreateRun(p, r) \/ BeginCompute(p, r) \/ BeginApprove(p, r)
         \/ BeginMarkPaid(p, r) \/ BeginCancelRun(p, r) \/ BeginRevert(p, r)
         \/ BeginRerun(p, r) \/ BeginDeleteRun(p, r)
  PROVE  ClaimsRight(n, slips', claims')
<1>1. /\ h = Idle /\ slips' = slips /\ claims' = claims
      /\ n.op \in RunOps /\ n.at \in FirstPlace[n.op]
  BY BeginIs DEF Tables
<1>2. \A r0 : ~Restoring(h, r0)
  BY <1>1, IdleIs DEF Restoring
<1>3. n.at # "refund" /\ n.at # "restore" /\ n.op \notin ClaimOps
  BY <1>1 DEF FirstPlace, RunOps, ClaimOps
<1> QED BY <1>1, <1>2, <1>3, SameHolds, ClaimsStay

LEMMA MarkKeepsClaims ==
  ASSUME TypeInv, NEW p \in Procs, NEW h, h = req[p], NEW n, n = req'[p],
         ClaimsRight(h, slips, claims), MarkSlipsPaid(p), PlaceOps(h)
  PROVE  ClaimsRight(n, slips', claims')
<1>1. h.at = "slips" /\ claims' = claims /\ n.op = h.op /\ n.at = "write" /\ h.op = "markPaid"
  BY MarkIs DEF PlaceOps
<1>2. \A t \in slips' : \E s \in slips :
        /\ t.run = s.run /\ t.refunds = s.refunds
        /\ t = IF s.run = req[p].run THEN [s EXCEPT !.status = "paid"] ELSE s
  BY MarkedIs
<1>3. ShownOnce(slips')
  <2>1. ASSUME NEW t \in slips', NEW u \in slips', NEW f \in t.refunds, NEW g \in u.refunds,
               f.claim = g.claim
        PROVE  t = u /\ f = g
    <3>1. PICK s \in slips : /\ t.refunds = s.refunds
                             /\ t = IF s.run = req[p].run THEN [s EXCEPT !.status = "paid"] ELSE s
      BY <1>2
    <3>2. PICK v \in slips : /\ u.refunds = v.refunds
                             /\ u = IF v.run = req[p].run THEN [v EXCEPT !.status = "paid"] ELSE v
      BY <1>2
    <3>3. s = v /\ f = g
      BY <2>1, <3>1, <3>2 DEF ClaimsRight, ShownOnce
    <3> QED BY <3>1, <3>2, <3>3
  <2> QED BY <2>1 DEF ShownOnce
<1>4. SlipsShow(n, slips', claims')
  BY <1>1, <1>2 DEF ClaimsRight, SlipsShow, Restoring
<1> QED BY <1>1, <1>3, <1>4 DEF ClaimsRight, LinesShow, FromSlips, EditsUnclaimed, ClaimOps

LEMMA ReadClaimsKeepsClaims ==
  ASSUME TypeInv, NEW p \in Procs, NEW h, h = req[p], NEW n, n = req'[p],
         ClaimsRight(h, slips, claims), ReadClaims(p), PlaceOps(h)
  PROVE  ClaimsRight(n, slips', claims')
<1>1. /\ h.at = "debit" /\ slips' = slips /\ claims' = claims
      /\ n.op = h.op /\ n.run = h.run /\ n.at = "refund" /\ n.refunds = h.refunds
      /\ n.due = {f \in {ClaimSnapshot(c, Rounded(claims[c].amount)) :
                           c \in {c \in Claims : /\ ClaimantOf[c] = h.employee
                                                 /\ claims[c].status = "approved"}} :
                    f.amount > 0}
  BY ReadClaimsIs DEF Tables
<1>2. n.refunds = {} /\ n.op = "computePayroll"
  BY <1>1 DEF PlaceOps
<1>3. ASSUME NEW f \in n.due
      PROVE  /\ Shows(f, claims) /\ Unclaimed(slips, f.claim)
             /\ f = ClaimSnapshot(f.claim, Rounded(claims[f.claim].amount))
  <2>1. PICK c \in Claims : /\ claims[c].status = "approved"
                            /\ f = ClaimSnapshot(c, Rounded(claims[c].amount))
    BY <1>1
  <2>2. f.claim = c /\ f.status = "approved" /\ f.amount = Rounded(claims[c].amount)
    BY <2>1 DEF ClaimSnapshot
  <2>3. Unclaimed(slips, c)
    BY <1>1, <2>1, OpenIsUnclaimed DEF ClaimsRight, Closed
  <2> QED BY <2>1, <2>2, <2>3 DEF Shows
<1>4. \A f, g \in n.due : f.claim = g.claim => f = g
  BY <1>3
<1>5. LinesShow(n, slips, claims)
  BY <1>2, <1>3, <1>4 DEF LinesShow
<1>6. SlipsShow(n, slips, claims)
  BY <1>1 DEF ClaimsRight, SlipsShow, Restoring
<1> QED BY <1>1, <1>2, <1>5, <1>6 DEF ClaimsRight, FromSlips, EditsUnclaimed, ClaimOps

LEMMA RefundKeepsClaims ==
  ASSUME TypeInv, NEW p \in Procs, NEW h, h = req[p], NEW n, n = req'[p], NEW x,
         ClaimsRight(h, slips, claims), RefundClaim(p, x), PlaceOps(h)
  PROVE  /\ ClaimsRight(n, slips', claims') /\ x.claim \in Claims
         /\ claims' = [claims EXCEPT ![x.claim] =
              IF Stored(@) THEN [@ EXCEPT !.status = "paid", !.paidIn = PeriodOf[h.run]] ELSE @]
<1>1. /\ n.op = h.op /\ n.run = h.run /\ n.at = h.at
      /\ h.at = "refund" /\ x \in h.due /\ slips' = slips
      /\ n.due = h.due \ {x} /\ n.refunds = h.refunds \cup {x}
  BY RefundIs
<1>2. x.claim \in Claims /\ \A f \in h.due \cup h.refunds : f.claim \in Claims
  BY <1>1, LineTypes
<1>3. claims \in [Claims -> Claim]
  BY DEF TypeInv, TypeOK
<1>4. PICK row : row = [claims[x.claim] EXCEPT !.status = "paid", !.paidIn = PeriodOf[h.run]]
  OBVIOUS
<1>5. Closed(row) /\ row.amount = claims[x.claim].amount
  BY <1>2, <1>3, <1>4 DEF Closed, Claim
<1>6. claims' = IF Stored(claims[x.claim]) THEN [claims EXCEPT ![x.claim] = row] ELSE claims
  BY <1>4 DEF RefundClaim, SetClaim
<1>7. LinesShow(h, slips, claims) /\ ShownOnce(slips) /\ SlipsShow(h, slips, claims)
  BY DEF ClaimsRight
<1>8. claims[x.claim].status # "absent"
  BY <1>1, <1>7 DEF LinesShow, Shows
<1>9. \A c \in Claims : Holds(claims[c], claims'[c])
  BY <1>2, <1>3, <1>5, <1>6 DEF Holds, Closed
<1>10. Closed(claims'[x.claim])
  BY <1>2, <1>3, <1>5, <1>6, <1>8 DEF Closed, Stored
<1>11. SlipsShow(n, slips, claims')
  BY <1>1, <1>7, <1>9, SlipsStillShow DEF Restoring
<1>12. LinesShow(n, slips, claims')
  <2>1. n.due \cup n.refunds = h.due \cup h.refunds /\ n.due \cap n.refunds = {}
    BY <1>1, <1>7 DEF LinesShow
  <2>2. \A f \in h.due \cup h.refunds : Holds(claims[f.claim], claims'[f.claim])
    BY <1>2, <1>9
  <2>3. \A f \in h.due \cup h.refunds : Shows(f, claims')
    BY <1>1, <1>7, <2>2 DEF LinesShow, Shows, Holds
  <2>4. \A f \in h.refunds : Closed(claims'[f.claim])
    BY <1>1, <1>7, <2>2 DEF LinesShow, Shows, Holds
  <2> QED BY <1>1, <1>7, <1>10, <2>1, <2>3, <2>4 DEF LinesShow
<1>13. h.op = "computePayroll"
  BY <1>1 DEF PlaceOps
<1>14. ClaimsRight(n, slips', claims')
  BY <1>1, <1>7, <1>11, <1>12, <1>13 DEF ClaimsRight, FromSlips, EditsUnclaimed, ClaimOps
<1>15. claims' = [claims EXCEPT ![x.claim] = IF Stored(@) THEN row ELSE @]
  BY <1>2, <1>3, <1>6
<1> QED BY <1>2, <1>4, <1>14, <1>15

LEMMA PayslipKeepsClaims ==
  ASSUME TypeInv, NEW p \in Procs, NEW h, h = req[p], NEW n, n = req'[p],
         ClaimsRight(h, slips, claims), InsertPayslip(p)
  PROVE  ClaimsRight(n, slips', claims')
<1>1. h.at = "refund" /\ h.due = {} /\ h.op = "computePayroll" /\ claims' = claims
  BY DEF InsertPayslip
<1>2. \A r : ~Restoring(h, r)
  BY <1>1 DEF Restoring
<1>3. PICK slip : slip = [run |-> h.run, employee |-> h.employee, status |-> "generated",
                          debits |-> h.debits, refunds |-> h.refunds]
  OBVIOUS
<1>4. CASE Respond(p) /\ slips' = slips
  <2>1. n.at = "idle" /\ n.op = "idle"
    BY <1>4, RespondIs, IdleIs
  <2> QED BY <1>1, <1>2, <1>4, <2>1, SameHolds, ClaimsStay DEF ClaimOps
<1>5. CASE EmployeeDone(p, h.employee) /\ slips' = slips \cup {slip}
  <2>1. n.op = "computePayroll" /\ n.at \in {"employees", "write"}
    BY <1>1, <1>5, DoneIs
  <2>2. /\ \A f \in h.refunds : Shows(f, claims) /\ Closed(claims[f.claim]) /\ Unclaimed(slips, f.claim)
        /\ \A f, g \in h.refunds : f.claim = g.claim => f = g
    BY <1>1 DEF ClaimsRight, LinesShow
  <2>3. slip.refunds = h.refunds
    BY <1>3
  <2>4. ShownOnce(slips) /\ SlipsShow(h, slips, claims)
    BY DEF ClaimsRight
  <2>5. ShownOnce(slips')
    <3>1. ASSUME NEW s \in slips', NEW t \in slips', NEW f \in s.refunds, NEW g \in t.refunds,
                 f.claim = g.claim
          PROVE  s = t /\ f = g
      <4>1. CASE s \in slips /\ t \in slips
        BY <2>4, <3>1, <4>1 DEF ShownOnce
      <4>2. CASE s = slip /\ t = slip
        BY <2>2, <2>3, <3>1, <4>2
      <4>3. CASE s = slip /\ t \in slips
        BY <2>2, <2>3, <3>1, <4>3 DEF Unclaimed
      <4>4. CASE s \in slips /\ t = slip
        BY <2>2, <2>3, <3>1, <4>4 DEF Unclaimed
      <4> QED BY <1>5, <4>1, <4>2, <4>3, <4>4
    <3> QED BY <3>1 DEF ShownOnce
  <2>6. SlipsShow(n, slips', claims)
    BY <1>2, <1>5, <2>2, <2>3, <2>4 DEF SlipsShow
  <2> QED BY <1>1, <2>1, <2>5, <2>6 DEF ClaimsRight, LinesShow, FromSlips, EditsUnclaimed, ClaimOps
<1> QED BY <1>3, <1>4, <1>5 DEF InsertPayslip

LEMMA CollectKeepsClaims ==
  ASSUME TypeInv, NEW p \in Procs, NEW h, h = req[p], NEW n, n = req'[p],
         ClaimsRight(h, slips, claims), CollectLines(p), PlaceOps(h)
  PROVE  ClaimsRight(n, slips', claims')
<1>1. /\ h.at = "collect" /\ slips' = slips /\ claims' = claims
      /\ n.op = h.op /\ n.run = h.run /\ n.at = "restore"
      /\ n.refunds = UNION {s.refunds : s \in SlipsOf(h.run)}
  BY CollectIs DEF Tables
<1>2. SlipsShow(n, slips, claims)
  BY <1>1 DEF ClaimsRight, SlipsShow, Restoring
<1>3. FromSlips(n, slips)
  BY <1>1 DEF FromSlips, SlipsOf
<1>4. n.op \notin ClaimOps
  BY <1>1 DEF PlaceOps, ClaimOps
<1> QED BY <1>1, <1>2, <1>3, <1>4 DEF ClaimsRight, LinesShow, EditsUnclaimed

\* A line written back is of a payslip that is being taken back.
LEMMA RestoreKeepsClaims ==
  ASSUME TypeInv, NEW p \in Procs, NEW h, h = req[p], NEW n, n = req'[p], NEW x,
         ClaimsRight(h, slips, claims), RestoreClaim(p, x), PlaceOps(h)
  PROVE  /\ ClaimsRight(n, slips', claims')
         /\ x.claim \in Claims /\ \E s \in slips : s.run = h.run /\ x \in s.refunds
         /\ claims' = [claims EXCEPT ![x.claim] =
              IF Stored(@) THEN [@ EXCEPT !.status = "approved", !.paidIn = x.paidIn] ELSE @]
<1>1. /\ n.op = h.op /\ n.run = h.run /\ n.at = h.at
      /\ h.at = "restore" /\ x \in h.refunds /\ slips' = slips /\ n.refunds = h.refunds \ {x}
  BY RestoreClaimIs
<1>2. /\ FromSlips(h, slips) /\ SlipsShow(h, slips, claims) /\ ShownOnce(slips)
  BY DEF ClaimsRight
<1>3. PICK s \in slips : s.run = h.run /\ x \in s.refunds
  BY <1>1, <1>2 DEF FromSlips
<1>4. x.claim \in Claims /\ claims \in [Claims -> Claim] /\ x.status = "approved"
  BY <1>2, <1>3, LineTypes DEF TypeInv, TypeOK, SlipsShow, Shows
<1>5. PICK row : row = [claims[x.claim] EXCEPT !.status = "approved", !.paidIn = x.paidIn]
  OBVIOUS
<1>6. row.status = "approved" /\ row.amount = claims[x.claim].amount
  BY <1>4, <1>5 DEF Claim
<1>7. claims' = IF Stored(claims[x.claim]) THEN [claims EXCEPT ![x.claim] = row] ELSE claims
  BY <1>4, <1>5 DEF RestoreClaim, SetClaim
<1>8. SlipsShow(n, slips, claims')
  <2>1. ASSUME NEW t \in slips, NEW f \in t.refunds
        PROVE  Shows(f, claims') /\ (Closed(claims'[f.claim]) \/ Restoring(n, t.run))
    <3>1. /\ Shows(f, claims) /\ (Closed(claims[f.claim]) \/ Restoring(h, t.run))
          /\ f.claim \in Claims /\ (Restoring(h, t.run) => Restoring(n, t.run))
      BY <1>1, <1>2, LineTypes DEF SlipsShow, Restoring
    <3>2. CASE f.claim # x.claim
      <4>1. claims'[f.claim] = claims[f.claim]
        BY <1>4, <1>7, <3>1, <3>2
      <4> QED BY <3>1, <4>1 DEF Shows
    <3>3. CASE f.claim = x.claim
      <4>1. Restoring(n, t.run)
        BY <1>1, <1>2, <1>3, <3>3 DEF ShownOnce, Restoring
      <4>2. /\ claims'[f.claim].status # "absent"
            /\ claims'[f.claim].amount = claims[f.claim].amount
        BY <1>4, <1>6, <1>7, <3>1, <3>3 DEF Shows
      <4> QED BY <3>1, <4>1, <4>2 DEF Shows
    <3> QED BY <3>2, <3>3
  <2> QED BY <2>1 DEF SlipsShow
<1>9. FromSlips(n, slips) /\ n.op \notin ClaimOps
  BY <1>1, <1>2 DEF FromSlips, PlaceOps, ClaimOps
<1>10. ClaimsRight(n, slips', claims')
  BY <1>1, <1>2, <1>8, <1>9 DEF ClaimsRight, LinesShow, EditsUnclaimed
<1>11. claims' = [claims EXCEPT ![x.claim] = IF Stored(@) THEN row ELSE @]
  BY <1>4, <1>7
<1> QED BY <1>3, <1>4, <1>5, <1>10, <1>11

LEMMA BeginRowKeepsClaims ==
  ASSUME TypeInv, NEW p \in Procs, NEW h, h = req[p], NEW n, n = req'[p],
         ClaimsRight(h, slips, claims),
         \/ \E l \in Loans, payment \in Payments : BeginRecordPayment(p, l, payment)
         \/ \E l \in Loans, principal \in Principals : BeginUpdateLoan(p, l, principal)
         \/ \E op \in Ops, c \in Claims, amount \in Expenses : BeginClaim(p, op, c, amount)
  PROVE  ClaimsRight(n, slips', claims')
<1>1. /\ h = Idle /\ slips' = slips /\ claims' = claims /\ n.op \in RowOps /\ n.at = "write"
      /\ n.op \in ClaimOps => \E c \in Claims, amount \in Expenses :
           n.due = {ClaimSnapshot(c, amount)} /\ claims[c].status \in {"pending", "approved"}
  BY RowBeginIs DEF Tables
<1>2. SlipsShow(h, slips, claims) /\ h.at # "restore" /\ ShownOnce(slips)
  BY <1>1, IdleIs DEF ClaimsRight
<1>3. SlipsShow(n, slips, claims)
  BY <1>2 DEF SlipsShow, Restoring
<1>4. ASSUME n.op \in ClaimOps, NEW f \in n.due PROVE Unclaimed(slips, f.claim)
  <2>1. PICK c \in Claims, amount \in Expenses :
          n.due = {ClaimSnapshot(c, amount)} /\ claims[c].status \in {"pending", "approved"}
    BY <1>1, <1>4
  <2>2. f.claim = c
    BY <1>4, <2>1 DEF ClaimSnapshot
  <2> QED BY <1>2, <2>1, <2>2, OpenIsUnclaimed DEF Closed
<1> QED BY <1>1, <1>2, <1>3, <1>4 DEF ClaimsRight, LinesShow, FromSlips, EditsUnclaimed

\* A claim is decided, or its amount edited, when it is on no payslip.
LEMMA WriteClaimKeepsClaims ==
  ASSUME TypeInv, NEW p \in Procs, NEW h, h = req[p], NEW n, n = req'[p], NEW x \in h.due,
         ClaimsRight(h, slips, claims), WriteClaim(p, x), PlaceOps(h)
  PROVE  /\ ClaimsRight(n, slips', claims') /\ x.claim \in Claims /\ Unclaimed(slips, x.claim)
         /\ \A c \in Claims : c # x.claim => claims'[c] = claims[c]
         /\ claims'[x.claim].status \in {"approved", "rejected", claims[x.claim].status}
<1>1. h.op \in ClaimOps /\ slips' = slips /\ n = Idle
  BY RespondIs DEF WriteClaim, ClaimOps
<1>2. h.at # "restore" /\ n.at # "refund" /\ n.at # "restore" /\ n.op \notin ClaimOps
  BY <1>1, IdleIs DEF PlaceOps, ClaimOps
<1>3. x.claim \in Claims /\ claims \in [Claims -> Claim]
  BY LineTypes DEF TypeInv, TypeOK
<1>4. Unclaimed(slips, x.claim)
  BY <1>1 DEF ClaimsRight, EditsUnclaimed
<1>5. PICK row : SetClaim(x.claim, row) /\ row.status \in {"approved", "rejected", claims[x.claim].status}
  <2>1. claims[x.claim] \in Claim
    BY <1>3
  <2>2. CASE h.op = "approveClaim"
    <3>1. PICK row : row = [claims[x.claim] EXCEPT !.status = "approved", !.amount = x.amount]
      OBVIOUS
    <3>2. row.status = "approved"
      BY <2>1, <3>1 DEF Claim
    <3>3. SetClaim(x.claim, row)
      BY <2>2, <3>1 DEF WriteClaim
    <3> QED BY <3>2, <3>3
  <2>3. CASE h.op = "rejectClaim"
    <3>1. PICK row : row = [claims[x.claim] EXCEPT !.status = "rejected"]
      OBVIOUS
    <3> QED BY <2>1, <2>3, <3>1 DEF WriteClaim, Claim
  <2>4. CASE h.op = "updateClaim"
    <3>1. PICK row : row = [claims[x.claim] EXCEPT !.amount = x.amount]
      OBVIOUS
    <3> QED BY <2>1, <2>4, <3>1 DEF WriteClaim, Claim
  <2> QED BY <1>1, <2>2, <2>3, <2>4 DEF ClaimOps
<1>6. \A c \in Claims : c # x.claim => claims'[c] = claims[c]
  BY <1>3, <1>5 DEF SetClaim
<1>7. ASSUME NEW s \in slips, NEW f \in s.refunds PROVE claims'[f.claim] = claims[f.claim]
  BY <1>4, <1>6, LineTypes DEF Unclaimed
<1>8. ShownOnce(slips) /\ SlipsShow(n, slips, claims')
  BY <1>2, <1>7 DEF ClaimsRight, SlipsShow, Restoring, Shows
<1>9. claims'[x.claim].status \in {"approved", "rejected", claims[x.claim].status}
  BY <1>3, <1>5 DEF SetClaim
<1> QED BY <1>1, <1>2, <1>3, <1>4, <1>6, <1>8, <1>9 DEF ClaimsRight, LinesShow, FromSlips, EditsUnclaimed

LEMMA ClaimInvNext ==
  ASSUME Alone, "rerunRun" \notin CrashOps, "deleteRun" \notin CrashOps, ClaimInv, [Next]_vars
  PROVE  ClaimInv'
<1>a. TypeInv /\ PlaceOps(The) /\ TypeInv' /\ PlaceOps(The')
  BY TypeInvNext, PlaceNext DEF ClaimInv
<1> SUFFICES ClaimsRight(The', slips', claims')
  BY <1>a DEF ClaimInv
<1>b. CASE UNCHANGED vars
  <2>1. The' = The /\ slips' = slips /\ claims' = claims
    BY <1>b DEF vars, The
  <2> QED BY <2>1 DEF ClaimInv
<1>c. CASE Atomic
  <2>1. The' = The
    <3>1. req' = req
      BY <1>c DEF Atomic, CreateLoan, CancelLoan, DeleteLoan, SubmitClaim, PayClaim, RemoveClaim
    <3> QED BY <3>1 DEF The
  <2>2. \A f \in The.due \cup The.refunds : f.claim \in Claims
    <3>1. CASE Procs = {}
      BY <3>1 DEF The, Idle
    <3>2. CASE Procs # {}
      <4>1. (CHOOSE p \in Procs : TRUE) \in Procs
        BY <3>2
      <4> QED BY <1>a, <3>2, <4>1, LineTypes DEF The
    <3> QED BY <3>1, <3>2
  <2>3. PICK h : h = The
    OBVIOUS
  <2> QED BY <1>a, <1>c, <2>1, <2>2, <2>3, AtomicKeepsClaims DEF ClaimInv
<1>d. SUFFICES ASSUME NEW p \in Procs, RunStep(p) \/ RowStep(p) PROVE ClaimsRight(The', slips', claims')
  BY <1>b, <1>c DEF Next
<1>1. PICK h, n : h = req[p] /\ n = req'[p]
  OBVIOUS
<1>2. The = h /\ The' = n /\ PlaceOps(h) /\ ClaimsRight(h, slips, claims)
  BY <1>1, <1>a, TheHandler DEF ClaimInv
<1> SUFFICES ClaimsRight(n, slips', claims')
  BY <1>2
<1>3. ASSUME claims' = claims, slips' \subseteq slips, n.at # "refund", n.op \notin ClaimOps,
             \A s \in slips' : Restoring(h, s.run) => Restoring(n, s.run),
             n.at = "restore" => /\ h.at = "restore" /\ n.run = h.run
                                 /\ n.refunds \subseteq h.refunds /\ slips' = slips
      PROVE  ClaimsRight(n, slips', claims')
  BY <1>a, <1>2, <1>3, SameHolds, ClaimsStay
<1>4. ASSUME claims' = claims, slips' \subseteq slips, h.at # "restore", n.at # "refund",
             n.at # "restore", n.op \notin ClaimOps
      PROVE  ClaimsRight(n, slips', claims')
  BY <1>3, <1>4 DEF Restoring
<1>5. CASE InsertRun(p) \/ WriteRun(p) \/ Crash(p)
  <2>1. claims' = claims /\ slips' \subseteq slips /\ n = Idle
    BY <1>1, <1>5, <1>a, RespondIs DEF InsertRun, WriteRun, Crash
  <2>2. h.at # "restore"
    BY <1>1, <1>2, <1>5 DEF InsertRun, WriteRun, Crash, PlaceOps
  <2> QED BY <1>4, <2>1, <2>2, IdleIs DEF ClaimOps
<1>6. CASE WipeSlips(p)
  <2>1. /\ h.at \in {"wipe", "restore"}
        /\ slips' = slips \ SlipsOf(h.run) /\ claims' = claims /\ n.op = h.op
        /\ n.at \in {"write", "employees"}
    BY <1>1, <1>6, <1>a, WipeIs
  <2>2. \A s \in slips' : ~Restoring(h, s.run)
    BY <2>1 DEF SlipsOf, Restoring
  <2>3. n.op \notin ClaimOps
    BY <1>2, <2>1 DEF PlaceOps, ClaimOps
  <2> QED BY <1>3, <2>1, <2>2, <2>3
<1>7. ASSUME NEW e, SkipEmployee(p, e) \/ ReadLoans(p, e) PROVE ClaimsRight(n, slips', claims')
  <2>1. h.at = "employees" /\ slips' = slips /\ claims' = claims
    BY <1>1, <1>7 DEF SkipEmployee, ReadLoans
  <2>2. n.op = h.op /\ n.at \in {"employees", "write", "debit"}
    BY <1>1, <1>7, <1>a, DoneIs, ReadLoansIs DEF SkipEmployee
  <2>3. n.op \notin ClaimOps
    BY <1>2, <2>1, <2>2 DEF PlaceOps, ClaimOps
  <2> QED BY <1>4, <2>1, <2>2, <2>3
<1>8. ASSUME NEW x, DebitLoan(p, x) PROVE ClaimsRight(n, slips', claims')
  <2>1. h.at = "debit" /\ n.at = h.at /\ n.op = h.op /\ slips' = slips /\ claims' = claims
    BY <1>1, <1>8, <1>a, DebitIs
  <2>2. n.op \notin ClaimOps
    BY <1>2, <2>1 DEF PlaceOps, ClaimOps
  <2> QED BY <1>4, <2>1, <2>2
<1>9. ASSUME NEW x, RestoreLoan(p, x) PROVE ClaimsRight(n, slips', claims')
  <2>1. /\ h.at = "restore" /\ n.at = h.at /\ n.op = h.op /\ n.run = h.run /\ n.refunds = h.refunds
        /\ slips' = slips /\ claims' = claims
    BY <1>1, <1>9, <1>a, RestoreLoanIs
  <2>2. n.op \notin ClaimOps
    BY <1>2, <2>1, SMTT(40) DEF PlaceOps, ClaimOps
  <2> QED BY <1>3, <2>1, <2>2 DEF Restoring
<1>10. CASE RunStep(p)
  BY <1>10, <1>a, <1>1, <1>2, <1>5, <1>6, <1>7, <1>8, <1>9, BeginKeepsClaims, MarkKeepsClaims,
     ReadClaimsKeepsClaims, RefundKeepsClaims, PayslipKeepsClaims, CollectKeepsClaims, RestoreKeepsClaims
  DEF RunStep
<1>11. ASSUME NEW d \in req[p].owed, WritePayment(p, d) \/ \E emi \in Instalments : WriteLoanUpdate(p, d, emi)
       PROVE  ClaimsRight(n, slips', claims')
  <2>1. claims' = claims /\ slips' = slips /\ n = Idle /\ h.op \in {"recordPayment", "updateLoan"}
    BY <1>1, <1>11, <1>a, RespondIs DEF WritePayment, WriteLoanUpdate
  <2>2. h.at # "restore"
    BY <1>2, <2>1 DEF PlaceOps
  <2> QED BY <1>4, <2>1, <2>2, IdleIs DEF ClaimOps
<1>12. ASSUME NEW f \in req[p].due, WriteClaim(p, f) PROVE ClaimsRight(n, slips', claims')
  BY <1>12, <1>a, <1>1, <1>2, WriteClaimKeepsClaims
<1>13. CASE \/ \E l \in Loans, payment \in Payments : BeginRecordPayment(p, l, payment)
            \/ \E l \in Loans, principal \in Principals : BeginUpdateLoan(p, l, principal)
            \/ \E op \in Ops, c \in Claims, amount \in Expenses : BeginClaim(p, op, c, amount)
  BY <1>13, <1>a, <1>1, <1>2, BeginRowKeepsClaims
<1>14. CASE RowStep(p)
  BY <1>14, <1>11, <1>12, <1>13 DEF RowStep
<1> QED BY <1>d, <1>10, <1>14

LEMMA ClaimInvInit == ASSUME Init PROVE ClaimInv
<1>1. RunInv /\ The = Idle
  BY RunInvInit, QuietIsIdle DEF Init, Quiet
<1>2. ClaimsRight(Idle, slips, claims)
  BY IdleIs DEF Init, ClaimsRight, ShownOnce, SlipsShow, LinesShow, FromSlips, EditsUnclaimed, ClaimOps
<1> QED BY <1>1, <1>2 DEF ClaimInv, RunInv

LEMMA LineIs ==
  ASSUME NEW c, NEW x
  PROVE  x \in LinesOf(c) <=> \E s \in slips : \E f \in s.refunds : x = <<s, f>> /\ f.claim = c
BY DEF LinesOf

\* Requests one after the other, neither rerunRun nor deleteRun failing half way
\* (computePayroll may): a claim is on at most one stored payslip.
THEOREM ClaimIsPaidOnce ==
  ASSUME Alone, "rerunRun" \notin CrashOps, "deleteRun" \notin CrashOps
  PROVE  Spec => []ClaimPaidOnce
<1>1. Init => ClaimInv
  BY ClaimInvInit
<1>2. ClaimInv /\ [Next]_vars => ClaimInv'
  BY ClaimInvNext
<1>3. ClaimInv => ClaimPaidOnce
  BY LineIs DEF ClaimInv, ClaimsRight, ShownOnce, ClaimPaidOnce
<1> QED BY <1>1, <1>2, <1>3, PTL DEF Spec

\* Under the same assumptions the payslip of a paid claim shows the claim's amount,
\* rounded to whole rupees.
THEOREM PayslipShowsClaim ==
  ASSUME Alone, "rerunRun" \notin CrashOps, "deleteRun" \notin CrashOps
  PROVE  Spec => []RefundShowsClaim
<1>1. Init => ClaimInv
  BY ClaimInvInit
<1>2. ClaimInv /\ [Next]_vars => ClaimInv'
  BY ClaimInvNext
<1>3. ClaimInv => RefundShowsClaim
  BY LineIs DEF ClaimInv, ClaimsRight, SlipsShow, Shows, RefundShowsClaim
<1> QED BY <1>1, <1>2, <1>3, PTL DEF Spec

-----------------------------------------------------------------------------
(* A claim is paid when it is on a payslip, and the other way round *)

\* Nobody marks a claim paid by hand, removes one, or takes a run back without
\* taking its lines back, and no handler that moves claims stops half way.
PayrollPays ==
  /\ {"cancelRun", "revertToDraft", "payClaim", "removeClaim"} \cap Ops = {}
  /\ {"computePayroll", "rerunRun", "deleteRun"} \cap CrashOps = {}

\* A step of a handler that has no line in hand, before it and after.
LEMMA PayStays ==
  ASSUME NEW h, NEW n, PayRight(h, slips, claims), slips' = slips, claims' = claims,
         h.at \notin {"restore", "refund"}, n.at # "restore", n.at = "refund" => n.refunds = {}
  PROVE  PayRight(n, slips', claims')
BY DEF PayRight, SlipsPay, LinesPay, PaidShown, Restoring

LEMMA WipeKeepsPaid ==
  ASSUME PayrollPays, RunInv, NEW p \in Procs, NEW h, h = req[p], h = The, NEW n, n = req'[p],
         h.op \in Ops \cup {"idle"}, PayRight(h, slips, claims), WipeSlips(p)
  PROVE  PayRight(n, slips', claims')
<1>1. /\ h.at = "wipe" \/ (h.at = "restore" /\ h.debits = {} /\ h.refunds = {})
      /\ slips' = slips \ SlipsOf(h.run) /\ claims' = claims
      /\ n.at \in {"write", "employees"}
  BY WipeIs DEF RunInv
<1>2. CASE h.at = "wipe"
  <2>1. h.op = "computePayroll" /\ runs[h.run] = "draft"
    BY <1>2 DEF RunInv, PlaceOps, PayrollPays, FoundStill, Found, RunOps
  <2>2. slips' = slips
    BY <1>1, <1>2, <2>1 DEF RunInv, SlipRuns, Computing, SlipsOf
  <2> QED BY <1>1, <1>2, <2>2, PayStays
<1>3. CASE h.at = "restore"
  <2>1. \A s \in slips' : s \in slips /\ s.run # h.run
    BY <1>1 DEF SlipsOf
  <2>2. SlipsPay(n, slips', claims)
    BY <1>1, <2>1 DEF PayRight, SlipsPay, Restoring
  <2>3. ASSUME NEW c \in Claims, claims[c].status = "paid" PROVE ~Unclaimed(slips', c)
    <3>1. PICK s \in slips : \E f \in s.refunds : f.claim = c
      BY <1>3, <2>3 DEF PayRight, PaidShown, Unclaimed
    <3>2. PICK f \in s.refunds : f.claim = c
      BY <3>1
    <3>3. s.run # h.run
      BY <1>1, <1>3, <2>3, <3>2 DEF PayRight, SlipsPay, Restoring
    <3>4. s \in slips'
      BY <1>1, <3>3 DEF SlipsOf
    <3> QED BY <3>2, <3>4 DEF Unclaimed
  <2> QED BY <1>1, <2>2, <2>3 DEF PayRight, LinesPay, PaidShown
<1> QED BY <1>1, <1>2, <1>3

LEMMA MarkKeepsPaid ==
  ASSUME TypeInv, NEW p \in Procs, NEW h, h = req[p], NEW n, n = req'[p],
         PayRight(h, slips, claims), MarkSlipsPaid(p)
  PROVE  PayRight(n, slips', claims')
<1>1. h.at = "slips" /\ claims' = claims /\ n.at = "write"
  BY MarkIs
<1>2. SlipsPay(n, slips', claims)
  <2>1. \A t \in slips' : \E s \in slips : t.run = s.run /\ t.refunds = s.refunds
    BY MarkedIs
  <2> QED BY <1>1, <2>1 DEF PayRight, SlipsPay, Restoring
<1>3. PaidShown(n, slips', claims)
  <2>1. \A s \in slips : \E t \in slips' : t.refunds = s.refunds
    BY UnmarkedIs
  <2> QED BY <1>1, <2>1 DEF PayRight, PaidShown, Unclaimed
<1> QED BY <1>1, <1>2, <1>3 DEF PayRight, LinesPay

LEMMA RefundKeepsPaid ==
  ASSUME TypeInv, NEW p \in Procs, NEW h, h = req[p], NEW n, n = req'[p], NEW x,
         ClaimsRight(h, slips, claims), PlaceOps(h), PayRight(h, slips, claims), RefundClaim(p, x)
  PROVE  PayRight(n, slips', claims')
<1>1. /\ n.op = h.op /\ n.run = h.run /\ n.at = h.at
      /\ h.at = "refund" /\ x \in h.due /\ slips' = slips
      /\ n.due = h.due \ {x} /\ n.refunds = h.refunds \cup {x}
  BY RefundIs
<1>2. /\ x.claim \in Claims /\ claims \in [Claims -> Claim]
      /\ \A f \in h.refunds : f.claim \in Claims
      /\ \A s \in slips : \A f \in s.refunds : f.claim \in Claims
  BY <1>1, LineTypes DEF TypeInv, TypeOK
<1>3. PICK row : row = [claims[x.claim] EXCEPT !.status = "paid", !.paidIn = PeriodOf[h.run]]
  OBVIOUS
<1>4. PaidIn(row, h.run) /\ row.status = "paid"
  BY <1>2, <1>3 DEF PaidIn, Claim
<1>5. /\ Unclaimed(slips, x.claim) /\ claims[x.claim].status # "absent"
      /\ \A f \in h.refunds : f.claim # x.claim
  BY <1>1 DEF ClaimsRight, LinesShow, Shows
<1>6. claims' = [claims EXCEPT ![x.claim] = row]
  BY <1>2, <1>3, <1>5 DEF RefundClaim, SetClaim, PayRight, NoneDeleted, Stored
<1>7. claims'[x.claim] = row /\ \A c \in Claims : c # x.claim => claims'[c] = claims[c]
  BY <1>2, <1>6
<1>8. SlipsPay(n, slips, claims')
  <2>1. ASSUME NEW s \in slips, NEW f \in s.refunds PROVE PaidIn(claims'[f.claim], s.run)
    <3>1. f.claim # x.claim
      BY <1>5 DEF Unclaimed
    <3> QED BY <1>1, <1>2, <1>7, <3>1 DEF PayRight, SlipsPay, Restoring
  <2> QED BY <1>1, <2>1 DEF SlipsPay, Restoring
<1>9. LinesPay(n, claims')
  BY <1>1, <1>2, <1>4, <1>5, <1>7 DEF PayRight, LinesPay
<1>10. PaidShown(n, slips, claims')
  <2>1. ASSUME NEW c \in Claims, claims'[c].status = "paid"
        PROVE  ~Unclaimed(slips, c) \/ \E f \in n.refunds : f.claim = c
    BY <1>1, <1>7, <2>1 DEF PayRight, PaidShown
  <2> QED BY <1>1, <2>1 DEF PaidShown
<1>11. NoneDeleted(claims')
  BY <1>4, <1>7 DEF PayRight, NoneDeleted
<1> QED BY <1>1, <1>8, <1>9, <1>10, <1>11 DEF PayRight

LEMMA PayslipKeepsPaid ==
  ASSUME Alone, RunInv, TypeInv', NEW p \in Procs, NEW h, h = req[p], NEW n, n = req'[p],
         PayRight(h, slips, claims), InsertPayslip(p)
  PROVE  PayRight(n, slips', claims')
<1>1. PICK slip : slip = [run |-> h.run, employee |-> h.employee, status |-> "generated",
                          debits |-> h.debits, refunds |-> h.refunds]
  OBVIOUS
<1>2. /\ slips' = slips \cup {slip} /\ EmployeeDone(p, h.employee) /\ claims' = claims
      /\ h.at = "refund"
  BY <1>1, PayslipKeepsRuns DEF InsertPayslip
<1>3. n.at \in {"employees", "write"}
  BY <1>2, DoneIs DEF RunInv
<1>4. slip.run = h.run /\ slip.refunds = h.refunds
  BY <1>1
<1>5. SlipsPay(n, slips', claims)
  BY <1>2, <1>3, <1>4 DEF PayRight, SlipsPay, LinesPay, Restoring
<1>6. PaidShown(n, slips', claims)
  BY <1>2, <1>4 DEF PayRight, PaidShown, Unclaimed
<1> QED BY <1>2, <1>3, <1>5, <1>6 DEF PayRight, LinesPay

LEMMA CollectKeepsPaid ==
  ASSUME TypeInv, NEW p \in Procs, NEW h, h = req[p], NEW n, n = req'[p],
         PayRight(h, slips, claims), CollectLines(p)
  PROVE  PayRight(n, slips', claims')
<1>1. /\ h.at = "collect" /\ slips' = slips /\ claims' = claims
      /\ n.op = h.op /\ n.run = h.run /\ n.at = "restore"
      /\ n.refunds = UNION {s.refunds : s \in SlipsOf(h.run)}
  BY CollectIs DEF Tables
<1>2. SlipsPay(n, slips, claims)
  BY <1>1 DEF PayRight, SlipsPay, Restoring, SlipsOf
<1> QED BY <1>1, <1>2 DEF PayRight, LinesPay, PaidShown

LEMMA RestoreKeepsPaid ==
  ASSUME TypeInv, NEW p \in Procs, NEW h, h = req[p], NEW n, n = req'[p], NEW x,
         ClaimsRight(h, slips, claims), PlaceOps(h), PayRight(h, slips, claims), RestoreClaim(p, x)
  PROVE  PayRight(n, slips', claims')
<1>1. /\ n.op = h.op /\ n.run = h.run /\ n.at = h.at
      /\ h.at = "restore" /\ x \in h.refunds /\ slips' = slips /\ n.refunds = h.refunds \ {x}
  BY RestoreClaimIs
<1>2. /\ x.claim \in Claims /\ \E s \in slips : s.run = h.run /\ x \in s.refunds
      /\ claims' = [claims EXCEPT ![x.claim] =
           IF Stored(@) THEN [@ EXCEPT !.status = "approved", !.paidIn = x.paidIn] ELSE @]
  BY RestoreKeepsClaims
<1>3. PICK s \in slips : s.run = h.run /\ x \in s.refunds
  BY <1>2
<1>4. claims \in [Claims -> Claim] /\ \A t \in slips : \A f \in t.refunds : f.claim \in Claims
  BY LineTypes DEF TypeInv, TypeOK
<1>5. Stored(claims[x.claim])
  BY <1>2, <1>3 DEF ClaimsRight, SlipsShow, Shows, PayRight, NoneDeleted, Stored
<1>6. PICK row : row = [claims[x.claim] EXCEPT !.status = "approved", !.paidIn = x.paidIn]
  OBVIOUS
<1>7. row.status = "approved"
  BY <1>2, <1>4, <1>6 DEF Claim
<1>8. claims'[x.claim] = row /\ \A c \in Claims : c # x.claim => claims'[c] = claims[c]
  BY <1>2, <1>4, <1>5, <1>6
<1>9. SlipsPay(n, slips, claims')
  <2>1. ASSUME NEW t \in slips, NEW f \in t.refunds
        PROVE  IF Restoring(n, t.run) /\ f \notin n.refunds THEN claims'[f.claim].status = "approved"
                                                          ELSE PaidIn(claims'[f.claim], t.run)
    <3>1. Restoring(n, t.run) <=> Restoring(h, t.run)
      BY <1>1 DEF Restoring
    <3>2. CASE f.claim # x.claim
      <4>1. claims'[f.claim] = claims[f.claim] /\ f # x
        BY <1>4, <1>8, <3>2
      <4> QED BY <1>1, <3>1, <4>1 DEF PayRight, SlipsPay
    <3>3. CASE f.claim = x.claim
      <4>1. t = s /\ f = x
        BY <1>3, <3>3 DEF ClaimsRight, ShownOnce
      <4> QED BY <1>1, <1>3, <1>7, <1>8, <4>1 DEF Restoring
    <3> QED BY <3>2, <3>3
  <2> QED BY <2>1 DEF SlipsPay
<1>10. NoneDeleted(claims') /\ PaidShown(n, slips, claims') /\ LinesPay(n, claims')
  BY <1>1, <1>7, <1>8 DEF PayRight, NoneDeleted, PaidShown, LinesPay
<1> QED BY <1>1, <1>9, <1>10 DEF PayRight

LEMMA WriteClaimKeepsPaid ==
  ASSUME TypeInv, NEW p \in Procs, NEW h, h = req[p], NEW n, n = req'[p], NEW x \in h.due,
         ClaimsRight(h, slips, claims), PlaceOps(h), PayRight(h, slips, claims), WriteClaim(p, x)
  PROVE  PayRight(n, slips', claims')
<1>1. h.op \in ClaimOps /\ slips' = slips /\ n = Idle
  BY RespondIs DEF WriteClaim, ClaimOps
<1>2. h.at \notin {"restore", "refund"} /\ n.at = "idle"
  BY <1>1, IdleIs DEF PlaceOps, ClaimOps
<1>3. /\ Unclaimed(slips, x.claim) /\ x.claim \in Claims
      /\ \A c \in Claims : c # x.claim => claims'[c] = claims[c]
      /\ claims'[x.claim].status \in {"approved", "rejected", claims[x.claim].status}
  BY WriteClaimKeepsClaims
<1>4. \A s \in slips : \A f \in s.refunds : claims'[f.claim] = claims[f.claim]
  BY <1>3, LineTypes DEF Unclaimed
<1>5. \A c \in Claims : claims'[c].status \in {"approved", "rejected", claims[c].status}
  BY <1>3
<1>6. SlipsPay(n, slips, claims')
  BY <1>2, <1>4 DEF PayRight, SlipsPay, Restoring
<1>7. NoneDeleted(claims') /\ PaidShown(n, slips, claims')
  BY <1>2, <1>5 DEF PayRight, NoneDeleted, PaidShown
<1> QED BY <1>1, <1>2, <1>6, <1>7 DEF PayRight, LinesPay

LEMMA AtomicKeepsPaid ==
  ASSUME TypeInv, PayrollPays, NEW h, ClaimsRight(h, slips, claims), PayRight(h, slips, claims), Atomic,
         \A f \in h.due \cup h.refunds : f.claim \in Claims
  PROVE  PayRight(h, slips', claims')
<1>1. slips' = slips
  BY DEF Atomic, CreateLoan, CancelLoan, DeleteLoan, SubmitClaim, PayClaim, RemoveClaim
<1>2. CASE claims' = claims
  BY <1>1, <1>2
<1>3. ASSUME NEW c \in Claims, NEW amount, SubmitClaim(c, amount)
      PROVE  PayRight(h, slips', claims')
  <2>1. claims \in [Claims -> Claim] /\ claims[c].status = "absent"
    BY <1>3 DEF TypeInv, TypeOK, SubmitClaim
  <2>2. claims'[c].status = "pending" /\ \A k \in Claims : k # c => claims'[k] = claims[k]
    BY <1>3, <2>1 DEF SubmitClaim
  <2>3. \A s \in slips : \A f \in s.refunds : claims'[f.claim] = claims[f.claim]
    BY <2>1, <2>2, LineTypes DEF ClaimsRight, SlipsShow, Shows
  <2>4. h.at = "refund" => \A f \in h.refunds : claims'[f.claim] = claims[f.claim]
    BY <2>1, <2>2 DEF ClaimsRight, LinesShow, Shows
  <2>5. SlipsPay(h, slips, claims') /\ LinesPay(h, claims')
    BY <2>3, <2>4 DEF PayRight, SlipsPay, LinesPay
  <2>6. NoneDeleted(claims') /\ PaidShown(h, slips, claims')
    BY <2>2 DEF PayRight, NoneDeleted, PaidShown
  <2> QED BY <1>1, <2>5, <2>6 DEF PayRight
<1>4. (\A c, period : ~PayClaim(c, period)) /\ \A c : ~RemoveClaim(c)
  BY DEF PayrollPays, PayClaim, RemoveClaim
<1> QED BY <1>2, <1>3, <1>4 DEF Atomic, CreateLoan, CancelLoan, DeleteLoan

LEMMA PayInvNext ==
  ASSUME Alone, PayrollPays, PayInv, [Next]_vars
  PROVE  PayInv'
<1>c. /\ "computePayroll" \notin CrashOps /\ "rerunRun" \notin CrashOps /\ "deleteRun" \notin CrashOps
  BY DEF PayrollPays
<1>a. /\ RunInv /\ ClaimInv /\ RunInv' /\ ClaimInv' /\ TypeInv /\ TypeInv' /\ PlaceOps(The)
      /\ PayRight(The, slips, claims) /\ ClaimsRight(The, slips, claims)
  BY <1>c, RunInvNext, ClaimInvNext DEF PayInv, RunInv, ClaimInv
<1> SUFFICES PayRight(The', slips', claims')
  BY <1>a DEF PayInv
<1>b. CASE UNCHANGED vars
  <2>1. The' = The /\ slips' = slips /\ claims' = claims
    BY <1>b DEF vars, The
  <2> QED BY <1>a, <2>1
<1>d. CASE Atomic
  <2>1. The' = The
    <3>1. req' = req
      BY <1>d DEF Atomic, CreateLoan, CancelLoan, DeleteLoan, SubmitClaim, PayClaim, RemoveClaim
    <3> QED BY <3>1 DEF The
  <2>2. \A f \in The.due \cup The.refunds : f.claim \in Claims
    <3>1. CASE Procs = {}
      BY <3>1 DEF The, Idle
    <3>2. CASE Procs # {}
      <4>1. (CHOOSE p \in Procs : TRUE) \in Procs
        BY <3>2
      <4> QED BY <1>a, <3>2, <4>1, LineTypes DEF The
    <3> QED BY <3>1, <3>2
  <2>3. PICK h : h = The
    OBVIOUS
  <2> QED BY <1>a, <1>d, <2>1, <2>2, <2>3, AtomicKeepsPaid
<1>e. SUFFICES ASSUME NEW p \in Procs, RunStep(p) \/ RowStep(p) PROVE PayRight(The', slips', claims')
  BY <1>b, <1>d DEF Next
<1>1. PICK h, n : h = req[p] /\ n = req'[p]
  OBVIOUS
<1>2. /\ The = h /\ The' = n /\ PlaceOps(h) /\ h.op \in Ops \cup {"idle"} /\ PlaceOps(n)
      /\ PayRight(h, slips, claims) /\ ClaimsRight(h, slips, claims)
  <2>1. The = h /\ The' = n /\ h.op \in Ops \cup {"idle"}
    BY <1>1, <1>a, TheHandler DEF Request
  <2>2. PlaceOps(The')
    BY <1>a DEF ClaimInv
  <2> QED BY <1>a, <2>1, <2>2
<1> SUFFICES PayRight(n, slips', claims')
  BY <1>2
<1>3. ASSUME NEW r \in Runs,
             BeginCreateRun(p, r) \/ BeginCompute(p, r) \/ BeginApprove(p, r)
             \/ BeginMarkPaid(p, r) \/ BeginCancelRun(p, r) \/ BeginRevert(p, r)
             \/ BeginRerun(p, r) \/ BeginDeleteRun(p, r)
      PROVE  PayRight(n, slips', claims')
  <2>1. /\ h = Idle /\ slips' = slips /\ claims' = claims
        /\ n.op \in RunOps /\ n.at \in FirstPlace[n.op]
    BY <1>1, <1>a, <1>3, BeginIs DEF Tables
  <2>2. n.at # "refund" /\ n.at # "restore"
    BY <2>1 DEF FirstPlace, RunOps
  <2> QED BY <1>2, <2>1, <2>2, IdleIs, PayStays
<1>4. CASE InsertRun(p) \/ Crash(p)
  <2>1. slips' = slips /\ claims' = claims /\ n = Idle /\ (h.at = "insert" \/ h.op \in CrashOps)
    BY <1>1, <1>a, <1>4, RespondIs DEF InsertRun, Crash
  <2>2. h.at \notin {"restore", "refund"}
    BY <1>c, <1>2, <2>1 DEF PlaceOps
  <2> QED BY <1>2, <2>1, <2>2, IdleIs, PayStays
<1>5. CASE WriteRun(p)
  <2>1. /\ h.at = "write" /\ n = Idle /\ claims' = claims
        /\ slips' = IF h.op = "deleteRun" THEN slips \ SlipsOf(h.run) ELSE slips
    BY <1>1, <1>a, <1>5, RespondIs DEF WriteRun
  <2>2. slips' = slips
    BY <1>a, <1>2, <2>1 DEF RunInv, Undone, SlipsOf
  <2> QED BY <1>2, <2>1, <2>2, IdleIs, PayStays
<1>6. ASSUME NEW e, SkipEmployee(p, e) \/ ReadLoans(p, e) PROVE PayRight(n, slips', claims')
  <2>1. h.at = "employees" /\ slips' = slips /\ claims' = claims
    BY <1>1, <1>6 DEF SkipEmployee, ReadLoans
  <2>2. n.at \in {"employees", "write", "debit"}
    BY <1>1, <1>6, <1>a, DoneIs, ReadLoansIs DEF SkipEmployee
  <2> QED BY <1>2, <2>1, <2>2, PayStays
<1>7. ASSUME NEW x, DebitLoan(p, x) PROVE PayRight(n, slips', claims')
  <2>1. h.at = "debit" /\ n.at = h.at /\ slips' = slips /\ claims' = claims
    BY <1>1, <1>7, <1>a, DebitIs
  <2> QED BY <1>2, <2>1, PayStays
<1>8. CASE ReadClaims(p)
  <2>1. h.at = "debit" /\ n.at = "refund" /\ n.refunds = h.refunds /\ slips' = slips /\ claims' = claims
    BY <1>1, <1>8, <1>a, ReadClaimsIs DEF Tables
  <2> QED BY <1>2, <2>1, PayStays DEF PlaceOps
<1>9. ASSUME NEW x, RestoreLoan(p, x) PROVE PayRight(n, slips', claims')
  <2>1. /\ h.at = "restore" /\ n.at = h.at /\ n.run = h.run /\ n.refunds = h.refunds
        /\ slips' = slips /\ claims' = claims
    BY <1>1, <1>9, <1>a, RestoreLoanIs
  <2> QED BY <1>2, <2>1 DEF PayRight, SlipsPay, LinesPay, PaidShown, Restoring
<1>10. CASE RunStep(p)
  BY <1>10, <1>a, <1>1, <1>2, <1>3, <1>4, <1>5, <1>6, <1>7, <1>8, <1>9, WipeKeepsPaid, MarkKeepsPaid,
     RefundKeepsPaid, PayslipKeepsPaid, CollectKeepsPaid, RestoreKeepsPaid
  DEF RunStep
<1>11. CASE \E d \in req[p].owed : \/ WritePayment(p, d)
                                   \/ \E emi \in Instalments : WriteLoanUpdate(p, d, emi)
  <2>1. claims' = claims /\ slips' = slips /\ n = Idle /\ h.op \in {"recordPayment", "updateLoan"}
    BY <1>1, <1>11, <1>a, RespondIs DEF WritePayment, WriteLoanUpdate
  <2>2. h.at \notin {"restore", "refund"}
    BY <1>2, <2>1 DEF PlaceOps
  <2> QED BY <1>2, <2>1, <2>2, IdleIs, PayStays
<1>12. ASSUME NEW f \in req[p].due, WriteClaim(p, f) PROVE PayRight(n, slips', claims')
  BY <1>12, <1>a, <1>1, <1>2, WriteClaimKeepsPaid
<1>13. CASE \/ \E l \in Loans, payment \in Payments : BeginRecordPayment(p, l, payment)
            \/ \E l \in Loans, principal \in Principals : BeginUpdateLoan(p, l, principal)
            \/ \E op \in Ops, c \in Claims, amount \in Expenses : BeginClaim(p, op, c, amount)
  <2>1. h = Idle /\ slips' = slips /\ claims' = claims /\ n.at = "write"
    BY <1>1, <1>a, <1>13, RowBeginIs DEF Tables
  <2> QED BY <1>2, <2>1, IdleIs, PayStays
<1>14. CASE RowStep(p)
  BY <1>14, <1>11, <1>12, <1>13 DEF RowStep
<1> QED BY <1>e, <1>10, <1>14

\* Requests one after the other, no run cancelled or reverted, no claim paid by
\* hand or removed, and no handler that moves claims failing half way: between
\* requests a claim is paid exactly if it is on a stored payslip, and it is paid
\* in the month of that payslip.
THEOREM PaidClaimsAreShown ==
  ASSUME Alone, PayrollPays
  PROVE  Spec => []PaidClaimOnPayslip
<1>1. Init => PayInv
  <2>1. Init => PayRight(The, slips, claims)
    BY QuietIsIdle, IdleIs
    DEF Init, Quiet, PayRight, NoneDeleted, NoClaim, SlipsPay, LinesPay, PaidShown
  <2> QED BY <2>1, RunInvInit, ClaimInvInit DEF PayInv
<1>2. PayInv /\ [Next]_vars => PayInv'
  BY PayInvNext
<1>3. PayInv => PaidClaimOnPayslip
  <2> SUFFICES ASSUME PayInv, Quiet, NEW c \in Claims
               PROVE  /\ claims[c].status = "paid" <=> LinesOf(c) # {}
                      /\ \A x \in LinesOf(c) : claims[c].paidIn = PeriodOf[x[1].run]
    BY DEF PaidClaimOnPayslip
  <2>1. PayRight(Idle, slips, claims)
    BY QuietIsIdle DEF PayInv
  <2>2. \A s \in slips : \A f \in s.refunds : f.claim = c => PaidIn(claims[c], s.run)
    BY <2>1, IdleIs DEF PayRight, SlipsPay, Restoring
  <2>3. ASSUME claims[c].status = "paid" PROVE LinesOf(c) # {}
    <3>1. PICK s \in slips : \E f \in s.refunds : f.claim = c
      BY <2>1, <2>3, IdleIs DEF PayRight, PaidShown, Unclaimed
    <3>2. PICK f \in s.refunds : f.claim = c
      BY <3>1
    <3> QED BY <3>2, LineIs
  <2>4. ASSUME NEW x \in LinesOf(c)
        PROVE  claims[c].status = "paid" /\ claims[c].paidIn = PeriodOf[x[1].run]
    <3>1. PICK s \in slips : \E f \in s.refunds : x = <<s, f>> /\ f.claim = c
      BY LineIs
    <3> QED BY <2>2, <3>1 DEF PaidIn
  <2> QED BY <2>3, <2>4
<1> QED BY <1>1, <1>2, <1>3, PTL DEF Spec

-----------------------------------------------------------------------------
(* What was lent is still owed, or taken by one line of one payslip *)

\* Loans change only by payroll, runs are taken back with their lines, no
\* computation stops half way, and the runs are of one month.
PayrollLends ==
  /\ {"recordPayment", "updateLoan", "deleteLoan", "cancelRun", "revertToDraft"} \cap Ops = {}
  /\ "computePayroll" \notin CrashOps
  /\ OneMonth

LEMMA OneStoredNext ==
  ASSUME Alone, OneMonth, RunInv, OneStored(runs), [Next]_vars
  PROVE  OneStored(runs')
<1>a. runs \in [Runs -> RunStatus]
  BY DEF RunInv, TypeInv, TypeOK
<1>1. CASE runs' = runs
  BY <1>1
<1>2. ASSUME NEW p \in Procs, InsertRun(p) PROVE OneStored(runs')
  BY <1>a, <1>2 DEF InsertRun, OneMonth, OneStored, StoredRun
<1>3. ASSUME NEW p \in Procs, WriteRun(p) PROVE OneStored(runs')
  BY <1>a, <1>3 DEF WriteRun, SetRun, OneStored, StoredRun
<1>4. ASSUME NEW p \in Procs, RunStep(p) PROVE OneStored(runs')
  BY <1>1, <1>2, <1>3, <1>4, Zenon
  DEF RunStep, BeginCreateRun, BeginCompute, BeginApprove, BeginMarkPaid, BeginCancelRun,
      BeginRevert, BeginRerun, BeginDeleteRun, WipeSlips, MarkSlipsPaid, CollectLines, SkipEmployee,
      ReadLoans, DebitLoan, RestoreLoan, RefundClaim, RestoreClaim, ReadClaims, InsertPayslip, Crash
<1>5. ASSUME NEW p \in Procs, RowStep(p) PROVE runs' = runs
  BY <1>5, Zenon DEF RowStep, BeginRecordPayment, BeginUpdateLoan, WritePayment, WriteLoanUpdate,
    BeginClaim, WriteClaim
<1>6. CASE Atomic
  BY <1>1, <1>6 DEF Atomic, CreateLoan, CancelLoan, DeleteLoan, SubmitClaim, PayClaim, RemoveClaim
<1> QED BY <1>1, <1>4, <1>5, <1>6 DEF Next, vars

\* While a run is computed every payslip is of that run, and none is of an
\* employee still to do.
LEMMA NotYetTaken ==
  ASSUME RunInv, OneStored(runs), SlipsTake(The, slips, loans), NEW h, h = The,
         h.at \in {"employees", "debit", "refund"}, h.run \in Runs, NEW s \in slips
  PROVE  /\ s.run = h.run
         /\ \A d \in s.debits : BorrowerOf[d.loan] \notin h.left
<1>1. h.op = "computePayroll"
  BY DEF RunInv, PlaceOps
<1>2. runs[h.run] = "draft" /\ s.run \in Runs
  BY <1>1, LineTypes DEF RunInv, FoundStill, Found, RunOps
<1>3. s.run = h.run
  BY <1>2 DEF RunInv, SlipRuns, Computing, OneStored
<1>4. s.employee \notin h.left
  BY <1>3 DEF RunInv, Fresh
<1> QED BY <1>3, <1>4 DEF SlipsTake

\* A step that writes no loan and stores no payslip, of a handler that has no
\* deduction in hand.
LEMMA LoansStay ==
  ASSUME NEW h, NEW n, LoansRight(h, slips, loans), slips' = slips, loans' = loans,
         h.at \notin {"debit", "refund"}, n.at \notin {"debit", "refund", "restore"},
         \A s \in slips : Computing(n, s.run) => Computing(h, s.run)
  PROVE  LoansRight(n, slips', loans')
<1>1. SlipsTake(n, slips, loans)
  BY DEF LoansRight, SlipsTake, Restoring
<1>2. RestOwed(n, slips, loans)
  BY DEF LoansRight, RestOwed, NoLines
<1> QED BY <1>1, <1>2 DEF LoansRight, LinesTake, TakenBack

LEMMA WipeKeepsLoans ==
  ASSUME PayrollLends, RunInv, NEW p \in Procs, NEW h, h = req[p], h = The, NEW n, n = req'[p],
         h.op \in Ops \cup {"idle"}, LoansRight(h, slips, loans), WipeSlips(p), PlaceOps(n)
  PROVE  LoansRight(n, slips', loans')
<1>1. /\ h.at = "wipe" \/ (h.at = "restore" /\ h.debits = {} /\ h.refunds = {})
      /\ slips' = slips \ SlipsOf(h.run) /\ loans' = loans /\ n.run = h.run /\ n.op = h.op
      /\ n.at \in {"write", "employees"}
  BY WipeIs DEF RunInv
<1>2. CASE h.at = "wipe" /\ h.op = "computePayroll"
  <2>1. runs[h.run] = "draft"
    BY <1>2 DEF RunInv, FoundStill, Found, RunOps
  <2>2. \A s \in slips : s.run # h.run
    BY <1>2, <2>1 DEF RunInv, SlipRuns, Computing
  <2>3. slips' = slips
    BY <1>1, <2>2 DEF SlipsOf
  <2> QED BY <1>1, <1>2, <2>2, <2>3, LoansStay DEF Computing
<1>3. CASE h.at = "restore"
  <2>1. \A s \in slips' : s \in slips /\ s.run # h.run
    BY <1>1 DEF SlipsOf
  <2>2. SlipsTake(n, slips', loans)
    BY <1>1, <1>3, <2>1 DEF LoansRight, SlipsTake, Restoring, Computing
  <2>3. ASSUME NEW l \in Loans, NoLines(n, slips', l) PROVE Owed(l, loans)
    <3>1. CASE NoLines(h, slips, l)
      BY <3>1 DEF LoansRight, RestOwed
    <3>2. ASSUME NEW s \in slips, NEW d \in s.debits, d.loan = l PROVE Owed(l, loans)
      <4>1. s \notin slips'
        BY <2>3, <3>2 DEF NoLines
      <4>2. Restoring(h, s.run) /\ h.debits = {}
        BY <1>1, <1>3, <4>1 DEF SlipsOf, Restoring
      <4> QED BY <3>2, <4>2 DEF LoansRight, SlipsTake
    <3> QED BY <1>3, <3>1, <3>2 DEF NoLines
  <2> QED BY <1>1, <2>2, <2>3 DEF LoansRight, LinesTake, TakenBack, RestOwed
<1> QED BY <1>1, <1>2, <1>3 DEF PayrollLends, RunInv, PlaceOps

LEMMA ReadLoansKeepsLoans ==
  ASSUME Alone, RunInv, OneStored(runs), NEW p \in Procs, NEW h, h = req[p], NEW n, n = req'[p],
         LoansRight(h, slips, loans), NEW e, ReadLoans(p, e)
  PROVE  LoansRight(n, slips', loans')
<1>a. TypeInv
  BY DEF RunInv
<1>b. The = h /\ PlaceOps(h) /\ Fresh(h, slips)
  BY <1>a, TheHandler DEF RunInv
<1>1. /\ h.at = "employees" /\ e \in h.left /\ slips' = slips /\ loans' = loans
      /\ n.op = h.op /\ n.run = h.run /\ n.at = "debit" /\ n.employee = e /\ n.left = h.left
      /\ n.debits = h.debits
      /\ n.owed = {d \in {Snapshot(l, Instalment(loans[l])) :
                            l \in {l \in Loans : BorrowerOf[l] = e /\ loans[l].status = "active"}} :
                     d.amount > 0}
  BY <1>a, ReadLoansIs DEF Tables
<1>2. h.run \in Runs /\ h.debits = {} /\ loans \in [Loans -> Loan] /\ SlipsTake(h, slips, loans)
  <2>1. h.op = "computePayroll" /\ h.debits = {}
    BY <1>1, <1>b DEF PlaceOps
  <2>2. h \in Handler /\ loans \in [Loans -> Loan]
    BY <1>a DEF TypeInv, TypeOK
  <2> QED BY <2>1, <2>2 DEF Handler, WellPlaced, RunOps, LoansRight
<1>3. ASSUME NEW l \in Loans, BorrowerOf[l] = e PROVE Owed(l, loans)
  <2>1. \A s \in slips : \A d \in s.debits : d.loan # l
    BY <1>1, <1>2, <1>3, <1>b, NotYetTaken
  <2> QED BY <1>1, <2>1 DEF LoansRight, RestOwed, NoLines
<1>4. ASSUME NEW d \in n.owed
      PROVE  /\ d = Snapshot(d.loan, Instalment(loans[d.loan]))
             /\ BorrowerOf[d.loan] = e /\ Takes(d, loans)
  <2>1. PICK l \in Loans : /\ BorrowerOf[l] = e /\ loans[l].status = "active"
                           /\ d = Snapshot(l, Instalment(loans[l]))
    BY <1>1
  <2>2. /\ d.loan = l /\ d.status = "active" /\ d.outstanding = loans[l].outstanding
        /\ d.amount = Instalment(loans[l])
    BY <2>1 DEF Snapshot
  <2>3. d.amount <= d.outstanding + 50
    BY <1>2, <2>1, <2>2, InstalmentIs
  <2>4. Owed(l, loans)
    BY <1>3, <2>1
  <2> QED BY <2>1, <2>2, <2>3, <2>4 DEF Takes, Owed, Stored
<1>5. Single(n.owed)
  BY <1>4 DEF Single
<1>6. LinesTake(n, loans)
  BY <1>1, <1>2, <1>4, <1>5 DEF LinesTake, Single
<1>7. SlipsTake(n, slips, loans)
  BY <1>1, <1>2 DEF SlipsTake, Computing, Restoring
<1>8. RestOwed(n, slips, loans)
  BY <1>1, <1>2 DEF LoansRight, RestOwed, NoLines
<1> QED BY <1>1, <1>6, <1>7, <1>8 DEF LoansRight, TakenBack

LEMMA DebitKeepsLoans ==
  ASSUME Alone, RunInv, OneStored(runs), NEW p \in Procs, NEW h, h = req[p], NEW n, n = req'[p],
         LoansRight(h, slips, loans), NEW x, DebitLoan(p, x)
  PROVE  LoansRight(n, slips', loans')
<1>a. TypeInv
  BY DEF RunInv
<1>b. The = h /\ PlaceOps(h) /\ Fresh(h, slips)
  BY <1>a, TheHandler DEF RunInv
<1>1. /\ n.op = h.op /\ n.run = h.run /\ n.at = h.at /\ n.employee = h.employee /\ n.left = h.left
      /\ h.at = "debit" /\ x \in h.owed /\ slips' = slips
      /\ n.owed = h.owed \ {x} /\ n.debits = h.debits \cup {x}
  BY <1>a, DebitIs
<1>2. /\ h.run \in Runs /\ loans \in [Loans -> Loan] /\ SlipsTake(h, slips, loans)
      /\ h.employee \in h.left /\ x.loan \in Loans /\ x \in Debit
      /\ \A d \in h.owed \cup h.debits : d.loan \in Loans
      /\ \A s \in slips : \A d \in s.debits : d.loan \in Loans
  <2>1. h.op = "computePayroll" /\ h.employee \in h.left
    BY <1>1, <1>b DEF PlaceOps, Fresh
  <2>2. h \in Handler /\ loans \in [Loans -> Loan]
    BY <1>a DEF TypeInv, TypeOK
  <2>3. /\ \A d \in h.owed \cup h.debits : d \in Debit /\ d.loan \in Loans
        /\ \A s \in slips : \A d \in s.debits : d.loan \in Loans
    BY <1>a, LineTypes
  <2> QED BY <1>1, <2>1, <2>2, <2>3 DEF Handler, WellPlaced, RunOps, LoansRight
<1>3. /\ Single(h.owed \cup h.debits) /\ h.owed \cap h.debits = {}
      /\ \A d \in h.owed : BorrowerOf[d.loan] = h.employee /\ Takes(d, loans)
      /\ \A d \in h.debits : BorrowerOf[d.loan] = h.employee /\ Takes(d, loans) /\ Taken(d, loans)
  BY <1>1 DEF LoansRight, LinesTake
<1>4. PICK row : row = Repaid(loans[x.loan], x)
  OBVIOUS
<1>5. /\ row.principal = loans[x.loan].principal
      /\ row.outstanding = Minus(x.outstanding, x.amount)
      /\ row.status \in {"completed", loans[x.loan].status}
  BY <1>2, <1>4 DEF Repaid, Loan
<1>6. loans' = [loans EXCEPT ![x.loan] = row]
  BY <1>1, <1>3, <1>4 DEF DebitLoan, SetLoan, Takes
<1>7. loans'[x.loan] = row /\ \A l \in Loans : l # x.loan => loans'[l] = loans[l]
  BY <1>2, <1>6
<1>8. Takes(x, loans') /\ Taken(x, loans')
  <2>1. x.outstanding \in Nat /\ x.amount \in Nat
    BY <1>2 DEF Debit
  <2> QED BY <1>1, <1>2, <1>3, <1>5, <1>7, <2>1 DEF Takes, Taken, Stored, Loan
<1>9. \A d \in h.owed \cup h.debits : d # x => loans'[d.loan] = loans[d.loan]
  BY <1>1, <1>2, <1>3, <1>7 DEF Single
<1>10. \A s \in slips : \A d \in s.debits : loans'[d.loan] = loans[d.loan]
  BY <1>1, <1>2, <1>3, <1>7, <1>b, NotYetTaken
<1>11. LinesTake(n, loans')
  <2>1. n.owed \cup n.debits = h.owed \cup h.debits /\ n.owed \cap n.debits = {}
    BY <1>1, <1>3
  <2>2. ASSUME NEW d \in n.debits
        PROVE  BorrowerOf[d.loan] = n.employee /\ Takes(d, loans') /\ Taken(d, loans')
    <3>1. CASE d = x
      BY <1>1, <1>3, <1>8, <3>1
    <3>2. CASE d # x
      BY <1>1, <1>3, <1>9, <3>2 DEF Takes, Taken
    <3> QED BY <3>1, <3>2
  <2>3. ASSUME NEW d \in n.owed PROVE BorrowerOf[d.loan] = n.employee /\ Takes(d, loans')
    BY <1>1, <1>3, <1>9 DEF Takes
  <2>4. Single(n.debits)
    BY <1>1, <1>3 DEF Single
  <2> QED BY <1>1, <1>3, <2>1, <2>2, <2>3, <2>4 DEF LinesTake
<1>12. SlipsTake(n, slips, loans')
  BY <1>1, <1>2, <1>10 DEF SlipsTake, Takes, Taken, Owed, Computing, Restoring
<1>13. RestOwed(n, slips, loans')
  <2>1. ASSUME NEW l \in Loans, NoLines(n, slips, l) PROVE Owed(l, loans')
    <3>1. l # x.loan /\ NoLines(h, slips, l)
      BY <1>1, <2>1 DEF NoLines
    <3> QED BY <1>7, <3>1 DEF LoansRight, RestOwed, Owed
  <2> QED BY <2>1 DEF RestOwed
<1> QED BY <1>1, <1>11, <1>12, <1>13 DEF LoansRight, TakenBack

LEMMA PayslipKeepsLoans ==
  ASSUME Alone, RunInv, TypeInv', NEW p \in Procs, NEW h, h = req[p], NEW n, n = req'[p],
         LoansRight(h, slips, loans), InsertPayslip(p)
  PROVE  LoansRight(n, slips', loans')
<1>1. PICK slip : slip = [run |-> h.run, employee |-> h.employee, status |-> "generated",
                          debits |-> h.debits, refunds |-> h.refunds]
  OBVIOUS
<1>2. /\ slips' = slips \cup {slip} /\ EmployeeDone(p, h.employee) /\ loans' = loans
      /\ h.at = "refund" /\ h.op = "computePayroll"
  BY <1>1, PayslipKeepsRuns DEF InsertPayslip
<1>3. n.at \in {"employees", "write"} /\ n.op = h.op /\ n.run = h.run
  BY <1>2, DoneIs DEF RunInv
<1>4. slip.run = h.run /\ slip.debits = h.debits /\ slip.employee = h.employee
  BY <1>1
<1>5. SlipsTake(n, slips', loans)
  <2>1. \A r : (Computing(n, r) => Computing(h, r)) /\ ~Restoring(n, r)
    BY <1>2, <1>3 DEF Computing, Restoring
  <2> QED BY <1>2, <1>4, <2>1 DEF LoansRight, SlipsTake, LinesTake
<1>6. RestOwed(n, slips', loans)
  BY <1>2, <1>4 DEF LoansRight, RestOwed, NoLines
<1> QED BY <1>2, <1>3, <1>5, <1>6 DEF LoansRight, LinesTake, TakenBack

LEMMA MarkKeepsLoans ==
  ASSUME TypeInv, NEW p \in Procs, NEW h, h = req[p], NEW n, n = req'[p], PlaceOps(h),
         LoansRight(h, slips, loans), MarkSlipsPaid(p)
  PROVE  LoansRight(n, slips', loans')
<1>1. h.at = "slips" /\ loans' = loans /\ n.at = "write" /\ n.op = "markPaid"
  BY MarkIs DEF PlaceOps
<1>2. SlipsTake(n, slips', loans)
  <2>1. \A t \in slips' : \E s \in slips : t.run = s.run /\ t.employee = s.employee /\ t.debits = s.debits
    BY MarkedIs
  <2> QED BY <1>1, <2>1 DEF LoansRight, SlipsTake, Restoring, Computing
<1>3. RestOwed(n, slips', loans)
  <2>1. \A s \in slips : \E t \in slips' : t.debits = s.debits
    BY UnmarkedIs
  <2> QED BY <1>1, <2>1 DEF LoansRight, RestOwed, NoLines
<1> QED BY <1>1, <1>2, <1>3 DEF LoansRight, LinesTake, TakenBack

LEMMA CollectKeepsLoans ==
  ASSUME TypeInv, NEW p \in Procs, NEW h, h = req[p], NEW n, n = req'[p],
         LoansRight(h, slips, loans), CollectLines(p)
  PROVE  LoansRight(n, slips', loans')
<1>1. /\ h.at = "collect" /\ slips' = slips /\ loans' = loans
      /\ n.op = h.op /\ n.run = h.run /\ n.at = "restore"
      /\ n.debits = UNION {s.debits : s \in SlipsOf(h.run)}
  BY CollectIs DEF Tables
<1>2. SlipsTake(n, slips, loans)
  BY <1>1 DEF LoansRight, SlipsTake, Restoring, Computing, SlipsOf
<1>3. TakenBack(n, slips)
  BY <1>1 DEF TakenBack, SlipsOf
<1>4. RestOwed(n, slips, loans)
  BY <1>1 DEF LoansRight, RestOwed, NoLines
<1> QED BY <1>1, <1>2, <1>3, <1>4 DEF LoansRight, LinesTake

LEMMA RestoreKeepsLoans ==
  ASSUME TypeInv, NEW p \in Procs, NEW h, h = req[p], NEW n, n = req'[p], NEW x,
         LoansRight(h, slips, loans), RestoreLoan(p, x)
  PROVE  LoansRight(n, slips', loans')
<1>1. /\ n.op = h.op /\ n.run = h.run /\ n.at = h.at
      /\ h.at = "restore" /\ x \in h.debits /\ slips' = slips /\ n.debits = h.debits \ {x}
  BY RestoreLoanIs
<1>2. PICK s \in slips : s.run = h.run /\ x \in s.debits
  BY <1>1 DEF LoansRight, TakenBack
<1>3. /\ x.loan \in Loans /\ loans \in [Loans -> Loan] /\ Takes(x, loans)
      /\ \A t \in slips : \A d \in t.debits : d.loan \in Loans
  BY <1>2, LineTypes DEF TypeInv, TypeOK, LoansRight, SlipsTake
<1>4. PICK row : row = [loans[x.loan] EXCEPT !.outstanding = x.outstanding, !.status = x.status]
  OBVIOUS
<1>5. row.outstanding = row.principal /\ row.principal = loans[x.loan].principal /\ Stored(row)
  BY <1>3, <1>4 DEF Takes, Loan, Stored
<1>6. loans' = [loans EXCEPT ![x.loan] = row]
  BY <1>3, <1>4 DEF RestoreLoan, SetLoan, Takes
<1>7. loans'[x.loan] = row /\ \A l \in Loans : l # x.loan => loans'[l] = loans[l]
  BY <1>3, <1>6
<1>8. SlipsTake(n, slips, loans')
  <2>1. ASSUME NEW t \in slips, NEW d \in t.debits
        PROVE  /\ Takes(d, loans') /\ (Taken(d, loans') \/ Owed(d.loan, loans'))
               /\ Restoring(n, t.run) /\ d \notin n.debits => Owed(d.loan, loans')
    <3>1. /\ Takes(d, loans) /\ (Taken(d, loans) \/ Owed(d.loan, loans))
          /\ Restoring(h, t.run) /\ d \notin h.debits => Owed(d.loan, loans)
      BY DEF LoansRight, SlipsTake
    <3>2. CASE d.loan = x.loan
      <4>1. Owed(d.loan, loans') /\ Takes(d, loans')
        BY <1>5, <1>7, <3>1, <3>2 DEF Owed, Takes
      <4> QED BY <4>1
    <3>3. CASE d.loan # x.loan
      <4>1. loans'[d.loan] = loans[d.loan] /\ d # x
        BY <1>3, <1>7, <3>3
      <4> QED BY <1>1, <3>1, <4>1 DEF Takes, Taken, Owed, Restoring
    <3> QED BY <3>2, <3>3
  <2> QED BY <1>1, <2>1 DEF LoansRight, SlipsTake, Computing
<1>9. TakenBack(n, slips)
  BY <1>1 DEF LoansRight, TakenBack
<1>10. RestOwed(n, slips, loans')
  <2>1. ASSUME NEW l \in Loans, NoLines(n, slips, l) PROVE Owed(l, loans')
    <3>1. NoLines(h, slips, l)
      BY <1>1, <2>1 DEF NoLines
    <3> QED BY <1>5, <1>7, <3>1 DEF LoansRight, RestOwed, Owed
  <2> QED BY <2>1 DEF RestOwed
<1> QED BY <1>1, <1>8, <1>9, <1>10 DEF LoansRight, LinesTake

\* What the other endpoints may do to a loan.
Untouched(row, new) ==
  /\ Stored(row) => Stored(new) /\ new.principal = row.principal /\ new.outstanding = row.outstanding
  /\ row.outstanding = row.principal => new.outstanding = new.principal

LEMMA AtomicKeepsLoans ==
  ASSUME TypeInv, PayrollLends, NEW h, LoansRight(h, slips, loans), Atomic,
         \A d \in h.owed \cup h.debits : d.loan \in Loans
  PROVE  LoansRight(h, slips', loans')
<1>1. slips' = slips
  BY DEF Atomic, CreateLoan, CancelLoan, DeleteLoan, SubmitClaim, PayClaim, RemoveClaim
<1>2. ASSUME NEW k \in Loans PROVE Untouched(loans[k], loans'[k])
  <2>1. loans \in [Loans -> Loan]
    BY DEF TypeInv, TypeOK
  <2>2. CASE loans' = loans
    BY <2>2 DEF Untouched
  <2>3. ASSUME NEW l \in Loans, NEW principal, NEW emi, CreateLoan(l, principal, emi)
        PROVE  Untouched(loans[k], loans'[k])
    <3>1. PICK row : row = [status |-> "active", principal |-> principal,
                            outstanding |-> principal, emi |-> emi]
      OBVIOUS
    <3>2. row.outstanding = row.principal /\ loans' = [loans EXCEPT ![l] = row] /\ ~Stored(loans[l])
      BY <2>3, <3>1 DEF CreateLoan, Stored
    <3> QED BY <2>1, <3>2 DEF Untouched
  <2>4. ASSUME NEW l \in Loans, CancelLoan(l) PROVE Untouched(loans[k], loans'[k])
    <3>1. PICK row : row = [loans[l] EXCEPT !.status = "cancelled"]
      OBVIOUS
    <3>2. /\ row.principal = loans[l].principal /\ row.outstanding = loans[l].outstanding
          /\ Stored(row) /\ loans' = [loans EXCEPT ![l] = row]
      BY <2>1, <2>4, <3>1 DEF CancelLoan, SetLoan, Loan, Stored
    <3> QED BY <2>1, <3>2 DEF Untouched
  <2>5. \A l : ~DeleteLoan(l)
    BY DEF PayrollLends, DeleteLoan
  <2> QED BY <2>2, <2>3, <2>4, <2>5 DEF Atomic, SubmitClaim, PayClaim, RemoveClaim
<1>3. ASSUME NEW d, d.loan \in Loans, Takes(d, loans)
      PROVE  /\ Takes(d, loans')
             /\ Taken(d, loans) => Taken(d, loans')
             /\ Owed(d.loan, loans) => Owed(d.loan, loans')
  <2>1. Untouched(loans[d.loan], loans'[d.loan])
    BY <1>2, <1>3
  <2> QED BY <1>3, <2>1 DEF Untouched, Takes, Taken, Owed
<1>4. SlipsTake(h, slips, loans')
  <2>1. \A s \in slips : \A d \in s.debits : d.loan \in Loans
    BY LineTypes
  <2> QED BY <1>3, <2>1 DEF LoansRight, SlipsTake
<1>5. LinesTake(h, loans')
  BY <1>3 DEF LoansRight, LinesTake
<1>6. RestOwed(h, slips, loans')
  BY <1>2 DEF LoansRight, RestOwed, Owed, Untouched
<1> QED BY <1>1, <1>4, <1>5, <1>6 DEF LoansRight, TakenBack

LEMMA LoanInvNext ==
  ASSUME Alone, PayrollLends, LoanInv, [Next]_vars
  PROVE  LoanInv'
<1>c. "computePayroll" \notin CrashOps /\ OneMonth
  BY DEF PayrollLends
<1>a. /\ RunInv /\ RunInv' /\ TypeInv /\ TypeInv' /\ PlaceOps(The) /\ PlaceOps(The')
      /\ OneStored(runs) /\ OneStored(runs') /\ LoansRight(The, slips, loans)
  BY <1>c, RunInvNext, OneStoredNext DEF LoanInv, RunInv
<1> SUFFICES LoansRight(The', slips', loans')
  BY <1>a DEF LoanInv
<1>b. CASE UNCHANGED vars
  <2>1. The' = The /\ slips' = slips /\ loans' = loans
    BY <1>b DEF vars, The
  <2> QED BY <1>a, <2>1
<1>d. CASE Atomic
  <2>1. The' = The
    <3>1. req' = req
      BY <1>d DEF Atomic, CreateLoan, CancelLoan, DeleteLoan, SubmitClaim, PayClaim, RemoveClaim
    <3> QED BY <3>1 DEF The
  <2>2. \A d \in The.owed \cup The.debits : d.loan \in Loans
    <3>1. CASE Procs = {}
      BY <3>1 DEF The, Idle
    <3>2. CASE Procs # {}
      <4>1. (CHOOSE p \in Procs : TRUE) \in Procs
        BY <3>2
      <4> QED BY <1>a, <3>2, <4>1, LineTypes DEF The
    <3> QED BY <3>1, <3>2
  <2>3. PICK h : h = The
    OBVIOUS
  <2> QED BY <1>a, <1>d, <2>1, <2>2, <2>3, AtomicKeepsLoans
<1>e. SUFFICES ASSUME NEW p \in Procs, RunStep(p) \/ RowStep(p) PROVE LoansRight(The', slips', loans')
  BY <1>b, <1>d DEF Next
<1>1. PICK h, n : h = req[p] /\ n = req'[p]
  OBVIOUS
<1>2. /\ The = h /\ The' = n /\ h.op \in Ops \cup {"idle"} /\ PlaceOps(h) /\ PlaceOps(n)
      /\ LoansRight(h, slips, loans)
  <2>1. The = h /\ The' = n /\ h.op \in Ops \cup {"idle"}
    BY <1>1, <1>a, TheHandler DEF Request
  <2> QED BY <1>a, <2>1
<1> SUFFICES LoansRight(n, slips', loans')
  BY <1>2
<1>3. ASSUME NEW r \in Runs,
             BeginCreateRun(p, r) \/ BeginCompute(p, r) \/ BeginApprove(p, r)
             \/ BeginMarkPaid(p, r) \/ BeginCancelRun(p, r) \/ BeginRevert(p, r)
             \/ BeginRerun(p, r) \/ BeginDeleteRun(p, r)
      PROVE  LoansRight(n, slips', loans')
  <2>1. /\ h = Idle /\ slips' = slips /\ loans' = loans
        /\ n.op \in RunOps /\ n.at \in FirstPlace[n.op]
    BY <1>1, <1>a, <1>3, BeginIs DEF Tables
  <2>2. n.at \notin {"employees", "debit", "refund", "restore"} /\ (n.op = "computePayroll" => n.at = "wipe")
    BY <2>1 DEF FirstPlace, RunOps
  <2> QED BY <1>2, <2>1, <2>2, IdleIs, LoansStay DEF Computing
<1>4. CASE InsertRun(p) \/ Crash(p)
  <2>1. slips' = slips /\ loans' = loans /\ n = Idle /\ (h.at = "insert" \/ h.op \in CrashOps)
    BY <1>1, <1>a, <1>4, RespondIs DEF InsertRun, Crash
  <2>2. h.at \notin {"debit", "refund"}
    BY <1>c, <1>2, <2>1 DEF PlaceOps
  <2> QED BY <1>2, <2>1, <2>2, IdleIs, LoansStay DEF Computing
<1>5. CASE WriteRun(p)
  <2>1. /\ h.at = "write" /\ n = Idle /\ loans' = loans
        /\ slips' = IF h.op = "deleteRun" THEN slips \ SlipsOf(h.run) ELSE slips
    BY <1>1, <1>a, <1>5, RespondIs DEF WriteRun
  <2>2. slips' = slips
    BY <1>a, <1>2, <2>1 DEF RunInv, Undone, SlipsOf
  <2> QED BY <1>2, <2>1, <2>2, IdleIs, LoansStay DEF Computing
<1>6. ASSUME NEW e, SkipEmployee(p, e) PROVE LoansRight(n, slips', loans')
  <2>1. h.at = "employees" /\ slips' = slips /\ loans' = loans
    BY <1>1, <1>6 DEF SkipEmployee
  <2>2. n.at \in {"employees", "write"} /\ n.op = h.op /\ n.run = h.run
    BY <1>1, <1>6, <1>a, DoneIs DEF SkipEmployee
  <2> QED BY <1>2, <2>1, <2>2, LoansStay DEF Computing
<1>7. CASE ReadClaims(p) \/ \E f : RefundClaim(p, f)
  <2>1. /\ h.at \in {"debit", "refund"} /\ n.at = "refund" /\ n.op = h.op /\ n.run = h.run
        /\ n.employee = h.employee /\ n.debits = h.debits /\ slips' = slips /\ loans' = loans
    BY <1>1, <1>7, <1>a, ReadClaimsIs, RefundIs DEF Tables
  <2>2. SlipsTake(n, slips, loans)
    BY <1>2, <2>1 DEF LoansRight, SlipsTake, Computing, Restoring
  <2> QED BY <1>2, <2>1, <2>2 DEF LoansRight, LinesTake, TakenBack, RestOwed, NoLines
<1>8. ASSUME NEW f, RestoreClaim(p, f) PROVE LoansRight(n, slips', loans')
  <2>1. /\ h.at = "restore" /\ n.at = h.at /\ n.op = h.op /\ n.run = h.run /\ n.debits = h.debits
        /\ slips' = slips /\ loans' = loans
    BY <1>1, <1>8, <1>a, RestoreClaimIs
  <2>2. SlipsTake(n, slips, loans)
    BY <1>2, <2>1 DEF LoansRight, SlipsTake, Computing, Restoring
  <2> QED BY <1>2, <2>1, <2>2 DEF LoansRight, LinesTake, TakenBack, RestOwed, NoLines
<1>9. CASE RunStep(p)
  <2>1. CASE WipeSlips(p)
    BY <2>1, <1>a, <1>1, <1>2, WipeKeepsLoans
  <2> QED
    BY <1>9, <2>1, <1>a, <1>1, <1>2, <1>3, <1>4, <1>5, <1>6, <1>7, <1>8, ReadLoansKeepsLoans,
       DebitKeepsLoans, PayslipKeepsLoans, MarkKeepsLoans, CollectKeepsLoans, RestoreKeepsLoans
    DEF RunStep
<1>10. ASSUME NEW d, \/ WritePayment(p, d)
                     \/ \E emi \in Instalments : WriteLoanUpdate(p, d, emi)
       PROVE  FALSE
  BY <1>1, <1>2, <1>10 DEF WritePayment, WriteLoanUpdate, PayrollLends
<1>11. ASSUME NEW f, WriteClaim(p, f) PROVE LoansRight(n, slips', loans')
  <2>1. loans' = loans /\ slips' = slips /\ n = Idle /\ h.op \in RowOps
    BY <1>1, <1>11, <1>a, RespondIs DEF WriteClaim, RowOps
  <2>2. h.at \notin {"debit", "refund"}
    BY <1>2, <2>1 DEF PlaceOps, RowOps
  <2> QED BY <1>2, <2>1, <2>2, IdleIs, LoansStay DEF Computing
<1>12. CASE \/ \E l \in Loans, payment \in Payments : BeginRecordPayment(p, l, payment)
            \/ \E l \in Loans, principal \in Principals : BeginUpdateLoan(p, l, principal)
            \/ \E op \in Ops, c \in Claims, amount \in Expenses : BeginClaim(p, op, c, amount)
  <2>1. h = Idle /\ slips' = slips /\ loans' = loans /\ n.at = "write" /\ n.op \in RowOps
    BY <1>1, <1>a, <1>12, RowBeginIs DEF Tables
  <2> QED BY <1>2, <2>1, IdleIs, LoansStay DEF Computing, RowOps
<1>13. CASE RowStep(p)
  BY <1>13, <1>10, <1>11, <1>12 DEF RowStep
<1> QED BY <1>e, <1>9, <1>13

LEMMA LoanInvInit == ASSUME Init PROVE LoanInv
<1>1. RunInv /\ The = Idle /\ OneStored(runs)
  BY RunInvInit, QuietIsIdle DEF Init, Quiet, OneStored
<1>2. LoansRight(Idle, slips, loans)
  BY IdleIs DEF Init, LoansRight, SlipsTake, LinesTake, TakenBack, RestOwed, Owed, NoLoan
<1> QED BY <1>1, <1>2 DEF LoanInv

\* The stored deductions of loan l, and what each took.
LinesFor(l) == {x \in UNION {{s} \X s.debits : s \in slips} : x[2].loan = l}
AmountsOf(l) == [x \in LinesFor(l) |-> x[2].amount]

LEMMA DeductedIsSum ==
  ASSUME NEW l
  PROVE  Deducted(l) = Sum(AmountsOf(l), LinesFor(l))
<1> DEFINE A == LinesFor(l)
           v == AmountsOf(l)
<1>1. \A x \in A : v[x] = x[2].amount
  BY DEF AmountsOf
<1>a. Deducted(l) = MapThenSumSet(LAMBDA x : x[2].amount, A)
  BY DEF Deducted, LinesFor
<1> HIDE DEF A, v
<1> DEFINE body(f) == [s \in SUBSET A |->
                         IF s = {} THEN 0
                         ELSE (CHOOSE x \in s : TRUE)[2].amount + f[s \ {CHOOSE x \in s : TRUE}]]
<1>2. MapThenSumSet(LAMBDA x : x[2].amount, A) = (CHOOSE f : f = body(f))[A]
  BY DEF MapThenSumSet, MapThenFoldSet
<1>3. \A f : f = body(f) <=> IsSum(f, v, A)
  <2> SUFFICES ASSUME NEW f
               PROVE  body(f) = [s \in SUBSET A |->
                                   IF s = {} THEN 0
                                   ELSE v[CHOOSE x \in s : TRUE] + f[s \ {CHOOSE x \in s : TRUE}]]
    BY DEF IsSum, Unfolded
  <2>1. \A s \in SUBSET A : s # {} => (CHOOSE x \in s : TRUE) \in A
    BY Chosen
  <2> QED BY <1>1, <2>1
<1>4. (CHOOSE f : f = body(f)) = (CHOOSE f : IsSum(f, v, A))
  <2> HIDE DEF body
  <2> QED BY <1>3
<1> QED BY <1>a, <1>2, <1>4 DEF Sum, A, v

\* With no line nothing is deducted, with one line its amount.
LEMMA NothingDeducted == ASSUME NEW l, LinesFor(l) = {} PROVE Deducted(l) = 0
BY DeductedIsSum, SumOfNone

LEMMA OneDeducted ==
  ASSUME NEW l, NEW x, LinesFor(l) = {x}, x[2].amount \in Nat
  PROVE  Deducted(l) = x[2].amount
<1>1. AmountsOf(l)[x] = x[2].amount
  BY DEF AmountsOf
<1>a. IsFiniteSet({x})
  BY FS_Singleton
<1>b. x[2].amount \in Int
  OBVIOUS
<1>2. Amounts(AmountsOf(l), {x})
  BY <1>1, <1>a, <1>b DEF Amounts
<1>3. Sum(AmountsOf(l), {x}) = AmountsOf(l)[x] + Sum(AmountsOf(l), {x} \ {x})
  BY <1>2, SumWithout
<1>4. {x} \ {x} = {}
  OBVIOUS
<1> QED BY <1>1, <1>3, <1>4, SumOfNone, DeductedIsSum

LEMMA BalancedAtTheEnd ==
  ASSUME Alone, LoanInv, NEW p \in Procs, req[p].op = "computePayroll", req[p].at = "write", NEW l \in Loans
  PROVE  Balanced(l)
<1>1. PICK h : h = req[p]
  OBVIOUS
<1>2. /\ RunInv /\ TypeInv /\ The = h /\ h.run \in Runs /\ loans \in [Loans -> Loan]
      /\ LoansRight(h, slips, loans)
  BY <1>1, TheHandler DEF LoanInv, RunInv, Handler, WellPlaced, RunOps, TypeInv, TypeOK
<1>3. runs[h.run] = "draft" /\ Computing(h, h.run)
  BY <1>1, <1>2 DEF RunInv, FoundStill, Found, RunOps, Computing
<1>4. ASSUME NEW s \in slips PROVE s.run = h.run
  BY <1>2, <1>3, LineTypes DEF LoanInv, RunInv, SlipRuns, Computing, OneStored
<1>5. ASSUME NEW s \in slips, NEW d \in s.debits
      PROVE  d \in Debit /\ BorrowerOf[d.loan] = s.employee /\ Takes(d, loans) /\ Taken(d, loans)
  BY <1>2, <1>3, <1>4, LineTypes DEF LoansRight, SlipsTake
<1>6. CASE LinesFor(l) = {}
  <2>1. ASSUME NEW s \in slips, NEW d \in s.debits PROVE d.loan # l
    <3>1. <<s, d>> \notin LinesFor(l)
      BY <1>6
    <3> QED BY <3>1 DEF LinesFor
  <2>2. Owed(l, loans)
    BY <1>1, <1>2, <2>1 DEF LoansRight, RestOwed, NoLines
  <2> QED BY <1>2, <1>6, <2>2, NothingDeducted DEF Balanced, Owed, Loan
<1>7. CASE LinesFor(l) # {}
  <2>1. PICK x : x \in LinesFor(l)
    BY <1>7
  <2>2. PICK s \in slips : \E d \in s.debits : x = <<s, d>> /\ d.loan = l
    BY <2>1 DEF LinesFor
  <2>3. PICK d \in s.debits : x = <<s, d>> /\ d.loan = l
    BY <2>2
  <2>4. ASSUME NEW y \in LinesFor(l) PROVE y = x
    <3>1. PICK t \in slips : \E e \in t.debits : y = <<t, e>> /\ e.loan = l
      BY <2>4 DEF LinesFor
    <3>2. PICK e \in t.debits : y = <<t, e>> /\ e.loan = l
      BY <3>1
    <3>3. t.employee = s.employee /\ t.run = s.run
      BY <1>4, <1>5, <2>3, <3>2
    <3>4. t = s
      BY <1>2, <3>3 DEF RunInv, OneEach
    <3>5. d = e
      BY <1>2, <2>3, <3>2, <3>4 DEF LoansRight, SlipsTake, Single
    <3> QED BY <2>3, <3>2, <3>4, <3>5
  <2>5. LinesFor(l) = {x}
    BY <2>1, <2>4
  <2>6. d \in Debit /\ d.amount \in Nat /\ d.outstanding \in Nat
    BY <1>5 DEF Debit
  <2>7. Deducted(l) = d.amount
    BY <2>3, <2>5, <2>6, OneDeducted
  <2>8. /\ loans[l].principal = d.outstanding /\ d.amount <= d.outstanding + 50
        /\ loans[l].outstanding = Minus(d.outstanding, d.amount)
    BY <1>5, <2>3 DEF Takes, Taken
  <2> QED BY <2>6, <2>7, <2>8 DEF Balanced, Minus
<1> QED BY <1>6, <1>7

\* Requests one after the other, loans changed by payroll only, runs of one month
\* taken back with their lines, and no computation failing half way (rerunRun and
\* deleteRun may): when a computation has come to its last statement, what was lent
\* is still owed or shown on a stored payslip, to the paisa as long as something is
\* owed and within half a rupee once the loan is settled.
THEOREM LedgerIsBalanced ==
  ASSUME Alone, PayrollLends
  PROVE  Spec => []LedgerBalanced
<1>1. Init => LoanInv
  BY LoanInvInit
<1>2. LoanInv /\ [Next]_vars => LoanInv'
  BY LoanInvNext
<1>3. LoanInv => LedgerBalanced
  BY BalancedAtTheEnd DEF LedgerBalanced
<1> QED BY <1>1, <1>2, <1>3, PTL DEF Spec

\* Under the same assumptions, when no run is computed every loan owes its whole
\* principal again.
THEOREM TakingBackGivesBack ==
  ASSUME Alone, PayrollLends
  PROVE  Spec => []UndoneOwesAll
<1>1. Init => LoanInv
  BY LoanInvInit
<1>2. LoanInv /\ [Next]_vars => LoanInv'
  BY LoanInvNext
<1>3. LoanInv => UndoneOwesAll
  <2> SUFFICES ASSUME LoanInv, Quiet, \A r \in Runs : runs[r] \in {"absent", "draft", "deleted"},
                      NEW l \in Loans
               PROVE  loans[l].outstanding = loans[l].principal
    BY DEF UndoneOwesAll
  <2>1. RunInv /\ TypeInv /\ The = Idle /\ RestOwed(Idle, slips, loans)
    BY QuietIsIdle DEF LoanInv, RunInv, LoansRight
  <2>2. slips = {}
    BY <2>1, AtRest, LineTypes DEF RunInv, SlipRuns
  <2> QED BY <2>1, <2>2, IdleIs DEF RestOwed, NoLines, Owed
<1> QED BY <1>1, <1>2, <1>3, PTL DEF Spec

=============================================================================
