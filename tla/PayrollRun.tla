----------------------------- MODULE PayrollRun -----------------------------
(***************************************************************************)
(* Payroll runs of one organisation and what they do to the loan ledger    *)
(* and to reimbursement claims (apps/payroll-api: payroll.service.ts,      *)
(* loan.service.ts, reimbursement.service.ts).                             *)
(*                                                                         *)
(* Every endpoint is a sequence of single SQL statements with no           *)
(* transaction around them.  A request is a process of Procs: req[p] holds *)
(* where its handler stands and what it has read.  One statement is one    *)
(* step, so requests interleave at their awaits; with one process they run *)
(* one after the other.  A request whose endpoint is in CrashOps may stop  *)
(* between two statements (an exception, a lost connection, a restart).    *)
(*                                                                         *)
(* The tables payslips, and the lines a payslip stores as JSON, are sets   *)
(* of records; payroll_runs, loans and reimbursements map an id to its     *)
(* row.  Money is in paise: the columns keep two decimals, and only what a *)
(* payslip shows is rounded to whole rupees.                               *)
(***************************************************************************)
EXTENDS Naturals, FiniteSets, FiniteSetsExt

CONSTANTS
  Procs,        \* concurrent requests
  Runs,         \* ids payroll runs can get; an id is never given twice
  Employees,    \* the organisation's employees
  Loans,        \* ids loans can get
  Claims,       \* ids reimbursement claims can get
  PeriodOf,     \* the month and year of each run
  BorrowerOf,   \* the employee of each loan
  ClaimantOf,   \* the employee of each claim
  Principals,   \* amounts a loan is created with or edited to
  Instalments,  \* monthly instalments a loan can have
  Payments,     \* amounts of a manual loan payment, the default one included
  Expenses,     \* amounts a claim can have
  Ops,          \* the endpoints in use
  CrashOps,     \* the endpoints whose handler may stop half way
  None          \* the null of a column

Periods == {PeriodOf[r] : r \in Runs}

ASSUME PeriodAssumption == PeriodOf \in [Runs -> Periods] /\ None \notin Periods
ASSUME OwnerAssumption ==
  BorrowerOf \in [Loans -> Employees] /\ ClaimantOf \in [Claims -> Employees]
ASSUME AmountAssumption ==
  /\ Principals \subseteq Nat /\ Instalments \subseteq Nat
  /\ Payments \subseteq Nat /\ Expenses \subseteq Nat

VARIABLES
  runs,    \* status column of payroll_runs; "absent" before and "deleted" after the row
  slips,   \* payslips
  loans,   \* loans
  claims,  \* reimbursements
  req      \* the handler of each process

vars == <<runs, slips, loans, claims, req>>

-----------------------------------------------------------------------------
(* Rows and lines *)

RunStatus == {"absent", "draft", "computed", "approved", "paid", "cancelled", "deleted"}
LoanStatus == {"absent", "active", "completed", "cancelled", "deleted"}
ClaimStatus == {"absent", "pending", "approved", "rejected", "paid", "deleted"}

Loan == [status : LoanStatus, principal : Nat, outstanding : Nat, emi : Nat]
Claim == [status : ClaimStatus, amount : Nat, paidIn : Periods \cup {None}]

\* A LOAN deduction: what it takes and the snapshot of the row it was taken from.
Debit == [loan : Loans, amount : Nat, outstanding : Nat, status : LoanStatus]
\* A REIMB earning, with the same kind of snapshot.
Refund == [claim : Claims, amount : Nat, status : ClaimStatus, paidIn : Periods \cup {None}]

Payslip == [run : Runs, employee : Employees, status : {"generated", "paid"},
            debits : SUBSET Debit, refunds : SUBSET Refund]

NoLoan == [status |-> "absent", principal |-> 0, outstanding |-> 0, emi |-> 0]
NoClaim == [status |-> "absent", amount |-> 0, paidIn |-> None]

Stored(row) == row.status \notin {"absent", "deleted"}
StoredRun(r) == runs[r] \notin {"absent", "deleted"}

SlipsOf(r) == {s \in slips : s.run = r}

-----------------------------------------------------------------------------
(* Requests *)

RunOps == {"createRun", "computePayroll", "approveRun", "markPaid", "cancelRun",
           "revertToDraft", "rerunRun", "deleteRun"}
RowOps == {"recordPayment", "updateLoan", "approveClaim", "rejectClaim", "updateClaim"}
AtomicOps == {"createLoan", "cancelLoan", "deleteLoan", "submitClaim", "payClaim", "removeClaim"}
AllOps == RunOps \cup RowOps \cup AtomicOps

ASSUME OpsAssumption == Ops \subseteq AllOps /\ CrashOps \subseteq Ops

Places == {"idle", "insert", "wipe", "employees", "debit", "refund", "slips", "collect",
           "restore", "write"}

\* owed and due are lines read from loans and claims and not yet written back;
\* debits and refunds are the lines of the payslip being built, or, when a run
\* is undone, the stored lines still to be reverted.
Request == [op : Ops \cup {"idle"}, at : Places, run : Runs \cup {None},
            employee : Employees \cup {None}, left : SUBSET Employees, amount : Nat,
            owed : SUBSET Debit, due : SUBSET Refund,
            debits : SUBSET Debit, refunds : SUBSET Refund]

Idle == [op |-> "idle", at |-> "idle", run |-> None, employee |-> None, left |-> {},
         amount |-> 0, owed |-> {}, due |-> {}, debits |-> {}, refunds |-> {}]

Free(p, op) == op \in Ops /\ req[p] = Idle
Becomes(p, handler) == req' = [req EXCEPT ![p] = handler]
Accept(p, op, at, r) == Becomes(p, [Idle EXCEPT !.op = op, !.at = at, !.run = r])
GoTo(p, at) == Becomes(p, [req[p] EXCEPT !.at = at])
Respond(p) == Becomes(p, Idle)

\* UPDATE ... WHERE id: no row, no effect.
SetRun(r, status) == runs' = IF StoredRun(r) THEN [runs EXCEPT ![r] = status] ELSE runs
SetLoan(l, row) == loans' = IF Stored(loans[l]) THEN [loans EXCEPT ![l] = row] ELSE loans
SetClaim(c, row) == claims' = IF Stored(claims[c]) THEN [claims EXCEPT ![c] = row] ELSE claims

\* (Names ending in a word after _ are slips of the definition that follows them:
\* the properties are checked to notice each.)
Least(a, b) == IF a < b THEN a ELSE b
Minus_Unfloored(a, b) == a - b
Minus(a, b) == IF a > b THEN a - b ELSE 0

\* Math.round of rupees, in paise: half a rupee goes up.
Rounded(amount) == 100 * ((amount + 50) \div 100)

\* The loan row after one repayment, computed from the snapshot and not from the row.
Repaid(row, d) ==
  LET rest == Minus(d.outstanding, d.amount)
  IN [row EXCEPT !.outstanding = rest, !.status = IF rest = 0 THEN "completed" ELSE @]

Snapshot(l, amount) == [loan |-> l, amount |-> amount,
                        outstanding |-> loans[l].outstanding, status |-> loans[l].status]
ClaimSnapshot(c, amount) == [claim |-> c, amount |-> amount,
                             status |-> claims[c].status, paidIn |-> claims[c].paidIn]

Init ==
  /\ runs = [r \in Runs |-> "absent"]
  /\ slips = {}
  /\ loans = [l \in Loans |-> NoLoan]
  /\ claims = [c \in Claims |-> NoClaim]
  /\ req = [p \in Procs |-> Idle]

-----------------------------------------------------------------------------
(* Creating and computing a run *)

\* findOne on the period, then the insert; the id is a fresh uuid.
BeginCreateRun(p, r) ==
  /\ Free(p, "createRun")
  /\ runs[r] = "absent" /\ \A q \in Procs : req[q].run # r
  /\ \A s \in Runs : PeriodOf[s] = PeriodOf[r] => ~StoredRun(s)
  /\ Accept(p, "createRun", "insert", r)
  /\ UNCHANGED <<runs, slips, loans, claims>>

\* The unique index on organisation, month and year fails the second insert.
InsertRun(p) ==
  /\ req[p].at = "insert" /\ req[p].op = "createRun"
  /\ LET r == req[p].run
         taken == \E s \in Runs : PeriodOf[s] = PeriodOf[r] /\ StoredRun(s)
     IN runs' = IF taken THEN runs ELSE [runs EXCEPT ![r] = "draft"]
  /\ Respond(p)
  /\ UNCHANGED <<slips, loans, claims>>

BeginCompute(p, r) ==
  /\ Free(p, "computePayroll")
  /\ runs[r] = "draft"
  /\ Accept(p, "computePayroll", "wipe", r)
  /\ UNCHANGED <<runs, slips, loans, claims>>

\* deleteMany of the run's payslips: the first write of a computation, and the
\* one before the last of every handler that takes a run back.
WipeSlips(p) ==
  /\ \/ req[p].at = "wipe"
     \/ req[p].at = "restore" /\ req[p].debits = {} /\ req[p].refunds = {}
  /\ slips' = slips \ SlipsOf(req[p].run)
  /\ IF req[p].op = "computePayroll" /\ Employees # {}
       THEN Becomes(p, [req[p] EXCEPT !.at = "employees", !.left = Employees])
       ELSE GoTo(p, "write")
  /\ UNCHANGED <<runs, loans, claims>>

\* What is left to do once employee e is done.
EmployeeDone(p, e) ==
  LET left == req[p].left \ {e}
  IN Becomes(p, [req[p] EXCEPT !.left = left, !.employee = None, !.debits = {}, !.refunds = {},
                               !.at = IF left = {} THEN "write" ELSE "employees"])

\* No salary structure, left before the period, joins after it: no payslip.
SkipEmployee(p, e) ==
  /\ req[p].at = "employees" /\ e \in req[p].left
  /\ EmployeeDone(p, e)
  /\ UNCHANGED <<runs, slips, loans, claims>>

\* The instalment a payslip shows, capped at what is owed.  Both are rounded; the
\* balance it is taken from is not.
Instalment(row) == Least(Rounded(row.emi), Rounded(row.outstanding))

\* findMany of the employee's active loans; one with nothing to take is passed over.
ReadLoans(p, e) ==
  /\ req[p].at = "employees" /\ e \in req[p].left
  /\ LET active == {l \in Loans : BorrowerOf[l] = e /\ loans[l].status = "active"}
         lines == {Snapshot(l, Instalment(loans[l])) : l \in active}
     IN Becomes(p, [req[p] EXCEPT !.at = "debit", !.employee = e,
                                  !.owed = {d \in lines : d.amount > 0}])
  /\ UNCHANGED <<runs, slips, loans, claims>>

DebitLoan(p, d) ==
  /\ req[p].at = "debit" /\ d \in req[p].owed
  /\ SetLoan(d.loan, Repaid(loans[d.loan], d))
  /\ Becomes(p, [req[p] EXCEPT !.owed = @ \ {d}, !.debits = @ \cup {d}])
  /\ UNCHANGED <<runs, slips, claims>>

\* findMany of the employee's approved claims, for the payslip rounded to rupees; one
\* that comes to zero is passed over.
ReadClaims(p) ==
  /\ req[p].at = "debit" /\ req[p].owed = {}
  /\ LET approved == {c \in Claims : /\ ClaimantOf[c] = req[p].employee
                                     /\ claims[c].status = "approved"}
         lines == {ClaimSnapshot(c, Rounded(claims[c].amount)) : c \in approved}
     IN Becomes(p, [req[p] EXCEPT !.at = "refund", !.due = {f \in lines : f.amount > 0}])
  /\ UNCHANGED <<runs, slips, loans, claims>>

RefundClaim_LeftApproved(p, f) ==
  /\ req[p].at = "refund" /\ f \in req[p].due
  /\ Becomes(p, [req[p] EXCEPT !.due = @ \ {f}, !.refunds = @ \cup {f}])
  /\ UNCHANGED <<runs, slips, loans, claims>>
RefundClaim(p, f) ==
  /\ req[p].at = "refund" /\ f \in req[p].due
  /\ SetClaim(f.claim, [claims[f.claim] EXCEPT !.status = "paid",
                                               !.paidIn = PeriodOf[req[p].run]])
  /\ Becomes(p, [req[p] EXCEPT !.due = @ \ {f}, !.refunds = @ \cup {f}])
  /\ UNCHANGED <<runs, slips, loans>>

\* The insert fails, and the computation with it, when the run and employee already
\* have a payslip (unique index) or the run is gone (foreign key).
InsertPayslip(p) ==
  LET r == req[p].run
      e == req[p].employee
      refused == (\E s \in SlipsOf(r) : s.employee = e) \/ ~StoredRun(r)
      slip == [run |-> r, employee |-> e, status |-> "generated",
               debits |-> req[p].debits, refunds |-> req[p].refunds]
  IN /\ req[p].at = "refund" /\ req[p].due = {} /\ req[p].op = "computePayroll"
     /\ \/ refused /\ Respond(p) /\ UNCHANGED slips
        \/ ~refused /\ EmployeeDone(p, e) /\ slips' = slips \cup {slip}
     /\ UNCHANGED <<runs, loans, claims>>

-----------------------------------------------------------------------------
(* Approving, paying and taking back a run *)

BeginApprove(p, r) ==
  /\ Free(p, "approveRun")
  /\ runs[r] = "computed"
  /\ Accept(p, "approveRun", "write", r)
  /\ UNCHANGED <<runs, slips, loans, claims>>

BeginMarkPaid(p, r) ==
  /\ Free(p, "markPaid")
  /\ runs[r] = "approved"
  /\ Accept(p, "markPaid", "slips", r)
  /\ UNCHANGED <<runs, slips, loans, claims>>

MarkSlipsPaid_RunOnly(p) ==
  /\ req[p].at = "slips"
  /\ GoTo(p, "write")
  /\ UNCHANGED <<runs, slips, loans, claims>>
MarkSlipsPaid(p) ==
  /\ req[p].at = "slips"
  /\ LET r == req[p].run
     IN slips' = (slips \ SlipsOf(r)) \cup {[s EXCEPT !.status = "paid"] : s \in SlipsOf(r)}
  /\ GoTo(p, "write")
  /\ UNCHANGED <<runs, loans, claims>>

BeginCancelRun(p, r) ==
  /\ Free(p, "cancelRun")
  /\ StoredRun(r) /\ runs[r] # "paid"
  /\ Accept(p, "cancelRun", "wipe", r)
  /\ UNCHANGED <<runs, slips, loans, claims>>

BeginRevert(p, r) ==
  /\ Free(p, "revertToDraft")
  /\ StoredRun(r) /\ runs[r] \notin {"paid", "draft"}
  /\ Accept(p, "revertToDraft", IF runs[r] = "cancelled" THEN "write" ELSE "wipe", r)
  /\ UNCHANGED <<runs, slips, loans, claims>>

BeginRerun_OnlyWipes(p, r) ==
  /\ Free(p, "rerunRun")
  /\ StoredRun(r)
  /\ Accept(p, "rerunRun", IF runs[r] = "draft" THEN "write" ELSE "wipe", r)
  /\ UNCHANGED <<runs, slips, loans, claims>>
BeginRerun(p, r) ==
  /\ Free(p, "rerunRun")
  /\ StoredRun(r)
  /\ Accept(p, "rerunRun", IF runs[r] = "draft" THEN "write" ELSE "collect", r)
  /\ UNCHANGED <<runs, slips, loans, claims>>

BeginDeleteRun(p, r) ==
  /\ Free(p, "deleteRun")
  /\ StoredRun(r)
  /\ Accept(p, "deleteRun", "collect", r)
  /\ UNCHANGED <<runs, slips, loans, claims>>

\* revertLoansAndReimbursementsForRun reads the payslips of the run once ...
CollectLines(p) ==
  /\ req[p].at = "collect"
  /\ LET mine == SlipsOf(req[p].run)
     IN Becomes(p, [req[p] EXCEPT !.at = "restore",
                                  !.debits = UNION {s.debits : s \in mine},
                                  !.refunds = UNION {s.refunds : s \in mine}])
  /\ UNCHANGED <<runs, slips, loans, claims>>

RestoreLoan_AddsBack(p, d) ==
  /\ req[p].at = "restore" /\ d \in req[p].debits
  /\ SetLoan(d.loan, [loans[d.loan] EXCEPT !.outstanding = @ + d.amount, !.status = d.status])
  /\ Becomes(p, [req[p] EXCEPT !.debits = @ \ {d}])
  /\ UNCHANGED <<runs, slips, claims>>
\* ... and writes every snapshot back, a payslip's deductions before its earnings.
RestoreLoan(p, d) ==
  /\ req[p].at = "restore" /\ d \in req[p].debits
  /\ SetLoan(d.loan, [loans[d.loan] EXCEPT !.outstanding = d.outstanding, !.status = d.status])
  /\ Becomes(p, [req[p] EXCEPT !.debits = @ \ {d}])
  /\ UNCHANGED <<runs, slips, claims>>

RestoreClaim_StaysPaid(p, f) ==
  /\ req[p].at = "restore" /\ f \in req[p].refunds
  /\ \A d \in req[p].debits : BorrowerOf[d.loan] # ClaimantOf[f.claim]
  /\ SetClaim(f.claim, [claims[f.claim] EXCEPT !.paidIn = f.paidIn])
  /\ Becomes(p, [req[p] EXCEPT !.refunds = @ \ {f}])
  /\ UNCHANGED <<runs, slips, loans>>
RestoreClaim(p, f) ==
  /\ req[p].at = "restore" /\ f \in req[p].refunds
  /\ \A d \in req[p].debits : BorrowerOf[d.loan] # ClaimantOf[f.claim]
  /\ SetClaim(f.claim, [claims[f.claim] EXCEPT !.status = f.status, !.paidIn = f.paidIn])
  /\ Becomes(p, [req[p] EXCEPT !.refunds = @ \ {f}])
  /\ UNCHANGED <<runs, slips, loans>>

\* The status each handler writes last, whatever the row says by then.
Outcome == [computePayroll |-> "computed", approveRun |-> "approved", markPaid |-> "paid",
            cancelRun |-> "cancelled", revertToDraft |-> "draft", rerunRun |-> "draft",
            deleteRun |-> "deleted"]

\* Deleting the row cascades to the payslips inserted meanwhile.
WriteRun(p) ==
  /\ req[p].at = "write" /\ req[p].op \in DOMAIN Outcome
  /\ SetRun(req[p].run, Outcome[req[p].op])
  /\ slips' = IF req[p].op = "deleteRun" THEN slips \ SlipsOf(req[p].run) ELSE slips
  /\ Respond(p)
  /\ UNCHANGED <<loans, claims>>

-----------------------------------------------------------------------------
(* Loans *)

CreateLoan(l, principal, emi) ==
  /\ "createLoan" \in Ops /\ loans[l].status = "absent"
  /\ loans' = [loans EXCEPT ![l] = [status |-> "active", principal |-> principal,
                                    outstanding |-> principal, emi |-> emi]]
  /\ UNCHANGED <<runs, slips, claims, req>>

\* findById, the status check, and then the write of Repaid from the row read.
BeginRecordPayment(p, l, payment) ==
  /\ Free(p, "recordPayment")
  /\ loans[l].status = "active"
  /\ Becomes(p, [Idle EXCEPT !.op = "recordPayment", !.at = "write",
                              !.owed = {Snapshot(l, payment)}])
  /\ UNCHANGED <<runs, slips, loans, claims>>

WritePayment(p, d) ==
  /\ req[p].op = "recordPayment" /\ d \in req[p].owed
  /\ SetLoan(d.loan, Repaid(loans[d.loan], d))
  /\ Respond(p)
  /\ UNCHANGED <<runs, slips, claims>>

\* An edit keeps what was repaid when the row was read.
BeginUpdateLoan(p, l, principal) ==
  /\ Free(p, "updateLoan")
  /\ Stored(loans[l]) /\ loans[l].status # "cancelled"
  /\ LET repaid == Minus(loans[l].principal, loans[l].outstanding)
     IN Becomes(p, [Idle EXCEPT !.op = "updateLoan", !.at = "write", !.amount = principal,
                                 !.owed = {Snapshot(l, repaid)}])
  /\ UNCHANGED <<runs, slips, loans, claims>>

WriteLoanUpdate_StaysActive(p, d, emi) ==
  /\ req[p].op = "updateLoan" /\ d \in req[p].owed
  /\ SetLoan(d.loan, [status |-> loans[d.loan].status, principal |-> req[p].amount,
                      outstanding |-> Minus(req[p].amount, d.amount), emi |-> emi])
  /\ Respond(p)
  /\ UNCHANGED <<runs, slips, claims>>
WriteLoanUpdate(p, d, emi) ==
  /\ req[p].op = "updateLoan" /\ d \in req[p].owed
  /\ LET rest == Minus(req[p].amount, d.amount)
         row == loans[d.loan]
         settled == rest = 0 /\ d.status = "active"
     IN SetLoan(d.loan, [status |-> IF settled THEN "completed" ELSE row.status,
                         principal |-> req[p].amount, outstanding |-> rest, emi |-> emi])
  /\ Respond(p)
  /\ UNCHANGED <<runs, slips, claims>>

\* cancel and delete check nothing but that the row exists.
CancelLoan(l) ==
  /\ "cancelLoan" \in Ops /\ Stored(loans[l])
  /\ SetLoan(l, [loans[l] EXCEPT !.status = "cancelled"])
  /\ UNCHANGED <<runs, slips, claims, req>>

DeleteLoan(l) ==
  /\ "deleteLoan" \in Ops /\ Stored(loans[l])
  /\ SetLoan(l, [loans[l] EXCEPT !.status = "deleted"])
  /\ UNCHANGED <<runs, slips, claims, req>>

-----------------------------------------------------------------------------
(* Reimbursement claims *)

SubmitClaim(c, amount) ==
  /\ "submitClaim" \in Ops /\ claims[c].status = "absent"
  /\ claims' = [claims EXCEPT ![c] = [status |-> "pending", amount |-> amount, paidIn |-> None]]
  /\ UNCHANGED <<runs, slips, loans, req>>

BeginClaim_EditsPaid(p, op, c, amount) ==
  /\ Free(p, op)
  /\ \/ op \in {"approveClaim", "rejectClaim"} /\ claims[c].status = "pending"
     \/ op = "updateClaim" /\ claims[c].status \in {"pending", "approved", "paid"}
  /\ Becomes(p, [Idle EXCEPT !.op = op, !.at = "write", !.due = {ClaimSnapshot(c, amount)}])
  /\ UNCHANGED <<runs, slips, loans, claims>>
\* approve and reject want a pending claim, update one that is not decided
\* against and not paid; approve and update may change the amount.
BeginClaim(p, op, c, amount) ==
  /\ Free(p, op)
  /\ \/ op \in {"approveClaim", "rejectClaim"} /\ claims[c].status = "pending"
     \/ op = "updateClaim" /\ claims[c].status \in {"pending", "approved"}
  /\ Becomes(p, [Idle EXCEPT !.op = op, !.at = "write", !.due = {ClaimSnapshot(c, amount)}])
  /\ UNCHANGED <<runs, slips, loans, claims>>

WriteClaim(p, f) ==
  /\ req[p].op \in {"approveClaim", "rejectClaim", "updateClaim"} /\ f \in req[p].due
  /\ LET row == claims[f.claim]
     IN SetClaim(f.claim,
          CASE req[p].op = "approveClaim" -> [row EXCEPT !.status = "approved", !.amount = f.amount]
            [] req[p].op = "rejectClaim" -> [row EXCEPT !.status = "rejected"]
            [] req[p].op = "updateClaim" -> [row EXCEPT !.amount = f.amount])
  /\ Respond(p)
  /\ UNCHANGED <<runs, slips, loans>>

\* markPaid of a claim looks at nothing; remove takes a claim in any status.
PayClaim(c, period) ==
  /\ "payClaim" \in Ops /\ Stored(claims[c])
  /\ SetClaim(c, [claims[c] EXCEPT !.status = "paid", !.paidIn = period])
  /\ UNCHANGED <<runs, slips, loans, req>>

RemoveClaim(c) ==
  /\ "removeClaim" \in Ops /\ Stored(claims[c])
  /\ SetClaim(c, [claims[c] EXCEPT !.status = "deleted"])
  /\ UNCHANGED <<runs, slips, loans, req>>

-----------------------------------------------------------------------------
(* The handler of p throws, or its server stops: what it wrote stays. *)
Crash(p) ==
  /\ req[p].op \in CrashOps
  /\ Respond(p)
  /\ UNCHANGED <<runs, slips, loans, claims>>

RunStep(p) ==
  \/ \E r \in Runs : \/ BeginCreateRun(p, r) \/ BeginCompute(p, r) \/ BeginApprove(p, r)
                     \/ BeginMarkPaid(p, r) \/ BeginCancelRun(p, r) \/ BeginRevert(p, r)
                     \/ BeginRerun(p, r) \/ BeginDeleteRun(p, r)
  \/ InsertRun(p) \/ WipeSlips(p) \/ MarkSlipsPaid(p) \/ CollectLines(p) \/ WriteRun(p)
  \/ \E e \in Employees : SkipEmployee(p, e) \/ ReadLoans(p, e)
  \/ \E d \in req[p].owed : DebitLoan(p, d)
  \/ \E d \in req[p].debits : RestoreLoan(p, d)
  \/ \E f \in req[p].due : RefundClaim(p, f)
  \/ \E f \in req[p].refunds : RestoreClaim(p, f)
  \/ ReadClaims(p) \/ InsertPayslip(p)
  \/ Crash(p)

RowStep(p) ==
  \/ \E l \in Loans : \/ \E payment \in Payments : BeginRecordPayment(p, l, payment)
                      \/ \E principal \in Principals : BeginUpdateLoan(p, l, principal)
  \/ \E d \in req[p].owed : \/ WritePayment(p, d)
                            \/ \E emi \in Instalments : WriteLoanUpdate(p, d, emi)
  \/ \E op \in Ops, c \in Claims, amount \in Expenses : BeginClaim(p, op, c, amount)
  \/ \E f \in req[p].due : WriteClaim(p, f)

Atomic ==
  \/ \E l \in Loans : \/ \E principal \in Principals, emi \in Instalments :
                           CreateLoan(l, principal, emi)
                      \/ CancelLoan(l) \/ DeleteLoan(l)
  \/ \E c \in Claims : \/ \E amount \in Expenses : SubmitClaim(c, amount)
                       \/ \E period \in Periods : PayClaim(c, period)
                       \/ RemoveClaim(c)

Next == Atomic \/ \E p \in Procs : RunStep(p) \/ RowStep(p)

Spec == Init /\ [][Next]_vars

-----------------------------------------------------------------------------
(* Properties *)

Quiet == \A p \in Procs : req[p] = Idle

\* Everything the stored payslips took for loan l.
Deducted(l) ==
  LET lines == {x \in UNION {{s} \X s.debits : s \in slips} : x[2].loan = l}
  IN MapThenSumSet(LAMBDA x : x[2].amount, lines)

\* To the paisa while something is owed; the line that settles a loan is rounded, and
\* may take up to half a rupee more than was left.
Balanced(l) ==
  /\ loans[l].outstanding > 0 => loans[l].principal = loans[l].outstanding + Deducted(l)
  /\ loans[l].outstanding = 0 =>
       loans[l].principal <= Deducted(l) /\ Deducted(l) <= loans[l].principal + 50

LinesOf(c) == {x \in UNION {{s} \X s.refunds : s \in slips} : x[2].claim = c}

\* Every table and every handler keeps its shape.
TypeOK ==
  /\ runs \in [Runs -> RunStatus]
  /\ slips \subseteq Payslip
  /\ loans \in [Loans -> Loan]
  /\ claims \in [Claims -> Claim]
  /\ req \in [Procs -> Request]

\* No employee is left with an active loan that nothing is owed on: whoever
\* writes an outstanding of zero (computePayroll, recordPayment, an edit)
\* completes the loan in the same statement, and what a revert writes back was
\* owed.  (A loan created with a principal of zero is the documented exception.)
ActiveOwes ==
  \A l \in Loans : loans[l].status = "active" /\ loans[l].principal > 0 => loans[l].outstanding > 0

\* A loan never owes more than was lent: no order of deductions, payments,
\* reverts and failures makes outstanding_amount exceed principal_amount, as
\* long as nobody edits the principal.
OwesAtMostPrincipal == \A l \in Loans : loans[l].outstanding <= loans[l].principal

\* What was lent is either still owed or shown on a stored payslip: when a
\* computation has come to its last statement, neither it nor what rerunRun and
\* deleteRun did before, also where they stopped half way, has taken an instalment
\* twice or forgotten one.  Although the lines are rounded and the balance is not,
\* nothing adds up: only the line that settles a loan is off, by half a rupee at most.
LedgerBalanced ==
  \A p \in Procs :
    req[p].op = "computePayroll" /\ req[p].at = "write" => \A l \in Loans : Balanced(l)

\* Taking a run back gives everything back: when no run is computed, every loan
\* owes its whole principal again, also when rerunRun or deleteRun stopped
\* half way and was repeated (the snapshots are replayed, not subtracted).
UndoneOwesAll ==
  Quiet /\ (\A r \in Runs : runs[r] \in {"absent", "draft", "deleted"})
    => \A l \in Loans : loans[l].outstanding = loans[l].principal

\* A retried computation leaves the ledger right: when every run is computed
\* (none is in draft after a failure), the payslips account for every loan.
RetryBalances ==
  Quiet /\ (\A r \in Runs : StoredRun(r) => runs[r] = "computed") => \A l \in Loans : Balanced(l)

\* No claim is paid twice: a claim is on at most one stored payslip.
ClaimPaidOnce == \A c \in Claims : \A x, y \in LinesOf(c) : x = y

\* A claim marked paid is on a payslip of the month it is marked with, and a
\* claim on a stored payslip is marked paid: computePayroll and the revert of
\* rerunRun and deleteRun move claim and payslip together.
PaidClaimOnPayslip ==
  Quiet => \A c \in Claims :
    /\ claims[c].status = "paid" <=> LinesOf(c) # {}
    /\ \A x \in LinesOf(c) : claims[c].paidIn = PeriodOf[x[1].run]

\* The payslip of a paid claim shows the claim's amount in whole rupees:
\* reimbursement.update refuses a paid claim so that the two do not drift apart.
RefundShowsClaim ==
  \A c \in Claims :
    claims[c].status = "paid" => \A x \in LinesOf(c) : x[2].amount = Rounded(claims[c].amount)

\* Between requests a run that is not computed has no payslips, and those of a
\* paid run, and only those, are marked paid.
SlipsFollowRun ==
  Quiet => \A s \in slips : /\ runs[s.run] \in {"computed", "approved", "paid"}
                            /\ s.status = "paid" <=> runs[s.run] = "paid"

=============================================================================
