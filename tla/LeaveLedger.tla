---------------------------- MODULE LeaveLedger ----------------------------
(***************************************************************************)
(* Leave applications, the balances they are charged to and the attendance *)
(* rows they put on the grid (apps/core-api: services/leave, and the punch *)
(* of services/attendance), for one organisation and one fiscal year.      *)
(*                                                                         *)
(* Every await of a handler is a step, and what it read before stays in    *)
(* req.  Only approveLeave and rejectLeave run in a transaction: theirs    *)
(* holds the lock on the application from its first statement to commit,   *)
(* and reads the balance of a snapshot.  Days of leave are counted in      *)
(* halves.                                                                 *)
(***************************************************************************)
EXTENDS Integers, FiniteSetsExt, Sequences

CONSTANTS
  Procs,         \* concurrent requests
  Employees,
  Types,         \* leave types, each with its policy
  NoApproval,    \* types that do not require approval
  CarryForward,  \* types whose unused days pass to the next period
  Quota,         \* half-days a policy gives per period
  Periods,       \* periods in the fiscal year
  PeriodLength,  \* days in a period
  WorkDays,      \* days that are neither week-off nor mandatory holiday
  Spans,         \* bound: the dates and halves requests ask for
  Counts,        \* bound: the days_count an edit sends
  Extras,        \* bound: extra_allocated of a correction
  Uses,          \* bound: total_used of an override
  Punches,       \* bound: what a punch makes of a day
  Ops,           \* the endpoints in use
  MaxApplications \* bound: rows of leave_applications

Days == 1..Periods * PeriodLength
Half == {"full", "first_half", "second_half"}
Span == [first : Days, last : Days, half : Half]

LeaveOps == {"applyLeave", "updateLeave", "approveLeave", "rejectLeave", "cancelLeave"}
AdminOps == {"overrideBalance", "bulkOverrideBalance", "resetPeriodUsage"}
AllOps == LeaveOps \cup AdminOps \cup {"getBalances", "punch", "tomorrow"}

ASSUME TypesAssumption == NoApproval \subseteq Types /\ CarryForward \subseteq Types
ASSUME CalendarAssumption ==
  Quota \in Nat /\ Periods \in Nat \ {0} /\ PeriodLength \in Nat \ {0} /\ WorkDays \subseteq Days
ASSUME InputAssumption ==
  /\ Spans \subseteq {s \in Span : s.first <= s.last}
  /\ Counts \subseteq Nat \ {0} /\ Extras \subseteq Int /\ Uses \subseteq Nat
  /\ Punches \subseteq {"absent", "present", "half_day"}
  /\ Ops \subseteq AllOps /\ MaxApplications \in Nat

VARIABLES
  today,
  apps,      \* leave_applications
  balances,  \* leave_balances of the fiscal year
  grid,      \* status of attendance_records
  req        \* the handler of each process

vars == <<today, apps, balances, grid, req>>

-----------------------------------------------------------------------------
(* Rows *)

Status == {"pending", "approved", "rejected", "cancelled"}
Application == [user : Employees, type : Types, span : Span, days : Nat, status : Status]

\* overridden: overridden_at is set, HR has corrected the row by hand.
Columns == {"extra", "used", "balance", "period", "key", "overridden"}
Balance == [extra : Int, used : Nat, balance : Nat, period : Nat, key : Nat, overridden : BOOLEAN]

Attendance == {"none", "absent", "present", "half_day", "on_leave"}

NonNeg(n) == IF n < 0 THEN 0 ELSE n
Allocation == Quota * Periods  \* total_allocated
PeriodOf(day) == (day - 1) \div PeriodLength
DaysOf(s) == s.first..s.last

NewBalance == [extra |-> 0, used |-> 0, balance |-> Allocation, period |-> 0, key |-> 0,
               overridden |-> FALSE]

\* app is the application as read, or as it will be written; row the balance to
\* write, of which cols are the columns written.
Places == {"idle", "overlap", "write", "charge", "approve", "commit", "reject", "cancel",
           "credit", "row", "clear"}
Idle == [op |-> "idle", at |-> "idle", id |-> 0, app |-> {}, row |-> NewBalance, cols |-> {}]

Key(app) == <<app.user, app.type>>
Live(app) == app.status \in {"pending", "approved"}

Free(p, op) == op \in Ops /\ req[p].at = "idle"
Becomes(p, handler) == req' = [req EXCEPT ![p] = handler]
Respond(p) == Becomes(p, Idle)

\* No other transaction holds the row.
Unlocked(p) == \A q \in Procs \ {p} : ~(req[q].at = "commit" /\ req[q].id = req[p].id)

Init ==
  /\ today = 1 /\ apps = <<>>
  /\ balances = [k \in Employees \X Types |-> NewBalance]
  /\ grid = [e \in Employees |-> [d \in Days |-> "none"]]
  /\ req = [p \in Procs |-> Idle]

-----------------------------------------------------------------------------
(* Balances *)

\* applyLazyPeriodRollover, which getBalances does to every balance it returns.
Rolled(row, t) ==
  IF row.key = PeriodOf(today) THEN row
  ELSE [row EXCEPT !.key = PeriodOf(today), !.period = IF t \in CarryForward THEN @ ELSE 0]

RollOver(e) ==
  balances' = [k \in Employees \X Types |->
                 IF k[1] = e THEN Rolled(balances[k], k[2]) ELSE balances[k]]

\* deriveAvailable
Available(row, t) ==
  NonNeg(IF t \in CarryForward THEN Quota * (PeriodOf(today) + 1) + row.extra - row.used
                               ELSE Quota + row.extra - row.period)

GetBalances(e) ==
  /\ "getBalances" \in Ops
  /\ RollOver(e)
  /\ UNCHANGED <<today, apps, grid, req>>

InThisPeriod(app) == PeriodOf(app.span.first) = PeriodOf(today)

Charged(row, app) ==
  [row EXCEPT !.used = @ + app.days, !.balance = NonNeg(@ - app.days),
              !.period = IF InThisPeriod(app) THEN @ + app.days ELSE @]

Credited_UsedOnly(row, app) ==
  [row EXCEPT !.used = NonNeg(@ - app.days),
              !.period = IF InThisPeriod(app) THEN NonNeg(@ - app.days) ELSE @]
Credited(row, app) ==
  [row EXCEPT !.used = NonNeg(@ - app.days), !.balance = @ + app.days,
              !.period = IF InThisPeriod(app) THEN NonNeg(@ - app.days) ELSE @]

Usage == {"used", "balance", "period"}

\* An UPDATE of some columns with values computed from the row read before.
Written(row, new, cols) ==
  [row EXCEPT !.extra = IF "extra" \in cols THEN new.extra ELSE @,
              !.used = IF "used" \in cols THEN new.used ELSE @,
              !.balance = IF "balance" \in cols THEN new.balance ELSE @,
              !.period = IF "period" \in cols THEN new.period ELSE @,
              !.overridden = IF "overridden" \in cols THEN new.overridden ELSE @]

WriteRow(p) ==
  LET r == req[p]
  IN /\ r.at = "row"
     /\ balances' = [balances EXCEPT ![Key(r.app)] = Written(@, r.row, r.cols)]
     /\ IF r.op = "cancelLeave" THEN Becomes(p, [r EXCEPT !.at = "clear"]) ELSE Respond(p)
     /\ UNCHANGED <<today, apps, grid>>

-----------------------------------------------------------------------------
(* applyLeave and updateLeave *)

DaysCount(s) == IF s.half # "full" THEN 1 ELSE 2 * Cardinality(WorkDays \cap DaysOf(s))

\* The balance must cover the days; a request it does not cover has done what
\* GetBalances does.
CheckBalance(p, op, id, app) ==
  /\ app.days > 0
  /\ app.days <= Available(Rolled(balances[Key(app)], app.type), app.type)
  /\ RollOver(app.user)
  /\ Becomes(p, [Idle EXCEPT !.op = op, !.at = "overlap", !.id = id, !.app = app])
  /\ UNCHANGED <<today, apps, grid>>

BeginApply(p, e, t, s) ==
  /\ Free(p, "applyLeave") /\ Len(apps) < MaxApplications
  /\ CheckBalance(p, "applyLeave", 0,
                  [user |-> e, type |-> t, span |-> s, days |-> DaysCount(s),
                   status |-> IF t \in NoApproval THEN "approved" ELSE "pending"])

\* Unlike applyLeave, an edit takes the days_count it is sent, or else the old one.
EditedCount(s, count) ==
  LET inclusive == 2 * (s.last - s.first + 1)
  IN IF s.half # "full" THEN 1 ELSE IF count > inclusive THEN inclusive ELSE count

BeginUpdate(p, i, t, s, count) ==
  /\ Free(p, "updateLeave")
  /\ apps[i].status = "pending"
  /\ CheckBalance(p, "updateLeave", i,
                  [apps[i] EXCEPT !.type = t, !.span = s, !.days = EditedCount(s, count)])

OppositeHalves(s, u) ==
  /\ s.first = s.last /\ u.first = u.last /\ s.first = u.first
  /\ "full" \notin {s.half, u.half} /\ s.half # u.half

Clash(a, b) ==
  /\ a.user = b.user
  /\ a.span.first <= b.span.last /\ b.span.first <= a.span.last
  /\ ~OppositeHalves(a.span, b.span)

Overlaps_PendingOnly(p) ==
  \E i \in DOMAIN apps \ {req[p].id} : apps[i].status = "pending" /\ Clash(apps[i], req[p].app)
Overlaps(p) == \E i \in DOMAIN apps \ {req[p].id} : Live(apps[i]) /\ Clash(apps[i], req[p].app)

CheckOverlap(p) ==
  /\ req[p].at = "overlap"
  /\ IF Overlaps(p) THEN Respond(p) ELSE Becomes(p, [req[p] EXCEPT !.at = "write"])
  /\ UNCHANGED <<today, apps, balances, grid>>

\* A type that needs no approval is charged at once, in statements of their own.
InsertApplication(p) ==
  /\ req[p].at = "write" /\ req[p].op = "applyLeave"
  /\ apps' = Append(apps, req[p].app)
  /\ IF req[p].app.status = "approved" THEN Becomes(p, [req[p] EXCEPT !.at = "charge"])
                                       ELSE Respond(p)
  /\ UNCHANGED <<today, balances, grid>>

\* The edit leaves the status the row has by now.
UpdateApplication(p) ==
  LET r == req[p]
  IN /\ r.at = "write" /\ r.op = "updateLeave" /\ Unlocked(p)
     /\ apps' = [apps EXCEPT ![r.id] = [r.app EXCEPT !.status = apps[r.id].status]]
     /\ Respond(p)
     /\ UNCHANGED <<today, balances, grid>>

\* deductBalance
Charge(p) ==
  LET r == req[p]
  IN /\ r.at = "charge"
     /\ Becomes(p, [r EXCEPT !.at = "row", !.row = Charged(balances[Key(r.app)], r.app),
                             !.cols = Usage])
     /\ UNCHANGED <<today, apps, balances, grid>>

-----------------------------------------------------------------------------
(* approveLeave, rejectLeave and cancelLeave *)

BeginDecision(p, op, at, i) ==
  /\ Free(p, op)
  /\ Becomes(p, [Idle EXCEPT !.op = op, !.at = at, !.id = i, !.app = apps[i]])
  /\ UNCHANGED <<today, apps, balances, grid>>

BeginApprove(p, i) == apps[i].status = "pending" /\ BeginDecision(p, "approveLeave", "approve", i)
BeginReject(p, i) == apps[i].status = "pending" /\ BeginDecision(p, "rejectLeave", "reject", i)

\* The transaction reads the balance again and rolls back if it is too low by now.
ReadBalance(p) ==
  LET r == req[p]
      row == balances[Key(r.app)]
  IN /\ r.at = "approve" /\ Unlocked(p)
     /\ IF row.balance < r.app.days THEN Respond(p)
        ELSE Becomes(p, [r EXCEPT !.at = "commit", !.row = Charged(row, r.app), !.cols = Usage])
     /\ UNCHANGED <<today, apps, balances, grid>>

\* A day without attendance, or absent, becomes leave; no punch is overwritten.
OnLeave(days, s) ==
  [d \in Days |-> IF d \in DaysOf(s) /\ days[d] \in {"none", "absent"}
                    THEN IF s.half = "full" THEN "on_leave" ELSE "half_day"
                    ELSE days[d]]

CommitApproval(p) ==
  LET r == req[p]
  IN /\ r.at = "commit"
     /\ apps' = [apps EXCEPT ![r.id].status = "approved"]
     /\ balances' = [balances EXCEPT ![Key(r.app)] = Written(@, r.row, r.cols)]
     /\ grid' = [grid EXCEPT ![r.app.user] = OnLeave(@, r.app.span)]
     /\ Respond(p)
     /\ UNCHANGED today

Reject(p) ==
  /\ req[p].at = "reject" /\ Unlocked(p)
  /\ apps' = [apps EXCEPT ![req[p].id].status = "rejected"]
  /\ Respond(p)
  /\ UNCHANGED <<today, balances, grid>>

\* Not once it has started.
BeginCancel(p, i) ==
  /\ Live(apps[i]) /\ apps[i].span.first >= today
  /\ BeginDecision(p, "cancelLeave", "cancel", i)

Cancel_AlwaysCredits(p) ==
  /\ req[p].at = "cancel" /\ Unlocked(p)
  /\ apps' = [apps EXCEPT ![req[p].id].status = "cancelled"]
  /\ Becomes(p, [req[p] EXCEPT !.at = "credit"])
  /\ UNCHANGED <<today, balances, grid>>
\* The days come back if the status that was read is approved.
Cancel(p) ==
  /\ req[p].at = "cancel" /\ Unlocked(p)
  /\ apps' = [apps EXCEPT ![req[p].id].status = "cancelled"]
  /\ IF req[p].app.status = "approved" THEN Becomes(p, [req[p] EXCEPT !.at = "credit"])
                                       ELSE Respond(p)
  /\ UNCHANGED <<today, balances, grid>>

\* creditBalance
Credit(p) ==
  LET r == req[p]
  IN /\ r.at = "credit"
     /\ Becomes(p, [r EXCEPT !.at = "row", !.row = Credited(balances[Key(r.app)], r.app),
                             !.cols = Usage])
     /\ UNCHANGED <<today, apps, balances, grid>>

Cleared_FirstDay(days, s) ==
  [d \in Days |-> IF d = s.first /\ days[d] \in {"on_leave", "half_day"} THEN "none" ELSE days[d]]
Cleared(days, s) ==
  [d \in Days |-> IF d \in DaysOf(s) /\ days[d] \in {"on_leave", "half_day"} THEN "none" ELSE days[d]]

ClearGrid(p) ==
  LET r == req[p]
  IN /\ r.at = "clear"
     /\ grid' = [grid EXCEPT ![r.app.user] = Cleared(@, r.app.span)]
     /\ Respond(p)
     /\ UNCHANGED <<today, apps, balances>>

-----------------------------------------------------------------------------
(* HR's corrections, attendance and time *)

Remaining_Unfloored(extra, used) == Allocation + extra - used
Remaining(extra, used) == NonNeg(Allocation + extra - used)

\* The correction of the balance of e and t that will write the columns of new.
BeginCorrection(p, op, e, t, new, cols) ==
  /\ Free(p, op)
  /\ Becomes(p, [Idle EXCEPT !.op = op, !.at = "row", !.app = [user |-> e, type |-> t],
                             !.row = [new EXCEPT !.overridden = TRUE],
                             !.cols = cols \cup {"overridden"}])
  /\ UNCHANGED <<today, apps, balances, grid>>

\* extra_allocated_delta is what leads to extra.
BeginBulkOverride(p, e, t, extra) ==
  BeginCorrection(p, "bulkOverrideBalance", e, t,
    [balances[<<e, t>>] EXCEPT !.extra = extra, !.balance = Remaining(extra, balances[<<e, t>>].used)],
    {"extra", "balance"})

\* extra_allocated, total_used or both; with neither, only the override is noted.
BeginOverride(p, e, t, new, cols) ==
  LET row == Written(balances[<<e, t>>], new, cols)
  IN BeginCorrection(p, "overrideBalance", e, t,
       [row EXCEPT !.balance = Remaining(row.extra, row.used)],
       IF cols = {} THEN {} ELSE cols \cup {"balance"})

\* balance keeps its value, and with it what an approval compares with.
BeginReset(p, e, t) ==
  BeginCorrection(p, "resetPeriodUsage", e, t,
    [balances[<<e, t>>] EXCEPT !.used = 0, !.period = 0], {"used", "period"})

\* recordPunch gives today a status from the punches alone.
Punch(e, status) ==
  /\ "punch" \in Ops
  /\ grid' = [grid EXCEPT ![e][today] = status]
  /\ UNCHANGED <<today, apps, balances, req>>

Tomorrow ==
  /\ "tomorrow" \in Ops /\ today + 1 \in Days
  /\ today' = today + 1
  /\ UNCHANGED <<apps, balances, grid, req>>

Request(p) ==
  \/ \E e \in Employees, t \in Types, s \in Spans : BeginApply(p, e, t, s)
  \/ \E i \in DOMAIN apps, t \in Types, s \in Spans :
       \E count \in Counts \cup {apps[i].days} : BeginUpdate(p, i, t, s, count)
  \/ \E i \in DOMAIN apps : BeginApprove(p, i) \/ BeginReject(p, i) \/ BeginCancel(p, i)
  \/ \E e \in Employees, t \in Types :
       \/ \E extra \in Extras : BeginBulkOverride(p, e, t, extra)
       \/ \E extra \in Extras, used \in Uses, cols \in SUBSET {"extra", "used"} :
            BeginOverride(p, e, t, [NewBalance EXCEPT !.extra = extra, !.used = used], cols)
       \/ BeginReset(p, e, t)

Statement(p) ==
  \/ CheckOverlap(p) \/ InsertApplication(p) \/ UpdateApplication(p)
  \/ ReadBalance(p) \/ CommitApproval(p) \/ Reject(p) \/ Cancel(p)
  \/ Charge(p) \/ Credit(p) \/ WriteRow(p) \/ ClearGrid(p)

Next ==
  \/ \E p \in Procs : Request(p) \/ Statement(p)
  \/ \E e \in Employees : GetBalances(e) \/ \E status \in Punches : Punch(e, status)
  \/ Tomorrow

Spec == Init /\ [][Next]_vars

-----------------------------------------------------------------------------
(* Properties *)

Quiet == \A p \in Procs : req[p].at = "idle"

\* The approved applications charged to a balance.
Approved(k) == {i \in DOMAIN apps : Key(apps[i]) = k /\ apps[i].status = "approved"}

\* Types only, but with leave_balances.balance never negative, whatever runs at the
\* same time: the first half of checkLeaveBalanceIntegrity.
TypeOK ==
  /\ today \in Days /\ apps \in Seq(Application)
  /\ balances \in [Employees \X Types -> Balance]
  /\ grid \in [Employees -> [Days -> Attendance]]

\* total_used is the sum of the days of the approved applications, as the admin's
\* checkLeaveBalanceIntegrity wants it, until HR corrects the row by hand: no order
\* of applying, editing, deciding, cancelling and period rollovers loses a day.
UsedIsApproved ==
  Quiet => \A k \in DOMAIN balances :
    ~balances[k].overridden => balances[k].used = MapThenSumSet(LAMBDA i : apps[i].days, Approved(k))

\* What is left and what was used always make up what was allocated, so that
\* approveLeave, which looks at balance, and applyLeave, which looks at usage,
\* agree, and no approval or refund goes astray in the floors at zero.  Not for a
\* type that needs no approval and does not carry forward: the only check of its
\* applications is applyLeave's against the quota of the period of today, and
\* those for the periods ahead can together take more than the year gives.
BalanceIsWhatIsLeft ==
  Quiet => \A k \in DOMAIN balances :
    ~balances[k].overridden /\ k[2] \notin NoApproval \ CarryForward
      => balances[k].balance + balances[k].used = Allocation

\* No employee has two live applications for the same half-day, however they
\* were applied for and edited.
NoDayTwice ==
  \A i, j \in DOMAIN apps : i # j /\ Live(apps[i]) /\ Live(apps[j]) => ~Clash(apps[i], apps[j])

\* A day that payroll pays as leave is a day of a leave that is approved now: a
\* cancelled one leaves nothing on the grid.
LeaveRowIsApproved ==
  Quiet => \A e \in Employees, d \in Days :
    grid[e][d] = "on_leave" =>
      \E i \in DOMAIN apps : /\ apps[i].user = e /\ apps[i].status = "approved"
                             /\ apps[i].span.half = "full" /\ d \in DaysOf(apps[i].span)

=============================================================================
