------------------------- MODULE LeaveLedgerProofs -------------------------
(***************************************************************************)
(* Theorems of LeaveLedger, for any number of employees, types, periods    *)
(* and applications.                                                       *)
(***************************************************************************)
EXTENDS LeaveLedger, SumTheorems, SequenceTheorems, TLAPS

\* From its first step to its last a handler of an application knows it, and a
\* decision or an edit the row it is about; a correction knows only the balance.
Target == [user : Employees, type : Types]
OfRow == {"approve", "commit", "reject", "cancel"}

Handler ==
  [op : AllOps \cup {"idle"}, at : Places, id : Nat, app : Application \cup Target \cup {{}},
   row : Balance, cols : SUBSET Columns]

WellPlaced(handler) ==
  /\ handler.at \notin {"idle", "row"} => handler.app \in Application
  /\ handler.at = "row" => handler.app \in Application \cup Target
  /\ handler.at = "row" /\ handler.op \in {"applyLeave", "cancelLeave"} => handler.app \in Application

\* The row a handler writes is one of leave_applications, whose ids are rows.
HasRow(handler, rows) ==
  handler.at \in OfRow \/ (handler.at \in {"overlap", "write"} /\ handler.op = "updateLeave")
    => handler.id \in rows

TypeInv ==
  /\ TypeOK
  /\ req \in [Procs -> Handler]
  /\ \A p \in Procs : WellPlaced(req[p]) /\ HasRow(req[p], DOMAIN apps)

-----------------------------------------------------------------------------
(* Pieces *)

LEMMA SeqAppend ==
  ASSUME NEW S, NEW seq \in Seq(S), NEW x \in S
  PROVE  /\ Append(seq, x) \in Seq(S)
         /\ DOMAIN seq \subseteq DOMAIN Append(seq, x)
         /\ \A i \in DOMAIN seq : Append(seq, x)[i] = seq[i]
         /\ \A i \in DOMAIN Append(seq, x) : i \in DOMAIN seq \/ Append(seq, x)[i] = x
OBVIOUS

LEMMA SeqReplace ==
  ASSUME NEW S, NEW seq \in Seq(S), NEW i \in DOMAIN seq, NEW x \in S
  PROVE  [seq EXCEPT ![i] = x] \in Seq(S) /\ DOMAIN [seq EXCEPT ![i] = x] = DOMAIN seq
BY ExceptSeq

LEMMA SeqElement ==
  ASSUME NEW S, NEW seq \in Seq(S), NEW i \in DOMAIN seq
  PROVE  seq[i] \in S /\ i \in Nat
OBVIOUS

LEMMA NonNegType == ASSUME NEW n \in Int PROVE NonNeg(n) \in Nat
BY DEF NonNeg

LEMMA PeriodType == ASSUME NEW d \in Days PROVE PeriodOf(d) \in Nat
<1>1. PeriodLength \in Nat \ {0} /\ d - 1 \in Nat
  BY CalendarAssumption DEF Days
<1> QED BY <1>1 DEF PeriodOf

LEMMA AllocationType == Allocation \in Nat
BY CalendarAssumption DEF Allocation

LEMMA NewBalanceType == NewBalance \in Balance
BY AllocationType DEF NewBalance, Balance

LEMMA IdleType == Idle \in Handler /\ WellPlaced(Idle) /\ \A rows : HasRow(Idle, rows)
BY NewBalanceType DEF Idle, Handler, WellPlaced, HasRow, Places, OfRow

LEMMA SpanType == ASSUME NEW s \in Spans PROVE s \in Span
BY InputAssumption

LEMMA DaysCountType == ASSUME NEW s \in Span PROVE DaysCount(s) \in Nat
<1>1. IsFiniteSet(DaysOf(s))
  BY FS_Interval DEF DaysOf, Span, Days
<1>2. IsFiniteSet(WorkDays \cap DaysOf(s))
  BY <1>1, FS_Subset
<1>3. Cardinality(WorkDays \cap DaysOf(s)) \in Nat
  BY <1>2, FS_CardinalityType
<1> QED BY <1>3 DEF DaysCount

LEMMA EditedCountType ==
  ASSUME NEW s \in Spans, NEW count \in Nat
  PROVE  EditedCount(s, count) \in Nat
BY SpanType, InputAssumption DEF EditedCount, Span, Days

LEMMA RolledType ==
  ASSUME TypeOK, NEW row \in Balance, NEW t
  PROVE  Rolled(row, t) \in Balance
BY PeriodType DEF TypeOK, Rolled, Balance

LEMMA RollOverType ==
  ASSUME TypeOK, NEW e, RollOver(e)
  PROVE  balances' \in [Employees \X Types -> Balance]
BY RolledType DEF TypeOK, RollOver

LEMMA UsageType ==
  ASSUME NEW row \in Balance, NEW app \in Application
  PROVE  Charged(row, app) \in Balance /\ Credited(row, app) \in Balance
<1>1. app.days \in Nat /\ row.used \in Nat /\ row.balance \in Nat /\ row.period \in Nat
  BY DEF Balance, Application
<1>2. /\ NonNeg(row.balance - app.days) \in Nat /\ NonNeg(row.used - app.days) \in Nat
      /\ NonNeg(row.period - app.days) \in Nat
  BY <1>1 DEF NonNeg
<1>3. ASSUME NEW used \in Nat, NEW balance \in Nat, NEW period \in Nat
      PROVE  [row EXCEPT !.used = used, !.balance = balance, !.period = period] \in Balance
  BY DEF Balance
<1>4. Charged(row, app) \in Balance
  <2>1. (IF InThisPeriod(app) THEN row.period + app.days ELSE row.period) \in Nat
    BY <1>1
  <2>2. row.used + app.days \in Nat
    BY <1>1
  <2> QED BY <1>2, <1>3, <2>1, <2>2, Zenon DEF Charged
<1>5. Credited(row, app) \in Balance
  <2>1. (IF InThisPeriod(app) THEN NonNeg(row.period - app.days) ELSE row.period) \in Nat
    BY <1>1, <1>2
  <2>2. row.balance + app.days \in Nat
    BY <1>1
  <2> QED BY <1>2, <1>3, <2>1, <2>2, Zenon DEF Credited
<1> QED BY <1>4, <1>5

LEMMA WrittenType ==
  ASSUME NEW row \in Balance, NEW new \in Balance, NEW cols
  PROVE  Written(row, new, cols) \in Balance
BY DEF Written, Balance

LEMMA RemainingType ==
  ASSUME NEW extra \in Int, NEW used \in Nat
  PROVE  Remaining(extra, used) \in Nat
BY NonNegType, AllocationType DEF Remaining

\* The balance an application is charged to.
LEMMA BalanceOf ==
  ASSUME TypeOK, NEW app \in Application \cup Target
  PROVE  Key(app) \in Employees \X Types /\ balances[Key(app)] \in Balance
BY DEF TypeOK, Key, Application, Target

\* A handler that moves on while the applications stay, or grow, keeps the invariant.
LEMMA HandlerMoves ==
  ASSUME TypeInv, NEW p \in Procs, NEW handler \in Handler, Becomes(p, handler),
         WellPlaced(handler), HasRow(handler, DOMAIN apps'), TypeOK', DOMAIN apps \subseteq DOMAIN apps'
  PROVE  TypeInv'
BY DEF TypeInv, Becomes, HasRow

LEMMA HandlerResponds ==
  ASSUME TypeInv, NEW p \in Procs, Respond(p), TypeOK', DOMAIN apps \subseteq DOMAIN apps'
  PROVE  TypeInv'
BY IdleType, HandlerMoves DEF Respond

-----------------------------------------------------------------------------
(* Type correctness *)

LEMMA CheckBalanceType ==
  ASSUME TypeInv, NEW p \in Procs, NEW op \in AllOps, NEW id \in Nat, NEW app \in Application,
         op = "updateLeave" => id \in DOMAIN apps, CheckBalance(p, op, id, app)
  PROVE  TypeInv'
<1> DEFINE handler == [Idle EXCEPT !.op = op, !.at = "overlap", !.id = id, !.app = app]
<1>1. handler \in Handler /\ WellPlaced(handler)
  BY NewBalanceType DEF Idle, Handler, WellPlaced, Places
<1>2. HasRow(handler, DOMAIN apps')
  BY DEF HasRow, Idle, OfRow, CheckBalance
<1>3. TypeOK' /\ DOMAIN apps' = DOMAIN apps
  BY RollOverType DEF CheckBalance, TypeInv, TypeOK
<1> QED BY <1>1, <1>2, <1>3, HandlerMoves DEF CheckBalance

LEMMA BeginDecisionType ==
  ASSUME TypeInv, NEW p \in Procs, NEW op \in AllOps, NEW at \in {"approve", "reject", "cancel"},
         NEW i \in DOMAIN apps, BeginDecision(p, op, at, i)
  PROVE  TypeInv'
<1> DEFINE handler == [Idle EXCEPT !.op = op, !.at = at, !.id = i, !.app = apps[i]]
<1>1. apps[i] \in Application /\ i \in Nat
  BY SeqElement DEF TypeInv, TypeOK
<1>2. handler \in Handler /\ WellPlaced(handler)
  BY <1>1, NewBalanceType DEF Idle, Handler, WellPlaced, Places
<1>3. HasRow(handler, DOMAIN apps')
  BY DEF HasRow, Idle, OfRow, BeginDecision
<1>4. TypeOK' /\ DOMAIN apps' = DOMAIN apps
  BY DEF BeginDecision, TypeInv, TypeOK
<1> QED BY <1>2, <1>3, <1>4, HandlerMoves DEF BeginDecision

LEMMA BeginCorrectionType ==
  ASSUME TypeInv, NEW p \in Procs, NEW op \in AdminOps, NEW e \in Employees, NEW t \in Types,
         NEW new \in Balance, NEW cols \in SUBSET Columns, BeginCorrection(p, op, e, t, new, cols)
  PROVE  TypeInv'
<1> DEFINE handler == [Idle EXCEPT !.op = op, !.at = "row", !.app = [user |-> e, type |-> t],
                                   !.row = [new EXCEPT !.overridden = TRUE],
                                   !.cols = cols \cup {"overridden"}]
<1>1. [new EXCEPT !.overridden = TRUE] \in Balance
  BY DEF Balance
<1>2. handler \in Handler /\ WellPlaced(handler)
  BY <1>1 DEF Idle, Handler, WellPlaced, Places, Target, AllOps, AdminOps, Columns
<1>3. HasRow(handler, DOMAIN apps')
  BY DEF HasRow, Idle, OfRow, AdminOps
<1>4. TypeOK' /\ DOMAIN apps' = DOMAIN apps
  BY DEF BeginCorrection, TypeInv, TypeOK
<1> QED BY <1>2, <1>3, <1>4, HandlerMoves DEF BeginCorrection

\* The four kinds of request: to apply, to edit, to decide and to correct.
LEMMA RequestIs ==
  ASSUME TypeInv, NEW p \in Procs, Request(p)
  PROVE  \/ \E app \in Application :
              /\ CheckBalance(p, "applyLeave", 0, app) /\ req[p].at = "idle"
              /\ app.status = "approved" => app.type \in NoApproval
         \/ \E i \in DOMAIN apps, app \in Application :
              /\ CheckBalance(p, "updateLeave", i, app) /\ req[p].at = "idle"
              /\ apps[i].status = "pending"
         \/ \E i \in DOMAIN apps : BeginApprove(p, i) \/ BeginReject(p, i) \/ BeginCancel(p, i)
         \/ \E op \in AdminOps, e \in Employees, t \in Types, new \in Balance,
               cols \in SUBSET Columns : BeginCorrection(p, op, e, t, new, cols)
<1> USE DEF TypeInv
<1>1. ASSUME NEW e \in Employees, NEW t \in Types, NEW s \in Spans, BeginApply(p, e, t, s)
      PROVE  \E app \in Application :
               /\ CheckBalance(p, "applyLeave", 0, app) /\ req[p].at = "idle"
               /\ app.status = "approved" => app.type \in NoApproval
  <2> DEFINE app == [user |-> e, type |-> t, span |-> s, days |-> DaysCount(s),
                     status |-> IF t \in NoApproval THEN "approved" ELSE "pending"]
  <2>1. app \in Application
    BY SpanType, DaysCountType DEF Application, Status
  <2>2. CheckBalance(p, "applyLeave", 0, app) /\ req[p].at = "idle"
    BY <1>1, Zenon DEF BeginApply, Free
  <2>3. app.status = "approved" => app.type \in NoApproval
    OBVIOUS
  <2> QED BY <2>1, <2>2, <2>3, Zenon
<1>2. ASSUME NEW i \in DOMAIN apps, NEW t \in Types, NEW s \in Spans,
             NEW count \in Counts \cup {apps[i].days}, BeginUpdate(p, i, t, s, count)
      PROVE  \E app \in Application :
               /\ CheckBalance(p, "updateLeave", i, app) /\ req[p].at = "idle"
               /\ apps[i].status = "pending"
  <2> DEFINE app == [apps[i] EXCEPT !.type = t, !.span = s, !.days = EditedCount(s, count)]
  <2>1. apps[i] \in Application
    BY SeqElement DEF TypeOK
  <2>2. EditedCount(s, count) \in Nat
    BY <2>1, EditedCountType, InputAssumption DEF Application
  <2>3. app \in Application
    BY <2>1, <2>2, SpanType DEF Application
  <2> QED BY <1>2, <2>3 DEF BeginUpdate, Free
<1>3. ASSUME NEW e \in Employees, NEW t \in Types
      PROVE  <<e, t>> \in Employees \X Types /\ balances[<<e, t>>] \in Balance
  <2>1. <<e, t>> \in Employees \X Types
    OBVIOUS
  <2> QED BY <2>1, Zenon DEF TypeOK
<1>4. ASSUME NEW e \in Employees, NEW t \in Types, NEW extra \in Extras,
             BeginBulkOverride(p, e, t, extra)
      PROVE  \E op \in AdminOps, new \in Balance, cols \in SUBSET Columns :
               BeginCorrection(p, op, e, t, new, cols)
  <2>1. balances[<<e, t>>] \in Balance /\ extra \in Int
    BY <1>3, InputAssumption
  <2>2. balances[<<e, t>>].used \in Nat
    BY <2>1 DEF Balance
  <2>3. Remaining(extra, balances[<<e, t>>].used) \in Nat
    BY <2>1, <2>2, RemainingType
  <2>4. [balances[<<e, t>>] EXCEPT !.extra = extra, !.balance = Remaining(extra, balances[<<e, t>>].used)]
          \in Balance
    BY <2>1, <2>3 DEF Balance
  <2> QED BY <1>4, <2>4 DEF BeginBulkOverride, AdminOps, Columns
<1>5. ASSUME NEW e \in Employees, NEW t \in Types, NEW extra \in Extras, NEW used \in Uses,
             NEW cols \in SUBSET {"extra", "used"},
             BeginOverride(p, e, t, [NewBalance EXCEPT !.extra = extra, !.used = used], cols)
      PROVE  \E op \in AdminOps, new \in Balance, written \in SUBSET Columns :
               BeginCorrection(p, op, e, t, new, written)
  <2> DEFINE new == [NewBalance EXCEPT !.extra = extra, !.used = used]
             row == Written(balances[<<e, t>>], new, cols)
  <2>1. balances[<<e, t>>] \in Balance /\ extra \in Int /\ used \in Nat
    BY <1>3, InputAssumption
  <2>2. new \in Balance
    BY <2>1, NewBalanceType DEF Balance
  <2>3. row \in Balance
    BY <2>1, <2>2, WrittenType
  <2>4. [row EXCEPT !.balance = Remaining(row.extra, row.used)] \in Balance
    BY <2>3, RemainingType DEF Balance
  <2> QED BY <1>5, <2>4 DEF BeginOverride, AdminOps, Columns
<1>6. ASSUME NEW e \in Employees, NEW t \in Types, BeginReset(p, e, t)
      PROVE  \E op \in AdminOps, new \in Balance, cols \in SUBSET Columns :
               BeginCorrection(p, op, e, t, new, cols)
  <2>1. balances[<<e, t>>] \in Balance
    BY <1>3
  <2>2. [balances[<<e, t>>] EXCEPT !.used = 0, !.period = 0] \in Balance
    BY <2>1 DEF Balance
  <2> QED BY <1>6, <2>2 DEF BeginReset, AdminOps, Columns
<1> QED BY <1>1, <1>2, <1>4, <1>5, <1>6 DEF Request

LEMMA RequestType ==
  ASSUME TypeInv, NEW p \in Procs, Request(p)
  PROVE  TypeInv'
<1>1. ASSUME NEW app \in Application, CheckBalance(p, "applyLeave", 0, app)
      PROVE  TypeInv'
  BY <1>1, CheckBalanceType DEF AllOps, LeaveOps
<1>2. ASSUME NEW i \in DOMAIN apps, NEW app \in Application, CheckBalance(p, "updateLeave", i, app)
      PROVE  TypeInv'
  <2>1. i \in Nat
    BY SeqElement DEF TypeInv, TypeOK
  <2> QED BY <1>2, <2>1, CheckBalanceType DEF AllOps, LeaveOps
<1>3. ASSUME NEW i \in DOMAIN apps, BeginApprove(p, i) \/ BeginReject(p, i) \/ BeginCancel(p, i)
      PROVE  TypeInv'
  BY <1>3, BeginDecisionType DEF BeginApprove, BeginReject, BeginCancel, AllOps, LeaveOps
<1>4. ASSUME NEW op \in AdminOps, NEW e \in Employees, NEW t \in Types, NEW new \in Balance,
             NEW cols \in SUBSET Columns, BeginCorrection(p, op, e, t, new, cols)
      PROVE  TypeInv'
  BY <1>4, BeginCorrectionType
<1> QED BY <1>1, <1>2, <1>3, <1>4, RequestIs

\* A handler that moves to another place, and one that has computed the row to write.
LEMMA HandlerSteps ==
  ASSUME TypeInv, NEW p \in Procs, NEW at \in Places \ {"row", "overlap"},
         Becomes(p, [req[p] EXCEPT !.at = at]), req[p].app \in Application,
         at \in OfRow \/ (at = "write" /\ req[p].op = "updateLeave") => req[p].id \in DOMAIN apps,
         TypeOK', DOMAIN apps \subseteq DOMAIN apps'
  PROVE  TypeInv'
<1> DEFINE next == [req[p] EXCEPT !.at = at]
<1>1. req[p] \in Handler
  BY DEF TypeInv
<1>2. /\ next \in Handler /\ next.at = at /\ next.app = req[p].app
      /\ next.op = req[p].op /\ next.id = req[p].id
  BY <1>1 DEF Handler
<1>3. Becomes(p, next)
  OBVIOUS
<1> HIDE DEF next
<1>4. WellPlaced(next) /\ HasRow(next, DOMAIN apps')
  BY <1>2 DEF WellPlaced, HasRow
<1> QED BY <1>2, <1>3, <1>4, HandlerMoves

LEMMA HandlerComputes ==
  ASSUME TypeInv, NEW p \in Procs, NEW at \in {"row", "commit"}, NEW row \in Balance,
         Becomes(p, [req[p] EXCEPT !.at = at, !.row = row, !.cols = Usage]),
         req[p].app \in Application, at = "commit" => req[p].id \in DOMAIN apps,
         TypeOK', DOMAIN apps \subseteq DOMAIN apps'
  PROVE  TypeInv'
<1> DEFINE next == [req[p] EXCEPT !.at = at, !.row = row, !.cols = Usage]
<1>1. req[p] \in Handler /\ at \in Places /\ Usage \in SUBSET Columns
  BY DEF TypeInv, Places, Usage, Columns
<1>2. /\ next \in Handler /\ next.at = at /\ next.app = req[p].app
      /\ next.op = req[p].op /\ next.id = req[p].id
  BY <1>1 DEF Handler
<1>3. Becomes(p, next)
  OBVIOUS
<1> HIDE DEF next
<1>4. WellPlaced(next) /\ HasRow(next, DOMAIN apps')
  BY <1>2 DEF WellPlaced, HasRow, OfRow
<1> QED BY <1>2, <1>3, <1>4, HandlerMoves

LEMMA StatementType ==
  ASSUME TypeInv, NEW p \in Procs, Statement(p)
  PROVE  TypeInv'
<1> DEFINE r == req[p]
<1>0. r \in Handler /\ WellPlaced(r) /\ HasRow(r, DOMAIN apps) /\ TypeOK
  BY DEF TypeInv
<1>1. CASE CheckOverlap(p)
  <2>1. r.at = "overlap" /\ UNCHANGED <<today, apps, balances, grid>>
    BY <1>1 DEF CheckOverlap
  <2>2. r.app \in Application /\ (r.op = "updateLeave" => r.id \in DOMAIN apps)
    BY <1>0, <2>1 DEF WellPlaced, HasRow
  <2>3. TypeOK' /\ DOMAIN apps' = DOMAIN apps
    BY <1>0, <2>1 DEF TypeOK
  <2>4. CASE Respond(p)
    BY <2>3, <2>4, HandlerResponds
  <2>5. CASE Becomes(p, [r EXCEPT !.at = "write"])
    BY <2>2, <2>3, <2>5, HandlerSteps DEF Places, OfRow
  <2> QED BY <1>1, <2>4, <2>5 DEF CheckOverlap
<1>2. CASE InsertApplication(p)
  <2>1. r.at = "write" /\ r.app \in Application
    BY <1>0, <1>2 DEF InsertApplication, WellPlaced
  <2>2. apps' \in Seq(Application) /\ DOMAIN apps \subseteq DOMAIN apps'
    BY <1>0, <1>2, <2>1, SeqAppend DEF InsertApplication, TypeOK
  <2>3. TypeOK'
    BY <1>0, <1>2, <2>2 DEF InsertApplication, TypeOK
  <2>4. CASE Respond(p)
    BY <2>2, <2>3, <2>4, HandlerResponds
  <2>5. CASE Becomes(p, [r EXCEPT !.at = "charge"])
    BY <2>1, <2>2, <2>3, <2>5, HandlerSteps DEF Places, OfRow
  <2> QED BY <1>2, <2>4, <2>5 DEF InsertApplication
<1>3. CASE UpdateApplication(p)
  <2>1. r.at = "write" /\ r.op = "updateLeave"
    BY <1>3 DEF UpdateApplication
  <2>2. r.app \in Application /\ r.id \in DOMAIN apps
    BY <1>0, <2>1 DEF WellPlaced, HasRow
  <2>3. apps[r.id] \in Application
    BY <1>0, <2>2, SeqElement DEF TypeOK
  <2>4. [r.app EXCEPT !.status = apps[r.id].status] \in Application
    BY <2>2, <2>3 DEF Application
  <2>5. apps' \in Seq(Application) /\ DOMAIN apps' = DOMAIN apps
    BY <1>0, <1>3, <2>2, <2>4, SeqReplace DEF UpdateApplication, TypeOK
  <2>6. TypeOK'
    BY <1>0, <1>3, <2>5 DEF UpdateApplication, TypeOK
  <2> QED BY <1>3, <2>5, <2>6, HandlerResponds DEF UpdateApplication
<1>4. CASE Charge(p) \/ Credit(p)
  <2>1. r.at \in {"charge", "credit"} /\ UNCHANGED <<today, apps, balances, grid>>
    BY <1>4 DEF Charge, Credit
  <2>2. r.app \in Application
    BY <1>0, <2>1 DEF WellPlaced
  <2>3. TypeOK' /\ DOMAIN apps' = DOMAIN apps
    BY <1>0, <2>1 DEF TypeOK
  <2>4. balances[Key(r.app)] \in Balance
    BY <1>0, <2>2, BalanceOf
  <2>5. PICK row \in Balance : Becomes(p, [r EXCEPT !.at = "row", !.row = row, !.cols = Usage])
    BY <1>4, <2>2, <2>4, UsageType DEF Charge, Credit
  <2> QED BY <2>2, <2>3, <2>5, HandlerComputes
<1>5. CASE ReadBalance(p)
  <2>1. r.at = "approve" /\ UNCHANGED <<today, apps, balances, grid>>
    BY <1>5 DEF ReadBalance
  <2>2. r.app \in Application /\ r.id \in DOMAIN apps
    BY <1>0, <2>1 DEF WellPlaced, HasRow, OfRow
  <2>3. TypeOK' /\ DOMAIN apps' = DOMAIN apps
    BY <1>0, <2>1 DEF TypeOK
  <2>4. CASE Respond(p)
    BY <2>3, <2>4, HandlerResponds
  <2> DEFINE row == Charged(balances[Key(r.app)], r.app)
  <2>5. CASE Becomes(p, [r EXCEPT !.at = "commit", !.row = row, !.cols = Usage])
    <3>1. row \in Balance
      BY <1>0, <2>2, BalanceOf, UsageType
    <3> HIDE DEF row
    <3> QED BY <2>2, <2>3, <2>5, <3>1, HandlerComputes
  <2> QED BY <1>5, <2>4, <2>5 DEF ReadBalance
<1>6. CASE CommitApproval(p)
  <2>1. r.at = "commit"
    BY <1>6 DEF CommitApproval
  <2>2. r.app \in Application /\ r.id \in DOMAIN apps
    BY <1>0, <2>1 DEF WellPlaced, HasRow, OfRow
  <2>3. apps[r.id] \in Application
    BY <1>0, <2>2, SeqElement DEF TypeOK
  <2>4. [apps[r.id] EXCEPT !.status = "approved"] \in Application
    BY <2>3 DEF Application, Status
  <2>5. apps' \in Seq(Application) /\ DOMAIN apps' = DOMAIN apps
    BY <1>0, <1>6, <2>2, <2>4, SeqReplace DEF CommitApproval, TypeOK
  <2>6. balances' \in [Employees \X Types -> Balance]
    <3>1. Key(r.app) \in Employees \X Types /\ r.row \in Balance
      BY <1>0, <2>2, BalanceOf DEF Handler
    <3>2. Written(balances[Key(r.app)], r.row, r.cols) \in Balance
      BY <1>0, <2>2, <3>1, BalanceOf, WrittenType
    <3> QED BY <1>0, <1>6, <3>1, <3>2 DEF CommitApproval, TypeOK
  <2>7. grid' \in [Employees -> [Days -> Attendance]]
    <3>1. r.app.user \in Employees
      BY <2>2 DEF Application
    <3>2. OnLeave(grid[r.app.user], r.app.span) \in [Days -> Attendance]
      BY <1>0, <3>1 DEF TypeOK, OnLeave, Attendance
    <3> QED BY <1>0, <1>6, <3>1, <3>2 DEF CommitApproval, TypeOK
  <2>8. TypeOK'
    BY <1>0, <1>6, <2>5, <2>6, <2>7 DEF CommitApproval, TypeOK
  <2> QED BY <1>6, <2>5, <2>8, HandlerResponds DEF CommitApproval
<1>7. CASE Reject(p) \/ Cancel(p)
  <2>1. r.at \in {"reject", "cancel"} /\ UNCHANGED <<today, balances, grid>>
    BY <1>7 DEF Reject, Cancel
  <2>2. r.app \in Application /\ r.id \in DOMAIN apps
    BY <1>0, <2>1 DEF WellPlaced, HasRow, OfRow
  <2>3. PICK status \in {"rejected", "cancelled"} : apps' = [apps EXCEPT ![r.id].status = status]
    BY <1>7 DEF Reject, Cancel
  <2>4. apps[r.id] \in Application
    BY <1>0, <2>2, SeqElement DEF TypeOK
  <2>5. [apps[r.id] EXCEPT !.status = status] \in Application
    BY <2>4 DEF Application, Status
  <2>6. apps' \in Seq(Application) /\ DOMAIN apps' = DOMAIN apps
    BY <1>0, <2>2, <2>3, <2>5, SeqReplace DEF TypeOK
  <2>7. TypeOK'
    BY <1>0, <2>1, <2>6 DEF TypeOK
  <2>8. CASE Respond(p)
    BY <2>6, <2>7, <2>8, HandlerResponds
  <2>9. CASE Becomes(p, [r EXCEPT !.at = "credit"])
    BY <2>2, <2>6, <2>7, <2>9, HandlerSteps DEF Places, OfRow
  <2> QED BY <1>7, <2>8, <2>9 DEF Reject, Cancel
<1>8. CASE WriteRow(p)
  <2>1. r.at = "row" /\ UNCHANGED <<today, apps, grid>>
    BY <1>8 DEF WriteRow
  <2>2. r.app \in Application \cup Target /\ (r.op = "cancelLeave" => r.app \in Application)
    BY <1>0, <2>1 DEF WellPlaced
  <2>3. balances' \in [Employees \X Types -> Balance]
    <3>1. Key(r.app) \in Employees \X Types /\ r.row \in Balance
      BY <1>0, <2>2, BalanceOf DEF Handler
    <3>2. Written(balances[Key(r.app)], r.row, r.cols) \in Balance
      BY <1>0, <2>2, <3>1, BalanceOf, WrittenType
    <3> QED BY <1>0, <1>8, <3>1, <3>2 DEF WriteRow, TypeOK
  <2>4. TypeOK' /\ DOMAIN apps' = DOMAIN apps
    BY <1>0, <2>1, <2>3 DEF TypeOK
  <2>5. CASE Respond(p)
    BY <2>4, <2>5, HandlerResponds
  <2>6. CASE r.op = "cancelLeave" /\ Becomes(p, [r EXCEPT !.at = "clear"])
    BY <2>2, <2>4, <2>6, HandlerSteps DEF Places, OfRow
  <2> QED BY <1>8, <2>5, <2>6 DEF WriteRow
<1>9. CASE ClearGrid(p)
  <2>1. r.at = "clear" /\ UNCHANGED <<today, apps, balances>>
    BY <1>9 DEF ClearGrid
  <2>2. r.app \in Application
    BY <1>0, <2>1 DEF WellPlaced
  <2>3. r.app.user \in Employees
    BY <2>2 DEF Application
  <2>4. Cleared(grid[r.app.user], r.app.span) \in [Days -> Attendance]
    BY <1>0, <2>3 DEF TypeOK, Cleared, Attendance
  <2>5. TypeOK' /\ DOMAIN apps' = DOMAIN apps
    BY <1>0, <1>9, <2>1, <2>3, <2>4 DEF ClearGrid, TypeOK
  <2> QED BY <1>9, <2>5, HandlerResponds DEF ClearGrid
<1> QED BY <1>1, <1>2, <1>3, <1>4, <1>5, <1>6, <1>7, <1>8, <1>9 DEF Statement

LEMMA NextType == TypeInv /\ [Next]_vars => TypeInv'
<1> SUFFICES ASSUME TypeInv, [Next]_vars PROVE TypeInv'
  OBVIOUS
<1>1. CASE \E p \in Procs : Request(p) \/ Statement(p)
  BY <1>1, RequestType, StatementType
<1>2. ASSUME NEW e \in Employees, GetBalances(e) PROVE TypeInv'
  BY <1>2, RollOverType DEF GetBalances, TypeInv, TypeOK, HasRow
<1>3. ASSUME NEW e \in Employees, NEW status \in Punches, Punch(e, status) PROVE TypeInv'
  <2>1. status \in Attendance
    BY InputAssumption DEF Attendance
  <2> QED BY <1>3, <2>1 DEF Punch, TypeInv, TypeOK, HasRow
<1>4. CASE Tomorrow
  BY <1>4 DEF Tomorrow, TypeInv, TypeOK, HasRow
<1>5. CASE UNCHANGED vars
  BY <1>5 DEF vars, TypeInv, TypeOK, HasRow
<1> QED BY <1>1, <1>2, <1>3, <1>4, <1>5 DEF Next

LEMMA InitType == Init => TypeInv
<1> SUFFICES ASSUME Init PROVE TypeInv
  OBVIOUS
<1>1. 1 \in Days
  <2>1. Periods * PeriodLength \in Nat /\ Periods * PeriodLength >= 1
    BY CalendarAssumption
  <2> QED BY <2>1 DEF Days
<1>2. TypeOK
  BY <1>1, NewBalanceType DEF Init, TypeOK, Attendance
<1>3. req \in [Procs -> Handler] /\ \A p \in Procs : WellPlaced(req[p]) /\ HasRow(req[p], DOMAIN apps)
  BY IdleType DEF Init
<1> QED BY <1>2, <1>3 DEF TypeInv

\* Whatever requests run at the same time, applications, balances and attendance
\* keep their types; with them no leave_balances.balance ever becomes negative.
THEOREM TypeCorrect == Spec => []TypeOK
<1>1. TypeInv => TypeOK
  BY DEF TypeInv
<1> QED BY <1>1, InitType, NextType, PTL DEF Spec

-----------------------------------------------------------------------------
(* No day twice, when requests are served one at a time *)

Alone == \A p, q \in Procs : p = q

\* What the handler has found out about the rows is still so when it writes.
StillTrue(p) ==
  /\ req[p].at = "write" => ~Overlaps(p)
  /\ req[p].at \in {"overlap", "write"} /\ req[p].op = "applyLeave" => req[p].id = 0
  /\ req[p].at \in {"approve", "commit"} => Live(apps[req[p].id])

DayInv == TypeInv /\ NoDayTwice /\ \A p \in Procs : StillTrue(p)

LEMMA ClashIsSymmetric ==
  ASSUME NEW a \in Application, NEW b \in Application
  PROVE  Clash(a, b) <=> Clash(b, a)
BY DEF Clash, OppositeHalves

\* Decisions leave the user and the dates, and make no dead application live.
LEMMA DecisionKeepsDays ==
  ASSUME TypeInv, NoDayTwice, NEW id \in DOMAIN apps, NEW status \in Status,
         apps' = [apps EXCEPT ![id].status = status],
         status = "approved" => Live(apps[id]), status # "pending"
  PROVE  NoDayTwice'
<1>1. \A i \in DOMAIN apps : apps[i] \in Application
  BY SeqElement DEF TypeInv, TypeOK
<1>2. DOMAIN apps' = DOMAIN apps
  OBVIOUS
<1>3. ASSUME NEW i \in DOMAIN apps
      PROVE  /\ apps'[i].user = apps[i].user /\ apps'[i].span = apps[i].span
             /\ Live(apps'[i]) => Live(apps[i])
  BY <1>1, <1>3 DEF Application, Live, Status
<1>4. ASSUME NEW i \in DOMAIN apps, NEW j \in DOMAIN apps, Clash(apps'[i], apps'[j])
      PROVE  Clash(apps[i], apps[j])
  BY <1>3, <1>4 DEF Clash, OppositeHalves
<1> SUFFICES ASSUME NEW i \in DOMAIN apps, NEW j \in DOMAIN apps, i # j,
                    Live(apps'[i]), Live(apps'[j])
             PROVE  ~Clash(apps'[i], apps'[j])
  BY <1>2, ZenonT(60) DEF NoDayTwice, Clash, OppositeHalves, Live
<1> QED BY <1>3, <1>4 DEF NoDayTwice

\* A handler that claims nothing of the applications, and only those of its first
\* step, which leave the applications alone.
LEMMA NothingToClaim ==
  ASSUME Alone, NEW p \in Procs, TypeInv, TypeInv', NoDayTwice', NEW h, Becomes(p, h),
         h.at \notin {"overlap", "write", "approve", "commit"}
  PROVE  DayInv'
<1>1. req'[p] = h
  BY DEF TypeInv, Becomes
<1>2. \A q \in Procs : StillTrue(q)'
  BY <1>1 DEF Alone, StillTrue
<1> QED BY <1>2 DEF DayInv

LEMMA FirstStep ==
  ASSUME Alone, DayInv, TypeInv', NEW p \in Procs, NEW h, Becomes(p, h), apps' = apps,
         h.at \in {"overlap", "approve", "reject", "cancel", "row"},
         h.at = "overlap" /\ h.op = "applyLeave" => h.id = 0,
         h.at = "approve" => Live(apps[h.id])
  PROVE  DayInv'
<1>1. req'[p] = h
  BY DEF DayInv, TypeInv, Becomes
<1>2. \A q \in Procs : StillTrue(q)'
  BY <1>1 DEF Alone, StillTrue, Live
<1>3. NoDayTwice'
  BY DEF DayInv, NoDayTwice
<1> QED BY <1>2, <1>3 DEF DayInv

LEMMA RequestKeepsDays ==
  ASSUME Alone, DayInv, TypeInv', NEW p \in Procs, Request(p)
  PROVE  DayInv'
<1>1. ASSUME NEW op, NEW id, NEW app, CheckBalance(p, op, id, app), op = "applyLeave" => id = 0
      PROVE  DayInv'
  <2> DEFINE h == [Idle EXCEPT !.op = op, !.at = "overlap", !.id = id, !.app = app]
  <2>1. Becomes(p, h) /\ apps' = apps
    BY <1>1 DEF CheckBalance
  <2>2. h.at = "overlap" /\ h.op = op /\ h.id = id
    BY DEF Idle
  <2> HIDE DEF h
  <2> QED BY <1>1, <2>1, <2>2, FirstStep
<1>2. ASSUME NEW op, NEW at \in {"approve", "reject", "cancel"}, NEW i, BeginDecision(p, op, at, i),
             at = "approve" => Live(apps[i])
      PROVE  DayInv'
  <2> DEFINE h == [Idle EXCEPT !.op = op, !.at = at, !.id = i, !.app = apps[i]]
  <2>1. Becomes(p, h) /\ apps' = apps
    BY <1>2 DEF BeginDecision
  <2>2. h.at = at /\ h.id = i
    BY DEF Idle
  <2> HIDE DEF h
  <2> QED BY <1>2, <2>1, <2>2, FirstStep
<1>3. ASSUME NEW op, NEW e, NEW t, NEW new, NEW cols, BeginCorrection(p, op, e, t, new, cols)
      PROVE  DayInv'
  <2> DEFINE h == [Idle EXCEPT !.op = op, !.at = "row", !.app = [user |-> e, type |-> t],
                               !.row = [new EXCEPT !.overridden = TRUE],
                               !.cols = cols \cup {"overridden"}]
  <2>1. Becomes(p, h) /\ apps' = apps
    BY <1>3 DEF BeginCorrection
  <2>2. h.at = "row"
    BY DEF Idle
  <2> HIDE DEF h
  <2> QED BY <2>1, <2>2, FirstStep
<1>4. ASSUME NEW e \in Employees, NEW t \in Types, NEW s \in Spans, BeginApply(p, e, t, s)
      PROVE  DayInv'
  BY <1>1, <1>4, Zenon DEF BeginApply
<1>5. ASSUME NEW i, NEW t \in Types, NEW s \in Spans, NEW count, BeginUpdate(p, i, t, s, count)
      PROVE  DayInv'
  BY <1>1, <1>5 DEF BeginUpdate
<1>6. ASSUME NEW i, BeginApprove(p, i) \/ BeginReject(p, i) \/ BeginCancel(p, i)
      PROVE  DayInv'
  BY <1>2, <1>6 DEF BeginApprove, BeginReject, BeginCancel, Live
<1>7. ASSUME NEW e \in Employees, NEW t \in Types, NEW extra, BeginBulkOverride(p, e, t, extra)
      PROVE  DayInv'
  BY <1>3, <1>7, Zenon DEF BeginBulkOverride
<1>8. ASSUME NEW e \in Employees, NEW t \in Types, NEW new, NEW cols, BeginOverride(p, e, t, new, cols)
      PROVE  DayInv'
  BY <1>3, <1>8, Zenon DEF BeginOverride
<1>9. ASSUME NEW e \in Employees, NEW t \in Types, BeginReset(p, e, t)
      PROVE  DayInv'
  BY <1>3, <1>9, Zenon DEF BeginReset
<1> QED BY <1>4, <1>5, <1>6, <1>7, <1>8, <1>9 DEF Request

LEMMA InsertKeepsDays ==
  ASSUME Alone, DayInv, TypeInv', NEW p \in Procs, InsertApplication(p)
  PROVE  DayInv'
<1> DEFINE r == req[p]
<1>1. r.at = "write" /\ r.op = "applyLeave" /\ apps' = Append(apps, r.app)
  BY DEF InsertApplication
<1>2. r.app \in Application /\ apps \in Seq(Application) /\ TypeInv
  BY <1>1 DEF DayInv, TypeInv, TypeOK, WellPlaced
<1>3. r.id = 0 /\ ~Overlaps(p)
  BY <1>1 DEF DayInv, StillTrue
<1>4. \A i \in DOMAIN apps : Live(apps[i]) => ~Clash(apps[i], r.app)
  BY <1>2, <1>3 DEF Overlaps
<1>5. NoDayTwice'
  <2> SUFFICES ASSUME NEW i \in DOMAIN apps', NEW j \in DOMAIN apps', i # j,
                      Live(apps'[i]), Live(apps'[j])
               PROVE  ~Clash(apps'[i], apps'[j])
    BY Zenon DEF NoDayTwice, Clash, OppositeHalves, Live
  <2>1. \A k \in DOMAIN apps : apps[k] \in Application /\ apps'[k] = apps[k]
    BY <1>1, <1>2, SeqAppend, SeqElement
  <2>2. \A k \in DOMAIN apps' : k \in DOMAIN apps \/ (k = Len(apps) + 1 /\ apps'[k] = r.app)
    BY <1>1, <1>2
  <2>3. CASE i \in DOMAIN apps /\ j \in DOMAIN apps
    BY <2>1, <2>3 DEF DayInv, NoDayTwice
  <2>4. CASE i \in DOMAIN apps /\ j \notin DOMAIN apps
    BY <1>4, <2>1, <2>2, <2>4
  <2>5. CASE i \notin DOMAIN apps /\ j \in DOMAIN apps
    BY <1>2, <1>4, <2>1, <2>2, <2>5, ClashIsSymmetric
  <2> QED BY <2>2, <2>3, <2>4, <2>5
<1>6. CASE Respond(p)
  BY <1>2, <1>5, <1>6, NothingToClaim DEF Respond, Idle
<1>7. CASE Becomes(p, [r EXCEPT !.at = "charge"])
  <2> DEFINE h == [r EXCEPT !.at = "charge"]
  <2>1. h.at = "charge"
    BY <1>2 DEF TypeInv, Handler
  <2> HIDE DEF h
  <2> QED BY <1>2, <1>5, <1>7, <2>1, NothingToClaim DEF h
<1> QED BY <1>6, <1>7 DEF InsertApplication

LEMMA UpdateKeepsDays ==
  ASSUME Alone, DayInv, TypeInv', NEW p \in Procs, UpdateApplication(p)
  PROVE  DayInv'
<1> DEFINE r == req[p]
           row == [r.app EXCEPT !.status = apps[r.id].status]
<1>1. r.at = "write" /\ r.op = "updateLeave" /\ apps' = [apps EXCEPT ![r.id] = row] /\ Respond(p)
  BY DEF UpdateApplication
<1>2. r.app \in Application /\ r.id \in DOMAIN apps /\ apps \in Seq(Application) /\ TypeInv
  BY <1>1 DEF DayInv, TypeInv, TypeOK, WellPlaced, HasRow
<1>3. ~Overlaps(p)
  BY <1>1 DEF DayInv, StillTrue
<1>4. \A i \in DOMAIN apps : apps[i] \in Application
  BY <1>2, SeqElement
<1>5. /\ row \in Application /\ row.user = r.app.user /\ row.span = r.app.span
      /\ row.status = apps[r.id].status
  BY <1>2, <1>4 DEF Application
<1>6. DOMAIN apps' = DOMAIN apps /\ apps'[r.id] = row /\ \A i \in DOMAIN apps \ {r.id} : apps'[i] = apps[i]
  BY <1>1, <1>2
<1> HIDE DEF row
<1>7. \A i \in DOMAIN apps \ {r.id} : Live(apps[i]) => ~Clash(apps[i], row)
  BY <1>3, <1>5 DEF Overlaps, Clash, OppositeHalves
<1>8. NoDayTwice'
  <2> SUFFICES ASSUME NEW i \in DOMAIN apps', NEW j \in DOMAIN apps', i # j,
                      Live(apps'[i]), Live(apps'[j])
               PROVE  ~Clash(apps'[i], apps'[j])
    BY Zenon DEF NoDayTwice, Clash, OppositeHalves, Live
  <2>1. CASE i # r.id /\ j # r.id
    BY <1>6, <2>1 DEF DayInv, NoDayTwice
  <2>2. CASE j = r.id
    BY <1>6, <1>7, <2>2
  <2>3. CASE i = r.id
    BY <1>4, <1>5, <1>6, <1>7, <2>3, ClashIsSymmetric
  <2> QED BY <2>1, <2>2, <2>3
<1> QED BY <1>1, <1>2, <1>8, NothingToClaim DEF Respond, Idle

LEMMA DecisionKeepsDayInv ==
  ASSUME Alone, DayInv, TypeInv', NEW p \in Procs, CommitApproval(p) \/ Reject(p) \/ Cancel(p)
  PROVE  DayInv'
<1> DEFINE r == req[p]
<1>1. r.at \in {"commit", "reject", "cancel"}
  BY DEF CommitApproval, Reject, Cancel
<1>2. r.id \in DOMAIN apps /\ TypeInv
  BY <1>1 DEF DayInv, TypeInv, HasRow, OfRow
<1>3. NoDayTwice'
  <2>1. PICK status \in {"approved", "rejected", "cancelled"} :
          /\ apps' = [apps EXCEPT ![r.id].status = status]
          /\ status = "approved" => r.at = "commit"
    BY DEF CommitApproval, Reject, Cancel
  <2>2. status = "approved" => Live(apps[r.id])
    BY <2>1 DEF DayInv, StillTrue
  <2> QED BY <1>2, <2>1, <2>2, DecisionKeepsDays DEF DayInv, Status
<1>4. CASE Respond(p)
  BY <1>2, <1>3, <1>4, NothingToClaim DEF Respond, Idle
<1>5. CASE Becomes(p, [r EXCEPT !.at = "credit"])
  <2> DEFINE h == [r EXCEPT !.at = "credit"]
  <2>1. h.at = "credit"
    BY <1>2 DEF TypeInv, Handler
  <2> HIDE DEF h
  <2> QED BY <1>2, <1>3, <1>5, <2>1, NothingToClaim DEF h
<1> QED BY <1>4, <1>5 DEF CommitApproval, Reject, Cancel

LEMMA OtherStatementKeepsDays ==
  ASSUME Alone, DayInv, TypeInv', NEW p \in Procs,
         CheckOverlap(p) \/ ReadBalance(p) \/ Charge(p) \/ Credit(p) \/ WriteRow(p) \/ ClearGrid(p)
  PROVE  DayInv'
<1> DEFINE r == req[p]
<1>1. TypeInv /\ r \in Handler
  BY DEF DayInv, TypeInv
<1>2. apps' = apps
  BY DEF CheckOverlap, ReadBalance, Charge, Credit, WriteRow, ClearGrid
<1>3. NoDayTwice'
  BY <1>2 DEF DayInv, NoDayTwice
<1>4. CASE Respond(p)
  BY <1>1, <1>3, <1>4, NothingToClaim DEF Respond, Idle
<1>5. CASE r.at = "overlap" /\ ~Overlaps(p) /\ Becomes(p, [r EXCEPT !.at = "write"])
  <2>1. req'[p].at = "write" /\ req'[p].op = r.op /\ req'[p].id = r.id /\ req'[p].app = r.app
    BY <1>1, <1>5 DEF TypeInv, Handler, Becomes
  <2>2. ~Overlaps(p)'
    BY <1>2, <1>5, <2>1 DEF Overlaps, Clash, OppositeHalves
  <2>3. r.op = "applyLeave" => r.id = 0
    BY <1>5 DEF DayInv, StillTrue
  <2>4. \A q \in Procs : StillTrue(q)'
    BY <2>1, <2>2, <2>3 DEF Alone, StillTrue
  <2> QED BY <1>3, <2>4 DEF DayInv
<1>6. ASSUME r.at = "approve", NEW row, Becomes(p, [r EXCEPT !.at = "commit", !.row = row, !.cols = Usage])
      PROVE  DayInv'
  <2>1. req'[p].at = "commit" /\ req'[p].id = r.id
    BY <1>1, <1>6 DEF TypeInv, Handler, Becomes
  <2>2. Live(apps[r.id])
    BY <1>6 DEF DayInv, StillTrue
  <2>3. \A q \in Procs : StillTrue(q)'
    BY <1>2, <2>1, <2>2 DEF Alone, StillTrue, Live
  <2> QED BY <1>3, <2>3 DEF DayInv
<1>7. ASSUME NEW row, Becomes(p, [r EXCEPT !.at = "row", !.row = row, !.cols = Usage])
      PROVE  DayInv'
  <2> DEFINE h == [r EXCEPT !.at = "row", !.row = row, !.cols = Usage]
  <2>1. h.at = "row"
    BY <1>1 DEF Handler
  <2> HIDE DEF h
  <2> QED BY <1>1, <1>3, <1>7, <2>1, NothingToClaim DEF h
<1>8. CASE Becomes(p, [r EXCEPT !.at = "clear"])
  <2> DEFINE h == [r EXCEPT !.at = "clear"]
  <2>1. h.at = "clear"
    BY <1>1 DEF Handler
  <2> HIDE DEF h
  <2> QED BY <1>1, <1>3, <1>8, <2>1, NothingToClaim DEF h
<1>9. CASE CheckOverlap(p)
  BY <1>4, <1>5, <1>9 DEF CheckOverlap
<1>10. CASE ReadBalance(p)
  BY <1>4, <1>6, <1>10 DEF ReadBalance
<1>11. CASE Charge(p) \/ Credit(p)
  BY <1>7, <1>11 DEF Charge, Credit
<1>12. CASE WriteRow(p) \/ ClearGrid(p)
  BY <1>4, <1>8, <1>12 DEF WriteRow, ClearGrid
<1> QED BY <1>9, <1>10, <1>11, <1>12

LEMMA NextKeepsDays == Alone /\ DayInv /\ [Next]_vars => DayInv'
<1> SUFFICES ASSUME Alone, DayInv, [Next]_vars PROVE DayInv'
  OBVIOUS
<1>1. TypeInv'
  BY NextType DEF DayInv
<1>2. ASSUME NEW p \in Procs, Request(p) PROVE DayInv'
  BY <1>1, <1>2, RequestKeepsDays
<1>3. ASSUME NEW p \in Procs, Statement(p) PROVE DayInv'
  BY <1>1, <1>3, InsertKeepsDays, UpdateKeepsDays, DecisionKeepsDayInv, OtherStatementKeepsDays, Zenon
     DEF Statement
<1>4. CASE UNCHANGED <<apps, req>>
  BY <1>1, <1>4 DEF DayInv, NoDayTwice, StillTrue, Overlaps, Live, Clash, OppositeHalves
<1> QED BY <1>2, <1>3, <1>4 DEF Next, GetBalances, Punch, Tomorrow, vars

LEMMA InitDays == Init => DayInv
<1> SUFFICES ASSUME Init PROVE DayInv
  OBVIOUS
<1>1. NoDayTwice
  BY DEF Init, NoDayTwice
<1>2. \A p \in Procs : StillTrue(p)
  BY DEF Init, Idle, StillTrue
<1> QED BY <1>1, <1>2, InitType DEF DayInv

\* When an organisation's requests are served one after the other, no employee ever
\* has two live applications for the same half-day: the overlap checks of applyLeave
\* and updateLeave and the guards of the decisions are enough.  Two requests at the
\* same time break it: neither check holds a lock until the row is written.
THEOREM OneAtATime == ASSUME Alone PROVE Spec => []NoDayTwice
<1>1. DayInv => NoDayTwice
  BY DEF DayInv
<1>2. DayInv /\ [Next]_vars => DayInv'
  BY NextKeepsDays
<1> QED BY <1>1, <1>2, InitDays, PTL DEF Spec

-----------------------------------------------------------------------------
(* What was used and what is left, when requests are served one at a time *)

\* The handler of the one request, whose number does not change.
The == IF Procs = {} THEN Idle ELSE req[CHOOSE p \in Procs : TRUE]

\* The days of the approved applications charged to k.
DaysOn(rows) == [i \in DOMAIN rows |-> rows[i].days]
ApprovedIn(rows, k) == {i \in DOMAIN rows : Key(rows[i]) = k /\ rows[i].status = "approved"}
Taken(rows, k) == Sum(DaysOn(rows), ApprovedIn(rows, k))
Contribution(app, k) == IF Key(app) = k /\ app.status = "approved" THEN app.days ELSE 0

\* What the handler has still to charge to a balance, or to give back.
Charging(h) == h.at = "charge" \/ (h.at = "row" /\ h.op = "applyLeave")
Crediting(h) == h.at = "credit" \/ (h.at = "row" /\ h.op = "cancelLeave")
Due(h, k) ==
  IF Charging(h) /\ Key(h.app) = k THEN h.app.days
  ELSE IF Crediting(h) /\ Key(h.app) = k THEN 0 - h.app.days ELSE 0

\* Total_used is what is approved, but for what the handler has still to write.
UsedAdds(h, rows, bal) ==
  \A k \in Employees \X Types : ~bal[k].overridden => bal[k].used + Due(h, k) = Taken(rows, k)

\* Who applies for a type that needs no approval and carries forward has been checked
\* against the usage of the whole year.
Checked == {k \in Employees \X Types : k[2] \notin NoApproval \ CarryForward}
Covered(h, bal) ==
  /\ h.op = "applyLeave" /\ h.at \in {"overlap", "write", "charge", "row"} /\ h.app.status = "approved"
  /\ Key(h.app) \in Checked /\ ~bal[Key(h.app)].overridden
  => h.app.days <= bal[Key(h.app)].balance

Adds(row) == row.extra = 0 /\ row.balance + row.used = Allocation
BalanceAdds(bal) == \A k \in Checked : ~bal[k].overridden => Adds(bal[k])

\* The row to write is the row as it is, charged or credited, or an override.
Computed(h, row) ==
  /\ h.at = "commit" => h.app.days <= row.balance
  /\ h.at = "commit" \/ (h.at = "row" /\ h.op = "applyLeave") =>
       /\ h.cols = Usage
       /\ h.row.used = row.used + h.app.days /\ h.row.balance = NonNeg(row.balance - h.app.days)
  /\ h.at = "row" /\ h.op = "cancelLeave" =>
       /\ h.cols = Usage
       /\ h.row.used = NonNeg(row.used - h.app.days) /\ h.row.balance = row.balance + h.app.days
  /\ h.at = "row" /\ h.op \notin {"applyLeave", "cancelLeave"} =>
       "overridden" \in h.cols /\ h.row.overridden

\* What the handler has read of the application is still so.
Remembers(h, rows) ==
  /\ h.at \in {"approve", "commit", "cancel"} => rows[h.id] = h.app
  /\ h.at \in {"approve", "commit", "reject"}
     \/ (h.at \in {"overlap", "write"} /\ h.op = "updateLeave") => rows[h.id].status = "pending"
  /\ Charging(h) => h.op = "applyLeave" /\ h.app.status = "approved"
  /\ h.at \in {"cancel", "credit", "clear"} => h.op = "cancelLeave"

\* A day on the grid as leave is one of an approved application, or the handler is
\* about to take it off.
BackedBy(app, e, d) ==
  app.user = e /\ app.status = "approved" /\ app.span.half = "full" /\ d \in DaysOf(app.span)
Clearing(h, e, d) ==
  (Crediting(h) \/ h.at = "clear") /\ h.app.user = e /\ d \in DaysOf(h.app.span)
GridBacked(h, rows, g) ==
  \A e \in Employees, d \in Days :
    g[e][d] = "on_leave" => Clearing(h, e, d) \/ \E i \in DOMAIN rows : BackedBy(rows[i], e, d)

BooksInv ==
  /\ TypeInv
  /\ Remembers(The, apps) /\ Computed(The, balances[Key(The.app)]) /\ Covered(The, balances)
  /\ UsedAdds(The, apps, balances) /\ BalanceAdds(balances) /\ GridBacked(The, apps, grid)

-----------------------------------------------------------------------------
(* Sums of days *)

LEMMA Rows ==
  ASSUME NEW rows \in Seq(Application), NEW k
  PROVE  /\ Amounts(DaysOn(rows), ApprovedIn(rows, k))
         /\ \A i \in DOMAIN rows : DaysOn(rows)[i] = rows[i].days /\ rows[i].days \in Nat
<1>1. IsFiniteSet(1..Len(rows)) /\ ApprovedIn(rows, k) \subseteq 1..Len(rows)
  BY FS_Interval DEF ApprovedIn
<1>2. IsFiniteSet(ApprovedIn(rows, k))
  BY <1>1, FS_Subset
<1>3. \A i \in DOMAIN rows : DaysOn(rows)[i] = rows[i].days /\ rows[i].days \in Nat
  <2>1. \A i \in DOMAIN rows : rows[i] \in Application
    BY SeqElement
  <2> QED BY <2>1, Zenon DEF DaysOn, Application
<1> QED BY <1>2, <1>3 DEF Amounts, ApprovedIn

LEMMA TakenIsSum ==
  ASSUME NEW rows \in Seq(Application), NEW k
  PROVE  Taken(rows, k) = MapThenSumSet(LAMBDA i : rows[i].days, ApprovedIn(rows, k))
<1> DEFINE A == ApprovedIn(rows, k)
           v == DaysOn(rows)
<1>1. \A x \in A : v[x] = rows[x].days
  BY Rows DEF ApprovedIn
<1> HIDE DEF A, v
<1> DEFINE body(f) == [s \in SUBSET A |->
                         IF s = {} THEN 0
                         ELSE rows[CHOOSE x \in s : TRUE].days + f[s \ {CHOOSE x \in s : TRUE}]]
<1>2. MapThenSumSet(LAMBDA i : rows[i].days, A) = (CHOOSE f : f = body(f))[A]
  BY DEF MapThenSumSet, MapThenFoldSet
<1>3. \A f : f = body(f) <=> IsSum(f, v, A)
  <2> SUFFICES ASSUME NEW f
               PROVE  body(f) = [s \in SUBSET A |->
                                   IF s = {} THEN 0
                                   ELSE v[CHOOSE x \in s : TRUE] + f[s \ {CHOOSE x \in s : TRUE}]]
    BY DEF IsSum, Unfolded
  <2>1. \A s \in SUBSET A : s # {} => (CHOOSE x \in s : TRUE) \in A
    BY Chosen
  <2> QED BY <1>1, <2>1
<1>4. (CHOOSE f : f = body(f)) = (CHOOSE f : IsSum(f, v, A))
  <2> HIDE DEF body
  <2> QED BY <1>3
<1> QED BY <1>2, <1>4 DEF Taken, Sum, A, v

LEMMA TakenIsNat ==
  ASSUME NEW rows \in Seq(Application), NEW k
  PROVE  Taken(rows, k) \in Nat
BY Rows, SumIsNat DEF Taken, ApprovedIn

\* What one application adds.
LEMMA TakenSplit ==
  ASSUME NEW rows \in Seq(Application), NEW k, NEW i \in DOMAIN rows
  PROVE  /\ Taken(rows, k) = Contribution(rows[i], k) + Sum(DaysOn(rows), ApprovedIn(rows, k) \ {i})
         /\ Amounts(DaysOn(rows), ApprovedIn(rows, k) \ {i})
         /\ Sum(DaysOn(rows), ApprovedIn(rows, k) \ {i}) \in Int
         /\ Contribution(rows[i], k) \in Nat
<1>1. Contribution(rows[i], k) \in Nat
  BY Rows DEF Contribution
<1>2. CASE i \in ApprovedIn(rows, k)
  <2>1. Contribution(rows[i], k) = DaysOn(rows)[i]
    BY <1>2, Rows DEF Contribution, ApprovedIn
  <2> QED BY <1>1, <1>2, <2>1, Rows, SumWithout, SumIsInt DEF Taken
<1>3. CASE i \notin ApprovedIn(rows, k)
  <2>1. Contribution(rows[i], k) = 0 /\ ApprovedIn(rows, k) \ {i} = ApprovedIn(rows, k)
    BY <1>3 DEF Contribution, ApprovedIn
  <2>2. Amounts(DaysOn(rows), ApprovedIn(rows, k) \ {i})
    BY <2>1, Rows
  <2>3. Sum(DaysOn(rows), ApprovedIn(rows, k) \ {i}) = Taken(rows, k)
    BY <2>1 DEF Taken
  <2> QED BY <1>1, <2>1, <2>2, <2>3, TakenIsNat
<1> QED BY <1>2, <1>3

LEMMA TakenReplaced ==
  ASSUME NEW rows \in Seq(Application), NEW next \in Seq(Application), NEW i \in DOMAIN rows,
         DOMAIN next = DOMAIN rows, \A j \in DOMAIN rows \ {i} : next[j] = rows[j], NEW k
  PROVE  Taken(next, k) = Taken(rows, k) - Contribution(rows[i], k) + Contribution(next[i], k)
<1>1. DOMAIN next = DOMAIN rows
  OBVIOUS
<1>2. \A j \in DOMAIN rows \ {i} : next[j] = rows[j]
  OBVIOUS
<1>3. ApprovedIn(next, k) \ {i} = ApprovedIn(rows, k) \ {i}
  BY <1>1, <1>2 DEF ApprovedIn
<1>4. \A j \in ApprovedIn(rows, k) \ {i} : DaysOn(next)[j] = DaysOn(rows)[j]
  BY <1>1, <1>2 DEF ApprovedIn, DaysOn
<1>5. Sum(DaysOn(next), ApprovedIn(next, k) \ {i}) = Sum(DaysOn(rows), ApprovedIn(rows, k) \ {i})
  <2>1. Amounts(DaysOn(rows), ApprovedIn(rows, k) \ {i})
    BY TakenSplit
  <2> DEFINE others == ApprovedIn(rows, k) \ {i}
             days == DaysOn(next)
             before == DaysOn(rows)
  <2>2. (\A j \in others : days[j] = before[j]) /\ Amounts(before, others)
    BY <1>4, <2>1
  <2>3. ApprovedIn(next, k) \ {i} = others
    BY <1>3
  <2> HIDE DEF others, days, before
  <2>4. Sum(days, others) = Sum(before, others)
    BY <2>2, SumSame
  <2> QED BY <2>3, <2>4 DEF others, days, before
<1>6. /\ Taken(next, k) = Contribution(next[i], k) + Sum(DaysOn(rows), ApprovedIn(rows, k) \ {i})
      /\ Contribution(next[i], k) \in Nat
  BY <1>1, <1>5, TakenSplit
<1> QED BY <1>6, TakenSplit

LEMMA TakenAppended ==
  ASSUME NEW rows \in Seq(Application), NEW app \in Application, NEW k
  PROVE  Taken(Append(rows, app), k) = Taken(rows, k) + Contribution(app, k)
<1> DEFINE next == Append(rows, app)
           i == Len(rows) + 1
<1>1. next \in Seq(Application) /\ i \in DOMAIN next /\ next[i] = app /\ i \notin DOMAIN rows
  OBVIOUS
<1>2. DOMAIN next = DOMAIN rows \cup {i} /\ \A j \in DOMAIN rows : next[j] = rows[j]
  OBVIOUS
<1> HIDE DEF next, i
<1>3. ApprovedIn(next, k) \ {i} = ApprovedIn(rows, k)
  BY <1>1, <1>2 DEF ApprovedIn
<1>4. \A j \in ApprovedIn(rows, k) : DaysOn(next)[j] = DaysOn(rows)[j]
  BY <1>2 DEF ApprovedIn, DaysOn
<1>5. Sum(DaysOn(next), ApprovedIn(next, k) \ {i}) = Taken(rows, k)
  BY <1>3, <1>4, Rows, SumSame DEF Taken
<1>6. Taken(next, k) = Contribution(app, k) + Taken(rows, k) /\ Contribution(app, k) \in Nat
  BY <1>1, <1>5, TakenSplit
<1> QED BY <1>6, TakenIsNat DEF next

-----------------------------------------------------------------------------
(* The one handler *)

LEMMA TheHandler ==
  ASSUME Alone, TypeInv, NEW p \in Procs
  PROVE  /\ The = req[p] /\ The' = req'[p]
         /\ \A h : Becomes(p, h) => The' = h
         /\ req[p] \in Handler /\ WellPlaced(req[p]) /\ HasRow(req[p], DOMAIN apps)
<1>1. (CHOOSE q \in Procs : TRUE) = p /\ Procs # {}
  BY DEF Alone
<1>2. The = req[p] /\ The' = req'[p]
  BY <1>1, Zenon DEF The
<1> QED BY <1>2 DEF TypeInv, Becomes

\* Rows that differ at most in the usage of the period.
SameBooks(bal, new) ==
  \A k \in Employees \X Types :
    /\ new[k].extra = bal[k].extra /\ new[k].used = bal[k].used
    /\ new[k].balance = bal[k].balance /\ new[k].overridden = bal[k].overridden

LEMMA RollOverKeepsBooks ==
  ASSUME TypeOK, NEW e, RollOver(e)
  PROVE  SameBooks(balances, balances')
<1> SUFFICES ASSUME NEW k \in Employees \X Types
             PROVE  /\ balances'[k].extra = balances[k].extra /\ balances'[k].used = balances[k].used
                    /\ balances'[k].balance = balances[k].balance
                    /\ balances'[k].overridden = balances[k].overridden
  BY DEF SameBooks
<1>1. balances[k] \in Balance
  BY DEF TypeOK
<1>2. \A t : LET row == Rolled(balances[k], t)
             IN /\ row.extra = balances[k].extra /\ row.used = balances[k].used
                /\ row.balance = balances[k].balance /\ row.overridden = balances[k].overridden
  BY <1>1 DEF Rolled, Balance
<1>3. balances'[k] = balances[k] \/ \E t : balances'[k] = Rolled(balances[k], t)
  BY DEF RollOver
<1> QED BY <1>2, <1>3

\* The books add up still when a handler moves on and leaves them alone.
LEMMA BooksStay ==
  ASSUME NEW h, NEW n, NEW rows, NEW bal, NEW new, NEW g, NEW g2,
         SameBooks(bal, new), \A k : Due(n, k) = Due(h, k),
         UsedAdds(h, rows, bal), BalanceAdds(bal), GridBacked(h, rows, g),
         \A e, d : Clearing(h, e, d) => Clearing(n, e, d),
         \A e \in Employees, d \in Days : g2[e][d] = "on_leave" => g[e][d] = "on_leave"
  PROVE  UsedAdds(n, rows, new) /\ BalanceAdds(new) /\ GridBacked(n, rows, g2)
<1>1. UsedAdds(n, rows, new)
  BY DEF UsedAdds, SameBooks
<1>2. BalanceAdds(new)
  BY DEF BalanceAdds, Checked, SameBooks, Adds
<1>3. GridBacked(n, rows, g2)
  BY DEF GridBacked
<1> QED BY <1>1, <1>2, <1>3

\* A handler with nothing to write, or nothing written yet.
Quiescent(h) == ~Charging(h) /\ ~Crediting(h) /\ h.at # "clear"

LEMMA QuiescentOwes ==
  ASSUME NEW h, Quiescent(h)
  PROVE  (\A k : Due(h, k) = 0) /\ \A e, d : ~Clearing(h, e, d)
BY DEF Quiescent, Due, Clearing

LEMMA HandlerOnly ==
  ASSUME Alone, BooksInv, TypeInv', NEW p \in Procs, NEW n, Becomes(p, n),
         apps' = apps, grid' = grid, SameBooks(balances, balances'),
         Quiescent(req[p]), Quiescent(n),
         Remembers(n, apps), Computed(n, balances'[Key(n.app)]), Covered(n, balances')
  PROVE  BooksInv'
<1>1. The = req[p] /\ The' = n
  BY TheHandler DEF BooksInv
<1>2. (\A k : Due(n, k) = Due(The, k)) /\ \A e, d : Clearing(The, e, d) => Clearing(n, e, d)
  BY <1>1, QuiescentOwes
<1>3. UsedAdds(n, apps, balances') /\ BalanceAdds(balances') /\ GridBacked(n, apps, grid)
  BY <1>2, BooksStay DEF BooksInv
<1>4. /\ Remembers(The, apps)' /\ Computed(The, balances[Key(The.app)])' /\ Covered(The, balances)'
      /\ UsedAdds(The, apps, balances)' /\ BalanceAdds(balances)' /\ GridBacked(The, apps, grid)'
  BY <1>1, <1>3
<1> QED BY <1>4 DEF BooksInv

\* A handler that answers has nothing left to write.
LEMMA IdleOwes ==
  /\ Quiescent(Idle)
  /\ \A rows, row, bal : Remembers(Idle, rows) /\ Computed(Idle, row) /\ Covered(Idle, bal)
BY DEF Idle, Quiescent, Charging, Crediting, Remembers, Computed, Covered

LEMMA RespondKeepsBooks ==
  ASSUME Alone, BooksInv, TypeInv', NEW p \in Procs, Respond(p),
         apps' = apps, grid' = grid, SameBooks(balances, balances'), Quiescent(req[p])
  PROVE  BooksInv'
BY IdleOwes, HandlerOnly DEF Respond

-----------------------------------------------------------------------------
(* Requests *)

LEMMA Product == \A a, b, c \in Nat : a <= b => c * a <= c * b
<1>1. ASSUME NEW a \in Nat, NEW b \in Nat, NEW c \in Nat, a <= b PROVE c * a <= c * b
  <2>1. PICK d \in Nat : b = a + d
    <3>1. b - a \in Nat /\ b = a + (b - a)
      BY <1>1
    <3> QED BY <3>1
  <2>2. c * b = c * a + c * d /\ c * d \in Nat /\ c * a \in Nat
    BY <2>1
  <2> QED BY <2>2
<1> QED BY <1>1

\* No day is after the last period, so no quota accrued exceeds the year's allocation.
LEMMA AccruedBound ==
  ASSUME NEW day \in Days
  PROVE  Quota * (PeriodOf(day) + 1) \in Nat /\ Quota * (PeriodOf(day) + 1) <= Allocation
<1> DEFINE q == PeriodOf(day)
<1>1. PeriodLength \in Nat \ {0} /\ Periods \in Nat \ {0} /\ Quota \in Nat /\ q \in Nat
  BY CalendarAssumption, PeriodType
<1>2. day - 1 \in Nat /\ day - 1 < Periods * PeriodLength /\ Periods * PeriodLength \in Nat
  BY <1>1 DEF Days
<1>3. PeriodLength * q <= day - 1
  BY <1>1, <1>2 DEF PeriodOf
<1> HIDE DEF q
<1>4. q < Periods
  <2> SUFFICES ASSUME Periods <= q PROVE FALSE
    BY <1>1
  <2>1. PeriodLength * Periods <= PeriodLength * q
    BY <1>1, Product
  <2>2. PeriodLength * Periods = Periods * PeriodLength
    BY <1>1
  <2>3. PeriodLength * q \in Nat
    BY <1>1
  <2> QED BY <1>2, <1>3, <2>1, <2>2, <2>3
<1>5. q + 1 \in Nat /\ q + 1 <= Periods
  BY <1>1, <1>4
<1>6. Quota * (q + 1) <= Quota * Periods /\ Quota * (q + 1) \in Nat
  BY <1>1, <1>5, Product
<1> QED BY <1>6 DEF q, Allocation

LEMMA CheckBalanceKeepsBooks ==
  ASSUME Alone, BooksInv, TypeInv', NEW p \in Procs, NEW op, NEW id, NEW app \in Application,
         req[p].at = "idle", CheckBalance(p, op, id, app),
         op = "updateLeave" => apps[id].status = "pending",
         op = "applyLeave" /\ app.status = "approved" => app.type \in NoApproval
  PROVE  BooksInv'
<1> DEFINE n == [Idle EXCEPT !.op = op, !.at = "overlap", !.id = id, !.app = app]
           k == Key(app)
           row == Rolled(balances[k], app.type)
<1>1. n.at = "overlap" /\ n.op = op /\ n.id = id /\ n.app = app
  BY DEF Idle
<1>2. Becomes(p, n) /\ apps' = apps /\ grid' = grid
  BY DEF CheckBalance
<1>3. TypeOK /\ SameBooks(balances, balances')
  BY RollOverKeepsBooks DEF BooksInv, TypeInv, CheckBalance
<1>4. app.days > 0 /\ app.days <= Available(row, app.type)
  BY DEF CheckBalance
<1> HIDE DEF n
<1>5. Covered(n, balances')
  <2> SUFFICES ASSUME app.type \in CarryForward, ~balances'[k].overridden, k \in Checked
               PROVE  app.days <= balances'[k].balance
    BY <1>1 DEF Covered, Checked, Key
  <2>1. k \in Employees \X Types /\ balances[k] \in Balance /\ app.days \in Nat
    BY <1>3 DEF Checked, TypeOK, Application
  <2>2. row.extra = balances[k].extra /\ row.used = balances[k].used
    BY <2>1 DEF Rolled, Balance
  <2>3. ~balances[k].overridden /\ balances'[k].balance = balances[k].balance
    BY <1>3, <2>1 DEF SameBooks
  <2>4. balances[k].extra = 0 /\ balances[k].balance + balances[k].used = Allocation
    BY <2>3 DEF BooksInv, BalanceAdds, Adds
  <2>5. balances[k].used \in Nat /\ balances[k].balance \in Nat /\ Allocation \in Nat
    BY <2>1, AllocationType DEF Balance
  <2> DEFINE accrued == Quota * (PeriodOf(today) + 1)
  <2>6. accrued \in Nat /\ accrued <= Allocation
    BY <1>3, AccruedBound DEF TypeOK
  <2>7. app.days <= NonNeg(accrued + row.extra - row.used)
    BY <1>4 DEF Available
  <2> HIDE DEF accrued
  <2>8. app.days <= accrued - balances[k].used
    BY <1>4, <2>1, <2>2, <2>4, <2>5, <2>6, <2>7 DEF NonNeg
  <2> QED BY <2>1, <2>3, <2>4, <2>5, <2>6, <2>8
<1>6. Remembers(n, apps) /\ Computed(n, balances'[Key(n.app)]) /\ Quiescent(n)
  BY <1>1 DEF Remembers, Computed, Quiescent, Charging, Crediting
<1>7. Quiescent(req[p])
  BY DEF Quiescent, Charging, Crediting
<1> QED BY <1>2, <1>3, <1>5, <1>6, <1>7, HandlerOnly

LEMMA DecisionBeginKeepsBooks ==
  ASSUME Alone, BooksInv, TypeInv', NEW p \in Procs, NEW i \in DOMAIN apps,
         NEW op, NEW at \in {"approve", "reject", "cancel"}, BeginDecision(p, op, at, i),
         at # "cancel" => apps[i].status = "pending", at = "cancel" => op = "cancelLeave"
  PROVE  BooksInv'
<1> DEFINE n == [Idle EXCEPT !.op = op, !.at = at, !.id = i, !.app = apps[i]]
<1>1. n.at = at /\ n.op = op /\ n.id = i /\ n.app = apps[i]
  BY DEF Idle
<1>2. Becomes(p, n) /\ apps' = apps /\ grid' = grid /\ balances' = balances /\ req[p].at = "idle"
  BY DEF BeginDecision, Free
<1> HIDE DEF n
<1>3. /\ Remembers(n, apps) /\ Computed(n, balances'[Key(n.app)]) /\ Covered(n, balances')
      /\ Quiescent(n)
  BY <1>1 DEF Remembers, Computed, Covered, Quiescent, Charging, Crediting
<1>4. Quiescent(req[p]) /\ SameBooks(balances, balances')
  BY <1>2 DEF Quiescent, Charging, Crediting, SameBooks
<1> QED BY <1>2, <1>3, <1>4, HandlerOnly

LEMMA CorrectionBeginKeepsBooks ==
  ASSUME Alone, BooksInv, TypeInv', NEW p \in Procs, NEW op \in AdminOps, NEW e, NEW t, NEW new, NEW cols,
         new \in Balance, BeginCorrection(p, op, e, t, new, cols)
  PROVE  BooksInv'
<1> DEFINE n == [Idle EXCEPT !.op = op, !.at = "row", !.app = [user |-> e, type |-> t],
                             !.row = [new EXCEPT !.overridden = TRUE],
                             !.cols = cols \cup {"overridden"}]
<1>1. n.at = "row" /\ n.op = op /\ "overridden" \in n.cols /\ n.row.overridden
  BY DEF Idle, Balance
<1>2. Becomes(p, n) /\ apps' = apps /\ grid' = grid /\ balances' = balances /\ req[p].at = "idle"
  BY DEF BeginCorrection, Free
<1> HIDE DEF n
<1>3. /\ Remembers(n, apps) /\ Computed(n, balances'[Key(n.app)]) /\ Covered(n, balances')
      /\ Quiescent(n)
  BY <1>1 DEF Remembers, Computed, Covered, Quiescent, Charging, Crediting, AdminOps
<1>4. Quiescent(req[p]) /\ SameBooks(balances, balances')
  BY <1>2 DEF Quiescent, Charging, Crediting, SameBooks
<1> QED BY <1>2, <1>3, <1>4, HandlerOnly

-----------------------------------------------------------------------------
(* Statements *)

\* The handler that has read the row and computed what to write.
LEMMA ComputeKeepsBooks ==
  ASSUME Alone, BooksInv, TypeInv', NEW p \in Procs, Charge(p) \/ Credit(p) \/ ReadBalance(p)
  PROVE  BooksInv'
<1> DEFINE h == req[p]
           k == Key(h.app)
<1>1. apps' = apps /\ grid' = grid /\ balances' = balances /\ TypeInv
  BY DEF Charge, Credit, ReadBalance, BooksInv
<1>2. h \in Handler /\ WellPlaced(h) /\ The = h
  BY <1>1, TheHandler
<1>3. h.at \in {"charge", "credit", "approve"}
  BY DEF Charge, Credit, ReadBalance
<1>4. h.app \in Application /\ k \in Employees \X Types /\ balances[k] \in Balance
  BY <1>1, <1>2, <1>3, BalanceOf DEF WellPlaced, TypeInv
<1>5. SameBooks(balances, balances')
  BY <1>1 DEF SameBooks
<1>6. Remembers(h, apps) /\ Covered(h, balances)
  BY <1>2 DEF BooksInv
<1>7. /\ Charged(balances[k], h.app).used = balances[k].used + h.app.days
      /\ Charged(balances[k], h.app).balance = NonNeg(balances[k].balance - h.app.days)
      /\ Credited(balances[k], h.app).used = NonNeg(balances[k].used - h.app.days)
      /\ Credited(balances[k], h.app).balance = balances[k].balance + h.app.days
  BY <1>4 DEF Charged, Credited, Balance
<1>8. CASE Charge(p) \/ Credit(p)
  <2>1. PICK row : /\ Becomes(p, [h EXCEPT !.at = "row", !.row = row, !.cols = Usage])
                   /\ row = IF h.at = "charge" THEN Charged(balances[k], h.app)
                                               ELSE Credited(balances[k], h.app)
                   /\ h.at \in {"charge", "credit"}
    BY <1>8 DEF Charge, Credit
  <2> DEFINE n == [h EXCEPT !.at = "row", !.row = row, !.cols = Usage]
  <2>2. /\ n.at = "row" /\ n.op = h.op /\ n.app = h.app /\ n.row = row /\ n.cols = Usage
        /\ Becomes(p, n)
    BY <1>2, <2>1 DEF Handler
  <2> HIDE DEF n
  <2>3. h.op = IF h.at = "charge" THEN "applyLeave" ELSE "cancelLeave"
    BY <1>6, <2>1 DEF Remembers, Charging
  <2>4. (\A x : Due(n, x) = Due(h, x)) /\ \A e, d : Clearing(h, e, d) => Clearing(n, e, d)
    BY <2>1, <2>2, <2>3 DEF Due, Charging, Crediting, Clearing
  <2>5. UsedAdds(n, apps, balances') /\ BalanceAdds(balances') /\ GridBacked(n, apps, grid)
    BY <1>2, <1>5, <2>4, BooksStay DEF BooksInv
  <2>6. Remembers(n, apps)
    BY <1>6, <2>1, <2>2, <2>3 DEF Remembers, Charging
  <2>7. Computed(n, balances[k])
    BY <1>7, <2>1, <2>2, <2>3 DEF Computed
  <2>8. Covered(n, balances)
    BY <1>6, <2>1, <2>2, <2>3 DEF Covered
  <2>9. The' = n
    BY <1>1, <2>2, TheHandler
  <2> QED BY <1>1, <2>2, <2>5, <2>6, <2>7, <2>8, <2>9 DEF BooksInv
<1>9. CASE ReadBalance(p)
  <2>0. h.at = "approve" /\ Quiescent(h)
    BY <1>9 DEF ReadBalance, Quiescent, Charging, Crediting
  <2>1. CASE Respond(p)
    BY <1>1, <1>5, <2>0, <2>1, RespondKeepsBooks
  <2>2. CASE /\ h.app.days <= balances[k].balance
             /\ Becomes(p, [h EXCEPT !.at = "commit", !.row = Charged(balances[k], h.app), !.cols = Usage])
    <3>1. PICK row : row = Charged(balances[k], h.app)
      OBVIOUS
    <3> DEFINE n == [h EXCEPT !.at = "commit", !.row = row, !.cols = Usage]
    <3>2. /\ n.at = "commit" /\ n.op = h.op /\ n.id = h.id /\ n.app = h.app /\ n.row = row
          /\ n.cols = Usage /\ Becomes(p, n)
      BY <1>2, <2>2, <3>1 DEF Handler
    <3> HIDE DEF n
    <3>3. Remembers(n, apps)
      BY <1>6, <2>0, <3>2 DEF Remembers, Charging
    <3>4. Computed(n, balances[k]) /\ Covered(n, balances) /\ Quiescent(n)
      BY <1>7, <2>2, <3>1, <3>2 DEF Computed, Covered, Quiescent, Charging, Crediting
    <3> QED BY <1>1, <1>5, <2>0, <3>2, <3>3, <3>4, HandlerOnly
  <2>3. h.app.days \in Nat /\ balances[k].balance \in Nat
    BY <1>4 DEF Application, Balance
  <2> QED BY <1>9, <2>1, <2>2, <2>3 DEF ReadBalance
<1> QED BY <1>8, <1>9

LEMMA CheckOverlapKeepsBooks ==
  ASSUME Alone, BooksInv, TypeInv', NEW p \in Procs, CheckOverlap(p)
  PROVE  BooksInv'
<1> DEFINE h == req[p]
<1>1. apps' = apps /\ grid' = grid /\ balances' = balances /\ TypeInv /\ h.at = "overlap"
  BY DEF CheckOverlap, BooksInv
<1>2. h \in Handler /\ The = h /\ SameBooks(balances, balances') /\ Quiescent(h)
  BY <1>1, TheHandler DEF SameBooks, Quiescent, Charging, Crediting
<1>3. CASE Respond(p)
  BY <1>1, <1>2, <1>3, RespondKeepsBooks
<1>4. CASE Becomes(p, [h EXCEPT !.at = "write"])
  <2> DEFINE n == [h EXCEPT !.at = "write"]
  <2>1. n.at = "write" /\ n.op = h.op /\ n.id = h.id /\ n.app = h.app
    BY <1>2 DEF Handler
  <2> HIDE DEF n
  <2>2. Remembers(h, apps) /\ Covered(h, balances)
    BY <1>2 DEF BooksInv
  <2>3. /\ Remembers(n, apps) /\ Computed(n, balances[Key(n.app)]) /\ Covered(n, balances)
        /\ Quiescent(n)
    BY <1>1, <2>1, <2>2 DEF Remembers, Computed, Covered, Quiescent, Charging, Crediting
  <2> QED BY <1>1, <1>2, <1>4, <2>3, HandlerOnly DEF n
<1> QED BY <1>3, <1>4 DEF CheckOverlap

\* Rows of which the applications change and the balances do not.
LEMMA RowsChange ==
  ASSUME Alone, BooksInv, TypeInv', NEW p \in Procs, NEW n, Becomes(p, n),
         balances' = balances, grid' = grid, Remembers(n, apps'), Computed(n, balances[Key(n.app)]),
         Covered(n, balances),
         \A k \in Employees \X Types : Taken(apps', k) - Due(n, k) = Taken(apps, k) - Due(req[p], k),
         \A k \in Employees \X Types : Due(n, k) \in Int /\ Due(req[p], k) \in Int
                                       /\ Taken(apps, k) \in Int /\ Taken(apps', k) \in Int,
         \A e \in Employees, d \in Days :
           \/ Clearing(req[p], e, d) \/ (\E i \in DOMAIN apps : BackedBy(apps[i], e, d))
           => Clearing(n, e, d) \/ \E i \in DOMAIN apps' : BackedBy(apps'[i], e, d)
  PROVE  BooksInv'
<1>1. The = req[p] /\ The' = n /\ \A k \in Employees \X Types : balances[k] \in Balance
  BY TheHandler DEF BooksInv, TypeInv, TypeOK
<1>2. UsedAdds(n, apps', balances)
  <2> SUFFICES ASSUME NEW k \in Employees \X Types, ~balances[k].overridden
               PROVE  balances[k].used + Due(n, k) = Taken(apps', k)
    BY DEF UsedAdds
  <2>1. balances[k].used + Due(req[p], k) = Taken(apps, k) /\ balances[k].used \in Nat
    BY <1>1 DEF BooksInv, UsedAdds, Balance
  <2> QED BY <2>1
<1>3. GridBacked(n, apps', grid)
  BY <1>1 DEF BooksInv, GridBacked
<1> QED BY <1>1, <1>2, <1>3 DEF BooksInv, BalanceAdds, Checked, Adds

LEMMA InsertKeepsBooks ==
  ASSUME Alone, BooksInv, TypeInv', NEW p \in Procs, InsertApplication(p)
  PROVE  BooksInv'
<1> DEFINE h == req[p]
<1>1. /\ h.at = "write" /\ h.op = "applyLeave" /\ apps' = Append(apps, h.app)
      /\ balances' = balances /\ grid' = grid
  BY DEF InsertApplication
<1>2. /\ TypeInv /\ h \in Handler /\ WellPlaced(h) /\ The = h
      /\ apps \in Seq(Application) /\ apps' \in Seq(Application)
  BY TheHandler DEF BooksInv, TypeInv, TypeOK
<1>3. h.app \in Application
  BY <1>1, <1>2 DEF WellPlaced
<1>4. \A k : /\ Taken(apps', k) = Taken(apps, k) + Contribution(h.app, k)
             /\ Taken(apps, k) \in Int /\ Taken(apps', k) \in Int
  <2> SUFFICES ASSUME NEW k
               PROVE  /\ Taken(apps', k) = Taken(apps, k) + Contribution(h.app, k)
                      /\ Taken(apps, k) \in Int /\ Taken(apps', k) \in Int
    OBVIOUS
  <2>1. Taken(apps, k) \in Nat /\ Taken(apps', k) \in Nat
    BY <1>2, TakenIsNat
  <2>2. Taken(Append(apps, h.app), k) = Taken(apps, k) + Contribution(h.app, k)
    BY <1>2, <1>3, TakenAppended
  <2> QED BY <1>1, <2>1, <2>2
<1>5. \A e, d : (\E i \in DOMAIN apps : BackedBy(apps[i], e, d))
                  => \E i \in DOMAIN apps' : BackedBy(apps'[i], e, d)
  <2>1. DOMAIN apps \subseteq DOMAIN apps' /\ \A i \in DOMAIN apps : apps'[i] = apps[i]
    BY <1>1, <1>2, <1>3, SeqAppend
  <2> QED BY <2>1
<1>6. Quiescent(h)
  BY <1>1 DEF Quiescent, Charging, Crediting
<1>7. h.app.days \in Nat
  BY <1>3 DEF Application
<1>8. CASE h.app.status # "approved" /\ Respond(p)
  <2>1. \A k : Contribution(h.app, k) = 0
    BY <1>8 DEF Contribution
  <2> QED BY <1>1, <1>4, <1>5, <1>6, <1>8, <2>1, IdleOwes, QuiescentOwes, RowsChange, SMTT(40) DEF
            Respond
<1>9. CASE h.app.status = "approved" /\ Becomes(p, [h EXCEPT !.at = "charge"])
  <2> DEFINE n == [h EXCEPT !.at = "charge"]
  <2>1. n.at = "charge" /\ n.op = h.op /\ n.id = h.id /\ n.app = h.app /\ Becomes(p, n)
    BY <1>2, <1>9 DEF Handler
  <2> HIDE DEF n
  <2>2. \A k : Due(n, k) = Contribution(h.app, k) /\ Due(n, k) \in Int /\ Due(h, k) = 0
    BY <1>1, <1>6, <1>7, <1>9, <2>1, QuiescentOwes DEF Due, Charging, Contribution
  <2>3. Covered(h, balances)
    BY <1>2 DEF BooksInv
  <2>4. Remembers(n, apps') /\ Computed(n, balances[Key(n.app)]) /\ Covered(n, balances)
    BY <1>1, <1>9, <2>1, <2>3 DEF Remembers, Computed, Covered, Charging
  <2>5. \A k \in Employees \X Types : Taken(apps', k) - Due(n, k) = Taken(apps, k) - Due(h, k)
    BY <1>4, <2>2
  <2> QED BY <1>1, <1>4, <1>5, <1>6, <2>1, <2>2, <2>4, <2>5, QuiescentOwes, RowsChange
<1> QED BY <1>8, <1>9 DEF InsertApplication

\* One row of leave_applications is replaced.
LEMMA ReplacedRow ==
  ASSUME TypeInv, TypeInv', NEW i \in DOMAIN apps, NEW app \in Application,
         apps' = [apps EXCEPT ![i] = app]
  PROVE  /\ apps[i] \in Application /\ apps'[i] = app /\ i \in DOMAIN apps'
         /\ \A j \in DOMAIN apps \ {i} : j \in DOMAIN apps' /\ apps'[j] = apps[j]
         /\ \A k : /\ Taken(apps', k) = Taken(apps, k) - Contribution(apps[i], k) + Contribution(app, k)
                   /\ Taken(apps, k) \in Int /\ Taken(apps', k) \in Int
                   /\ Contribution(apps[i], k) \in Nat /\ Contribution(app, k) \in Nat
<1>1. apps \in Seq(Application) /\ apps' \in Seq(Application)
  BY DEF TypeInv, TypeOK
<1>2. apps[i] \in Application /\ apps'[i] = app /\ DOMAIN apps' = DOMAIN apps
  BY <1>1, SeqElement
<1>3. \A j \in DOMAIN apps \ {i} : j \in DOMAIN apps' /\ apps'[j] = apps[j]
  BY <1>2
<1>4. ASSUME NEW k
      PROVE  /\ Taken(apps', k) = Taken(apps, k) - Contribution(apps[i], k) + Contribution(app, k)
             /\ Taken(apps, k) \in Int /\ Taken(apps', k) \in Int
             /\ Contribution(apps[i], k) \in Nat /\ Contribution(app, k) \in Nat
  <2>1. Taken(apps, k) \in Nat /\ Taken(apps', k) \in Nat
    BY <1>1, TakenIsNat
  <2>2. Contribution(apps[i], k) \in Nat /\ Contribution(app, k) \in Nat
    BY <1>2 DEF Contribution, Application
  <2>3. PICK next : next = apps'
    OBVIOUS
  <2>4. /\ next \in Seq(Application) /\ DOMAIN next = DOMAIN apps /\ next[i] = app
        /\ \A j \in DOMAIN apps \ {i} : next[j] = apps[j]
    BY <1>1, <1>2, <1>3, <2>3
  <2>5. Taken(next, k) = Taken(apps, k) - Contribution(apps[i], k) + Contribution(next[i], k)
    BY <1>1, <2>4, TakenReplaced
  <2> QED BY <2>1, <2>2, <2>3, <2>4, <2>5
<1> QED BY <1>2, <1>3, <1>4

\* Editing, rejecting and cancelling what is not approved changes nothing that counts.
LEMMA PendingKeepsBooks ==
  ASSUME Alone, BooksInv, TypeInv', NEW p \in Procs, NEW i \in DOMAIN apps, NEW app \in Application,
         apps' = [apps EXCEPT ![i] = app], apps[i].status # "approved", app.status # "approved",
         balances' = balances, grid' = grid, Respond(p), Quiescent(req[p])
  PROVE  BooksInv'
<1>1. TypeInv
  BY DEF BooksInv
<1>2. ASSUME NEW k
      PROVE  /\ Taken(apps', k) = Taken(apps, k)
             /\ Taken(apps, k) \in Int /\ Taken(apps', k) \in Int
  <2>1. Contribution(apps[i], k) = 0 /\ Contribution(app, k) = 0
    BY DEF Contribution
  <2>2. /\ Taken(apps', k) = Taken(apps, k) - Contribution(apps[i], k) + Contribution(app, k)
        /\ Taken(apps, k) \in Int /\ Taken(apps', k) \in Int
    BY <1>1, ReplacedRow
  <2> QED BY <2>1, <2>2
<1>3. \A e, d : (\E j \in DOMAIN apps : BackedBy(apps[j], e, d))
                  => \E j \in DOMAIN apps' : BackedBy(apps'[j], e, d)
  BY <1>1, ReplacedRow DEF BackedBy
<1>4. /\ Quiescent(Idle) /\ Remembers(Idle, apps') /\ Computed(Idle, balances[Key(Idle.app)])
      /\ Covered(Idle, balances)
  BY IdleOwes
<1>5. \A k : Due(Idle, k) = 0 /\ Due(req[p], k) = 0
  BY <1>4, QuiescentOwes
<1>6. \A e, d : ~Clearing(Idle, e, d) /\ ~Clearing(req[p], e, d)
  BY <1>4, QuiescentOwes
<1>7. PICK n : n = Idle
  OBVIOUS
<1>8. Becomes(p, n) /\ Remembers(n, apps') /\ Computed(n, balances[Key(n.app)]) /\ Covered(n, balances)
  BY <1>4, <1>7 DEF Respond
<1>9. \A k \in Employees \X Types :
        /\ Taken(apps', k) - Due(n, k) = Taken(apps, k) - Due(req[p], k)
        /\ Due(n, k) \in Int /\ Due(req[p], k) \in Int
        /\ Taken(apps, k) \in Int /\ Taken(apps', k) \in Int
  <2> SUFFICES ASSUME NEW k \in Employees \X Types
               PROVE  /\ Taken(apps', k) - Due(n, k) = Taken(apps, k) - Due(req[p], k)
                      /\ Due(n, k) \in Int /\ Due(req[p], k) \in Int
                      /\ Taken(apps, k) \in Int /\ Taken(apps', k) \in Int
    OBVIOUS
  <2>1. Due(n, k) = 0 /\ Due(req[p], k) = 0
    BY <1>5, <1>7
  <2>2. Taken(apps', k) = Taken(apps, k) /\ Taken(apps, k) \in Int
    BY <1>2
  <2> QED BY <2>1, <2>2
<1>10. \A e \in Employees, d \in Days :
         \/ Clearing(req[p], e, d) \/ (\E j \in DOMAIN apps : BackedBy(apps[j], e, d))
         => Clearing(n, e, d) \/ \E j \in DOMAIN apps' : BackedBy(apps'[j], e, d)
  BY <1>3, <1>6
<1> QED BY <1>8, <1>9, <1>10, RowsChange

LEMMA EditKeepsBooks ==
  ASSUME Alone, BooksInv, TypeInv', NEW p \in Procs,
         UpdateApplication(p) \/ Reject(p) \/ (Cancel(p) /\ req[p].app.status # "approved")
  PROVE  BooksInv'
<1> DEFINE h == req[p]
<1>1. /\ TypeInv /\ h \in Handler /\ WellPlaced(h) /\ HasRow(h, DOMAIN apps)
      /\ Remembers(h, apps)
  BY TheHandler DEF BooksInv
<1>2. \/ h.at = "write" /\ h.op = "updateLeave"
      \/ h.at \in {"reject", "cancel"}
  BY DEF UpdateApplication, Reject, Cancel
<1>3. h.id \in DOMAIN apps /\ h.app \in Application
  BY <1>1, <1>2 DEF HasRow, OfRow, WellPlaced
<1>4. apps[h.id] \in Application
  BY <1>1, <1>3, SeqElement DEF TypeInv, TypeOK
<1>5. apps[h.id].status # "approved" /\ Quiescent(h)
  BY <1>1, <1>2 DEF Remembers, Quiescent, Charging, Crediting, Cancel, UpdateApplication, Reject
<1>6. PICK app : /\ app = IF h.at = "write" THEN [h.app EXCEPT !.status = apps[h.id].status]
                          ELSE [apps[h.id] EXCEPT !.status = IF h.at = "reject" THEN "rejected"
                                                                               ELSE "cancelled"]
  OBVIOUS
<1>7. app \in Application /\ app.status # "approved"
  BY <1>3, <1>4, <1>5, <1>6 DEF Application, Status
<1>8. apps' = [apps EXCEPT ![h.id] = app] /\ balances' = balances /\ grid' = grid /\ Respond(p)
  BY <1>2, <1>6 DEF UpdateApplication, Reject, Cancel
<1> QED BY <1>3, <1>5, <1>7, <1>8, PendingKeepsBooks

LEMMA CancelKeepsBooks ==
  ASSUME Alone, BooksInv, TypeInv', NEW p \in Procs, Cancel(p), req[p].app.status = "approved"
  PROVE  BooksInv'
<1> DEFINE h == req[p]
           n == [h EXCEPT !.at = "credit"]
<1>1. /\ TypeInv /\ h \in Handler /\ WellPlaced(h) /\ HasRow(h, DOMAIN apps)
      /\ Remembers(h, apps)
  BY TheHandler DEF BooksInv
<1>2. h.at = "cancel" /\ balances' = balances /\ grid' = grid /\ Becomes(p, n)
  BY DEF Cancel
<1>3. h.id \in DOMAIN apps /\ h.app \in Application /\ apps[h.id] = h.app /\ h.op = "cancelLeave"
  BY <1>1, <1>2 DEF HasRow, OfRow, WellPlaced, Remembers
<1>4. PICK app : app = [h.app EXCEPT !.status = "cancelled"]
  OBVIOUS
<1>5. app \in Application /\ app.status = "cancelled"
  BY <1>3, <1>4 DEF Application, Status
<1>6. apps' = [apps EXCEPT ![h.id] = app]
  BY <1>3, <1>4 DEF Cancel
<1>7. n.at = "credit" /\ n.op = h.op /\ n.app = h.app
  BY <1>1 DEF Handler
<1> HIDE DEF n
<1>8. \A k : Due(n, k) = 0 - Contribution(h.app, k) /\ Due(h, k) = 0
  BY <1>2, <1>7 DEF Due, Charging, Crediting, Contribution
<1>9. ASSUME NEW k
      PROVE  /\ Taken(apps', k) = Taken(apps, k) - Contribution(h.app, k) + Contribution(app, k)
             /\ Taken(apps, k) \in Int /\ Taken(apps', k) \in Int
             /\ Contribution(h.app, k) \in Nat
  <2>1. PICK i \in DOMAIN apps : i = h.id
    BY <1>3
  <2>2. apps' = [apps EXCEPT ![i] = app] /\ apps[i] = h.app
    BY <1>3, <1>6, <2>1
  <2>3. /\ Taken(apps', k) = Taken(apps, k) - Contribution(apps[i], k) + Contribution(app, k)
        /\ Taken(apps, k) \in Int /\ Taken(apps', k) \in Int
        /\ Contribution(apps[i], k) \in Nat
    BY <1>1, <1>5, <2>2, ReplacedRow
  <2> QED BY <2>2, <2>3
<1>10. \A k : Contribution(app, k) = 0
  BY <1>5 DEF Contribution
<1>11. \A k \in Employees \X Types :
         /\ Taken(apps', k) - Due(n, k) = Taken(apps, k) - Due(h, k)
         /\ Due(n, k) \in Int /\ Due(h, k) \in Int
         /\ Taken(apps, k) \in Int /\ Taken(apps', k) \in Int
  BY <1>8, <1>9, <1>10
<1>12. \A e, d : \/ Clearing(h, e, d) \/ (\E i \in DOMAIN apps : BackedBy(apps[i], e, d))
                 => Clearing(n, e, d) \/ \E i \in DOMAIN apps' : BackedBy(apps'[i], e, d)
  <2> SUFFICES ASSUME NEW e, NEW d, NEW i \in DOMAIN apps, BackedBy(apps[i], e, d)
               PROVE  Clearing(n, e, d) \/ \E j \in DOMAIN apps' : BackedBy(apps'[j], e, d)
    BY <1>2 DEF Clearing, Crediting
  <2>1. CASE i = h.id
    BY <1>3, <1>7, <2>1 DEF BackedBy, Clearing, Crediting
  <2>2. CASE i # h.id
    BY <1>1, <1>3, <1>5, <1>6, <2>2, ReplacedRow
  <2> QED BY <2>1, <2>2
<1>13. Remembers(n, apps') /\ Computed(n, balances[Key(n.app)]) /\ Covered(n, balances)
  BY <1>3, <1>7 DEF Remembers, Computed, Covered, Charging
<1> QED BY <1>2, <1>11, <1>12, <1>13, RowsChange

\* The handler writes its last rows and answers.
LEMMA AnswerKeepsBooks ==
  ASSUME Alone, TypeInv, TypeInv', NEW p \in Procs, Respond(p),
         UsedAdds(Idle, apps', balances'), BalanceAdds(balances'), GridBacked(Idle, apps', grid')
  PROVE  BooksInv'
<1>1. The' = Idle
  BY TheHandler DEF Respond
<1>2. PICK n : n = Idle
  OBVIOUS
<1>3. /\ Remembers(n, apps') /\ Computed(n, balances'[Key(n.app)]) /\ Covered(n, balances')
      /\ The' = n /\ UsedAdds(n, apps', balances') /\ GridBacked(n, apps', grid')
  BY <1>1, <1>2, IdleOwes
<1> QED BY <1>3 DEF BooksInv

LEMMA WrittenRow ==
  ASSUME TypeOK, NEW k \in Employees \X Types, NEW new \in Balance, NEW cols,
         balances' = [balances EXCEPT ![k] = Written(@, new, cols)]
  PROVE  /\ balances[k] \in Balance
         /\ \A x \in Employees \X Types \ {k} : balances'[x] = balances[x]
         /\ balances'[k].overridden = IF "overridden" \in cols THEN new.overridden
                                                               ELSE balances[k].overridden
         /\ cols = Usage =>
              /\ balances'[k].used = new.used /\ balances'[k].balance = new.balance
              /\ balances'[k].extra = balances[k].extra
<1>1. balances[k] \in Balance /\ balances'[k] = Written(balances[k], new, cols)
  BY DEF TypeOK
<1>2. \A x \in Employees \X Types \ {k} : balances'[x] = balances[x]
  BY DEF TypeOK
<1>3. PICK row : row = balances[k]
  OBVIOUS
<1>4. row \in Balance
  BY <1>1, <1>3
<1>5. Written(row, new, cols).overridden = IF "overridden" \in cols THEN new.overridden
                                                                   ELSE row.overridden
  BY <1>4, Zenon DEF Written, Balance
<1>6. cols = Usage =>
        /\ Written(row, new, cols).used = new.used /\ Written(row, new, cols).balance = new.balance
        /\ Written(row, new, cols).extra = row.extra
  BY <1>4 DEF Written, Usage, Balance
<1> QED BY <1>1, <1>2, <1>3, <1>5, <1>6

LEMMA CommitKeepsBooks ==
  ASSUME Alone, BooksInv, TypeInv', NEW p \in Procs, CommitApproval(p)
  PROVE  BooksInv'
<1> DEFINE h == req[p]
           k == Key(h.app)
<1>1. /\ TypeInv /\ TypeOK /\ h \in Handler /\ WellPlaced(h) /\ HasRow(h, DOMAIN apps)
      /\ The = h /\ Remembers(h, apps) /\ Computed(h, balances[k])
  BY TheHandler DEF BooksInv, TypeInv
<1>2. h.at = "commit" /\ Respond(p)
  BY DEF CommitApproval
<1>3. PICK i \in DOMAIN apps : i = h.id
  BY <1>1, <1>2 DEF HasRow, OfRow
<1>4. h.app \in Application /\ apps[i] = h.app /\ apps[i].status = "pending"
  BY <1>1, <1>2, <1>3 DEF WellPlaced, Remembers
<1>5. PICK app : app = [h.app EXCEPT !.status = "approved"]
  OBVIOUS
<1>6. /\ app \in Application /\ app.status = "approved" /\ app.days = h.app.days /\ app.days \in Nat
      /\ Key(app) = k /\ app.user = h.app.user /\ app.span = h.app.span
      /\ k \in Employees \X Types
  BY <1>4, <1>5 DEF Application, Status, Key
<1>7. apps' = [apps EXCEPT ![i] = app]
  BY <1>3, <1>4, <1>5 DEF CommitApproval
<1>8. /\ h.cols = Usage /\ h.row \in Balance /\ h.row.used = balances[k].used + app.days
      /\ h.row.balance = balances[k].balance - app.days
      /\ balances' = [balances EXCEPT ![k] = Written(@, h.row, h.cols)]
  <2>1. h.row \in Balance /\ balances[k] \in Balance
    BY <1>1, <1>6 DEF Handler, TypeOK
  <2>2. balances[k].balance \in Nat /\ app.days <= balances[k].balance
    BY <1>1, <1>2, <1>6, <2>1 DEF Computed, Balance
  <2> QED BY <1>1, <1>2, <1>6, <2>1, <2>2 DEF Computed, NonNeg, CommitApproval
<1> HIDE DEF k
<1>9. /\ balances[k] \in Balance /\ \A x \in Employees \X Types \ {k} : balances'[x] = balances[x]
      /\ balances'[k].used = balances[k].used + app.days
      /\ balances'[k].balance = balances[k].balance - app.days
      /\ balances'[k].extra = balances[k].extra
      /\ balances'[k].overridden = balances[k].overridden
  <2>1. PICK row \in Balance, cols \in SUBSET Columns : row = h.row /\ cols = Usage
    BY <1>8 DEF Usage, Columns
  <2>2. balances' = [balances EXCEPT ![k] = Written(@, row, cols)]
    BY <1>8, <2>1
  <2>3. /\ balances[k] \in Balance
        /\ \A x \in Employees \X Types \ {k} : balances'[x] = balances[x]
        /\ balances'[k].overridden = balances[k].overridden
        /\ balances'[k].used = row.used /\ balances'[k].balance = row.balance
        /\ balances'[k].extra = balances[k].extra
    <3>1. cols = Usage /\ "overridden" \notin cols
      BY <2>1 DEF Usage
    <3>2. /\ balances[k] \in Balance
          /\ \A x \in Employees \X Types \ {k} : balances'[x] = balances[x]
          /\ balances'[k].overridden = IF "overridden" \in cols THEN row.overridden
                                                                ELSE balances[k].overridden
          /\ cols = Usage =>
               /\ balances'[k].used = row.used /\ balances'[k].balance = row.balance
               /\ balances'[k].extra = balances[k].extra
      <4>1. TypeOK /\ k \in Employees \X Types
        BY <1>1, <1>6
      <4> QED BY <2>2, <4>1, WrittenRow
    <3> QED BY <3>1, <3>2
  <2> QED BY <1>8, <2>1, <2>3
<1>10. /\ balances[k].used \in Nat /\ balances[k].balance \in Nat
  BY <1>9 DEF Balance
<1>11. Quiescent(h) /\ (\A x : Due(h, x) = 0 /\ Due(Idle, x) = 0)
       /\ \A e, d : ~Clearing(h, e, d) /\ ~Clearing(Idle, e, d)
  <2>1. Quiescent(h)
    BY <1>2 DEF Quiescent, Charging, Crediting
  <2> QED BY <2>1, IdleOwes, QuiescentOwes
<1>12. UsedAdds(Idle, apps', balances')
  <2> SUFFICES ASSUME NEW x \in Employees \X Types, ~balances'[x].overridden
               PROVE  balances'[x].used = Taken(apps', x)
    <3>1. balances' \in [Employees \X Types -> Balance]
      BY DEF TypeInv, TypeOK
    <3>2. \A x \in Employees \X Types : balances'[x].used \in Nat
      BY <3>1 DEF Balance
    <3> QED BY <1>11, <3>2 DEF UsedAdds
  <2>1. ~balances[x].overridden
    BY <1>9
  <2>2. balances[x] \in Balance
    BY <1>1 DEF TypeOK
  <2>3. balances[x].used = Taken(apps, x)
    <3>1. balances[x].used + Due(h, x) = Taken(apps, x) /\ balances[x].used \in Nat
      BY <1>1, <2>1, <2>2 DEF BooksInv, UsedAdds, Balance
    <3> QED BY <1>11, <3>1
  <2>4. /\ Taken(apps', x) = Taken(apps, x) - Contribution(apps[i], x) + Contribution(app, x)
        /\ Taken(apps, x) \in Int
    BY <1>1, <1>6, <1>7, ReplacedRow
  <2>5. Contribution(apps[i], x) = 0
    BY <1>4 DEF Contribution
  <2>6. CASE x = k
    <3>1. Contribution(app, x) = app.days
      BY <1>6, <2>6 DEF Contribution, k
    <3> QED BY <1>6, <1>9, <2>3, <2>4, <2>5, <2>6, <3>1
  <2>7. CASE x # k
    <3>1. Contribution(app, x) = 0
      BY <1>6, <2>7 DEF Contribution, k
    <3> QED BY <1>9, <2>3, <2>4, <2>5, <2>7, <3>1
  <2> QED BY <2>6, <2>7
<1>13. BalanceAdds(balances')
  BY <1>6, <1>9, <1>10 DEF BooksInv, BalanceAdds, Checked, Adds
<1>14. GridBacked(Idle, apps', grid')
  <2> SUFFICES ASSUME NEW e \in Employees, NEW d \in Days, grid'[e][d] = "on_leave"
               PROVE  \E j \in DOMAIN apps' : BackedBy(apps'[j], e, d)
    BY DEF GridBacked
  <2>1. i \in DOMAIN apps' /\ apps'[i] = app
    BY <1>1, <1>6, <1>7, ReplacedRow
  <2>2. CASE grid[e][d] = "on_leave"
    <3>1. PICK j \in DOMAIN apps : BackedBy(apps[j], e, d)
      BY <1>1, <1>11, <2>2 DEF BooksInv, GridBacked
    <3>2. j # i
      BY <1>4, <3>1 DEF BackedBy
    <3>3. j \in DOMAIN apps' /\ apps'[j] = apps[j]
      BY <1>1, <1>6, <1>7, <3>2, ReplacedRow
    <3> QED BY <3>1, <3>3
  <2>3. CASE grid[e][d] # "on_leave"
    <3>1. e = app.user /\ grid'[e] = OnLeave(grid[e], app.span)
      BY <1>1, <1>6, <2>3 DEF CommitApproval, TypeOK
    <3>2. d \in DaysOf(app.span) /\ app.span.half = "full"
      BY <2>3, <3>1 DEF OnLeave
    <3> QED BY <1>6, <2>1, <3>1, <3>2 DEF BackedBy
  <2> QED BY <2>2, <2>3
<1> QED BY <1>1, <1>2, <1>12, <1>13, <1>14, AnswerKeepsBooks

LEMMA ClearGridKeepsBooks ==
  ASSUME Alone, BooksInv, TypeInv', NEW p \in Procs, ClearGrid(p)
  PROVE  BooksInv'
<1> DEFINE h == req[p]
<1>1. TypeInv /\ TypeOK /\ The = h /\ h.at = "clear" /\ Respond(p) /\ Remembers(h, apps)
  BY TheHandler DEF BooksInv, TypeInv, ClearGrid
<1>2. apps' = apps /\ balances' = balances /\ grid' = [grid EXCEPT ![h.app.user] = Cleared(@, h.app.span)]
  BY DEF ClearGrid
<1>3. \A k : Due(Idle, k) = Due(h, k)
  BY <1>1, IdleOwes, QuiescentOwes DEF Due, Charging, Crediting
<1>4. UsedAdds(Idle, apps, balances) /\ BalanceAdds(balances)
  BY <1>1, <1>3 DEF BooksInv, UsedAdds
<1>5. GridBacked(Idle, apps, grid')
  <2> SUFFICES ASSUME NEW e \in Employees, NEW d \in Days, grid'[e][d] = "on_leave"
               PROVE  \E j \in DOMAIN apps : BackedBy(apps[j], e, d)
    BY DEF GridBacked
  <2>1. grid[e][d] = "on_leave" /\ ~Clearing(h, e, d)
    <3>1. CASE e = h.app.user
      <4>1. grid'[e] = Cleared(grid[e], h.app.span)
        BY <1>1, <1>2, <3>1 DEF TypeOK
      <4> QED BY <4>1 DEF Cleared, Clearing
    <3>2. CASE e # h.app.user
      BY <1>2, <3>2 DEF Clearing
    <3> QED BY <3>1, <3>2
  <2> QED BY <1>1, <2>1 DEF BooksInv, GridBacked
<1> QED BY <1>1, <1>2, <1>4, <1>5, AnswerKeepsBooks

LEMMA WriteRowKeepsBooks ==
  ASSUME Alone, BooksInv, TypeInv', NEW p \in Procs, WriteRow(p)
  PROVE  BooksInv'
<1> DEFINE h == req[p]
           k == Key(h.app)
<1>1. /\ TypeInv /\ TypeOK /\ h \in Handler /\ WellPlaced(h)
      /\ The = h /\ Remembers(h, apps) /\ Computed(h, balances[k]) /\ Covered(h, balances)
  BY TheHandler DEF BooksInv, TypeInv
<1>2. /\ h.at = "row" /\ apps' = apps /\ grid' = grid
      /\ balances' = [balances EXCEPT ![k] = Written(@, h.row, h.cols)]
      /\ IF h.op = "cancelLeave" THEN Becomes(p, [h EXCEPT !.at = "clear"]) ELSE Respond(p)
  BY DEF WriteRow
<1>3. k \in Employees \X Types /\ h.row \in Balance
  BY <1>1, <1>2, BalanceOf DEF WellPlaced, Handler
<1>4. PICK row \in Balance, cols \in SUBSET Columns : row = h.row /\ cols = h.cols
  BY <1>1, <1>3 DEF Handler
<1> HIDE DEF k
<1>5. balances' = [balances EXCEPT ![k] = Written(@, row, cols)]
  BY <1>2, <1>4
<1>6. /\ balances[k] \in Balance
      /\ \A x \in Employees \X Types \ {k} : balances'[x] = balances[x]
      /\ balances'[k].overridden = IF "overridden" \in cols THEN row.overridden
                                                            ELSE balances[k].overridden
      /\ cols = Usage =>
           /\ balances'[k].used = row.used /\ balances'[k].balance = row.balance
           /\ balances'[k].extra = balances[k].extra
  BY <1>1, <1>3, <1>5, WrittenRow
<1>7. balances[k].used \in Nat /\ balances[k].balance \in Nat
  BY <1>6 DEF Balance
<1>8. \A x \in Employees \X Types \ {k} : Due(h, x) = 0
  BY DEF Due, k
<1>9. CASE h.op = "applyLeave"
  <2>1. h.app \in Application /\ h.app.days \in Nat /\ h.app.status = "approved"
    BY <1>1, <1>2, <1>9 DEF Remembers, Charging, WellPlaced, Application
  <2>2. /\ cols = Usage /\ row.used = balances[k].used + h.app.days
        /\ row.balance = NonNeg(balances[k].balance - h.app.days)
    BY <1>1, <1>2, <1>4, <1>9 DEF Computed
  <2>3. "overridden" \notin cols
    BY <2>2 DEF Usage
  <2>4. /\ balances'[k].used = balances[k].used + h.app.days
        /\ balances'[k].balance = NonNeg(balances[k].balance - h.app.days)
        /\ balances'[k].overridden = balances[k].overridden
        /\ balances'[k].extra = balances[k].extra
    BY <1>6, <2>2, <2>3
  <2>5. Due(h, k) = h.app.days
    BY <1>2, <1>9 DEF Due, Charging, k
  <2>6. (\A x : Due(Idle, x) = 0) /\ \A e, d : ~Clearing(h, e, d)
    BY <1>2, <1>9, IdleOwes, QuiescentOwes DEF Clearing, Crediting
  <2>7. UsedAdds(Idle, apps, balances')
    <3> SUFFICES ASSUME NEW x \in Employees \X Types, ~balances'[x].overridden
                 PROVE  balances'[x].used + Due(Idle, x) = Taken(apps, x)
      BY DEF UsedAdds
    <3>1. ~balances[x].overridden
      BY <1>6, <2>4
    <3>2. balances[x].used + Due(h, x) = Taken(apps, x)
      BY <1>1, <3>1 DEF BooksInv, UsedAdds
    <3>3. CASE x = k
      BY <1>7, <2>1, <2>4, <2>5, <2>6, <3>2, <3>3
    <3>4. CASE x # k
      BY <1>6, <1>8, <2>6, <3>2, <3>4
    <3> QED BY <3>3, <3>4
  <2>8. BalanceAdds(balances')
    <3> SUFFICES ASSUME NEW x \in Checked, ~balances'[x].overridden
                 PROVE  Adds(balances'[x])
      BY DEF BalanceAdds
    <3>1. ~balances[x].overridden /\ Adds(balances[x])
      BY <1>1, <1>6, <2>4 DEF BooksInv, BalanceAdds, Checked
    <3>2. CASE x = k
      <4>1. h.app.days <= balances[k].balance
        BY <1>1, <1>2, <1>9, <2>1, <3>1, <3>2 DEF Covered, k
      <4>2. balances'[k].balance = balances[k].balance - h.app.days
        BY <1>7, <2>1, <2>4, <4>1 DEF NonNeg
      <4> QED BY <1>7, <2>1, <2>4, <3>1, <3>2, <4>2 DEF Adds
    <3>3. CASE x # k
      BY <1>6, <3>1, <3>3 DEF Checked
    <3> QED BY <3>2, <3>3
  <2>9. GridBacked(Idle, apps, grid)
    BY <1>1, <2>6 DEF BooksInv, GridBacked
  <2> QED BY <1>1, <1>2, <1>9, <2>7, <2>8, <2>9, AnswerKeepsBooks
<1>10. CASE h.op = "cancelLeave"
  <2> DEFINE n == [h EXCEPT !.at = "clear"]
  <2>1. n.at = "clear" /\ n.op = h.op /\ n.app = h.app /\ Becomes(p, n)
    BY <1>1, <1>2, <1>10 DEF Handler
  <2> HIDE DEF n
  <2>2. h.app \in Application /\ h.app.days \in Nat
    BY <1>1, <1>2, <1>10 DEF WellPlaced, Application
  <2>3. /\ cols = Usage /\ row.used = NonNeg(balances[k].used - h.app.days)
        /\ row.balance = balances[k].balance + h.app.days
    BY <1>1, <1>2, <1>4, <1>10 DEF Computed
  <2>4. "overridden" \notin cols
    BY <2>3 DEF Usage
  <2>5. /\ balances'[k].used = NonNeg(balances[k].used - h.app.days)
        /\ balances'[k].balance = balances[k].balance + h.app.days
        /\ balances'[k].overridden = balances[k].overridden
        /\ balances'[k].extra = balances[k].extra
    BY <1>6, <2>3, <2>4
  <2>6. Due(h, k) = 0 - h.app.days
    BY <1>2, <1>10 DEF Due, Charging, Crediting, k
  <2>7. (\A x : Due(n, x) = 0) /\ \A e, d : Clearing(h, e, d) => Clearing(n, e, d)
    BY <2>1 DEF Due, Charging, Crediting, Clearing
  <2>8. ~balances[k].overridden => balances[k].used - h.app.days = Taken(apps, k)
    BY <1>1, <1>3, <1>7, <2>2, <2>6 DEF BooksInv, UsedAdds
  <2>9. ~balances[k].overridden =>
          balances'[k].used = Taken(apps, k) /\ balances'[k].used = balances[k].used - h.app.days
    <3>1. Taken(apps, k) \in Nat
      BY <1>1, TakenIsNat DEF TypeOK
    <3> QED BY <1>7, <2>2, <2>5, <2>8, <3>1 DEF NonNeg
  <2>10. UsedAdds(n, apps, balances')
    <3> SUFFICES ASSUME NEW x \in Employees \X Types, ~balances'[x].overridden
                 PROVE  balances'[x].used + Due(n, x) = Taken(apps, x)
      BY DEF UsedAdds
    <3>1. CASE x = k
      <4>1. Taken(apps, x) \in Nat
        BY <1>1, TakenIsNat DEF TypeOK
      <4> QED BY <2>5, <2>7, <2>9, <3>1, <4>1
    <3>2. CASE x # k
      BY <1>1, <1>6, <1>8, <2>7, <3>2 DEF BooksInv, UsedAdds
    <3> QED BY <3>1, <3>2
  <2>11. BalanceAdds(balances')
    <3> SUFFICES ASSUME NEW x \in Checked, ~balances'[x].overridden
                 PROVE  Adds(balances'[x])
      BY DEF BalanceAdds
    <3>1. ~balances[x].overridden /\ Adds(balances[x])
      BY <1>1, <1>6, <2>5 DEF BooksInv, BalanceAdds, Checked
    <3>2. CASE x = k
      BY <1>7, <2>2, <2>5, <2>9, <3>1, <3>2 DEF Adds
    <3>3. CASE x # k
      BY <1>6, <3>1, <3>3 DEF Checked
    <3> QED BY <3>2, <3>3
  <2>12. GridBacked(n, apps, grid)
    BY <1>1, <2>7 DEF BooksInv, GridBacked
  <2>13. Remembers(n, apps) /\ Computed(n, balances'[Key(n.app)]) /\ Covered(n, balances')
    BY <1>1, <1>10, <2>1 DEF Remembers, Computed, Covered, Charging
  <2>14. The' = n
    BY <1>1, <2>1, TheHandler
  <2> QED BY <1>2, <2>10, <2>11, <2>12, <2>13, <2>14 DEF BooksInv
<1>11. CASE h.op \notin {"applyLeave", "cancelLeave"}
  <2>1. balances'[k].overridden
    BY <1>1, <1>2, <1>4, <1>6, <1>11 DEF Computed
  <2>2. (\A x : Due(Idle, x) = 0 /\ Due(h, x) = 0) /\ \A e, d : ~Clearing(h, e, d)
    BY <1>2, <1>11, IdleOwes, QuiescentOwes DEF Clearing, Crediting, Charging, Due
  <2>3. UsedAdds(Idle, apps, balances') /\ BalanceAdds(balances') /\ GridBacked(Idle, apps, grid)
    BY <1>1, <1>6, <2>1, <2>2 DEF BooksInv, UsedAdds, BalanceAdds, Checked, GridBacked
  <2> QED BY <1>1, <1>2, <1>11, <2>3, AnswerKeepsBooks
<1> QED BY <1>9, <1>10, <1>11

LEMMA RequestKeepsBooks ==
  ASSUME Alone, BooksInv, TypeInv', NEW p \in Procs, Request(p)
  PROVE  BooksInv'
<1>1. TypeInv
  BY DEF BooksInv
<1>2. ASSUME NEW app \in Application, CheckBalance(p, "applyLeave", 0, app), req[p].at = "idle",
             app.status = "approved" => app.type \in NoApproval
      PROVE  BooksInv'
  BY <1>2, CheckBalanceKeepsBooks
<1>3. ASSUME NEW i \in DOMAIN apps, NEW app \in Application, CheckBalance(p, "updateLeave", i, app),
             req[p].at = "idle", apps[i].status = "pending"
      PROVE  BooksInv'
  BY <1>3, CheckBalanceKeepsBooks
<1>4. ASSUME NEW i \in DOMAIN apps, BeginApprove(p, i) \/ BeginReject(p, i) \/ BeginCancel(p, i)
      PROVE  BooksInv'
  BY <1>4, DecisionBeginKeepsBooks DEF BeginApprove, BeginReject, BeginCancel
<1>5. ASSUME NEW op \in AdminOps, NEW e \in Employees, NEW t \in Types, NEW new \in Balance,
             NEW cols \in SUBSET Columns, BeginCorrection(p, op, e, t, new, cols)
      PROVE  BooksInv'
  BY <1>5, CorrectionBeginKeepsBooks
<1> QED BY <1>1, <1>2, <1>3, <1>4, <1>5, RequestIs

\* Steps that touch no application and no handler.
LEMMA OthersKeepBooks ==
  ASSUME BooksInv, TypeInv', apps' = apps, req' = req, SameBooks(balances, balances'),
         \A e \in Employees, d \in Days : grid'[e][d] = "on_leave" => grid[e][d] = "on_leave"
  PROVE  BooksInv'
<1>1. The' = The
  BY DEF The
<1>2. UsedAdds(The, apps, balances') /\ BalanceAdds(balances') /\ GridBacked(The, apps, grid')
  BY BooksStay DEF BooksInv
<1>3. Covered(The, balances')
  BY DEF BooksInv, Covered, Checked, SameBooks
<1>4. Computed(The, balances'[Key(The.app)])
  <2>1. CASE The.at \in {"commit", "row"}
    <3>1. The.app \in Application \cup Target
      BY <2>1, Zenon DEF BooksInv, TypeInv, WellPlaced, The, Idle
    <3>2. Key(The.app) \in Employees \X Types
      BY <3>1, BalanceOf DEF BooksInv, TypeInv
    <3> QED BY <3>2 DEF BooksInv, Computed, SameBooks
  <2>2. CASE The.at \notin {"commit", "row"}
    BY <2>2 DEF Computed
  <2> QED BY <2>1, <2>2
<1>5. Remembers(The, apps)
  BY DEF BooksInv
<1> QED BY <1>1, <1>2, <1>3, <1>4, <1>5 DEF BooksInv

LEMMA NextKeepsBooks == Alone /\ BooksInv /\ [Next]_vars => BooksInv'
<1> SUFFICES ASSUME Alone, BooksInv, [Next]_vars PROVE BooksInv'
  OBVIOUS
<1>1. TypeInv /\ TypeInv'
  BY NextType DEF BooksInv
<1>2. SameBooks(balances, balances)
  BY DEF SameBooks
<1>3. ASSUME NEW p \in Procs, Statement(p) PROVE BooksInv'
  BY <1>1, <1>3, CheckOverlapKeepsBooks, InsertKeepsBooks, EditKeepsBooks, CancelKeepsBooks,
     ComputeKeepsBooks, CommitKeepsBooks, WriteRowKeepsBooks, ClearGridKeepsBooks, Zenon DEF Statement
<1>4. ASSUME NEW e \in Employees, GetBalances(e) PROVE BooksInv'
  <2>1. SameBooks(balances, balances')
    BY <1>1, <1>4, RollOverKeepsBooks DEF GetBalances, TypeInv
  <2> QED BY <1>1, <1>4, <2>1, OthersKeepBooks DEF GetBalances
<1>5. ASSUME NEW e \in Employees, NEW status \in Punches, Punch(e, status) PROVE BooksInv'
  <2>1. status # "on_leave"
    BY InputAssumption
  <2>2. \A x \in Employees, d \in Days : grid'[x][d] = "on_leave" => grid[x][d] = "on_leave"
    BY <1>1, <1>5, <2>1 DEF Punch, TypeInv, TypeOK
  <2> QED BY <1>1, <1>2, <1>5, <2>2, OthersKeepBooks DEF Punch
<1>6. CASE Tomorrow \/ UNCHANGED vars
  BY <1>1, <1>2, <1>6, OthersKeepBooks DEF Tomorrow, vars
<1> QED BY <1>1, <1>3, <1>4, <1>5, <1>6, RequestKeepsBooks DEF Next

LEMMA InitBooks == Init => BooksInv
<1> SUFFICES ASSUME Init PROVE BooksInv
  OBVIOUS
<1>1. TypeInv
  BY InitType
<1>2. PICK n : n = Idle
  OBVIOUS
<1>3. The = n
  BY <1>2 DEF The, Init
<1>4. \A k : Due(n, k) = 0
  BY <1>2, IdleOwes, QuiescentOwes
<1>5. \A k : Taken(apps, k) = 0
  <2> SUFFICES ASSUME NEW k PROVE Taken(apps, k) = 0
    OBVIOUS
  <2>1. ApprovedIn(apps, k) = {}
    BY DEF Init, ApprovedIn
  <2> QED BY <2>1, SumOfNone DEF Taken
<1>6. UsedAdds(n, apps, balances) /\ BalanceAdds(balances)
  BY <1>4, <1>5, AllocationType DEF Init, UsedAdds, BalanceAdds, Checked, Adds, NewBalance
<1>7. GridBacked(n, apps, grid)
  BY DEF Init, GridBacked
<1>8. Remembers(n, apps) /\ Computed(n, balances[Key(n.app)]) /\ Covered(n, balances)
  BY <1>2, IdleOwes
<1> QED BY <1>1, <1>3, <1>6, <1>7, <1>8 DEF BooksInv

\* Between two requests nothing is due.
LEMMA QuietOwes ==
  ASSUME BooksInv, Quiet
  PROVE  Quiescent(The) /\ (\A k : Due(The, k) = 0) /\ \A e, d : ~Clearing(The, e, d)
<1>1. The.at = "idle"
  BY DEF Quiet, The, Idle
<1> QED BY <1>1, QuiescentOwes DEF Quiescent, Charging, Crediting

-----------------------------------------------------------------------------
(* Theorems of the books *)

\* Served one at a time, no sequence of applications, edits, decisions,
\* cancellations, period rollovers and punches loses or invents a day of
\* total_used: what checkLeaveBalanceIntegrity recomputes is what the row says,
\* until HR overrides it.
THEOREM UsedIsRight == ASSUME Alone PROVE Spec => []UsedIsApproved
<1>1. BooksInv => UsedIsApproved
  <2> SUFFICES ASSUME BooksInv, Quiet, NEW k \in DOMAIN balances, ~balances[k].overridden
               PROVE  balances[k].used = MapThenSumSet(LAMBDA i : apps[i].days, Approved(k))
    BY DEF UsedIsApproved
  <2>1. apps \in Seq(Application) /\ k \in Employees \X Types /\ balances[k] \in Balance
    BY DEF BooksInv, TypeInv, TypeOK
  <2>2. balances[k].used + Due(The, k) = Taken(apps, k) /\ balances[k].used \in Nat
    BY <2>1 DEF BooksInv, UsedAdds, Balance
  <2>3. balances[k].used = Taken(apps, k)
    BY <2>2, QuietOwes
  <2>4. Taken(apps, k) = MapThenSumSet(LAMBDA i : apps[i].days, Approved(k))
    BY <2>1, TakenIsSum DEF Approved, ApprovedIn
  <2> QED BY <2>3, <2>4
<1>2. BooksInv /\ [Next]_vars => BooksInv'
  BY NextKeepsBooks
<1> QED BY <1>1, <1>2, InitBooks, PTL DEF Spec

\* Nor does balance drift from usage, in spite of the floors at zero of deductBalance
\* and creditBalance: approveLeave reads it again before it charges it, and what
\* applyLeave checks is never more than the year's allocation.
THEOREM BalanceIsRight == ASSUME Alone PROVE Spec => []BalanceIsWhatIsLeft
<1>1. BooksInv => BalanceIsWhatIsLeft
  BY DEF BooksInv, TypeInv, TypeOK, BalanceAdds, Adds, Checked, BalanceIsWhatIsLeft
<1>2. BooksInv /\ [Next]_vars => BooksInv'
  BY NextKeepsBooks
<1> QED BY <1>1, <1>2, InitBooks, PTL DEF Spec

\* And every day that payroll will pay as leave is one of an application that is
\* approved, since cancelLeave clears what approveLeave wrote and no step but the
\* approval writes on_leave.
THEOREM LeaveRowsAreRight == ASSUME Alone PROVE Spec => []LeaveRowIsApproved
<1>1. BooksInv => LeaveRowIsApproved
  BY QuietOwes DEF BooksInv, GridBacked, BackedBy, LeaveRowIsApproved
<1>2. BooksInv /\ [Next]_vars => BooksInv'
  BY NextKeepsBooks
<1> QED BY <1>1, <1>2, InitBooks, PTL DEF Spec

=============================================================================
