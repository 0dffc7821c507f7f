------------------------------- MODULE Payout -------------------------------
(***************************************************************************)
(* Disbursing one payroll run through RazorpayX (apps/payroll-api:         *)
(* payout.service.ts, razorpay.service.ts, webhook.routes.ts).             *)
(*                                                                         *)
(* disburseRun, retryPayout and the payout webhook are handlers that stop  *)
(* at every await, as in PayrollRun; the steps of the run itself, which    *)
(* PayrollRun has in detail, are single steps here.  Razorpay is external: *)
(* it keeps one payout per idempotency key, moves it along its life cycle  *)
(* and sends an event at each move.  The five workers of disburseRun only  *)
(* share the list of payslips, and no property relates two payslips, so    *)
(* one payslip at a time in any order stands for them.                     *)
(***************************************************************************)
EXTENDS Naturals, SequencesExt

CONSTANTS
  Procs,       \* concurrent requests
  Employees,
  NetPay,      \* what the run pays each employee
  Accounts,    \* bank accounts
  Ops,         \* the endpoints in use
  Faults,      \* what may go wrong
  Batches,     \* bound: how often the run is computed
  Disbursals,  \* bound: how often disburseRun is called
  Clock,       \* bound: the last reading of Date.now()
  None         \* no bank details, no fund account

AllOps == {"compute", "approve", "markPaid", "rerun", "editBank",
           "disburseRun", "retryPayout", "webhook"}
AllFaults == {"refused",    \* Razorpay answers with an error
              "lost",       \* Razorpay creates the payout and the answer times out
              "write",      \* the statement that records a payout fails
              "crash",      \* the handler stops between two statements
              "reorder",    \* events of a payout arrive in any order
              "duplicate"}  \* an event arrives again

ASSUME PayAssumption == NetPay \in [Employees -> Nat] /\ None \notin Accounts
ASSUME OpsAssumption == Ops \subseteq AllOps /\ Faults \subseteq AllFaults
ASSUME BoundsAssumption ==
  Batches \in Nat /\ Disbursals \in Nat /\ Clock \in Nat

VARIABLES
  run,        \* status of the payroll run
  batch,      \* how often the run was computed: its payslips are new each time
  slips,      \* its payslips
  bank,       \* bank_details of employee_payroll_profiles
  fund,       \* account of the cached fund account; the fingerprint is the same account
  rows,       \* payroll_payouts
  payouts,    \* the payouts Razorpay knows, with the events it has still to deliver
  now,        \* the last Date.now() a retry used
  disbursed,  \* calls of disburseRun so far
  req         \* the handler of each process

vars == <<run, batch, slips, bank, fund, rows, payouts, now, disbursed, req>>
runVars == <<run, batch, slips>>
bankVars == <<bank, fund>>

-----------------------------------------------------------------------------
(* Rows, payouts and handlers *)

RunStatus == {"draft", "computed", "approved", "paid"}
PayoutStatus == {"queued", "processing", "processed", "failed", "reversed", "rejected"}
Retryable == {"failed", "rejected", "reversed"}
Lifecycle == {<<"queued", "processing">>, <<"queued", "rejected">>, <<"processing", "processed">>,
              <<"processing", "failed">>, <<"processing", "reversed">>, <<"processed", "reversed">>}

Slip == [employee : Employees, batch : Nat]
\* The payslip id, and a suffix for each retry.
Key == [slip : Slip, stamps : Seq(Nat)]

\* How many suffixes the column has room for: a payslip id takes 36 of its 64
\* characters, ":r" and Date.now() 15.
KeyRoom == (64 - 36) \div 15

\* payout = 0 is a null razorpay_payout_id.
Row == [slip : Slip, key : Key, payout : Nat, status : PayoutStatus]
RazorpayPayout == [slip : Slip, key : Key, account : Accounts, status : PayoutStatus,
                   events : Seq(PayoutStatus)]

Answer == [payout : Nat, status : PayoutStatus]
Known == [row : Nat, key : Key, status : PayoutStatus]

Nothing == [payout |-> 0, status |-> "queued"]
Idle == [op |-> "idle", at |-> "idle", left |-> {}, known |-> {}, slip |-> None, key |-> None,
         row |-> 0, account |-> None, answer |-> Nothing]

\* left are the payslips still to do and known the rows read, both of disburseRun;
\* row is the row to write, 0 when there is none yet.
Places == {"idle", "slips", "rows", "next", "fund", "cache", "pay", "record", "fail", "apply"}
Request == [op : {"idle", "disburseRun", "retryPayout", "webhook"}, at : Places,
            left : SUBSET Slip, known : SUBSET Known, slip : Slip \cup {None},
            key : Key \cup {None}, row : Nat, account : Accounts \cup {None}, answer : Answer]

Free(p, op) == op \in Ops /\ req[p] = Idle
Becomes(p, handler) == req' = [req EXCEPT ![p] = handler]
GoTo(p, at) == Becomes(p, [req[p] EXCEPT !.at = at])
Respond(p) == Becomes(p, Idle)

\* (Names ending in a word after _ are slips of the definition that follows them:
\* the properties are checked to notice each.)
IdemKey_PerCall(s) == [slip |-> s, stamps |-> <<disbursed>>]
IdemKey(s) == [slip |-> s, stamps |-> <<>>]

Init ==
  /\ run = "draft" /\ batch = 0 /\ slips = {}
  /\ bank \in [Employees -> Accounts \cup {None}]
  /\ fund = [e \in Employees |-> None]
  /\ rows = <<>> /\ payouts = <<>>
  /\ now = 0 /\ disbursed = 0
  /\ req = [p \in Procs |-> Idle]

-----------------------------------------------------------------------------
(* The run and the bank details *)

SlipsOfBatch(n) == {[employee |-> e, batch |-> n] : e \in Employees}

Compute ==
  /\ "compute" \in Ops /\ run = "draft" /\ batch < Batches
  /\ run' = "computed" /\ batch' = batch + 1 /\ slips' = SlipsOfBatch(batch + 1)
  /\ UNCHANGED <<bankVars, rows, payouts, now, disbursed, req>>

Approve ==
  /\ "approve" \in Ops /\ run = "computed" /\ run' = "approved"
  /\ UNCHANGED <<batch, slips, bankVars, rows, payouts, now, disbursed, req>>

MarkPaid ==
  /\ "markPaid" \in Ops /\ run = "approved" /\ run' = "paid"
  /\ UNCHANGED <<batch, slips, bankVars, rows, payouts, now, disbursed, req>>

\* The payslips go; the rows of payroll_payouts stay.
Rerun ==
  /\ "rerun" \in Ops /\ run' = "draft" /\ slips' = {}
  /\ UNCHANGED <<batch, bankVars, rows, payouts, now, disbursed, req>>

EditBank(p, e, account) ==
  /\ Free(p, "editBank")
  /\ bank' = [bank EXCEPT ![e] = account]
  /\ UNCHANGED <<runVars, fund, rows, payouts, now, disbursed, req>>

-----------------------------------------------------------------------------
(* disburseRun *)

BeginDisburse(p) ==
  /\ Free(p, "disburseRun") /\ disbursed < Disbursals
  /\ run \in {"computed", "approved"}
  /\ disbursed' = disbursed + 1
  /\ Becomes(p, [Idle EXCEPT !.op = "disburseRun", !.at = "slips"])
  /\ UNCHANGED <<runVars, bankVars, rows, payouts, now>>

ReadSlips(p) ==
  /\ req[p].at = "slips"
  /\ Becomes(p, [req[p] EXCEPT !.at = "rows", !.left = slips])
  /\ UNCHANGED <<runVars, bankVars, rows, payouts, now, disbursed>>

\* existingByIdem: of the rows with one key the map keeps the last.
ReadRows(p) ==
  /\ req[p].at = "rows"
  /\ LET last == {i \in DOMAIN rows : \A j \in DOMAIN rows : rows[j].key = rows[i].key => j <= i}
         known == {[row |-> i, key |-> rows[i].key, status |-> rows[i].status] : i \in last}
     IN Becomes(p, [req[p] EXCEPT !.at = "next", !.known = known])
  /\ UNCHANGED <<runVars, bankVars, rows, payouts, now, disbursed>>

Already(p, s) == {x \in req[p].known : x.key = IdemKey(s)}

RowOf_Undefined(known) == IF known = {} THEN None ELSE (CHOOSE x \in known : TRUE).row
RowOf(known) == IF known = {} THEN 0 ELSE (CHOOSE x \in known : TRUE).row

NextSlip(p) ==
  Becomes(p, [req[p] EXCEPT !.at = "next", !.slip = None, !.key = None, !.row = 0,
                            !.account = None, !.answer = Nothing])

\* Already paid or on its way, or nothing to pay.
SkipSlip(p, s) ==
  /\ req[p].at = "next" /\ s \in req[p].left
  /\ \/ \E x \in Already(p, s) : x.status \in {"processed", "processing"}
     \/ NetPay[s.employee] = 0
  /\ Becomes(p, [req[p] EXCEPT !.left = @ \ {s}])
  /\ UNCHANGED <<runVars, bankVars, rows, payouts, now, disbursed>>

TakeSlip(p, s) ==
  /\ req[p].at = "next" /\ s \in req[p].left
  /\ \A x \in Already(p, s) : x.status \notin {"processed", "processing"}
  /\ NetPay[s.employee] > 0
  /\ Becomes(p, [req[p] EXCEPT !.at = "fund", !.left = @ \ {s}, !.slip = s,
                               !.key = IdemKey(s), !.row = RowOf(Already(p, s))])
  /\ UNCHANGED <<runVars, bankVars, rows, payouts, now, disbursed>>

EndDisburse(p) ==
  /\ req[p].at = "next" /\ req[p].left = {}
  /\ Respond(p)
  /\ UNCHANGED <<runVars, bankVars, rows, payouts, now, disbursed>>

-----------------------------------------------------------------------------
(* retryPayout *)

BeginRetry_AnyStatus(p, i) ==
  /\ Free(p, "retryPayout")
  /\ rows[i].status # "processed"
  /\ Becomes(p, [Idle EXCEPT !.op = "retryPayout", !.at = "fund", !.slip = rows[i].slip,
                              !.key = rows[i].key, !.row = i])
  /\ UNCHANGED <<runVars, bankVars, rows, payouts, now, disbursed>>
\* Neither the run nor the payslip has to be there any more.
BeginRetry(p, i) ==
  /\ Free(p, "retryPayout")
  /\ rows[i].status \in Retryable
  /\ Becomes(p, [Idle EXCEPT !.op = "retryPayout", !.at = "fund", !.slip = rows[i].slip,
                              !.key = rows[i].key, !.row = i])
  /\ UNCHANGED <<runVars, bankVars, rows, payouts, now, disbursed>>

-----------------------------------------------------------------------------
(* Paying one payslip, for either of them *)

\* disburseRun catches an error and records it, retryPayout passes it on.
Fail(p) == IF req[p].op = "disburseRun" THEN GoTo(p, "fail") ELSE Respond(p)

\* Date.now(), later than for any earlier retry, unless two run at the same time.
Stamps(p) ==
  LET others == {q \in Procs \ {p} : req[q].op = "retryPayout"}
  IN (IF others = {} THEN {now + 1} ELSE {now, now + 1}) \cap (1..Clock)

Stamped(key, t) == [key EXCEPT !.stamps = Append(@, t)]

\* The fund account is there.  A retry takes its fresh key now.
FundReady(p, account) ==
  IF req[p].op = "disburseRun"
    THEN /\ Becomes(p, [req[p] EXCEPT !.at = "pay", !.account = account])
         /\ UNCHANGED now
    ELSE \E t \in Stamps(p) :
           /\ now' = t
           /\ Becomes(p, [req[p] EXCEPT !.at = "pay", !.account = account,
                                        !.key = Stamped(req[p].key, t)])

UseFund_Stale(p) ==
  LET e == req[p].slip.employee
  IN /\ req[p].at = "fund" /\ bank[e] # None /\ fund[e] # None
     /\ FundReady(p, fund[e])
     /\ UNCHANGED <<runVars, bankVars, rows, payouts, disbursed>>
\* ensureFundAccount: the cached account, if the fingerprint is that of the bank details.
UseFund(p) ==
  LET e == req[p].slip.employee
  IN /\ req[p].at = "fund" /\ bank[e] # None /\ fund[e] = bank[e]
     /\ FundReady(p, fund[e])
     /\ UNCHANGED <<runVars, bankVars, rows, payouts, disbursed>>

CreateFund(p) ==
  LET e == req[p].slip.employee
  IN /\ req[p].at = "fund" /\ bank[e] # None /\ fund[e] # bank[e]
     /\ Becomes(p, [req[p] EXCEPT !.at = "cache", !.account = bank[e]])
     /\ UNCHANGED <<runVars, bankVars, rows, payouts, now, disbursed>>

CacheFund(p) ==
  /\ req[p].at = "cache"
  /\ fund' = [fund EXCEPT ![req[p].slip.employee] = req[p].account]
  /\ FundReady(p, req[p].account)
  /\ UNCHANGED <<runVars, bank, rows, payouts, disbursed>>

\* No bank details, or Razorpay refuses the fund account or the payout.
Refuse(p) ==
  /\ \/ req[p].at = "fund" /\ bank[req[p].slip.employee] = None
     \/ req[p].at \in {"fund", "pay"} /\ "refused" \in Faults
  /\ Fail(p)
  /\ UNCHANGED <<runVars, bankVars, rows, payouts, now, disbursed>>

\* Razorpay's answer to a key: the payout it has for it, or a new one.
Answers(key) == {[payout |-> k, status |-> payouts[k].status] : k \in {k \in DOMAIN payouts : payouts[k].key = key}}

Receive(p, answer) ==
  \/ Becomes(p, [req[p] EXCEPT !.at = "record", !.answer = answer])
  \/ "lost" \in Faults /\ Fail(p)

CreatePayout(p, status) ==
  LET r == req[p]
      new == [slip |-> r.slip, key |-> r.key, account |-> r.account, status |-> status,
              events |-> <<>>]
      old == Answers(r.key)
  IN /\ r.at = "pay"
     /\ IF old = {}
          THEN /\ payouts' = Append(payouts, new)
               /\ Receive(p, [payout |-> Len(payouts) + 1, status |-> status])
          ELSE /\ UNCHANGED payouts
               /\ \E answer \in old : Receive(p, answer)
     /\ UNCHANGED <<runVars, bankVars, rows, now, disbursed>>

Done(p) == IF req[p].op = "disburseRun" THEN NextSlip(p) ELSE Respond(p)

\* The row learns the payout: a new row of disburseRun, the row it read, or the
\* row being retried, which takes the fresh key.
Recorded_KeepsPayout(row, r) ==
  [row EXCEPT !.status = r.answer.status, !.key = IF r.op = "retryPayout" THEN r.key ELSE @]
Recorded(row, r) ==
  [row EXCEPT !.payout = r.answer.payout, !.status = r.answer.status,
              !.key = IF r.op = "retryPayout" THEN r.key ELSE @]

\* The column refuses the key of a retry of a retry, which is too long.
Record(p) ==
  LET r == req[p]
      new == [slip |-> r.slip, key |-> r.key, payout |-> r.answer.payout, status |-> r.answer.status]
  IN /\ r.at = "record" /\ Len(r.key.stamps) <= KeyRoom
     /\ rows' = IF r.row = 0 THEN Append(rows, new)
                             ELSE [rows EXCEPT ![r.row] = Recorded(rows[r.row], r)]
     /\ Done(p)
     /\ UNCHANGED <<runVars, bankVars, payouts, now, disbursed>>

RecordFails(p) ==
  /\ req[p].at = "record"
  /\ "write" \in Faults \/ Len(req[p].key.stamps) > KeyRoom
  /\ Fail(p)
  /\ UNCHANGED <<runVars, bankVars, rows, payouts, now, disbursed>>

\* The catch of disburseRun: a failed row, which keeps the payout id it has.
RecordFailure(p) ==
  LET r == req[p]
      new == [slip |-> r.slip, key |-> r.key, payout |-> 0, status |-> "failed"]
  IN /\ r.at = "fail"
     /\ rows' = IF r.row = 0 THEN Append(rows, new)
                             ELSE [rows EXCEPT ![r.row] = [@ EXCEPT !.status = "failed"]]
     /\ NextSlip(p)
     /\ UNCHANGED <<runVars, bankVars, payouts, now, disbursed>>

-----------------------------------------------------------------------------
(* Razorpay and its webhook *)

Moved(payout, status) == [payout EXCEPT !.status = status, !.events = Append(@, status)]
Sent(payout, i) == [payout EXCEPT !.events = RemoveAt(@, i)]

Progress(k, status) ==
  /\ <<payouts[k].status, status>> \in Lifecycle
  /\ payouts' = [payouts EXCEPT ![k] = Moved(payouts[k], status)]
  /\ UNCHANGED <<runVars, bankVars, rows, now, disbursed, req>>

RowsOfEvent_OfPayslip(k) == {i \in DOMAIN rows : rows[i].slip = payouts[k].slip}
RowsOfEvent(k) == {i \in DOMAIN rows : rows[i].payout = k}

\* The i-th event of payout k arrives.  Without a row it is acknowledged and gone.
BeginWebhook(p, k, i) ==
  LET status == payouts[k].events[i]
      found == RowsOfEvent(k)
  IN /\ Free(p, "webhook")
     /\ i = 1 \/ "reorder" \in Faults
     /\ \/ payouts' = [payouts EXCEPT ![k] = Sent(payouts[k], i)]
        \/ "duplicate" \in Faults /\ UNCHANGED payouts
     /\ \/ found = {} /\ UNCHANGED req
        \/ \E row \in found :
             Becomes(p, [Idle EXCEPT !.op = "webhook", !.at = "apply", !.row = row,
                                     !.answer = [payout |-> k, status |-> status]])
     /\ UNCHANGED <<runVars, bankVars, rows, now, disbursed>>

\* applyWebhookEvent writes the status whatever the row says by now.
ApplyWebhook(p) ==
  LET r == req[p]
  IN /\ r.at = "apply"
     /\ rows' = [rows EXCEPT ![r.row] = [@ EXCEPT !.status = r.answer.status]]
     /\ Respond(p)
     /\ UNCHANGED <<runVars, bankVars, payouts, now, disbursed>>

Crash(p) ==
  /\ "crash" \in Faults /\ req[p] # Idle
  /\ Respond(p)
  /\ UNCHANGED <<runVars, bankVars, rows, payouts, now, disbursed>>

RunStep == Compute \/ Approve \/ MarkPaid \/ Rerun

PayStep(p) ==
  \/ UseFund(p) \/ CreateFund(p) \/ CacheFund(p) \/ Refuse(p)
  \/ \E status \in {"queued", "processing"} : CreatePayout(p, status)
  \/ Record(p) \/ RecordFails(p) \/ RecordFailure(p)

HandlerStep(p) ==
  \/ BeginDisburse(p) \/ ReadSlips(p) \/ ReadRows(p) \/ EndDisburse(p)
  \/ \E s \in req[p].left : SkipSlip(p, s) \/ TakeSlip(p, s)
  \/ \E i \in DOMAIN rows : BeginRetry(p, i)
  \/ PayStep(p)
  \/ \E k \in DOMAIN payouts : \E i \in DOMAIN payouts[k].events : BeginWebhook(p, k, i)
  \/ ApplyWebhook(p) \/ Crash(p)
  \/ \E e \in Employees, account \in Accounts \cup {None} : EditBank(p, e, account)

Next ==
  \/ RunStep
  \/ \E k \in DOMAIN payouts, status \in PayoutStatus : Progress(k, status)
  \/ \E p \in Procs : HandlerStep(p)

Spec == Init /\ [][Next]_vars

-----------------------------------------------------------------------------
(* Properties *)

Quiet == \A p \in Procs : req[p] = Idle

\* The money has left, or will.
Live(k) == payouts[k].status \notin Retryable

\* A row can take the key the payout was made under.
Fits(k) == Len(payouts[k].key.stamps) <= KeyRoom

TypeOK ==
  /\ run \in RunStatus /\ batch \in Nat /\ slips \subseteq Slip
  /\ bank \in [Employees -> Accounts \cup {None}]
  /\ fund \in [Employees -> Accounts \cup {None}]
  /\ rows \in Seq(Row) /\ payouts \in Seq(RazorpayPayout)
  /\ now \in Nat /\ disbursed \in Nat
  /\ req \in [Procs -> Request]

\* No payslip is paid twice: however often disburseRun is called, whatever is
\* lost, fails or stops in between, Razorpay has at most one live payout for it.
SlipPaidOnce ==
  \A j, k \in DOMAIN payouts : Live(j) /\ Live(k) /\ payouts[j].slip = payouts[k].slip => j = k

\* With retries: of the live payouts of a payslip at most one was made under a key
\* that the row can take, so that what pays twice is the retry of a retry and
\* nothing else.  That one does: Razorpay makes its payout, the row refuses the
\* key and stays retryable, and the next retry pays again.
PaidOnceWhileKeyFits ==
  \A j, k \in DOMAIN payouts :
    Live(j) /\ Live(k) /\ Fits(j) /\ Fits(k) /\ payouts[j].slip = payouts[k].slip => j = k

\* A row never says processed of a payout that Razorpay has not processed: late,
\* repeated and reordered events of an attempt that was retried do not touch
\* the row any more.
ProcessedIsPaid ==
  \A i \in DOMAIN rows :
    rows[i].status = "processed" => /\ rows[i].payout # 0
                                    /\ payouts[rows[i].payout].status \in {"processed", "reversed"}

\* Every live payout has a row, so that its webhook finds it, unless it is that of a
\* retry of a retry, whose key the row cannot take.
PayoutsTracked ==
  Quiet => \A k \in DOMAIN payouts :
             Live(k) /\ Fits(k) => \E i \in DOMAIN rows : rows[i].payout = k

\* Salaries go to the account on the employee's profile, never to one that an
\* edit replaced before the payout began (ensureFundAccount compares fingerprints).
PaysCurrentAccount ==
  [][\A k \in DOMAIN payouts' \ DOMAIN payouts :
       payouts'[k].account = bank[payouts'[k].slip.employee]]_vars

=============================================================================
