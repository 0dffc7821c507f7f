---------------------------- MODULE PayoutProofs ----------------------------
(***************************************************************************)
(* Theorems of Payout, for any number of concurrent calls, employees and   *)
(* attempts and every choice of faults.                                    *)
(***************************************************************************)
EXTENDS Payout, SequenceTheorems, TLAPS

\* A handler that is paying a payslip knows the payslip and its key, and one
\* about to cache or to use a fund account knows the account; only disburseRun
\* goes through a list of payslips.
Paying == {"fund", "cache", "pay", "record", "fail"}
Listing == {"slips", "rows", "next", "fail"}
WellPlaced(handler) ==
  /\ handler.at \in Listing => handler.op = "disburseRun"
  /\ handler.at \in Paying => handler.slip \in Slip /\ handler.key \in Key
  /\ handler.at \in {"cache", "pay"} => handler.account \in Accounts

Handler == {handler \in Request : WellPlaced(handler)}

TypeInv == TypeOK /\ req \in [Procs -> Handler]

-----------------------------------------------------------------------------
(* Pieces *)

LEMMA SeqAppend ==
  ASSUME NEW S, NEW seq \in Seq(S), NEW x \in S
  PROVE  Append(seq, x) \in Seq(S)
OBVIOUS

LEMMA SeqReplace ==
  ASSUME NEW S, NEW seq \in Seq(S), NEW i, NEW x, i \in DOMAIN seq => x \in S
  PROVE  [seq EXCEPT ![i] = x] \in Seq(S)
<1>1. CASE i \in DOMAIN seq
  BY <1>1, ExceptSeq
<1>2. CASE i \notin DOMAIN seq
  <2>1. [seq EXCEPT ![i] = x] = seq
    BY <1>2
  <2> QED BY <2>1
<1> QED BY <1>1, <1>2

LEMMA SeqElement ==
  ASSUME NEW S, NEW seq \in Seq(S), NEW i \in DOMAIN seq
  PROVE  seq[i] \in S /\ i \in Nat
OBVIOUS

LEMMA NothingType == Nothing \in Answer
BY DEF Nothing, Answer, PayoutStatus

LEMMA IdleType == Idle \in Handler
BY PayAssumption DEF Idle, Handler, WellPlaced, Paying, Listing, Request, Places, Nothing, Answer,
  PayoutStatus

LEMMA IdemKeyType == \A s \in Slip : IdemKey(s) \in Key
BY DEF IdemKey, Key

\* A handler is replaced by a well-formed one.
LEMMA BecomesType ==
  ASSUME TypeInv, NEW p \in Procs, NEW handler \in Handler, Becomes(p, handler)
  PROVE  req' \in [Procs -> Handler]
BY DEF TypeInv, Becomes

LEMMA RespondType ==
  ASSUME TypeInv, NEW p \in Procs, Respond(p)
  PROVE  req' \in [Procs -> Handler]
BY IdleType, BecomesType DEF Respond

LEMMA FailType ==
  ASSUME TypeInv, NEW p \in Procs, req[p].at \in Paying, Fail(p)
  PROVE  req' \in [Procs -> Handler]
<1>1. CASE req[p].op = "disburseRun"
  <2>1. [req[p] EXCEPT !.at = "fail"] \in Handler
    BY <1>1 DEF TypeInv, Handler, WellPlaced, Paying, Listing, Request, Places
  <2> QED BY <1>1, <2>1, BecomesType DEF Fail, GoTo
<1> QED BY <1>1, RespondType DEF Fail

LEMMA NextSlipType ==
  ASSUME TypeInv, NEW p \in Procs, req[p].op = "disburseRun", NextSlip(p)
  PROVE  req' \in [Procs -> Handler]
<1> DEFINE handler == [req[p] EXCEPT !.at = "next", !.slip = None, !.key = None, !.row = 0,
                                     !.account = None, !.answer = Nothing]
<1>1. handler \in Handler
  BY NothingType, ZenonT(60) DEF TypeInv, Handler, WellPlaced, Paying, Listing, Request, Places
<1> QED BY <1>1, BecomesType DEF NextSlip

LEMMA DoneType ==
  ASSUME TypeInv, NEW p \in Procs, Done(p)
  PROVE  req' \in [Procs -> Handler]
BY NextSlipType, RespondType DEF Done

\* The fresh key of a retry is a key.
LEMMA FundReadyType ==
  ASSUME TypeInv, NEW p \in Procs, req[p].at \in Paying, NEW account \in Accounts,
         FundReady(p, account)
  PROVE  req' \in [Procs -> Handler] /\ now' \in Nat
<1>1. req[p] \in Handler /\ req[p].key \in Key /\ now \in Nat
  BY DEF TypeInv, TypeOK, Handler, WellPlaced
<1>2. CASE req[p].op = "disburseRun"
  <2>1. [req[p] EXCEPT !.at = "pay", !.account = account] \in Handler
    BY <1>1 DEF Handler, WellPlaced, Paying, Listing, Request, Places
  <2> QED BY <1>1, <1>2, <2>1, BecomesType DEF FundReady
<1>3. CASE req[p].op # "disburseRun"
  <2>1. PICK t \in Stamps(p) :
          /\ now' = t
          /\ Becomes(p, [req[p] EXCEPT !.at = "pay", !.account = account,
                                       !.key = Stamped(req[p].key, t)])
    BY <1>3 DEF FundReady
  <2>2. t \in Nat
    BY <2>1 DEF Stamps
  <2>3. Stamped(req[p].key, t) \in Key
    <3>1. Append(req[p].key.stamps, t) \in Seq(Nat)
      BY <1>1, <2>2, SeqAppend DEF Key
    <3> QED BY <1>1, <3>1 DEF Stamped, Key
  <2>4. [req[p] EXCEPT !.at = "pay", !.account = account,
                       !.key = Stamped(req[p].key, t)] \in Handler
    BY <1>1, <2>3 DEF Handler, WellPlaced, Paying, Listing, Request, Places
  <2> QED BY <2>1, <2>2, <2>4, BecomesType
<1> QED BY <1>2, <1>3

LEMMA ReceiveType ==
  ASSUME TypeInv, NEW p \in Procs, req[p].at \in Paying, NEW answer \in Answer, Receive(p, answer)
  PROVE  req' \in [Procs -> Handler]
<1>1. [req[p] EXCEPT !.at = "record", !.answer = answer] \in Handler
  BY ZenonT(60) DEF TypeInv, Handler, WellPlaced, Paying, Listing, Request, Places
<1> QED BY <1>1, BecomesType, FailType DEF Receive

-----------------------------------------------------------------------------
(* Type correctness *)

LEMMA RunStepType ==
  ASSUME TypeInv, RunStep \/ \E p \in Procs, e \in Employees, account \in Accounts \cup {None} :
                               EditBank(p, e, account)
  PROVE  TypeInv'
<1> USE DEF TypeInv, TypeOK, runVars, bankVars
<1>1. CASE Compute
  <2>1. SlipsOfBatch(batch + 1) \subseteq Slip
    BY DEF SlipsOfBatch, Slip
  <2> QED BY <1>1, <2>1 DEF Compute, RunStatus
<1>2. CASE Approve
  BY <1>2 DEF Approve, RunStatus
<1>3. CASE MarkPaid
  BY <1>3 DEF MarkPaid, RunStatus
<1>4. CASE Rerun
  BY <1>4 DEF Rerun, RunStatus
<1>5. CASE \E p \in Procs, e \in Employees, account \in Accounts \cup {None} : EditBank(p, e, account)
  BY <1>5 DEF EditBank, Free
<1> QED BY <1>1, <1>2, <1>3, <1>4, <1>5 DEF RunStep

\* The tables a step leaves alone keep their type.
LEMMA TypeInvStep ==
  ASSUME TypeInv, UNCHANGED <<run, batch, slips, bank>>,
         fund' \in [Employees -> Accounts \cup {None}], rows' \in Seq(Row),
         payouts' \in Seq(RazorpayPayout), now' \in Nat, disbursed' \in Nat,
         req' \in [Procs -> Handler]
  PROVE  TypeInv'
BY DEF TypeInv, TypeOK, Handler

LEMMA DisburseType ==
  ASSUME TypeInv, NEW p \in Procs,
         \/ BeginDisburse(p) \/ ReadSlips(p) \/ ReadRows(p) \/ EndDisburse(p)
         \/ \E s \in req[p].left : SkipSlip(p, s) \/ TakeSlip(p, s)
  PROVE  TypeInv'
<1> USE DEF runVars, bankVars
<1>0. req[p] \in Handler /\ req[p] \in Request /\ req[p].left \subseteq Slip
      /\ req[p].known \subseteq Known
  BY DEF TypeInv, Handler, Request
<1>1. CASE BeginDisburse(p)
  <2>1. [Idle EXCEPT !.op = "disburseRun", !.at = "slips"] \in Handler
    BY IdleType DEF Handler, WellPlaced, Paying, Listing, Request, Places
  <2> QED BY <1>1, <2>1, BecomesType, TypeInvStep DEF BeginDisburse, TypeInv, TypeOK
<1>2. CASE ReadSlips(p)
  <2>0. req[p].op = "disburseRun" /\ slips \subseteq Slip
    BY <1>0, <1>2 DEF ReadSlips, Handler, WellPlaced, Listing, TypeInv, TypeOK
  <2>1. [req[p] EXCEPT !.at = "rows", !.left = slips] \in Handler
    BY <1>0, <2>0 DEF Handler, WellPlaced, Paying, Listing, Request, Places
  <2> QED BY <1>2, <2>1, BecomesType, TypeInvStep DEF ReadSlips, TypeInv, TypeOK
<1>3. CASE ReadRows(p)
  <2> DEFINE last == {i \in DOMAIN rows : \A j \in DOMAIN rows : rows[j].key = rows[i].key => j <= i}
             known == {[row |-> i, key |-> rows[i].key, status |-> rows[i].status] : i \in last}
  <2>1. known \subseteq Known
    <3>1. \A i \in DOMAIN rows : rows[i] \in Row /\ i \in Nat
      BY SeqElement DEF TypeInv, TypeOK
    <3> QED BY <3>1 DEF Known, Row
  <2>2. [req[p] EXCEPT !.at = "next", !.known = known] \in Handler
    <3>1. req[p].op = "disburseRun"
      BY <1>0, <1>3 DEF ReadRows, Handler, WellPlaced, Listing
    <3> HIDE DEF known
    <3> QED BY <1>0, <2>1, <3>1 DEF Handler, WellPlaced, Paying, Listing, Request, Places
  <2> QED BY <1>3, <2>2, BecomesType, TypeInvStep DEF ReadRows, TypeInv, TypeOK
<1>4. CASE EndDisburse(p)
  BY <1>4, RespondType, TypeInvStep DEF EndDisburse, TypeInv, TypeOK
<1>5. ASSUME NEW s \in req[p].left, SkipSlip(p, s)
      PROVE  TypeInv'
  <2>1. [req[p] EXCEPT !.left = @ \ {s}] \in Handler
    BY <1>0 DEF Handler, WellPlaced, Request
  <2> QED BY <1>5, <2>1, BecomesType, TypeInvStep DEF SkipSlip, TypeInv, TypeOK
<1>6. ASSUME NEW s \in req[p].left, TakeSlip(p, s)
      PROVE  TypeInv'
  <2> DEFINE i == RowOf(Already(p, s))
  <2>1. i \in Nat
    <3>1. Already(p, s) \subseteq Known
      BY <1>0 DEF Already
    <3>2. \A known \in SUBSET Known : RowOf(known) \in Nat
      BY DEF RowOf, Known
    <3> QED BY <3>1, <3>2
  <2>2. s \in Slip /\ IdemKey(s) \in Key
    BY <1>0, IdemKeyType
  <2>3. [req[p] EXCEPT !.at = "fund", !.left = @ \ {s}, !.slip = s,
                       !.key = IdemKey(s), !.row = i] \in Handler
    <3> HIDE DEF i
    <3> QED BY <1>0, <2>1, <2>2 DEF Handler, WellPlaced, Paying, Listing, Request, Places
  <2> QED BY <1>6, <2>3, BecomesType, TypeInvStep DEF TakeSlip, TypeInv, TypeOK
<1> QED BY <1>1, <1>2, <1>3, <1>4, <1>5, <1>6

LEMMA RetryType ==
  ASSUME TypeInv, NEW p \in Procs, NEW i \in DOMAIN rows, BeginRetry(p, i)
  PROVE  TypeInv'
<1>1. rows[i] \in Row /\ i \in Nat
  BY DEF TypeInv, TypeOK
<1>2. [Idle EXCEPT !.op = "retryPayout", !.at = "fund", !.slip = rows[i].slip,
                   !.key = rows[i].key, !.row = i] \in Handler
  BY <1>1, IdleType DEF Handler, WellPlaced, Paying, Listing, Request, Places, Row
<1> QED BY <1>2, BecomesType, TypeInvStep DEF BeginRetry, TypeInv, TypeOK, runVars, bankVars

LEMMA PayType ==
  ASSUME TypeInv, NEW p \in Procs, PayStep(p)
  PROVE  TypeInv'
<1> USE DEF runVars, bankVars
<1>0. /\ req[p] \in Handler /\ req[p] \in Request
      /\ req[p].at \in Paying => req[p].slip \in Slip /\ req[p].key \in Key
      /\ req[p].at \in {"cache", "pay"} => req[p].account \in Accounts
      /\ req[p].slip \in Slip => req[p].slip.employee \in Employees
      /\ rows \in Seq(Row) /\ payouts \in Seq(RazorpayPayout) /\ req[p].answer \in Answer
  BY DEF TypeInv, TypeOK, Handler, WellPlaced, Request, Slip
<1>1. CASE UseFund(p)
  <2>1. req[p].at \in Paying /\ fund[req[p].slip.employee] \in Accounts
    BY <1>0, <1>1 DEF UseFund, Paying, TypeInv, TypeOK
  <2> QED BY <1>1, <2>1, FundReadyType, TypeInvStep DEF UseFund, TypeInv, TypeOK
<1>2. CASE CreateFund(p)
  <2>1. bank[req[p].slip.employee] \in Accounts /\ req[p].slip \in Slip /\ req[p].key \in Key
    BY <1>0, <1>2 DEF CreateFund, Paying, TypeInv, TypeOK
  <2>2. [req[p] EXCEPT !.at = "cache", !.account = bank[req[p].slip.employee]] \in Handler
    BY <1>0, <2>1 DEF Handler, WellPlaced, Paying, Listing, Request, Places
  <2> QED BY <1>2, <2>2, BecomesType, TypeInvStep DEF CreateFund, TypeInv, TypeOK
<1>3. CASE CacheFund(p)
  <2>1. req[p].at \in Paying /\ req[p].account \in Accounts /\ req[p].slip.employee \in Employees
    BY <1>0, <1>3 DEF CacheFund, Paying
  <2>2. fund' \in [Employees -> Accounts \cup {None}]
    BY <1>3, <2>1 DEF CacheFund, TypeInv, TypeOK
  <2> QED BY <1>3, <2>1, <2>2, FundReadyType, TypeInvStep DEF CacheFund, TypeInv, TypeOK
<1>4. CASE Refuse(p)
  <2>1. req[p].at \in Paying
    BY <1>4 DEF Refuse, Paying
  <2> QED BY <1>4, <2>1, FailType, TypeInvStep DEF Refuse, TypeInv, TypeOK
<1>5. ASSUME NEW status \in {"queued", "processing"}, CreatePayout(p, status)
      PROVE  TypeInv'
  <2> DEFINE new == [slip |-> req[p].slip, key |-> req[p].key, account |-> req[p].account,
                     status |-> status, events |-> <<>>]
             old == Answers(req[p].key)
  <2>1. req[p].at \in Paying /\ new \in RazorpayPayout
    BY <1>0, <1>5 DEF CreatePayout, Paying, RazorpayPayout, PayoutStatus
  <2>2. [payout |-> Len(payouts) + 1, status |-> status] \in Answer
    BY <1>0 DEF Answer, PayoutStatus
  <2>3. \A answer \in old : answer \in Answer
    <3>1. \A k \in DOMAIN payouts : payouts[k] \in RazorpayPayout /\ k \in Nat
      BY <1>0, SeqElement
    <3> QED BY <3>1 DEF Answers, Answer, RazorpayPayout
  <2>4. CASE old = {}
    <3>1. /\ payouts' = Append(payouts, new)
          /\ Receive(p, [payout |-> Len(payouts) + 1, status |-> status])
      BY <1>5, <2>4 DEF CreatePayout
    <3>2. payouts' \in Seq(RazorpayPayout)
      BY <1>0, <2>1, <3>1
    <3> QED BY <1>5, <2>1, <2>2, <3>1, <3>2, ReceiveType, TypeInvStep DEF CreatePayout, TypeInv, TypeOK
  <2>5. CASE old # {}
    <3>1. UNCHANGED payouts /\ \E answer \in old : Receive(p, answer)
      BY <1>5, <2>5 DEF CreatePayout
    <3> QED BY <1>5, <2>1, <2>3, <3>1, ReceiveType, TypeInvStep DEF CreatePayout, TypeInv, TypeOK
  <2> QED BY <2>4, <2>5
<1>6. CASE Record(p)
  <2> DEFINE new == [slip |-> req[p].slip, key |-> req[p].key, payout |-> req[p].answer.payout,
                     status |-> req[p].answer.status]
  <2>1. req[p].slip \in Slip /\ req[p].key \in Key
    BY <1>0, <1>6 DEF Record, Paying
  <2>2. new \in Row
    BY <1>0, <2>1 DEF Row, Answer
  <2>3. \A row \in Row : Recorded(row, req[p]) \in Row
    BY <1>0, <2>1 DEF Recorded, Row, Answer
  <2>4. rows' = IF req[p].row = 0 THEN Append(rows, new)
                ELSE [rows EXCEPT ![req[p].row] = Recorded(rows[req[p].row], req[p])]
    BY <1>6 DEF Record
  <2>5. rows' \in Seq(Row)
    <3>1. Append(rows, new) \in Seq(Row)
      BY <1>0, <2>2, SeqAppend
    <3>2. [rows EXCEPT ![req[p].row] = Recorded(rows[req[p].row], req[p])] \in Seq(Row)
      BY <1>0, <2>3, SeqElement, SeqReplace
    <3> QED BY <2>4, <3>1, <3>2
  <2> QED BY <1>6, <2>5, DoneType, TypeInvStep DEF Record, TypeInv, TypeOK
<1>7. CASE RecordFails(p)
  <2>1. req[p].at \in Paying
    BY <1>7 DEF RecordFails, Paying
  <2> QED BY <1>7, <2>1, FailType, TypeInvStep DEF RecordFails, TypeInv, TypeOK
<1>8. CASE RecordFailure(p)
  <2> DEFINE new == [slip |-> req[p].slip, key |-> req[p].key, payout |-> 0, status |-> "failed"]
  <2>1. new \in Row
    BY <1>0, <1>8 DEF RecordFailure, Paying, Row, PayoutStatus
  <2>2. \A row \in Row : [row EXCEPT !.status = "failed"] \in Row
    BY DEF Row, PayoutStatus
  <2>3. rows' = IF req[p].row = 0 THEN Append(rows, new)
                ELSE [rows EXCEPT ![req[p].row] = [@ EXCEPT !.status = "failed"]]
    BY <1>8 DEF RecordFailure
  <2>4. rows' \in Seq(Row)
    <3>1. Append(rows, new) \in Seq(Row)
      BY <1>0, <2>1, SeqAppend
    <3>2. [rows EXCEPT ![req[p].row] = [rows[req[p].row] EXCEPT !.status = "failed"]] \in Seq(Row)
      BY <1>0, <2>2, SeqElement, SeqReplace
    <3> QED BY <2>3, <3>1, <3>2
  <2>5. req[p].op = "disburseRun"
    BY <1>0, <1>8 DEF RecordFailure, Handler, WellPlaced, Listing
  <2> QED BY <1>8, <2>4, <2>5, NextSlipType, TypeInvStep DEF RecordFailure, TypeInv, TypeOK
<1> QED BY <1>1, <1>2, <1>3, <1>4, <1>5, <1>6, <1>7, <1>8 DEF PayStep

LEMMA WebhookType ==
  ASSUME TypeInv, NEW p \in Procs,
         \/ \E k \in DOMAIN payouts : \E i \in DOMAIN payouts[k].events : BeginWebhook(p, k, i)
         \/ ApplyWebhook(p)
  PROVE  TypeInv'
<1> USE DEF runVars, bankVars
<1>0. /\ rows \in Seq(Row) /\ payouts \in Seq(RazorpayPayout) /\ req \in [Procs -> Handler]
      /\ \A k \in DOMAIN payouts : payouts[k] \in RazorpayPayout /\ k \in Nat
  BY SeqElement DEF TypeInv, TypeOK
<1>1. ASSUME NEW k \in DOMAIN payouts, NEW i \in DOMAIN payouts[k].events, BeginWebhook(p, k, i)
      PROVE  TypeInv'
  <2> DEFINE status == payouts[k].events[i]
             found == RowsOfEvent(k)
  <2>1. payouts[k].events \in Seq(PayoutStatus) /\ status \in PayoutStatus
    BY <1>0, SeqElement DEF RazorpayPayout
  <2>2. payouts' \in Seq(RazorpayPayout)
    <3>1. RemoveAt(payouts[k].events, i) \in Seq(PayoutStatus)
      BY <2>1 DEF RemoveAt
    <3>2. Sent(payouts[k], i) \in RazorpayPayout
      BY <1>0, <3>1 DEF RazorpayPayout, Sent
    <3>3. \/ payouts' = [payouts EXCEPT ![k] = Sent(payouts[k], i)]
          \/ payouts' = payouts
      BY <1>1 DEF BeginWebhook
    <3> QED BY <1>0, <3>2, <3>3, SeqReplace
  <2>3. \A row \in found : row \in Nat
    BY <1>0, SeqElement DEF RowsOfEvent
  <2>4. ASSUME NEW row \in found
        PROVE  [Idle EXCEPT !.op = "webhook", !.at = "apply", !.row = row,
                            !.answer = [payout |-> k, status |-> status]] \in Handler
    BY <1>0, <2>1, <2>3, IdleType DEF Handler, WellPlaced, Paying, Listing, Request, Places, Answer
  <2>5. req' \in [Procs -> Handler]
    <3>1. CASE UNCHANGED req
      BY <1>0, <3>1
    <3>2. CASE \E row \in found :
                 Becomes(p, [Idle EXCEPT !.op = "webhook", !.at = "apply", !.row = row,
                                         !.answer = [payout |-> k, status |-> status]])
      BY <2>4, <3>2, BecomesType
    <3> QED BY <1>1, <3>1, <3>2 DEF BeginWebhook
  <2> QED BY <1>1, <2>2, <2>5, TypeInvStep DEF BeginWebhook, TypeInv, TypeOK
<1>2. CASE ApplyWebhook(p)
  <2> DEFINE row == [rows[req[p].row] EXCEPT !.status = req[p].answer.status]
  <2>1. req[p].row \in DOMAIN rows => row \in Row
    <3>1. req[p].answer.status \in PayoutStatus
      BY <1>0 DEF Handler, Request, Answer
    <3>2. req[p].row \in DOMAIN rows => rows[req[p].row] \in Row
      BY <1>0, SeqElement
    <3> QED BY <3>1, <3>2 DEF Row
  <2>2. rows' = [rows EXCEPT ![req[p].row] = row]
    BY <1>2 DEF ApplyWebhook
  <2>3. rows' \in Seq(Row)
    <3> HIDE DEF row
    <3> QED BY <1>0, <2>1, <2>2, SeqReplace
  <2> QED BY <1>2, <2>3, RespondType, TypeInvStep DEF ApplyWebhook, TypeInv, TypeOK
<1> QED BY <1>1, <1>2

LEMMA ProgressType ==
  ASSUME TypeInv, NEW k \in DOMAIN payouts, NEW status \in PayoutStatus, Progress(k, status)
  PROVE  TypeInv'
<1> DEFINE moved == Moved(payouts[k], status)
<1>1. payouts[k] \in RazorpayPayout /\ payouts \in Seq(RazorpayPayout)
  BY SeqElement DEF TypeInv, TypeOK
<1>2. moved \in RazorpayPayout
  <2>1. Append(payouts[k].events, status) \in Seq(PayoutStatus)
    BY <1>1, SeqAppend DEF RazorpayPayout
  <2> QED BY <1>1, <2>1 DEF RazorpayPayout, Moved
<1>3. payouts' = [payouts EXCEPT ![k] = moved]
  BY DEF Progress
<1>4. payouts' \in Seq(RazorpayPayout)
  <2> HIDE DEF moved
  <2> QED BY <1>1, <1>2, <1>3, SeqReplace
<1> QED BY <1>4, TypeInvStep DEF Progress, TypeInv, TypeOK, runVars, bankVars

LEMMA TypeNext ==
  ASSUME TypeInv, [Next]_vars
  PROVE  TypeInv'
<1>1. CASE RunStep
  BY <1>1, RunStepType
<1>2. CASE \E k \in DOMAIN payouts, status \in PayoutStatus : Progress(k, status)
  BY <1>2, ProgressType
<1>3. ASSUME NEW p \in Procs, HandlerStep(p)
      PROVE  TypeInv'
  <2>1. CASE Crash(p)
    BY <2>1, RespondType, TypeInvStep DEF Crash, TypeInv, TypeOK, runVars, bankVars
  <2> QED BY <1>3, <2>1, RunStepType, DisburseType, RetryType, PayType, WebhookType DEF HandlerStep
<1>4. CASE UNCHANGED vars
  BY <1>4 DEF vars, TypeInv, TypeOK, Handler
<1> QED BY <1>1, <1>2, <1>3, <1>4 DEF Next

LEMMA TypeInit == Init => TypeInv
BY IdleType DEF Init, TypeInv, TypeOK, RunStatus, Handler

\* The tables, what Razorpay keeps and the handlers keep their types.
THEOREM TypeCorrect == Spec => []TypeOK
<1>1. TypeInv => TypeOK
  BY DEF TypeInv
<1> QED BY <1>1, TypeInit, TypeNext, PTL DEF Spec

-----------------------------------------------------------------------------
(* disburseRun pays a payslip once *)

\* Without retries a payout is asked for under the payslip's own key only, and
\* Razorpay has one payout for it.  Whatever the rows say does not matter.
UnderOwnKey == \A k \in DOMAIN payouts : payouts[k].key = IdemKey(payouts[k].slip)
OnePerKey == \A j, k \in DOMAIN payouts : payouts[j].key = payouts[k].key => j = k
AsksUnderOwnKey ==
  \A p \in Procs : req[p].at \in Paying => /\ req[p].op = "disburseRun"
                                           /\ req[p].key = IdemKey(req[p].slip)
OnceInv == TypeInv /\ UnderOwnKey /\ OnePerKey /\ AsksUnderOwnKey

LEMMA OnceImplies == OnceInv => SlipPaidOnce
BY DEF OnceInv, UnderOwnKey, OnePerKey, SlipPaidOnce

\* A step that keeps key and payslip of every payout, and adds none, keeps them apart.
LEMMA SamePayouts ==
  ASSUME UnderOwnKey, OnePerKey, DOMAIN payouts' = DOMAIN payouts,
         \A k \in DOMAIN payouts : /\ payouts'[k].key = payouts[k].key
                                   /\ payouts'[k].slip = payouts[k].slip
  PROVE  UnderOwnKey' /\ OnePerKey'
BY DEF UnderOwnKey, OnePerKey, IdemKey

\* A handler that becomes one that pays must be disburseRun's, with the own key.
LEMMA AsksStep ==
  ASSUME TypeInv, AsksUnderOwnKey, NEW p \in Procs, NEW handler, Becomes(p, handler),
         handler.at \in Paying => handler.op = "disburseRun" /\ handler.key = IdemKey(handler.slip)
  PROVE  AsksUnderOwnKey'
BY DEF TypeInv, AsksUnderOwnKey, Becomes, IdemKey

LEMMA AsksFail ==
  ASSUME TypeInv, AsksUnderOwnKey, NEW p \in Procs, req[p].at \in Paying, Fail(p)
  PROVE  AsksUnderOwnKey'
<1>1. req[p] \in Request /\ req[p].op = "disburseRun" /\ req[p].key = IdemKey(req[p].slip)
  BY DEF TypeInv, Handler, AsksUnderOwnKey
<1>2. Becomes(p, [req[p] EXCEPT !.at = "fail"])
  BY <1>1 DEF Fail, GoTo
<1> QED BY <1>1, <1>2, AsksStep DEF Request

LEMMA AsksDone ==
  ASSUME TypeInv, AsksUnderOwnKey, NEW p \in Procs, Done(p) \/ NextSlip(p) \/ Respond(p)
  PROVE  AsksUnderOwnKey'
<1>1. Idle.at \notin Paying
  BY DEF Idle, Paying
<1>2. CASE Respond(p)
  BY <1>1, <1>2, AsksStep DEF Respond
<1>3. CASE NextSlip(p)
  <2> DEFINE handler == [req[p] EXCEPT !.at = "next", !.slip = None, !.key = None, !.row = 0,
                                       !.account = None, !.answer = Nothing]
  <2>1. handler.at \notin Paying
    BY DEF TypeInv, Handler, Request, Paying
  <2>2. Becomes(p, handler)
    BY <1>3 DEF NextSlip
  <2> HIDE DEF handler
  <2> QED BY <2>1, <2>2, AsksStep
<1> QED BY <1>2, <1>3 DEF Done

LEMMA AsksFund ==
  ASSUME TypeInv, AsksUnderOwnKey, NEW p \in Procs, req[p].at \in Paying,
         NEW account, FundReady(p, account)
  PROVE  AsksUnderOwnKey'
<1>1. req[p] \in Request /\ req[p].op = "disburseRun" /\ req[p].key = IdemKey(req[p].slip)
  BY DEF TypeInv, Handler, AsksUnderOwnKey
<1>2. Becomes(p, [req[p] EXCEPT !.at = "pay", !.account = account])
  BY <1>1 DEF FundReady
<1> QED BY <1>1, <1>2, AsksStep DEF Request

\* Paying a payslip: the one step that asks Razorpay either finds the payout of
\* the key or adds the first one.
LEMMA OncePay ==
  ASSUME OnceInv, NEW p \in Procs, PayStep(p)
  PROVE  UnderOwnKey' /\ OnePerKey' /\ AsksUnderOwnKey'
<1> USE DEF OnceInv
<1>0. req[p] \in Request
  BY DEF TypeInv, Handler
<1>1. CASE UseFund(p)
  BY <1>1, AsksFund, SamePayouts DEF UseFund, Paying
<1>2. CASE CreateFund(p)
  <2> DEFINE handler == [req[p] EXCEPT !.at = "cache", !.account = bank[req[p].slip.employee]]
  <2>1. handler.op = "disburseRun" /\ handler.key = IdemKey(handler.slip)
    BY <1>0, <1>2 DEF CreateFund, AsksUnderOwnKey, Request, Paying
  <2>2. Becomes(p, handler) /\ UNCHANGED payouts
    BY <1>2 DEF CreateFund
  <2> HIDE DEF handler
  <2> QED BY <2>1, <2>2, AsksStep, SamePayouts
<1>3. CASE CacheFund(p)
  BY <1>3, AsksFund, SamePayouts DEF CacheFund, Paying
<1>4. CASE Refuse(p)
  BY <1>4, AsksFail, SamePayouts DEF Refuse, Paying
<1>5. ASSUME NEW status \in {"queued", "processing"}, CreatePayout(p, status)
      PROVE  UnderOwnKey' /\ OnePerKey' /\ AsksUnderOwnKey'
  <2> DEFINE new == [slip |-> req[p].slip, key |-> req[p].key, account |-> req[p].account,
                     status |-> status, events |-> <<>>]
  <2>1. req[p].at \in Paying /\ req[p].op = "disburseRun" /\ req[p].key = IdemKey(req[p].slip)
    BY <1>5 DEF CreatePayout, Paying, AsksUnderOwnKey
  <2>2. ASSUME NEW answer, Receive(p, answer)
        PROVE  AsksUnderOwnKey'
    <3>1. CASE Becomes(p, [req[p] EXCEPT !.at = "record", !.answer = answer])
      BY <1>0, <2>1, <3>1, AsksStep DEF Request
    <3> QED BY <2>1, <2>2, <3>1, AsksFail DEF Receive
  <2>3. CASE Answers(req[p].key) = {}
    <3>1. payouts' = Append(payouts, new)
      BY <1>5, <2>3 DEF CreatePayout
    <3>2. \A k \in DOMAIN payouts : payouts[k].key # req[p].key
      BY <2>3 DEF Answers
    <3>3. payouts \in Seq(RazorpayPayout)
      BY DEF TypeInv, TypeOK
    <3>4. /\ DOMAIN payouts' = DOMAIN payouts \cup {Len(payouts) + 1}
          /\ \A k \in DOMAIN payouts : payouts'[k] = payouts[k]
          /\ payouts'[Len(payouts) + 1] = new
      <4> HIDE DEF new
      <4> QED BY <3>1, <3>3
    <3>5. new.key = req[p].key /\ new.slip = req[p].slip
      OBVIOUS
    <3> HIDE DEF new
    <3>6. UnderOwnKey'
      BY <2>1, <3>4, <3>5 DEF UnderOwnKey, IdemKey
    <3>7. OnePerKey'
      BY <3>2, <3>4, <3>5 DEF OnePerKey
    <3> QED BY <1>5, <2>2, <2>3, <3>6, <3>7 DEF CreatePayout
  <2>4. CASE Answers(req[p].key) # {}
    BY <1>5, <2>2, <2>4, SamePayouts DEF CreatePayout
  <2> QED BY <2>3, <2>4
<1>6. CASE Record(p)
  BY <1>6, AsksDone, SamePayouts DEF Record
<1>7. CASE RecordFails(p)
  BY <1>7, AsksFail, SamePayouts DEF RecordFails, Paying
<1>8. CASE RecordFailure(p)
  BY <1>8, AsksDone, SamePayouts DEF RecordFailure
<1> QED BY <1>1, <1>2, <1>3, <1>4, <1>5, <1>6, <1>7, <1>8 DEF PayStep

LEMMA OnceHandler ==
  ASSUME OnceInv, "retryPayout" \notin Ops, NEW p \in Procs, HandlerStep(p)
  PROVE  UnderOwnKey' /\ OnePerKey' /\ AsksUnderOwnKey'
<1> USE DEF OnceInv
<1>0. req[p] \in Request /\ payouts \in Seq(RazorpayPayout)
  BY DEF TypeInv, TypeOK, Handler
<1>1. CASE BeginDisburse(p)
  <2>1. [Idle EXCEPT !.op = "disburseRun", !.at = "slips"].at \notin Paying
    BY DEF Idle, Paying
  <2> QED BY <1>1, <2>1, AsksStep, SamePayouts DEF BeginDisburse
<1>2. CASE ReadSlips(p)
  <2>1. [req[p] EXCEPT !.at = "rows", !.left = slips].at \notin Paying
    BY <1>0 DEF Request, Paying
  <2> QED BY <1>2, <2>1, AsksStep, SamePayouts DEF ReadSlips
<1>3. CASE ReadRows(p)
  <2>1. PICK known : Becomes(p, [req[p] EXCEPT !.at = "next", !.known = known])
    BY <1>3 DEF ReadRows
  <2>2. [req[p] EXCEPT !.at = "next", !.known = known].at \notin Paying
    BY <1>0 DEF Request, Paying
  <2> QED BY <1>3, <2>1, <2>2, AsksStep, SamePayouts DEF ReadRows
<1>4. CASE EndDisburse(p) \/ Crash(p) \/ ApplyWebhook(p)
  BY <1>4, AsksDone, SamePayouts DEF EndDisburse, Crash, ApplyWebhook
<1>5. ASSUME NEW s \in req[p].left, SkipSlip(p, s)
      PROVE  UnderOwnKey' /\ OnePerKey' /\ AsksUnderOwnKey'
  <2>1. [req[p] EXCEPT !.left = @ \ {s}].at \notin Paying
    BY <1>0, <1>5 DEF SkipSlip, Request, Paying
  <2> QED BY <1>5, <2>1, AsksStep, SamePayouts DEF SkipSlip
<1>6. ASSUME NEW s \in req[p].left, TakeSlip(p, s)
      PROVE  UnderOwnKey' /\ OnePerKey' /\ AsksUnderOwnKey'
  <2> DEFINE handler == [req[p] EXCEPT !.at = "fund", !.left = @ \ {s}, !.slip = s,
                                       !.key = IdemKey(s), !.row = RowOf(Already(p, s))]
  <2>1. req[p].op = "disburseRun"
    BY <1>6 DEF TakeSlip, TypeInv, Handler, WellPlaced, Listing
  <2>2. handler.op = "disburseRun" /\ handler.key = IdemKey(handler.slip)
    BY <1>0, <2>1 DEF Request
  <2>3. Becomes(p, handler) /\ UNCHANGED payouts
    BY <1>6 DEF TakeSlip
  <2> HIDE DEF handler
  <2> QED BY <2>2, <2>3, AsksStep, SamePayouts
<1>7. ASSUME NEW i \in DOMAIN rows, BeginRetry(p, i)
      PROVE  FALSE
  BY <1>7 DEF BeginRetry, Free
<1>8. ASSUME NEW k \in DOMAIN payouts, NEW i \in DOMAIN payouts[k].events, BeginWebhook(p, k, i)
      PROVE  UnderOwnKey' /\ OnePerKey' /\ AsksUnderOwnKey'
  <2>1. payouts' = payouts \/ payouts' = [payouts EXCEPT ![k] = Sent(payouts[k], i)]
    BY <1>8 DEF BeginWebhook
  <2>2. /\ DOMAIN payouts' = DOMAIN payouts
        /\ \A j \in DOMAIN payouts : /\ payouts'[j].key = payouts[j].key
                                     /\ payouts'[j].slip = payouts[j].slip
    <3>1. payouts[k] \in RazorpayPayout
      BY <1>0, SeqElement
    <3>2. Sent(payouts[k], i).key = payouts[k].key /\ Sent(payouts[k], i).slip = payouts[k].slip
      BY <3>1 DEF Sent, RazorpayPayout
    <3> HIDE DEF OnceInv
    <3> QED BY <1>0, <2>1, <3>2
  <2>3. AsksUnderOwnKey'
    <3>1. CASE UNCHANGED req
      BY <3>1 DEF AsksUnderOwnKey, IdemKey
    <3>2. ASSUME NEW row,
                 Becomes(p, [Idle EXCEPT !.op = "webhook", !.at = "apply", !.row = row,
                               !.answer = [payout |-> k, status |-> payouts[k].events[i]]])
          PROVE  AsksUnderOwnKey'
      <4>1. [Idle EXCEPT !.op = "webhook", !.at = "apply", !.row = row,
               !.answer = [payout |-> k, status |-> payouts[k].events[i]]].at \notin Paying
        BY DEF Idle, Paying
      <4> QED BY <3>2, <4>1, AsksStep
    <3> QED BY <1>8, <3>1, <3>2 DEF BeginWebhook
  <2> QED BY <2>2, <2>3, SamePayouts
<1>9. CASE \E e \in Employees, account \in Accounts \cup {None} : EditBank(p, e, account)
  BY <1>9, SamePayouts DEF EditBank, AsksUnderOwnKey, IdemKey
<1> QED BY <1>1, <1>2, <1>3, <1>4, <1>5, <1>6, <1>7, <1>8, <1>9, OncePay DEF HandlerStep

LEMMA OnceNext ==
  ASSUME OnceInv, [Next]_vars, "retryPayout" \notin Ops
  PROVE  OnceInv'
<1>1. TypeInv'
  BY TypeNext DEF OnceInv
<1>2. CASE RunStep
  <2>1. UNCHANGED <<payouts, req>>
    BY <1>2 DEF RunStep, Compute, Approve, MarkPaid, Rerun
  <2> QED BY <1>1, <2>1, SamePayouts DEF OnceInv, AsksUnderOwnKey, IdemKey
<1>3. ASSUME NEW k \in DOMAIN payouts, NEW status \in PayoutStatus, Progress(k, status)
      PROVE  OnceInv'
  <2>1. payouts \in Seq(RazorpayPayout) /\ payouts[k] \in RazorpayPayout
    BY SeqElement DEF OnceInv, TypeInv, TypeOK
  <2>2. payouts' = [payouts EXCEPT ![k] = Moved(payouts[k], status)] /\ UNCHANGED req
    BY <1>3 DEF Progress
  <2>3. Moved(payouts[k], status).key = payouts[k].key /\ Moved(payouts[k], status).slip = payouts[k].slip
    BY <2>1 DEF Moved, RazorpayPayout
  <2>4. UnderOwnKey' /\ OnePerKey'
    BY <2>1, <2>2, <2>3, SamePayouts DEF OnceInv
  <2> QED BY <1>1, <2>2, <2>4 DEF OnceInv, AsksUnderOwnKey, IdemKey
<1>4. ASSUME NEW p \in Procs, HandlerStep(p)
      PROVE  OnceInv'
  BY <1>1, <1>4, OnceHandler DEF OnceInv
<1>5. CASE UNCHANGED vars
  BY <1>1, <1>5, SamePayouts DEF vars, OnceInv, AsksUnderOwnKey, IdemKey
<1> QED BY <1>2, <1>3, <1>4, <1>5 DEF Next

LEMMA OnceInit == Init => OnceInv
<1> SUFFICES ASSUME Init PROVE OnceInv
  OBVIOUS
<1>1. TypeInv
  BY TypeInit
<1>2. DOMAIN payouts = {} /\ \A p \in Procs : req[p].at = "idle"
  BY DEF Init, Idle
<1> QED BY <1>1, <1>2 DEF OnceInv, UnderOwnKey, OnePerKey, AsksUnderOwnKey, Paying

\* Without retryPayout, disburseRun never pays a payslip twice, whatever the number of
\* concurrent and repeated calls and whichever answers, writes and events are lost.
THEOREM DisbursesOnce ==
  ASSUME "retryPayout" \notin Ops
  PROVE  Spec => []SlipPaidOnce
BY OnceInit, OnceNext, OnceImplies, PTL DEF Spec

-----------------------------------------------------------------------------
(* Every step *)

\* Razorpay forgets no payout and moves each along its life cycle only.
Onward(k) ==
  /\ k \in DOMAIN payouts'
  /\ payouts'[k].slip = payouts[k].slip /\ payouts'[k].key = payouts[k].key
  /\ payouts'[k].status = payouts[k].status \/ <<payouts[k].status, payouts'[k].status>> \in Lifecycle
PayoutsOnward == \A k \in DOMAIN payouts : Onward(k)

\* No row of payroll_payouts goes away or changes its payslip.
RowsOnward == \A i \in DOMAIN rows : i \in DOMAIN rows' /\ rows'[i].slip = rows[i].slip

\* A handler goes on, or ends, without a word from Razorpay and without a new row.
Plain(h, n) ==
  \/ n = Idle
  \/ /\ n.op = h.op /\ n.known = h.known /\ n.left \subseteq h.left
     /\ n.at = "next" => h.at = "next"
     /\ n.at # "next" => /\ n.at \in {"cache", "pay", "fail"} /\ h.at \in Paying
                         /\ n.slip = h.slip /\ n.row = h.row
                         /\ n.op = "disburseRun" \/ n.at # "pay" => n.key = h.key

LEMMA Payouts ==
  ASSUME TypeInv
  PROVE  /\ rows \in Seq(Row) /\ payouts \in Seq(RazorpayPayout)
         /\ \A i \in DOMAIN rows : i \in Nat \ {0} /\ rows[i] \in Row
         /\ \A k \in DOMAIN payouts : k \in Nat \ {0} /\ payouts[k] \in RazorpayPayout
         /\ DOMAIN rows = 1..Len(rows) /\ DOMAIN payouts = 1..Len(payouts)
         /\ Len(rows) \in Nat /\ Len(payouts) \in Nat
BY DEF TypeInv, TypeOK

LEMMA Appended ==
  ASSUME NEW S, NEW seq \in Seq(S), NEW x \in S
  PROVE  /\ DOMAIN Append(seq, x) = DOMAIN seq \cup {Len(seq) + 1}
         /\ Len(seq) + 1 \notin DOMAIN seq
         /\ \A i \in DOMAIN seq : Append(seq, x)[i] = seq[i]
         /\ Append(seq, x)[Len(seq) + 1] = x
OBVIOUS

LEMMA SameOnward ==
  /\ UNCHANGED payouts => PayoutsOnward
  /\ UNCHANGED rows => RowsOnward
BY DEF PayoutsOnward, Onward, RowsOnward

\* The payout a handler is about to ask for.
NewPayout(h, status) ==
  [slip |-> h.slip, key |-> h.key, account |-> h.account, status |-> status, events |-> <<>>]

\* Asking Razorpay either adds a payout, or finds the one of the key.
LEMMA Asked ==
  ASSUME TypeInv, NEW p \in Procs, NEW status \in {"queued", "processing"}, CreatePayout(p, status)
  PROVE  /\ req[p].at = "pay" /\ UNCHANGED <<rows, disbursed, now, bank, fund>>
         /\ \/ /\ \A k \in DOMAIN payouts : payouts[k].key # req[p].key
               /\ payouts' = Append(payouts, NewPayout(req[p], status))
               /\ NewPayout(req[p], status) \in RazorpayPayout
               /\ Receive(p, [payout |-> Len(payouts) + 1, status |-> status])
            \/ /\ UNCHANGED payouts
               /\ \E k \in DOMAIN payouts :
                    /\ payouts[k].key = req[p].key
                    /\ Receive(p, [payout |-> k, status |-> payouts[k].status])
<1>1. /\ req[p].at = "pay" /\ UNCHANGED <<rows, disbursed, now, bank, fund>>
  BY DEF CreatePayout, bankVars
<1>2. CASE Answers(req[p].key) = {}
  <2>1. \A k \in DOMAIN payouts : payouts[k].key # req[p].key
    BY <1>2 DEF Answers
  <2>2. /\ payouts' = Append(payouts, NewPayout(req[p], status))
        /\ Receive(p, [payout |-> Len(payouts) + 1, status |-> status])
    BY <1>2 DEF CreatePayout, NewPayout
  <2>3. NewPayout(req[p], status) \in RazorpayPayout
    BY <1>1 DEF TypeInv, Handler, WellPlaced, Paying, Request, RazorpayPayout, PayoutStatus, NewPayout
  <2> QED BY <1>1, <2>1, <2>2, <2>3
<1>3. CASE Answers(req[p].key) # {}
  <2>1. UNCHANGED payouts /\ \E answer \in Answers(req[p].key) : Receive(p, answer)
    BY <1>3 DEF CreatePayout
  <2> QED BY <1>1, <2>1 DEF Answers
<1> QED BY <1>2, <1>3

LEMMA WebhookOnward ==
  ASSUME TypeInv, NEW p, NEW k \in DOMAIN payouts, NEW i \in DOMAIN payouts[k].events,
         BeginWebhook(p, k, i)
  PROVE  PayoutsOnward
<1>1. payouts' = payouts \/ payouts' = [payouts EXCEPT ![k] = Sent(payouts[k], i)]
  BY DEF BeginWebhook
<1>2. payouts[k] \in RazorpayPayout
  BY Payouts
<1>3. /\ Sent(payouts[k], i).key = payouts[k].key /\ Sent(payouts[k], i).slip = payouts[k].slip
      /\ Sent(payouts[k], i).status = payouts[k].status
  BY <1>2 DEF Sent, RazorpayPayout
<1> QED BY <1>1, <1>3, Payouts DEF PayoutsOnward, Onward

LEMMA ProgressOnward ==
  ASSUME TypeInv, NEW k \in DOMAIN payouts, NEW status \in PayoutStatus, Progress(k, status)
  PROVE  PayoutsOnward
<1>1. payouts' = [payouts EXCEPT ![k] = Moved(payouts[k], status)]
  BY DEF Progress
<1>2. payouts[k] \in RazorpayPayout /\ <<payouts[k].status, status>> \in Lifecycle
  BY Payouts DEF Progress
<1>3. /\ Moved(payouts[k], status).key = payouts[k].key
      /\ Moved(payouts[k], status).slip = payouts[k].slip
      /\ Moved(payouts[k], status).status = status
  BY <1>2 DEF Moved, RazorpayPayout
<1> QED BY <1>1, <1>2, <1>3, Payouts DEF PayoutsOnward, Onward

LEMMA CreateOnward ==
  ASSUME TypeInv, NEW p \in Procs, NEW status \in {"queued", "processing"}, CreatePayout(p, status)
  PROVE  PayoutsOnward
<1>1. CASE /\ payouts' = Append(payouts, NewPayout(req[p], status))
           /\ NewPayout(req[p], status) \in RazorpayPayout
  BY <1>1, Payouts, Appended DEF PayoutsOnward, Onward
<1>2. CASE UNCHANGED payouts
  BY <1>2, SameOnward
<1> QED BY <1>1, <1>2, Asked

\* The row a handler records, where it adds one.
NewRow(h) == [slip |-> h.slip, key |-> h.key, payout |-> h.answer.payout, status |-> h.answer.status]
FailedRow(h) == [slip |-> h.slip, key |-> h.key, payout |-> 0, status |-> "failed"]

\* What the steps that write a row write.
LEMMA Wrote ==
  ASSUME TypeInv, NEW p \in Procs, NEW h, h = req[p]
  PROVE  /\ Record(p) =>
              \/ h.row = 0 /\ NewRow(h) \in Row /\ rows' = Append(rows, NewRow(h))
              \/ h.row # 0 /\ rows' = [rows EXCEPT ![h.row] = Recorded(rows[h.row], h)]
         /\ RecordFailure(p) =>
              \/ h.row = 0 /\ FailedRow(h) \in Row /\ rows' = Append(rows, FailedRow(h))
              \/ h.row # 0 /\ rows' = [rows EXCEPT ![h.row] = [rows[h.row] EXCEPT !.status = "failed"]]
         /\ ApplyWebhook(p) =>
              rows' = [rows EXCEPT ![h.row] = [rows[h.row] EXCEPT !.status = h.answer.status]]
<1>1. h \in Request /\ (h.at \in Paying => h.slip \in Slip /\ h.key \in Key) /\ h.answer \in Answer
  BY DEF TypeInv, Handler, WellPlaced, Request
<1>2. h.at \in Paying => NewRow(h) \in Row /\ FailedRow(h) \in Row
  BY <1>1 DEF NewRow, FailedRow, Row, Answer, PayoutStatus
<1>3. Record(p) => h.at \in Paying
  BY DEF Record, Paying
<1>4. RecordFailure(p) => h.at \in Paying
  BY DEF RecordFailure, Paying
<1>5. Record(p) => rows' = IF h.row = 0 THEN Append(rows, NewRow(h))
                             ELSE [rows EXCEPT ![h.row] = Recorded(rows[h.row], h)]
  BY DEF Record, NewRow
<1>6. RecordFailure(p) => rows' = IF h.row = 0 THEN Append(rows, FailedRow(h))
                             ELSE [rows EXCEPT ![h.row] = [rows[h.row] EXCEPT !.status = "failed"]]
  BY DEF RecordFailure, FailedRow
<1>7. ApplyWebhook(p) => rows' = [rows EXCEPT ![h.row] = [rows[h.row] EXCEPT !.status = h.answer.status]]
  BY DEF ApplyWebhook
<1> QED BY <1>2, <1>3, <1>4, <1>5, <1>6, <1>7

LEMMA WriteOnward ==
  ASSUME TypeInv, NEW p \in Procs, Record(p) \/ RecordFailure(p) \/ ApplyWebhook(p)
  PROVE  RowsOnward
<1>1. PICK h : h = req[p]
  OBVIOUS
<1>2. /\ rows \in Seq(Row) /\ DOMAIN rows = 1..Len(rows)
      /\ h.row \in DOMAIN rows => rows[h.row] \in Row
  BY Payouts
<1>3. ASSUME NEW row \in Row, rows' = Append(rows, row)
      PROVE  RowsOnward
  BY <1>2, <1>3, Appended DEF RowsOnward
<1>4. ASSUME NEW row, rows' = [rows EXCEPT ![h.row] = row],
             h.row \in DOMAIN rows => row.slip = rows[h.row].slip
      PROVE  RowsOnward
  BY <1>2, <1>4 DEF RowsOnward
<1>5. CASE Record(p)
  <2>1. h.row \in DOMAIN rows => Recorded(rows[h.row], h).slip = rows[h.row].slip
    BY <1>2 DEF Recorded, Row
  <2>2. \/ NewRow(h) \in Row /\ rows' = Append(rows, NewRow(h))
        \/ rows' = [rows EXCEPT ![h.row] = Recorded(rows[h.row], h)]
    BY <1>1, <1>5, Wrote
  <2> QED BY <1>3, <1>4, <2>1, <2>2
<1>6. CASE RecordFailure(p)
  <2>1. h.row \in DOMAIN rows => [rows[h.row] EXCEPT !.status = "failed"].slip = rows[h.row].slip
    BY <1>2 DEF Row
  <2>2. \/ FailedRow(h) \in Row /\ rows' = Append(rows, FailedRow(h))
        \/ rows' = [rows EXCEPT ![h.row] = [rows[h.row] EXCEPT !.status = "failed"]]
    BY <1>1, <1>6, Wrote
  <2> QED BY <1>3, <1>4, <2>1, <2>2
<1>7. CASE ApplyWebhook(p)
  <2>1. h.row \in DOMAIN rows => [rows[h.row] EXCEPT !.status = h.answer.status].slip = rows[h.row].slip
    BY <1>2 DEF Row
  <2>2. rows' = [rows EXCEPT ![h.row] = [rows[h.row] EXCEPT !.status = h.answer.status]]
    BY <1>1, <1>7, Wrote
  <2> QED BY <1>4, <2>1, <2>2
<1> QED BY <1>5, <1>6, <1>7

\* Steps that leave the rows and Razorpay alone.
PlainStep(p) ==
  \/ EndDisburse(p) \/ (\E s \in req[p].left : SkipSlip(p, s))
  \/ UseFund(p) \/ CreateFund(p) \/ CacheFund(p) \/ Refuse(p) \/ RecordFails(p) \/ Crash(p)

LEMMA PlainFail ==
  ASSUME TypeInv, NEW p \in Procs, req[p].at \in Paying, Fail(p), NEW h, h = req[p]
  PROVE  \E n : Becomes(p, n) /\ Plain(h, n) /\ (h.op = "disburseRun" => n.at = "fail")
<1>1. h \in Request
  BY DEF TypeInv, Handler
<1>2. CASE h.op = "disburseRun"
  <2>1. PICK n : n = [h EXCEPT !.at = "fail"]
    OBVIOUS
  <2>2. n.op = h.op /\ n.known = h.known /\ n.left = h.left /\ n.slip = h.slip /\ n.row = h.row
        /\ n.at = "fail" /\ n.key = h.key
    BY <1>1, <2>1 DEF Request
  <2>3. Becomes(p, n)
    BY <1>2, <2>1 DEF Fail, GoTo
  <2> QED BY <2>2, <2>3 DEF Plain
<1>3. CASE h.op # "disburseRun"
  BY <1>3 DEF Fail, Respond, Plain
<1> QED BY <1>2, <1>3

LEMMA PlainFund ==
  ASSUME TypeInv, NEW p \in Procs, req[p].at \in Paying, NEW account, FundReady(p, account),
         NEW h, h = req[p]
  PROVE  \E n : Becomes(p, n) /\ Plain(h, n)
<1>1. h \in Request
  BY DEF TypeInv, Handler
<1>2. PICK key : /\ Becomes(p, [h EXCEPT !.at = "pay", !.account = account, !.key = key])
                 /\ h.op = "disburseRun" => key = h.key
  <2>1. CASE h.op = "disburseRun"
    <3>1. [h EXCEPT !.at = "pay", !.account = account]
            = [h EXCEPT !.at = "pay", !.account = account, !.key = h.key]
      BY <1>1 DEF Request
    <3> QED BY <2>1, <3>1 DEF FundReady
  <2>2. CASE h.op # "disburseRun"
    BY <2>2 DEF FundReady
  <2> QED BY <2>1, <2>2
<1>3. PICK n : n = [h EXCEPT !.at = "pay", !.account = account, !.key = key]
  OBVIOUS
<1>4. n.op = h.op /\ n.known = h.known /\ n.left = h.left /\ n.slip = h.slip /\ n.row = h.row
      /\ n.at = "pay" /\ n.key = key
  BY <1>1, <1>3 DEF Request
<1> QED BY <1>2, <1>3, <1>4 DEF Plain

LEMMA PlainSteps ==
  ASSUME TypeInv, NEW p \in Procs, PlainStep(p), NEW h, h = req[p]
  PROVE  /\ UNCHANGED <<rows, payouts, disbursed>>
         /\ \E n : Becomes(p, n) /\ Plain(h, n)
<1>0. h \in Request
  BY DEF TypeInv, Handler
<1>1. UNCHANGED <<rows, payouts, disbursed>>
  BY DEF PlainStep, EndDisburse, SkipSlip, UseFund, CreateFund, CacheFund, Refuse, RecordFails, Crash
<1>2. CASE EndDisburse(p) \/ Crash(p)
  BY <1>1, <1>2 DEF EndDisburse, Crash, Respond, Plain
<1>3. ASSUME NEW s \in h.left, SkipSlip(p, s)
      PROVE  \E n : Becomes(p, n) /\ Plain(h, n)
  <2>1. PICK n : n = [h EXCEPT !.left = @ \ {s}]
    OBVIOUS
  <2>2. n.op = h.op /\ n.known = h.known /\ n.left \subseteq h.left /\ n.at = "next" /\ h.at = "next"
    BY <1>0, <1>3, <2>1 DEF Request, SkipSlip
  <2>3. Becomes(p, n)
    BY <1>3, <2>1 DEF SkipSlip
  <2> QED BY <2>2, <2>3 DEF Plain
<1>4. CASE UseFund(p)
  BY <1>4, PlainFund DEF UseFund, Paying
<1>5. CASE CreateFund(p)
  <2>1. PICK n : n = [h EXCEPT !.at = "cache", !.account = bank[h.slip.employee]]
    OBVIOUS
  <2>2. n.op = h.op /\ n.known = h.known /\ n.left = h.left /\ n.slip = h.slip /\ n.row = h.row
        /\ n.at = "cache" /\ n.key = h.key
    BY <1>0, <2>1 DEF Request
  <2>3. Becomes(p, n) /\ h.at \in Paying
    BY <1>5, <2>1 DEF CreateFund, Paying
  <2> QED BY <1>1, <2>2, <2>3 DEF Plain
<1>6. CASE CacheFund(p)
  BY <1>6, PlainFund DEF CacheFund, Paying
<1>7. CASE Refuse(p) \/ RecordFails(p)
  BY <1>7, PlainFail DEF Refuse, RecordFails, Paying
<1> QED BY <1>1, <1>2, <1>3, <1>4, <1>5, <1>6, <1>7 DEF PlainStep

\* Next to the plain steps, these are the steps of a handler.
LEMMA HandlerSteps ==
  ASSUME NEW p \in Procs, HandlerStep(p)
  PROVE  \/ PlainStep(p) \/ BeginDisburse(p) \/ ReadSlips(p) \/ ReadRows(p)
         \/ \E s \in req[p].left : TakeSlip(p, s)
         \/ \E i \in DOMAIN rows : BeginRetry(p, i)
         \/ \E status \in {"queued", "processing"} : CreatePayout(p, status)
         \/ Record(p) \/ RecordFailure(p) \/ ApplyWebhook(p)
         \/ \E k \in DOMAIN payouts : \E i \in DOMAIN payouts[k].events : BeginWebhook(p, k, i)
         \/ \E e \in Employees, account \in Accounts \cup {None} : EditBank(p, e, account)
BY DEF HandlerStep, PayStep, PlainStep

\* Each step moves payouts along and keeps the rows.
LEMMA NextOnward ==
  ASSUME TypeInv, [Next]_vars
  PROVE  PayoutsOnward /\ RowsOnward
<1>1. CASE RunStep \/ UNCHANGED vars
  BY <1>1, SameOnward DEF RunStep, Compute, Approve, MarkPaid, Rerun, vars
<1>2. ASSUME NEW k \in DOMAIN payouts, NEW status \in PayoutStatus, Progress(k, status)
      PROVE  PayoutsOnward /\ RowsOnward
  BY <1>2, ProgressOnward, SameOnward DEF Progress
<1>3. ASSUME NEW p \in Procs, HandlerStep(p)
      PROVE  PayoutsOnward /\ RowsOnward
  <2>1. CASE PlainStep(p)
    BY <2>1, PlainSteps, SameOnward
  <2>2. CASE BeginDisburse(p) \/ ReadSlips(p) \/ ReadRows(p)
    BY <2>2, SameOnward DEF BeginDisburse, ReadSlips, ReadRows
  <2>3. ASSUME NEW s \in req[p].left, TakeSlip(p, s)
        PROVE  PayoutsOnward /\ RowsOnward
    BY <2>3, SameOnward DEF TakeSlip
  <2>4. ASSUME NEW i \in DOMAIN rows, BeginRetry(p, i)
        PROVE  PayoutsOnward /\ RowsOnward
    BY <2>4, SameOnward DEF BeginRetry
  <2>5. ASSUME NEW status \in {"queued", "processing"}, CreatePayout(p, status)
        PROVE  PayoutsOnward /\ RowsOnward
    BY <2>5, CreateOnward, SameOnward, Asked
  <2>6. CASE Record(p) \/ RecordFailure(p) \/ ApplyWebhook(p)
    <3>1. UNCHANGED payouts
      BY <2>6 DEF Record, RecordFailure, ApplyWebhook
    <3> QED BY <2>6, <3>1, WriteOnward, SameOnward
  <2>7. ASSUME NEW k \in DOMAIN payouts, NEW i \in DOMAIN payouts[k].events, BeginWebhook(p, k, i)
        PROVE  PayoutsOnward /\ RowsOnward
    BY <2>7, WebhookOnward, SameOnward DEF BeginWebhook
  <2>8. CASE \E e \in Employees, account \in Accounts \cup {None} : EditBank(p, e, account)
    BY <2>8, SameOnward DEF EditBank
  <2> QED BY <1>3, <2>1, <2>2, <2>3, <2>4, <2>5, <2>6, <2>7, <2>8, HandlerSteps
<1> QED BY <1>1, <1>2, <1>3 DEF Next

-----------------------------------------------------------------------------
(* What Razorpay and the rows say *)

OneAtATime == \A p, q \in Procs : p = q

\* Razorpay was once in that state, so where that is final it still is.
Past(k, status) ==
  /\ k \in DOMAIN payouts
  /\ status = "processed" => payouts[k].status \in {"processed", "reversed"}
  /\ status \in Retryable => payouts[k].status \in Retryable

EventsAreTrue ==
  \A k \in DOMAIN payouts : \A i \in DOMAIN payouts[k].events : Past(k, payouts[k].events[i])

TrueRow(row) == /\ row.payout # 0 => row.payout \in DOMAIN payouts
                /\ row.status = "processed" => Past(row.payout, "processed")
RowsAreTrue == \A i \in DOMAIN rows : TrueRow(rows[i])

\* What a handler heard is true, and the rows it knows are there.
Informed(h) ==
  /\ h.at \in {"record", "apply"} => Past(h.answer.payout, h.answer.status)
  /\ h.at = "apply" => h.row \in DOMAIN rows
  /\ h.at \in Paying /\ h.row # 0 => h.row \in DOMAIN rows
  /\ \A x \in h.known : x.row \in DOMAIN rows

\* An event is applied to the row of its payout.
Matched(h) == h.at = "apply" => rows[h.row].payout = h.answer.payout

TruthInv ==
  /\ TypeInv /\ EventsAreTrue /\ RowsAreTrue
  /\ \A p \in Procs : Informed(req[p]) /\ Matched(req[p])

\* A final state stays.
LEMMA PastStays ==
  ASSUME PayoutsOnward, NEW k, NEW status, Past(k, status)
  PROVE  Past(k, status)'
<1>1. k \in DOMAIN payouts'
  BY DEF PayoutsOnward, Onward, Past
<1>2. payouts'[k].status = payouts[k].status \/ <<payouts[k].status, payouts'[k].status>> \in Lifecycle
  BY DEF PayoutsOnward, Onward, Past
<1> QED BY <1>1, <1>2 DEF Past, Lifecycle, Retryable

LEMMA InformedStays ==
  ASSUME PayoutsOnward, RowsOnward, NEW h, Informed(h)
  PROVE  Informed(h)'
<1>1. h.at \in {"record", "apply"} => Past(h.answer.payout, h.answer.status)'
  BY PastStays DEF Informed
<1>2. /\ h.at = "apply" => h.row \in DOMAIN rows'
      /\ h.at \in Paying /\ h.row # 0 => h.row \in DOMAIN rows'
      /\ \A x \in h.known : x.row \in DOMAIN rows'
  BY DEF Informed, RowsOnward
<1> QED BY <1>1, <1>2 DEF Informed

LEMMA PlainInformed ==
  ASSUME NEW h, NEW n, Informed(h), Plain(h, n)
  PROVE  Informed(n) /\ n.at \notin {"record", "apply"}
<1>1. Idle.at = "idle" /\ Idle.known = {}
  BY DEF Idle
<1>2. CASE n = Idle
  BY <1>1, <1>2 DEF Informed, Paying
<1>3. CASE n # Idle
  BY <1>3 DEF Plain, Informed, Paying
<1> QED BY <1>2, <1>3

\* A handler is replaced by one that is informed too.
LEMMA AllInformed ==
  ASSUME TypeInv, PayoutsOnward, RowsOnward, \A q \in Procs : Informed(req[q]),
         NEW p \in Procs, NEW n, Becomes(p, n), Informed(n)'
  PROVE  \A q \in Procs : Informed(req[q])'
<1> SUFFICES ASSUME NEW q \in Procs PROVE Informed(req[q])'
  OBVIOUS
<1>1. PICK h : h = req'[q]
  OBVIOUS
<1>2. h = n \/ h = req[q]
  BY <1>1 DEF Becomes, TypeInv
<1>3. Informed(h)'
  BY <1>2, InformedStays
<1> QED BY <1>1, <1>3 DEF Informed

\* The row of an event a handler is about to apply keeps its payout.
Steady ==
  \A q \in Procs : req[q].at = "apply" /\ req'[q] = req[q]
                     => rows'[req[q].row].payout = rows[req[q].row].payout

LEMMA AllMatched ==
  ASSUME TypeInv, \A q \in Procs : Matched(req[q]), Steady,
         NEW p \in Procs, NEW n, Becomes(p, n), Matched(n)'
  PROVE  \A q \in Procs : Matched(req[q])'
<1> SUFFICES ASSUME NEW q \in Procs PROVE Matched(req[q])'
  OBVIOUS
<1>1. CASE req'[q] = req[q]
  BY <1>1 DEF Matched, Steady
<1>2. CASE req'[q] = n
  BY <1>2 DEF Matched
<1> QED BY <1>1, <1>2 DEF Becomes, TypeInv

LEMMA NoneElse ==
  ASSUME UNCHANGED req, PayoutsOnward, RowsOnward, Steady,
         \A q \in Procs : Informed(req[q]) /\ Matched(req[q])
  PROVE  \A q \in Procs : Informed(req[q])' /\ Matched(req[q])'
<1> SUFFICES ASSUME NEW q \in Procs PROVE Informed(req[q])' /\ Matched(req[q])'
  OBVIOUS
<1>1. PICK h : h = req[q]
  OBVIOUS
<1>2. Informed(h)'
  BY <1>1, InformedStays
<1>3. req'[q] = h
  BY <1>1
<1> QED BY <1>1, <1>2, <1>3 DEF Informed, Matched, Steady

\* What the steps make of the rows and of what a handler knows.
LEMMA RowsStayTrue ==
  ASSUME RowsAreTrue, PayoutsOnward, UNCHANGED rows
  PROVE  RowsAreTrue'
BY PastStays DEF RowsAreTrue, TrueRow, PayoutsOnward, Onward

LEMMA EventsStayTrue ==
  ASSUME EventsAreTrue, PayoutsOnward, UNCHANGED payouts
  PROVE  EventsAreTrue'
BY PastStays DEF EventsAreTrue

\* A handler that does not hear from Razorpay changes rows and payouts in no way.
LEMMA QuietTruth ==
  ASSUME TruthInv, UNCHANGED <<rows, payouts>>, NEW p \in Procs, NEW n, Becomes(p, n),
         Informed(n), Matched(n)
  PROVE  EventsAreTrue' /\ RowsAreTrue' /\ \A q \in Procs : Informed(req[q])' /\ Matched(req[q])'
<1>1. PayoutsOnward /\ RowsOnward /\ Steady
  BY SameOnward DEF Steady
<1>2. Informed(n)' /\ Matched(n)'
  BY <1>1, InformedStays DEF Matched
<1>3. \A q \in Procs : Informed(req[q]) /\ Matched(req[q])
  BY DEF TruthInv
<1>4. \A q \in Procs : Informed(req[q])'
  BY <1>1, <1>2, <1>3, AllInformed DEF TruthInv
<1>5. \A q \in Procs : Matched(req[q])'
  BY <1>1, <1>2, <1>3, AllMatched DEF TruthInv
<1> QED BY <1>1, <1>4, <1>5, RowsStayTrue, EventsStayTrue DEF TruthInv

\* A handler that is done with a payslip, or with everything.
LEMMA DoneForm ==
  ASSUME TypeInv, NEW p \in Procs, Done(p) \/ NextSlip(p) \/ Respond(p), NEW h, h = req[p]
  PROVE  \E n : /\ Becomes(p, n)
                /\ \/ n = Idle
                   \/ /\ n.at = "next" /\ n.op = h.op /\ n.known = h.known /\ n.left = h.left
                      /\ n.row = 0
<1>1. h \in Request
  BY DEF TypeInv, Handler
<1>2. CASE Respond(p)
  BY <1>2 DEF Respond
<1>3. CASE NextSlip(p)
  <2>1. PICK n : n = [h EXCEPT !.at = "next", !.slip = None, !.key = None, !.row = 0,
                               !.account = None, !.answer = Nothing]
    OBVIOUS
  <2>2. n.at = "next" /\ n.op = h.op /\ n.known = h.known /\ n.left = h.left /\ n.row = 0
    BY <1>1, <2>1 DEF Request
  <2>3. Becomes(p, n)
    BY <1>3, <2>1 DEF NextSlip
  <2> QED BY <2>2, <2>3
<1> QED BY <1>2, <1>3 DEF Done

LEMMA DoneInformed ==
  ASSUME NEW h, NEW n, Informed(h),
         n = Idle \/ (n.at = "next" /\ n.known = h.known)
  PROVE  Informed(n) /\ Matched(n)
<1>1. Idle.at = "idle" /\ Idle.known = {}
  BY DEF Idle
<1> QED BY <1>1 DEF Informed, Matched, Paying

\* The steps of disburseRun and retryPayout that read.
LEMMA ReadTruth ==
  ASSUME TruthInv, NEW p \in Procs,
         \/ PlainStep(p) \/ BeginDisburse(p) \/ ReadSlips(p) \/ ReadRows(p)
         \/ (\E s \in req[p].left : TakeSlip(p, s)) \/ (\E i \in DOMAIN rows : BeginRetry(p, i))
  PROVE  EventsAreTrue' /\ RowsAreTrue' /\ \A q \in Procs : Informed(req[q])' /\ Matched(req[q])'
<1>0. PICK h : h = req[p]
  OBVIOUS
<1>1. h \in Request /\ Informed(h) /\ TypeInv
  BY <1>0 DEF TruthInv, TypeInv, Handler
<1>2. Idle \in Request /\ Idle.known = {} /\ Idle.row = 0
  BY IdleType DEF Handler, Idle
<1>3. CASE PlainStep(p)
  <2>1. PICK n : Becomes(p, n) /\ Plain(h, n)
    BY <1>0, <1>1, <1>3, PlainSteps
  <2>2. UNCHANGED <<rows, payouts>>
    BY <1>0, <1>1, <1>3, PlainSteps
  <2>3. Informed(n) /\ Matched(n)
    BY <1>1, <2>1, PlainInformed DEF Matched
  <2> QED BY <2>1, <2>2, <2>3, QuietTruth
<1>4. CASE BeginDisburse(p)
  <2>1. PICK n : n = [Idle EXCEPT !.op = "disburseRun", !.at = "slips"]
    OBVIOUS
  <2>2. n.at = "slips" /\ n.known = {} /\ n.row = 0
    BY <1>2, <2>1 DEF Request
  <2>3. Becomes(p, n) /\ UNCHANGED <<rows, payouts>>
    BY <1>4, <2>1 DEF BeginDisburse
  <2>4. Informed(n) /\ Matched(n)
    BY <2>2 DEF Informed, Matched, Paying
  <2> QED BY <2>3, <2>4, QuietTruth
<1>5. CASE ReadSlips(p)
  <2>1. PICK n : n = [h EXCEPT !.at = "rows", !.left = slips]
    OBVIOUS
  <2>2. n.at = "rows" /\ n.known = h.known
    BY <1>1, <2>1 DEF Request
  <2>3. Becomes(p, n) /\ UNCHANGED <<rows, payouts>>
    BY <1>0, <1>5, <2>1 DEF ReadSlips
  <2>4. Informed(n) /\ Matched(n)
    BY <1>1, <2>2 DEF Informed, Matched, Paying
  <2> QED BY <2>3, <2>4, QuietTruth
<1>6. CASE ReadRows(p)
  <2> DEFINE last == {i \in DOMAIN rows : \A j \in DOMAIN rows : rows[j].key = rows[i].key => j <= i}
  <2>1. PICK known : known = {[row |-> i, key |-> rows[i].key, status |-> rows[i].status] : i \in last}
    OBVIOUS
  <2>2. PICK n : n = [h EXCEPT !.at = "next", !.known = known]
    OBVIOUS
  <2>3. n.at = "next" /\ n.known = known
    BY <1>1, <2>2 DEF Request
  <2>4. Becomes(p, n) /\ UNCHANGED <<rows, payouts>>
    BY <1>0, <1>6, <2>1, <2>2 DEF ReadRows
  <2>5. \A x \in known : x.row \in DOMAIN rows
    BY <2>1
  <2>6. Informed(n) /\ Matched(n)
    BY <2>3, <2>5 DEF Informed, Matched, Paying
  <2> QED BY <2>4, <2>6, QuietTruth
<1>7. ASSUME NEW s \in req[p].left, TakeSlip(p, s)
      PROVE  EventsAreTrue' /\ RowsAreTrue' /\ \A q \in Procs : Informed(req[q])' /\ Matched(req[q])'
  <2>1. PICK i : i = RowOf(Already(p, s))
    OBVIOUS
  <2>2. i = 0 \/ i \in DOMAIN rows
    <3>1. \A known : known # {} => \E x \in known : RowOf(known) = x.row
      BY DEF RowOf
    <3>2. Already(p, s) = {} => i = 0
      BY <2>1 DEF RowOf
    <3>3. Already(p, s) \subseteq h.known
      BY <1>0 DEF Already
    <3> QED BY <1>1, <2>1, <3>1, <3>2, <3>3 DEF Informed
  <2>3. PICK n : n = [h EXCEPT !.at = "fund", !.left = @ \ {s}, !.slip = s, !.key = IdemKey(s), !.row = i]
    OBVIOUS
  <2>4. n.at = "fund" /\ n.known = h.known /\ n.row = i
    BY <1>1, <2>3 DEF Request
  <2>5. Becomes(p, n) /\ UNCHANGED <<rows, payouts>>
    BY <1>0, <1>7, <2>1, <2>3 DEF TakeSlip
  <2>6. Informed(n) /\ Matched(n)
    BY <1>1, <2>2, <2>4 DEF Informed, Matched, Paying
  <2> QED BY <2>5, <2>6, QuietTruth
<1>8. ASSUME NEW i \in DOMAIN rows, BeginRetry(p, i)
      PROVE  EventsAreTrue' /\ RowsAreTrue' /\ \A q \in Procs : Informed(req[q])' /\ Matched(req[q])'
  <2>1. PICK n : n = [Idle EXCEPT !.op = "retryPayout", !.at = "fund", !.slip = rows[i].slip,
                                  !.key = rows[i].key, !.row = i]
    OBVIOUS
  <2>2. n.at = "fund" /\ n.known = {} /\ n.row = i
    BY <1>2, <2>1 DEF Request
  <2>3. Becomes(p, n) /\ UNCHANGED <<rows, payouts>>
    BY <1>8, <2>1 DEF BeginRetry
  <2>4. Informed(n) /\ Matched(n)
    BY <2>2 DEF Informed, Matched, Paying
  <2> QED BY <2>3, <2>4, QuietTruth
<1> QED BY <1>3, <1>4, <1>5, <1>6, <1>7, <1>8

\* Razorpay's answer is what it keeps.
LEMMA ReceiveInformed ==
  ASSUME TruthInv, PayoutsOnward, UNCHANGED rows, NEW p \in Procs, req[p].at = "pay",
         NEW k, NEW status, Past(k, status)', Receive(p, [payout |-> k, status |-> status])
  PROVE  \A q \in Procs : Informed(req[q])' /\ Matched(req[q])'
<1>0. PICK h : h = req[p]
  OBVIOUS
<1>1. h \in Request /\ Informed(h) /\ TypeInv /\ h.at \in Paying
  BY <1>0 DEF TruthInv, TypeInv, Handler, Paying
<1>2. RowsOnward /\ Steady
  BY SameOnward DEF Steady
<1>3. PICK n : Becomes(p, n) /\ Informed(n)' /\ Matched(n)'
  <2>1. CASE Fail(p)
    <3>1. PICK n : Becomes(p, n) /\ Plain(h, n)
      BY <1>0, <1>1, <2>1, PlainFail
    <3>2. Informed(n) /\ n.at # "apply"
      BY <1>1, <3>1, PlainInformed
    <3> QED BY <1>2, <3>1, <3>2, InformedStays DEF Matched
  <2>2. CASE Becomes(p, [h EXCEPT !.at = "record", !.answer = [payout |-> k, status |-> status]])
    <3>1. PICK n : n = [h EXCEPT !.at = "record", !.answer = [payout |-> k, status |-> status]]
      OBVIOUS
    <3>2. /\ n.at = "record" /\ n.answer.payout = k /\ n.answer.status = status
          /\ n.row = h.row /\ n.known = h.known
      BY <1>1, <3>1 DEF Request
    <3>3. Informed(h)'
      BY <1>1, <1>2, InformedStays
    <3>4. Informed(n)' /\ Matched(n)'
      BY <1>1, <3>2, <3>3 DEF Informed, Matched, Paying
    <3> QED BY <2>2, <3>1, <3>4
  <2> QED BY <1>0, <2>1, <2>2 DEF Receive
<1> QED BY <1>1, <1>2, <1>3, AllInformed, AllMatched DEF TruthInv

LEMMA CreateTruth ==
  ASSUME TruthInv, NEW p \in Procs, NEW status \in {"queued", "processing"}, CreatePayout(p, status)
  PROVE  EventsAreTrue' /\ RowsAreTrue' /\ \A q \in Procs : Informed(req[q])' /\ Matched(req[q])'
<1>1. TypeInv /\ PayoutsOnward /\ UNCHANGED rows /\ req[p].at = "pay"
  BY CreateOnward, Asked DEF TruthInv
<1>2. RowsAreTrue'
  BY <1>1, RowsStayTrue DEF TruthInv
<1>3. CASE /\ payouts' = Append(payouts, NewPayout(req[p], status))
           /\ NewPayout(req[p], status) \in RazorpayPayout
           /\ Receive(p, [payout |-> Len(payouts) + 1, status |-> status])
  <2>1. PICK k : k = Len(payouts) + 1
    OBVIOUS
  <2>2. /\ DOMAIN payouts' = DOMAIN payouts \cup {k} /\ payouts'[k] = NewPayout(req[p], status)
        /\ \A j \in DOMAIN payouts : payouts'[j] = payouts[j]
    BY <1>1, <1>3, <2>1, Payouts, Appended
  <2>3. payouts'[k].status = status /\ payouts'[k].events = <<>>
    BY <2>2 DEF NewPayout
  <2>4. Past(k, status)'
    BY <2>2, <2>3 DEF Past, Retryable
  <2>5. EventsAreTrue'
    <3> SUFFICES ASSUME NEW j \in DOMAIN payouts', NEW i \in DOMAIN payouts'[j].events
                 PROVE  Past(j, payouts[j].events[i])'
      BY DEF EventsAreTrue
    <3>1. j # k
      BY <2>3
    <3>2. j \in DOMAIN payouts /\ payouts'[j] = payouts[j]
      BY <2>2, <3>1
    <3>3. PICK e : e = payouts[j].events[i]
      OBVIOUS
    <3>4. Past(j, e)
      BY <3>2, <3>3 DEF TruthInv, EventsAreTrue
    <3>5. Past(j, e)'
      BY <1>1, <3>4, PastStays
    <3>6. payouts'[j].events[i] = e
      BY <3>2, <3>3
    <3> QED BY <3>5, <3>6 DEF Past
  <2>6. Receive(p, [payout |-> k, status |-> status])
    BY <1>3, <2>1
  <2>7. \A q \in Procs : Informed(req[q])' /\ Matched(req[q])'
    BY <1>1, <2>4, <2>6, ReceiveInformed
  <2> QED BY <1>2, <2>5, <2>7
<1>4. CASE /\ UNCHANGED payouts
           /\ \E k \in DOMAIN payouts : /\ payouts[k].key = req[p].key
                                        /\ Receive(p, [payout |-> k, status |-> payouts[k].status])
  <2>1. PICK k \in DOMAIN payouts : Receive(p, [payout |-> k, status |-> payouts[k].status])
    BY <1>4
  <2>2. PICK st : st = payouts[k].status
    OBVIOUS
  <2>3. Past(k, st)'
    BY <1>4, <2>2 DEF Past
  <2>4. \A q \in Procs : Informed(req[q])' /\ Matched(req[q])'
    BY <1>1, <2>1, <2>2, <2>3, ReceiveInformed
  <2>5. EventsAreTrue'
    BY <1>1, <1>4, EventsStayTrue DEF TruthInv
  <2> QED BY <1>2, <2>4, <2>5
<1> QED BY <1>3, <1>4, Asked DEF TruthInv

\* Only the row of a handler that records a payout changes its payout.
LEMMA WriteTruth ==
  ASSUME TruthInv, Steady, NEW p \in Procs, Record(p) \/ RecordFailure(p) \/ ApplyWebhook(p)
  PROVE  EventsAreTrue' /\ RowsAreTrue' /\ \A q \in Procs : Informed(req[q])' /\ Matched(req[q])'
<1>0. PICK h : h = req[p]
  OBVIOUS
<1>1. h \in Request /\ Informed(h) /\ Matched(h) /\ TypeInv
  BY <1>0 DEF TruthInv, TypeInv, Handler
<1>2. UNCHANGED payouts /\ RowsOnward /\ PayoutsOnward
  <2>1. UNCHANGED payouts
    BY DEF Record, RecordFailure, ApplyWebhook
  <2> QED BY <1>1, <2>1, WriteOnward, SameOnward
<1>3. EventsAreTrue'
  BY <1>2, EventsStayTrue DEF TruthInv
<1>4. \A row : TrueRow(row) => TrueRow(row)'
  BY <1>2, PastStays DEF TrueRow, PayoutsOnward, Onward
<1>5. ASSUME NEW row \in Row, rows' = Append(rows, row), TrueRow(row)
      PROVE  RowsAreTrue'
  <2>1. PICK k : k = Len(rows) + 1
    OBVIOUS
  <2>2. /\ DOMAIN rows' = DOMAIN rows \cup {k} /\ rows'[k] = row
        /\ \A i \in DOMAIN rows : rows'[i] = rows[i]
    BY <1>1, <1>5, <2>1, Payouts, Appended
  <2> SUFFICES ASSUME NEW i \in DOMAIN rows' PROVE TrueRow(rows[i])'
    BY DEF RowsAreTrue
  <2>3. PICK r : r = rows'[i]
    OBVIOUS
  <2>4. TrueRow(r)
    BY <1>5, <2>2, <2>3 DEF TruthInv, RowsAreTrue
  <2> QED BY <1>4, <2>3, <2>4 DEF TrueRow
<1>6. ASSUME NEW row, rows' = [rows EXCEPT ![h.row] = row], h.row \in DOMAIN rows => TrueRow(row)
      PROVE  RowsAreTrue'
  <2> SUFFICES ASSUME NEW i \in DOMAIN rows' PROVE TrueRow(rows[i])'
    BY DEF RowsAreTrue
  <2>1. PICK r : r = rows'[i]
    OBVIOUS
  <2>2. i \in DOMAIN rows /\ r = IF i = h.row THEN row ELSE rows[i]
    BY <1>1, <1>6, <2>1, Payouts
  <2>3. TrueRow(r)
    BY <1>6, <2>2 DEF TruthInv, RowsAreTrue
  <2> QED BY <1>4, <2>1, <2>3 DEF TrueRow
<1>7. RowsAreTrue'
  <2>0. h.row \in DOMAIN rows => rows[h.row] \in Row /\ TrueRow(rows[h.row])
    BY <1>1, Payouts DEF TruthInv, RowsAreTrue
  <2>1. CASE Record(p)
    <3>1. Past(h.answer.payout, h.answer.status)
      BY <1>0, <1>1, <2>1 DEF Record, Informed
    <3>2. TrueRow(NewRow(h))
      BY <3>1 DEF NewRow, TrueRow, Past, Retryable
    <3>3. h.row \in DOMAIN rows => TrueRow(Recorded(rows[h.row], h))
      BY <2>0, <3>1 DEF Recorded, Row, TrueRow, Past, Retryable
    <3>4. \/ NewRow(h) \in Row /\ rows' = Append(rows, NewRow(h))
          \/ rows' = [rows EXCEPT ![h.row] = Recorded(rows[h.row], h)]
      BY <1>0, <1>1, <2>1, Wrote
    <3>5. PICK a, b : a = NewRow(h) /\ b = Recorded(rows[h.row], h)
      OBVIOUS
    <3> QED BY <1>5, <1>6, <3>2, <3>3, <3>4, <3>5
  <2>2. CASE RecordFailure(p)
    <3>1. TrueRow(FailedRow(h))
      BY DEF FailedRow, TrueRow
    <3>2. PICK a, b : a = FailedRow(h) /\ b = [rows[h.row] EXCEPT !.status = "failed"]
      OBVIOUS
    <3>3. h.row \in DOMAIN rows => TrueRow(b)
      BY <2>0, <3>2 DEF Row, TrueRow
    <3>4. \/ a \in Row /\ rows' = Append(rows, a)
          \/ rows' = [rows EXCEPT ![h.row] = b]
      BY <1>0, <1>1, <2>2, <3>2, Wrote
    <3> QED BY <1>5, <1>6, <3>1, <3>2, <3>3, <3>4
  <2>3. CASE ApplyWebhook(p)
    <3>1. /\ Past(h.answer.payout, h.answer.status) /\ h.row \in DOMAIN rows
          /\ rows[h.row].payout = h.answer.payout
      BY <1>0, <1>1, <2>3 DEF ApplyWebhook, Informed, Matched
    <3>2. PICK b : b = [rows[h.row] EXCEPT !.status = h.answer.status]
      OBVIOUS
    <3>3. b.payout = h.answer.payout /\ b.status = h.answer.status
      BY <2>0, <3>1, <3>2 DEF Row
    <3>4. TrueRow(b)
      BY <3>1, <3>3 DEF TrueRow, Past
    <3>5. rows' = [rows EXCEPT ![h.row] = b]
      BY <1>0, <1>1, <2>3, <3>2, Wrote
    <3> QED BY <1>6, <3>4, <3>5
  <2> QED BY <2>1, <2>2, <2>3
<1>8. PICK n : /\ Becomes(p, n)
               /\ n = Idle \/ (n.at = "next" /\ n.known = h.known)
  <2>1. Done(p) \/ NextSlip(p) \/ Respond(p)
    BY DEF Record, RecordFailure, ApplyWebhook
  <2> QED BY <1>0, <1>1, <2>1, DoneForm
<1>9. Informed(n) /\ n.at \notin {"record", "apply"}
  <2>1. Idle.at = "idle"
    BY DEF Idle
  <2> QED BY <1>1, <1>8, <2>1, DoneInformed
<1>10. Informed(n)' /\ Matched(n)'
  BY <1>2, <1>9, InformedStays DEF Matched
<1> QED BY <1>1, <1>2, <1>3, <1>7, <1>8, <1>10, AllInformed, AllMatched DEF TruthInv

LEMMA ConcatElement ==
  ASSUME NEW S, NEW s \in Seq(S), NEW t \in Seq(S), NEW j \in DOMAIN (s \o t), j > Len(s)
  PROVE  j - Len(s) \in DOMAIN t /\ (s \o t)[j] = t[j - Len(s)]
OBVIOUS

\* An element that is left was one of the sequence.
LEMMA RemoveAtElement ==
  ASSUME NEW S, NEW s \in Seq(S), NEW i \in DOMAIN s, NEW j \in DOMAIN RemoveAt(s, i)
  PROVE  \E m \in DOMAIN s : RemoveAt(s, i)[j] = s[m]
<1>0. PICK a, b : a = SubSeq(s, 1, i - 1) /\ b = SubSeq(s, i + 1, Len(s))
  OBVIOUS
<1>1. /\ i \in 1..Len(s) /\ a \in Seq(S) /\ b \in Seq(S)
      /\ Len(a) = i - 1 /\ Len(b) = Len(s) - i
      /\ \A m \in DOMAIN a : a[m] = s[m]
      /\ \A m \in DOMAIN b : b[m] = s[(i + 1) + m - 1]
  BY <1>0, SMTT(40)
<1>2. RemoveAt(s, i) = a \o b
  BY <1>0 DEF RemoveAt
<1>3. CASE j <= Len(a)
  <2>1. j \in DOMAIN a /\ (a \o b)[j] = a[j]
    BY <1>1, <1>2, <1>3
  <2> QED BY <1>1, <1>2, <2>1
<1>4. CASE j > Len(a)
  <2>1. PICK m : m = j - Len(a)
    OBVIOUS
  <2>2. m \in DOMAIN b /\ (a \o b)[j] = b[m]
    BY <1>1, <1>2, <1>4, <2>1, ConcatElement, SMTT(40)
  <2>3. b[m] = s[i + m] /\ i + m \in DOMAIN s
    BY <1>1, <2>2
  <2> QED BY <1>2, <2>2, <2>3
<1>5. j \in Nat /\ Len(a) \in Nat
  BY <1>1, <1>2
<1> QED BY <1>3, <1>4, <1>5

LEMMA WebhookTruth ==
  ASSUME TruthInv, NEW p \in Procs,
         NEW k \in DOMAIN payouts, NEW i \in DOMAIN payouts[k].events, BeginWebhook(p, k, i)
  PROVE  EventsAreTrue' /\ RowsAreTrue' /\ \A q \in Procs : Informed(req[q])' /\ Matched(req[q])'
<1>1. TypeInv /\ PayoutsOnward /\ UNCHANGED rows /\ RowsOnward /\ Steady
  BY WebhookOnward, SameOnward DEF TruthInv, BeginWebhook, Steady
<1>2. RowsAreTrue'
  BY <1>1, RowsStayTrue DEF TruthInv
<1>3. EventsAreTrue'
  <2>1. CASE UNCHANGED payouts
    BY <1>1, <2>1, EventsStayTrue DEF TruthInv
  <2>2. CASE payouts' = [payouts EXCEPT ![k] = Sent(payouts[k], i)]
    <3>0. payouts[k] \in RazorpayPayout /\ payouts[k].events \in Seq(PayoutStatus)
      BY <1>1, Payouts DEF RazorpayPayout
    <3>1. Sent(payouts[k], i).events = RemoveAt(payouts[k].events, i)
      BY <3>0 DEF Sent, RazorpayPayout
    <3>2. \A j \in DOMAIN RemoveAt(payouts[k].events, i) :
            \E m \in DOMAIN payouts[k].events : RemoveAt(payouts[k].events, i)[j] = payouts[k].events[m]
      BY <3>0, RemoveAtElement
    <3> SUFFICES ASSUME NEW j \in DOMAIN payouts', NEW l \in DOMAIN payouts'[j].events
                 PROVE  Past(j, payouts[j].events[l])'
      BY DEF EventsAreTrue
    <3>3. j \in DOMAIN payouts /\ \E m \in DOMAIN payouts[j].events : payouts'[j].events[l] = payouts[j].events[m]
      <4>1. DOMAIN payouts' = DOMAIN payouts
        BY <1>1, <2>2, Payouts
      <4>2. CASE j = k
        <5>1. payouts'[j].events = RemoveAt(payouts[k].events, i)
          BY <1>1, <2>2, <3>1, <4>1, <4>2, Payouts
        <5> QED BY <3>2, <4>1, <4>2, <5>1
      <4>3. CASE j # k
        BY <1>1, <2>2, <4>1, <4>3, Payouts
      <4> QED BY <4>2, <4>3
    <3>4. PICK e : e = payouts'[j].events[l]
      OBVIOUS
    <3>5. Past(j, e)
      BY <3>3, <3>4 DEF TruthInv, EventsAreTrue
    <3>6. Past(j, e)'
      BY <1>1, <3>5, PastStays
    <3> QED BY <3>4, <3>6 DEF Past
  <2> QED BY <2>1, <2>2 DEF BeginWebhook
<1>4. CASE UNCHANGED req
  <2>1. \A q \in Procs : Informed(req[q])' /\ Matched(req[q])'
    BY <1>1, <1>4, NoneElse DEF TruthInv
  <2> QED BY <1>2, <1>3, <2>1
<1>5. ASSUME NEW row \in RowsOfEvent(k),
             Becomes(p, [Idle EXCEPT !.op = "webhook", !.at = "apply", !.row = row,
                           !.answer = [payout |-> k, status |-> payouts[k].events[i]]])
      PROVE  EventsAreTrue' /\ RowsAreTrue' /\ \A q \in Procs : Informed(req[q])' /\ Matched(req[q])'
  <2>1. PICK st : st = payouts[k].events[i]
    OBVIOUS
  <2>2. PICK n : n = [Idle EXCEPT !.op = "webhook", !.at = "apply", !.row = row,
                        !.answer = [payout |-> k, status |-> st]]
    OBVIOUS
  <2>3. n.at = "apply" /\ n.row = row /\ n.known = {} /\ n.answer.payout = k /\ n.answer.status = st
    BY <2>2 DEF Idle
  <2>4. Past(k, st)
    BY <2>1 DEF TruthInv, EventsAreTrue
  <2>5. row \in DOMAIN rows /\ rows[row].payout = k
    BY DEF RowsOfEvent
  <2>6. Informed(n) /\ Matched(n)
    BY <2>3, <2>4, <2>5 DEF Informed, Matched, Paying
  <2>7. Informed(n)' /\ Matched(n)'
    BY <1>1, <2>6, InformedStays DEF Matched
  <2>8. Becomes(p, n)
    BY <1>5, <2>1, <2>2
  <2> QED BY <1>1, <1>2, <1>3, <2>7, <2>8, AllInformed, AllMatched DEF TruthInv
<1> QED BY <1>4, <1>5 DEF BeginWebhook

LEMMA ProgressTruth ==
  ASSUME TruthInv, NEW k \in DOMAIN payouts, NEW status \in PayoutStatus, Progress(k, status)
  PROVE  EventsAreTrue' /\ RowsAreTrue' /\ \A q \in Procs : Informed(req[q])' /\ Matched(req[q])'
<1>1. TypeInv /\ PayoutsOnward /\ UNCHANGED <<rows, req>> /\ RowsOnward /\ Steady
  BY ProgressOnward, SameOnward DEF TruthInv, Progress, Steady
<1>2. RowsAreTrue'
  BY <1>1, RowsStayTrue DEF TruthInv
<1>3. PICK m : m = Moved(payouts[k], status)
  OBVIOUS
<1>4. m.status = status /\ m.events = Append(payouts[k].events, status)
      /\ payouts[k].events \in Seq(PayoutStatus)
  BY <1>1, <1>3, Payouts DEF Moved, RazorpayPayout
<1>5. DOMAIN payouts' = DOMAIN payouts /\ payouts'[k] = m
      /\ \A j \in DOMAIN payouts : j # k => payouts'[j] = payouts[j]
  BY <1>1, <1>3, Payouts DEF Progress
<1>6. EventsAreTrue'
  <2> SUFFICES ASSUME NEW j \in DOMAIN payouts', NEW l \in DOMAIN payouts'[j].events
               PROVE  Past(j, payouts[j].events[l])'
    BY DEF EventsAreTrue
  <2>1. PICK e : e = payouts'[j].events[l]
    OBVIOUS
  <2>2. \/ j = k /\ e = status
        \/ j \in DOMAIN payouts /\ \E i \in DOMAIN payouts[j].events : e = payouts[j].events[i]
    <3>1. CASE j = k
      <4>1. l \in DOMAIN payouts[k].events \/ e = status
        BY <1>4, <1>5, <2>1, <3>1
      <4>2. l \in DOMAIN payouts[k].events => e = payouts[k].events[l]
        BY <1>4, <1>5, <2>1, <3>1
      <4> QED BY <3>1, <4>1, <4>2
    <3>2. CASE j # k
      BY <1>5, <2>1, <3>2
    <3> QED BY <3>1, <3>2
  <2>3. Past(j, e)'
    <3>1. CASE j = k /\ e = status
      BY <1>4, <1>5, <3>1 DEF Past, Retryable
    <3>2. CASE j \in DOMAIN payouts /\ \E i \in DOMAIN payouts[j].events : e = payouts[j].events[i]
      <4>1. Past(j, e)
        BY <3>2 DEF TruthInv, EventsAreTrue
      <4> QED BY <1>1, <4>1, PastStays
    <3> QED BY <2>2, <3>1, <3>2
  <2> QED BY <2>1, <2>3 DEF Past
<1>7. \A q \in Procs : Informed(req[q])' /\ Matched(req[q])'
  BY <1>1, NoneElse DEF TruthInv
<1> QED BY <1>2, <1>6, <1>7

\* What a row says of its payout, and what Razorpay's events say, is or was true.
LEMMA TruthNext ==
  ASSUME TruthInv, [Next]_vars, Steady
  PROVE  TruthInv'
<1> DEFINE Goal == EventsAreTrue' /\ RowsAreTrue' /\ \A q \in Procs : Informed(req[q])' /\ Matched(req[q])'
<1>1. ASSUME UNCHANGED <<rows, payouts, req>>
      PROVE  Goal
  <2>1. PayoutsOnward /\ RowsOnward
    BY <1>1, SameOnward
  <2> QED BY <1>1, <2>1, NoneElse, RowsStayTrue, EventsStayTrue DEF TruthInv
<1>2. ASSUME RunStep \/ UNCHANGED vars
      PROVE  Goal
  <2>1. UNCHANGED <<rows, payouts, req>>
    BY <1>2 DEF RunStep, Compute, Approve, MarkPaid, Rerun, vars
  <2> HIDE DEF Goal
  <2> QED BY <1>1, <2>1
<1>3. ASSUME NEW k \in DOMAIN payouts, NEW status \in PayoutStatus, Progress(k, status)
      PROVE  Goal
  BY <1>3, ProgressTruth
<1>4. ASSUME NEW p \in Procs, HandlerStep(p)
      PROVE  Goal
  <2>1. CASE \E e \in Employees, account \in Accounts \cup {None} : EditBank(p, e, account)
    <3>1. UNCHANGED <<rows, payouts, req>>
      BY <2>1 DEF EditBank
    <3> HIDE DEF Goal
    <3> QED BY <1>1, <3>1
  <2>2. ASSUME NEW k \in DOMAIN payouts, NEW i \in DOMAIN payouts[k].events, BeginWebhook(p, k, i)
        PROVE  Goal
    BY <2>2, WebhookTruth
  <2>3. ASSUME NEW status \in {"queued", "processing"}, CreatePayout(p, status)
        PROVE  Goal
    BY <2>3, CreateTruth
  <2> HIDE DEF Goal
  <2>4. CASE Record(p) \/ RecordFailure(p) \/ ApplyWebhook(p)
    BY <2>4, WriteTruth DEF Goal
  <2>5. CASE \/ PlainStep(p) \/ BeginDisburse(p) \/ ReadSlips(p) \/ ReadRows(p)
             \/ (\E s \in req[p].left : TakeSlip(p, s)) \/ (\E i \in DOMAIN rows : BeginRetry(p, i))
    BY <2>5, ReadTruth DEF Goal
  <2> QED BY <1>4, <2>1, <2>2, <2>3, <2>4, <2>5, HandlerSteps
<1>5. TypeInv'
  BY TypeNext DEF TruthInv
<1>6. Goal
  <2> HIDE DEF Goal
  <2> QED BY <1>2, <1>3, <1>4 DEF Next
<1> QED BY <1>5, <1>6 DEF TruthInv

LEMMA TruthInit == Init => TruthInv
<1> SUFFICES ASSUME Init PROVE TruthInv
  OBVIOUS
<1>1. DOMAIN payouts = {} /\ DOMAIN rows = {} /\ \A p \in Procs : req[p] = Idle
  BY DEF Init
<1>2. Informed(Idle) /\ Matched(Idle)
  BY DEF Idle, Informed, Matched, Paying
<1> QED BY <1>1, <1>2, TypeInit DEF TruthInv, EventsAreTrue, RowsAreTrue

LEMMA TruthImplies == TruthInv => ProcessedIsPaid
<1> SUFFICES ASSUME TruthInv, NEW i \in DOMAIN rows, rows[i].status = "processed"
             PROVE  rows[i].payout # 0 /\ payouts[rows[i].payout].status \in {"processed", "reversed"}
  BY DEF ProcessedIsPaid
<1>1. Past(rows[i].payout, "processed") /\ TypeInv
  BY DEF TruthInv, RowsAreTrue, TrueRow
<1> QED BY <1>1, Payouts DEF Past

LEMMA Others ==
  ASSUME TypeInv, NEW p \in Procs, HandlerStep(p), NEW q \in Procs, q # p
  PROVE  req'[q] = req[q]
<1>1. ASSUME NEW n, Becomes(p, n) PROVE req'[q] = req[q]
  BY <1>1 DEF Becomes, TypeInv
<1>2. CASE PlainStep(p)
  <2>1. PICK h : h = req[p]
    OBVIOUS
  <2> QED BY <1>1, <1>2, <2>1, PlainSteps
<1>3. CASE BeginDisburse(p) \/ ReadSlips(p) \/ ReadRows(p)
  BY <1>3 DEF BeginDisburse, ReadSlips, ReadRows, Becomes, TypeInv
<1>4. ASSUME NEW s \in req[p].left, TakeSlip(p, s) PROVE req'[q] = req[q]
  BY <1>4 DEF TakeSlip, Becomes, TypeInv
<1>5. ASSUME NEW i \in DOMAIN rows, BeginRetry(p, i) PROVE req'[q] = req[q]
  BY <1>5 DEF BeginRetry, Becomes, TypeInv
<1>6. ASSUME NEW status \in {"queued", "processing"}, CreatePayout(p, status) PROVE req'[q] = req[q]
  <2>1. PICK answer : Receive(p, answer)
    BY <1>6, Asked
  <2> QED BY <2>1 DEF Receive, Fail, GoTo, Respond, Becomes, TypeInv
<1>7. CASE Record(p) \/ RecordFailure(p) \/ ApplyWebhook(p)
  <2>1. Done(p) \/ NextSlip(p) \/ Respond(p)
    BY <1>7 DEF Record, RecordFailure, ApplyWebhook
  <2> QED BY <2>1 DEF Done, NextSlip, Respond, Becomes, TypeInv
<1>8. ASSUME NEW k \in DOMAIN payouts, NEW i \in DOMAIN payouts[k].events, BeginWebhook(p, k, i)
      PROVE  req'[q] = req[q]
  BY <1>8 DEF BeginWebhook, Becomes, TypeInv
<1>9. CASE \E e \in Employees, account \in Accounts \cup {None} : EditBank(p, e, account)
  BY <1>9 DEF EditBank
<1> QED BY <1>2, <1>3, <1>4, <1>5, <1>6, <1>7, <1>8, <1>9, HandlerSteps

\* A row keeps its payout and its key until a handler records a payout in it.
LEMMA RowsStay ==
  ASSUME TypeInv, [Next]_vars, \A p \in Procs : ~Record(p)
  PROVE  \A i \in DOMAIN rows : rows'[i].payout = rows[i].payout /\ rows'[i].key = rows[i].key
<1> DEFINE Goal == \A i \in DOMAIN rows : rows'[i].payout = rows[i].payout /\ rows'[i].key = rows[i].key
<1>1. ASSUME UNCHANGED rows PROVE Goal
  BY <1>1
<1>2. ASSUME NEW row \in Row, rows' = Append(rows, row) PROVE Goal
  BY <1>2, Payouts, Appended
<1>3. ASSUME NEW j, NEW status, rows' = [rows EXCEPT ![j] = [rows[j] EXCEPT !.status = status]]
      PROVE  Goal
  <2>1. PICK row : row = [rows[j] EXCEPT !.status = status]
    OBVIOUS
  <2>2. j \in DOMAIN rows => row.payout = rows[j].payout /\ row.key = rows[j].key
    BY <2>1, Payouts DEF Row
  <2> QED BY <1>3, <2>1, <2>2, Payouts
<1> HIDE DEF Goal
<1>4. ASSUME NEW p \in Procs, HandlerStep(p) PROVE Goal
  <2>0. PICK h : h = req[p]
    OBVIOUS
  <2>1. CASE PlainStep(p)
    BY <1>1, <2>0, <2>1, PlainSteps
  <2>2. CASE \/ BeginDisburse(p) \/ ReadSlips(p) \/ ReadRows(p) \/ (\E s \in req[p].left : TakeSlip(p, s))
             \/ (\E i \in DOMAIN rows : BeginRetry(p, i))
             \/ (\E k \in DOMAIN payouts : \E i \in DOMAIN payouts[k].events : BeginWebhook(p, k, i))
             \/ \E e \in Employees, account \in Accounts \cup {None} : EditBank(p, e, account)
    <3>1. UNCHANGED rows
      BY <2>2 DEF BeginDisburse, ReadSlips, ReadRows, TakeSlip, BeginRetry, BeginWebhook, EditBank
    <3> QED BY <1>1, <3>1
  <2>3. CASE \E status \in {"queued", "processing"} : CreatePayout(p, status)
    BY <1>1, <2>3, Asked
  <2>4. CASE RecordFailure(p)
    <3>1. \/ FailedRow(h) \in Row /\ rows' = Append(rows, FailedRow(h))
          \/ rows' = [rows EXCEPT ![h.row] = [rows[h.row] EXCEPT !.status = "failed"]]
      BY <2>0, <2>4, Wrote
    <3> QED BY <1>2, <1>3, <3>1
  <2>5. CASE ApplyWebhook(p)
    <3>1. rows' = [rows EXCEPT ![h.row] = [rows[h.row] EXCEPT !.status = h.answer.status]]
      BY <2>0, <2>5, Wrote
    <3> QED BY <1>3, <3>1
  <2> QED BY <1>4, <2>1, <2>2, <2>3, <2>4, <2>5, HandlerSteps
<1>5. CASE RunStep \/ UNCHANGED vars \/ \E k \in DOMAIN payouts, status \in PayoutStatus : Progress(k, status)
  <2>1. UNCHANGED rows
    BY <1>5 DEF RunStep, Compute, Approve, MarkPaid, Rerun, vars, Progress
  <2>2. Goal
    BY <1>1, <2>1
  <2> QED BY <2>2 DEF Goal
<1>6. Goal
  BY <1>4, <1>5 DEF Next, Goal
<1> QED BY <1>6 DEF Goal

\* What recording a payout does to the rows.
LEMMA RecordedRow ==
  ASSUME TruthInv, NEW p \in Procs, Record(p), NEW h, h = req[p]
  PROVE  \E j \in DOMAIN rows' :
           /\ j = h.row \/ j \notin DOMAIN rows
           /\ rows'[j].payout = h.answer.payout /\ rows'[j].status = h.answer.status
           /\ rows'[j].key = IF h.op = "retryPayout" \/ j \notin DOMAIN rows THEN h.key ELSE rows[j].key
           /\ j \notin DOMAIN rows => h.row = 0 /\ rows'[j].slip = h.slip
           /\ DOMAIN rows' = DOMAIN rows \cup {j}
           /\ \A i \in DOMAIN rows : i # j => rows'[i] = rows[i]
<1>1. TypeInv /\ h.at \in Paying /\ Informed(h)
  BY DEF TruthInv, Record, Paying
<1>2. CASE h.row = 0 /\ NewRow(h) \in Row /\ rows' = Append(rows, NewRow(h))
  <2>1. PICK j : j = Len(rows) + 1
    OBVIOUS
  <2>2. /\ DOMAIN rows' = DOMAIN rows \cup {j} /\ rows'[j] = NewRow(h) /\ j \notin DOMAIN rows
        /\ \A i \in DOMAIN rows : rows'[i] = rows[i]
    BY <1>1, <1>2, <2>1, Payouts, Appended
  <2> QED BY <1>2, <2>2 DEF NewRow
<1>3. CASE h.row # 0 /\ rows' = [rows EXCEPT ![h.row] = Recorded(rows[h.row], h)]
  <2>1. h.row \in DOMAIN rows /\ rows[h.row] \in Row
    BY <1>1, <1>3, Payouts DEF Informed
  <2>2. PICK row : row = Recorded(rows[h.row], h)
    OBVIOUS
  <2>3. /\ row.payout = h.answer.payout /\ row.status = h.answer.status
        /\ row.key = IF h.op = "retryPayout" THEN h.key ELSE rows[h.row].key
    BY <2>1, <2>2 DEF Recorded, Row
  <2>4. DOMAIN rows' = DOMAIN rows /\ rows'[h.row] = row /\ \A i \in DOMAIN rows : i # h.row => rows'[i] = rows[i]
    BY <1>1, <1>3, <2>1, <2>2, Payouts
  <2> QED BY <2>1, <2>3, <2>4, ZenonT(60)
<1> QED BY <1>1, <1>2, <1>3, Wrote

\* One call at a time: while a webhook is under way nothing else is.
LEMMA SteadyAlone ==
  ASSUME OneAtATime, TruthInv, [Next]_vars
  PROVE  Steady
<1> SUFFICES ASSUME NEW q \in Procs, req[q].at = "apply", req'[q] = req[q]
             PROVE  rows'[req[q].row].payout = rows[req[q].row].payout
  BY DEF Steady
<1>1. \A p \in Procs : ~Record(p)
  BY DEF OneAtATime, Record
<1>2. req[q].row \in DOMAIN rows /\ TypeInv
  BY DEF TruthInv, Informed
<1> QED BY <1>1, <1>2, RowsStay

-----------------------------------------------------------------------------
(* Without retries *)

\* Without retries a row is of the payout of its key, once there is one.
ByKey(h) ==
  /\ h.at \in Paying /\ h.row # 0 => rows[h.row].key = h.key
  /\ h.at = "record" => payouts[h.answer.payout].key = h.key
  /\ \A x \in h.known : rows[x.row].key = x.key
KeyInv ==
  /\ OnceInv /\ TruthInv
  /\ \A i \in DOMAIN rows : rows[i].payout # 0 => payouts[rows[i].payout].key = rows[i].key
  /\ \A p \in Procs : ByKey(req[p])

Recording(k) == \E p \in Procs : req[p].at = "record" /\ req[p].answer.payout = k
Tracked(k) == (\E i \in DOMAIN rows : rows[i].payout = k) \/ Recording(k)
TrackInv == KeyInv /\ \A k \in DOMAIN payouts : Live(k) => Tracked(k)

LEMMA ZeroIsNoPayout ==
  ASSUME TypeInv, NEW k, NEW status, Past(k, status)
  PROVE  k # 0
BY Payouts DEF Past

\* The payout of a row is the one of its key, so recording does not change it.
LEMMA SamePayout ==
  ASSUME KeyInv, NEW p \in Procs, Record(p), req[p].row # 0, rows[req[p].row].payout # 0
  PROVE  rows[req[p].row].payout = req[p].answer.payout
<1>1. PICK h : h = req[p]
  OBVIOUS
<1>2. h.at = "record" /\ h.at \in Paying /\ Informed(h) /\ ByKey(h)
  BY <1>1 DEF Record, Paying, KeyInv, TruthInv
<1>3. h.row \in DOMAIN rows /\ rows[h.row].key = h.key /\ payouts[h.answer.payout].key = h.key
      /\ h.answer.payout \in DOMAIN payouts
  BY <1>1, <1>2 DEF Informed, ByKey, Past
<1>4. rows[h.row].payout \in DOMAIN payouts /\ payouts[rows[h.row].payout].key = rows[h.row].key
  BY <1>1, <1>3 DEF KeyInv, TruthInv, RowsAreTrue, TrueRow
<1> QED BY <1>1, <1>3, <1>4 DEF KeyInv, OnceInv, OnePerKey

\* A row that has a payout keeps it, and every row its key.
LEMMA KeysStay ==
  ASSUME KeyInv, [Next]_vars, NEW i \in DOMAIN rows
  PROVE  /\ i \in DOMAIN rows' /\ rows'[i].key = rows[i].key
         /\ rows[i].payout # 0 => rows'[i].payout = rows[i].payout
<1>0. TypeInv /\ TruthInv
  BY DEF KeyInv, TruthInv
<1>1. CASE \A p \in Procs : ~Record(p)
  BY <1>0, <1>1, RowsStay, NextOnward DEF RowsOnward
<1>2. ASSUME NEW p \in Procs, Record(p)
      PROVE  /\ i \in DOMAIN rows' /\ rows'[i].key = rows[i].key
             /\ rows[i].payout # 0 => rows'[i].payout = rows[i].payout
  <2>1. PICK h : h = req[p]
    OBVIOUS
  <2>2. h.op = "disburseRun"
    BY <1>2, <2>1 DEF KeyInv, OnceInv, AsksUnderOwnKey, Record, Paying
  <2>3. PICK j \in DOMAIN rows' :
           /\ j = h.row \/ j \notin DOMAIN rows
           /\ rows'[j].payout = h.answer.payout
           /\ rows'[j].key = IF h.op = "retryPayout" \/ j \notin DOMAIN rows THEN h.key ELSE rows[j].key
           /\ DOMAIN rows' = DOMAIN rows \cup {j}
           /\ \A l \in DOMAIN rows : l # j => rows'[l] = rows[l]
    BY <1>0, <1>2, <2>1, RecordedRow
  <2>4. i # 0
    BY <1>0, Payouts
  <2> QED BY <1>2, <2>1, <2>2, <2>3, <2>4, SamePayout
<1> QED BY <1>1, <1>2

LEMMA SteadyByKey ==
  ASSUME KeyInv, [Next]_vars
  PROVE  Steady
<1> SUFFICES ASSUME NEW q \in Procs, req[q].at = "apply"
             PROVE  rows'[req[q].row].payout = rows[req[q].row].payout
  BY DEF Steady
<1>1. PICK h : h = req[q]
  OBVIOUS
<1>2. h.row \in DOMAIN rows /\ rows[h.row].payout = h.answer.payout /\ Past(h.answer.payout, h.answer.status)
  BY <1>1 DEF KeyInv, TruthInv, Informed, Matched
<1>3. rows[h.row].payout # 0
  BY <1>2, ZeroIsNoPayout DEF KeyInv, TruthInv
<1> QED BY <1>1, <1>2, <1>3, KeysStay

LEMMA ByKeyStays ==
  ASSUME KeyInv, [Next]_vars, NEW h, Informed(h), ByKey(h)
  PROVE  ByKey(h)'
<1>1. h.at \in Paying /\ h.row # 0 => rows'[h.row].key = h.key
  BY KeysStay DEF Informed, ByKey
<1>2. h.at = "record" => payouts'[h.answer.payout].key = h.key
  BY NextOnward DEF KeyInv, TruthInv, PayoutsOnward, Onward, Informed, ByKey, Past
<1>3. \A x \in h.known : rows'[x.row].key = x.key
  BY KeysStay DEF Informed, ByKey
<1> QED BY <1>1, <1>2, <1>3 DEF ByKey

LEMMA AllByKey ==
  ASSUME KeyInv, [Next]_vars, NEW p \in Procs, NEW n, Becomes(p, n), ByKey(n)'
  PROVE  \A q \in Procs : ByKey(req[q])'
<1> SUFFICES ASSUME NEW q \in Procs PROVE ByKey(req[q])'
  OBVIOUS
<1>1. PICK h : h = req'[q]
  OBVIOUS
<1>2. h = n \/ h = req[q]
  BY <1>1 DEF Becomes, KeyInv, TruthInv, TypeInv
<1>3. ByKey(h)'
  BY <1>2, ByKeyStays DEF KeyInv, TruthInv
<1> QED BY <1>1, <1>3 DEF ByKey

LEMMA PlainByKey ==
  ASSUME NEW h, NEW n, ByKey(h), Plain(h, n), h.at \in Paying => h.op = "disburseRun"
  PROVE  ByKey(n)
<1>1. Idle.at = "idle" /\ Idle.known = {}
  BY DEF Idle
<1>2. CASE n = Idle
  BY <1>1, <1>2 DEF ByKey, Paying
<1>3. CASE n # Idle
  BY <1>3 DEF Plain, ByKey, Paying
<1> QED BY <1>2, <1>3

\* The key of a payslip stays with every handler, without a retry.
LEMMA HandlerByKey ==
  ASSUME KeyInv, [Next]_vars, "retryPayout" \notin Ops, NEW p \in Procs, HandlerStep(p)
  PROVE  \A q \in Procs : ByKey(req[q])'
<1>0. PICK h : h = req[p]
  OBVIOUS
<1>1. /\ h \in Request /\ Informed(h) /\ TypeInv /\ TruthInv /\ ByKey(h)
      /\ h.at \in Paying => h.op = "disburseRun" /\ h.key = IdemKey(h.slip)
  BY <1>0 DEF KeyInv, TruthInv, TypeInv, Handler, OnceInv, AsksUnderOwnKey
<1>2. ASSUME NEW n, Becomes(p, n), Informed(n), ByKey(n)
      PROVE  \A q \in Procs : ByKey(req[q])'
  BY <1>2, ByKeyStays, AllByKey
<1>3. ASSUME NEW n, Becomes(p, n), n.at \notin Paying, n.known = {} \/ n.known = h.known
      PROVE  \A q \in Procs : ByKey(req[q])'
  <2>1. Informed(n) \/ n.at = "apply"
    BY <1>1, <1>3 DEF Informed, Paying
  <2>2. ByKey(h)'
    BY <1>1, ByKeyStays
  <2>3. ByKey(n)'
    BY <1>3, <2>2 DEF ByKey, Paying
  <2> QED BY <1>3, <2>3, AllByKey
<1>4. CASE PlainStep(p)
  <2>1. PICK n : Becomes(p, n) /\ Plain(h, n)
    BY <1>0, <1>1, <1>4, PlainSteps
  <2>2. Informed(n) /\ ByKey(n)
    BY <1>1, <2>1, PlainInformed, PlainByKey
  <2> QED BY <1>2, <2>1, <2>2
<1>5. CASE BeginDisburse(p)
  <2>1. PICK n : n = [Idle EXCEPT !.op = "disburseRun", !.at = "slips"]
    OBVIOUS
  <2>2. n.at \notin Paying /\ n.known = {}
    BY <2>1 DEF Idle, Paying
  <2>3. Becomes(p, n)
    BY <1>5, <2>1 DEF BeginDisburse
  <2> QED BY <1>3, <2>2, <2>3
<1>6. CASE ReadSlips(p)
  <2>1. PICK n : n = [h EXCEPT !.at = "rows", !.left = slips]
    OBVIOUS
  <2>2. n.at \notin Paying /\ n.known = h.known
    BY <1>1, <2>1 DEF Request, Paying
  <2>3. Becomes(p, n)
    BY <1>0, <1>6, <2>1 DEF ReadSlips
  <2> QED BY <1>3, <2>2, <2>3
<1>7. CASE ReadRows(p)
  <2> DEFINE last == {i \in DOMAIN rows : \A j \in DOMAIN rows : rows[j].key = rows[i].key => j <= i}
  <2>1. PICK known : known = {[row |-> i, key |-> rows[i].key, status |-> rows[i].status] : i \in last}
    OBVIOUS
  <2>2. PICK n : n = [h EXCEPT !.at = "next", !.known = known]
    OBVIOUS
  <2>3. n.at = "next" /\ n.known = known
    BY <1>1, <2>2 DEF Request
  <2>4. Becomes(p, n)
    BY <1>0, <1>7, <2>1, <2>2 DEF ReadRows
  <2>5. \A x \in known : x.row \in DOMAIN rows /\ x.key = rows[x.row].key
    BY <2>1
  <2>6. Informed(n) /\ ByKey(n)
    BY <2>3, <2>5 DEF Informed, ByKey, Paying
  <2> QED BY <1>2, <2>4, <2>6
<1>8. ASSUME NEW s \in req[p].left, TakeSlip(p, s)
      PROVE  \A q \in Procs : ByKey(req[q])'
  <2>1. PICK i : i = RowOf(Already(p, s))
    OBVIOUS
  <2>2. i # 0 => i \in DOMAIN rows /\ rows[i].key = IdemKey(s)
    <3>1. \A known : known # {} => \E x \in known : RowOf(known) = x.row
      BY DEF RowOf
    <3>2. Already(p, s) = {} => i = 0
      BY <2>1 DEF RowOf
    <3>3. \A x \in Already(p, s) : x \in h.known /\ x.key = IdemKey(s)
      BY <1>0 DEF Already
    <3> QED BY <1>1, <2>1, <3>1, <3>2, <3>3 DEF Informed, ByKey
  <2>3. PICK n : n = [h EXCEPT !.at = "fund", !.left = @ \ {s}, !.slip = s, !.key = IdemKey(s), !.row = i]
    OBVIOUS
  <2>4. n.at = "fund" /\ n.known = h.known /\ n.row = i /\ n.key = IdemKey(s)
    BY <1>1, <2>3 DEF Request
  <2>5. Becomes(p, n)
    BY <1>0, <1>8, <2>1, <2>3 DEF TakeSlip
  <2>6. Informed(n) /\ ByKey(n)
    BY <1>1, <2>2, <2>4 DEF Informed, ByKey, Paying
  <2> QED BY <1>2, <2>5, <2>6
<1>9. ASSUME NEW i \in DOMAIN rows, BeginRetry(p, i)
      PROVE  FALSE
  BY <1>9 DEF BeginRetry, Free
<1>10. ASSUME NEW status \in {"queued", "processing"}, CreatePayout(p, status)
      PROVE  \A q \in Procs : ByKey(req[q])'
  <2>1. PICK k, st : /\ Receive(p, [payout |-> k, status |-> st])
                     /\ payouts'[k].key = h.key
    <3>1. CASE /\ payouts' = Append(payouts, NewPayout(req[p], status))
               /\ NewPayout(req[p], status) \in RazorpayPayout
               /\ Receive(p, [payout |-> Len(payouts) + 1, status |-> status])
      <4>1. payouts'[Len(payouts) + 1] = NewPayout(req[p], status)
        BY <1>1, <3>1, Payouts, Appended
      <4>2. payouts'[Len(payouts) + 1].key = h.key
        BY <1>0, <4>1 DEF NewPayout
      <4> QED BY <3>1, <4>2
    <3>2. CASE /\ UNCHANGED payouts
               /\ \E k \in DOMAIN payouts : /\ payouts[k].key = req[p].key
                                            /\ Receive(p, [payout |-> k, status |-> payouts[k].status])
      BY <1>0, <3>2
    <3> QED BY <1>1, <1>10, <3>1, <3>2, Asked
  <2>2. h.at \in Paying
    BY <1>0, <1>10 DEF CreatePayout, Paying
  <2>3. CASE Fail(p)
    <3>1. PICK n : Becomes(p, n) /\ Plain(h, n)
      BY <1>0, <1>1, <2>2, <2>3, PlainFail
    <3>2. Informed(n) /\ ByKey(n)
      BY <1>1, <3>1, PlainInformed, PlainByKey
    <3> QED BY <1>2, <3>1, <3>2
  <2>4. CASE Becomes(p, [h EXCEPT !.at = "record", !.answer = [payout |-> k, status |-> st]])
    <3>1. PICK n : n = [h EXCEPT !.at = "record", !.answer = [payout |-> k, status |-> st]]
      OBVIOUS
    <3>2. /\ n.at = "record" /\ n.answer.payout = k /\ n.row = h.row /\ n.known = h.known
          /\ n.key = h.key
      BY <1>1, <3>1 DEF Request
    <3>3. ByKey(h)'
      BY <1>1, ByKeyStays
    <3>4. ByKey(n)'
      BY <2>1, <2>2, <3>2, <3>3 DEF ByKey
    <3> QED BY <2>4, <3>1, <3>4, AllByKey
  <2> QED BY <1>0, <2>1, <2>3, <2>4 DEF Receive
<1>11. CASE Record(p) \/ RecordFailure(p) \/ ApplyWebhook(p)
  <2>1. Done(p) \/ NextSlip(p) \/ Respond(p)
    BY <1>11 DEF Record, RecordFailure, ApplyWebhook
  <2>2. PICK n : /\ Becomes(p, n)
                 /\ n = Idle \/ (n.at = "next" /\ n.known = h.known)
    BY <1>0, <1>1, <2>1, DoneForm
  <2>3. n.at \notin Paying /\ (n.known = {} \/ n.known = h.known)
    BY <2>2 DEF Idle, Paying
  <2> QED BY <1>3, <2>2, <2>3
<1>12. ASSUME NEW k \in DOMAIN payouts, NEW i \in DOMAIN payouts[k].events, BeginWebhook(p, k, i)
      PROVE  \A q \in Procs : ByKey(req[q])'
  <2>1. CASE UNCHANGED req
    <3> SUFFICES ASSUME NEW q \in Procs PROVE ByKey(req[q])'
      OBVIOUS
    <3>1. PICK g : g = req[q]
      OBVIOUS
    <3>2. ByKey(g)'
      BY <3>1, ByKeyStays DEF KeyInv, TruthInv
    <3> QED BY <2>1, <3>1, <3>2 DEF ByKey
  <2>2. ASSUME NEW row,
               Becomes(p, [Idle EXCEPT !.op = "webhook", !.at = "apply", !.row = row,
                             !.answer = [payout |-> k, status |-> payouts[k].events[i]]])
        PROVE  \A q \in Procs : ByKey(req[q])'
    <3>1. PICK n : n = [Idle EXCEPT !.op = "webhook", !.at = "apply", !.row = row,
                          !.answer = [payout |-> k, status |-> payouts[k].events[i]]]
      OBVIOUS
    <3>2. n.at \notin Paying /\ n.known = {}
      BY <3>1 DEF Idle, Paying
    <3>3. Becomes(p, n)
      BY <2>2, <3>1
    <3> QED BY <1>3, <3>2, <3>3
  <2> QED BY <1>12, <2>1, <2>2 DEF BeginWebhook
<1>13. CASE \E e \in Employees, account \in Accounts \cup {None} : EditBank(p, e, account)
  <2> SUFFICES ASSUME NEW q \in Procs PROVE ByKey(req[q])'
    OBVIOUS
  <2>1. PICK g : g = req[q]
    OBVIOUS
  <2>2. ByKey(g)'
    BY <2>1, ByKeyStays DEF KeyInv, TruthInv
  <2> QED BY <1>13, <2>1, <2>2 DEF ByKey, EditBank
<1> QED BY <1>4, <1>5, <1>6, <1>7, <1>8, <1>9, <1>10, <1>11, <1>12, <1>13, HandlerSteps

\* Where a new row comes from, and a new payout.
LEMMA NewRows ==
  ASSUME TypeInv, [Next]_vars, \A p \in Procs : ~Record(p), NEW i \in DOMAIN rows', i \notin DOMAIN rows
  PROVE  \E p \in Procs : RecordFailure(p)
<1>1. CASE UNCHANGED rows
  BY <1>1
<1>2. ASSUME NEW p \in Procs, ApplyWebhook(p) PROVE FALSE
  <2>1. PICK h : h = req[p]
    OBVIOUS
  <2>2. rows' = [rows EXCEPT ![h.row] = [rows[h.row] EXCEPT !.status = h.answer.status]]
    BY <1>2, <2>1, Wrote
  <2> QED BY <2>2, Payouts
<1>3. CASE \E p \in Procs : HandlerStep(p)
  <2>1. PICK p \in Procs : HandlerStep(p)
    BY <1>3
  <2>2. PICK h : h = req[p]
    OBVIOUS
  <2>3. RecordFailure(p) \/ ApplyWebhook(p) \/ UNCHANGED rows
    <3>1. PlainStep(p) => UNCHANGED rows
      BY <2>2, PlainSteps
    <3>2. (\E status \in {"queued", "processing"} : CreatePayout(p, status)) => UNCHANGED rows
      BY Asked
    <3> QED BY <2>1, <3>1, <3>2, HandlerSteps DEF BeginDisburse, ReadSlips, ReadRows, TakeSlip, BeginRetry,
              BeginWebhook, EditBank
  <2> QED BY <1>1, <1>2, <2>3
<1>4. UNCHANGED rows \/ \E p \in Procs : HandlerStep(p)
  BY DEF Next, RunStep, Compute, Approve, MarkPaid, Rerun, Progress, vars
<1> QED BY <1>1, <1>3, <1>4

LEMMA NewPayouts ==
  ASSUME TypeInv, [Next]_vars, NEW k \in DOMAIN payouts', k \notin DOMAIN payouts
  PROVE  \E p \in Procs, status \in {"queued", "processing"} : CreatePayout(p, status)
<1>1. DOMAIN payouts' # DOMAIN payouts
  OBVIOUS
<1>2. ~UNCHANGED payouts
  BY <1>1
<1>3. ASSUME NEW j \in DOMAIN payouts, NEW x, payouts' = [payouts EXCEPT ![j] = x]
      PROVE  FALSE
  BY <1>1, <1>3
<1>4. PICK p \in Procs : HandlerStep(p)
  BY <1>2, <1>3 DEF Next, RunStep, Compute, Approve, MarkPaid, Rerun, Progress, vars
<1>5. PICK h : h = req[p]
  OBVIOUS
<1>6. ~PlainStep(p)
  BY <1>2, <1>5, PlainSteps
<1>7. ~(\E j \in DOMAIN payouts : \E i \in DOMAIN payouts[j].events : BeginWebhook(p, j, i))
  BY <1>2, <1>3 DEF BeginWebhook
<1> QED BY <1>2, <1>4, <1>6, <1>7, HandlerSteps DEF BeginDisburse, ReadSlips, ReadRows, TakeSlip, BeginRetry,
         Record, RecordFailure, ApplyWebhook, EditBank

\* Every row is of the payout of its key.
RowsByKey == \A i \in DOMAIN rows : rows[i].payout # 0 => payouts[rows[i].payout].key = rows[i].key

LEMMA RowsStayByKey ==
  ASSUME KeyInv, [Next]_vars
  PROVE  RowsByKey'
<1>0. TruthInv /\ TypeInv /\ PayoutsOnward
  BY NextOnward DEF KeyInv, TruthInv
<1>1. ASSUME NEW i \in DOMAIN rows, rows'[i].payout = rows[i].payout, rows'[i].payout # 0
      PROVE  payouts'[rows'[i].payout].key = rows'[i].key
  <2>1. rows[i].payout \in DOMAIN payouts
    BY <1>0, <1>1 DEF TruthInv, RowsAreTrue, TrueRow
  <2>2. payouts'[rows[i].payout].key = payouts[rows[i].payout].key
    BY <1>0, <2>1 DEF PayoutsOnward, Onward
  <2>3. payouts[rows[i].payout].key = rows[i].key
    BY <1>1 DEF KeyInv
  <2> QED BY <1>1, <2>2, <2>3, KeysStay
<1> SUFFICES ASSUME NEW i \in DOMAIN rows', rows'[i].payout # 0
             PROVE  payouts'[rows'[i].payout].key = rows'[i].key
  BY DEF RowsByKey
<1>2. ASSUME NEW p \in Procs, Record(p)
      PROVE  payouts'[rows'[i].payout].key = rows'[i].key
  <2>1. PICK h : h = req[p]
    OBVIOUS
  <2>2. h.at = "record" /\ h.at \in Paying /\ ByKey(h) /\ UNCHANGED payouts /\ h.op = "disburseRun"
        /\ Informed(h)
    BY <1>2, <2>1 DEF Record, Paying, KeyInv, TruthInv, OnceInv, AsksUnderOwnKey
  <2>3. PICK j \in DOMAIN rows' :
           /\ j = h.row \/ j \notin DOMAIN rows
           /\ rows'[j].payout = h.answer.payout
           /\ rows'[j].key = IF h.op = "retryPayout" \/ j \notin DOMAIN rows THEN h.key ELSE rows[j].key
           /\ DOMAIN rows' = DOMAIN rows \cup {j}
           /\ \A l \in DOMAIN rows : l # j => rows'[l] = rows[l]
    BY <1>0, <1>2, <2>1, RecordedRow
  <2>4. CASE i = j
    <3>1. payouts[h.answer.payout].key = h.key
      BY <2>2 DEF ByKey
    <3>2. rows'[j].key = h.key
      <4>1. CASE j \notin DOMAIN rows
        BY <2>3, <4>1
      <4>2. CASE j \in DOMAIN rows
        <5>1. j # 0 /\ j = h.row
          BY <1>0, <2>3, <4>2, Payouts
        <5> QED BY <2>2, <2>3, <4>2, <5>1 DEF ByKey
      <4> QED BY <4>1, <4>2
    <3> QED BY <2>2, <2>3, <2>4, <3>1, <3>2
  <2>5. CASE i # j
    BY <1>1, <2>3, <2>5
  <2> QED BY <2>4, <2>5
<1>3. CASE \A p \in Procs : ~Record(p)
  <2>1. CASE i \in DOMAIN rows
    BY <1>0, <1>1, <1>3, <2>1, RowsStay
  <2>2. CASE i \notin DOMAIN rows
    <3>1. PICK p \in Procs : RecordFailure(p)
      BY <1>0, <1>3, <2>2, NewRows
    <3>2. PICK h : h = req[p]
      OBVIOUS
    <3>3. CASE h.row = 0 /\ FailedRow(h) \in Row /\ rows' = Append(rows, FailedRow(h))
      <4>1. rows'[Len(rows) + 1] = FailedRow(h) /\ i = Len(rows) + 1
        BY <1>0, <2>2, <3>3, Payouts, Appended
      <4> QED BY <4>1 DEF FailedRow
    <3>4. CASE rows' = [rows EXCEPT ![h.row] = [rows[h.row] EXCEPT !.status = "failed"]]
      BY <1>0, <2>2, <3>4, Payouts
    <3> QED BY <1>0, <3>1, <3>2, <3>3, <3>4, Wrote
  <2> QED BY <2>1, <2>2
<1> QED BY <1>2, <1>3

LEMMA KeyNext ==
  ASSUME KeyInv, [Next]_vars, "retryPayout" \notin Ops
  PROVE  KeyInv'
<1>1. OnceInv'
  BY OnceNext DEF KeyInv
<1>2. TruthInv'
  BY SteadyByKey, TruthNext DEF KeyInv
<1>3. RowsByKey'
  BY RowsStayByKey
<1>4. \A q \in Procs : ByKey(req[q])'
  <2>1. CASE UNCHANGED req
    <3> SUFFICES ASSUME NEW q \in Procs PROVE ByKey(req[q])'
      OBVIOUS
    <3>1. PICK g : g = req[q]
      OBVIOUS
    <3>2. ByKey(g)'
      BY <3>1, ByKeyStays DEF KeyInv, TruthInv
    <3> QED BY <2>1, <3>1, <3>2 DEF ByKey
  <2>2. ASSUME NEW p \in Procs, HandlerStep(p) PROVE \A q \in Procs : ByKey(req[q])'
    BY <2>2, HandlerByKey
  <2>3. UNCHANGED req \/ \E p \in Procs : HandlerStep(p)
    BY DEF Next, RunStep, Compute, Approve, MarkPaid, Rerun, Progress, vars
  <2> QED BY <2>1, <2>2, <2>3
<1> QED BY <1>1, <1>2, <1>3, <1>4 DEF KeyInv, RowsByKey

LEMMA KeyInit == Init => KeyInv
<1> SUFFICES ASSUME Init PROVE KeyInv
  OBVIOUS
<1>1. DOMAIN rows = {} /\ \A p \in Procs : req[p] = Idle
  BY DEF Init
<1>2. ByKey(Idle)
  BY DEF Idle, ByKey, Paying
<1> QED BY <1>1, <1>2, OnceInit, TruthInit DEF KeyInv

\* A row says processed only of a payout that Razorpay has processed, for any number
\* of overlapping disbursals and events and every fault, provided that where retries
\* are in use one call is served at a time.
THEOREM ProcessedMeansPaid ==
  ASSUME "retryPayout" \in Ops => OneAtATime
  PROVE  Spec => []ProcessedIsPaid
<1>1. CASE OneAtATime
  <2>1. TruthInv /\ [Next]_vars => TruthInv'
    BY <1>1, SteadyAlone, TruthNext
  <2> QED BY <2>1, TruthInit, TruthImplies, PTL DEF Spec
<1>2. CASE "retryPayout" \notin Ops
  <2>1. KeyInv /\ [Next]_vars => KeyInv'
    BY <1>2, KeyNext
  <2>2. KeyInv => ProcessedIsPaid
    BY TruthImplies DEF KeyInv
  <2> QED BY <2>1, <2>2, KeyInit, PTL DEF Spec
<1> QED BY <1>1, <1>2

\* No payout is lost: each step of a handler that stands between the payout and its
\* row writes the row.
NothingIsLost == Faults \cap {"lost", "write", "crash"} = {}

LEMMA KeyRoomIs == KeyRoom \in Nat
BY DEF KeyRoom

LEMMA LeavesRecord ==
  ASSUME TypeInv, NothingIsLost, NEW p \in Procs, HandlerStep(p), req[p].at = "record",
         Len(req[p].key.stamps) <= KeyRoom
  PROVE  Record(p) \/ UNCHANGED req
<1>1. PICK h : h = req[p]
  OBVIOUS
<1>2. h \in Handler /\ h.key \in Key /\ Len(h.key.stamps) \in Nat
  BY <1>1 DEF TypeInv, Handler, WellPlaced, Paying, Key
<1>3. ~(Len(h.key.stamps) > KeyRoom)
  BY <1>1, <1>2, KeyRoomIs
<1>4. Idle.at # "record"
  BY DEF Idle
<1>5. ~PlainStep(p)
  BY <1>1, <1>3 DEF PlainStep, EndDisburse, SkipSlip, UseFund, CreateFund, CacheFund, Refuse, RecordFails,
     Crash, NothingIsLost
<1>6. /\ ~BeginDisburse(p) /\ ~(\E i \in DOMAIN rows : BeginRetry(p, i))
      /\ ~(\E k \in DOMAIN payouts : \E i \in DOMAIN payouts[k].events : BeginWebhook(p, k, i))
  BY <1>4 DEF BeginDisburse, BeginRetry, BeginWebhook, Free
<1>7. /\ ~ReadSlips(p) /\ ~ReadRows(p) /\ ~(\E s \in req[p].left : TakeSlip(p, s))
      /\ ~(\E status \in {"queued", "processing"} : CreatePayout(p, status))
      /\ ~RecordFailure(p) /\ ~ApplyWebhook(p)
  BY DEF ReadSlips, ReadRows, TakeSlip, CreatePayout, RecordFailure, ApplyWebhook
<1>8. (\E e \in Employees, account \in Accounts \cup {None} : EditBank(p, e, account)) => UNCHANGED req
  BY DEF EditBank
<1> QED BY <1>5, <1>6, <1>7, <1>8, HandlerSteps

\* A payout that has a row, or is about to have one, does not lose it.
LEMMA TrackedStays ==
  ASSUME TruthInv, [Next]_vars, NothingIsLost,
         NEW k \in DOMAIN payouts, Tracked(k),
         \A q \in Procs : req[q].at = "record" /\ req[q].answer.payout = k
                             => Len(req[q].key.stamps) <= KeyRoom,
         \A i \in DOMAIN rows : rows[i].payout = k => rows'[i].payout = k
  PROVE  Tracked(k)'
<1>0. TypeInv /\ RowsOnward
  BY NextOnward DEF TruthInv
<1>1. CASE \E i \in DOMAIN rows : rows[i].payout = k
  BY <1>0, <1>1 DEF Tracked, RowsOnward
<1>2. ASSUME NEW q \in Procs, req[q].at = "record", req[q].answer.payout = k
      PROVE  Tracked(k)'
  <2>1. CASE req'[q] = req[q]
    BY <1>2, <2>1 DEF Tracked, Recording
  <2>2. CASE Record(q)
    <3>1. PICK h : h = req[q]
      OBVIOUS
    <3>2. \E j \in DOMAIN rows' : rows'[j].payout = h.answer.payout
      BY <2>2, <3>1, RecordedRow
    <3> QED BY <1>2, <3>1, <3>2 DEF Tracked
  <2>3. CASE \E p \in Procs : HandlerStep(p)
    <3>1. PICK p \in Procs : HandlerStep(p)
      BY <2>3
    <3>2. CASE p = q
      <4>1. Record(q) \/ UNCHANGED req
        BY <1>0, <1>2, <3>1, <3>2, LeavesRecord
      <4> QED BY <2>1, <2>2, <4>1
    <3>3. CASE p # q
      BY <1>0, <2>1, <3>1, <3>3, Others
    <3> QED BY <3>2, <3>3
  <2>4. UNCHANGED req \/ \E p \in Procs : HandlerStep(p)
    BY DEF Next, RunStep, Compute, Approve, MarkPaid, Rerun, Progress, vars
  <2> QED BY <2>1, <2>3, <2>4
<1> QED BY <1>1, <1>2 DEF Tracked, Recording

\* A new payout is in the hands of the handler that asked for it.
LEMMA NewTracked ==
  ASSUME TypeInv, [Next]_vars, NothingIsLost, NEW k \in DOMAIN payouts', k \notin DOMAIN payouts
  PROVE  \E p \in Procs : /\ req[p].at = "pay"
                          /\ \A j \in DOMAIN payouts : payouts[j].key # req[p].key
                          /\ payouts'[k].key = req[p].key /\ payouts'[k].slip = req[p].slip
                          /\ req'[p].at = "record" /\ req'[p].answer.payout = k
<1>1. PICK p \in Procs, status \in {"queued", "processing"} : CreatePayout(p, status)
  BY NewPayouts
<1>2. PICK h : h = req[p]
  OBVIOUS
<1>3. h \in Request
  BY <1>2 DEF TypeInv, Handler
<1>4. /\ \A j \in DOMAIN payouts : payouts[j].key # h.key
      /\ payouts' = Append(payouts, NewPayout(h, status)) /\ NewPayout(h, status) \in RazorpayPayout
      /\ Receive(p, [payout |-> Len(payouts) + 1, status |-> status]) /\ h.at = "pay"
  BY <1>1, <1>2, Asked
<1>5. k = Len(payouts) + 1 /\ payouts'[k] = NewPayout(h, status)
  BY <1>4, Payouts, Appended
<1>6. payouts'[k].key = h.key /\ payouts'[k].slip = h.slip
  BY <1>5 DEF NewPayout
<1>7. PICK answer : answer = [payout |-> k, status |-> status]
  OBVIOUS
<1>8. req'[p] = [h EXCEPT !.at = "record", !.answer = answer]
  BY <1>2, <1>4, <1>5, <1>7 DEF Receive, NothingIsLost, Becomes, TypeInv
<1>9. req'[p].at = "record" /\ req'[p].answer.payout = k
  BY <1>3, <1>7, <1>8 DEF Request
<1> QED BY <1>2, <1>4, <1>6, <1>9

LEMMA LiveBefore ==
  ASSUME TypeInv, [Next]_vars, NEW k \in DOMAIN payouts, Live(k)'
  PROVE  Live(k)
<1>1. payouts'[k].status = payouts[k].status \/ <<payouts[k].status, payouts'[k].status>> \in Lifecycle
  BY NextOnward DEF PayoutsOnward, Onward
<1> QED BY <1>1 DEF Live, Retryable, Lifecycle

LEMMA TrackNext ==
  ASSUME TrackInv, [Next]_vars, "retryPayout" \notin Ops, NothingIsLost
  PROVE  TrackInv'
<1>0. KeyInv /\ TruthInv /\ TypeInv
  BY DEF TrackInv, KeyInv, TruthInv
<1>1. KeyInv'
  BY <1>0, KeyNext
<1>2. \A q \in Procs : req[q].at = "record" => Len(req[q].key.stamps) <= KeyRoom
  <2>1. \A q \in Procs : req[q].at = "record" => req[q].key.stamps = <<>>
    <3> SUFFICES ASSUME NEW q \in Procs, req[q].at = "record" PROVE req[q].key.stamps = <<>>
      OBVIOUS
    <3>1. req[q].key = IdemKey(req[q].slip)
      BY <1>0 DEF KeyInv, OnceInv, AsksUnderOwnKey, Paying
    <3> QED BY <3>1 DEF IdemKey
  <2> QED BY <2>1, KeyRoomIs
<1>3. ASSUME NEW k \in DOMAIN payouts', Live(k)'
      PROVE  Tracked(k)'
  <2>1. CASE k \in DOMAIN payouts
    <3>1. Tracked(k)
      BY <1>0, <1>3, <2>1, LiveBefore DEF TrackInv
    <3>2. k # 0
      BY <1>0, <2>1, Payouts
    <3>3. \A i \in DOMAIN rows : rows[i].payout = k => rows'[i].payout = k
      BY <1>0, <3>2, KeysStay
    <3> QED BY <1>0, <1>2, <2>1, <3>1, <3>3, TrackedStays
  <2>2. CASE k \notin DOMAIN payouts
    BY <1>0, <2>2, NewTracked DEF Tracked, Recording
  <2> QED BY <2>1, <2>2
<1> QED BY <1>1, <1>3 DEF TrackInv

LEMMA TrackImplies ==
  ASSUME \A k \in DOMAIN payouts : Live(k) /\ Fits(k) => Tracked(k)
  PROVE  PayoutsTracked
<1> SUFFICES ASSUME Quiet, NEW k \in DOMAIN payouts, Live(k), Fits(k)
             PROVE  \E i \in DOMAIN rows : rows[i].payout = k
  BY DEF PayoutsTracked
<1>1. ~Recording(k)
  BY DEF Quiet, Recording, Idle
<1> QED BY <1>1 DEF Tracked

\* Without retries every live payout has a row once nothing runs, however many
\* disbursals and events overlap, unless an answer or a write is lost.
LEMMA TrackedWithoutRetries ==
  ASSUME "retryPayout" \notin Ops, NothingIsLost
  PROVE  Spec => []PayoutsTracked
<1>1. Init => TrackInv
  <2>1. Init => DOMAIN payouts = {}
    BY DEF Init
  <2> QED BY <2>1, KeyInit DEF TrackInv
<1>2. TrackInv /\ [Next]_vars => TrackInv'
  BY TrackNext
<1>3. TrackInv => PayoutsTracked
  BY TrackImplies DEF TrackInv
<1> QED BY <1>1, <1>2, <1>3, PTL DEF Spec

-----------------------------------------------------------------------------
(* Retries, one call at a time *)

\* A row stands in for no live payout.
Spent(i) == rows[i].payout # 0 => ~Live(rows[i].payout)

\* A row that may be retried is spent; a row is of its payslip, as its payout is.
RowFine(i) ==
  /\ rows[i].status \in Retryable => Spent(i)
  /\ rows[i].payout # 0 => payouts[rows[i].payout].slip = rows[i].slip
  /\ rows[i].key.slip = rows[i].slip /\ Len(rows[i].key.stamps) <= now

\* The one disbursal pays payslips that have no row yet, a retry one whose row is spent.
Listed(h) ==
  h.op = "disburseRun" =>
    /\ disbursed = 1 /\ h.known = {}
    /\ h.at \in {"slips", "rows"} => rows = <<>>
    /\ h.at \notin {"slips", "rows"} => \A i \in DOMAIN rows : rows[i].slip \notin h.left
    /\ h.at \in Paying => /\ h.row = 0 /\ h.slip \notin h.left
                          /\ \A i \in DOMAIN rows : rows[i].slip # h.slip
Retrying(h) ==
  h.op = "retryPayout" =>
    /\ h.at \in Paying
    /\ h.row \in DOMAIN rows /\ rows[h.row].slip = h.slip /\ Spent(h.row)
OwnKey(h) ==
  /\ h.at \in Paying => /\ h.op \in {"disburseRun", "retryPayout"}
                        /\ h.key.slip = h.slip /\ Len(h.key.stamps) <= now
  /\ h.at = "record" => /\ payouts[h.answer.payout].slip = h.slip
                        /\ payouts[h.answer.payout].key = h.key
Fine(h) == Listed(h) /\ Retrying(h) /\ OwnKey(h)

SingleInv ==
  /\ TruthInv /\ now <= Clock
  /\ disbursed = 0 => rows = <<>>
  /\ \A i, j \in DOMAIN rows : rows[i].slip = rows[j].slip => i = j
  /\ \A i \in DOMAIN rows : RowFine(i)
  /\ \A k \in DOMAIN payouts : /\ payouts[k].key.slip = payouts[k].slip
                               /\ Live(k) /\ Fits(k) => Tracked(k)
  /\ \A p \in Procs : Fine(req[p])

LEMMA SingleImplies ==
  ASSUME SingleInv, OneAtATime
  PROVE  PaidOnceWhileKeyFits
<1> SUFFICES ASSUME NEW j \in DOMAIN payouts, NEW k \in DOMAIN payouts, Live(j), Live(k),
                    Fits(j), Fits(k), payouts[j].slip = payouts[k].slip
             PROVE  j = k
  BY DEF PaidOnceWhileKeyFits
<1>1. TypeInv /\ j # 0 /\ k # 0
  BY Payouts DEF SingleInv, TruthInv
<1>2. ASSUME NEW l \in DOMAIN payouts, NEW i \in DOMAIN rows, rows[i].payout = l, l # 0, Live(l)
      PROVE  rows[i].slip = payouts[l].slip /\ ~Spent(i)
  BY <1>2 DEF SingleInv, RowFine, Spent
<1>3. ASSUME NEW l \in DOMAIN payouts, NEW q \in Procs, req[q].at = "record", req[q].answer.payout = l,
             NEW m \in DOMAIN payouts, Live(m), m # 0, payouts[m].slip = payouts[l].slip,
             NEW i \in DOMAIN rows, rows[i].payout = m
      PROVE  FALSE
  <2>1. PICK h : h = req[q]
    OBVIOUS
  <2>2. Fine(h) /\ h.at \in Paying /\ h.slip = payouts[l].slip /\ h \in Handler
    BY <1>3, <2>1 DEF SingleInv, Fine, OwnKey, Paying, TruthInv, TypeInv
  <2>3. h.op \in {"disburseRun", "retryPayout"}
    BY <2>2 DEF Fine, OwnKey
  <2>4. rows[i].slip = h.slip /\ ~Spent(i)
    BY <1>2, <1>3, <2>2
  <2> QED BY <2>2, <2>3, <2>4 DEF Fine, Listed, Retrying, SingleInv
<1>4. Tracked(j) /\ Tracked(k)
  BY DEF SingleInv
<1>5. CASE Recording(j) /\ Recording(k)
  BY <1>5 DEF Recording, OneAtATime
<1>6. CASE ~Recording(j) /\ ~Recording(k)
  BY <1>1, <1>2, <1>4, <1>6 DEF Tracked, SingleInv
<1> QED BY <1>1, <1>3, <1>4, <1>5, <1>6 DEF Tracked, Recording

-----------------------------------------------------------------------------
(* ... step by step *)

LEMMA RowFineStays ==
  ASSUME SingleInv, PayoutsOnward, now' \in Nat, now <= now', NEW i \in DOMAIN rows, rows'[i] = rows[i]
  PROVE  RowFine(i)'
<1>1. RowFine(i) /\ TypeInv /\ TrueRow(rows[i]) /\ rows[i] \in Row /\ Len(rows[i].key.stamps) \in Nat
      /\ now \in Nat
  BY Payouts, SMTT(40) DEF SingleInv, TruthInv, RowsAreTrue, TypeInv, TypeOK, Row, Key
<1>2. rows[i].payout # 0 => /\ rows[i].payout \in DOMAIN payouts /\ Onward(rows[i].payout)
  BY <1>1 DEF TrueRow, PayoutsOnward
<1> QED BY <1>1, <1>2 DEF RowFine, Spent, Live, Onward, Lifecycle, Retryable

LEMMA SpentStays ==
  ASSUME SingleInv, PayoutsOnward, NEW i \in DOMAIN rows, rows'[i] = rows[i], Spent(i)
  PROVE  Spent(i)'
<1>1. TrueRow(rows[i])
  BY DEF SingleInv, TruthInv, RowsAreTrue
<1>2. rows[i].payout # 0 => /\ rows[i].payout \in DOMAIN payouts /\ Onward(rows[i].payout)
  BY <1>1 DEF TrueRow, PayoutsOnward
<1> QED BY <1>2 DEF Spent, Live, Onward, Lifecycle, Retryable

\* What is left to show of a step.
LEMMA SingleStep ==
  ASSUME SingleInv, [Next]_vars, OneAtATime, NothingIsLost,
         now' <= Clock, disbursed' = 0 => rows' = <<>>,
         \A i, j \in DOMAIN rows' : rows'[i].slip = rows'[j].slip => i = j,
         \A i \in DOMAIN rows' : RowFine(i)',
         \A i \in DOMAIN rows : rows[i].payout # 0 /\ Live(rows[i].payout)
                                  => rows'[i].payout = rows[i].payout,
         \A q \in Procs : Fine(req[q])'
  PROVE  SingleInv'
<1>0. TruthInv /\ TypeInv /\ PayoutsOnward /\ now \in Nat
  BY NextOnward DEF SingleInv, TruthInv, TypeInv, TypeOK
<1>1. TruthInv'
  BY <1>0, SteadyAlone, TruthNext
<1>2. ASSUME NEW k \in DOMAIN payouts, Fits(k), NEW q \in Procs, req[q].at = "record",
             req[q].answer.payout = k
      PROVE  Len(req[q].key.stamps) <= KeyRoom
  BY <1>2 DEF SingleInv, Fine, OwnKey, Fits
<1>3. ASSUME NEW k \in DOMAIN payouts'
      PROVE  payouts'[k].key.slip = payouts'[k].slip /\ (Live(k)' /\ Fits(k)' => Tracked(k)')
  <2>1. CASE k \in DOMAIN payouts
    <3>1. payouts'[k].key = payouts[k].key /\ payouts'[k].slip = payouts[k].slip
      BY <1>0, <2>1 DEF PayoutsOnward, Onward
    <3>2. payouts'[k].key.slip = payouts'[k].slip
      BY <2>1, <3>1 DEF SingleInv
    <3>3. ASSUME Live(k)', Fits(k)' PROVE Tracked(k)'
      <4>1. Live(k) /\ Fits(k) /\ k # 0
        BY <1>0, <2>1, <3>1, <3>3, LiveBefore, Payouts DEF Fits
      <4>2. Tracked(k)
        BY <2>1, <4>1 DEF SingleInv
      <4>3. \A i \in DOMAIN rows : rows[i].payout = k => rows'[i].payout = k
        BY <4>1
      <4> QED BY <1>0, <1>2, <2>1, <4>1, <4>2, <4>3, TrackedStays
    <3> QED BY <3>2, <3>3
  <2>2. CASE k \notin DOMAIN payouts
    <3>1. PICK p \in Procs : /\ req[p].at = "pay"
                             /\ payouts'[k].key = req[p].key /\ payouts'[k].slip = req[p].slip
                             /\ req'[p].at = "record" /\ req'[p].answer.payout = k
      BY <1>0, <2>2, NewTracked
    <3>2. req[p].key.slip = req[p].slip
      BY <3>1 DEF SingleInv, Fine, OwnKey, Paying
    <3> QED BY <3>1, <3>2 DEF Tracked, Recording
  <2> QED BY <2>1, <2>2
<1> QED BY <1>1, <1>3 DEF SingleInv

\* A step that writes no row.
LEMMA SingleSame ==
  ASSUME SingleInv, [Next]_vars, OneAtATime, NothingIsLost,
         UNCHANGED rows, now' \in Nat, now <= now', now' <= Clock, disbursed <= disbursed',
         \A q \in Procs : Fine(req[q])'
  PROVE  SingleInv'
<1>0. TypeInv /\ PayoutsOnward /\ disbursed \in Nat /\ disbursed' \in Nat
  BY NextOnward, TypeNext DEF SingleInv, TruthInv, TypeInv, TypeOK
<1>1. disbursed' = 0 => rows' = <<>>
  BY <1>0 DEF SingleInv
<1>2. \A i \in DOMAIN rows' : RowFine(i)'
  BY <1>0, RowFineStays
<1>3. \A i, j \in DOMAIN rows' : rows'[i].slip = rows'[j].slip => i = j
  BY DEF SingleInv
<1> QED BY <1>1, <1>2, <1>3, SingleStep

\* Only one handler is there.
LEMMA OneFine ==
  ASSUME OneAtATime, TypeInv, NEW p \in Procs, NEW n, Becomes(p, n), Fine(n)'
  PROVE  \A q \in Procs : Fine(req[q])'
<1> SUFFICES ASSUME NEW q \in Procs PROVE Fine(req[q])'
  OBVIOUS
<1>1. req'[q] = n
  BY DEF OneAtATime, Becomes, TypeInv
<1> QED BY <1>1 DEF Fine, Listed, Retrying, OwnKey

\* Nothing is asked of a handler that does not pay.
LEMMA OthersFine ==
  ASSUME NEW n, n.at \notin Paying, n.op \notin {"disburseRun", "retryPayout"}
  PROVE  Fine(n)
BY DEF Fine, Listed, Retrying, OwnKey, Paying

LEMMA IdleFine == Fine(Idle)
<1>1. Idle.at \notin Paying /\ Idle.op \notin {"disburseRun", "retryPayout"}
  BY DEF Idle, Paying
<1> QED BY <1>1, OthersFine

\* Razorpay moves on, and nothing else happens.
LEMMA FineStays ==
  ASSUME SingleInv, PayoutsOnward, UNCHANGED <<rows, disbursed, now>>, NEW h, Informed(h), Fine(h)
  PROVE  Fine(h)'
<1>1. Listed(h)'
  BY DEF Fine, Listed
<1>2. Retrying(h)'
  BY SpentStays DEF Fine, Retrying
<1>3. OwnKey(h)'
  BY DEF Fine, OwnKey, Informed, Past, PayoutsOnward, Onward
<1> QED BY <1>1, <1>2, <1>3 DEF Fine

LEMMA FineSame ==
  ASSUME SingleInv, PayoutsOnward, UNCHANGED <<rows, disbursed, now, req>>
  PROVE  \A q \in Procs : Fine(req[q])'
<1> SUFFICES ASSUME NEW q \in Procs PROVE Fine(req[q])'
  OBVIOUS
<1>1. PICK h : h = req[q]
  OBVIOUS
<1>2. Fine(h)'
  BY <1>1, FineStays DEF SingleInv, TruthInv
<1> QED BY <1>1, <1>2 DEF Fine, Listed, Retrying, OwnKey

\* A retry takes a fresh reading of the clock; nothing else does.
LEMMA StampedKey ==
  ASSUME OneAtATime, TypeInv, NEW p \in Procs, NEW account, FundReady(p, account), NEW h, h = req[p],
         h.at \in Paying
  PROVE  \E n : /\ Becomes(p, n) /\ n.at = "pay"
                /\ n.op = h.op /\ n.known = h.known /\ n.left = h.left
                /\ n.slip = h.slip /\ n.row = h.row /\ n.key.slip = h.key.slip
                /\ \/ n.key = h.key /\ now' = now
                   \/ /\ Len(n.key.stamps) = Len(h.key.stamps) + 1
                      /\ now' = now + 1 /\ now' <= Clock
<1>1. h \in Request /\ h.key \in Key /\ now \in Nat
  BY DEF TypeInv, TypeOK, Handler, WellPlaced
<1>2. CASE h.op = "disburseRun"
  <2>1. PICK n : n = [h EXCEPT !.at = "pay", !.account = account]
    OBVIOUS
  <2>2. /\ n.at = "pay" /\ n.op = h.op /\ n.known = h.known /\ n.left = h.left /\ n.slip = h.slip
        /\ n.row = h.row /\ n.key = h.key
    BY <1>1, <2>1 DEF Request
  <2>3. Becomes(p, n) /\ now' = now
    BY <1>2, <2>1 DEF FundReady
  <2> QED BY <2>2, <2>3
<1>3. CASE h.op # "disburseRun"
  <2>1. PICK t \in Stamps(p) :
          /\ now' = t
          /\ Becomes(p, [h EXCEPT !.at = "pay", !.account = account, !.key = Stamped(h.key, t)])
    BY <1>3 DEF FundReady
  <2>2. {q \in Procs \ {p} : req[q].op = "retryPayout"} = {}
    BY DEF OneAtATime
  <2>3. t = now + 1 /\ t <= Clock
    BY <1>1, <2>1, <2>2, BoundsAssumption DEF Stamps
  <2>4. PICK key : key = Stamped(h.key, t)
    OBVIOUS
  <2>5. key.slip = h.key.slip /\ key.stamps = Append(h.key.stamps, t) /\ h.key.stamps \in Seq(Nat)
    BY <1>1, <2>4 DEF Stamped, Key
  <2>6. Len(key.stamps) = Len(h.key.stamps) + 1
    BY <2>5
  <2>7. PICK n : n = [h EXCEPT !.at = "pay", !.account = account, !.key = key]
    OBVIOUS
  <2>8. /\ n.at = "pay" /\ n.op = h.op /\ n.known = h.known /\ n.left = h.left /\ n.slip = h.slip
        /\ n.row = h.row /\ n.key = key
    BY <1>1, <2>7 DEF Request
  <2>9. Becomes(p, n)
    BY <2>1, <2>4, <2>7
  <2> QED BY <2>1, <2>3, <2>5, <2>6, <2>8, <2>9
<1> QED BY <1>2, <1>3

\* The handler goes on with its payslip, a reading of the clock later perhaps.
LEMMA OnFine ==
  ASSUME SingleInv, PayoutsOnward, UNCHANGED <<rows, disbursed>>, NEW h, NEW n, Fine(h), h \in Handler,
         h.at \in Paying, n.at \in {"pay", "record"},
         n.at = "record" => /\ payouts'[n.answer.payout].slip = n.slip
                            /\ payouts'[n.answer.payout].key = n.key,
         n.op = h.op, n.known = h.known, n.left = h.left, n.slip = h.slip, n.row = h.row,
         n.key.slip = h.key.slip, Len(n.key.stamps) <= now'
  PROVE  Fine(n)'
<1>1. Listed(n)'
  BY DEF Fine, Listed, Paying
<1>2. Retrying(n)'
  BY SpentStays DEF Fine, Retrying, Paying
<1>3. OwnKey(n)'
  BY DEF Fine, OwnKey, Paying
<1> QED BY <1>1, <1>2, <1>3 DEF Fine

LEMMA FundSingle ==
  ASSUME SingleInv, [Next]_vars, OneAtATime, NothingIsLost,
         NEW p \in Procs, UseFund(p) \/ CacheFund(p)
  PROVE  SingleInv'
<1>0. PICK h : h = req[p]
  OBVIOUS
<1>1. /\ h \in Handler /\ h \in Request /\ TypeInv /\ Fine(h) /\ h.at \in Paying
      /\ PayoutsOnward /\ UNCHANGED <<rows, disbursed>> /\ now \in Nat /\ now <= Clock
      /\ h.key \in Key /\ disbursed \in Nat
  BY <1>0, NextOnward DEF SingleInv, TruthInv, TypeInv, TypeOK, Handler, UseFund, CacheFund, Paying, WellPlaced
<1>2. PICK account : FundReady(p, account)
  BY DEF UseFund, CacheFund
<1>3. PICK n : /\ Becomes(p, n) /\ n.at = "pay"
               /\ n.op = h.op /\ n.known = h.known /\ n.left = h.left
               /\ n.slip = h.slip /\ n.row = h.row /\ n.key.slip = h.key.slip
               /\ \/ n.key = h.key /\ now' = now
                  \/ /\ Len(n.key.stamps) = Len(h.key.stamps) + 1
                     /\ now' = now + 1 /\ now' <= Clock
  BY <1>0, <1>1, <1>2, StampedKey
<1>6. Len(h.key.stamps) \in Nat /\ Len(h.key.stamps) <= now
  BY <1>1 DEF Key, Fine, OwnKey
<1>7. Len(n.key.stamps) <= now' /\ now' \in Nat /\ now <= now' /\ now' <= Clock
  BY <1>1, <1>3, <1>6
<1>8. Fine(n)'
  BY <1>1, <1>3, <1>7, OnFine
<1>9. \A q \in Procs : Fine(req[q])'
  BY <1>1, <1>3, <1>8, OneFine
<1> QED BY <1>1, <1>7, <1>9, SingleSame

\* What the other steps that write no row have in common.
LEMMA ReadSingle ==
  ASSUME SingleInv, [Next]_vars, OneAtATime, NothingIsLost,
         UNCHANGED <<rows, now>>, disbursed <= disbursed', NEW p \in Procs, NEW n, Becomes(p, n), Fine(n)'
  PROVE  SingleInv'
<1>1. now \in Nat /\ now <= Clock /\ TypeInv
  BY DEF SingleInv, TruthInv, TypeInv, TypeOK
<1>2. \A q \in Procs : Fine(req[q])'
  BY <1>1, OneFine
<1> QED BY <1>1, <1>2, SingleSame

LEMMA PlainSingle ==
  ASSUME SingleInv, [Next]_vars, OneAtATime, NothingIsLost,
         NEW p \in Procs, PlainStep(p)
  PROVE  SingleInv'
<1>0. PICK h : h = req[p]
  OBVIOUS
<1>1. /\ h \in Handler /\ h \in Request /\ TypeInv /\ Fine(h) /\ PayoutsOnward
      /\ now \in Nat /\ disbursed \in Nat
  BY <1>0, NextOnward DEF SingleInv, TruthInv, TypeInv, TypeOK, Handler
<1>2. CASE UseFund(p) \/ CacheFund(p)
  BY <1>2, FundSingle
<1>3. CASE ~UseFund(p) /\ ~CacheFund(p)
  <2>1. UNCHANGED <<rows, disbursed, now, payouts>>
    BY <1>3 DEF PlainStep, EndDisburse, SkipSlip, CreateFund, Refuse, RecordFails, Crash
  <2>2. PICK n : Becomes(p, n) /\ Plain(h, n)
    BY <1>0, <1>1, PlainSteps
  <2>3. CASE n = Idle
    <3>1. Fine(n)'
      BY <2>3 DEF Idle, Fine, Listed, Retrying, OwnKey, Paying
    <3> QED BY <1>1, <2>1, <2>2, <3>1, ReadSingle
  <2>4. CASE n # Idle /\ n.at = "next"
    <3>1. /\ n.op = h.op /\ n.known = h.known /\ n.left \subseteq h.left /\ h.at = "next"
      BY <2>2, <2>4 DEF Plain
    <3>2. Fine(n)'
      BY <1>1, <2>1, <2>4, <3>1 DEF Fine, Listed, Retrying, OwnKey, Paying
    <3> QED BY <1>1, <2>1, <2>2, <3>2, ReadSingle
  <2>5. CASE n # Idle /\ n.at # "next"
    <3>1. /\ n.op = h.op /\ n.known = h.known /\ n.left \subseteq h.left /\ h.at \in Paying
          /\ n.slip = h.slip /\ n.row = h.row /\ n.at \in {"cache", "pay", "fail"}
          /\ n.at # "pay" => n.key = h.key
      BY <2>2, <2>5 DEF Plain
    <3>2. n.at # "pay"
      <4>1. req'[p] = n
        BY <1>1, <2>2 DEF Becomes, TypeInv
      <4>2. ~EndDisburse(p) /\ ~(\E s \in req[p].left : SkipSlip(p, s))
        BY <1>0, <3>1 DEF EndDisburse, SkipSlip, Paying
      <4>3. CASE CreateFund(p)
        <5>1. n = [h EXCEPT !.at = "cache", !.account = bank[h.slip.employee]]
          BY <1>0, <1>1, <4>1, <4>3 DEF CreateFund, Becomes, TypeInv
        <5> QED BY <1>1, <5>1 DEF Request
      <4>4. CASE Refuse(p) \/ RecordFails(p) \/ Crash(p)
        <5>1. n = [h EXCEPT !.at = "fail"]
          BY <1>0, <1>1, <2>5, <4>1, <4>4
             DEF Refuse, RecordFails, Crash, Fail, GoTo, Respond, Becomes, TypeInv
        <5> QED BY <1>1, <5>1 DEF Request
      <4> QED BY <1>3, <4>2, <4>3, <4>4 DEF PlainStep
    <3>3. n.key = h.key /\ Len(h.key.stamps) <= now
      BY <1>1, <3>1, <3>2 DEF Fine, OwnKey
    <3>4. n.at # "record" /\ now' = now
      BY <2>1, <3>1
    <3>5. Listed(n)'
      BY <1>1, <2>1, <3>1 DEF Fine, Listed, Paying
    <3>6. Retrying(n)'
      BY <1>1, <2>1, <3>1, SpentStays DEF Fine, Retrying, Paying
    <3>7. OwnKey(n)'
      BY <1>1, <3>1, <3>3, <3>4 DEF Fine, OwnKey, Paying
    <3> QED BY <1>1, <2>1, <2>2, <3>5, <3>6, <3>7, ReadSingle DEF Fine
  <2> QED BY <2>3, <2>4, <2>5
<1> QED BY <1>2, <1>3

\* The steps of disburseRun and retryPayout that read.
LEMMA ListSingle ==
  ASSUME SingleInv, [Next]_vars, OneAtATime, NothingIsLost, Disbursals <= 1,
         NEW p \in Procs, BeginDisburse(p) \/ ReadSlips(p) \/ ReadRows(p)
  PROVE  SingleInv'
<1>0. PICK h : h = req[p]
  OBVIOUS
<1>1. /\ h \in Handler /\ h \in Request /\ TypeInv /\ Fine(h)
      /\ disbursed \in Nat /\ Disbursals \in Nat
  BY <1>0, BoundsAssumption DEF SingleInv, TruthInv, TypeInv, TypeOK, Handler
<1>2. CASE BeginDisburse(p)
  <2>1. PICK n : n = [Idle EXCEPT !.op = "disburseRun", !.at = "slips"]
    OBVIOUS
  <2>2. n.at = "slips" /\ n.known = {} /\ n.op = "disburseRun"
    BY <2>1 DEF Idle
  <2>3. Becomes(p, n) /\ UNCHANGED <<rows, now>> /\ disbursed = 0 /\ disbursed' = 1
    BY <1>1, <1>2, <2>1 DEF BeginDisburse
  <2>4. rows = <<>>
    BY <2>3 DEF SingleInv
  <2>5. Fine(n)'
    BY <2>2, <2>3, <2>4 DEF Fine, Listed, Retrying, OwnKey, Paying
  <2> QED BY <2>3, <2>5, ReadSingle
<1>3. CASE ReadSlips(p)
  <2>1. PICK n : n = [h EXCEPT !.at = "rows", !.left = slips]
    OBVIOUS
  <2>2. n.at = "rows" /\ n.known = h.known /\ n.op = h.op /\ h.op = "disburseRun" /\ h.at = "slips"
    BY <1>0, <1>1, <1>3, <2>1 DEF ReadSlips, Handler, WellPlaced, Listing, Request
  <2>3. Becomes(p, n) /\ UNCHANGED <<rows, now, disbursed>>
    BY <1>0, <1>3, <2>1 DEF ReadSlips
  <2>4. Fine(n)'
    BY <1>1, <2>2, <2>3 DEF Fine, Listed, Retrying, OwnKey, Paying
  <2> QED BY <1>1, <2>3, <2>4, ReadSingle
<1>4. CASE ReadRows(p)
  <2> DEFINE last == {i \in DOMAIN rows : \A j \in DOMAIN rows : rows[j].key = rows[i].key => j <= i}
  <2>1. PICK known : known = {[row |-> i, key |-> rows[i].key, status |-> rows[i].status] : i \in last}
    OBVIOUS
  <2>2. PICK n : n = [h EXCEPT !.at = "next", !.known = known]
    OBVIOUS
  <2>3. n.at = "next" /\ n.known = known /\ n.op = h.op /\ h.op = "disburseRun" /\ h.at = "rows"
    BY <1>0, <1>1, <1>4, <2>2 DEF ReadRows, Handler, WellPlaced, Listing, Request
  <2>4. Becomes(p, n) /\ UNCHANGED <<rows, now, disbursed>>
    BY <1>0, <1>4, <2>1, <2>2 DEF ReadRows
  <2>5. rows = <<>>
    BY <1>1, <2>3 DEF Fine, Listed
  <2>6. DOMAIN rows = {}
    BY <2>5
  <2>7. known = {}
    BY <2>1, <2>6
  <2>8. Fine(n)'
    BY <1>1, <2>3, <2>4, <2>6, <2>7 DEF Fine, Listed, Retrying, OwnKey, Paying
  <2> QED BY <1>1, <2>4, <2>8, ReadSingle
<1> QED BY <1>2, <1>3, <1>4

LEMMA TakeSingle ==
  ASSUME SingleInv, [Next]_vars, OneAtATime, NothingIsLost,
         NEW p \in Procs, NEW s \in req[p].left, TakeSlip(p, s)
  PROVE  SingleInv'
<1>0. PICK h : h = req[p]
  OBVIOUS
<1>1. /\ h \in Handler /\ h \in Request /\ TypeInv /\ Fine(h) /\ h.op = "disburseRun" /\ h.at = "next"
      /\ now \in Nat /\ disbursed \in Nat
  BY <1>0 DEF SingleInv, TruthInv, TypeInv, TypeOK, Handler, TakeSlip, WellPlaced, Listing
<1>2. RowOf(Already(p, s)) = 0
  <2>1. h.known = {}
    BY <1>1 DEF Fine, Listed
  <2>2. Already(p, s) = {}
    BY <1>0, <2>1 DEF Already
  <2> QED BY <2>2 DEF RowOf
<1>3. PICK n : n = [h EXCEPT !.at = "fund", !.left = @ \ {s}, !.slip = s, !.key = IdemKey(s), !.row = 0]
  OBVIOUS
<1>4. /\ n.at = "fund" /\ n.known = h.known /\ n.row = 0 /\ n.key = IdemKey(s) /\ n.op = h.op
      /\ n.left = h.left \ {s} /\ n.slip = s
  BY <1>1, <1>3 DEF Request
<1>5. Becomes(p, n) /\ UNCHANGED <<rows, now, disbursed>>
  BY <1>0, <1>2, <1>3 DEF TakeSlip
<1>6. n.key.slip = s /\ Len(n.key.stamps) = 0
  BY <1>4 DEF IdemKey
<1>7. Listed(n)'
  BY <1>0, <1>1, <1>4, <1>5 DEF Fine, Listed, Paying
<1>8. Fine(n)'
  BY <1>1, <1>4, <1>5, <1>6, <1>7 DEF Fine, Retrying, OwnKey, Paying
<1> QED BY <1>1, <1>5, <1>8, ReadSingle

LEMMA RetrySingle ==
  ASSUME SingleInv, [Next]_vars, OneAtATime, NothingIsLost,
         NEW p \in Procs, NEW i \in DOMAIN rows, BeginRetry(p, i)
  PROVE  SingleInv'
<1>1. PICK n : n = [Idle EXCEPT !.op = "retryPayout", !.at = "fund", !.slip = rows[i].slip,
                                !.key = rows[i].key, !.row = i]
  OBVIOUS
<1>2. /\ n.at = "fund" /\ n.op = "retryPayout" /\ n.slip = rows[i].slip /\ n.key = rows[i].key
      /\ n.row = i
  BY <1>1 DEF Idle
<1>3. Becomes(p, n) /\ UNCHANGED <<rows, payouts, now, disbursed>>
  BY <1>1 DEF BeginRetry
<1>4. Spent(i) /\ rows[i].key.slip = rows[i].slip /\ Len(rows[i].key.stamps) <= now
  BY DEF SingleInv, RowFine, BeginRetry
<1>5. PayoutsOnward /\ disbursed \in Nat
  BY <1>3, SameOnward DEF SingleInv, TruthInv, TypeInv, TypeOK
<1>6. Spent(i)'
  BY <1>3, <1>4, <1>5, SpentStays
<1>7. Fine(n)'
  BY <1>2, <1>3, <1>4, <1>6 DEF Fine, Listed, Retrying, OwnKey, Paying
<1> QED BY <1>3, <1>5, <1>7, ReadSingle

LEMMA CreateSingle ==
  ASSUME SingleInv, [Next]_vars, OneAtATime, NothingIsLost,
         NEW p \in Procs, NEW status \in {"queued", "processing"}, CreatePayout(p, status)
  PROVE  SingleInv'
<1>0. PICK h : h = req[p]
  OBVIOUS
<1>1. /\ h \in Handler /\ h \in Request /\ TypeInv /\ Fine(h) /\ h.at = "pay" /\ h.at \in Paying
      /\ UNCHANGED <<rows, now, disbursed>> /\ PayoutsOnward /\ disbursed \in Nat
  BY <1>0, NextOnward, Asked DEF SingleInv, TruthInv, TypeInv, TypeOK, Handler, Paying
<1>2. h.key.slip = h.slip /\ Len(h.key.stamps) <= now
  BY <1>1 DEF Fine, OwnKey
<1>3. PICK k, st : /\ Receive(p, [payout |-> k, status |-> st])
                   /\ payouts'[k].slip = h.slip /\ payouts'[k].key = h.key
  <2>1. CASE /\ payouts' = Append(payouts, NewPayout(req[p], status))
             /\ NewPayout(req[p], status) \in RazorpayPayout
             /\ Receive(p, [payout |-> Len(payouts) + 1, status |-> status])
    <3>1. payouts'[Len(payouts) + 1] = NewPayout(req[p], status)
      BY <1>1, <2>1, Payouts, Appended
    <3>2. payouts'[Len(payouts) + 1].slip = h.slip /\ payouts'[Len(payouts) + 1].key = h.key
      BY <1>0, <3>1 DEF NewPayout
    <3> QED BY <2>1, <3>2
  <2>2. CASE /\ UNCHANGED payouts
             /\ \E k \in DOMAIN payouts : /\ payouts[k].key = req[p].key
                                          /\ Receive(p, [payout |-> k, status |-> payouts[k].status])
    <3>1. PICK k \in DOMAIN payouts : /\ payouts[k].key = h.key
                                      /\ Receive(p, [payout |-> k, status |-> payouts[k].status])
      BY <1>0, <2>2
    <3>2. payouts[k].slip = payouts[k].key.slip
      BY DEF SingleInv
    <3>3. payouts'[k].slip = h.slip /\ payouts'[k].key = h.key
      BY <1>2, <2>2, <3>1, <3>2
    <3> QED BY <3>1, <3>3
  <2> QED BY <1>1, <2>1, <2>2, Asked
<1>4. Becomes(p, [h EXCEPT !.at = "record", !.answer = [payout |-> k, status |-> st]])
  BY <1>0, <1>3 DEF Receive, NothingIsLost
<1>5. PICK n : n = [h EXCEPT !.at = "record", !.answer = [payout |-> k, status |-> st]]
  OBVIOUS
<1>6. /\ n.at = "record" /\ n.op = h.op /\ n.known = h.known /\ n.left = h.left /\ n.slip = h.slip
      /\ n.row = h.row /\ n.key = h.key /\ n.answer.payout = k
  BY <1>1, <1>5 DEF Request
<1>7. Fine(n)'
  BY <1>1, <1>2, <1>3, <1>6, OnFine
<1>8. Becomes(p, n)
  BY <1>4, <1>5
<1> QED BY <1>1, <1>7, <1>8, ReadSingle

LEMMA EventSingle ==
  ASSUME SingleInv, [Next]_vars, OneAtATime, NothingIsLost, NEW p \in Procs,
         NEW k \in DOMAIN payouts, NEW i \in DOMAIN payouts[k].events, BeginWebhook(p, k, i)
  PROVE  SingleInv'
<1>1. UNCHANGED <<rows, now, disbursed>> /\ PayoutsOnward /\ disbursed \in Nat /\ now \in Nat
      /\ now <= Clock
  BY NextOnward DEF BeginWebhook, SingleInv, TruthInv, TypeInv, TypeOK
<1>2. CASE UNCHANGED req
  <2>1. \A q \in Procs : Fine(req[q])'
    BY <1>1, <1>2, FineSame
  <2> QED BY <1>1, <2>1, SingleSame
<1>3. ASSUME NEW row,
             Becomes(p, [Idle EXCEPT !.op = "webhook", !.at = "apply", !.row = row,
                           !.answer = [payout |-> k, status |-> payouts[k].events[i]]])
      PROVE  SingleInv'
  <2>1. PICK n : n = [Idle EXCEPT !.op = "webhook", !.at = "apply", !.row = row,
                        !.answer = [payout |-> k, status |-> payouts[k].events[i]]]
    OBVIOUS
  <2>2. n.at = "apply" /\ n.op = "webhook"
    BY <2>1 DEF Idle
  <2>3. Fine(n)'
    BY <2>2 DEF Fine, Listed, Retrying, OwnKey, Paying
  <2>4. Becomes(p, n)
    BY <1>3, <2>1
  <2> QED BY <1>1, <2>3, <2>4, ReadSingle
<1> QED BY <1>2, <1>3 DEF BeginWebhook

\* After a write only the list of disburseRun is left to look at.
LEMMA DoneFine ==
  ASSUME TypeInv, OneAtATime, NEW p \in Procs, Done(p) \/ NextSlip(p) \/ Respond(p), NEW h, h = req[p],
         h.op = "disburseRun" =>
           disbursed' = 1 /\ h.known = {} /\ \A i \in DOMAIN rows' : rows'[i].slip \notin h.left,
         h.op # "retryPayout" \/ Respond(p)
  PROVE  \A q \in Procs : Fine(req[q])'
<1>1. PICK n : /\ Becomes(p, n)
               /\ \/ n = Idle
                  \/ /\ n.at = "next" /\ n.op = h.op /\ n.known = h.known /\ n.left = h.left
                     /\ n.row = 0
  BY DoneForm
<1>2. CASE n = Idle
  <2>1. Fine(n)'
    BY <1>2 DEF Idle, Fine, Listed, Retrying, OwnKey, Paying
  <2> QED BY <1>1, <2>1, OneFine
<1>3. CASE n # Idle
  <2>1. ~Respond(p)
    BY <1>1, <1>3 DEF Respond, Becomes, TypeInv
  <2>2. Fine(n)'
    BY <1>1, <1>3, <2>1 DEF Fine, Listed, Retrying, OwnKey, Paying
  <2> QED BY <1>1, <2>2, OneFine
<1> QED BY <1>2, <1>3

LEMMA RecordSingle ==
  ASSUME SingleInv, [Next]_vars, OneAtATime, NothingIsLost,
         NEW p \in Procs, Record(p)
  PROVE  SingleInv'
<1>0. PICK h : h = req[p]
  OBVIOUS
<1>1. /\ h \in Handler /\ h \in Request /\ TypeInv /\ TruthInv /\ Fine(h) /\ Informed(h)
      /\ h.at = "record" /\ h.at \in Paying
      /\ UNCHANGED <<payouts, now, disbursed>> /\ PayoutsOnward /\ disbursed \in Nat /\ now \in Nat
      /\ now <= Clock
  BY <1>0, NextOnward DEF Record, SingleInv, TruthInv, TypeInv, TypeOK, Handler, Paying
<1>2. PICK j \in DOMAIN rows' :
         /\ j = h.row \/ j \notin DOMAIN rows
         /\ rows'[j].payout = h.answer.payout /\ rows'[j].status = h.answer.status
         /\ rows'[j].key = IF h.op = "retryPayout" \/ j \notin DOMAIN rows THEN h.key ELSE rows[j].key
         /\ j \notin DOMAIN rows => h.row = 0 /\ rows'[j].slip = h.slip
         /\ DOMAIN rows' = DOMAIN rows \cup {j}
         /\ \A i \in DOMAIN rows : i # j => rows'[i] = rows[i]
  BY <1>0, <1>1, RecordedRow
<1>3. h.op = "retryPayout" => j = h.row /\ j \in DOMAIN rows /\ rows[j].slip = h.slip /\ Spent(j)
  <2>1. h.op = "retryPayout" => h.row \in DOMAIN rows /\ h.row # 0 /\ rows[h.row].slip = h.slip /\ Spent(h.row)
    BY <1>1, Payouts DEF Fine, Retrying
  <2> QED BY <1>2, <2>1
<1>4. h.op = "disburseRun" => j \notin DOMAIN rows /\ \A i \in DOMAIN rows : rows[i].slip # h.slip
  <2>1. h.op = "disburseRun" => h.row = 0 /\ \A i \in DOMAIN rows : rows[i].slip # h.slip
    BY <1>1 DEF Fine, Listed
  <2>2. 0 \notin DOMAIN rows
    BY <1>1, Payouts
  <2> QED BY <1>2, <2>1, <2>2
<1>5. h.op \in {"disburseRun", "retryPayout"} /\ h.key.slip = h.slip /\ Len(h.key.stamps) <= now
      /\ payouts[h.answer.payout].slip = h.slip /\ Past(h.answer.payout, h.answer.status)
  BY <1>1 DEF Fine, OwnKey, Informed
<1>6. rows'[j].slip = h.slip /\ rows'[j].key = h.key /\ \A i \in DOMAIN rows : rows'[i].slip = rows[i].slip
  <2>1. \A i \in DOMAIN rows : rows'[i].slip = rows[i].slip
    BY <1>1, NextOnward DEF RowsOnward
  <2> QED BY <1>2, <1>3, <1>4, <1>5, <2>1
<1>7. \A i, l \in DOMAIN rows' : rows'[i].slip = rows'[l].slip => i = l
  BY <1>2, <1>3, <1>4, <1>5, <1>6 DEF SingleInv
<1>8. ASSUME NEW i \in DOMAIN rows' PROVE RowFine(i)'
  <2>1. CASE i # j
    BY <1>1, <1>2, <2>1, RowFineStays
  <2>2. CASE i = j
    <3>1. /\ rows'[i].payout = h.answer.payout /\ rows'[i].status = h.answer.status /\ rows'[i].key = h.key
          /\ rows'[i].slip = h.slip
      BY <1>2, <1>6, <2>2
    <3>2. h.answer.status \in Retryable => payouts[h.answer.payout].status \in Retryable
      BY <1>5 DEF Past
    <3> QED BY <1>1, <1>5, <3>1, <3>2 DEF RowFine, Spent, Live
  <2> QED BY <2>1, <2>2
<1>9. \A i \in DOMAIN rows : rows[i].payout # 0 /\ Live(rows[i].payout) => rows'[i].payout = rows[i].payout
  BY <1>2, <1>3, <1>4, <1>5 DEF Spent
<1>10. disbursed' = 0 => rows' = <<>>
  <2>1. disbursed # 0
    <3>1. CASE h.op = "disburseRun"
      BY <1>1, <3>1 DEF Fine, Listed
    <3>2. CASE h.op = "retryPayout"
      <4>1. rows # <<>>
        BY <1>3, <3>2
      <4> QED BY <4>1 DEF SingleInv
    <3> QED BY <1>5, <3>1, <3>2
  <2> QED BY <1>1, <2>1
<1>11. \A q \in Procs : Fine(req[q])'
  <2>1. Done(p)
    BY DEF Record
  <2>2. h.op = "retryPayout" => Respond(p)
    BY <1>0, <2>1 DEF Done
  <2>3. h.op = "disburseRun" =>
          disbursed' = 1 /\ h.known = {} /\ \A i \in DOMAIN rows' : rows'[i].slip \notin h.left
    BY <1>1, <1>2, <1>6 DEF Fine, Listed
  <2> QED BY <1>0, <1>1, <2>1, <2>2, <2>3, DoneFine
<1> QED BY <1>1, <1>7, <1>8, <1>9, <1>10, <1>11, SingleStep

LEMMA FailureSingle ==
  ASSUME SingleInv, [Next]_vars, OneAtATime, NothingIsLost,
         NEW p \in Procs, RecordFailure(p)
  PROVE  SingleInv'
<1>0. PICK h : h = req[p]
  OBVIOUS
<1>1. /\ h \in Handler /\ h \in Request /\ TypeInv /\ TruthInv /\ Fine(h)
      /\ h.at = "fail" /\ h.at \in Paying /\ h.op = "disburseRun"
      /\ UNCHANGED <<payouts, now, disbursed>> /\ PayoutsOnward /\ disbursed \in Nat /\ now \in Nat
      /\ now <= Clock
  BY <1>0, NextOnward
     DEF RecordFailure, SingleInv, TruthInv, TypeInv, TypeOK, Handler, Paying, WellPlaced, Listing
<1>2. h.row = 0 /\ disbursed = 1 /\ h.known = {} /\ h.slip \notin h.left
      /\ \A i \in DOMAIN rows : rows[i].slip # h.slip /\ rows[i].slip \notin h.left
  BY <1>1 DEF Fine, Listed
<1>3. rows' = Append(rows, FailedRow(h)) /\ FailedRow(h) \in Row
  BY <1>0, <1>1, <1>2, Wrote
<1>4. PICK j : j = Len(rows) + 1
  OBVIOUS
<1>5. /\ DOMAIN rows' = DOMAIN rows \cup {j} /\ j \notin DOMAIN rows /\ rows'[j] = FailedRow(h)
      /\ \A i \in DOMAIN rows : rows'[i] = rows[i]
  BY <1>1, <1>3, <1>4, Payouts, Appended
<1>6. rows'[j].payout = 0 /\ rows'[j].slip = h.slip /\ rows'[j].key = h.key
  BY <1>5 DEF FailedRow
<1>7. h.key.slip = h.slip /\ Len(h.key.stamps) <= now
  BY <1>1 DEF Fine, OwnKey
<1>8. \A i, l \in DOMAIN rows' : rows'[i].slip = rows'[l].slip => i = l
  BY <1>2, <1>5, <1>6 DEF SingleInv
<1>9. ASSUME NEW i \in DOMAIN rows' PROVE RowFine(i)'
  <2>1. CASE i # j
    BY <1>1, <1>5, <2>1, RowFineStays
  <2>2. CASE i = j
    BY <1>1, <1>6, <1>7, <2>2 DEF RowFine, Spent
  <2> QED BY <2>1, <2>2
<1>10. \A q \in Procs : Fine(req[q])'
  <2>1. NextSlip(p)
    BY DEF RecordFailure
  <2>2. \A i \in DOMAIN rows' : rows'[i].slip \notin h.left
    BY <1>2, <1>5, <1>6
  <2> QED BY <1>0, <1>1, <1>2, <2>1, <2>2, DoneFine
<1>11. \A i \in DOMAIN rows : rows[i].payout # 0 /\ Live(rows[i].payout) => rows'[i].payout = rows[i].payout
  BY <1>5
<1> QED BY <1>1, <1>2, <1>8, <1>9, <1>10, <1>11, SingleStep

LEMMA ApplySingle ==
  ASSUME SingleInv, [Next]_vars, OneAtATime, NothingIsLost,
         NEW p \in Procs, ApplyWebhook(p)
  PROVE  SingleInv'
<1>0. PICK h : h = req[p]
  OBVIOUS
<1>1. /\ h \in Handler /\ h \in Request /\ TypeInv /\ TruthInv /\ Informed(h) /\ Matched(h)
      /\ h.at = "apply"
      /\ UNCHANGED <<payouts, now, disbursed>> /\ PayoutsOnward /\ disbursed \in Nat /\ now \in Nat
      /\ now <= Clock
  BY <1>0, NextOnward DEF ApplyWebhook, SingleInv, TruthInv, TypeInv, TypeOK, Handler
<1>2. PICK j : j = h.row
  OBVIOUS
<1>3. /\ j \in DOMAIN rows /\ rows[j] \in Row /\ rows[j].payout = h.answer.payout
      /\ Past(h.answer.payout, h.answer.status)
  BY <1>1, <1>2, Payouts DEF Informed, Matched
<1>4. PICK row : row = [rows[j] EXCEPT !.status = h.answer.status]
  OBVIOUS
<1>5. row.payout = rows[j].payout /\ row.slip = rows[j].slip /\ row.key = rows[j].key
      /\ row.status = h.answer.status
  BY <1>3, <1>4 DEF Row
<1>6. rows' = [rows EXCEPT ![j] = row]
  BY <1>0, <1>1, <1>2, <1>4, Wrote
<1>7. /\ DOMAIN rows' = DOMAIN rows /\ rows'[j] = row
      /\ \A i \in DOMAIN rows : i # j => rows'[i] = rows[i]
  BY <1>1, <1>3, <1>6, Payouts
<1>8. \A i, l \in DOMAIN rows' : rows'[i].slip = rows'[l].slip => i = l
  <2>1. \A i \in DOMAIN rows : rows'[i].slip = rows[i].slip
    BY <1>5, <1>7
  <2> QED BY <1>7, <2>1 DEF SingleInv
<1>9. ASSUME NEW i \in DOMAIN rows' PROVE RowFine(i)'
  <2>1. CASE i # j
    BY <1>1, <1>7, <2>1, RowFineStays
  <2>2. CASE i = j
    <3>1. RowFine(j)
      BY <1>3 DEF SingleInv
    <3>2. h.answer.status \in Retryable => payouts[rows[j].payout].status \in Retryable
      BY <1>3 DEF Past
    <3>3. rows'[j].payout = rows[j].payout /\ rows'[j].slip = rows[j].slip /\ rows'[j].key = rows[j].key
          /\ rows'[j].status = h.answer.status
      BY <1>5, <1>7
    <3> QED BY <1>1, <2>2, <3>1, <3>2, <3>3 DEF RowFine, Spent, Live
  <2> QED BY <2>1, <2>2
<1>10. disbursed' = 0 => rows' = <<>>
  <2>1. rows # <<>>
    BY <1>3
  <2> QED BY <1>1, <2>1 DEF SingleInv
<1>11. \A q \in Procs : Fine(req[q])'
  <2>1. Becomes(p, Idle)
    BY DEF ApplyWebhook, Respond
  <2>2. Fine(Idle)'
    BY DEF Idle, Fine, Listed, Retrying, OwnKey, Paying
  <2> QED BY <1>1, <2>1, <2>2, OneFine
<1>12. \A i \in DOMAIN rows : rows[i].payout # 0 /\ Live(rows[i].payout) => rows'[i].payout = rows[i].payout
  BY <1>5, <1>7
<1> QED BY <1>1, <1>8, <1>9, <1>10, <1>11, <1>12, SingleStep

LEMMA SingleNext ==
  ASSUME SingleInv, [Next]_vars, OneAtATime, NothingIsLost, Disbursals <= 1
  PROVE  SingleInv'
<1>1. CASE UNCHANGED <<rows, now, disbursed, req>>
  <2>1. now \in Nat /\ now <= Clock /\ disbursed \in Nat /\ PayoutsOnward
    BY NextOnward DEF SingleInv, TruthInv, TypeInv, TypeOK
  <2>2. \A q \in Procs : Fine(req[q])'
    BY <1>1, <2>1, FineSame
  <2> QED BY <1>1, <2>1, <2>2, SingleSame
<1>2. ASSUME NEW p \in Procs, HandlerStep(p)
      PROVE  SingleInv'
  <2>1. CASE \E e \in Employees, account \in Accounts \cup {None} : EditBank(p, e, account)
    BY <1>1, <2>1 DEF EditBank
  <2> QED BY <1>2, <2>1, HandlerSteps, PlainSingle, ListSingle, TakeSingle, RetrySingle, CreateSingle,
             RecordSingle, FailureSingle, ApplySingle, EventSingle
<1>3. UNCHANGED <<rows, now, disbursed, req>> \/ \E p \in Procs : HandlerStep(p)
  BY DEF Next, RunStep, Compute, Approve, MarkPaid, Rerun, Progress, vars
<1> QED BY <1>1, <1>2, <1>3

LEMMA SingleInit == Init => SingleInv
<1> SUFFICES ASSUME Init PROVE SingleInv
  OBVIOUS
<1>1. DOMAIN rows = {} /\ DOMAIN payouts = {} /\ rows = <<>> /\ now = 0 /\ \A p \in Procs : req[p] = Idle
  BY DEF Init
<1> QED BY <1>1, IdleFine, TruthInit, BoundsAssumption DEF SingleInv

\* Retries: of the live payouts of a payslip at most one was made under a key that its
\* row can take, whatever fails and however often it is retried, provided that the run
\* was disbursed once, that one call is served at a time and that no answer or write is
\* lost.  So it takes a retry of a retry, whose key is too long, to pay a payslip twice.
THEOREM RetriesPayOnce ==
  ASSUME OneAtATime, NothingIsLost, Disbursals <= 1
  PROVE  Spec => []PaidOnceWhileKeyFits
<1>1. SingleInv /\ [Next]_vars => SingleInv'
  BY SingleNext
<1>2. SingleInv => PaidOnceWhileKeyFits
  BY SingleImplies
<1> QED BY <1>1, <1>2, SingleInit, PTL DEF Spec

\* Once nothing runs every live payout whose key its row can take has a row, so that its
\* events find it, unless an answer or a write is lost: for any number of overlapping
\* disbursals without retries, and with retries under the conditions of RetriesPayOnce.
THEOREM PayoutsHaveRows ==
  ASSUME NothingIsLost, "retryPayout" \in Ops => OneAtATime /\ Disbursals <= 1
  PROVE  Spec => []PayoutsTracked
<1>1. CASE "retryPayout" \notin Ops
  BY <1>1, TrackedWithoutRetries
<1>2. CASE OneAtATime /\ Disbursals <= 1
  <2>1. SingleInv /\ [Next]_vars => SingleInv'
    BY <1>2, SingleNext
  <2>2. SingleInv => PayoutsTracked
    BY TrackImplies DEF SingleInv
  <2> QED BY <2>1, <2>2, SingleInit, PTL DEF Spec
<1> QED BY <1>1, <1>2

-----------------------------------------------------------------------------
(* The account *)

\* Nobody edits bank details while a payslip is being paid.
AccountInv ==
  /\ TypeInv
  /\ \A p \in Procs : req[p].at \in {"cache", "pay"} => req[p].account = bank[req[p].slip.employee]

LEMMA AllCurrent ==
  ASSUME AccountInv, TypeInv', UNCHANGED bank, NEW p \in Procs, NEW n, Becomes(p, n),
         n.at \in {"cache", "pay"} => n.account = bank[n.slip.employee]
  PROVE  AccountInv'
BY DEF AccountInv, TypeInv, Becomes

LEMMA ReadyAccount ==
  ASSUME TypeInv, NEW p \in Procs, NEW account, FundReady(p, account), NEW h, h = req[p]
  PROVE  \E n : Becomes(p, n) /\ n.slip = h.slip /\ n.account = account
<1>1. h \in Request
  BY DEF TypeInv, Handler
<1>2. CASE h.op = "disburseRun"
  <2>1. PICK n : n = [h EXCEPT !.at = "pay", !.account = account]
    OBVIOUS
  <2>2. n.slip = h.slip /\ n.account = account
    BY <1>1, <2>1 DEF Request
  <2> QED BY <1>2, <2>1, <2>2 DEF FundReady
<1>3. CASE h.op # "disburseRun"
  <2>1. PICK t : Becomes(p, [h EXCEPT !.at = "pay", !.account = account, !.key = Stamped(h.key, t)])
    BY <1>3 DEF FundReady
  <2>2. PICK n : n = [h EXCEPT !.at = "pay", !.account = account, !.key = Stamped(h.key, t)]
    OBVIOUS
  <2>3. n.slip = h.slip /\ n.account = account
    BY <1>1, <2>2 DEF Request
  <2> QED BY <2>1, <2>2, <2>3
<1> QED BY <1>2, <1>3

LEMMA AccountNext ==
  ASSUME AccountInv, [Next]_vars, "editBank" \in Ops => OneAtATime
  PROVE  AccountInv'
<1>0. TypeInv /\ TypeInv'
  BY TypeNext DEF AccountInv
<1>1. CASE UNCHANGED <<bank, req>>
  BY <1>0, <1>1 DEF AccountInv
<1>2. ASSUME NEW p \in Procs, HandlerStep(p)
      PROVE  AccountInv'
  <2>0. PICK h : h = req[p]
    OBVIOUS
  <2>1. h \in Request
    BY <1>0, <2>0 DEF TypeInv, Handler
  <2>2. CASE PlainStep(p)
    <3>0. UNCHANGED bank
      BY <2>2 DEF PlainStep, EndDisburse, SkipSlip, UseFund, CreateFund, CacheFund, Refuse, RecordFails,
         Crash, bankVars
    <3>1. CASE UseFund(p)
      <4>1. FundReady(p, bank[h.slip.employee])
        BY <2>0, <3>1 DEF UseFund
      <4>2. PICK n : /\ Becomes(p, n) /\ n.slip = h.slip /\ n.account = bank[h.slip.employee]
        BY <1>0, <2>0, <2>1, <4>1, ReadyAccount
      <4> QED BY <1>0, <3>0, <4>2, AllCurrent
    <3>2. CASE CacheFund(p)
      <4>1. FundReady(p, h.account) /\ h.account = bank[h.slip.employee]
        BY <2>0, <3>2 DEF CacheFund, AccountInv
      <4>2. PICK n : /\ Becomes(p, n) /\ n.slip = h.slip /\ n.account = h.account
        BY <1>0, <2>0, <2>1, <4>1, ReadyAccount
      <4> QED BY <1>0, <3>0, <4>1, <4>2, AllCurrent
    <3>3. CASE CreateFund(p)
      <4>1. PICK n : n = [h EXCEPT !.at = "cache", !.account = bank[h.slip.employee]]
        OBVIOUS
      <4>2. n.slip = h.slip /\ n.account = bank[h.slip.employee]
        BY <2>1, <4>1 DEF Request
      <4>3. Becomes(p, n)
        BY <2>0, <3>3, <4>1 DEF CreateFund
      <4> QED BY <1>0, <3>0, <4>2, <4>3, AllCurrent
    <3>4. CASE ~UseFund(p) /\ ~CacheFund(p) /\ ~CreateFund(p)
      <4>1. PICK n : Becomes(p, n) /\ n.at \notin {"cache", "pay"}
        <5>1. CASE Respond(p)
          BY <5>1 DEF Respond, Idle
        <5>2. ASSUME NEW s \in req[p].left, SkipSlip(p, s) PROVE \E n : Becomes(p, n) /\ n.at \notin {"cache", "pay"}
          <6>1. PICK n : n = [h EXCEPT !.left = @ \ {s}]
            OBVIOUS
          <6>2. n.at = "next"
            BY <2>0, <2>1, <5>2, <6>1 DEF SkipSlip, Request
          <6> QED BY <2>0, <5>2, <6>1, <6>2 DEF SkipSlip
        <5>3. CASE GoTo(p, "fail")
          <6>1. PICK n : n = [h EXCEPT !.at = "fail"]
            OBVIOUS
          <6>2. n.at = "fail"
            BY <2>1, <6>1 DEF Request
          <6> QED BY <2>0, <5>3, <6>1, <6>2 DEF GoTo
        <5> QED BY <2>2, <3>4, <5>1, <5>2, <5>3 DEF PlainStep, EndDisburse, Refuse, RecordFails, Crash, Fail
      <4> QED BY <1>0, <3>0, <4>1, AllCurrent
    <3> QED BY <3>1, <3>2, <3>3, <3>4
  <2>3. CASE BeginDisburse(p) \/ ReadSlips(p)
    <3>1. CASE BeginDisburse(p)
      <4>1. PICK n : n = [Idle EXCEPT !.op = "disburseRun", !.at = "slips"]
        OBVIOUS
      <4>2. n.at = "slips"
        BY <4>1 DEF Idle
      <4>3. Becomes(p, n) /\ UNCHANGED bank
        BY <3>1, <4>1 DEF BeginDisburse, bankVars
      <4> QED BY <1>0, <4>2, <4>3, AllCurrent
    <3>2. CASE ReadSlips(p)
      <4>1. PICK n : n = [h EXCEPT !.at = "rows", !.left = slips]
        OBVIOUS
      <4>2. n.at = "rows"
        BY <2>1, <4>1 DEF Request
      <4>3. Becomes(p, n) /\ UNCHANGED bank
        BY <2>0, <3>2, <4>1 DEF ReadSlips, bankVars
      <4> QED BY <1>0, <4>2, <4>3, AllCurrent
    <3> QED BY <2>3, <3>1, <3>2
  <2>4. CASE ReadRows(p)
    <3>1. PICK known : Becomes(p, [h EXCEPT !.at = "next", !.known = known])
      BY <2>0, <2>4 DEF ReadRows
    <3>2. PICK n : n = [h EXCEPT !.at = "next", !.known = known]
      OBVIOUS
    <3>3. n.at = "next"
      BY <2>1, <3>2 DEF Request
    <3>4. Becomes(p, n) /\ UNCHANGED bank
      BY <2>4, <3>1, <3>2 DEF ReadRows, bankVars
    <3> QED BY <1>0, <3>3, <3>4, AllCurrent
  <2>5. ASSUME NEW s \in req[p].left, TakeSlip(p, s) PROVE AccountInv'
    <3>1. PICK n : n = [h EXCEPT !.at = "fund", !.left = @ \ {s}, !.slip = s,
                                 !.key = IdemKey(s), !.row = RowOf(Already(p, s))]
      OBVIOUS
    <3>2. n.at = "fund"
      BY <2>1, <3>1 DEF Request
    <3>3. Becomes(p, n) /\ UNCHANGED bank
      BY <2>0, <2>5, <3>1 DEF TakeSlip, bankVars
    <3> QED BY <1>0, <3>2, <3>3, AllCurrent
  <2>6. ASSUME NEW i \in DOMAIN rows, BeginRetry(p, i) PROVE AccountInv'
    <3>1. PICK n : n = [Idle EXCEPT !.op = "retryPayout", !.at = "fund", !.slip = rows[i].slip,
                                    !.key = rows[i].key, !.row = i]
      OBVIOUS
    <3>2. n.at = "fund"
      BY <3>1 DEF Idle
    <3>3. Becomes(p, n) /\ UNCHANGED bank
      BY <2>6, <3>1 DEF BeginRetry, bankVars
    <3> QED BY <1>0, <3>2, <3>3, AllCurrent
  <2>7. ASSUME NEW status \in {"queued", "processing"}, CreatePayout(p, status) PROVE AccountInv'
    <3>0. UNCHANGED bank /\ h.at \in Paying
      BY <1>0, <2>0, <2>7, Asked DEF Paying
    <3>1. PICK answer : Receive(p, answer)
      BY <1>0, <2>7, Asked
    <3>2. CASE Becomes(p, [h EXCEPT !.at = "record", !.answer = answer])
      <4>1. PICK n : n = [h EXCEPT !.at = "record", !.answer = answer]
        OBVIOUS
      <4>2. n.at = "record"
        BY <2>1, <4>1 DEF Request
      <4> QED BY <1>0, <3>0, <3>2, <4>1, <4>2, AllCurrent
    <3>3. CASE GoTo(p, "fail")
      <4>1. PICK n : n = [h EXCEPT !.at = "fail"]
        OBVIOUS
      <4>2. n.at = "fail"
        BY <2>1, <4>1 DEF Request
      <4>3. Becomes(p, n)
        BY <2>0, <3>3, <4>1 DEF GoTo
      <4> QED BY <1>0, <3>0, <4>2, <4>3, AllCurrent
    <3>4. CASE Respond(p)
      <4>1. Becomes(p, Idle) /\ Idle.at = "idle"
        BY <3>4 DEF Respond, Idle
      <4> QED BY <1>0, <3>0, <4>1, AllCurrent
    <3> QED BY <2>0, <3>1, <3>2, <3>3, <3>4 DEF Receive, Fail
  <2>8. CASE Record(p) \/ RecordFailure(p) \/ ApplyWebhook(p)
    <3>1. (Done(p) \/ NextSlip(p) \/ Respond(p)) /\ UNCHANGED bank
      BY <2>8 DEF Record, RecordFailure, ApplyWebhook, bankVars
    <3>2. PICK n : Becomes(p, n) /\ (n = Idle \/ n.at = "next")
      BY <1>0, <2>0, <3>1, DoneForm
    <3>3. n.at \notin {"cache", "pay"}
      BY <3>2 DEF Idle
    <3> QED BY <1>0, <3>1, <3>2, <3>3, AllCurrent
  <2>9. ASSUME NEW k \in DOMAIN payouts, NEW i \in DOMAIN payouts[k].events, BeginWebhook(p, k, i)
        PROVE  AccountInv'
    <3>1. UNCHANGED bank
      BY <2>9 DEF BeginWebhook, bankVars
    <3>2. CASE UNCHANGED req
      BY <1>1, <3>1, <3>2
    <3>3. ASSUME NEW row,
                 Becomes(p, [Idle EXCEPT !.op = "webhook", !.at = "apply", !.row = row,
                               !.answer = [payout |-> k, status |-> payouts[k].events[i]]])
          PROVE  AccountInv'
      <4>1. PICK n : n = [Idle EXCEPT !.op = "webhook", !.at = "apply", !.row = row,
                            !.answer = [payout |-> k, status |-> payouts[k].events[i]]]
        OBVIOUS
      <4>2. n.at = "apply"
        BY <4>1 DEF Idle
      <4>3. Becomes(p, n)
        BY <3>3, <4>1
      <4> QED BY <1>0, <3>1, <4>2, <4>3, AllCurrent
    <3> QED BY <2>9, <3>2, <3>3 DEF BeginWebhook
  <2>10. ASSUME NEW e \in Employees, NEW account \in Accounts \cup {None}, EditBank(p, e, account)
         PROVE  AccountInv'
    <3>1. UNCHANGED req /\ req[p] = Idle /\ OneAtATime
      BY <2>10 DEF EditBank, Free
    <3>2. \A q \in Procs : req'[q].at = "idle"
      BY <3>1 DEF OneAtATime, Idle
    <3> QED BY <1>0, <3>2 DEF AccountInv
  <2> QED BY <1>2, <2>2, <2>3, <2>4, <2>5, <2>6, <2>7, <2>8, <2>9, <2>10, HandlerSteps
<1>3. UNCHANGED <<bank, req>> \/ \E p \in Procs : HandlerStep(p)
  BY DEF Next, RunStep, Compute, Approve, MarkPaid, Rerun, Progress, vars, bankVars
<1> QED BY <1>1, <1>2, <1>3

LEMMA PaysCurrentStep ==
  ASSUME AccountInv, Next
  PROVE  \A k \in DOMAIN payouts' \ DOMAIN payouts : payouts'[k].account = bank[payouts'[k].slip.employee]
<1> SUFFICES ASSUME NEW k \in DOMAIN payouts' \ DOMAIN payouts
             PROVE  payouts'[k].account = bank[payouts'[k].slip.employee]
  OBVIOUS
<1>0. TypeInv
  BY DEF AccountInv
<1>1. PICK p \in Procs, status \in {"queued", "processing"} : CreatePayout(p, status)
  BY <1>0, NewPayouts
<1>2. PICK h : h = req[p]
  OBVIOUS
<1>3. /\ payouts' = Append(payouts, NewPayout(h, status)) /\ NewPayout(h, status) \in RazorpayPayout
      /\ h.at = "pay"
  BY <1>0, <1>1, <1>2, Asked
<1>4. payouts'[k] = NewPayout(h, status)
  BY <1>0, <1>3, Payouts, Appended
<1>5. h.account = bank[h.slip.employee]
  BY <1>2, <1>3 DEF AccountInv
<1> QED BY <1>4, <1>5 DEF NewPayout

\* A payout goes to the account that is on the employee's profile when Razorpay is
\* asked for it, whatever fund account was cached before, if no edit of bank details
\* overlaps another call.
THEOREM PaidToCurrentAccount ==
  ASSUME "editBank" \in Ops => OneAtATime
  PROVE  Spec => PaysCurrentAccount
<1>1. Init => AccountInv
  <2>1. Init => \A p \in Procs : req[p].at = "idle"
    BY DEF Init, Idle
  <2> QED BY <2>1, TypeInit DEF AccountInv
<1>2. AccountInv /\ [Next]_vars => AccountInv'
  BY AccountNext
<1>3. AccountInv /\ [Next]_vars
        => [\A k \in DOMAIN payouts' \ DOMAIN payouts :
              payouts'[k].account = bank[payouts'[k].slip.employee]]_vars
  BY PaysCurrentStep
<1> QED BY <1>1, <1>2, <1>3, PTL DEF Spec, PaysCurrentAccount

=============================================================================
