# Nexora HRM: a TLA+ verification project

Models, model-checking runs and machine-checked proofs for the back ends of
Nexora HRM, a monorepo of HR applications (TypeScript, Express, Knex on MySQL).
File names below are relative to `src/apps/`. Parse a module with SANY, run a
`.cfg` with TLC on the `MC*` module it belongs to, check a `*Proofs` module with
`tlapm`. `PROJECT.json` says which lines each definition translates, which
mutation of the code each property notices, and lists every hazard.

## 1. The system

| part | state it keeps | operations | where it is hard | what makes it correct |
|---|---|---|---|---|
| **payroll runs** `payroll-api/.../payroll.service.ts` | `payroll_runs.status`, `payslips` with their lines as JSON | create, compute, approve, mark paid, cancel, revert to draft, rerun, delete | hundreds of statements per request, no transaction; snapshots in payslips are the only undo log | an instalment is taken once, a claim paid once, undoing gives everything back; payslips show whole rupees, rows keep paise |
| **loans** `loan.service.ts` | `loans.outstanding_amount`, `status` | create, record payment, update, cancel, delete; debited by compute | writes are computed from an earlier read | outstanding and status agree; never owes more than was lent |
| **reimbursements** `reimbursement.service.ts` | `reimbursements.status`, `amount`, `paid_in_month` | submit, approve, reject, update, mark paid, remove; paid by compute | two owners of `status` (the desk and the payroll run) | paid exactly when, and as, a payslip shows |
| **payouts** `payout.service.ts`, `razorpay.service.ts`, `webhook.routes.ts` | `payroll_payouts`, the cached fund account of a profile; at Razorpay, the payouts | disburse a run, retry a payout, webhook | an external service with idempotency keys, a column that holds one retry's key and not two, timeouts, late and repeated events | a salary is paid once, to the current account, and its row follows it |
| **leave** `core-api/.../leave/leave-application.service.ts`, `leave-balance.service.ts`, `period.helper.ts` | `leave_applications`, `leave_balances` | apply, edit, approve, reject, cancel, period rollover, HR corrections | only approve and reject are transactions; three numbers say how much was used | the balance agrees with the applications; no day is taken twice |
| **attendance** `core-api/.../attendance/` | `attendance_records` | punches, approvals and cancellations of leave, regularizations | written by three services | a day is paid as leave only if the leave is approved |
| **subscriptions and seats** `subscription/`, `module-sync.service.ts`, `subscription-admin.service.ts` | `org_subscriptions.status`, `total_seats`, the cached `used_seats`; `org_module_seats` | subscribe, onboard, update, cancel, assign and revoke seats from five places, sync, trial sweep (hourly) | count, then insert; cached counts; an interval job | no more seats than paid for; the cache heals; every trial ends |
| **billing** `billing/` | `billing_subscription_mappings`; at emp-billing, the invoices | post a new subscription, handle events | best-effort posts, acknowledged before they are handled | the events of a subscription it knows reach its row |
| identity | `oauth_refresh_tokens` and their families, users, permissions | issue, rotate, revoke | two rotations of one token | a token is rotated once; reuse ends the family |
| compensatory off | `comp_off_requests`, and leave balances | request, approve, reject | credits to rows that leave also writes | credited once |
| positions, assets | `positions.headcount_filled` | assign, remove, freeze | row locks (positions) or none (assets) | filled equals assignments, within budget |
| **offers and onboarding** `recruit-api/.../offer/`, `onboarding/` | `offers.status`, `offer_approvers`, `applications.stage`, `onboarding_checklists` and their tasks | create, submit, approve, reject, send, accept, revoke, decline; list, generate, tick tasks | status read in one statement and written in another; best-effort work after a commit | one live offer, approved by the whole last round; hired means accepted; a hire gets a checklist |
| **e-mail campaigns** `recruitment-ops.service.ts`, `index.ts` | `email_campaigns`, `email_campaign_recipients` | create, send, cancel, retry unknown deliveries, merge candidates (not modelled); a scheduler every 30 seconds | several workers, workers that stop, a mail server that cannot be asked and whose answer may be lost | nobody is mailed twice but where a mail that left is taken for failed; every campaign gets to its end |
| other recruiting: automations, applications, interviews, jobs | single rows, automation runs | edit, dispatch, process | claims as of the campaigns | - |
| earned wage | advances of a month | request, approve, repay | check, then insert | the advances stay within the allowance |
| forum, chat, helpdesk, survey, wellness, whistleblowing, events | single rows | create, edit, list | little | - |
| assistants, legacy kiosks, administration, web | adapters, reports, pages | - | - | - |

How the parts meet: payroll reads attendance and leave of core-api and writes
loans and claims; payouts read the payslips of a run and never tell the run;
approved leave puts rows on the attendance grid, and a cancellation takes them
off; comp-off and HR write the balances that leave charges; billing webhooks
and an interval job write the subscriptions that seats are counted against; an
accepted offer hires its application and starts onboarding. There is no
message queue: the parts share tables of one MySQL database, and two requests
interleave at every `await` of a Knex statement. Three external actors have
a timing that matters to stored state: Razorpay, emp-billing and the mail server.

## 2. Plan

1. `PayrollRun` (done): runs, loans, claims.
2. `Payout` (done): one run's salaries through Razorpay. The run's own life is
   four atomic actions here, since `PayrollRun` has it in detail.
3. `LeaveLedger` (done): leave, balances, attendance rows.
4. `Subscription` and `SeatPool` (done): seats against their limit, updates,
   cancellation, trials, billing events, and what an organization is promised.
5. `Offers` (done): approval rounds, answers, hiring, checklists.
   `Campaigns` (done): sending mails with workers that stop.
   Next to it `Automations`: its runs are claimed like campaigns, but their
   attempts are counted from a row read before the claim.
6. `CompOff` beside `LeaveLedger`, whose balance operators it uses.
7. `LeavePeriods`: `period.helper.ts` as pure functions, checked against a
   calendar; several fiscal years and `archiveFiscalYear`.
8. `Positions`, `TokenRotation`, `EarnedWage`, regularizations.
9. Abstract specifications and refinements: `PayOnce` (a salary is unpaid,
   promised or paid) implemented by `Payout` under `disburseRun`; a ledger that
   is debited and undone atomically implemented by `PayrollRun` for one request
   at a time.
10. Theorems: every invariant and action property that a run checks is proved
   (done, section 5). Left: weaker assumptions where a proof asks for one request
   at a time and the code needs less, and the refinements of 9.

Instances are merged so that every run keeps a question of its own; what a
theorem says of any number of concurrent requests is not run again for two.

## 3. How the models are written

* **A request is a process.** `req[p]` is the handler of process `p`: the
  endpoint (`op`), the statement it has come to (`at`) and the values it has
  read. One SQL statement is one step. Where the code decides on a row and
  writes in a later statement, the model has both steps, so a second process
  can come between them. With `Procs` a single process, requests are served
  one after the other; with two they interleave.
* **Operations that are one statement** (`CreateLoan`, `CancelLoan`, `Tomorrow`,
  ...) are single actions. A read immediately followed by a guard that nothing
  else depends on is one step with it.
* **A failing request** is `Crash(p)`: it stops between two statements and what it wrote
  stays, because nothing is rolled back. In `Campaigns` it is also the restart of the
  service: the tables and the scheduler outlive it. `LeaveLedger` has no `Crash`; its
  two transactions hold the row lock from their first statement to commit, which is one
  step (`CommitApproval`).
* **Rows are records.** Ids are model values; an id is not used twice. Lines
  that a payslip stores as JSON are sets of records.
* **`Ops`** (and `CrashOps`, `Faults`) say which endpoints an instance has. A run
  that fixes a subset asks a question about those endpoints; the runs of a
  module together use all of them.
* **Names ending in `_Word`** (`BeginRerun_OnlyWipes`) are mistakes one could
  make in the definition that follows. They are not part of the specification:
  each property is checked to fail when one of them takes its place.

### PayrollRun

| code | model |
|---|---|
| `payroll_runs.status` | `runs[r]`, with `absent` and `deleted` for no row |
| `payslips`, their `deductions` and `earnings` with snapshots | `slips`, `debits`, `refunds` |
| `loans` | `loans[l]`: status, principal, outstanding, emi |
| `reimbursements` | `claims[c]`: status, amount, `paidIn` (paid_in_month and paid_in_year) |
| `Math.round` of what a payslip shows | `Rounded`; `Instalment` is the smaller of the rounded instalment and the rounded rest |
| `createRun` | `BeginCreateRun`, `InsertRun` (unique index on the month) |
| `computePayroll` | `BeginCompute`, `WipeSlips`, then per employee `SkipEmployee` or `ReadLoans`, `DebitLoan`*, `ReadClaims`, `RefundClaim`*, `InsertPayslip`; `WriteRun` |
| `approveRun`, `markPaid`, `cancelRun`, `revertToDraft` | `Begin...`, `MarkSlipsPaid`, `WipeSlips`, `WriteRun` |
| `rerunRun`, `deleteRun` with `revertLoansAndReimbursementsForRun` | `BeginRerun`/`BeginDeleteRun`, `CollectLines`, `RestoreLoan`*, `RestoreClaim`*, `WipeSlips`, `WriteRun` |
| `loan.service` | `CreateLoan`, `BeginRecordPayment`/`WritePayment`, `BeginUpdateLoan`/`WriteLoanUpdate`, `CancelLoan`, `DeleteLoan` |
| `reimbursement.service` | `SubmitClaim`, `BeginClaim`/`WriteClaim` (approve, reject, update), `PayClaim`, `RemoveClaim` |

Amounts are in paise, as the `DECIMAL(15,2)` columns keep them; a payslip shows
whole rupees, of loans and of claims (`Math.round`, halves up), while what is
written to the loan is the unrounded rest less the rounded instalment.
Employees are computed in any order (the code's order is that of a query).
Left out: how a payslip's amounts come about (salary structure, attendance,
tax, employer contributions), the guards on future periods and missing bank
details (both only refuse), `installments_paid` and `end_date` of a loan, which
nothing decides on, the custom instalment beside the standard one (`emi` is the
one in force), the default `limit` of 20 rows of `findMany`, disputes about
payslips, negative amounts.

### Payout

| code | model |
|---|---|
| `payroll_payouts` | `rows`: payslip, `idempotency_key`, `razorpay_payout_id`, status |
| key = payslip id, then `:r<Date.now()>` per retry | `Key`: the payslip and a sequence of stamps |
| `idempotency_key varchar(64)` | `KeyRoom`: a UUID takes 36 characters and a suffix 15, so a row can take one suffix (51) and not two (66): `Record` is then refused, after the payout is made |
| `employee_payroll_profiles.bank_details`, cached fund account with its fingerprint | `bank`, `fund` (the account the cached id stands for) |
| `disburseRun` | `BeginDisburse`, `ReadSlips`, `ReadRows`, per payslip `SkipSlip` or `TakeSlip` and the paying steps, `EndDisburse` |
| `retryPayout` | `BeginRetry` and the paying steps |
| paying: `ensureFundAccount`, `createPayout`, the row | `UseFund`, `CreateFund`/`CacheFund`, `CreatePayout`, `Record`, `RecordFails`, `RecordFailure` |
| `applyWebhookEvent` | `BeginWebhook`, `ApplyWebhook` |
| Razorpay (external) | `payouts`: one per key, `Progress` along its life cycle, an event per move |

Each member of `Faults` adds one kind of trouble: Razorpay refuses, its answer
is lost, the insert fails, the handler stops, events arrive in any order or
twice. The five workers of `disburseRun` share only the list of payslips and no
property relates two payslips, so a request pays one payslip after another in
any order. Left out: contacts, amounts, signatures, credentials.

### LeaveLedger

| code | model |
|---|---|
| `leave_applications` | `apps`: user, type, span, `days_count`, status |
| `leave_balances` | `balances`: extra_allocated, total_used, balance, period_used, period_key, overridden_at |
| `attendance_records.status` | `grid` |
| `applyLeave`, `updateLeave` | `BeginApply`/`BeginUpdate` (validation, rollover, `deriveAvailable`), `CheckOverlap`, `InsertApplication`/`UpdateApplication`, and for types without approval `Charge`, `WriteRow` |
| `approveLeave` | `BeginApprove`, `ReadBalance` (lock and snapshot), `CommitApproval` (status, balance, grid) |
| `rejectLeave` | `BeginReject`, `Reject` |
| `cancelLeave` | `BeginCancel`, `Cancel`, `Credit`, `WriteRow`, `ClearGrid` |
| `getBalances`, `applyLazyPeriodRollover` | `GetBalances`, `Rolled`, `RollOver` |
| `overrideBalance`, `bulkOverrideBalance`, `resetPeriodUsage` | `BeginOverride`, `BeginBulkOverride`, `BeginReset`, `WriteRow` |
| `recordPunch`, the calendar | `Punch`, `Tomorrow` |

Days are counted in halves, so half-day leave is 1. The copy of these endpoints in
payroll-api's `leave.service.ts` has no route any more. Left out: several fiscal years,
`initializeBalances` and `archiveFiscalYear`; comp-off; probation; who may approve and
the `leave_approvals` rows; notifications; the cap of 60 days; how week-offs, shifts and
holidays make the `WorkDays`; a half-day without its half. `getBalances` reads and rolls
over in one step; the attendance rows that an approval reads are those at its commit.

### Subscription and SeatPool

| code | model |
|---|---|
| `org_subscriptions` (unique on organization and module, never deleted) | `subs[m]`: status, total, used, and `ends`, which is `trial_ends_at` against the clock |
| `org_module_seats` (unique on module and user) | `seats`, with their ids |
| `createSubscription`, the modules step of onboarding | `BeginCreate`, `WriteCreate` (insert, or reactivate the cancelled row) |
| `updateSubscription`, `cancelSubscription` | `BeginUpdate`/`WriteUpdate`, `Cancel`/`Evict` |
| subscription-admin `updateSubscription` | `AdminUpdate` |
| `assignSeat`, `enableUserForModule`; `handleModuleSeatWebhook` added; the seat of a payroll user; `ensureBiometricSeat` | `BeginSeat`, then in the order of each: `CheckLimit`, `CheckSeated`, `CountSeats`, `Grow`; `InsertSeat`, `AddUsed` |
| `revokeSeat`, `disableUserForModule`, webhook removed, `releaseBiometricSeat` | `BeginRevoke`, `DeleteSeat`, `SubtractUsed` |
| `syncUsedSeats` | `BeginSync`, `Tally`, `Correct` |
| `expireTrials` every hour | `StartSweep`, `ExpireTrial`, `SkipBroken` |
| `emitSubscriptionCreated`, `persistMappings`; the webhook of emp-billing (external) | `posts`, `PostArrives`, `mapped`; `BillingReports` |

`SeatPool` is what is bought: per module a pool that is open or closed and holds
at most `capacity` users. It closes before it is emptied, opens only when
empty, never shrinks below its holders. `Subscription` maps `open` to an active
or trial status, `capacity` to `total_seats`, `holders` to the users of the seat
rows; `used_seats` does not occur in it, although the code decides with it.
Left out: tiers, prices and billing periods (a better tier or longer cycle is
one flag, for it ends a trial), the free-tier limit on modules, modules without
seat rows, the administrator's status "expired" and dates, reminders and dunning
(`processDunning` and `enforceOverdueInvoices` have no caller).

### Offers

| code | model |
|---|---|
| `offers`, `offer_approvers` | `offers[o]`, `approvers` |
| `applications.stage` | `stage[a]`; one application per candidate and job (migration 024) |
| `onboarding_checklists` with their tasks | `checklists`, with the number of tasks inserted |
| `createOffer`, `deleteDraftOffer` | `BeginCreate`, `InsertOffer`, `StageOffer`; `BeginDelete`, `Delete` (a transaction) |
| `submitForApproval` | `BeginSubmit`, `ClearApprovers`, `AskApprover`*, `OpenRound` |
| `approve`, `reject` | `BeginVote`, `FindApprover`, `MarkApprover`, `Override`, `Flip`; `BackToDraft` |
| `sendOffer`, `revokeOffer`, `declineOffer` | `BeginWrite`, `WriteStatus` |
| `acceptOffer` | `BeginAccept`, `Hire` (a transaction), then the checklist |
| `autoGenerateOnAcceptance`, `listChecklists` with its backfill, `generateChecklist` | `NextHire`, `BeginList`, `BeginGenerate`, `CheckActive`, `InsertChecklist`, `InsertTask`* |
| `updateTaskStatus` | `TickTasks` |

`Alone` names operations that no other request overlaps: an assumption of an
instance, not of the code (see "Where the properties stop"). Left out: what is
offered, letters, the expiry date (which only refuses), templates, automations,
the status of the job, whatever else moves an application, duplicates in
`approver_ids`.

### Campaigns

| code | model |
|---|---|
| `email_campaigns`, `updated_at` against the clock | `campaigns[c]`: status, `age` (new, 30 seconds, 15 minutes) |
| `email_campaign_recipients` | `rows[c][r]`: status, attempts |
| the mail server (external) | `inbox[c][r]`: how many mails arrived |
| `createEmailCampaign` | `Create` (a transaction) |
| the scheduler of `index.ts`, `processDueCampaigns` | `BeginTick`, `GiveUpMails`, `ReleaseCampaigns`, `ListDue`, `NextDue` |
| `sendCampaign` | `BeginSend`, `Claim`, `Load`, per recipient `ClaimRecipient`, `Mail` or `MailUnanswered`, `RecordMail` or `RecordFails`; `CountOutstanding`, `CountExhausted`, `CountUnknown`, `Finish` |
| `cancelEmailCampaign`, `retryUnknownCampaignRecipients` | `BeginCancel`, `Cancel`; `BeginRetry`, `Requeue`, `Reopen` |

Batches of 100 and 3 attempts are the constants `Batch` and `MaxAttempts`; the batch is
any of its size, because `created_at` ties. `sendEmail` may throw after the mail left
(`MailUnanswered`: the connection to the SMTP server or to SendGrid breaks before the
answer), and the update that records a mail may fail (`RecordFails`); the `catch` around
both writes `failed`, and `unrecorded` counts the mails that left and were taken for
failed. Left out: `mergeCandidates`, which also updates, deletes and moves rows of
`email_campaign_recipients` (its `GREATEST` of the attempts can put a pending row at the
limit, where no worker may claim it, so that its campaign never ends); the limit of 20
campaigns per tick, and the automation runs that the tick processes first (if they keep
failing, no campaign is sent: the fairness below assumes they do not).

## 4. What the runs show

Deadlock is not checked because the instances run out of ids, applications,
days and calls, and then stop. PayrollRun, Payout and LeaveLedger state no
liveness: nothing in that code retries or polls by itself, so a request that is
never sent again leaves its row as it is. The other three modules have jobs that
promise an outcome, and state their fairness as `FairSpec`:

* a process goes on with what it began (`WF` of `Continue`): the runtime runs
  what is ready. A crash ends a handler, so this is no promise that it finishes;
* the clock advances (`WF` of `TrialRunsOut`, `Rest`; `SF` of `GoStale`, since a
  worker may be at the campaign again and again);
* the interval jobs run: the hourly sweep (`WF` of `StartSweep`, `SweepStep`;
  `SF` of `ExpireTrial`: an update that fails does not fail every hour) and the
  tick every 30 seconds (`SF` of `BeginTick`, as every worker may be busy);
* somebody opens the onboarding page again and again (`SF` of `BeginList`). The
  code has no job for it: `HireGetsChecklist` says what opening the page achieves;
* no user has to send any other request. `UsedSeatsHeal` carries its condition,
  that the count is looked at again and again, in its own statement.

| run | question | instance | distinct states |
|---|---|---|---|
| `PayrollLedger` | Does what was lent always equal what is owed and what payslips show, do payslips follow their run, and can an undo that stopped half way be repeated? | 1 request at a time, 2 ids for one month, 2 employees with a loan each, principals 2.40 or 2.50, instalments 2 or 4; `rerunRun`, `deleteRun` may stop anywhere | 33 k |
| `PayrollClaims` | Is a claim paid on one payslip, of the month it names, with its amount rounded to rupees? | 1 request, 2 months, 2 employees with a claim each, amounts 1.20 and 1.50 | 295 k |
| `PayrollEveryOp` | Does any endpoint, failing or not, leave an active loan owing nothing? | 1 request, every endpoint, every one may stop, principals 0, 1.40 and 2.50 | 3.4 M |
| `PayrollRevertTwice` | (violated) Does a retried computation leave the ledger right? | revertToDraft, compute again | - |
| `PayoutDisburse` | Can two `disburseRun`s pay a payslip twice? | 2 requests, every fault, 2 calls, 2 payslips of which one pays nothing | 308 k |
| `PayoutRetries` | Do retries pay once while their keys fit, to the right account, and keep track? | 1 request at a time, 2 accounts, events late and repeated, 2 retries, the second with a key that is too long | 1.2 M |
| `PayoutDisburseAgain` | (violated) Is "Disburse all" safe to repeat? | disburse, retry, disburse | - |
| `LeaveBooks` | Do balances and grid agree with the applications? | 1 request at a time, HR corrections included, 2 types (one needs no approval and carries forward), 2 periods of one day, 2 applications | 2.9 M |
| `SubscriptionSeats` | Is `used_seats` the number of seats, and the whole a pool of seats that is never over its limit? | 1 request at a time, 1 module, 3 users, limits 1 and 2, 5 seats ever inserted | 32 k |
| `SubscriptionRaces` | By how much do requests that race for the last seat exceed the limit, and do a wrong count and an overdue trial get put right? | 2 requests, 2 users for 1 seat, 3 seats ever inserted, every fault, the sweep, the administrator, 1 event of emp-billing | 289 k |
| `OfferRounds` | Do approvals, answers and checklists stay in step? | 2 requests, 1 application, 2 offers, 4 approver rows, 2 approvers and a privileged user; acceptances may stop | 337 k |
| `CampaignDelivery` | Is everybody answered, and nobody mailed twice? | 2 workers, 1 campaign, 2 recipients, 2 attempts, 1 failure (a worker stops, an answer or the row of a mail is lost), 1 manual retry, a server that refuses | 496 k |

Why the bounds are enough for these questions. Principals 2.40 and 2.50 with instalments
2 and 4 make a full instalment, one that exceeds the loan at once, and what rounding can
do with the rest: 0.50 left is shown as 1, 0.40 left is never taken, and 2.50 is taken
as 3 at once. Two run ids for one month let a deleted run be created again, and two
months let runs be undone in another order than they were computed. A second employee
makes a computation that has debited one and not the other. Two requests are what every
race listed under hazards needs. `Clock = 2` lets a retry be retried, which is the first
key that its column refuses. Periods of one day have leave in the current period, in a
later one and over both; the spans are the two halves of one day and a full span over
it. Limits 1 and 2 with 3 users have a pool that is full, one that shrinks to what it
holds and one that grows; 5 inserts let a module be filled, cancelled and filled again.
Two users for one seat can both pass the count of it, and a third insert comes after one
was revoked. Two offers let one be withdrawn, answered or deleted and made again, and 4
approver rows let a round of two be repeated. Two attempts have a mail that fails, is
tried again and is given up; one failure and one retry, in any place, make every way in
which the row and the inbox part: a mail that left is taken for failed because its
answer was lost, because its row could not be written, or because its worker stopped.

### Findings

* `PayrollRevertTwice`: `revertToDraft` deletes the payslips of a run without
  giving back what they took, so the next computation deducts it again - what
  the comment of `revertLoansAndReimbursementsForRun` says must not happen
  (payroll.service.ts:2202-2205).
* `PayoutDisburseAgain`: a retry replaces the key of its row, so a later
  `disburseRun` does not see that the payslip was paid; the comment promises
  "safe re-run semantics" (payout.service.ts:235-237).

Also met while modelling, without a run of its own: the "post-insert sweep" that
leave-application.service.ts:227-230 announces is not in the code, so two
applications for one day sent at once are both stored. The comments of `assignSeat`
(subscription.service.ts:337-340) and `enableUserForModule` (module-sync.service.ts:91-94)
call their count of the rows "the authoritative check that prevents over-assignment
even when two admin requests race"; it is a count and a later insert without a lock,
and in `SubscriptionRaces` two requests do take the last seat both:
`OverBookedByRacesOnly` bounds the damage. The comment at payroll.service.ts:1800-1803
says that the cap at what is outstanding keeps the final month from over-deducting;
the cap is rounded too, so that of 2.50 owed the payslip takes 3. The header of
`retryPayout` (payout.service.ts:428-431) knows nothing of the width of the key: the
retry of a retry has one of 66 characters for a column of 64.

### Where the properties stop

What the code is known not to guarantee is not claimed, and the instances keep
it apart:

* `LedgerBalanced` and `UndoneOwesAll` are about one month. With two, undoing
  the older run replays a snapshot over the newer run's deduction. Neither holds
  when a computation stops half way (it has debited without a payslip), when two
  computations of one draft overlap, or when loans are edited or paid between.
* Payslips show whole rupees. `LedgerBalanced` is exact to the paisa as long as a
  loan is owed; when the last instalment settles it, the payslips have shown up to
  half a rupee more than was lent. A rest below half a rupee rounds to zero, is
  never deducted, and its loan stays active: `ActiveOwes` is true of it.
  `RefundShowsClaim` is about the rounded amount of the claim.
* `SlipsFollowRun` does not survive a failure in `markPaid`, which writes the
  payslips before the run; sending it again repairs it.
* `PaidClaimOnPayslip` and `RefundShowsClaim` are about claims that payroll pays
  (no `markPaid` or `remove` of the claim itself) and about one request at a time.
* An edit that raises the principal of a completed loan leaves it completed; an
  edit that has read a completed loan, while a run is taken back and makes it active
  again, breaks `ActiveOwes` (nothing else does: `NoActiveLoanIsSettled`); and any
  edit may make the old snapshots larger than the new principal.
* With retries `SlipPaidOnce` is false of the code, even where nothing is lost and no
  call overlaps another, once a retry is retried: Razorpay makes the payout, the row
  refuses the key of 66 characters, the request fails, the row still says failed and
  may be retried, and each further retry pays again; no row names any of those
  payouts. `PayoutRetries` says what is left: `PaidOnceWhileKeyFits` that under keys
  a row can take a payslip is paid once, `PayoutsTracked` that such a payout has its
  row. The instance has the retry of a retry; the payslip is paid twice with one
  more (`Clock = 3`), which is outside its bound and inside the theorem.
* `PaidOnceWhileKeyFits` fails too with a retry after a lost answer (the retry uses a
  new key) and with two retries of one row at once; `PayoutRetries` has neither. An
  event of the current attempt that arrives late does set the status of its row
  back, and one that arrives before the row has its payout id is dropped.
* `BalanceIsWhatIsLeft` leaves out the types that need no approval and do not carry
  forward: `applyLeave` charges those at once, for later periods too, and the
  check against the cap of a period does not add the periods up, so they can be
  charged beyond the year's allocation, and the floor at zero of `deductBalance`
  hides the excess; its comment (leave-balance.service.ts:301-306) relies on the
  check at apply time. Types with approval are read again before they are charged.
* The leave properties are about rows HR has not overridden. With two requests,
  an approval and a cancellation, or two approvals, can both be charged or never
  credited: only the sign of the balance is safe (proved). `period_used`
  goes astray when leave of a later period is approved and then cancelled in it,
  so no property mentions it. Cancelling leave also removes a `half_day` row that
  a punch or another half-day leave put there: `LeaveRowIsApproved` says that
  nothing remains of a cancelled leave, not that nothing else goes.
* `OverBookedByRacesOnly` and `UsedSeatsExact` are about open subscriptions whose limit
  nobody else changes: an administrator's edit, a payroll user (whose seat ignores the
  limit: `autoAssign` of module-sync) or a subscription that billing, the administrator
  or a status in the body of `updateSubscription` cancelled without removing its seats,
  and that is then subscribed again with fewer, are all beyond the limit. With N
  requests at a time the excess is at most N - 1, and `SubscriptionRaces` has an excess
  of one; the seat of a payroll user is an operation of the model that this run leaves
  out. `used_seats` goes wrong with two requests; `UsedSeatsHeal` says it recovers. The
  sweep may reopen a subscription cancelled after its scan, and a late event may set a
  cancelled one to past_due: `KeepsSeatPool` has neither.
* The offer properties each need some operations that nothing overlaps: creation
  (`OneLiveOffer`); creation, sending, withdrawal and refusal (`HiredIsAccepted`);
  submission and rejection (`SentIsApproved`, `NoneIsStuck`). The instance keeps all of
  these apart; the theorems ask only for those named. Two creations can store two live
  offers; a rejection that overlaps an approval, or an acceptance that overlaps a
  decline, a withdrawal or a second send, overwrites whatever the other wrote; a
  rejection that stops after it marked its row lets the others approve the offer all the
  same. A checklist that stopped between two tasks stays partial.
* `OverMeansAnswered` and `ScheduledIsAnswered` are about workers that keep to the 15
  minutes and campaigns that fit in a batch. A slower worker overwrites the status
  another gave the campaign; if the limit passes between the two statements of the
  recovery a row is stranded in `sending`; a batch that leaves a failed recipient out
  can end as `sent`. `MailedOnce` holds in all of these (proved). It allows one more
  mail for each that left and was taken for failed, since the code then mails again
  unasked. Merging two recipients of a campaign can strand a row short of an answer; no
  property is about it. A cancellation that overlaps a claim is lost, and asking for
  unknown deliveries again reopens a cancelled campaign.

## 5. What is proved

TLAPS proves these for every value of the constants: any number of requests,
rows, employees, periods, any amounts, any choice of endpoints and faults.

| theorem | says | assumes |
|---|---|---|
| `PayrollRunProofs!TypeCorrect` | `Spec => []TypeOK` | the constants' ASSUMEs |
| `PayrollRunProofs!NoActiveLoanIsSettled` | `Spec => []ActiveOwes`, with every fault | where principals are edited, one request at a time or no run is taken back (`EditsMeetNoUndo`) |
| `PayrollRunProofs!NoLoanGrows` | `Spec => []OwesAtMostPrincipal`, with every fault | no principal is edited (`"updateLoan" \notin Ops`) |
| `PayrollRunProofs!SlipsAreOfTheirRun` | `Spec => []SlipsFollowRun` | one request at a time (`Alone`); `computePayroll` and `markPaid` do not stop half way |
| `PayrollRunProofs!ClaimIsPaidOnce`, `PayslipShowsClaim` | `Spec => []ClaimPaidOnce`, `Spec => []RefundShowsClaim` (its amount in whole rupees) | `Alone`; `rerunRun` and `deleteRun` do not stop half way |
| `PayrollRunProofs!PaidClaimsAreShown` | `Spec => []PaidClaimOnPayslip` | `Alone`; claims are paid by payroll and taken back with their run (`PayrollPays`) |
| `PayrollRunProofs!LedgerIsBalanced`, `TakingBackGivesBack` | `Spec => []LedgerBalanced` (to the paisa while owed, within half a rupee once settled), `Spec => []UndoneOwesAll` | `Alone`; loans change by payroll only, computations do not stop half way, runs of one month (`PayrollLends`) |
| `PayoutProofs!TypeCorrect` | `Spec => []TypeOK` | the constants' ASSUMEs |
| `PayoutProofs!DisbursesOnce` | `Spec => []SlipPaidOnce`, with every fault | no retries (`"retryPayout" \notin Ops`) |
| `PayoutProofs!RetriesPayOnce` | `Spec => []PaidOnceWhileKeyFits`, however often retries are retried | one call at a time (`OneAtATime`), no answer or write is lost and no handler stops (`NothingIsLost`), the run is disbursed once |
| `PayoutProofs!ProcessedMeansPaid` | `Spec => []ProcessedIsPaid`, with every fault | with retries, one call at a time |
| `PayoutProofs!PayoutsHaveRows` | `Spec => []PayoutsTracked`, of payouts whose key fits | `NothingIsLost`; with retries, as `RetriesPayOnce` |
| `PayoutProofs!PaidToCurrentAccount` | `Spec => PaysCurrentAccount`, with every fault | where bank details are edited, one call at a time |
| `LeaveLedgerProofs!TypeCorrect` | `Spec => []TypeOK`: no balance is ever negative | the constants' ASSUMEs |
| `LeaveLedgerProofs!OneAtATime` | `Spec => []NoDayTwice` | one request at a time (`Alone`) |
| `LeaveLedgerProofs!UsedIsRight`, `BalanceIsRight`, `LeaveRowsAreRight` | `Spec => []UsedIsApproved`, `Spec => []BalanceIsWhatIsLeft`, `Spec => []LeaveRowIsApproved` | one request at a time |
| `SubscriptionProofs!TypeCorrect` | `Spec => []TypeOK` | the constants' ASSUMEs |
| `SubscriptionProofs!OverBookedAtMost` | `Spec => []OverBookedByRacesOnly`, with every fault, the administrator, the sweep and billing | one limit `n` is ever asked for, and no operation that takes seats beyond it (`OneLimit(n)`) |
| `SeatPoolProofs!UsedSeatsAreExact` | `Spec => []UsedSeatsExact` | one request at a time (`OneByOne(p)`) |
| `SeatPoolProofs!ImplementsSeatPool` | `Spec => KeepsSeatPool`: `Subscription` implements `SeatPool` | one request at a time |
| `SeatPoolProofs!NeverOverBooked` | `Spec => []OverBookedByRacesOnly`, whatever limits are asked for | one request at a time |
| `OffersProofs!TypeCorrect` | `Spec => []TypeOK` | the constants' ASSUMEs |
| `OffersProofs!OneOfferIsLive` | `Spec => []OneLiveOffer`, whatever stops | nothing overlaps a creation |
| `OffersProofs!HiredMeansAccepted` | `Spec => []HiredIsAccepted`, whatever stops | nothing overlaps a creation, a sending, a withdrawal or a refusal by the candidate |
| `OffersProofs!WhatIsSentIsApproved` | `Spec => []SentIsApproved` | nothing overlaps a submission or a rejection; no rejection stops half way |
| `OffersProofs!NoRoundIsStuck` | `Spec => []NoneIsStuck` | the same, and no approval stops half way |
| `CampaignsProofs!TypeCorrect` | `Spec => []TypeOK`: nobody is tried more than `MaxAttempts` times | the constants' ASSUMEs |
| `CampaignsProofs!NeverMailedTwice` | `Spec => []MailedOnce`, with every fault: at most one mail, and one for each retry asked for and each mail that left and was taken for failed | the constants' ASSUMEs |
| `CampaignsProofs!OverIsAnswered` | `Spec => []OverMeansAnswered` | no worker outlives its 15 minutes, a batch has room for every recipient (`InTime`) |

The assumptions say when the code keeps its promise, and section 4 what happens
without them: without transactions and locks most of these properties do break
when two requests overlap. A theorem asks only for what its proof needs, so it
often covers more than the run: any number of runs and periods, of payslips and
lines, of approvers and rounds; in `Offers` all the overlaps that the instance
rules out and the property survives.

The arguments:

* **Types.** `TypeOK` alone is not inductive: a handler writes values it read
  long before. `TypeInv` adds that a handler is `WellPlaced`, that is, at the
  statement where it stands it knows the run, employee, payslip, key, account or
  row that the rest of it uses.
* **Active loans owe something.** `OweInv`: a line of a computation or a payslip is of
  a loan that owed something when it was read, so that what is written back is never
  zero; what a repayment leaves is completed or owes something, whatever the row
  says by then; and an edit that found the loan settled does not meet it active
  (`EditStands`). Only `rerunRun` and `deleteRun` make a loan active again, which is
  why they and edits must not overlap.
* **Loans, whatever overlaps.** `LedgerInv` adds `LinesSound`: every snapshot, on a
  payslip or in a handler, was taken from an active loan of the same principal that
  owed something and not more than was lent. It is needed because a snapshot can be
  written back at any later time, by any handler, after any failure; it is kept
  because principals do not change and a snapshot of an active row of a ledger
  that is sound is sound. That a write is then harmless is `LoanWritesSound`.
* **Runs, one request at a time.** `RunInv`: the handler finds its run as it left it;
  a stored payslip is of a run that is computed, or of the one being computed, and
  there is one for an employee. `PaidInv` adds which of them are paid.
* **Claims.** `ClaimInv`: a claim on a payslip is on no other and cannot be edited or
  paid again, unless its run is being taken back, in which case the handler still
  holds the line until it has restored the claim; a claim in the hands of a
  computation is on no payslip. `PayInv` adds the month, and that a paid claim is on
  a payslip or in the hands of the computation that pays it.
* **The ledger.** `LoanInv` looks at one loan: it owes all that was lent, or one
  line of one payslip (or of the computation) took the difference, or took the
  rounded rest, up to half a rupee more, and settled it. That is enough because a
  month has one run. The equations over all loans follow with the lemmas
  on sums below.
* **Sums.** `SumTheorems` shows that a fold over a finite set of amounts adds up in
  any order: taking an element out takes its amount out (`SumWithout`), equal amounts
  have equal sums. The library's induction theorems cannot be used here; each lemma
  looks instead at a subset of least size for which it fails, and takes one element
  out of it.
* **Payouts under their own key.** `OnceInv`: every payout was asked for under the
  payslip's own key and Razorpay has one payout per key. The rows do not occur in it:
  what `disburseRun` reads and writes in `payroll_payouts` makes it cheaper to repeat,
  and is not what makes it safe. `retryPayout` gives up just that key, which is why
  `DisbursesOnce` excludes it.
* **What rows say of payouts.** Every step moves payouts along their life cycle only
  (`PayoutsOnward`) and no row goes away (`RowsOnward`). So what an event, a row or
  a handler says of a payout in a final state stays true (`TruthInv`), however late
  and out of order it is written. The row must still be of that payout when the event
  is applied: without retries it is, as a row's payout is the one of its key
  (`KeyInv`); a retry puts another payout in the row, and so must not overlap.
* **Retries.** `SingleInv`: a payslip has one row, which names its live payout if the
  key of that payout fits; and the keys of a payslip are told apart by their stamps,
  which the clock has passed. A retry that starts from a row that may be retried then
  meets no live payout whose key fits, and asks under a fresh key. A key that does
  not fit never gets into a row, so it takes no row away from another payout.
  `TrackInv` is the part that is kept without any of this where nothing is lost.
* **Accounts.** `AccountInv`: a handler about to pay has the account of the profile in
  its hands, since `ensureFundAccount` compares fingerprints. It holds from that
  comparison to the payout as long as no edit comes between.
* **Leave, no day twice.** `DayInv` adds `StillTrue`: what a handler found out about the
  other applications still holds when it writes. With a second request it does not,
  which is how two applications for one day are stored.
* **Leave, the books.** `BooksInv`: `total_used` is the sum of what is approved, but for
  the one application that the handler has approved and not yet charged, or cancelled
  and not yet credited (`UsedAdds`); `balance` is the rest of the allocation
  (`BalanceAdds`), where `Covered` says that what is about to be charged fits, so that
  the floor at zero cuts nothing off; the row the handler is about to write is the
  stored one with its change (`Computed`); and each `on_leave` day is of an approved
  application, unless a cancellation is about to clear it (`GridBacked`).
* **Seats.** `RoomForAll(n)`: the seats of a module and the requests that have
  passed the count of it (`Past`) are together at most `n + |Procs| - 1`, which is
  what the property says with the limit the row has. It is kept
  because a request that passes has counted fewer than `n` seats, and all that
  have passed before it are other processes. It needs `LimitKnown(n)` (every row
  and every limit a handler has read is `n`) and `Subscribed` (a handler past its
  first read has a subscription).
* **Pools.** `PoolInv(p)`: the row of an open module counts its seats exactly, but
  for the request that stands between a seat and its count; a module that is not
  open has no seats, unless the request is about to delete them; a user has one
  seat per module; and (`StillTrue`) what the request has found out still holds.
  The last is what a second request, the sweep, the administrator and billing
  break, so `OneByOne(p)` has none of them, and no crash. Every step is then one
  action of the pool or none: `UpdateKeeps`, for one, shows that the limit
  `updateSubscription` checks against `used_seats` is not below the users who
  hold a seat, which is what `Resize` asks for. `NeverOverBooked` then looks at the
  pool only: no action of it puts an open pool over its limit (`PoolWithin`), and as
  a user has one seat there are as many seats as holders; a request that is about to
  insert a seat has counted one less than the limit.
* **Live offers.** `LiveInv`: of an application at most one offer is live or engaged,
  that is, dead but in the hands of a request that read it alive and will write its
  status again. Only a creation adds one, after it has seen that there is none.
* **Hiring.** `HireInv` says which statuses a handler that is about to write may still
  meet: an operation of those named is alone and finds the offer as it read it, and
  an approval never finds it sent.
* **Rounds.** `RoundInv`: a round has asked somebody, and nobody in it has rejected
  unless the rejection is still moving the offer back; an offer past its approval has
  approvals only; ids are of one offer, so that a vote cannot hit another round.
  `StuckInv` adds that whoever took away the last pending row is still to move the
  offer on: approvals mark first and look afterwards, so the last to look sees all.
* **Mails.** `Bounded`: for each recipient of each campaign, the mails that arrived,
  the workers that still hold its row for a mail, and 1 if the row may be claimed
  again are together at most `1 + retries + unrecorded`. Claiming turns the last
  into the second and sending the second into the first; recovery gives a row up
  instead of opening it, and what opens one again is counted on the right. The
  status of the campaign does not occur in it: the claim of the campaign makes
  sending orderly and is not what makes it safe.
* **Campaigns that are over.** `AnswerInv`, until deliveries are asked for again: one
  worker at most sends a campaign, and while it does the campaign is neither open nor
  given up (`OneSender`); the rows that may still be mailed are on its list, unless a
  mail has failed and it will say `partial` anyway; and what its three counts have
  told it is still so (`Told`), as nobody else changes the rows. A cancellation that
  comes in between changes the status only, and `Finish` overwrites it.

## 6. What is only model-checked

Every invariant and every action property of the passing runs is proved, and the
instances those runs check are among those the theorems are about. What remains with
TLC are the liveness properties (`UsedSeatsHeal`, `TrialsEnd`, `HireGetsChecklist`,
`ScheduledIsAnswered`), which are out of the prover's reach, as is ENABLED.

## 7. What is not modelled

Parts 6 to 8 of the plan, and automations, for now. Not planned: payslip
arithmetic and taxes (sequential decimal functions, tested as such), tax
declarations, exit, benefits, insurance, bank files and reports (single rows or
read-only), applications, interviews and jobs (single rows and language models),
forum, chat, helpdesk, survey and the like (rows that nothing relates to
another), assistants, legacy kiosks, imports, the web application.
`PROJECT.json` lists each with its reason.
