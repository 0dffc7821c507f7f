----------------------------- MODULE Subscription -----------------------------
(***************************************************************************)
(* The module subscriptions of one organization and their seats            *)
(* (apps/core-api: subscription.service.ts, trial-expiration.service.ts,   *)
(* module-sync.service.ts, subscription-admin.service.ts,                  *)
(* billing/webhook-handler.service.ts).                                    *)
(*                                                                         *)
(* org_subscriptions is unique on (organization, module) and its rows are  *)
(* never deleted, so a module stands for its row.  Handlers stop at every  *)
(* await that another request can use.  emp-billing is external: it learns *)
(* of a subscription by a best-effort post and may then report anything.   *)
(* Plan tiers, prices and periods are left out.                            *)
(***************************************************************************)
EXTENDS Integers, FiniteSets

CONSTANTS
  Procs,      \* concurrent requests
  Modules,
  Users,
  Limits,     \* the values of total_seats that are asked for
  Trials,     \* whether subscriptions begin with a trial: TRUE, FALSE or both
  Patches,    \* the bodies updateSubscription is called with
  Ops,        \* the operations in use
  Faults,     \* what may go wrong
  Inserts,    \* bound: how many seat rows are ever inserted
  Reports,    \* bound: how many events emp-billing sends
  None        \* no module, no user, no seat, nothing in a field of a body

AllOps == {"create", "onboard", "update", "cancel", "admin", "assign", "seatAdded",
           "autoAssign", "biometric", "revoke", "seatRemoved", "sync", "sweep", "billing"}
AllFaults == {"crash",  \* a handler stops between two statements
              "lost",   \* a post does not reach emp-billing
              "broken"} \* the sweep fails to update a row
SubStatus == {"trial", "active", "past_due", "suspended", "cancelled"}

\* total = 0 is a body without total_seats; upgrade is a higher tier or a longer cycle.
Patch == [total : Nat, upgrade : BOOLEAN, status : SubStatus \cup {None}]

ASSUME FiniteAssumption == IsFiniteSet(Procs) /\ IsFiniteSet(Users)
ASSUME LimitsAssumption == Limits \subseteq Nat /\ Trials \subseteq BOOLEAN /\ Patches \subseteq Patch
ASSUME OpsAssumption == Ops \subseteq AllOps /\ Faults \subseteq AllFaults
ASSUME BoundsAssumption == Inserts \in Nat /\ Reports \in Nat
ASSUME NoneAssumption == None \notin Modules \cup Users \cup SubStatus

VARIABLES
  subs,     \* org_subscriptions
  seats,    \* org_module_seats
  lastId,   \* the last id of org_module_seats
  posts,    \* subscription.created posts on their way to emp-billing
  mapped,   \* billing_subscription_mappings
  reports,  \* events of emp-billing so far
  sweep,    \* the rows the running trial sweep has still to do
  req       \* the handler of each process

vars == <<subs, seats, lastId, posts, mapped, reports, sweep, req>>
seatVars == <<seats, lastId>>
billingVars == <<posts, mapped, reports>>

-----------------------------------------------------------------------------
(* Rows and handlers *)

\* "none" is no row; ends is trial_ends_at against the clock.
Sub == [status : SubStatus \cup {"none"}, total : Nat, used : Int, ends : {"never", "ahead", "past"}]
Absent == [status |-> "none", total |-> 0, used |-> 0, ends |-> "never"]

\* At most one row per module and user.
Seat == [module : Modules, user : Users, id : Nat]

\* known, total and used are what the handler read; count is what it counted.
Idle == [op |-> "idle", at |-> "idle", module |-> None, user |-> None, seat |-> None,
         patch |-> None, known |-> "none", total |-> 0, used |-> 0, count |-> 0]

Places == {"idle", "write", "patch", "evict", "limit", "seated", "count", "grow", "insert",
           "add", "delete", "subtract", "tally", "correct"}
Request == [op : AllOps \cup {"idle"}, at : Places, module : Modules \cup {None},
            user : Users \cup {None}, seat : Seat \cup {None}, patch : Patch \cup {None},
            known : SubStatus \cup {"none"}, total : Nat, used : Int, count : Nat]

Free(p, op) == op \in Ops /\ req[p] = Idle
Becomes(p, handler) == req' = [req EXCEPT ![p] = handler]
GoTo(p, at) == Becomes(p, [req[p] EXCEPT !.at = at])
Respond(p) == Becomes(p, Idle)

Exists(m) == subs[m].status # "none"
Open(m) == subs[m].status \in {"active", "trial"}
SeatsOf(m) == {s \in seats : s.module = m}
Holders(m) == {s.user : s \in SeatsOf(m)}

Init ==
  /\ subs = [m \in Modules |-> Absent]
  /\ seats = {} /\ lastId = 0
  /\ posts = {} /\ mapped = {} /\ reports = 0
  /\ sweep = {}
  /\ req = [p \in Procs |-> Idle]

-----------------------------------------------------------------------------
(* Subscribing *)

\* (Names ending in a word after _ are slips of the definition that follows them:
\* the properties are checked to notice each.)
Fresh(n, trial) ==
  [status |-> IF trial THEN "trial" ELSE "active", total |-> n, used |-> 0,
   ends |-> IF trial THEN "ahead" ELSE "never"]

\* Nothing is posted where emp-billing is not configured.
Announce(m) == posts' = IF "billing" \in Ops THEN posts \cup {m} ELSE posts

\* createSubscription refuses and onboarding skips a module whose row is not cancelled.
BeginCreate(p, op, m) ==
  /\ Free(p, op) /\ subs[m].status \in {"none", "cancelled"}
  /\ Becomes(p, [Idle EXCEPT !.op = op, !.at = "write", !.module = m, !.known = subs[m].status])
  /\ UNCHANGED <<subs, seatVars, billingVars, sweep>>

Reactivated_KeepsUsed(sub, n, trial) == [Fresh(n, trial) EXCEPT !.used = sub.used]
Reactivated(sub, n, trial) == Fresh(n, trial)

\* INSERT, or UPDATE of the cancelled row createSubscription found.
WriteCreate(p, n, trial) ==
  LET r == req[p]
      m == r.module
  IN /\ r.at = "write"
     /\ IF ~Exists(m)
          THEN subs' = [subs EXCEPT ![m] = Fresh(n, trial)]
          ELSE IF r.op = "create" /\ r.known = "cancelled"
            THEN subs' = [subs EXCEPT ![m] = Reactivated(@, n, trial)]
            ELSE UNCHANGED subs
     \* A duplicate is a conflict; onboarding goes on with the row that won.
     /\ IF r.op = "create" /\ r.known = "none" /\ Exists(m) THEN UNCHANGED posts ELSE Announce(m)
     /\ Respond(p)
     /\ UNCHANGED <<seatVars, mapped, reports, sweep>>

BeginUpdate_Unchecked(p, m, patch) ==
  /\ Free(p, "update") /\ Exists(m)
  /\ Becomes(p, [Idle EXCEPT !.op = "update", !.at = "patch", !.module = m, !.patch = patch,
                              !.known = subs[m].status, !.total = subs[m].total])
  /\ UNCHANGED <<subs, seatVars, billingVars, sweep>>
\* total_seats is compared with used_seats, not with the seats.
BeginUpdate(p, m, patch) ==
  /\ Free(p, "update") /\ Exists(m)
  /\ patch.total = 0 \/ patch.total >= subs[m].used
  /\ Becomes(p, [Idle EXCEPT !.op = "update", !.at = "patch", !.module = m, !.patch = patch,
                              !.known = subs[m].status, !.total = subs[m].total])
  /\ UNCHANGED <<subs, seatVars, billingVars, sweep>>

\* More of anything ends a trial at once.
EndsTrial(r) == r.known = "trial" /\ (r.patch.total > r.total \/ r.patch.upgrade)

Patched_Null(sub, r) ==
  [sub EXCEPT !.total = IF r.patch.total = 0 THEN None ELSE r.patch.total,
              !.status = IF EndsTrial(r) THEN "active"
                         ELSE IF r.patch.status = None THEN @ ELSE r.patch.status,
              !.ends = IF EndsTrial(r) THEN "never" ELSE @]
Patched(sub, r) ==
  [sub EXCEPT !.total = IF r.patch.total = 0 THEN @ ELSE r.patch.total,
              !.status = IF EndsTrial(r) THEN "active"
                         ELSE IF r.patch.status = None THEN @ ELSE r.patch.status,
              !.ends = IF EndsTrial(r) THEN "never" ELSE @]

WriteUpdate(p) ==
  /\ req[p].at = "patch"
  /\ subs' = [subs EXCEPT ![req[p].module] = Patched(@, req[p])]
  /\ Respond(p)
  /\ UNCHANGED <<seatVars, billingVars, sweep>>

Cancel(p, m) ==
  /\ Free(p, "cancel") /\ Exists(m)
  /\ subs' = [subs EXCEPT ![m].status = "cancelled"]
  /\ Becomes(p, [Idle EXCEPT !.op = "cancel", !.at = "evict", !.module = m])
  /\ UNCHANGED <<seatVars, billingVars, sweep>>

Evict_Nobody(p) ==
  /\ req[p].at = "evict"
  /\ Respond(p)
  /\ UNCHANGED <<subs, seatVars, billingVars, sweep>>
Evict(p) ==
  /\ req[p].at = "evict"
  /\ seats' = seats \ SeatsOf(req[p].module)
  /\ Respond(p)
  /\ UNCHANGED <<subs, lastId, billingVars, sweep>>

\* The platform administrator sets a status or a limit, with no check at all.
AdminUpdate(m) ==
  /\ "admin" \in Ops /\ Exists(m)
  /\ \/ \E status \in SubStatus : subs' = [subs EXCEPT ![m].status = status]
     \/ \E n \in Limits : subs' = [subs EXCEPT ![m].total = n]
  /\ UNCHANGED <<seatVars, billingVars, sweep, req>>

-----------------------------------------------------------------------------
(* Taking a seat: assignSeat and enableUserForModule, the seat webhook, the   *)
(* seat of a new payroll user, the seat of an enrolled face                   *)

SeatOps == {"assign", "seatAdded", "autoAssign", "biometric"}

FirstCheck(op) == IF op = "assign" THEN "limit" ELSE "seated"
AfterLimit(op) == IF op = "assign" THEN "seated" ELSE "insert"
AfterSeated(op) ==
  CASE op = "seatAdded" -> "limit"
    [] op = "biometric" -> "count"
    [] OTHER -> "insert"

Inserting == {p \in Procs : req[p].op \in SeatOps /\ req[p].at # "add"}

BeginSeat(p, op, m, u) ==
  /\ Free(p, op) /\ Open(m) /\ lastId + Cardinality(Inserting) < Inserts
  /\ Becomes(p, [Idle EXCEPT !.op = op, !.at = FirstCheck(op), !.module = m, !.user = u,
                              !.total = subs[m].total])
  /\ UNCHANGED <<subs, seatVars, billingVars, sweep>>

CheckLimit_OffByOne(p) ==
  LET r == req[p]
  IN /\ r.at = "limit"
     /\ IF Cardinality(SeatsOf(r.module)) > r.total THEN Respond(p) ELSE GoTo(p, AfterLimit(r.op))
     /\ UNCHANGED <<subs, seatVars, billingVars, sweep>>
CheckLimit(p) ==
  LET r == req[p]
  IN /\ r.at = "limit"
     /\ IF Cardinality(SeatsOf(r.module)) >= r.total THEN Respond(p) ELSE GoTo(p, AfterLimit(r.op))
     /\ UNCHANGED <<subs, seatVars, billingVars, sweep>>

CheckSeated(p) ==
  LET r == req[p]
  IN /\ r.at = "seated"
     /\ IF r.user \in Holders(r.module) THEN Respond(p) ELSE GoTo(p, AfterSeated(r.op))
     /\ UNCHANGED <<subs, seatVars, billingVars, sweep>>

\* ensureBiometricSeat: a full plan grows by the seat that is needed.
CountSeats(p) ==
  LET r == req[p]
      n == Cardinality(SeatsOf(r.module))
  IN /\ r.at = "count"
     /\ Becomes(p, [r EXCEPT !.at = IF n >= r.total THEN "grow" ELSE "insert", !.count = n])
     /\ UNCHANGED <<subs, seatVars, billingVars, sweep>>

Grow(p) ==
  /\ req[p].at = "grow"
  /\ subs' = [subs EXCEPT ![req[p].module].total = req[p].count + 1]
  /\ GoTo(p, "insert")
  /\ UNCHANGED <<seatVars, billingVars, sweep>>

\* A duplicate of (module, user) is refused.
InsertSeat(p) ==
  LET r == req[p]
      new == [module |-> r.module, user |-> r.user, id |-> lastId + 1]
  IN /\ r.at = "insert"
     /\ IF r.user \in Holders(r.module)
          THEN Respond(p) /\ UNCHANGED seatVars
          ELSE /\ seats' = seats \cup {new} /\ lastId' = lastId + 1
               /\ GoTo(p, "add")
     /\ UNCHANGED <<subs, billingVars, sweep>>

AddUsed(p) ==
  /\ req[p].at = "add"
  /\ subs' = [subs EXCEPT ![req[p].module].used = @ + 1]
  /\ Respond(p)
  /\ UNCHANGED <<seatVars, billingVars, sweep>>

-----------------------------------------------------------------------------
(* Giving a seat up: revokeSeat and disableUserForModule; the seat webhook and *)
(* releaseBiometricSeat, which want an open subscription                       *)

BeginRevoke(p, op, s) ==
  /\ Free(p, op)
  /\ op = "seatRemoved" => Open(s.module)
  /\ Becomes(p, [Idle EXCEPT !.op = op, !.at = "delete", !.module = s.module, !.seat = s])
  /\ UNCHANGED <<subs, seatVars, billingVars, sweep>>

\* By id: of two requests for one seat the second deletes nothing.
DeleteSeat(p) ==
  /\ req[p].at = "delete"
  /\ seats' = seats \ {req[p].seat}
  /\ GoTo(p, "subtract")
  /\ UNCHANGED <<subs, lastId, billingVars, sweep>>

SubtractUsed(p) ==
  /\ req[p].at = "subtract"
  /\ subs' = [subs EXCEPT ![req[p].module].used = @ - 1]
  /\ Respond(p)
  /\ UNCHANGED <<seatVars, billingVars, sweep>>

-----------------------------------------------------------------------------
(* syncUsedSeats, whenever subscriptions are listed or a module is entered *)

BeginSync(p, m) ==
  /\ Free(p, "sync") /\ Open(m)
  /\ Becomes(p, [Idle EXCEPT !.op = "sync", !.at = "tally", !.module = m, !.used = subs[m].used])
  /\ UNCHANGED <<subs, seatVars, billingVars, sweep>>

Tally(p) ==
  LET r == req[p]
  IN /\ r.at = "tally"
     /\ Becomes(p, [r EXCEPT !.at = "correct", !.count = Cardinality(SeatsOf(r.module))])
     /\ UNCHANGED <<subs, seatVars, billingVars, sweep>>

Correct_OnlyUpwards(p) ==
  LET r == req[p]
  IN /\ r.at = "correct"
     /\ IF r.used < r.count
          THEN subs' = [subs EXCEPT ![r.module].used = r.count]
          ELSE UNCHANGED subs
     /\ Respond(p)
     /\ UNCHANGED <<seatVars, billingVars, sweep>>
Correct(p) ==
  LET r == req[p]
  IN /\ r.at = "correct"
     /\ IF r.used # r.count
          THEN subs' = [subs EXCEPT ![r.module].used = r.count]
          ELSE UNCHANGED subs
     /\ Respond(p)
     /\ UNCHANGED <<seatVars, billingVars, sweep>>

-----------------------------------------------------------------------------
(* The hourly sweep of trials *)

TrialRunsOut(m) ==
  /\ subs[m].ends = "ahead"
  /\ subs' = [subs EXCEPT ![m].ends = "past"]
  /\ UNCHANGED <<seatVars, billingVars, sweep, req>>

Expired_Direction == {m \in Modules : subs[m].status = "trial" /\ subs[m].ends = "ahead"}
Expired == {m \in Modules : subs[m].status = "trial" /\ subs[m].ends = "past"}

StartSweep ==
  /\ "sweep" \in Ops /\ sweep = {} /\ Expired # {}
  /\ sweep' = Expired
  /\ UNCHANGED <<subs, seatVars, billingVars, req>>

\* The row is written whatever its status is by now.
ExpireTrial(m) ==
  /\ m \in sweep
  /\ subs' = [subs EXCEPT ![m].status = "active", ![m].ends = "never"]
  /\ sweep' = sweep \ {m}
  /\ UNCHANGED <<seatVars, billingVars, req>>

\* The error is logged and the sweep goes on; the row is found again an hour later.
SkipBroken(m) ==
  /\ "broken" \in Faults /\ m \in sweep
  /\ sweep' = sweep \ {m}
  /\ UNCHANGED <<subs, seatVars, billingVars, req>>

-----------------------------------------------------------------------------
(* emp-billing *)

PostArrives(m) ==
  /\ m \in posts /\ posts' = posts \ {m}
  /\ \/ mapped' = mapped \cup {m}
     \/ "lost" \in Faults /\ UNCHANGED mapped
  /\ UNCHANGED <<subs, seatVars, reports, sweep, req>>

\* subscription.renewed, invoice.paid, subscription.cancelled, payment_failed and
\* invoice.overdue: acknowledged before they are handled, so they come in any order.
Reported(status) ==
  (IF status \in {"past_due", "suspended"} THEN {"active"} ELSE {})
  \cup (IF status \in {"past_due", "trial"} THEN {"active"} ELSE {})
  \cup {"cancelled", "past_due"}

BillingReports(m) ==
  /\ "billing" \in Ops /\ m \in mapped /\ reports < Reports
  /\ reports' = reports + 1
  /\ \E status \in Reported(subs[m].status) : subs' = [subs EXCEPT ![m].status = status]
  /\ UNCHANGED <<seatVars, posts, mapped, sweep, req>>

Crash(p) ==
  /\ "crash" \in Faults /\ req[p] # Idle
  /\ Respond(p)
  /\ UNCHANGED <<subs, seatVars, billingVars, sweep>>

-----------------------------------------------------------------------------
(* The specification *)

Begin(p) ==
  \E m \in Modules :
    \/ \E op \in {"create", "onboard"} : BeginCreate(p, op, m)
    \/ \E patch \in Patches : BeginUpdate(p, m, patch)
    \/ Cancel(p, m)
    \/ \E op \in SeatOps, u \in Users : BeginSeat(p, op, m, u)
    \/ \E op \in {"revoke", "seatRemoved"}, s \in SeatsOf(m) : BeginRevoke(p, op, s)
    \/ BeginSync(p, m)

Continue(p) ==
  \/ \E n \in Limits, trial \in Trials : WriteCreate(p, n, trial)
  \/ WriteUpdate(p) \/ Evict(p)
  \/ CheckLimit(p) \/ CheckSeated(p) \/ CountSeats(p) \/ Grow(p) \/ InsertSeat(p) \/ AddUsed(p)
  \/ DeleteSeat(p) \/ SubtractUsed(p)
  \/ Tally(p) \/ Correct(p)

SweepStep == \E m \in Modules : ExpireTrial(m) \/ SkipBroken(m)

Next ==
  \/ \E p \in Procs : Begin(p) \/ Continue(p) \/ Crash(p)
  \/ StartSweep \/ SweepStep
  \/ \E m \in Modules : AdminUpdate(m) \/ TrialRunsOut(m) \/ PostArrives(m) \/ BillingReports(m)

Spec == Init /\ [][Next]_vars

\* Time passes, the interval timer fires, the update of a row does not fail every
\* hour, and a process goes on with what it began; nobody has to send a request.
Fairness ==
  /\ \A p \in Procs : WF_vars(Continue(p))
  /\ \A m \in Modules : WF_vars(TrialRunsOut(m)) /\ SF_vars(ExpireTrial(m))
  /\ WF_vars(StartSweep) /\ WF_vars(SweepStep)

FairSpec == Spec /\ Fairness

-----------------------------------------------------------------------------
(* Properties *)

TypeOK ==
  /\ subs \in [Modules -> Sub]
  /\ seats \subseteq Seat /\ IsFiniteSet(seats) /\ lastId \in Nat
  /\ posts \subseteq Modules /\ mapped \subseteq Modules /\ reports \in Nat
  /\ sweep \subseteq Modules
  /\ req \in [Procs -> Request]

\* Who has seen room for a seat of m and has not taken it yet.
Past(m) ==
  {p \in Procs : /\ req[p].module = m
                 /\ \/ req[p].op \in SeatOps /\ req[p].at = "insert"
                    \/ req[p].op = "assign" /\ req[p].at = "seated"}

\* Requests that race for the last seat (#1461) can all pass the count, although
\* assignSeat counts the rows so that used_seats need not be trusted; but no more
\* than one each: with N at a time the seats of a module whose limit is not
\* changed, those still to be taken among them, are at most N - 1 too many, and
\* with one at a time none is.
OverBookedByRacesOnly ==
  \A m \in Modules :
    Open(m) => Cardinality(SeatsOf(m)) + Cardinality(Past(m)) <= subs[m].total + Cardinality(Procs) - 1

At(place, m) == Cardinality({p \in Procs : req[p].at = place /\ req[p].module = m})

\* used_seats, which updateSubscription and the dashboard trust, is the number of
\* seats of an open subscription, but for the handlers between a seat and its count.
UsedSeatsExact ==
  \A m \in Modules :
    Open(m) => subs[m].used + At("add", m) = Cardinality(SeatsOf(m)) + At("subtract", m)

\* One request at a time, an organization gets what SeatPool promises.
Pool == INSTANCE SeatPool WITH
          open <- [m \in Modules |-> Open(m)],
          capacity <- [m \in Modules |-> subs[m].total],
          holders <- [m \in Modules |-> Holders(m)]
KeepsSeatPool == Pool!Spec

\* Every trial ends: the sweep converts it, however often the update of its row
\* fails, unless something else ends it first.
TrialsEnd ==
  \A m \in Modules : subs[m].status = "trial" /\ subs[m].ends # "never" ~> subs[m].status # "trial"

SyncEnds(m) == \E p \in Procs : req[p].module = m /\ Correct(p)

\* However requests race and wherever they stop, used_seats of a subscription that
\* stays open and is looked at again and again ends up right (#1191).
UsedSeatsHeal ==
  \A m \in Modules :
    <>[]Open(m) /\ []<><<SyncEnds(m)>>_vars => <>[](subs[m].used = Cardinality(SeatsOf(m)))
===============================================================================
