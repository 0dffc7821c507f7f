-------------------------- MODULE SubscriptionProofs --------------------------
(***************************************************************************)
(* Theorems of Subscription, for any finite number of requests and users   *)
(* and any number of modules.                                              *)
(***************************************************************************)
EXTENDS Subscription, FiniteSetTheorems, TLAPS

\* A handler knows its module, and at these places its user or its body.
SeatPlaces == {"limit", "seated", "count", "grow", "insert"}
WellPlaced(handler) ==
  /\ handler.at # "idle" => handler.module \in Modules
  /\ handler.at \in SeatPlaces => handler.user \in Users
  /\ handler.at = "patch" => handler.patch \in Patch

Handler == {handler \in Request : WellPlaced(handler)}

TypeInv ==
  /\ subs \in [Modules -> Sub]
  /\ seats \subseteq Seat /\ IsFiniteSet(seats) /\ lastId \in Nat
  /\ posts \subseteq Modules /\ mapped \subseteq Modules /\ reports \in Nat
  /\ sweep \subseteq Modules
  /\ req \in [Procs -> Handler]

-----------------------------------------------------------------------------
(* Type correctness *)

LEMMA IdleType == Idle \in Handler
BY DEF Idle, Handler, WellPlaced, Request, Places, SeatPlaces

LEMMA BecomesType ==
  ASSUME TypeInv, NEW p \in Procs, NEW handler \in Handler, Becomes(p, handler)
  PROVE  req' \in [Procs -> Handler]
BY DEF TypeInv, Becomes

LEMMA RespondType ==
  ASSUME TypeInv, NEW p \in Procs, Respond(p)
  PROVE  req' \in [Procs -> Handler]
BY IdleType, BecomesType DEF Respond

LEMMA GoToType ==
  ASSUME TypeInv, NEW p \in Procs, NEW at \in Places \ {"patch"}, req[p].at # "idle",
         at \in SeatPlaces => req[p].user \in Users, GoTo(p, at)
  PROVE  req' \in [Procs -> Handler]
<1>1. req[p] \in Handler
  BY DEF TypeInv
<1>2. [req[p] EXCEPT !.at = at] \in Handler
  BY <1>1 DEF Handler, WellPlaced, Request
<1> QED BY <1>2, BecomesType DEF GoTo

\* One column of the row changes.
LEMMA ColumnType ==
  ASSUME TypeInv, NEW m \in Modules
  PROVE  /\ \A status \in SubStatus : [subs[m] EXCEPT !.status = status] \in Sub
         /\ \A n \in Nat : [subs[m] EXCEPT !.total = n] \in Sub
         /\ \A n \in Int : [subs[m] EXCEPT !.used = n] \in Sub
         /\ \A ends \in {"never", "ahead", "past"} : [subs[m] EXCEPT !.ends = ends] \in Sub
<1>1. subs[m] \in Sub
  BY DEF TypeInv
<1> QED BY <1>1 DEF Sub

LEMMA SeatsOfFinite ==
  ASSUME TypeInv, NEW m
  PROVE  IsFiniteSet(SeatsOf(m)) /\ Cardinality(SeatsOf(m)) \in Nat /\ SeatsOf(m) \subseteq seats
<1>1. SeatsOf(m) \subseteq seats /\ IsFiniteSet(seats)
  BY DEF SeatsOf, TypeInv
<1> QED BY <1>1, FS_Subset, FS_CardinalityType

LEMMA FreshType ==
  ASSUME NEW n \in Nat, NEW trial \in BOOLEAN
  PROVE  Fresh(n, trial) \in Sub
BY DEF Fresh, Sub, SubStatus

LEMMA SubscribeType ==
  ASSUME TypeInv, NEW p \in Procs, NEW m \in Modules,
         \/ \E op \in {"create", "onboard"} : BeginCreate(p, op, m)
         \/ \E n \in Limits, trial \in Trials : WriteCreate(p, n, trial)
         \/ \E patch \in Patches : BeginUpdate(p, m, patch)
         \/ WriteUpdate(p) \/ Cancel(p, m) \/ Evict(p)
  PROVE  TypeInv'
<1> USE DEF TypeInv, seatVars, billingVars
<1>1. ASSUME NEW op \in {"create", "onboard"}, BeginCreate(p, op, m) PROVE TypeInv'
  <2>1. subs[m].status \in SubStatus \cup {"none"}
    BY DEF Sub
  <2>2. [Idle EXCEPT !.op = op, !.at = "write", !.module = m, !.known = subs[m].status] \in Handler
    <3>1. op \in AllOps /\ "write" \in Places /\ "write" \notin SeatPlaces /\ "write" # "patch"
      BY DEF AllOps, Places, SeatPlaces
    <3> QED BY <2>1, <3>1, IdleType DEF Handler, WellPlaced, Request
  <2> QED BY <1>1, <2>2, BecomesType DEF BeginCreate
<1>2. ASSUME NEW n \in Limits, NEW trial \in Trials, WriteCreate(p, n, trial) PROVE TypeInv'
  <2>1. req[p].module \in Modules
    BY <1>2 DEF WriteCreate, Handler, WellPlaced
  <2>2. Fresh(n, trial) \in Sub
    BY FreshType, LimitsAssumption
  <2>3. subs' \in [Modules -> Sub]
    BY <1>2, <2>1, <2>2 DEF WriteCreate, Reactivated
  <2>4. posts' \subseteq Modules
    BY <1>2, <2>1 DEF WriteCreate, Announce
  <2>5. req' \in [Procs -> Handler]
    BY <1>2, RespondType DEF WriteCreate
  <2> QED BY <1>2, <2>3, <2>4, <2>5 DEF WriteCreate
<1>3. ASSUME NEW patch \in Patches, BeginUpdate(p, m, patch) PROVE TypeInv'
  <2>1. subs[m].status \in SubStatus \cup {"none"} /\ subs[m].total \in Nat /\ patch \in Patch
    BY LimitsAssumption DEF Sub
  <2>2. [Idle EXCEPT !.op = "update", !.at = "patch", !.module = m, !.patch = patch,
                     !.known = subs[m].status, !.total = subs[m].total] \in Handler
    <3>1. "update" \in AllOps /\ "patch" \in Places /\ "patch" \notin SeatPlaces
      BY DEF AllOps, Places, SeatPlaces
    <3> QED BY <2>1, <3>1, IdleType DEF Handler, WellPlaced, Request
  <2> QED BY <1>3, <2>2, BecomesType DEF BeginUpdate
<1>4. CASE WriteUpdate(p)
  <2>1. req[p].module \in Modules /\ req[p].patch \in Patch
    BY <1>4 DEF WriteUpdate, Handler, WellPlaced
  <2>2. subs[req[p].module] \in Sub
    BY <2>1
  <2>3. Patched(subs[req[p].module], req[p]) \in Sub
    BY <2>1, <2>2 DEF Patched, Patch, Sub, SubStatus
  <2>4. req' \in [Procs -> Handler]
    BY <1>4, RespondType DEF WriteUpdate
  <2> QED BY <1>4, <2>1, <2>3, <2>4 DEF WriteUpdate
<1>5. CASE Cancel(p, m)
  <2>1. subs' = [subs EXCEPT ![m] = [subs[m] EXCEPT !.status = "cancelled"]]
    BY <1>5 DEF Cancel
  <2>2. subs' \in [Modules -> Sub]
    BY <2>1, ColumnType DEF SubStatus
  <2>3. [Idle EXCEPT !.op = "cancel", !.at = "evict", !.module = m] \in Handler
    <3>1. "cancel" \in AllOps /\ "evict" \in Places /\ "evict" \notin SeatPlaces
      BY DEF AllOps, Places, SeatPlaces
    <3> QED BY <3>1, IdleType DEF Handler, WellPlaced, Request
  <2> QED BY <1>5, <2>2, <2>3, BecomesType DEF Cancel
<1>6. CASE Evict(p)
  <2>1. IsFiniteSet(seats \ SeatsOf(req[p].module))
    BY FS_Subset
  <2>2. req' \in [Procs -> Handler]
    BY <1>6, RespondType DEF Evict
  <2> QED BY <1>6, <2>1, <2>2 DEF Evict
<1> QED BY <1>1, <1>2, <1>3, <1>4, <1>5, <1>6

LEMMA TakeSeatType ==
  ASSUME TypeInv, NEW p \in Procs, NEW m \in Modules,
         \/ \E op \in SeatOps, u \in Users : BeginSeat(p, op, m, u)
         \/ CheckLimit(p) \/ CheckSeated(p) \/ CountSeats(p) \/ Grow(p) \/ InsertSeat(p) \/ AddUsed(p)
  PROVE  TypeInv'
<1> USE DEF TypeInv, seatVars, billingVars
<1>1. ASSUME NEW op \in SeatOps, NEW u \in Users, BeginSeat(p, op, m, u) PROVE TypeInv'
  <2>1. subs[m].total \in Nat
    BY DEF Sub
  <2>2. [Idle EXCEPT !.op = op, !.at = FirstCheck(op), !.module = m, !.user = u,
                     !.total = subs[m].total] \in Handler
    <3>1. op \in AllOps /\ FirstCheck(op) \in Places /\ FirstCheck(op) # "patch"
      BY DEF AllOps, SeatOps, Places, FirstCheck
    <3> QED BY <2>1, <3>1, IdleType DEF Handler, WellPlaced, Request
  <2> QED BY <1>1, <2>2, BecomesType DEF BeginSeat
<1>2. req[p] \in Handler
  OBVIOUS
<1>3. CASE CheckLimit(p)
  <2>1. req[p].user \in Users /\ req[p].at # "idle" /\ AfterLimit(req[p].op) \in Places \ {"patch"}
    BY <1>2, <1>3 DEF CheckLimit, AfterLimit, Handler, WellPlaced, SeatPlaces, Places
  <2>2. req' \in [Procs -> Handler]
    BY <1>3, <2>1, GoToType, RespondType DEF CheckLimit
  <2> QED BY <1>3, <2>2 DEF CheckLimit
<1>4. CASE CheckSeated(p)
  <2>1. req[p].user \in Users /\ req[p].at # "idle" /\ AfterSeated(req[p].op) \in Places \ {"patch"}
    BY <1>2, <1>4 DEF CheckSeated, AfterSeated, Handler, WellPlaced, SeatPlaces, Places
  <2>2. req' \in [Procs -> Handler]
    BY <1>4, <2>1, GoToType, RespondType DEF CheckSeated
  <2> QED BY <1>4, <2>2 DEF CheckSeated
<1>5. CASE CountSeats(p)
  <2> DEFINE n == Cardinality(SeatsOf(req[p].module))
             at == IF n >= req[p].total THEN "grow" ELSE "insert"
  <2>1. req[p].user \in Users /\ req[p].module \in Modules
    BY <1>2, <1>5 DEF CountSeats, Handler, WellPlaced, SeatPlaces
  <2>2. n \in Nat /\ at \in Places /\ at # "patch"
    BY SeatsOfFinite DEF Places
  <2>3. Becomes(p, [req[p] EXCEPT !.at = at, !.count = n])
    BY <1>5 DEF CountSeats
  <2> HIDE DEF n, at
  <2>4. [req[p] EXCEPT !.at = at, !.count = n] \in Handler
    BY <1>2, <2>1, <2>2 DEF Handler, WellPlaced, Request
  <2> QED BY <1>5, <2>3, <2>4, BecomesType DEF CountSeats
<1>6. CASE Grow(p)
  <2>1. req[p].user \in Users /\ req[p].module \in Modules /\ req[p].count + 1 \in Nat
    BY <1>2, <1>6 DEF Grow, Handler, WellPlaced, SeatPlaces, Request
  <2>2. subs' \in [Modules -> Sub]
    BY <1>6, <2>1, ColumnType DEF Grow
  <2>3. req' \in [Procs -> Handler]
    BY <1>6, <2>1, GoToType DEF Grow, Places
  <2> QED BY <1>6, <2>2, <2>3 DEF Grow
<1>7. CASE InsertSeat(p)
  <2> DEFINE new == [module |-> req[p].module, user |-> req[p].user, id |-> lastId + 1]
  <2>1. req[p].user \in Users /\ req[p].module \in Modules
    BY <1>2, <1>7 DEF InsertSeat, Handler, WellPlaced, SeatPlaces
  <2>2. new \in Seat
    BY <2>1 DEF Seat
  <2>3. "add" \in Places \ {"patch"} /\ "add" \notin SeatPlaces
    BY DEF Places, SeatPlaces
  <2>4. req' \in [Procs -> Handler]
    BY <1>7, <2>3, GoToType, RespondType DEF InsertSeat
  <2>5. seats' = seats \/ seats' = seats \cup {new}
    BY <1>7 DEF InsertSeat
  <2>6. lastId' \in Nat
    BY <1>7 DEF InsertSeat
  <2> HIDE DEF new
  <2>7. IsFiniteSet(seats \cup {new})
    BY FS_AddElement
  <2> QED BY <1>7, <2>2, <2>4, <2>5, <2>6, <2>7 DEF InsertSeat
<1>8. CASE AddUsed(p)
  <2>1. req[p].module \in Modules
    BY <1>2, <1>8 DEF AddUsed, Handler, WellPlaced
  <2>2. subs[req[p].module].used + 1 \in Int
    BY <2>1 DEF Sub
  <2>3. subs' \in [Modules -> Sub]
    BY <1>8, <2>1, <2>2, ColumnType DEF AddUsed
  <2>4. req' \in [Procs -> Handler]
    BY <1>8, RespondType DEF AddUsed
  <2> QED BY <1>8, <2>3, <2>4 DEF AddUsed
<1> QED BY <1>1, <1>3, <1>4, <1>5, <1>6, <1>7, <1>8

LEMMA GiveSeatType ==
  ASSUME TypeInv, NEW p \in Procs, NEW m \in Modules,
         \/ \E op \in {"revoke", "seatRemoved"}, s \in SeatsOf(m) : BeginRevoke(p, op, s)
         \/ DeleteSeat(p) \/ SubtractUsed(p) \/ BeginSync(p, m) \/ Tally(p) \/ Correct(p)
  PROVE  TypeInv'
<1> USE DEF TypeInv, seatVars, billingVars
<1>1. req[p] \in Handler
  OBVIOUS
<1>2. ASSUME NEW op \in {"revoke", "seatRemoved"}, NEW s \in SeatsOf(m), BeginRevoke(p, op, s)
      PROVE  TypeInv'
  <2>1. s \in Seat /\ s.module \in Modules
    BY DEF SeatsOf, Seat
  <2>2. [Idle EXCEPT !.op = op, !.at = "delete", !.module = s.module, !.seat = s] \in Handler
    <3>1. op \in AllOps /\ "delete" \in Places /\ "delete" \notin SeatPlaces /\ "delete" # "patch"
      BY DEF AllOps, Places, SeatPlaces
    <3> QED BY <2>1, <3>1, IdleType DEF Handler, WellPlaced, Request
  <2> QED BY <1>2, <2>2, BecomesType DEF BeginRevoke
<1>3. CASE DeleteSeat(p)
  <2>1. IsFiniteSet(seats \ {req[p].seat})
    BY FS_Subset
  <2>2. "subtract" \in Places \ {"patch"} /\ "subtract" \notin SeatPlaces
    BY DEF Places, SeatPlaces
  <2>3. req' \in [Procs -> Handler]
    BY <1>3, <2>2, GoToType DEF DeleteSeat
  <2> QED BY <1>3, <2>1, <2>3 DEF DeleteSeat
<1>4. CASE SubtractUsed(p)
  <2>1. req[p].module \in Modules
    BY <1>1, <1>4 DEF SubtractUsed, Handler, WellPlaced
  <2>2. subs[req[p].module].used - 1 \in Int
    BY <2>1 DEF Sub
  <2>3. subs' \in [Modules -> Sub]
    BY <1>4, <2>1, <2>2, ColumnType DEF SubtractUsed
  <2>4. req' \in [Procs -> Handler]
    BY <1>4, RespondType DEF SubtractUsed
  <2> QED BY <1>4, <2>3, <2>4 DEF SubtractUsed
<1>5. CASE BeginSync(p, m)
  <2>1. subs[m].used \in Int
    BY DEF Sub
  <2>2. [Idle EXCEPT !.op = "sync", !.at = "tally", !.module = m, !.used = subs[m].used] \in Handler
    <3>1. "sync" \in AllOps /\ "tally" \in Places /\ "tally" \notin SeatPlaces /\ "tally" # "patch"
      BY DEF AllOps, Places, SeatPlaces
    <3> QED BY <2>1, <3>1, IdleType DEF Handler, WellPlaced, Request
  <2> QED BY <1>5, <2>2, BecomesType DEF BeginSync
<1>6. CASE Tally(p)
  <2>1. req[p].module \in Modules
    BY <1>1, <1>6 DEF Tally, Handler, WellPlaced
  <2>2. Cardinality(SeatsOf(req[p].module)) \in Nat
    BY SeatsOfFinite
  <2>3. [req[p] EXCEPT !.at = "correct", !.count = Cardinality(SeatsOf(req[p].module))] \in Handler
    <3>1. "correct" \in Places /\ "correct" \notin SeatPlaces /\ "correct" # "patch"
      BY DEF Places, SeatPlaces
    <3> QED BY <1>1, <2>1, <2>2, <3>1 DEF Handler, WellPlaced, Request
  <2> QED BY <1>6, <2>3, BecomesType DEF Tally
<1>7. CASE Correct(p)
  <2>1. req[p].module \in Modules /\ req[p].count \in Int
    BY <1>1, <1>7 DEF Correct, Handler, WellPlaced, Request
  <2>2. subs' \in [Modules -> Sub]
    BY <1>7, <2>1, ColumnType, ZenonT(60) DEF Correct
  <2>3. req' \in [Procs -> Handler]
    BY <1>7, RespondType DEF Correct
  <2> QED BY <1>7, <2>2, <2>3 DEF Correct
<1> QED BY <1>2, <1>3, <1>4, <1>5, <1>6, <1>7

\* What happens without a request: the sweep, the administrator and emp-billing.
LEMMA OutsideType ==
  ASSUME TypeInv, NEW m \in Modules,
         \/ AdminUpdate(m) \/ TrialRunsOut(m) \/ StartSweep \/ ExpireTrial(m) \/ SkipBroken(m)
         \/ PostArrives(m) \/ BillingReports(m)
  PROVE  TypeInv'
<1> USE DEF TypeInv, seatVars, billingVars
<1>1. CASE AdminUpdate(m)
  <2>1. subs' \in [Modules -> Sub]
    <3>1. ASSUME NEW status \in SubStatus, subs' = [subs EXCEPT ![m].status = status]
          PROVE  subs' \in [Modules -> Sub]
      BY <3>1, ColumnType
    <3>2. ASSUME NEW n \in Limits, subs' = [subs EXCEPT ![m].total = n]
          PROVE  subs' \in [Modules -> Sub]
      <4>1. n \in Nat
        BY LimitsAssumption
      <4> QED BY <3>2, <4>1, ColumnType
    <3> QED BY <1>1, <3>1, <3>2 DEF AdminUpdate
  <2> QED BY <1>1, <2>1 DEF AdminUpdate
<1>2. CASE TrialRunsOut(m)
  <2>1. subs' \in [Modules -> Sub]
    BY <1>2, ColumnType DEF TrialRunsOut
  <2> QED BY <1>2, <2>1 DEF TrialRunsOut
<1>3. CASE StartSweep
  BY <1>3 DEF StartSweep, Expired
<1>4. CASE ExpireTrial(m)
  <2>1. [subs[m] EXCEPT !.status = "active", !.ends = "never"] \in Sub
    BY DEF Sub, SubStatus
  <2>2. subs' = [subs EXCEPT ![m] = [subs[m] EXCEPT !.status = "active", !.ends = "never"]]
    BY <1>4 DEF ExpireTrial
  <2> QED BY <1>4, <2>1, <2>2 DEF ExpireTrial
<1>5. CASE SkipBroken(m) \/ PostArrives(m)
  BY <1>5 DEF SkipBroken, PostArrives
<1>6. CASE BillingReports(m)
  <2>1. PICK status \in Reported(subs[m].status) : subs' = [subs EXCEPT ![m].status = status]
    BY <1>6 DEF BillingReports
  <2>2. status \in SubStatus
    BY DEF Reported, SubStatus
  <2>3. subs' \in [Modules -> Sub]
    BY <2>1, <2>2, ColumnType
  <2> QED BY <1>6, <2>3 DEF BillingReports
<1> QED BY <1>1, <1>2, <1>3, <1>4, <1>5, <1>6

LEMMA InitType == Init => TypeInv
BY IdleType, FS_EmptySet DEF Init, TypeInv, Absent, Sub

LEMMA NextType == TypeInv /\ [Next]_vars => TypeInv'
<1> SUFFICES ASSUME TypeInv, [Next]_vars PROVE TypeInv'
  OBVIOUS
<1>1. CASE UNCHANGED vars
  BY <1>1 DEF vars, TypeInv
<1>2. ASSUME NEW p \in Procs, Begin(p) PROVE TypeInv'
  BY <1>2, SubscribeType, TakeSeatType, GiveSeatType DEF Begin
<1>3. ASSUME NEW p \in Procs, Continue(p) PROVE TypeInv'
  <2>1. PICK m : m \in Modules
    <3>1. req[p].at # "idle"
      BY <1>3 DEF Continue, WriteCreate, WriteUpdate, Evict, CheckLimit, CheckSeated, CountSeats, Grow,
        InsertSeat, AddUsed, DeleteSeat, SubtractUsed, Tally, Correct
    <3> QED BY <3>1 DEF TypeInv, Handler, WellPlaced
  <2> QED BY <1>3, <2>1, SubscribeType, TakeSeatType, GiveSeatType DEF Continue
<1>4. ASSUME NEW p \in Procs, Crash(p) PROVE TypeInv'
  BY <1>4, RespondType DEF Crash, TypeInv, seatVars, billingVars
<1>5. CASE StartSweep
  BY <1>5 DEF StartSweep, Expired, TypeInv, seatVars, billingVars
<1>6. CASE SweepStep
  BY <1>6, OutsideType DEF SweepStep
<1>7. ASSUME NEW m \in Modules,
             AdminUpdate(m) \/ TrialRunsOut(m) \/ PostArrives(m) \/ BillingReports(m)
      PROVE  TypeInv'
  BY <1>7, OutsideType
<1> QED BY <1>1, <1>2, <1>3, <1>4, <1>5, <1>6, <1>7 DEF Next

\* Rows keep their types: no column ever becomes null or unknown, however requests,
\* the sweep, the administrator and emp-billing interleave.
THEOREM TypeCorrect == Spec => []TypeOK
<1>1. TypeInv => TypeOK
  BY DEF TypeInv, TypeOK, Handler
<1> QED BY <1>1, InitType, NextType, PTL DEF Spec

-----------------------------------------------------------------------------
(* OverBookedByRacesOnly, where every subscription has n seats and every seat is *)
(* taken by an operation that counts                                             *)

OneLimit(n) ==
  /\ Procs # {} /\ Limits = {n} /\ Ops \cap {"autoAssign", "biometric"} = {}
  /\ \A patch \in Patches : patch.total \in {0, n}

\* A handler that takes a seat read the limit; only the two counted operations run,
\* and no update or creation asks for another limit.
Known(handler, n) ==
  /\ handler.op \in SeatOps => handler.total = n /\ handler.op \in {"assign", "seatAdded"}
  /\ handler.at \in SeatPlaces => handler.op \in SeatOps /\ handler.at \notin {"count", "grow"}
  /\ handler.at = "patch" => handler.patch.total \in {0, n}
LimitKnown(n) ==
  /\ \A m \in Modules : Exists(m) => subs[m].total = n
  /\ \A p \in Procs : Known(req[p], n) /\ (req[p].at = "patch" => Exists(req[p].module))

RoomForAll(n) ==
  \A m \in Modules :
    Cardinality(SeatsOf(m)) + Cardinality(Past(m)) <= n + Cardinality(Procs) - 1

LEMMA PastFinite ==
  ASSUME NEW m
  PROVE  /\ Past(m) \subseteq Procs /\ IsFiniteSet(Past(m)) /\ Cardinality(Past(m)) \in Nat
         /\ Cardinality(Past(m)) <= Cardinality(Procs) /\ Cardinality(Procs) \in Nat
<1>1. Past(m) \subseteq Procs
  BY DEF Past
<1> QED BY <1>1, FiniteAssumption, FS_Subset, FS_CardinalityType

\* When nobody comes past the check and no seat is taken, nothing is used up.
LEMMA FewerBounded ==
  ASSUME NEW n \in Nat, TypeInv, TypeInv', RoomForAll(n),
         \A m \in Modules : Past(m)' \subseteq Past(m) /\ SeatsOf(m)' \subseteq SeatsOf(m)
  PROVE  RoomForAll(n)'
<1> SUFFICES ASSUME NEW m \in Modules
             PROVE  Cardinality(SeatsOf(m)') + Cardinality(Past(m)') <= n + Cardinality(Procs) - 1
  BY DEF RoomForAll
<1>1. /\ Cardinality(SeatsOf(m)') <= Cardinality(SeatsOf(m)) /\ Cardinality(SeatsOf(m)') \in Nat
      /\ Cardinality(SeatsOf(m)) \in Nat
  BY SeatsOfFinite, FS_Subset, FS_CardinalityType
<1>2. /\ Cardinality(Past(m)') <= Cardinality(Past(m)) /\ Cardinality(Past(m)') \in Nat
      /\ Cardinality(Past(m)) \in Nat /\ Cardinality(Procs) \in Nat
  BY PastFinite, FS_Subset, FS_CardinalityType
<1> QED BY <1>1, <1>2 DEF RoomForAll

\* One handler changes to something that is not past the check.
LEMMA NotPast ==
  ASSUME NEW p \in Procs, NEW handler, TypeInv, Becomes(p, handler),
         \/ handler.op \notin SeatOps
         \/ handler.at # "insert" /\ ~(handler.op = "assign" /\ handler.at = "seated")
         \/ handler.module = req[p].module /\ p \in Past(handler.module)
  PROVE  \A m \in Modules : Past(m)' \subseteq Past(m)
<1>1. req'[p] = handler /\ \A q \in Procs \ {p} : req'[q] = req[q]
  BY DEF TypeInv, Becomes
<1> QED BY <1>1 DEF Past, SeatOps

LEMMA HandlerKnown ==
  ASSUME NEW n \in Nat, TypeInv, TypeInv', LimitKnown(n), NEW p \in Procs, NEW handler,
         Becomes(p, handler),
         Known(handler, n), handler.at = "patch" => Exists(handler.module),
         \A m \in Modules : /\ Exists(m) => Exists(m)'
                            /\ Exists(m)' => subs'[m].total = n
  PROVE  LimitKnown(n)'
<1>1. req'[p] = handler /\ \A q \in Procs \ {p} : req'[q] = req[q]
  BY DEF TypeInv, Becomes
<1>2. \A q \in Procs : req'[q].at = "patch" => req'[q].module \in Modules
  BY DEF TypeInv, Handler, WellPlaced
<1>3. ASSUME NEW q \in Procs
      PROVE  Known(req'[q], n) /\ (req'[q].at = "patch" => subs'[req'[q].module].status # "none")
  <2>1. /\ Known(req'[q], n)
        /\ req'[q].at = "patch" => subs[req'[q].module].status # "none"
    BY <1>1 DEF LimitKnown, Exists
  <2>2. \A m \in Modules : subs[m].status # "none" => subs'[m].status # "none"
    BY DEF Exists
  <2> QED BY <1>2, <2>1, <2>2
<1> QED BY <1>3 DEF LimitKnown, Known, Exists

\* Steps that leave the rows of subscriptions alone.
LEMMA SameSubsKnown ==
  ASSUME NEW n \in Nat, TypeInv, TypeInv', LimitKnown(n), NEW p \in Procs, NEW handler,
         Becomes(p, handler), Known(handler, n), handler.at = "patch" => Exists(handler.module),
         UNCHANGED subs
  PROVE  LimitKnown(n)'
<1>1. \A m \in Modules : /\ Exists(m) => Exists(m)'
                         /\ Exists(m)' => subs'[m].total = n
  BY DEF Exists, LimitKnown
<1> QED BY <1>1, HandlerKnown

LEMMA SubscribeKnown ==
  ASSUME NEW n \in Nat, OneLimit(n), TypeInv, TypeInv', LimitKnown(n), RoomForAll(n),
         NEW p \in Procs, NEW m \in Modules,
         \/ \E op \in {"create", "onboard"} : BeginCreate(p, op, m)
         \/ \E l \in Limits, trial \in Trials : WriteCreate(p, l, trial)
         \/ \E patch \in Patches : BeginUpdate(p, m, patch)
         \/ WriteUpdate(p) \/ Cancel(p, m) \/ Evict(p)
  PROVE  LimitKnown(n)' /\ RoomForAll(n)'
<1> USE DEF seatVars, billingVars
<1>1. req[p] \in Request /\ Known(Idle, n)
  BY DEF TypeInv, Handler, Known, Idle, SeatOps, SeatPlaces
<1>2. ASSUME NEW op \in {"create", "onboard"}, BeginCreate(p, op, m)
      PROVE  LimitKnown(n)' /\ RoomForAll(n)'
  <2> DEFINE handler == [Idle EXCEPT !.op = op, !.at = "write", !.module = m, !.known = subs[m].status]
  <2>1. Becomes(p, handler) /\ UNCHANGED <<subs, seats>>
    BY <1>2 DEF BeginCreate
  <2>2. handler.op = op /\ handler.at = "write"
    BY DEF Idle
  <2> HIDE DEF handler
  <2>3. Known(handler, n) /\ handler.op \notin SeatOps /\ handler.at # "patch"
    BY <2>2 DEF Known, SeatOps, SeatPlaces
  <2>4. LimitKnown(n)'
    BY <2>1, <2>3, SameSubsKnown
  <2>5. \A d \in Modules : Past(d)' \subseteq Past(d) /\ SeatsOf(d)' = SeatsOf(d)
    BY <2>1, <2>3, NotPast DEF SeatsOf
  <2> QED BY <2>4, <2>5, FewerBounded
<1>3. ASSUME NEW l \in Limits, NEW trial \in Trials, WriteCreate(p, l, trial)
      PROVE  LimitKnown(n)' /\ RoomForAll(n)'
  <2>1. Becomes(p, Idle) /\ UNCHANGED seats /\ l = n
    BY <1>3 DEF WriteCreate, Respond, OneLimit
  <2>2. req[p].module \in Modules
    BY <1>3 DEF WriteCreate, TypeInv, Handler, WellPlaced
  <2>3. Fresh(n, trial).total = n /\ Fresh(n, trial).status # "none"
    BY DEF Fresh
  <2>4. subs' = subs \/ subs' = [subs EXCEPT ![req[p].module] = Fresh(n, trial)]
    BY <1>3, <2>1 DEF WriteCreate, Reactivated
  <2>5. \A d \in Modules : /\ Exists(d) => Exists(d)'
                           /\ Exists(d)' => subs'[d].total = n
    BY <2>2, <2>3, <2>4 DEF Exists, LimitKnown, TypeInv
  <2>6. LimitKnown(n)'
    BY <1>1, <2>1, <2>5, HandlerKnown DEF Idle
  <2>7. \A d \in Modules : Past(d)' \subseteq Past(d) /\ SeatsOf(d)' = SeatsOf(d)
    BY <2>1, NotPast DEF SeatsOf, Idle, SeatOps
  <2> QED BY <2>6, <2>7, FewerBounded
<1>4. ASSUME NEW patch \in Patches, BeginUpdate(p, m, patch)
      PROVE  LimitKnown(n)' /\ RoomForAll(n)'
  <2> DEFINE handler == [Idle EXCEPT !.op = "update", !.at = "patch", !.module = m, !.patch = patch,
                                     !.known = subs[m].status, !.total = subs[m].total]
  <2>1. Becomes(p, handler) /\ UNCHANGED <<subs, seats>> /\ Exists(m)
    BY <1>4 DEF BeginUpdate
  <2>2. handler.op = "update" /\ handler.at = "patch" /\ handler.patch = patch /\ handler.module = m
    BY DEF Idle
  <2> HIDE DEF handler
  <2>3. Known(handler, n) /\ handler.op \notin SeatOps
    BY <2>2 DEF Known, SeatOps, SeatPlaces, OneLimit
  <2>4. LimitKnown(n)'
    BY <2>1, <2>2, <2>3, SameSubsKnown
  <2>5. \A d \in Modules : Past(d)' \subseteq Past(d) /\ SeatsOf(d)' = SeatsOf(d)
    BY <2>1, <2>3, NotPast DEF SeatsOf
  <2> QED BY <2>4, <2>5, FewerBounded
<1>5. CASE WriteUpdate(p)
  <2>1. Becomes(p, Idle) /\ UNCHANGED seats
    BY <1>5 DEF WriteUpdate, Respond
  <2>2. req[p].module \in Modules /\ req[p].patch \in Patch /\ req[p].patch.total \in {0, n} /\ Exists(req[p].module)
    BY <1>5 DEF WriteUpdate, TypeInv, Handler, WellPlaced, LimitKnown, Known
  <2> DEFINE d == req[p].module
             sub == Patched(subs[d], req[p])
  <2>3. subs[d] \in Sub /\ subs[d].status # "none" /\ subs[d].total = n
    BY <2>2 DEF TypeInv, LimitKnown, Exists
  <2>4. sub.total = n
    BY <2>2, <2>3 DEF Patched, Sub
  <2>5. sub.status # "none"
    BY <2>2, <2>3 DEF Patched, Sub, Patch, SubStatus
  <2>6. subs' = [subs EXCEPT ![d] = sub]
    BY <1>5 DEF WriteUpdate
  <2> HIDE DEF sub
  <2>7. \A e \in Modules : /\ Exists(e) => Exists(e)'
                           /\ Exists(e)' => subs'[e].total = n
    BY <2>2, <2>4, <2>5, <2>6 DEF Exists, LimitKnown, TypeInv
  <2>8. LimitKnown(n)'
    BY <1>1, <2>1, <2>7, HandlerKnown DEF Idle
  <2>9. \A e \in Modules : Past(e)' \subseteq Past(e) /\ SeatsOf(e)' = SeatsOf(e)
    BY <2>1, NotPast DEF SeatsOf, Idle, SeatOps
  <2> QED BY <2>8, <2>9, FewerBounded
<1>6. CASE Cancel(p, m)
  <2> DEFINE handler == [Idle EXCEPT !.op = "cancel", !.at = "evict", !.module = m]
  <2>1. Becomes(p, handler) /\ UNCHANGED seats /\ subs' = [subs EXCEPT ![m].status = "cancelled"] /\ Exists(m)
    BY <1>6 DEF Cancel
  <2>2. handler.op = "cancel" /\ handler.at = "evict"
    BY DEF Idle
  <2> HIDE DEF handler
  <2>3. Known(handler, n) /\ handler.op \notin SeatOps /\ handler.at # "patch"
    BY <2>2 DEF Known, SeatOps, SeatPlaces
  <2>4. \A d \in Modules : subs'[d].total = subs[d].total /\ (Exists(d) <=> Exists(d)')
    BY <2>1 DEF TypeInv, Sub, Exists
  <2>5. LimitKnown(n)'
    BY <2>1, <2>3, <2>4, HandlerKnown DEF LimitKnown
  <2>6. \A d \in Modules : Past(d)' \subseteq Past(d) /\ SeatsOf(d)' = SeatsOf(d)
    BY <2>1, <2>3, NotPast DEF SeatsOf
  <2> QED BY <2>5, <2>6, FewerBounded
<1>7. CASE Evict(p)
  <2>1. Becomes(p, Idle) /\ UNCHANGED subs /\ seats' \subseteq seats
    BY <1>7 DEF Evict, Respond
  <2>2. LimitKnown(n)'
    BY <1>1, <2>1, SameSubsKnown DEF Idle
  <2>3. \A d \in Modules : Past(d)' \subseteq Past(d) /\ SeatsOf(d)' \subseteq SeatsOf(d)
    BY <2>1, NotPast DEF SeatsOf, Idle, SeatOps
  <2> QED BY <2>2, <2>3, FewerBounded
<1> QED BY <1>2, <1>3, <1>4, <1>5, <1>6, <1>7

\* CheckLimit is where a handler may come past the check: it sees fewer than n seats.
LEMMA CheckLimitKnown ==
  ASSUME NEW n \in Nat, OneLimit(n), TypeInv, TypeInv', LimitKnown(n), RoomForAll(n),
         NEW p \in Procs, CheckLimit(p)
  PROVE  LimitKnown(n)' /\ RoomForAll(n)'
<1> USE DEF seatVars, billingVars
<1>1. req[p] \in Request /\ req[p].at = "limit" /\ Known(req[p], n) /\ UNCHANGED <<subs, seats>>
  BY DEF TypeInv, Handler, LimitKnown, CheckLimit
<1>2. req[p].op \in {"assign", "seatAdded"} /\ req[p].total = n
  BY <1>1 DEF Known, SeatPlaces
<1>3. CASE Respond(p)
  <2>1. Known(Idle, n) /\ Idle.at # "patch" /\ Idle.op \notin SeatOps
    BY DEF Known, Idle, SeatOps, SeatPlaces
  <2>2. LimitKnown(n)'
    BY <1>1, <1>3, <2>1, SameSubsKnown DEF Respond
  <2>3. \A d \in Modules : Past(d)' \subseteq Past(d) /\ SeatsOf(d)' = SeatsOf(d)
    BY <1>1, <1>3, <2>1, NotPast DEF SeatsOf, Respond
  <2> QED BY <2>2, <2>3, FewerBounded
<1>4. CASE Cardinality(SeatsOf(req[p].module)) < n /\ GoTo(p, AfterLimit(req[p].op))
  <2> DEFINE handler == [req[p] EXCEPT !.at = AfterLimit(req[p].op)]
  <2>1. Becomes(p, handler)
    BY <1>4 DEF GoTo
  <2>2. /\ handler.at \in {"seated", "insert"} /\ handler.module = req[p].module /\ handler.op = req[p].op
        /\ handler.total = req[p].total
    BY <1>1 DEF Request, AfterLimit
  <2> HIDE DEF handler
  <2>3. Known(handler, n)
    BY <1>2, <2>2 DEF Known, SeatOps
  <2>4. LimitKnown(n)'
    BY <1>1, <2>1, <2>2, <2>3, SameSubsKnown
  <2>5. ASSUME NEW m \in Modules
        PROVE  Cardinality(SeatsOf(m)') + Cardinality(Past(m)') <= n + Cardinality(Procs) - 1
    <3>1. SeatsOf(m)' = SeatsOf(m) /\ Cardinality(SeatsOf(m)) \in Nat
      BY <1>1, SeatsOfFinite DEF SeatsOf
    <3>2. CASE m = req[p].module
      <4>1. /\ Cardinality(Past(m)') <= Cardinality(Procs)
            /\ Cardinality(Past(m)') \in Nat /\ Cardinality(Procs) \in Nat
        <5>1. Past(m)' \subseteq Procs
          BY DEF Past
        <5> QED BY <5>1, FiniteAssumption, FS_Subset, FS_CardinalityType
      <4> QED BY <1>4, <3>1, <3>2, <4>1
    <3>3. CASE m # req[p].module
      <4>1. Past(m)' = Past(m)
        BY <2>1, <2>2, <3>3 DEF Past, Becomes, TypeInv
      <4> QED BY <3>1, <4>1 DEF RoomForAll
    <3> QED BY <3>2, <3>3
  <2> QED BY <2>4, <2>5 DEF RoomForAll
<1>5. Cardinality(SeatsOf(req[p].module)) \in Nat
  BY SeatsOfFinite
<1> QED BY <1>2, <1>3, <1>4, <1>5 DEF CheckLimit

LEMMA TakeSeatKnown ==
  ASSUME NEW n \in Nat, OneLimit(n), TypeInv, TypeInv', LimitKnown(n), RoomForAll(n),
         NEW p \in Procs, NEW m \in Modules,
         \/ \E op \in SeatOps, u \in Users : BeginSeat(p, op, m, u)
         \/ CheckSeated(p) \/ CountSeats(p) \/ Grow(p) \/ InsertSeat(p) \/ AddUsed(p)
  PROVE  LimitKnown(n)' /\ RoomForAll(n)'
<1> USE DEF seatVars, billingVars
<1>1. req[p] \in Request /\ Known(req[p], n)
  BY DEF TypeInv, Handler, LimitKnown
<1>2. Known(Idle, n) /\ Idle.at # "patch" /\ Idle.op \notin SeatOps
  BY DEF Known, Idle, SeatOps, SeatPlaces
<1>3. ASSUME NEW op \in SeatOps, NEW u \in Users, BeginSeat(p, op, m, u)
      PROVE  LimitKnown(n)' /\ RoomForAll(n)'
  <2> DEFINE handler == [Idle EXCEPT !.op = op, !.at = FirstCheck(op), !.module = m, !.user = u,
                                     !.total = subs[m].total]
  <2>1. /\ Becomes(p, handler) /\ UNCHANGED <<subs, seats>>
        /\ op \in {"assign", "seatAdded"} /\ subs[m].total = n
    BY <1>3 DEF BeginSeat, Free, SeatOps, OneLimit, LimitKnown, Open, Exists
  <2>2. /\ handler.op = op /\ handler.at = FirstCheck(op) /\ handler.total = subs[m].total
        /\ handler.at \in {"limit", "seated"} /\ (op = "assign" => handler.at = "limit")
    BY DEF Idle, FirstCheck
  <2> HIDE DEF handler
  <2>3. Known(handler, n) /\ handler.at # "patch" /\ handler.at # "insert"
    BY <2>1, <2>2 DEF Known, SeatOps
  <2>4. LimitKnown(n)'
    BY <2>1, <2>3, SameSubsKnown
  <2>5. \A d \in Modules : Past(d)' \subseteq Past(d) /\ SeatsOf(d)' = SeatsOf(d)
    BY <2>1, <2>2, <2>3, NotPast DEF SeatsOf
  <2> QED BY <2>4, <2>5, FewerBounded, SMTT(40)
<1>4. CASE CheckSeated(p)
  <2>1. UNCHANGED <<subs, seats>> /\ req[p].at = "seated" /\ req[p].op \in {"assign", "seatAdded"}
    BY <1>1, <1>4 DEF CheckSeated, Known, SeatPlaces
  <2>2. CASE Respond(p)
    <3>1. LimitKnown(n)'
      BY <1>2, <2>1, <2>2, SameSubsKnown DEF Respond
    <3>2. \A d \in Modules : Past(d)' \subseteq Past(d) /\ SeatsOf(d)' = SeatsOf(d)
      BY <1>2, <2>1, <2>2, NotPast DEF SeatsOf, Respond
    <3> QED BY <3>1, <3>2, FewerBounded
  <2>3. CASE GoTo(p, AfterSeated(req[p].op))
    <3> DEFINE handler == [req[p] EXCEPT !.at = AfterSeated(req[p].op)]
    <3>1. Becomes(p, handler)
      BY <2>3 DEF GoTo
    <3>2. /\ handler.at = (IF req[p].op = "assign" THEN "insert" ELSE "limit")
          /\ handler.module = req[p].module /\ handler.op = req[p].op /\ handler.total = req[p].total
      BY <1>1, <2>1 DEF Request, AfterSeated
    <3> HIDE DEF handler
    <3>3. Known(handler, n) /\ handler.at # "patch"
      BY <1>1, <2>1, <3>2 DEF Known, SeatOps
    <3>4. LimitKnown(n)'
      BY <2>1, <3>1, <3>3, SameSubsKnown
    <3>5. req[p].op = "assign" => p \in Past(handler.module)
      BY <2>1, <3>2 DEF Past
    <3>6. \A d \in Modules : Past(d)' \subseteq Past(d) /\ SeatsOf(d)' = SeatsOf(d)
      <4>1. \/ handler.at # "insert" /\ ~(handler.op = "assign" /\ handler.at = "seated")
            \/ handler.module = req[p].module /\ p \in Past(handler.module)
        BY <2>1, <3>2, <3>5
      <4> QED BY <2>1, <3>1, <4>1, NotPast DEF SeatsOf
    <3> QED BY <3>4, <3>6, FewerBounded
  <2> QED BY <1>4, <2>2, <2>3 DEF CheckSeated
<1>5. CASE CountSeats(p) \/ Grow(p)
  BY <1>1, <1>5 DEF CountSeats, Grow, Known, SeatPlaces
<1>6. CASE AddUsed(p)
  <2>1. Becomes(p, Idle) /\ UNCHANGED seats /\ subs' = [subs EXCEPT ![req[p].module].used = @ + 1]
    BY <1>6 DEF AddUsed, Respond
  <2>2. \A d \in Modules : subs'[d].total = subs[d].total /\ subs'[d].status = subs[d].status
    BY <2>1 DEF TypeInv, Sub
  <2>3. LimitKnown(n)'
    BY <1>2, <2>1, <2>2, HandlerKnown DEF LimitKnown, Exists
  <2>4. \A d \in Modules : Past(d)' \subseteq Past(d) /\ SeatsOf(d)' = SeatsOf(d)
    BY <1>2, <2>1, NotPast DEF SeatsOf
  <2> QED BY <2>3, <2>4, FewerBounded
<1>7. CASE InsertSeat(p) /\ UNCHANGED seats
  <2>1. UNCHANGED <<subs, seats>> /\ req[p].at = "insert"
    BY <1>7 DEF InsertSeat
  <2>2. PICK handler : /\ Becomes(p, handler) /\ handler.at \notin SeatPlaces \cup {"patch"}
                       /\ Known(handler, n)
    <3>1. "add" \notin SeatPlaces \cup {"patch"} /\ Idle.at \notin SeatPlaces \cup {"patch"}
      BY DEF SeatPlaces, Idle
    <3>2. [req[p] EXCEPT !.at = "add"].at = "add" /\ Known([req[p] EXCEPT !.at = "add"], n)
      BY <1>1, <3>1 DEF Known, Request
    <3> QED BY <1>2, <1>7, <3>1, <3>2 DEF InsertSeat, Respond, GoTo
  <2>3. LimitKnown(n)'
    BY <2>1, <2>2, SameSubsKnown
  <2>4. \A d \in Modules : Past(d)' \subseteq Past(d) /\ SeatsOf(d)' = SeatsOf(d)
    BY <2>1, <2>2, NotPast DEF SeatsOf, SeatPlaces
  <2> QED BY <2>3, <2>4, FewerBounded
<1>8. CASE InsertSeat(p) /\ ~UNCHANGED seats
  <2> DEFINE new == [module |-> req[p].module, user |-> req[p].user, id |-> lastId + 1]
             handler == [req[p] EXCEPT !.at = "add"]
  <2>1. /\ UNCHANGED subs /\ req[p].at = "insert" /\ seats' = seats \cup {new} /\ Becomes(p, handler)
    BY <1>8 DEF InsertSeat, GoTo
  <2>2. handler.at = "add" /\ Known(handler, n)
    BY <1>1 DEF Known, Request, SeatPlaces
  <2> HIDE DEF handler
  <2>3. LimitKnown(n)'
    BY <2>1, <2>2, SameSubsKnown
  <2>4. \A d \in Modules : Past(d)' \subseteq Past(d)
    BY <2>1, <2>2, NotPast
  <2>5. ASSUME NEW d \in Modules
        PROVE  Cardinality(SeatsOf(d)') + Cardinality(Past(d)') <= n + Cardinality(Procs) - 1
    <3>1. /\ IsFiniteSet(SeatsOf(d)) /\ Cardinality(SeatsOf(d)) \in Nat
          /\ IsFiniteSet(Past(d)) /\ Cardinality(Past(d)) \in Nat
          /\ Cardinality(Procs) \in Nat
      BY SeatsOfFinite, PastFinite
    <3>2. /\ IsFiniteSet(Past(d)') /\ Cardinality(Past(d)') \in Nat
          /\ Cardinality(Past(d)') <= Cardinality(Past(d))
      BY <2>4, <3>1, FS_Subset, FS_CardinalityType
    <3>3. CASE d # req[p].module
      <4>1. SeatsOf(d)' = SeatsOf(d)
        BY <2>1, <3>3 DEF SeatsOf
      <4> QED BY <3>1, <3>2, <4>1 DEF RoomForAll
    <3>4. CASE d = req[p].module
      <4>1. SeatsOf(d)' = SeatsOf(d) \cup {new}
        BY <2>1, <3>4 DEF SeatsOf
      <4> HIDE DEF new
      <4>2. Cardinality(SeatsOf(d)') <= Cardinality(SeatsOf(d)) + 1 /\ Cardinality(SeatsOf(d)') \in Nat
        <5>1. /\ IsFiniteSet(SeatsOf(d) \cup {new})
              /\ Cardinality(SeatsOf(d) \cup {new})
                   = IF new \in SeatsOf(d) THEN Cardinality(SeatsOf(d)) ELSE Cardinality(SeatsOf(d)) + 1
          BY <3>1, FS_AddElement
        <5> QED BY <3>1, <4>1, <5>1
      <4>3. p \in Past(d) /\ p \notin Past(d)'
        <5>1. req[p].op \in SeatOps
          BY <1>1, <2>1 DEF Known, SeatPlaces
        <5>2. req'[p] = handler
          BY <2>1 DEF Becomes, TypeInv
        <5> QED BY <2>1, <2>2, <3>4, <5>1, <5>2 DEF Past
      <4>4. Cardinality(Past(d)') <= Cardinality(Past(d)) - 1
        <5>1. Past(d)' \subseteq Past(d) \ {p}
          BY <2>4, <4>3
        <5>2. IsFiniteSet(Past(d) \ {p}) /\ Cardinality(Past(d) \ {p}) = Cardinality(Past(d)) - 1
          BY <3>1, <4>3, FS_RemoveElement
        <5> QED BY <5>1, <5>2, FS_Subset
      <4> QED BY <3>1, <3>2, <4>2, <4>4 DEF RoomForAll
    <3> QED BY <3>3, <3>4
  <2> QED BY <2>3, <2>5 DEF RoomForAll
<1> QED BY <1>3, <1>4, <1>5, <1>6, <1>7, <1>8

LEMMA GiveSeatKnown ==
  ASSUME NEW n \in Nat, OneLimit(n), TypeInv, TypeInv', LimitKnown(n), RoomForAll(n),
         NEW p \in Procs, NEW m \in Modules,
         \/ \E op \in {"revoke", "seatRemoved"}, s \in SeatsOf(m) : BeginRevoke(p, op, s)
         \/ DeleteSeat(p) \/ SubtractUsed(p) \/ BeginSync(p, m) \/ Tally(p) \/ Correct(p)
  PROVE  LimitKnown(n)' /\ RoomForAll(n)'
<1> USE DEF seatVars, billingVars
<1>1. req[p] \in Request /\ Known(req[p], n)
  BY DEF TypeInv, Handler, LimitKnown
<1>2. Known(Idle, n) /\ Idle.at # "patch" /\ Idle.op \notin SeatOps
  BY DEF Known, Idle, SeatOps, SeatPlaces
<1>3. /\ {"delete", "subtract", "tally", "correct"} \cap (SeatPlaces \cup {"patch", "insert", "seated"}) = {}
      /\ {"revoke", "seatRemoved", "sync"} \cap SeatOps = {}
  BY DEF SeatPlaces, SeatOps
\* A handler that goes to one of these places, and seats that at most go.
<1>4. ASSUME NEW handler, Becomes(p, handler), Known(handler, n),
             handler.at \in {"idle", "delete", "subtract", "tally", "correct"},
             UNCHANGED subs, seats' \subseteq seats
      PROVE  LimitKnown(n)' /\ RoomForAll(n)'
  <2>1. LimitKnown(n)'
    BY <1>3, <1>4, SameSubsKnown
  <2>2. \A d \in Modules : Past(d)' \subseteq Past(d) /\ SeatsOf(d)' \subseteq SeatsOf(d)
    BY <1>4, NotPast DEF SeatsOf
  <2> QED BY <2>1, <2>2, FewerBounded
<1>5. ASSUME NEW op \in {"revoke", "seatRemoved"}, NEW s \in SeatsOf(m), BeginRevoke(p, op, s)
      PROVE  LimitKnown(n)' /\ RoomForAll(n)'
  <2> DEFINE handler == [Idle EXCEPT !.op = op, !.at = "delete", !.module = s.module, !.seat = s]
  <2>1. handler.op = op /\ handler.at = "delete"
    BY DEF Idle
  <2>2. Becomes(p, handler) /\ UNCHANGED <<subs, seats>>
    BY <1>5 DEF BeginRevoke
  <2> HIDE DEF handler
  <2>3. Known(handler, n)
    BY <1>3, <2>1 DEF Known
  <2> QED BY <1>4, <2>1, <2>2, <2>3
<1>6. CASE DeleteSeat(p)
  <2> DEFINE handler == [req[p] EXCEPT !.at = "subtract"]
  <2>1. handler.at = "subtract" /\ Known(handler, n)
    BY <1>1, <1>3 DEF Known, Request
  <2>2. Becomes(p, handler) /\ UNCHANGED subs /\ seats' \subseteq seats
    BY <1>6 DEF DeleteSeat, GoTo
  <2> HIDE DEF handler
  <2> QED BY <1>4, <2>1, <2>2
<1>7. CASE BeginSync(p, m)
  <2> DEFINE handler == [Idle EXCEPT !.op = "sync", !.at = "tally", !.module = m, !.used = subs[m].used]
  <2>1. handler.op = "sync" /\ handler.at = "tally"
    BY DEF Idle
  <2>2. Becomes(p, handler) /\ UNCHANGED <<subs, seats>>
    BY <1>7 DEF BeginSync
  <2> HIDE DEF handler
  <2>3. Known(handler, n)
    BY <1>3, <2>1 DEF Known
  <2> QED BY <1>4, <2>1, <2>2, <2>3
<1>8. CASE Tally(p)
  <2> DEFINE handler == [req[p] EXCEPT !.at = "correct", !.count = Cardinality(SeatsOf(req[p].module))]
  <2>1. handler.at = "correct" /\ Known(handler, n)
    BY <1>1, <1>3 DEF Known, Request
  <2>2. Becomes(p, handler) /\ UNCHANGED <<subs, seats>>
    BY <1>8 DEF Tally
  <2> HIDE DEF handler
  <2> QED BY <1>4, <2>1, <2>2
<1>9. CASE SubtractUsed(p) \/ Correct(p)
  <2>1. Becomes(p, Idle) /\ UNCHANGED seats
    BY <1>9 DEF SubtractUsed, Correct, Respond
  <2>2. \A d \in Modules : subs'[d].total = subs[d].total /\ subs'[d].status = subs[d].status
    <3>1. \A d \in Modules : subs[d] \in Sub
      BY DEF TypeInv
    <3> QED BY <1>9, <3>1 DEF SubtractUsed, Correct, TypeInv, Sub
  <2>3. LimitKnown(n)'
    BY <1>2, <2>1, <2>2, HandlerKnown DEF LimitKnown, Exists
  <2>4. \A d \in Modules : Past(d)' \subseteq Past(d) /\ SeatsOf(d)' = SeatsOf(d)
    BY <1>2, <2>1, NotPast DEF SeatsOf
  <2> QED BY <2>3, <2>4, FewerBounded
<1> QED BY <1>5, <1>6, <1>7, <1>8, <1>9

LEMMA CrashKnown ==
  ASSUME NEW n \in Nat, TypeInv, TypeInv', LimitKnown(n), RoomForAll(n), NEW p \in Procs, Crash(p)
  PROVE  LimitKnown(n)' /\ RoomForAll(n)'
<1>1. Becomes(p, Idle) /\ UNCHANGED <<subs, seats>>
  BY DEF Crash, Respond, seatVars
<1>2. Known(Idle, n) /\ Idle.at # "patch" /\ Idle.op \notin SeatOps
  BY DEF Known, Idle, SeatOps, SeatPlaces
<1>3. LimitKnown(n)'
  BY <1>1, <1>2, SameSubsKnown
<1>4. \A d \in Modules : Past(d)' \subseteq Past(d) /\ SeatsOf(d)' = SeatsOf(d)
  BY <1>1, <1>2, NotPast DEF SeatsOf
<1> QED BY <1>3, <1>4, FewerBounded

\* The sweep and emp-billing write rows they heard of, which are never deleted.
Subscribed == \A m \in posts \cup mapped \cup sweep : Exists(m)

LEMMA RowsStay ==
  ASSUME TypeInv, [Next]_vars, NEW m \in Modules, subs[m].status # "none"
  PROVE  subs'[m].status # "none"
<1>1. subs \in [Modules -> Sub] /\ subs[m] \in Sub
  BY DEF TypeInv
<1>2. CASE UNCHANGED subs
  BY <1>2
<1>3. ASSUME NEW d \in Modules, NEW sub, sub.status # "none", subs' = [subs EXCEPT ![d] = sub]
      PROVE  subs'[m].status # "none"
  BY <1>1, <1>3
<1>4. ASSUME NEW d, NEW status, status # "none", subs' = [subs EXCEPT ![d].status = status]
      PROVE  subs'[m].status # "none"
  BY <1>1, <1>4 DEF Sub
<1>5. ASSUME NEW p \in Procs, Continue(p) PROVE subs'[m].status # "none"
  <2>1. CASE \E n \in Limits, trial \in Trials : WriteCreate(p, n, trial)
    BY <1>1, <2>1 DEF WriteCreate, Reactivated, Fresh
  <2>2. CASE WriteUpdate(p)
    <3>1. req[p].module \in Modules /\ req[p].patch \in Patch
      BY <2>2 DEF WriteUpdate, TypeInv, Handler, WellPlaced
    <3>2. subs[req[p].module].status # "none" => Patched(subs[req[p].module], req[p]).status # "none"
      BY <1>1, <3>1 DEF Patched, Patch, SubStatus, Sub
    <3> QED BY <1>1, <2>2, <3>1, <3>2 DEF WriteUpdate
  <2>3. CASE Grow(p) \/ AddUsed(p) \/ SubtractUsed(p) \/ Correct(p)
    BY <1>1, <2>3 DEF Grow, AddUsed, SubtractUsed, Correct, Sub
  <2> QED BY <1>2, <1>5, <2>1, <2>2, <2>3 DEF Continue, Evict, CheckLimit, CheckSeated, CountSeats,
          InsertSeat, DeleteSeat, Tally
<1>6. ASSUME NEW p \in Procs, Begin(p) PROVE subs'[m].status # "none"
  BY <1>2, <1>4, <1>6 DEF Begin, BeginCreate, BeginUpdate, Cancel, BeginSeat, BeginRevoke, BeginSync
<1>7. ASSUME NEW d \in Modules, AdminUpdate(d) \/ BillingReports(d) \/ TrialRunsOut(d) \/ ExpireTrial(d)
      PROVE  subs'[m].status # "none"
  <2>1. "none" \notin SubStatus /\ \A status : "none" \notin Reported(status)
    BY DEF SubStatus, Reported
  <2>2. CASE AdminUpdate(d)
    BY <1>1, <1>4, <2>1, <2>2 DEF AdminUpdate, Sub
  <2>3. CASE BillingReports(d)
    BY <1>4, <2>1, <2>3 DEF BillingReports
  <2>4. CASE TrialRunsOut(d) \/ ExpireTrial(d)
    BY <1>1, <2>4 DEF TrialRunsOut, ExpireTrial, Sub
  <2> QED BY <1>7, <2>2, <2>3, <2>4
<1> QED BY <1>2, <1>5, <1>6, <1>7 DEF Next, vars, Crash, StartSweep, SweepStep, SkipBroken, PostArrives

LEMMA StaySubscribed == TypeInv /\ Subscribed /\ [Next]_vars => Subscribed'
<1> SUFFICES ASSUME TypeInv, Subscribed, [Next]_vars, NEW m \in posts' \cup mapped' \cup sweep'
             PROVE  subs'[m].status # "none"
  BY DEF Subscribed, Exists
<1>1. CASE m \in posts \cup mapped \cup sweep
  <2>1. m \in Modules /\ subs[m].status # "none"
    BY <1>1 DEF Subscribed, Exists, TypeInv
  <2> QED BY <2>1, RowsStay
<1>2. CASE m \notin posts \cup mapped \cup sweep
  <2>1. CASE \E p \in Procs, n \in Limits, trial \in Trials : WriteCreate(p, n, trial)
    <3>1. PICK p \in Procs, n \in Limits, trial \in Trials : WriteCreate(p, n, trial)
      BY <2>1
    <3>2. m = req[p].module /\ m \in Modules
      BY <1>2, <3>1 DEF WriteCreate, Announce, TypeInv, Handler, WellPlaced
    <3> QED BY <3>1, <3>2 DEF WriteCreate, Exists, Fresh, Reactivated, TypeInv
  <2>2. CASE StartSweep
    BY <1>2, <2>2 DEF StartSweep, Expired, billingVars, TypeInv
  <2>3. CASE UNCHANGED <<billingVars, sweep>>
    BY <1>2, <2>3 DEF billingVars
  <2>4. ASSUME NEW d \in Modules,
               AdminUpdate(d) \/ TrialRunsOut(d) \/ PostArrives(d) \/ BillingReports(d)
                 \/ ExpireTrial(d) \/ SkipBroken(d)
        PROVE  FALSE
    BY <1>2, <2>4 DEF AdminUpdate, TrialRunsOut, PostArrives, BillingReports, ExpireTrial, SkipBroken,
      billingVars
  <2>5. ASSUME NEW p \in Procs, Begin(p) \/ Crash(p) PROVE UNCHANGED <<billingVars, sweep>>
    BY <2>5, Zenon DEF Begin, BeginCreate, BeginUpdate, Cancel, BeginSeat, BeginRevoke, BeginSync,
      Crash
  <2>6. ASSUME NEW p \in Procs, Continue(p),
               ~\E n \in Limits, trial \in Trials : WriteCreate(p, n, trial)
        PROVE  UNCHANGED <<billingVars, sweep>>
    BY <2>6 DEF Continue, WriteUpdate, Evict, CheckLimit, CheckSeated, CountSeats, Grow, InsertSeat,
      AddUsed, DeleteSeat, SubtractUsed, Tally, Correct
  <2>7. CASE UNCHANGED vars
    BY <2>3, <2>7 DEF vars, billingVars
  <2> QED BY <2>1, <2>2, <2>3, <2>4, <2>5, <2>6, <2>7 DEF Next, SweepStep
<1> QED BY <1>1, <1>2

\* The rest changes neither seats nor handlers, and no limit to another.
LEMMA OutsideKnown ==
  ASSUME NEW n \in Nat, OneLimit(n), TypeInv, TypeInv', LimitKnown(n), RoomForAll(n), Subscribed,
         \/ UNCHANGED vars \/ StartSweep \/ SweepStep
         \/ \E m \in Modules : AdminUpdate(m) \/ TrialRunsOut(m) \/ PostArrives(m) \/ BillingReports(m)
  PROVE  LimitKnown(n)' /\ RoomForAll(n)'
<1> USE DEF seatVars, billingVars
<1>1. UNCHANGED <<seats, req>>
  BY DEF vars, StartSweep, SweepStep, ExpireTrial, SkipBroken, AdminUpdate, TrialRunsOut, PostArrives,
    BillingReports
<1>2. \A m \in Modules : /\ Exists(m) => subs'[m].status # "none"
                         /\ subs'[m].status # "none" => subs'[m].total = n
  <2>1. \A m \in Modules : subs[m] \in Sub /\ (subs[m].status # "none" => subs[m].total = n)
    BY DEF TypeInv, LimitKnown, Exists
  <2>2. CASE UNCHANGED subs
    BY <2>1, <2>2 DEF Exists
  <2>3. ASSUME NEW m \in Modules, AdminUpdate(m)
        PROVE  \A d \in Modules : /\ Exists(d) => subs'[d].status # "none"
                                  /\ subs'[d].status # "none" => subs'[d].total = n
    <3>1. subs[m].status # "none"
      BY <2>3 DEF AdminUpdate, Exists
    <3>2. ASSUME NEW status \in SubStatus, subs' = [subs EXCEPT ![m].status = status]
          PROVE  \A d \in Modules : /\ Exists(d) => subs'[d].status # "none"
                                    /\ subs'[d].status # "none" => subs'[d].total = n
      BY <2>1, <3>1, <3>2 DEF Exists, TypeInv, Sub, SubStatus
    <3>3. ASSUME subs' = [subs EXCEPT ![m].total = n]
          PROVE  \A d \in Modules : /\ Exists(d) => subs'[d].status # "none"
                                    /\ subs'[d].status # "none" => subs'[d].total = n
      BY <2>1, <3>1, <3>3 DEF Exists, TypeInv, Sub
    <3> QED BY <2>3, <3>2, <3>3 DEF AdminUpdate, OneLimit
  <2>4. ASSUME NEW m \in Modules, TrialRunsOut(m)
        PROVE  \A d \in Modules : /\ Exists(d) => subs'[d].status # "none"
                                  /\ subs'[d].status # "none" => subs'[d].total = n
    BY <2>1, <2>4 DEF TrialRunsOut, Exists, TypeInv, Sub
  <2>5. ASSUME NEW m \in Modules, BillingReports(m)
        PROVE  \A d \in Modules : /\ Exists(d) => subs'[d].status # "none"
                                  /\ subs'[d].status # "none" => subs'[d].total = n
    <3>1. subs[m].status # "none"
      BY <2>5 DEF BillingReports, Subscribed, Exists
    <3>2. PICK status \in Reported(subs[m].status) : subs' = [subs EXCEPT ![m].status = status]
      BY <2>5 DEF BillingReports
    <3>3. status # "none"
      BY DEF Reported
    <3> QED BY <2>1, <3>1, <3>2, <3>3 DEF Exists, TypeInv, Sub
  <2>6. ASSUME NEW m \in Modules, ExpireTrial(m)
        PROVE  \A d \in Modules : /\ Exists(d) => subs'[d].status # "none"
                                  /\ subs'[d].status # "none" => subs'[d].total = n
    <3>1. subs[m].status # "none"
      BY <2>6 DEF ExpireTrial, Subscribed, Exists
    <3> QED BY <2>1, <2>6, <3>1 DEF ExpireTrial, Exists, TypeInv, Sub
  <2> QED BY <2>2, <2>3, <2>4, <2>5, <2>6 DEF vars, StartSweep, SweepStep, SkipBroken, PostArrives
<1>3. LimitKnown(n)'
  <2>1. \A p \in Procs : req[p].at = "patch" => req[p].module \in Modules
    BY DEF TypeInv, Handler, WellPlaced
  <2> QED BY <1>1, <1>2, <2>1 DEF LimitKnown, Exists, Known
<1>4. \A d \in Modules : Past(d)' = Past(d) /\ SeatsOf(d)' = SeatsOf(d)
  BY <1>1 DEF Past, SeatsOf
<1> QED BY <1>3, <1>4, FewerBounded

LEMMA NextKnown ==
  ASSUME NEW n \in Nat, OneLimit(n)
  PROVE  TypeInv /\ TypeInv' /\ Subscribed /\ LimitKnown(n) /\ RoomForAll(n) /\ [Next]_vars
           => LimitKnown(n)' /\ RoomForAll(n)'
<1> SUFFICES ASSUME TypeInv, TypeInv', Subscribed, LimitKnown(n), RoomForAll(n), [Next]_vars
             PROVE  LimitKnown(n)' /\ RoomForAll(n)'
  OBVIOUS
<1>1. ASSUME NEW p \in Procs, Begin(p) PROVE LimitKnown(n)' /\ RoomForAll(n)'
  BY <1>1, SubscribeKnown, TakeSeatKnown, GiveSeatKnown DEF Begin
<1>2. ASSUME NEW p \in Procs, Continue(p) PROVE LimitKnown(n)' /\ RoomForAll(n)'
  <2>1. PICK m : m \in Modules
    <3>1. req[p].at # "idle"
      BY <1>2 DEF Continue, WriteCreate, WriteUpdate, Evict, CheckLimit, CheckSeated, CountSeats, Grow,
        InsertSeat, AddUsed, DeleteSeat, SubtractUsed, Tally, Correct
    <3> QED BY <3>1 DEF TypeInv, Handler, WellPlaced
  <2> QED BY <1>2, <2>1, SubscribeKnown, CheckLimitKnown, TakeSeatKnown, GiveSeatKnown DEF Continue
<1>3. CASE ~\E p \in Procs : Begin(p) \/ Continue(p) \/ Crash(p)
  BY <1>3, OutsideKnown DEF Next
<1> QED BY <1>1, <1>2, <1>3, CrashKnown

\* Where every plan has n seats and seats are taken by the operations that count,
\* N requests that race for the last seat overbook a module by at most N - 1 seats,
\* and one request at a time never does, whatever is cancelled, bought again, swept,
\* reported by emp-billing or stopped half way in between.
THEOREM OverBookedAtMost ==
  ASSUME NEW n \in Nat, OneLimit(n)
  PROVE  Spec => []OverBookedByRacesOnly
<1>1. Init => TypeInv /\ Subscribed /\ LimitKnown(n) /\ RoomForAll(n)
  <2> SUFFICES ASSUME Init PROVE Subscribed /\ LimitKnown(n) /\ RoomForAll(n)
    BY InitType
  <2>1. Subscribed
    BY DEF Init, Subscribed
  <2>2. LimitKnown(n)
    BY DEF Init, LimitKnown, Known, Exists, Absent, Idle, SeatOps, SeatPlaces
  <2>3. \A m \in Modules : SeatsOf(m) = {} /\ Past(m) = {}
    BY DEF Init, SeatsOf, Past, Idle, SeatOps
  <2>4. Cardinality(Procs) \in Nat \ {0}
    BY FiniteAssumption, FS_CardinalityType, FS_EmptySet DEF OneLimit
  <2>5. Cardinality({}) = 0
    BY FS_EmptySet
  <2>6. 0 + 0 <= n + Cardinality(Procs) - 1
    BY <2>4
  <2>7. RoomForAll(n)
    BY <2>3, <2>5, <2>6 DEF RoomForAll
  <2> QED BY <2>1, <2>2, <2>7
<1>2. TypeInv /\ LimitKnown(n) /\ RoomForAll(n) => OverBookedByRacesOnly
  <2> SUFFICES ASSUME TypeInv, LimitKnown(n), RoomForAll(n), NEW m \in Modules, Open(m)
               PROVE  Cardinality(SeatsOf(m)) + Cardinality(Past(m))
                        <= subs[m].total + Cardinality(Procs) - 1
    BY DEF OverBookedByRacesOnly
  <2>1. subs[m].total = n
    BY DEF Open, LimitKnown, Exists
  <2>2. /\ Cardinality(SeatsOf(m)) \in Nat /\ Cardinality(Past(m)) \in Nat
        /\ Cardinality(Procs) \in Nat
    BY SeatsOfFinite, PastFinite
  <2> QED BY <2>1, <2>2 DEF RoomForAll
<1> QED BY <1>1, <1>2, NextType, StaySubscribed, NextKnown, PTL DEF Spec
===============================================================================
