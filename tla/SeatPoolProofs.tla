---------------------------- MODULE SeatPoolProofs ----------------------------
(***************************************************************************)
(* One request at a time, Subscription implements SeatPool, used_seats is  *)
(* exact and no module is over its limit, for any number of modules,       *)
(* users, seats and limits.                                                *)
(***************************************************************************)
EXTENDS SubscriptionProofs

\* The process p serves one request after the other, nobody changes a row beside
\* it, no body sets a status, and a payroll user's seat, which is not checked, is
\* not among the requests.
OneByOne(p) ==
  /\ Procs = {p} /\ "crash" \notin Faults
  /\ Ops \cap {"autoAssign", "admin", "billing", "sweep"} = {}
  /\ \A patch \in Patches : patch.status = None

TakingOps == SeatOps \ {"autoAssign"}

-----------------------------------------------------------------------------
(* The inductive invariant *)

Seats(m) == Cardinality(SeatsOf(m))

\* A seat without its count, or a count without its seat.
Uncounted(handler, m) == IF handler.at = "add" /\ handler.module = m THEN 1 ELSE 0
Gone(handler, m) == IF handler.at = "subtract" /\ handler.module = m THEN 1 ELSE 0

CountsExact(handler) ==
  \A m \in Modules : Open(m) => subs[m].used + Uncounted(handler, m) = Seats(m) + Gone(handler, m)

ClosedIsEmpty(handler) ==
  \A m \in Modules :
    ~Open(m) => SeatsOf(m) = {} \/ (handler.at = "evict" /\ handler.module = m)

NoStatusFromOutside == \A m \in Modules : subs[m].status \in {"none", "trial", "active", "cancelled"}

OneSeatEach == \A s, t \in seats : s.module = t.module /\ s.user = t.user => s = t

\* What a handler found out, or did, is still so.
StillTrue(handler) ==
  LET m == handler.module
  IN /\ handler.at = "write" => subs[m].status = handler.known /\ handler.known \in {"none", "cancelled"}
     /\ handler.at = "patch" => /\ Exists(m) /\ subs[m].status = handler.known /\ handler.patch.status = None
                                /\ handler.patch.total = 0 \/ handler.patch.total >= Seats(m)
     /\ handler.at = "evict" => subs[m].status = "cancelled"
     /\ handler.at \in SeatPlaces \cup {"add"} => Open(m) /\ handler.op \in TakingOps
     /\ handler.at \in {"limit", "seated", "count"} => handler.total = subs[m].total
     /\ handler.at = "limit" => handler.op # "biometric"
     /\ handler.at = "count" => handler.op = "biometric"
     /\ handler.at = "grow" => handler.count = Seats(m)
     /\ handler.at = "insert" => Seats(m) < subs[m].total
     /\ handler.at = "seated" /\ handler.op = "assign" => Seats(m) < subs[m].total
     /\ handler.at = "delete" => handler.seat \in seats /\ handler.seat.module = m
     /\ handler.at = "correct" => handler.count = Seats(m)

PoolInv(p) ==
  /\ TypeInv /\ sweep = {} /\ NoStatusFromOutside /\ OneSeatEach
  /\ CountsExact(req[p]) /\ ClosedIsEmpty(req[p]) /\ StillTrue(req[p])

-----------------------------------------------------------------------------
(* Steps of the pool *)

LEMMA HoldersCounted ==
  ASSUME TypeInv, NEW m
  PROVE  Cardinality(Holders(m)) \in Nat /\ Cardinality(Holders(m)) <= Seats(m) /\ Seats(m) \in Nat
<1> DEFINE f == [s \in SeatsOf(m) |-> s.user]
<1>1. f \in Surjection(SeatsOf(m), Holders(m))
  BY DEF Surjection, Holders
<1>2. IsFiniteSet(Holders(m)) /\ Cardinality(Holders(m)) <= Cardinality(SeatsOf(m))
  BY <1>1, SeatsOfFinite, FS_Surjection
<1> QED BY <1>2, SeatsOfFinite, FS_CardinalityType DEF Seats

\* SeatPool counts with a copy of the operator of its own.
LEMMA SameCardinality == \A S : Pool!Cardinality(S) = Cardinality(S)
BY DEF Pool!Cardinality, Cardinality, Pool!IsFiniteSet, IsFiniteSet

LEMMA PoolStutters ==
  ASSUME seats' = seats,
         \A m \in Modules : subs'[m].status = subs[m].status /\ subs'[m].total = subs[m].total
  PROVE  UNCHANGED Pool!vars
<1>1. \A m \in Modules : Open(m)' = Open(m) /\ Holders(m)' = Holders(m)
  BY DEF Open, Holders, SeatsOf
<1> QED BY <1>1 DEF Pool!vars

LEMMA PoolOpens ==
  ASSUME NEW m \in Modules, seats' = seats, \A x \in Modules \ {m} : subs'[x] = subs[x],
         ~Open(m), SeatsOf(m) = {}, Open(m)', subs'[m].total \in Nat
  PROVE  Pool!Next
<1>1. \A x \in Modules : Holders(x)' = Holders(x) /\ (x # m => Open(x)' = Open(x))
  BY DEF Open, Holders, SeatsOf
<1>2. Holders(m) = {}
  BY DEF Holders
<1>3. Pool!Open(m)
  BY <1>1, <1>2 DEF Pool!Open, Pool!ChangeCapacity
<1> QED BY <1>3 DEF Pool!Next

LEMMA PoolResizes ==
  ASSUME NEW m \in Modules, seats' = seats, \A x \in Modules \ {m} : subs'[x] = subs[x],
         Open(m)' = Open(m), subs'[m].total >= Cardinality(Holders(m))
  PROVE  Pool!Next
<1>1. \A x \in Modules : Holders(x)' = Holders(x) /\ Open(x)' = Open(x)
  BY DEF Open, Holders, SeatsOf
<1>2. Pool!Resize(m)
  BY <1>1, SameCardinality DEF Pool!Resize, Pool!ChangeCapacity
<1> QED BY <1>2 DEF Pool!Next

LEMMA PoolCloses ==
  ASSUME NEW m \in Modules, seats' = seats, \A x \in Modules \ {m} : subs'[x] = subs[x],
         Open(m), ~Open(m)', subs'[m].total = subs[m].total
  PROVE  Pool!Next
<1>1. \A x \in Modules : Holders(x)' = Holders(x) /\ subs'[x].total = subs[x].total
  BY DEF Holders, SeatsOf
<1>2. [x \in Modules |-> Open(x)'] = [[x \in Modules |-> Open(x)] EXCEPT ![m] = FALSE]
  <2>1. \A x \in Modules : x # m => (Open(x)' <=> Open(x))
    BY DEF Open
  <2>2. \A x \in Modules : Open(x) \in BOOLEAN /\ Open(x)' \in BOOLEAN
    BY DEF Open
  <2>3. \A x \in Modules : Open(x)' = IF x = m THEN FALSE ELSE Open(x)
    BY <2>1, <2>2
  <2> HIDE DEF Open
  <2> QED BY <2>3, Zenon
<1>3. Pool!Close(m)
  BY <1>1, <1>2 DEF Pool!Close
<1> QED BY <1>3 DEF Pool!Next

LEMMA PoolTakes ==
  ASSUME NEW m \in Modules, NEW u \in Users, NEW new, new.module = m, new.user = u,
         UNCHANGED subs, seats' = seats \cup {new}, Open(m), u \notin Holders(m),
         Cardinality(Holders(m)) < subs[m].total
  PROVE  Pool!Next
<1>1. /\ Holders(m)' = Holders(m) \cup {u}
      /\ \A x \in Modules : Open(x)' = Open(x) /\ (x # m => Holders(x)' = Holders(x))
  BY DEF Open, Holders, SeatsOf
<1>2. Pool!Take(m, u)
  BY <1>1, SameCardinality DEF Pool!Take
<1> QED BY <1>2 DEF Pool!Next

LEMMA PoolReleases ==
  ASSUME TypeInv, OneSeatEach, NEW s \in seats, UNCHANGED subs, seats' = seats \ {s}
  PROVE  Pool!Next
<1>1. s.module \in Modules /\ s.user \in Users
  BY DEF TypeInv, Seat
<1>2. /\ s.user \in Holders(s.module) /\ Holders(s.module)' = Holders(s.module) \ {s.user}
      /\ \A x \in Modules : Open(x)' = Open(x) /\ (x # s.module => Holders(x)' = Holders(x))
  BY DEF Open, Holders, SeatsOf, OneSeatEach
<1>3. Pool!Release(s.module, s.user)
  BY <1>1, <1>2 DEF Pool!Release
<1> QED BY <1>1, <1>3 DEF Pool!Next

LEMMA PoolClears ==
  ASSUME NEW m \in Modules, ~Open(m), UNCHANGED subs, seats' = seats \ SeatsOf(m)
  PROVE  Pool!Next
<1>1. /\ Holders(m)' = {}
      /\ \A x \in Modules : Open(x)' = Open(x) /\ (x # m => Holders(x)' = Holders(x))
  BY DEF Open, Holders, SeatsOf
<1>2. Pool!Clear(m)
  BY <1>1 DEF Pool!Clear
<1> QED BY <1>2 DEF Pool!Next

-----------------------------------------------------------------------------
(* Every step keeps the invariant and is a step of the pool *)

Kept(p) == PoolInv(p)' /\ [Pool!Next]_(Pool!vars)

LEMMA OneHandler ==
  ASSUME NEW p, OneByOne(p), TypeInv
  PROVE  /\ p \in Procs /\ req[p] \in Request /\ WellPlaced(req[p])
         /\ \A handler : Becomes(p, handler) => req'[p] = handler
BY DEF OneByOne, TypeInv, Handler, Becomes

\* A handler goes from one place to another and touches nothing.
LEMMA ReadKeeps ==
  ASSUME NEW p, OneByOne(p), PoolInv(p), TypeInv', UNCHANGED <<subs, seats, sweep>>,
         NEW handler, Becomes(p, handler), StillTrue(handler),
         req[p].at \notin {"add", "subtract", "evict"},
         handler.at \notin {"add", "subtract", "evict"}
  PROVE  Kept(p)
<1>1. req'[p] = handler
  BY OneHandler DEF PoolInv
<1>2. \A m : SeatsOf(m)' = SeatsOf(m) /\ Open(m)' = Open(m) /\ Exists(m)' = Exists(m)
  BY DEF SeatsOf, Open, Exists
<1>3. \A m : Seats(m)' = Seats(m)
  BY <1>2 DEF Seats
<1>4. CountsExact(req[p])' /\ ClosedIsEmpty(req[p])'
  BY <1>1, <1>2, <1>3 DEF PoolInv, CountsExact, ClosedIsEmpty, Uncounted, Gone
<1>5. StillTrue(req[p])'
  BY <1>1, <1>2, <1>3 DEF StillTrue
<1>6. NoStatusFromOutside' /\ OneSeatEach' /\ sweep' = {}
  BY DEF PoolInv, NoStatusFromOutside, OneSeatEach
<1>7. UNCHANGED Pool!vars
  BY PoolStutters
<1> QED BY <1>4, <1>5, <1>6, <1>7 DEF Kept, PoolInv

\* used_seats of a row is written, and the handler is done.
LEMMA UsedKeeps ==
  ASSUME NEW p, OneByOne(p), PoolInv(p), TypeInv', UNCHANGED <<seats, sweep>>, Respond(p),
         NEW m \in Modules, NEW n \in Int, subs' = [subs EXCEPT ![m].used = n],
         Open(m) => n = Seats(m),
         req[p].at # "evict", req[p].at \in {"add", "subtract"} => req[p].module = m
  PROVE  Kept(p)
<1>1. req'[p] = Idle
  BY OneHandler DEF PoolInv, Respond
<1>2. \A x \in Modules : /\ subs'[x].status = subs[x].status /\ subs'[x].total = subs[x].total
                         /\ x # m => subs'[x].used = subs[x].used
                         /\ x = m => subs'[x].used = n
  BY DEF PoolInv, TypeInv, Sub
<1>3. \A x \in Modules : SeatsOf(x)' = SeatsOf(x) /\ Open(x)' = Open(x)
  BY <1>2 DEF SeatsOf, Open
<1>4. \A x \in Modules : Seats(x)' = Seats(x) /\ Seats(x) \in Nat /\ subs[x].used \in Int
  BY <1>3, HoldersCounted DEF Seats, PoolInv, TypeInv, Sub
<1>5. Idle.at = "idle"
  BY DEF Idle
<1>6. CountsExact(req[p])'
  <2> SUFFICES ASSUME NEW x \in Modules, Open(x)
               PROVE  subs'[x].used + Uncounted(Idle, x) = Seats(x) + Gone(Idle, x)
    BY <1>1, <1>3, <1>4 DEF CountsExact
  <2>1. Uncounted(Idle, x) = 0 /\ Gone(Idle, x) = 0
    BY <1>5 DEF Uncounted, Gone
  <2>2. CASE x = m
    BY <1>2, <1>4, <2>1, <2>2
  <2>3. CASE x # m
    <3>1. Uncounted(req[p], x) = 0 /\ Gone(req[p], x) = 0
      BY <2>3 DEF Uncounted, Gone
    <3> QED BY <1>2, <1>4, <2>1, <2>3, <3>1 DEF PoolInv, CountsExact
  <2> QED BY <2>2, <2>3
<1>7. ClosedIsEmpty(req[p])'
  BY <1>3 DEF PoolInv, ClosedIsEmpty
<1>8. StillTrue(req[p])'
  BY <1>1, <1>5 DEF StillTrue, SeatPlaces
<1>9. NoStatusFromOutside' /\ OneSeatEach' /\ sweep' = {}
  BY <1>2 DEF PoolInv, NoStatusFromOutside, OneSeatEach
<1>10. UNCHANGED Pool!vars
  BY <1>2, PoolStutters
<1> QED BY <1>6, <1>7, <1>8, <1>9, <1>10 DEF Kept, PoolInv

\* The row of a module is written while no seat is between its insert and its count.
LEMMA RowKeeps ==
  ASSUME NEW p, OneByOne(p), PoolInv(p), TypeInv', UNCHANGED <<seats, sweep>>,
         NEW handler, Becomes(p, handler), NEW m \in Modules,
         \A x \in Modules \ {m} : subs'[x] = subs[x],
         subs'[m].status \in {"none", "trial", "active", "cancelled"},
         Open(m)' => subs'[m].used = Seats(m),
         ~Open(m)' => SeatsOf(m) = {} \/ (handler.at = "evict" /\ handler.module = m),
         StillTrue(handler)',
         req[p].at \notin {"add", "subtract", "evict"}, handler.at \notin {"add", "subtract"},
         handler.at = "evict" => handler.module = m
  PROVE  PoolInv(p)'
<1>1. req'[p] = handler
  BY OneHandler DEF PoolInv
<1>2. \A x \in Modules : SeatsOf(x)' = SeatsOf(x) /\ (x # m => Open(x)' = Open(x))
  BY DEF SeatsOf, Open
<1>3. \A x \in Modules : Seats(x)' = Seats(x) /\ Seats(x) \in Nat /\ subs'[x].used \in Int
  BY <1>2, HoldersCounted DEF Seats, PoolInv, TypeInv, Sub
<1>4. CountsExact(req[p])'
  BY <1>1, <1>2, <1>3 DEF PoolInv, CountsExact, Uncounted, Gone
<1>5. ClosedIsEmpty(req[p])'
  BY <1>1, <1>2 DEF PoolInv, ClosedIsEmpty
<1>6. NoStatusFromOutside' /\ OneSeatEach' /\ sweep' = {}
  BY DEF PoolInv, NoStatusFromOutside, OneSeatEach
<1> QED BY <1>1, <1>4, <1>5, <1>6 DEF PoolInv, StillTrue

LEMMA BeginKeeps ==
  ASSUME NEW p, OneByOne(p), PoolInv(p), TypeInv', NEW m \in Modules,
         \/ \E op \in {"create", "onboard"} : BeginCreate(p, op, m)
         \/ \E patch \in Patches : BeginUpdate(p, m, patch)
         \/ \E op \in SeatOps, u \in Users : BeginSeat(p, op, m, u)
         \/ \E op \in {"revoke", "seatRemoved"}, s \in SeatsOf(m) : BeginRevoke(p, op, s)
         \/ BeginSync(p, m)
  PROVE  Kept(p)
<1> USE DEF seatVars, billingVars
<1>1. req[p].at = "idle" /\ UNCHANGED <<subs, seats, sweep>>
  <2>1. req[p] = Idle /\ UNCHANGED <<subs, seats, sweep>>
    BY DEF BeginCreate, BeginUpdate, BeginSeat, BeginRevoke, BeginSync, Free
  <2> QED BY <2>1 DEF Idle
<1>2. ASSUME NEW handler, Becomes(p, handler), StillTrue(handler),
             handler.at \in {"write", "patch", "limit", "seated", "delete", "tally"}
      PROVE  Kept(p)
  BY <1>1, <1>2, ReadKeeps
<1>3. Seats(m) \in Nat /\ subs[m] \in Sub
  BY HoldersCounted DEF PoolInv, TypeInv
<1>4. ASSUME NEW op \in {"create", "onboard"}, BeginCreate(p, op, m) PROVE Kept(p)
  <2> DEFINE handler == [Idle EXCEPT !.op = op, !.at = "write", !.module = m, !.known = subs[m].status]
  <2>1. handler.at = "write" /\ handler.module = m /\ handler.known = subs[m].status
    BY DEF Idle
  <2>2. Becomes(p, handler) /\ subs[m].status \in {"none", "cancelled"}
    BY <1>4 DEF BeginCreate
  <2> HIDE DEF handler
  <2> QED BY <1>2, <2>1, <2>2 DEF StillTrue, SeatPlaces
<1>5. ASSUME NEW patch \in Patches, BeginUpdate(p, m, patch) PROVE Kept(p)
  <2> DEFINE handler == [Idle EXCEPT !.op = "update", !.at = "patch", !.module = m, !.patch = patch,
                                     !.known = subs[m].status, !.total = subs[m].total]
  <2>1. handler.at = "patch" /\ handler.module = m /\ handler.known = subs[m].status /\ handler.patch = patch
    BY DEF Idle
  <2>2. Becomes(p, handler) /\ Exists(m) /\ (patch.total = 0 \/ patch.total >= subs[m].used)
    BY <1>5 DEF BeginUpdate
  <2>3. patch.total = 0 \/ patch.total >= Seats(m)
    <3>1. CASE Open(m)
      BY <1>1, <1>3, <2>2, <3>1 DEF PoolInv, CountsExact, Uncounted, Gone, Sub
    <3>2. CASE ~Open(m)
      <4>1. patch \in Patch
        BY LimitsAssumption
      <4> QED BY <1>1, <3>2, <4>1, FS_EmptySet DEF PoolInv, ClosedIsEmpty, Seats, Patch
    <3> QED BY <3>1, <3>2
  <2> HIDE DEF handler
  <2> QED BY <1>2, <2>1, <2>2, <2>3 DEF StillTrue, SeatPlaces, OneByOne
<1>6. ASSUME NEW op \in SeatOps, NEW u \in Users, BeginSeat(p, op, m, u) PROVE Kept(p)
  <2> DEFINE handler == [Idle EXCEPT !.op = op, !.at = FirstCheck(op), !.module = m, !.user = u,
                                     !.total = subs[m].total]
  <2>1. /\ handler.op = op /\ handler.at = FirstCheck(op) /\ handler.module = m
        /\ handler.total = subs[m].total
    BY DEF Idle
  <2>2. Becomes(p, handler) /\ Open(m) /\ op \in TakingOps
    BY <1>6 DEF BeginSeat, Free, OneByOne, TakingOps
  <2> HIDE DEF handler
  <2>3. /\ handler.at \in {"limit", "seated"}
        /\ handler.at = "limit" => op = "assign"
        /\ handler.at = "seated" => op # "assign"
    BY <2>1 DEF FirstCheck
  <2> QED BY <1>2, <2>1, <2>2, <2>3 DEF StillTrue
<1>7. ASSUME NEW op \in {"revoke", "seatRemoved"}, NEW s \in SeatsOf(m), BeginRevoke(p, op, s)
      PROVE  Kept(p)
  <2> DEFINE handler == [Idle EXCEPT !.op = op, !.at = "delete", !.module = s.module, !.seat = s]
  <2>1. handler.at = "delete" /\ handler.module = s.module /\ handler.seat = s
    BY DEF Idle
  <2>2. Becomes(p, handler) /\ s \in seats
    BY <1>7 DEF BeginRevoke, SeatsOf
  <2> HIDE DEF handler
  <2> QED BY <1>2, <2>1, <2>2 DEF StillTrue, SeatPlaces
<1>8. CASE BeginSync(p, m)
  <2> DEFINE handler == [Idle EXCEPT !.op = "sync", !.at = "tally", !.module = m, !.used = subs[m].used]
  <2>1. handler.at = "tally"
    BY DEF Idle
  <2>2. Becomes(p, handler)
    BY <1>8 DEF BeginSync
  <2> HIDE DEF handler
  <2> QED BY <1>2, <2>1, <2>2 DEF StillTrue, SeatPlaces
<1> QED BY <1>4, <1>5, <1>6, <1>7, <1>8

LEMMA CheckKeeps ==
  ASSUME NEW p, OneByOne(p), PoolInv(p), TypeInv',
         CheckLimit(p) \/ CheckSeated(p) \/ CountSeats(p) \/ Tally(p)
  PROVE  Kept(p)
<1> USE DEF seatVars, billingVars
<1>1. req[p] \in Request /\ WellPlaced(req[p]) /\ StillTrue(req[p])
  BY OneHandler DEF PoolInv
<1> DEFINE m == req[p].module
<1>2. Seats(m) \in Nat /\ UNCHANGED <<subs, seats, sweep>>
  BY HoldersCounted DEF PoolInv, CheckLimit, CheckSeated, CountSeats, Tally
<1>3. req[p].at \in {"limit", "seated", "count", "tally"} /\ m \in Modules
  BY <1>1 DEF CheckLimit, CheckSeated, CountSeats, Tally, WellPlaced
<1>4. ASSUME NEW handler, Becomes(p, handler), StillTrue(handler),
             handler.at \in {"idle", "limit", "seated", "count", "grow", "insert", "correct"}
      PROVE  Kept(p)
  BY <1>2, <1>3, <1>4, ReadKeeps
<1>5. CASE Respond(p)
  <2>1. Idle.at = "idle" /\ StillTrue(Idle)
    BY DEF Idle, StillTrue, SeatPlaces
  <2> QED BY <1>4, <1>5, <2>1 DEF Respond
<1>6. ASSUME NEW at, GoTo(p, at)
      PROVE  \E handler : /\ Becomes(p, handler) /\ handler.at = at /\ handler.module = m
                          /\ handler.op = req[p].op /\ handler.total = req[p].total
  <2>1. Becomes(p, [req[p] EXCEPT !.at = at])
    BY <1>6 DEF GoTo
  <2>2. /\ [req[p] EXCEPT !.at = at].at = at /\ [req[p] EXCEPT !.at = at].module = m
        /\ [req[p] EXCEPT !.at = at].op = req[p].op /\ [req[p] EXCEPT !.at = at].total = req[p].total
    BY <1>1 DEF Request
  <2> QED BY <2>1, <2>2
<1>7. CASE CheckLimit(p) /\ ~Respond(p)
  <2>1. req[p].at = "limit" /\ GoTo(p, AfterLimit(req[p].op)) /\ ~(Seats(m) >= req[p].total)
    BY <1>7 DEF CheckLimit, Seats
  <2>2. PICK handler : /\ Becomes(p, handler) /\ handler.at = AfterLimit(req[p].op)
                       /\ handler.module = m /\ handler.op = req[p].op /\ handler.total = req[p].total
    BY <1>6, <2>1
  <2>3. /\ Open(m) /\ req[p].op \in TakingOps /\ req[p].total = subs[m].total /\ Seats(m) < subs[m].total
        /\ handler.at \in {"seated", "insert"}
    BY <1>1, <1>2, <2>1, <2>2 DEF StillTrue, SeatPlaces, AfterLimit, Request, PoolInv, TypeInv, Sub
  <2>4. StillTrue(handler)
    BY <2>2, <2>3 DEF StillTrue
  <2> QED BY <1>4, <2>2, <2>3, <2>4
<1>8. CASE CheckSeated(p) /\ ~Respond(p)
  <2>1. req[p].at = "seated" /\ GoTo(p, AfterSeated(req[p].op))
    BY <1>8 DEF CheckSeated
  <2>2. PICK handler : /\ Becomes(p, handler) /\ handler.at = AfterSeated(req[p].op)
                       /\ handler.module = m /\ handler.op = req[p].op /\ handler.total = req[p].total
    BY <1>6, <2>1
  <2>3. /\ Open(m) /\ req[p].op \in TakingOps /\ req[p].total = subs[m].total
        /\ req[p].op = "assign" => Seats(m) < subs[m].total
    BY <1>1, <2>1 DEF StillTrue, SeatPlaces
  <2>4. \/ req[p].op = "assign" /\ handler.at = "insert"
        \/ req[p].op = "seatAdded" /\ handler.at = "limit"
        \/ req[p].op = "biometric" /\ handler.at = "count"
    <3>1. /\ AfterSeated("assign") = "insert" /\ AfterSeated("seatAdded") = "limit"
          /\ AfterSeated("biometric") = "count"
      BY DEF AfterSeated
    <3> QED BY <2>2, <2>3, <3>1 DEF TakingOps, SeatOps
  <2>5. StillTrue(handler)
    BY <2>2, <2>3, <2>4 DEF StillTrue
  <2> QED BY <1>4, <2>2, <2>4, <2>5
<1>9. CASE CountSeats(p)
  <2> DEFINE at == IF Seats(m) >= req[p].total THEN "grow" ELSE "insert"
             handler == [req[p] EXCEPT !.at = at, !.count = Seats(m)]
  <2>1. Becomes(p, handler) /\ req[p].at = "count"
    BY <1>9 DEF CountSeats, Seats
  <2>2. /\ handler.at = at /\ handler.module = m /\ handler.op = req[p].op /\ handler.count = Seats(m)
    BY <1>1 DEF Request
  <2>3. Open(m) /\ req[p].op \in TakingOps /\ req[p].total = subs[m].total
    BY <1>1, <2>1 DEF StillTrue, SeatPlaces
  <2>4. at = "grow" \/ (at = "insert" /\ Seats(m) < subs[m].total)
    BY <1>1, <1>2, <2>3 DEF Request
  <2> HIDE DEF handler, at
  <2>5. StillTrue(handler)
    BY <2>2, <2>3, <2>4 DEF StillTrue
  <2> QED BY <1>4, <2>1, <2>2, <2>4, <2>5
<1>10. CASE Tally(p)
  <2> DEFINE handler == [req[p] EXCEPT !.at = "correct", !.count = Seats(m)]
  <2>1. Becomes(p, handler)
    BY <1>10 DEF Tally, Seats
  <2>2. handler.at = "correct" /\ handler.module = m /\ handler.count = Seats(m)
    BY <1>1 DEF Request
  <2> HIDE DEF handler
  <2>3. StillTrue(handler)
    BY <2>2 DEF StillTrue, SeatPlaces
  <2> QED BY <1>4, <2>1, <2>2, <2>3
<1> QED BY <1>5, <1>7, <1>8, <1>9, <1>10

LEMMA CreateKeeps ==
  ASSUME NEW p, OneByOne(p), PoolInv(p), TypeInv', NEW m \in Modules, m = req[p].module,
         NEW n \in Limits, NEW trial \in Trials, WriteCreate(p, n, trial)
  PROVE  Kept(p)
<1> USE DEF seatVars, billingVars
<1>1. m \in Modules /\ StillTrue(req[p]) /\ req[p].at = "write"
  BY OneHandler DEF PoolInv, WellPlaced, WriteCreate
<1>2. subs[m].status \in {"none", "cancelled"} /\ ~Open(m) /\ SeatsOf(m) = {}
  BY <1>1 DEF StillTrue, Open, PoolInv, ClosedIsEmpty
<1>3. Becomes(p, Idle) /\ UNCHANGED <<seats, sweep>>
  BY DEF WriteCreate, Respond
<1>4. Idle.at = "idle"
  BY DEF Idle
<1>5. CASE UNCHANGED subs
  BY <1>1, <1>3, <1>4, <1>5, ReadKeeps DEF StillTrue, SeatPlaces
<1>6. CASE subs' = [subs EXCEPT ![m] = Fresh(n, trial)]
  <2>1. Fresh(n, trial).status \in {"trial", "active"} /\ Fresh(n, trial).total = n /\ Fresh(n, trial).used = 0
    BY DEF Fresh
  <2>2. n \in Nat /\ Seats(m) = 0
    BY <1>2, LimitsAssumption, FS_EmptySet DEF Seats
  <2>3. \A x \in Modules \ {m} : subs'[x] = subs[x]
    BY <1>6 DEF PoolInv, TypeInv
  <2>4. subs'[m] = Fresh(n, trial)
    BY <1>1, <1>6 DEF PoolInv, TypeInv
  <2>5. Open(m)'
    BY <2>1, <2>4 DEF Open
  <2>6. PoolInv(p)'
    BY <1>1, <1>2, <1>3, <1>4, <2>1, <2>2, <2>3, <2>4, RowKeeps DEF StillTrue, SeatPlaces
  <2>7. Pool!Next
    BY <1>1, <1>2, <1>3, <2>1, <2>2, <2>3, <2>4, <2>5, PoolOpens
  <2> QED BY <2>6, <2>7 DEF Kept
<1> QED BY <1>5, <1>6 DEF WriteCreate, Reactivated

LEMMA UpdateKeeps ==
  ASSUME NEW p, OneByOne(p), PoolInv(p), TypeInv', NEW m \in Modules, m = req[p].module,
         WriteUpdate(p)
  PROVE  Kept(p)
<1> USE DEF seatVars, billingVars
<1> DEFINE patch == req[p].patch
           sub == Patched(subs[m], req[p])
<1>1. m \in Modules /\ patch \in Patch /\ StillTrue(req[p]) /\ req[p].at = "patch"
  BY OneHandler DEF PoolInv, WellPlaced, WriteUpdate
<1>2. /\ subs[m].status = req[p].known /\ patch.status = None
      /\ patch.total = 0 \/ patch.total >= Seats(m)
  BY <1>1 DEF StillTrue
<1>3. Becomes(p, Idle) /\ UNCHANGED <<seats, sweep>> /\ subs' = [subs EXCEPT ![m] = sub]
  BY DEF WriteUpdate, Respond
<1>4. Idle.at = "idle" /\ subs[m] \in Sub /\ subs[m].status \in {"none", "trial", "active", "cancelled"}
  BY <1>1 DEF Idle, PoolInv, TypeInv, NoStatusFromOutside
<1>5. /\ sub.used = subs[m].used
      /\ sub.total = IF patch.total = 0 THEN subs[m].total ELSE patch.total
      /\ sub.status = subs[m].status \/ (subs[m].status = "trial" /\ sub.status = "active")
  BY <1>2, <1>4 DEF Patched, EndsTrial, Sub
<1>6. subs'[m] = sub /\ \A x \in Modules \ {m} : subs'[x] = subs[x]
  BY <1>1, <1>3 DEF PoolInv, TypeInv
<1> HIDE DEF sub
<1>7. Open(m)' = Open(m)
  BY <1>4, <1>5, <1>6 DEF Open
<1>8. PoolInv(p)'
  <2>1. Open(m) => subs[m].used = Seats(m)
    BY <1>1, <1>4, HoldersCounted DEF PoolInv, CountsExact, Uncounted, Gone, Sub
  <2>2. ~Open(m) => SeatsOf(m) = {}
    BY <1>1 DEF PoolInv, ClosedIsEmpty
  <2> QED BY <1>1, <1>3, <1>4, <1>5, <1>6, <1>7, <2>1, <2>2, RowKeeps DEF StillTrue, SeatPlaces
<1>9. CASE patch.total = 0
  <2>1. \A x \in Modules : Open(x)' = Open(x) /\ Holders(x)' = Holders(x) /\ subs'[x].total = subs[x].total
    BY <1>3, <1>5, <1>6, <1>7, <1>9 DEF Open, Holders, SeatsOf
  <2>2. UNCHANGED Pool!vars
    BY <2>1 DEF Pool!vars
  <2> QED BY <1>8, <2>2 DEF Kept
<1>10. CASE patch.total # 0
  <2>1. subs'[m].total >= Cardinality(Holders(m))
    BY <1>1, <1>2, <1>5, <1>6, <1>10, HoldersCounted DEF PoolInv, Patch
  <2>2. Pool!Next
    BY <1>1, <1>3, <1>6, <1>7, <2>1, PoolResizes
  <2> QED BY <1>8, <2>2 DEF Kept
<1> QED BY <1>9, <1>10

LEMMA CancelKeeps ==
  ASSUME NEW p, OneByOne(p), PoolInv(p), TypeInv', NEW m \in Modules, Cancel(p, m)
  PROVE  Kept(p)
<1> USE DEF seatVars, billingVars
<1> DEFINE handler == [Idle EXCEPT !.op = "cancel", !.at = "evict", !.module = m]
<1>1. handler.at = "evict" /\ handler.module = m /\ Idle.at = "idle"
  BY DEF Idle
<1>2. /\ Becomes(p, handler) /\ UNCHANGED <<seats, sweep>> /\ req[p].at = "idle"
      /\ subs[m].status \in {"trial", "active", "cancelled"}
      /\ subs' = [subs EXCEPT ![m].status = "cancelled"]
  BY <1>1 DEF Cancel, Free, Exists, PoolInv, NoStatusFromOutside
<1> HIDE DEF handler
<1>3. /\ subs'[m].status = "cancelled" /\ subs'[m].total = subs[m].total
      /\ \A x \in Modules \ {m} : subs'[x] = subs[x]
  BY <1>2 DEF PoolInv, TypeInv, Sub
<1>4. ~Open(m)'
  BY <1>3 DEF Open
<1>5. PoolInv(p)'
  BY <1>1, <1>2, <1>3, <1>4, RowKeeps DEF StillTrue, SeatPlaces
<1>6. CASE Open(m)
  BY <1>2, <1>3, <1>4, <1>5, <1>6, PoolCloses DEF Kept
<1>7. CASE ~Open(m)
  <2>1. subs[m].status = "cancelled"
    BY <1>2, <1>7 DEF Open
  <2> QED BY <1>2, <1>3, <1>5, <2>1, PoolStutters DEF Kept
<1> QED BY <1>6, <1>7

LEMMA EvictKeeps ==
  ASSUME NEW p, OneByOne(p), PoolInv(p), TypeInv', NEW m \in Modules, m = req[p].module,
         Evict(p)
  PROVE  Kept(p)
<1> USE DEF seatVars, billingVars
<1>1. /\ m \in Modules /\ req[p].at = "evict" /\ subs[m].status = "cancelled"
      /\ req'[p] = Idle /\ Idle.at = "idle"
  BY OneHandler DEF PoolInv, WellPlaced, Evict, StillTrue, Respond, Idle
<1>2. seats' = seats \ SeatsOf(m) /\ UNCHANGED <<subs, sweep>> /\ ~Open(m)
  BY <1>1 DEF Evict, Open
<1>3. /\ SeatsOf(m)' = {}
      /\ \A x \in Modules : Open(x)' = Open(x) /\ (x # m => SeatsOf(x)' = SeatsOf(x))
  BY <1>2 DEF SeatsOf, Open
<1>4. CountsExact(req[p])' /\ ClosedIsEmpty(req[p])'
  BY <1>1, <1>2, <1>3 DEF PoolInv, CountsExact, ClosedIsEmpty, Seats, Uncounted, Gone
<1>5. NoStatusFromOutside' /\ OneSeatEach' /\ sweep' = {} /\ StillTrue(req[p])'
  BY <1>1, <1>2 DEF PoolInv, NoStatusFromOutside, OneSeatEach, StillTrue, SeatPlaces
<1>6. Pool!Next
  BY <1>1, <1>2, PoolClears
<1> QED BY <1>4, <1>5, <1>6 DEF Kept, PoolInv

LEMMA GrowKeeps ==
  ASSUME NEW p, OneByOne(p), PoolInv(p), TypeInv', NEW m \in Modules, m = req[p].module,
         Grow(p)
  PROVE  Kept(p)
<1> USE DEF seatVars, billingVars
<1>1. m \in Modules /\ req[p] \in Request /\ StillTrue(req[p]) /\ req[p].at = "grow"
  BY OneHandler DEF PoolInv, WellPlaced, Grow
<1>2. PICK handler : handler = [req[p] EXCEPT !.at = "insert"]
  OBVIOUS
<1>3. handler.at = "insert" /\ handler.module = m /\ handler.op = req[p].op
  BY <1>1, <1>2 DEF Request
<1>4. /\ Becomes(p, handler) /\ UNCHANGED <<seats, sweep>>
      /\ subs' = [subs EXCEPT ![m].total = req[p].count + 1]
  BY <1>2 DEF Grow, GoTo
<1>5. Open(m) /\ req[p].op \in TakingOps /\ req[p].count = Seats(m)
  BY <1>1 DEF StillTrue, SeatPlaces
<1>6. /\ subs'[m].total = Seats(m) + 1 /\ subs'[m].status = subs[m].status
      /\ subs'[m].used = subs[m].used /\ \A x \in Modules \ {m} : subs'[x] = subs[x]
  BY <1>1, <1>4, <1>5 DEF PoolInv, TypeInv, Sub
<1>7. Open(m)' = Open(m) /\ Seats(m)' = Seats(m)
  BY <1>4, <1>6 DEF Open, Seats, SeatsOf
<1>8. Seats(m) \in Nat /\ Cardinality(Holders(m)) <= Seats(m) /\ Cardinality(Holders(m)) \in Nat
  BY HoldersCounted DEF PoolInv
<1>9. PoolInv(p)'
  <2>1. subs[m].used = Seats(m) /\ subs[m].status \in {"none", "trial", "active", "cancelled"}
    <3>1. subs[m].used \in Int
      BY <1>1 DEF PoolInv, TypeInv, Sub
    <3> QED BY <1>1, <1>5, <1>8, <3>1 DEF PoolInv, CountsExact, NoStatusFromOutside, Uncounted, Gone
  <2>2. StillTrue(handler)'
    BY <1>3, <1>5, <1>6, <1>7, <1>8 DEF StillTrue, Seats, SeatsOf, Open
  <2> QED BY <1>1, <1>3, <1>4, <1>5, <1>6, <1>7, <2>1, <2>2, RowKeeps
<1>10. Pool!Next
  <2>1. subs'[m].total >= Cardinality(Holders(m))
    BY <1>6, <1>8
  <2> QED BY <1>1, <1>4, <1>6, <1>7, <2>1, PoolResizes
<1> QED BY <1>9, <1>10 DEF Kept

LEMMA InsertKeeps ==
  ASSUME NEW p, OneByOne(p), PoolInv(p), TypeInv', NEW m \in Modules, m = req[p].module,
         InsertSeat(p)
  PROVE  Kept(p)
<1> USE DEF seatVars, billingVars
<1> DEFINE u == req[p].user
<1>1. /\ req[p] \in Request /\ u \in Users /\ StillTrue(req[p]) /\ req[p].at = "insert"
      /\ UNCHANGED <<subs, sweep>>
  BY OneHandler DEF PoolInv, WellPlaced, SeatPlaces, InsertSeat
<1>2. Open(m) /\ req[p].op \in TakingOps /\ Seats(m) < subs[m].total
  BY <1>1 DEF StillTrue, SeatPlaces
<1>3. CASE u \in Holders(m)
  <2>1. Becomes(p, Idle) /\ UNCHANGED seats
    BY <1>3 DEF InsertSeat, Respond
  <2>2. Idle.at = "idle"
    BY DEF Idle
  <2> QED BY <1>1, <2>1, <2>2, ReadKeeps DEF StillTrue, SeatPlaces
<1>4. CASE u \notin Holders(m)
  <2>1. PICK new : new = [module |-> m, user |-> u, id |-> lastId + 1]
    OBVIOUS
  <2>2. PICK handler : handler = [req[p] EXCEPT !.at = "add"]
    OBVIOUS
  <2>3. seats' = seats \cup {new} /\ req'[p] = handler
    BY <1>4, <2>1, <2>2, OneHandler DEF PoolInv, InsertSeat, GoTo
  <2>4. handler.at = "add" /\ handler.module = m /\ handler.op = req[p].op
    BY <1>1, <2>2 DEF Request
  <2>5. new.module = m /\ new.user = u /\ \A s \in SeatsOf(m) : s.user # u
    BY <1>4, <2>1 DEF Holders
  <2>6. SeatsOf(m)' = SeatsOf(m) \cup {new} /\ new \notin SeatsOf(m)
    BY <2>3, <2>5 DEF SeatsOf
  <2>7. \A x \in Modules : Open(x)' = Open(x) /\ (x # m => SeatsOf(x)' = SeatsOf(x))
    BY <1>1, <2>3, <2>5 DEF SeatsOf, Open
  <2>8. Seats(m)' = Seats(m) + 1 /\ \A x \in Modules : x # m => Seats(x)' = Seats(x)
    BY <2>6, <2>7, SeatsOfFinite, FS_AddElement DEF Seats, PoolInv
  <2>9. CountsExact(req[p])'
    <3> SUFFICES ASSUME NEW x \in Modules, Open(x)
                 PROVE  subs[x].used + Uncounted(handler, x) = Seats(x)' + Gone(handler, x)
      BY <1>1, <2>3, <2>7 DEF CountsExact
    <3>1. subs[x].used = Seats(x) /\ Seats(x) \in Nat
      <4>1. subs[x].used \in Int /\ Seats(x) \in Nat
        BY HoldersCounted DEF PoolInv, TypeInv, Sub
      <4> QED BY <1>1, <4>1 DEF PoolInv, CountsExact, Uncounted, Gone
    <3> QED BY <2>4, <2>8, <3>1 DEF Uncounted, Gone
  <2>10. ClosedIsEmpty(req[p])'
    BY <1>1, <1>2, <2>3, <2>7 DEF PoolInv, ClosedIsEmpty
  <2>11. OneSeatEach'
    <3>1. \A s \in seats : s.module = m => s.user # u
      BY <2>5 DEF SeatsOf
    <3> QED BY <2>3, <2>5, <3>1 DEF PoolInv, OneSeatEach
  <2>12. StillTrue(req[p])'
    BY <1>1, <1>2, <2>3, <2>4 DEF StillTrue, Open
  <2>13. NoStatusFromOutside' /\ sweep' = {}
    BY <1>1 DEF PoolInv, NoStatusFromOutside
  <2>14. Pool!Next
    <3>1. Cardinality(Holders(m)) < subs[m].total
      <4>1. subs[m].total \in Nat
        BY DEF PoolInv, TypeInv, Sub
      <4> QED BY <1>2, <4>1, HoldersCounted DEF PoolInv
    <3>2. new.user \in Users /\ new.user \notin Holders(m)
      BY <1>1, <1>4, <2>5
    <3> QED BY <1>1, <1>2, <2>3, <2>5, <3>1, <3>2, PoolTakes
  <2> QED BY <2>9, <2>10, <2>11, <2>12, <2>13, <2>14 DEF Kept, PoolInv
<1> QED BY <1>3, <1>4

LEMMA DeleteKeeps ==
  ASSUME NEW p, OneByOne(p), PoolInv(p), TypeInv', NEW m \in Modules, m = req[p].module,
         DeleteSeat(p)
  PROVE  Kept(p)
<1> USE DEF seatVars, billingVars
<1>1. /\ req[p] \in Request /\ StillTrue(req[p]) /\ req[p].at = "delete"
      /\ UNCHANGED <<subs, sweep>>
  BY OneHandler DEF PoolInv, DeleteSeat
<1>2. PICK s \in seats : s = req[p].seat
  BY <1>1 DEF StillTrue
<1>3. PICK handler : handler = [req[p] EXCEPT !.at = "subtract"]
  OBVIOUS
<1>4. seats' = seats \ {s} /\ req'[p] = handler
  BY <1>2, <1>3, OneHandler DEF PoolInv, DeleteSeat, GoTo
<1>5. handler.at = "subtract" /\ handler.module = m /\ s.module = m
  BY <1>1, <1>2, <1>3 DEF Request, StillTrue
<1>6. SeatsOf(m)' = SeatsOf(m) \ {s} /\ s \in SeatsOf(m)
  BY <1>4, <1>5 DEF SeatsOf
<1>7. \A x \in Modules : Open(x)' = Open(x) /\ (x # m => SeatsOf(x)' = SeatsOf(x))
  BY <1>1, <1>4, <1>5 DEF SeatsOf, Open
<1>8. Seats(m)' = Seats(m) - 1 /\ \A x \in Modules : x # m => Seats(x)' = Seats(x)
  BY <1>6, <1>7, SeatsOfFinite, FS_RemoveElement, ZenonT(60) DEF Seats, PoolInv
<1>9. CountsExact(req[p])'
  <2> SUFFICES ASSUME NEW x \in Modules, Open(x)
               PROVE  subs[x].used + Uncounted(handler, x) = Seats(x)' + Gone(handler, x)
    BY <1>1, <1>4, <1>7 DEF CountsExact
  <2>1. subs[x].used = Seats(x) /\ Seats(x) \in Nat
    <3>1. subs[x].used \in Int /\ Seats(x) \in Nat
      BY HoldersCounted DEF PoolInv, TypeInv, Sub
    <3> QED BY <1>1, <3>1 DEF PoolInv, CountsExact, Uncounted, Gone
  <2> QED BY <1>5, <1>8, <2>1 DEF Uncounted, Gone
<1>10. ClosedIsEmpty(req[p])'
  BY <1>1, <1>4, <1>6, <1>7 DEF PoolInv, ClosedIsEmpty
<1>11. StillTrue(req[p])'
  BY <1>4, <1>5 DEF StillTrue, SeatPlaces
<1>12. NoStatusFromOutside' /\ OneSeatEach' /\ sweep' = {}
  BY <1>1, <1>4 DEF PoolInv, NoStatusFromOutside, OneSeatEach
<1>13. Pool!Next
  BY <1>1, <1>4, PoolReleases DEF PoolInv
<1> QED BY <1>9, <1>10, <1>11, <1>12, <1>13 DEF Kept, PoolInv

LEMMA CountKeeps ==
  ASSUME NEW p, OneByOne(p), PoolInv(p), TypeInv', NEW m \in Modules, m = req[p].module,
         AddUsed(p) \/ SubtractUsed(p) \/ Correct(p)
  PROVE  Kept(p)
<1> USE DEF seatVars, billingVars
<1>1. /\ req[p] \in Request /\ StillTrue(req[p]) /\ req[p].at \in {"add", "subtract", "correct"}
      /\ UNCHANGED <<seats, sweep>> /\ Respond(p)
  BY OneHandler DEF PoolInv, AddUsed, SubtractUsed, Correct
<1>2. subs[m].used \in Int /\ Seats(m) \in Nat
  BY HoldersCounted DEF PoolInv, TypeInv, Sub
<1>3. CASE AddUsed(p)
  <2>1. subs' = [subs EXCEPT ![m].used = subs[m].used + 1] /\ req[p].at = "add"
    BY <1>3 DEF AddUsed
  <2>2. Open(m) => subs[m].used + 1 = Seats(m)
    BY <1>2, <2>1 DEF PoolInv, CountsExact, Uncounted, Gone
  <2>3. subs[m].used + 1 \in Int
    BY <1>2
  <2> QED BY <1>1, <2>1, <2>2, <2>3, UsedKeeps
<1>4. CASE SubtractUsed(p)
  <2>1. subs' = [subs EXCEPT ![m].used = subs[m].used - 1] /\ req[p].at = "subtract"
    BY <1>4 DEF SubtractUsed
  <2>2. Open(m) => subs[m].used - 1 = Seats(m)
    BY <1>2, <2>1 DEF PoolInv, CountsExact, Uncounted, Gone
  <2>3. subs[m].used - 1 \in Int
    BY <1>2
  <2> QED BY <1>1, <2>1, <2>2, <2>3, UsedKeeps
<1>5. CASE Correct(p)
  <2>1. req[p].at = "correct" /\ req[p].count = Seats(m) /\ Seats(m) \in Int
    BY <1>1, <1>2, <1>5 DEF Correct, StillTrue
  <2>2. CASE UNCHANGED subs
    <3>1. Idle.at = "idle" /\ StillTrue(Idle)
      BY DEF Idle, StillTrue, SeatPlaces
    <3> QED BY <1>1, <2>1, <2>2, <3>1, ReadKeeps DEF Respond
  <2>3. CASE subs' = [subs EXCEPT ![m].used = Seats(m)]
    BY <1>1, <2>1, <2>3, UsedKeeps
  <2> QED BY <1>5, <2>1, <2>2, <2>3 DEF Correct
<1> QED BY <1>3, <1>4, <1>5

\* A trial that runs out and a post that arrives change nothing SeatPool shows.
LEMMA OutsideKeeps ==
  ASSUME NEW p, OneByOne(p), PoolInv(p), TypeInv',
         \/ UNCHANGED vars
         \/ \E m \in Modules : TrialRunsOut(m) \/ PostArrives(m)
  PROVE  Kept(p)
<1>1. /\ UNCHANGED <<seats, sweep, req>>
      /\ \A x \in Modules : /\ subs'[x].status = subs[x].status /\ subs'[x].total = subs[x].total
                            /\ subs'[x].used = subs[x].used
  BY DEF vars, TrialRunsOut, PostArrives, seatVars, billingVars, PoolInv, TypeInv, Sub
<1>2. \A x \in Modules : SeatsOf(x)' = SeatsOf(x) /\ Open(x)' = Open(x) /\ Exists(x)' = Exists(x)
  BY <1>1 DEF SeatsOf, Open, Exists
<1>3. \A x \in Modules : Seats(x)' = Seats(x)
  BY <1>2 DEF Seats
<1>4. CountsExact(req[p])' /\ ClosedIsEmpty(req[p])'
  BY <1>1, <1>2, <1>3 DEF PoolInv, CountsExact, ClosedIsEmpty, Uncounted, Gone
<1>5. StillTrue(req[p])'
  <2>1. req[p].at # "idle" => req[p].module \in Modules
    BY OneHandler DEF PoolInv, WellPlaced
  <2>2. StillTrue(req[p])
    BY DEF PoolInv
  <2> QED BY <1>1, <1>2, <1>3, <2>1, <2>2 DEF StillTrue, SeatPlaces
<1>6. NoStatusFromOutside' /\ OneSeatEach' /\ sweep' = {}
  BY <1>1 DEF PoolInv, NoStatusFromOutside, OneSeatEach
<1>7. UNCHANGED Pool!vars
  BY <1>1, PoolStutters
<1> QED BY <1>4, <1>5, <1>6, <1>7 DEF Kept, PoolInv

LEMMA NextKeeps ==
  ASSUME NEW p, OneByOne(p)
  PROVE  PoolInv(p) /\ [Next]_vars => PoolInv(p)' /\ [Pool!Next]_(Pool!vars)
<1> SUFFICES ASSUME PoolInv(p), [Next]_vars PROVE Kept(p)
  BY DEF Kept
<1>1. TypeInv'
  BY NextType DEF PoolInv
<1>2. CASE Begin(p)
  BY <1>1, <1>2, BeginKeeps, CancelKeeps DEF Begin
<1>3. CASE Continue(p)
  <2>1. PICK m \in Modules : m = req[p].module
    <3>1. req[p].at # "idle"
      BY <1>3 DEF Continue, WriteCreate, WriteUpdate, Evict, CheckLimit, CheckSeated, CountSeats, Grow,
        InsertSeat, AddUsed, DeleteSeat, SubtractUsed, Tally, Correct
    <3> QED BY <3>1, OneHandler DEF PoolInv, WellPlaced
  <2> QED BY <1>1, <1>3, <2>1, CreateKeeps, UpdateKeeps, EvictKeeps, CheckKeeps, GrowKeeps, InsertKeeps,
          DeleteKeeps, CountKeeps DEF Continue
<1>4. ASSUME Crash(p) \/ StartSweep \/ SweepStep
               \/ \E m \in Modules : AdminUpdate(m) \/ BillingReports(m)
      PROVE  FALSE
  <2>1. "crash" \notin Faults /\ "sweep" \notin Ops /\ "admin" \notin Ops /\ "billing" \notin Ops
    BY DEF OneByOne
  <2>2. sweep = {}
    BY DEF PoolInv
  <2> QED BY <1>4, <2>1, <2>2 DEF Crash, StartSweep, SweepStep, ExpireTrial, SkipBroken, AdminUpdate,
          BillingReports
<1>5. CASE UNCHANGED vars \/ \E m \in Modules : TrialRunsOut(m) \/ PostArrives(m)
  BY <1>1, <1>5, OutsideKeeps
<1>6. \A q \in Procs : q = p
  BY DEF OneByOne
<1> QED BY <1>2, <1>3, <1>4, <1>5, <1>6 DEF Next

LEMMA InitKeeps ==
  ASSUME NEW p, OneByOne(p), Init
  PROVE  PoolInv(p) /\ Pool!Init
<1>1. /\ req[p] = Idle /\ Idle.at = "idle" /\ seats = {} /\ sweep = {} /\ TypeInv
      /\ \A m \in Modules : subs[m] = Absent /\ SeatsOf(m) = {} /\ Holders(m) = {}
  BY InitType DEF Init, OneByOne, Idle, SeatsOf, Holders
<1>2. \A m \in Modules : ~Open(m) /\ subs[m].status = "none" /\ subs[m].total = 0
  BY <1>1 DEF Open, Absent
<1>3. PoolInv(p)
  BY <1>1, <1>2 DEF PoolInv, NoStatusFromOutside, OneSeatEach, CountsExact, ClosedIsEmpty, StillTrue,
    SeatPlaces
<1>4. Pool!Init
  <2>1. \A m \in Modules : Open(m) \in BOOLEAN
    BY DEF Open
  <2>2. \A m \in Modules : Open(m) = FALSE
    BY <1>2, <2>1
  <2> HIDE DEF Open
  <2> QED BY <1>1, <1>2, <2>2 DEF Pool!Init
<1> QED BY <1>3, <1>4

-----------------------------------------------------------------------------
(* What the pool is for *)

Within(m) == Open(m) => Cardinality(Holders(m)) <= subs[m].total

\* No step of a pool puts it over its limit.
LEMMA PoolWithin ==
  ASSUME TypeInv, TypeInv', NEW m \in Modules, Within(m), [Pool!Next]_(Pool!vars)
  PROVE  Within(m)'
<1> DEFINE o == [x \in Modules |-> Open(x)]
           c == [x \in Modules |-> subs[x].total]
           h == [x \in Modules |-> Holders(x)]
           H == Holders(m)
<1>1. /\ Cardinality(H) \in Nat /\ IsFiniteSet(H)
      /\ subs[m].total \in Nat /\ subs'[m].total \in Nat
  <2>1. IsFiniteSet(H)
    <3> DEFINE f == [s \in SeatsOf(m) |-> s.user]
    <3>1. f \in Surjection(SeatsOf(m), Holders(m))
      BY DEF Surjection, Holders
    <3> QED BY <3>1, SeatsOfFinite, FS_Surjection
  <2> QED BY <2>1, FS_CardinalityType DEF TypeInv, Sub
<1>2. /\ o \in [Modules -> BOOLEAN] /\ o[m] = Open(m) /\ o'[m] = Open(m)'
      /\ DOMAIN h = Modules /\ h[m] = H /\ h'[m] = H'
      /\ c'[m] = subs'[m].total /\ c[m] = subs[m].total /\ DOMAIN c = Modules
  BY DEF Open
<1>3. [Pool!Next]_<<o, c, h>>
  BY DEF Pool!vars
<1>4. /\ \A x \in Modules : /\ Pool!Open(x) <=> /\ ~o[x] /\ h[x] = {}
                                                /\ o' = [o EXCEPT ![x] = TRUE]
                                                /\ c' = [c EXCEPT ![x] = c'[x]] /\ c'[x] \in Nat
                                                /\ h' = h
                            /\ Pool!Resize(x) <=> /\ c' = [c EXCEPT ![x] = c'[x]]
                                                  /\ c'[x] >= Cardinality(h[x])
                                                  /\ o' = o /\ h' = h
                            /\ Pool!Close(x) => o' = [o EXCEPT ![x] = FALSE] /\ c' = c /\ h' = h
                            /\ Pool!Clear(x) => h' = [h EXCEPT ![x] = {}] /\ o' = o /\ c' = c
                            /\ \A u : /\ Pool!Take(x, u) => /\ Cardinality(h[x]) < c[x]
                                                            /\ h' = [h EXCEPT ![x] = @ \cup {u}]
                                                            /\ o' = o /\ c' = c
                                      /\ Pool!Release(x, u) => /\ h' = [h EXCEPT ![x] = @ \ {u}]
                                                               /\ o' = o /\ c' = c
  BY SameCardinality, Zenon DEF Pool!Open, Pool!Resize, Pool!Close, Pool!Clear, Pool!Take, Pool!Release,
    Pool!ChangeCapacity
<1>5. Cardinality({}) = 0 /\ \A u : Cardinality(H \ {u}) <= Cardinality(H)
  BY <1>1, FS_EmptySet, FS_Subset, FS_CardinalityType
<1>6. ASSUME NEW u, Cardinality(H) < c[m] PROVE Cardinality(H \cup {u}) <= c[m]
  <2>1. c[m] \in Nat
    BY <1>1, <1>2
  <2> HIDE DEF c, H
  <2>2. Cardinality(H \cup {u}) = IF u \in H THEN Cardinality(H) ELSE Cardinality(H) + 1
    BY <1>1, FS_AddElement
  <2> QED BY <1>1, <1>6, <2>1, <2>2
<1>7. (o[m] => Cardinality(h[m]) <= c[m]) => (o'[m] => Cardinality(h'[m]) <= c'[m])
  <2> HIDE DEF o, c, h, H
  <2> SUFFICES ASSUME o[m] => Cardinality(h[m]) <= c[m], o'[m] PROVE Cardinality(h'[m]) <= c'[m]
    OBVIOUS
  <2>1. CASE UNCHANGED <<o, c, h>>
    BY <2>1
  <2>2. CASE Pool!Next
    <3>1. PICK x \in Modules : \/ Pool!Open(x) \/ Pool!Resize(x) \/ Pool!Close(x) \/ Pool!Clear(x)
                               \/ \E u \in Users : Pool!Take(x, u) \/ Pool!Release(x, u)
      BY <2>2 DEF Pool!Next
    <3>2. CASE Pool!Open(x)
      <4>1. h' = h /\ h[x] = {} /\ c'[x] \in Nat /\ \A y \in Modules \ {x} : o'[y] = o[y] /\ c'[y] = c[y]
        BY <1>2, <1>4, <3>2
      <4> QED BY <1>5, <4>1
    <3>3. CASE Pool!Resize(x)
      BY <1>1, <1>2, <1>4, <3>3
    <3>4. CASE Pool!Close(x)
      BY <1>2, <1>4, <3>4
    <3>5. CASE Pool!Clear(x)
      <4>1. o' = o /\ c' = c /\ h'[m] = IF x = m THEN {} ELSE h[m]
        BY <1>2, <1>4, <3>5
      <4>2. c[m] \in Nat
        BY <1>1, <1>2
      <4> QED BY <1>5, <4>1, <4>2
    <3>6. ASSUME NEW u \in Users, Pool!Take(x, u) PROVE Cardinality(h'[m]) <= c'[m]
      <4>1. /\ o' = o /\ c' = c /\ Cardinality(h[x]) < c[x]
            /\ h'[m] = IF x = m THEN H \cup {u} ELSE h[m]
        BY <1>2, <1>4, <3>6
      <4> QED BY <1>2, <1>6, <4>1
    <3>7. ASSUME NEW u \in Users, Pool!Release(x, u) PROVE Cardinality(h'[m]) <= c'[m]
      <4>1. o' = o /\ c' = c /\ h'[m] = IF x = m THEN H \ {u} ELSE h[m]
        BY <1>2, <1>4, <3>7
      <4>2. Cardinality(H \ {u}) \in Nat /\ c[m] \in Nat
        BY <1>1, <1>2, FS_Subset, FS_CardinalityType
      <4> QED BY <1>1, <1>2, <1>5, <4>1, <4>2
    <3> QED BY <3>1, <3>2, <3>3, <3>4, <3>5, <3>6, <3>7
  <2> QED BY <1>3, <2>1, <2>2
<1> QED BY <1>2, <1>7 DEF Within

-----------------------------------------------------------------------------
(* The theorems *)

\* One request at a time, used_seats of an open subscription is the number of its
\* seats, but for the seat the request has inserted or deleted and not counted yet:
\* the limit updateSubscription allows is never below the seats that are held.
THEOREM UsedSeatsAreExact ==
  ASSUME NEW p, OneByOne(p)
  PROVE  Spec => []UsedSeatsExact
<1>1. PoolInv(p) => UsedSeatsExact
  <2> SUFFICES ASSUME PoolInv(p), NEW m \in Modules, Open(m)
               PROVE  subs[m].used + At("add", m) = Cardinality(SeatsOf(m)) + At("subtract", m)
    BY DEF UsedSeatsExact
  <2>1. ASSUME NEW place
        PROVE  At(place, m) = IF req[p].at = place /\ req[p].module = m THEN 1 ELSE 0
    <3>1. {q \in Procs : req[q].at = place /\ req[q].module = m}
            = IF req[p].at = place /\ req[p].module = m THEN {p} ELSE {}
      BY DEF OneByOne
    <3> QED BY <3>1, FS_Singleton, FS_EmptySet DEF At
  <2> QED BY <2>1 DEF PoolInv, CountsExact, Uncounted, Gone, Seats
<1> QED BY <1>1, InitKeeps, NextKeeps, PTL DEF Spec

\* One request at a time, the modules of an organization are the pools SeatPool
\* promises: a seat is taken in an open module with room for it and by a user who
\* has none, a limit is never set below the seats that are held, a cancelled module
\* is emptied and a module that is bought, or bought again, is empty.
THEOREM ImplementsSeatPool ==
  ASSUME NEW p, OneByOne(p)
  PROVE  Spec => KeepsSeatPool
BY InitKeeps, NextKeeps, PTL DEF Spec, KeepsSeatPool, Pool!Spec

\* One request at a time, no module ever has more seats than were bought, a seat that
\* is about to be taken included, however the limit is changed, the module cancelled
\* and bought again: the pool that Subscription implements is not over its limit, and
\* no user counts for two seats.
THEOREM NeverOverBooked ==
  ASSUME NEW p, OneByOne(p)
  PROVE  Spec => []OverBookedByRacesOnly
<1> DEFINE AllWithin == \A m \in Modules : Within(m)
<1>1. Init => PoolInv(p) /\ AllWithin
  BY InitKeeps DEF Init, Within, Open, Absent
<1>2. PoolInv(p) /\ AllWithin /\ [Next]_vars => PoolInv(p)' /\ AllWithin'
  <2> SUFFICES ASSUME PoolInv(p), AllWithin, [Next]_vars PROVE PoolInv(p)' /\ AllWithin'
    OBVIOUS
  <2>1. PoolInv(p)' /\ [Pool!Next]_(Pool!vars)
    BY NextKeeps
  <2>2. TypeInv /\ TypeInv'
    BY <2>1 DEF PoolInv
  <2>3. ASSUME NEW m \in Modules PROVE Within(m)'
    BY <2>1, <2>2, PoolWithin
  <2> QED BY <2>1, <2>3
<1>3. PoolInv(p) /\ AllWithin => OverBookedByRacesOnly
  <2> SUFFICES ASSUME PoolInv(p), NEW m \in Modules, Within(m), Open(m)
               PROVE  Cardinality(SeatsOf(m)) + Cardinality(Past(m))
                        <= subs[m].total + Cardinality(Procs) - 1
    BY DEF OverBookedByRacesOnly
  <2>1. Cardinality(SeatsOf(m)) = Cardinality(Holders(m))
    <3> DEFINE f == [s \in SeatsOf(m) |-> s.user]
    <3>1. f \in Surjection(SeatsOf(m), Holders(m)) /\ f \in Injection(SeatsOf(m), Holders(m))
      <4>1. \A s, t \in SeatsOf(m) : s.user = t.user => s = t
        BY DEF PoolInv, OneSeatEach, SeatsOf
      <4>2. DOMAIN f = SeatsOf(m) /\ \A s \in SeatsOf(m) : f[s] = s.user
        OBVIOUS
      <4>3. f \in Surjection(SeatsOf(m), Holders(m))
        BY DEF Surjection, Holders
      <4>4. f \in [SeatsOf(m) -> Holders(m)]
        BY <4>3 DEF Surjection
      <4> HIDE DEF f
      <4> QED BY <4>1, <4>2, <4>3, <4>4 DEF Injection, IsInjective
    <3> QED BY <3>1, SeatsOfFinite, FS_Surjection DEF PoolInv
  <2>2. Cardinality(Procs) = 1 /\ subs[m].total \in Nat
    BY FS_Singleton DEF OneByOne, PoolInv, TypeInv, Sub
  <2>3. Cardinality(SeatsOf(m)) <= subs[m].total /\ Cardinality(SeatsOf(m)) \in Nat
    BY <2>1, SeatsOfFinite, FS_CardinalityType DEF Within, PoolInv
  <2>4. CASE Past(m) = {}
    BY <2>2, <2>3, <2>4, FS_EmptySet
  <2>5. CASE Past(m) # {}
    <3>1. Past(m) = {p} /\ p \in Past(m)
      BY <2>5 DEF Past, OneByOne
    <3>2. req[p].module = m /\ Seats(m) < subs[m].total
      BY <3>1 DEF Past, PoolInv, StillTrue
    <3>3. Cardinality(Past(m)) = 1
      BY <3>1, FS_Singleton
    <3>4. Cardinality(SeatsOf(m)) < subs[m].total
      BY <3>2 DEF Seats
    <3> QED BY <2>2, <2>3, <3>3, <3>4
  <2> QED BY <2>4, <2>5
<1> QED BY <1>1, <1>2, <1>3, PTL DEF Spec
===============================================================================
