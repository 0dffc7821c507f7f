------------------------------ MODULE OffersProofs ------------------------------
(***************************************************************************)
(* Theorems of Offers, for every number of requests, applications, users,  *)
(* offers and tasks.  Each invariant names the few operations that must    *)
(* not overlap others and the few whose handler must not stop half way:    *)
(* everything else interleaves at every await.                             *)
(***************************************************************************)
EXTENDS Offers, FiniteSetTheorems, TLAPS

-----------------------------------------------------------------------------
(* Types *)

\* Which operation a handler serves, from where it stands.
OpsAt == [idle |-> {"idle"}, insert |-> {"create"}, stage |-> {"create"}, delete |-> {"delete"},
          clear |-> {"submit"}, ask |-> {"submit"},
          find |-> {"approve", "reject"}, mark |-> {"approve", "reject"},
          override |-> {"approve"}, flip |-> {"approve"}, draft |-> {"reject"},
          write |-> {"send", "revoke", "decline"}, hire |-> {"accept"}, next |-> {"accept", "list"},
          active |-> {"accept", "list", "generate"}, checklist |-> {"accept", "list", "generate"},
          tasks |-> {"accept", "list", "generate"}]

OfferOps == {"delete", "submit", "approve", "reject", "send", "revoke", "decline", "accept"}

\* A handler knows its offer, its application and its row as soon as it needs them.
WellPlaced(h) ==
  /\ h.op \in OpsAt[h.at]
  /\ h.op \in OfferOps => h.offer \in 1..Offers
  /\ h.at \in {"insert", "stage", "hire", "active", "checklist", "tasks"} => h.app \in Apps
  /\ h.at \in {"mark", "tasks"} => h.row \in Nat

Handler == {h \in Request : WellPlaced(h)}

\* A stored offer is of an application, and no offer is stored beyond the last id.
Stored(os) == \A o \in 1..Offers : os[o].status # "none" => os[o].app \in Apps
Beyond(os, last) == \A o \in 1..Offers : o > last => os[o].status = "none"

TypeInv ==
  /\ TypeOK /\ req \in [Procs -> Handler]
  /\ Stored(offers) /\ Beyond(offers, lastOffer)
  /\ \A p \in Procs : req[p].op \in OfferOps => req[p].offer <= lastOffer

\* While an operation that is alone is under way nothing else is.
AloneInv ==
  \A p, q \in Procs : p # q /\ req[p].op \in Alone => req[q] = Idle

-----------------------------------------------------------------------------
(* One live offer *)

LiveIn(os, o) == os[o].status \in Status \ Terminal

\* A request that began with a live offer brings it back to life if that is
\* withdrawn or refused meanwhile, so such an offer counts as well.
Reviving == {"submit", "reject", "send", "accept"}
Engaged(os, rq, o) ==
  \/ LiveIn(os, o)
  \/ os[o].status \in Terminal /\ \E p \in Procs : rq[p].op \in Reviving /\ rq[p].offer = o

OneEngaged(os, rq) ==
  \A o, x \in 1..Offers : Engaged(os, rq, o) /\ Engaged(os, rq, x) /\ os[o].app = os[x].app => o = x

\* The offer to be inserted will be the only live one.
HandlerLive(h, os) ==
  h.at = "insert" => \A o \in 1..Offers : LiveIn(os, o) => os[o].app # h.app

LiveInv ==
  /\ TypeInv /\ AloneInv /\ OneEngaged(offers, req)
  /\ \A p \in Procs : HandlerLive(req[p], offers)

-----------------------------------------------------------------------------
(* Hired is accepted *)

IsOut(os, o) == os[o].status \in {"sent", "accepted"}

\* What a handler may take from an accepted offer is not accepted, and cannot
\* become so: it is not sent either, or nothing else is under way.
HandlerHires(h, os) ==
  /\ h.op \in {"submit", "reject", "delete"} => ~IsOut(os, h.offer)
  /\ h.op \in {"send", "revoke", "decline"} => os[h.offer].status # "accepted"
  /\ h.at = "hire" => IsOut(os, h.offer) /\ os[h.offer].app = h.app
  /\ h.at = "stage" => \A o \in 1..Offers : os[o].status = "accepted" => os[o].app # h.app

HiredRight(os, st) ==
  \A a \in Apps : st[a] = "hired" <=> \E o \in 1..Offers : os[o].app = a /\ os[o].status = "accepted"

HireInv ==
  /\ LiveInv /\ HiredRight(offers, stage)
  /\ \A p \in Procs : HandlerHires(req[p], offers)

-----------------------------------------------------------------------------
(* Rounds *)

\* An id is of a row of one offer, and not yet of any if it is to come.
IdsRight(as, last) ==
  \A r \in as : r.id <= last /\ \A t \in as : r.id = t.id => r.offer = t.offer

\* Everyone asked has approved.
Passed(as, o) == (\E r \in as : r.offer = o) /\ \A r \in as : r.offer = o => r.status = "approved"

\* A round under way asked somebody, and nobody has rejected it, unless the
\* rejection is about to take the offer back.
Rejecting(o) == \E p \in Procs : req[p].at = "draft" /\ req[p].offer = o
RoundRight(o) ==
  /\ offers[o].status = "pending_approval" =>
       /\ \E r \in approvers : r.offer = o
       /\ (\E r \in approvers : r.offer = o /\ r.status = "rejected") => Rejecting(o)
  /\ offers[o].status \in {"approved", "sent", "accepted"} => Passed(approvers, o)

HandlerRound(h, os, as, last) ==
  /\ h.at = "mark" => h.row <= last /\ \A r \in as : r.id = h.row => r.offer = h.offer
  /\ h.op = "submit" => os[h.offer].status = "draft"
  /\ h.at = "clear" => h.ask # {}
  /\ h.at = "ask" => /\ h.ask # {} \/ \E r \in as : r.offer = h.offer
                     /\ \A r \in as : r.offer = h.offer => r.status = "pending"
  /\ h.op = "reject" => os[h.offer].status = "pending_approval"
  /\ h.op \in {"send", "accept"} => os[h.offer].status = "none" \/ Passed(as, h.offer)

RoundInv ==
  /\ TypeInv /\ AloneInv /\ IdsRight(approvers, lastRow)
  /\ \A o \in 1..Offers : RoundRight(o)
  /\ \A p \in Procs : HandlerRound(req[p], offers, approvers, lastRow)

\* Whoever took away the last pending row has still to move the offer on.
Moving(o) == \E p \in Procs : req[p].at \in {"override", "flip", "draft"} /\ req[p].offer = o
StuckRight(o) == offers[o].status = "pending_approval" /\ Pending(o) = {} => Moving(o)

StuckInv == RoundInv /\ \A o \in 1..Offers : StuckRight(o)

-----------------------------------------------------------------------------
(* Type correctness *)

LEMMA IdleType == Idle \in Handler /\ Idle.op = "idle" /\ Idle.at = "idle"
BY DEF Idle, Handler, WellPlaced, Request, OpsAt, Places, OfferOps

LEMMA HandlerIs ==
  ASSUME TypeInv, NEW p \in Procs
  PROVE  /\ req[p] \in Handler /\ req[p] \in Request /\ req[p].at \in Places /\ req[p].op \in OpsAt[req[p].at]
         /\ req[p].op \in OfferOps => req[p].offer \in 1..Offers /\ req[p].offer <= lastOffer
BY DEF TypeInv, Handler, WellPlaced, Request

\* Only the handler whose step it is changes.
LEMMA BecomesIs ==
  ASSUME TypeInv, NEW p \in Procs, NEW n, Becomes(p, n)
  PROVE  req'[p] = n /\ \A q \in Procs : q # p => req'[q] = req[q]
BY DEF TypeInv, Becomes

LEMMA RespondIs ==
  ASSUME TypeInv, NEW p \in Procs, Respond(p)
  PROVE  Becomes(p, Idle) /\ req'[p] = Idle /\ \A q \in Procs : q # p => req'[q] = req[q]
BY BecomesIs DEF Respond

\* A handler's offer is stored by then, or was.
Known(h) == h.op \in OfferOps => h.offer <= lastOffer

LEMMA HandlersStay ==
  ASSUME TypeInv, NEW p \in Procs, NEW n \in Handler, Known(n), Becomes(p, n),
         lastOffer' \in Nat, lastOffer <= lastOffer'
  PROVE  /\ req' \in [Procs -> Handler] /\ req' \in [Procs -> Request]
         /\ \A q \in Procs : req'[q].op \in OfferOps => req'[q].offer <= lastOffer'
<1>1. req' \in [Procs -> Handler]
  BY DEF TypeInv, Becomes
<1>2. ASSUME NEW q \in Procs, req'[q].op \in OfferOps PROVE req'[q].offer <= lastOffer'
  <2>1. req'[q].offer \in 1..Offers
    BY <1>1, <1>2 DEF Handler, WellPlaced
  <2>2. req'[q].offer <= lastOffer
    BY <1>2, BecomesIs DEF TypeInv, Known
  <2>3. lastOffer \in Nat
    BY DEF TypeInv, TypeOK
  <2> QED BY <2>1, <2>2, <2>3
<1> QED BY <1>1, <1>2 DEF Handler

LEMMA IdleKnown == Known(Idle)
BY IdleType DEF Known, OfferOps

\* A step that leaves the offers alone is type-correct if its handler and the
\* other tables are.
LEMMA QuietType ==
  ASSUME TypeInv, NEW p \in Procs, NEW n \in Handler, Known(n), Becomes(p, n),
         UNCHANGED <<offers, lastOffer>>,
         approvers' \subseteq Approver, lastRow' \in Nat, stage' \in [Apps -> Stages],
         checklists' \subseteq Checklist, lastList' \in Nat
  PROVE  TypeInv'
<1>1. lastOffer' \in Nat /\ lastOffer <= lastOffer'
  BY DEF TypeInv, TypeOK
<1> QED BY <1>1, HandlersStay DEF TypeInv, TypeOK

\* An update writes the status of one offer, if it is still stored.
LEMMA SetStatusIs ==
  ASSUME TypeInv, NEW o \in 1..Offers, NEW status \in Status, SetStatus(o, status)
  PROVE  /\ offers' \in [1..Offers -> Offer] /\ Stored(offers') /\ Beyond(offers', lastOffer)
         /\ \A x \in 1..Offers :
              /\ offers'[x].app = offers[x].app
              /\ offers'[x].status = IF x = o /\ offers[o].status # "none" THEN status ELSE offers[x].status
<1>1. offers \in [1..Offers -> Offer]
  BY DEF TypeInv, TypeOK
<1>2. PICK row : row = [offers[o] EXCEPT !.status = IF @ = "none" THEN @ ELSE status]
  OBVIOUS
<1>3. /\ row \in Offer /\ row.app = offers[o].app
      /\ row.status = IF offers[o].status # "none" THEN status ELSE offers[o].status
  BY <1>1, <1>2 DEF Offer
<1>4. offers' = [offers EXCEPT ![o] = row]
  BY <1>1, <1>2 DEF SetStatus
<1>5. offers' \in [1..Offers -> Offer]
  BY <1>1, <1>3, <1>4
<1>6. \A x \in 1..Offers :
        /\ offers'[x].app = offers[x].app
        /\ offers'[x].status = IF x = o /\ offers[o].status # "none" THEN status ELSE offers[x].status
  BY <1>1, <1>3, <1>4
<1>7. "none" \notin Status
  BY DEF Status
<1>8. Stored(offers') /\ Beyond(offers', lastOffer)
  BY <1>6, <1>7 DEF TypeInv, Stored, Beyond
<1> QED BY <1>5, <1>6, <1>8

\* ... so such a step is type-correct if its handler is.
LEMMA StatusType ==
  ASSUME TypeInv, NEW p \in Procs, NEW n \in Handler, Known(n), Becomes(p, n),
         NEW o \in 1..Offers, NEW status \in Status, SetStatus(o, status),
         UNCHANGED <<lastOffer, roundVars, listVars>>, stage' \in [Apps -> Stages]
  PROVE  TypeInv'
<1>1. lastOffer' \in Nat /\ lastOffer <= lastOffer'
  BY DEF TypeInv, TypeOK
<1> QED BY <1>1, HandlersStay, SetStatusIs DEF TypeInv, TypeOK, roundVars, listVars

\* A handler goes on to a place its operation comes to, with what it knows.
LEMMA GoToType ==
  ASSUME TypeInv, NEW p \in Procs, NEW at \in Places, req[p].op \in OpsAt[at],
         at \in {"insert", "stage", "hire", "active", "checklist", "tasks"} => req[p].app \in Apps,
         at \in {"mark", "tasks"} => req[p].row \in Nat
  PROVE  [req[p] EXCEPT !.at = at] \in Handler /\ Known([req[p] EXCEPT !.at = at])
<1>1. PICK h \in Handler : h = req[p]
  BY HandlerIs
<1>2. [h EXCEPT !.at = at] \in Handler
  BY <1>1 DEF Handler, Request, WellPlaced
<1>3. [h EXCEPT !.at = at].op = h.op /\ [h EXCEPT !.at = at].offer = h.offer
  BY DEF Handler, Request
<1> QED BY <1>1, <1>2, <1>3 DEF Known, TypeInv

LEMMA BeginType ==
  ASSUME TypeInv, NEW p \in Procs, Begin(p)
  PROVE  TypeInv'
<1> USE DEF Idle, Handler, WellPlaced, Request, OpsAt, Places, OfferOps, AllOps
<1>q. UNCHANGED <<offerVars, stage, listVars>>
  BY Zenon DEF Begin, BeginCreate, BeginGenerate, BeginDelete, BeginSubmit, BeginVote, BeginWrite,
    BeginAccept, BeginList
<1>1. ASSUME NEW n \in Handler, Known(n), Becomes(p, n) PROVE TypeInv'
  BY <1>1, <1>q, QuietType DEF TypeInv, TypeOK, offerVars, roundVars, listVars
<1>2. ASSUME NEW o \in 1..Offers, offers[o].status # "none" PROVE o <= lastOffer
  BY <1>2 DEF TypeInv, TypeOK, Beyond
<1>3. ASSUME NEW a \in Apps, BeginCreate(p, a) PROVE TypeInv'
  <2>1. PICK n : n = [Idle EXCEPT !.op = "create", !.at = "insert", !.app = a]
    OBVIOUS
  <2>2. n \in Handler /\ Known(n)
    BY <2>1 DEF Known
  <2>3. Becomes(p, n)
    BY <1>3, <2>1 DEF BeginCreate
  <2> QED BY <1>1, <2>2, <2>3
<1>4. ASSUME NEW a \in Apps, BeginGenerate(p, a) PROVE TypeInv'
  <2>1. PICK n : n = [Idle EXCEPT !.op = "generate", !.at = "active", !.app = a]
    OBVIOUS
  <2>2. n \in Handler /\ Known(n)
    BY <2>1 DEF Known
  <2>3. Becomes(p, n)
    BY <1>4, <2>1 DEF BeginGenerate
  <2> QED BY <1>1, <2>2, <2>3
<1>5. ASSUME NEW o \in 1..Offers, BeginDelete(p, o) PROVE TypeInv'
  <2>1. PICK n : n = [Idle EXCEPT !.op = "delete", !.at = "delete", !.offer = o]
    OBVIOUS
  <2>2. n \in Handler /\ Known(n)
    BY <2>1, <1>2, <1>5 DEF Known, BeginDelete
  <2>3. Becomes(p, n)
    BY <1>5, <2>1 DEF BeginDelete
  <2> QED BY <1>1, <2>2, <2>3
<1>6. ASSUME NEW o \in 1..Offers, NEW round \in Rounds, BeginSubmit(p, o, round) PROVE TypeInv'
  <2>1. PICK n : n = [Idle EXCEPT !.op = "submit", !.at = "clear", !.offer = o, !.ask = round]
    OBVIOUS
  <2>2. n \in Handler /\ Known(n)
    BY <2>1, <1>2, <1>6, UsersAssumption DEF Known, BeginSubmit
  <2>3. Becomes(p, n)
    BY <1>6, <2>1 DEF BeginSubmit
  <2> QED BY <1>1, <2>2, <2>3
<1>7. ASSUME NEW o \in 1..Offers, NEW op \in {"approve", "reject"}, NEW u \in Users, BeginVote(p, op, o, u)
      PROVE  TypeInv'
  <2>1. PICK n : n = [Idle EXCEPT !.op = op, !.at = "find", !.offer = o, !.user = u]
    OBVIOUS
  <2>2. n \in Handler /\ Known(n)
    BY <2>1, <1>2, <1>7 DEF Known, BeginVote
  <2>3. Becomes(p, n)
    BY <1>7, <2>1 DEF BeginVote
  <2> QED BY <1>1, <2>2, <2>3
<1>8. ASSUME NEW o \in 1..Offers, NEW op \in {"send", "revoke", "decline"}, BeginWrite(p, op, o)
      PROVE  TypeInv'
  <2>1. PICK n : n = [Idle EXCEPT !.op = op, !.at = "write", !.offer = o]
    OBVIOUS
  <2>2. offers[o].status # "none"
    BY <1>8 DEF BeginWrite, From
  <2>3. n \in Handler /\ Known(n)
    BY <2>1, <1>2, <2>2 DEF Known
  <2>4. Becomes(p, n)
    BY <1>8, <2>1 DEF BeginWrite
  <2> QED BY <1>1, <2>3, <2>4
<1>9. ASSUME NEW o \in 1..Offers, BeginAccept(p, o) PROVE TypeInv'
  <2>1. PICK n : n = [Idle EXCEPT !.op = "accept", !.at = "hire", !.offer = o, !.app = offers[o].app]
    OBVIOUS
  <2>2. offers[o].app \in Apps
    BY <1>9 DEF BeginAccept, TypeInv, Stored
  <2>3. n \in Handler /\ Known(n)
    BY <2>1, <1>2, <1>9, <2>2 DEF Known, BeginAccept
  <2>4. Becomes(p, n)
    BY <1>9, <2>1 DEF BeginAccept
  <2> QED BY <1>1, <2>3, <2>4
<1>10. CASE BeginList(p)
  <2> DEFINE todo == {offers[o].app : o \in {x \in 1..Offers : offers[x].status = "accepted"}}
  <2>1. PICK n : n = [Idle EXCEPT !.op = "list", !.at = "next", !.todo = todo]
    OBVIOUS
  <2>2. todo \subseteq Apps
    BY DEF TypeInv, Stored
  <2> HIDE DEF todo
  <2>3. n \in Handler /\ Known(n)
    BY <2>1, <2>2 DEF Known
  <2> USE DEF todo
  <2>4. Becomes(p, n)
    BY <1>10, <2>1 DEF BeginList
  <2> QED BY <1>1, <2>3, <2>4
<1> QED BY <1>3, <1>4, <1>5, <1>6, <1>7, <1>8, <1>9, <1>10 DEF Begin

\* Drafts and the rounds of approval.
LEMMA RoundStepType ==
  ASSUME TypeInv, NEW p \in Procs, NEW h \in Handler, h = req[p], h \in Request,
         \/ InsertOffer(p) \/ StageOffer(p) \/ Delete(p) \/ ClearApprovers(p)
         \/ (\E u \in Users : AskApprover(p, u)) \/ OpenRound(p)
         \/ FindApprover(p) \/ MarkApprover(p) \/ Override(p) \/ Flip(p) \/ BackToDraft(p)
  PROVE  TypeInv'
<1> USE DEF OpsAt, Places
<1>a. Idle \in Handler /\ Known(Idle) /\ h.op \in OpsAt[h.at]
  BY IdleType, IdleKnown DEF Handler, WellPlaced
<1>b. ASSUME NEW n \in Handler, Known(n), Becomes(p, n), UNCHANGED <<offers, lastOffer, stage, listVars>>,
             approvers' \subseteq Approver, lastRow' \in Nat
      PROVE  TypeInv'
  BY <1>b, QuietType DEF TypeInv, TypeOK, listVars
<1>c. TypeOK /\ approvers \subseteq Approver /\ lastRow \in Nat
  BY DEF TypeInv, TypeOK
<1>1. CASE InsertOffer(p)
  <2>1. h.at = "insert" /\ h.op = "create" /\ h.app \in Apps
    BY <1>1, <1>a DEF InsertOffer, Handler, WellPlaced
  <2>2. CASE lastOffer = Offers
    BY <1>1, <1>a, <1>b, <1>c, <2>2 DEF InsertOffer, Respond, roundVars
  <2>3. CASE lastOffer # Offers
    <3>1. PICK n : n = [h EXCEPT !.at = "stage"]
      OBVIOUS
    <3>2. n \in Handler /\ Known(n)
      BY <2>1, <3>1, GoToType
    <3>3. Becomes(p, n)
      BY <1>1, <2>3, <3>1 DEF InsertOffer, GoTo
    <3>4. lastOffer + 1 \in 1..Offers /\ lastOffer' = lastOffer + 1 /\ lastOffer' \in 0..Offers /\ lastOffer <= lastOffer'
      BY <1>1, <1>c, <2>3, BoundsAssumption DEF InsertOffer, TypeOK
    <3>5. PICK row : row = [app |-> h.app, status |-> "draft"]
      OBVIOUS
    <3>6. row \in Offer /\ row.app \in Apps /\ row.status # "none"
      BY <2>1, <3>5 DEF Offer, Status
    <3>7. offers' = [offers EXCEPT ![lastOffer + 1] = row]
      BY <1>1, <2>3, <3>5 DEF InsertOffer
    <3>8. offers' \in [1..Offers -> Offer] /\ Stored(offers') /\ Beyond(offers', lastOffer')
      <4>1. offers' \in [1..Offers -> Offer]
        BY <1>c, <3>4, <3>6, <3>7 DEF TypeOK
      <4>2. Stored(offers')
        BY <1>c, <3>4, <3>6, <3>7 DEF TypeInv, Stored, TypeOK
      <4>3. Beyond(offers', lastOffer')
        BY <1>c, <3>4, <3>6, <3>7 DEF TypeInv, Beyond, TypeOK
      <4> QED BY <4>1, <4>2, <4>3
    <3> QED BY <1>1, <1>c, <3>2, <3>3, <3>4, <3>8, HandlersStay
            DEF InsertOffer, TypeInv, TypeOK, roundVars, listVars
  <2> QED BY <2>2, <2>3
<1>2. CASE StageOffer(p)
  <2>1. stage' \in [Apps -> Stages]
    BY <1>2, <1>c DEF StageOffer, TypeOK, Stages
  <2> QED BY <1>2, <1>a, <1>c, <2>1, QuietType DEF StageOffer, Respond, offerVars, roundVars, listVars, TypeOK
<1>3. CASE Delete(p)
  <2>1. h.offer \in 1..Offers
    BY <1>3, <1>a DEF Delete, Handler, WellPlaced, OfferOps
  <2>2. NoOffer \in Offer /\ NoOffer.status = "none"
    BY DEF NoOffer, Offer
  <2>3. /\ offers' \in [1..Offers -> Offer] /\ Stored(offers') /\ Beyond(offers', lastOffer)
    BY <1>3, <1>c, <2>1, <2>2 DEF Delete, TypeInv, TypeOK, Stored, Beyond
  <2>4. Becomes(p, Idle) /\ lastOffer \in Nat /\ lastOffer <= lastOffer
    BY <1>3, <1>c DEF Delete, Respond, TypeOK
  <2> QED BY <1>3, <1>a, <1>c, <2>3, <2>4, HandlersStay DEF Delete, TypeInv, TypeOK, listVars
<1>4. CASE ClearApprovers(p)
  <2>1. PICK n : n = [h EXCEPT !.at = "ask"]
    OBVIOUS
  <2>2. h.at = "clear" /\ Becomes(p, n) /\ h.op = "submit"
    BY <1>4, <1>a, <2>1 DEF ClearApprovers, GoTo
  <2>3. n \in Handler /\ Known(n)
    BY <1>a, <2>1, <2>2, GoToType
  <2> QED BY <1>4, <1>b, <1>c, <2>2, <2>3 DEF ClearApprovers
<1>5. ASSUME NEW u \in Users, AskApprover(p, u) PROVE TypeInv'
  <2>1. h.op = "submit" /\ h.at = "ask" /\ h.offer \in 1..Offers
    BY <1>5, <1>a DEF AskApprover, Handler, WellPlaced, OfferOps
  <2>2. CASE offers[h.offer].status = "none" \/ lastRow = Rows
    BY <1>5, <1>a, <1>b, <1>c, <2>2 DEF AskApprover, Respond, roundVars
  <2>3. CASE ~(offers[h.offer].status = "none" \/ lastRow = Rows)
    <3>1. PICK n : n = [h EXCEPT !.ask = @ \ {u}]
      OBVIOUS
    <3>2. n \in Handler /\ n.op = h.op /\ n.offer = h.offer
      BY <3>1 DEF Handler, WellPlaced, Request
    <3>3. Known(n)
      BY <3>2 DEF Known, TypeInv
    <3>4. Becomes(p, n)
      BY <1>5, <2>3, <3>1 DEF AskApprover
    <3>5. [id |-> lastRow + 1, offer |-> h.offer, user |-> u, status |-> "pending"] \in Approver
      BY <1>c, <2>1 DEF Approver
    <3>6. approvers' \subseteq Approver /\ lastRow' \in Nat
      BY <1>5, <1>c, <2>3, <3>5 DEF AskApprover
    <3> QED BY <1>5, <1>b, <3>2, <3>3, <3>4, <3>6 DEF AskApprover
  <2> QED BY <2>2, <2>3
<1>6. CASE OpenRound(p)
  <2>1. h.offer \in 1..Offers
    BY <1>6, <1>a DEF OpenRound, Handler, WellPlaced, OfferOps
  <2>2. "pending_approval" \in Status /\ stage' \in [Apps -> Stages] /\ Becomes(p, Idle)
    BY <1>6, <1>c DEF OpenRound, Status, TypeOK, Respond
  <2>3. SetStatus(h.offer, "pending_approval") /\ UNCHANGED <<lastOffer, roundVars, listVars>>
    BY <1>6 DEF OpenRound
  <2> QED BY <1>a, <2>1, <2>2, <2>3, StatusType
<1>7. CASE FindApprover(p)
  <2>a. h.at = "find"
    BY <1>7 DEF FindApprover
  <2>b. h.op \in {"approve", "reject"}
    BY <1>a, <2>a
  <2>1. h.at = "find" /\ h.op \in {"approve", "reject"} /\ h.offer \in 1..Offers
    BY <2>a, <2>b DEF Handler, WellPlaced, OfferOps
  <2>2. \/ Respond(p)
        \/ \E r \in RowsOf(h.offer) : Becomes(p, [h EXCEPT !.at = "mark", !.row = r.id])
        \/ \E at \in {"override", "draft"} : h.op \in OpsAt[at] /\ GoTo(p, at)
    BY <1>7, <2>1 DEF FindApprover
  <2>3. UNCHANGED <<offers, lastOffer, stage, listVars>> /\ approvers' \subseteq Approver /\ lastRow' \in Nat
    BY <1>7, <1>c DEF FindApprover, offerVars, roundVars
  <2>4. CASE Respond(p)
    BY <1>a, <1>b, <2>3, <2>4 DEF Respond
  <2>5. ASSUME NEW r \in RowsOf(h.offer), Becomes(p, [h EXCEPT !.at = "mark", !.row = r.id]) PROVE TypeInv'
    <3>1. PICK n : n = [h EXCEPT !.at = "mark", !.row = r.id]
      OBVIOUS
    <3>2. r.id \in Nat
      BY <1>c DEF RowsOf, Approver
    <3>3. n \in Handler /\ n.op = h.op /\ n.offer = h.offer
      BY <2>1, <3>1, <3>2, ZenonT(60) DEF Handler, WellPlaced, Request
    <3>4. Known(n)
      BY <3>3 DEF Known, TypeInv
    <3> QED BY <1>b, <2>3, <2>5, <3>1, <3>3, <3>4
  <2>6. ASSUME NEW at \in {"override", "draft"}, h.op \in OpsAt[at], GoTo(p, at) PROVE TypeInv'
    <3>1. [h EXCEPT !.at = at] \in Handler /\ Known([h EXCEPT !.at = at])
      BY <2>6, GoToType
    <3> QED BY <1>b, <2>3, <2>6, <3>1 DEF GoTo
  <2> QED BY <2>2, <2>4, <2>5, <2>6
<1>8. CASE MarkApprover(p)
  <2>1. h.at = "mark" /\ h.op \in {"approve", "reject"}
    BY <1>8, <1>a DEF MarkApprover
  <2>2. PICK at \in {"draft", "override", "flip"} : h.op \in OpsAt[at] /\ GoTo(p, at)
    BY <1>8, <2>1 DEF MarkApprover
  <2>3. [h EXCEPT !.at = at] \in Handler /\ Known([h EXCEPT !.at = at])
    BY <2>2, GoToType
  <2>4. approvers' \subseteq Approver
    <3>1. ASSUME NEW r \in approvers, NEW vote \in {"approved", "rejected"}
          PROVE  [r EXCEPT !.status = vote] \in Approver
      BY <1>c DEF Approver
    <3> QED BY <1>8, <1>c, <3>1 DEF MarkApprover
  <2> QED BY <1>8, <1>b, <1>c, <2>2, <2>3, <2>4 DEF MarkApprover, GoTo
<1>9. CASE Override(p)
  <2>1. h.at = "override" /\ h.op = "approve" /\ GoTo(p, "flip")
    BY <1>9, <1>a DEF Override
  <2>2. [h EXCEPT !.at = "flip"] \in Handler /\ Known([h EXCEPT !.at = "flip"])
    BY <2>1, GoToType
  <2>3. approvers' \subseteq Approver
    <3>1. ASSUME NEW r \in approvers PROVE [r EXCEPT !.status = "approved"] \in Approver
      BY <1>c DEF Approver
    <3> QED BY <1>9, <1>c, <3>1 DEF Override
  <2> QED BY <1>9, <1>b, <1>c, <2>1, <2>2, <2>3 DEF Override, GoTo
<1>10. CASE Flip(p)
  <2>1. h.offer \in 1..Offers
    BY <1>10, <1>a DEF Flip, Handler, WellPlaced, OfferOps
  <2>2. /\ "approved" \in Status /\ stage' \in [Apps -> Stages] /\ Becomes(p, Idle)
        /\ UNCHANGED <<lastOffer, roundVars, stage, listVars>>
    BY <1>10, <1>c DEF Flip, Status, TypeOK, Respond
  <2>3. CASE SetStatus(h.offer, "approved")
    BY <1>a, <2>1, <2>2, <2>3, StatusType
  <2>4. CASE UNCHANGED offers
    BY <1>a, <1>b, <1>c, <2>2, <2>4 DEF roundVars
  <2> QED BY <1>10, <2>3, <2>4 DEF Flip
<1>11. CASE BackToDraft(p)
  <2>1. h.offer \in 1..Offers
    BY <1>11, <1>a DEF BackToDraft, Handler, WellPlaced, OfferOps
  <2>2. "draft" \in Status /\ stage' \in [Apps -> Stages] /\ Becomes(p, Idle)
    BY <1>11, <1>c DEF BackToDraft, Status, TypeOK, Respond
  <2>3. SetStatus(h.offer, "draft") /\ UNCHANGED <<lastOffer, roundVars, listVars>>
    BY <1>11 DEF BackToDraft
  <2> QED BY <1>a, <2>1, <2>2, <2>3, StatusType
<1> QED BY <1>1, <1>2, <1>3, <1>4, <1>5, <1>6, <1>7, <1>8, <1>9, <1>10, <1>11

\* Answers, checklists, and a handler that stops.
LEMMA AnswerStepType ==
  ASSUME TypeInv, NEW p \in Procs, NEW h \in Handler, h = req[p], h \in Request,
         \/ WriteStatus(p) \/ Hire(p) \/ NextHire(p) \/ CheckActive(p) \/ InsertChecklist(p)
         \/ InsertTask(p) \/ Crash(p)
  PROVE  TypeInv'
<1> USE DEF OpsAt, Places
<1>a. Idle \in Handler /\ Known(Idle) /\ h.op \in OpsAt[h.at] /\ Known(h)
  BY IdleType, IdleKnown DEF Handler, WellPlaced, TypeInv, Known
<1>b. ASSUME NEW n \in Handler, Known(n), Becomes(p, n), UNCHANGED <<offerVars, stage>>,
             checklists' \subseteq Checklist, lastList' \in Nat
      PROVE  TypeInv'
  BY <1>b, QuietType DEF TypeInv, TypeOK, offerVars, roundVars
<1>c. TypeOK /\ checklists \subseteq Checklist /\ lastList \in Nat
  BY DEF TypeInv, TypeOK
<1>1. CASE WriteStatus(p)
  <2>1. h.op \in {"send", "revoke", "decline"} /\ h.offer \in 1..Offers
    BY <1>1, <1>a DEF WriteStatus, Handler, WellPlaced, OfferOps
  <2>2. To[h.op] \in Status /\ stage' \in [Apps -> Stages] /\ Becomes(p, Idle)
    BY <1>1, <1>c, <2>1 DEF WriteStatus, To, Status, TypeOK, Respond
  <2>3. SetStatus(h.offer, To[h.op]) /\ UNCHANGED <<lastOffer, roundVars, listVars>>
    BY <1>1 DEF WriteStatus
  <2> QED BY <1>a, <2>1, <2>2, <2>3, StatusType
<1>2. CASE Hire(p)
  <2>1. h.at = "hire" /\ h.op = "accept" /\ h.offer \in 1..Offers /\ h.app \in Apps
    BY <1>2, <1>a DEF Hire, Handler, WellPlaced, OfferOps
  <2>2. PICK n : n = [h EXCEPT !.at = "next", !.todo = {h.app}]
    OBVIOUS
  <2>3. n \in Handler /\ n.op = h.op /\ n.offer = h.offer
    BY <2>1, <2>2, ZenonT(60) DEF Handler, WellPlaced, Request
  <2>4. Known(n)
    BY <1>a, <2>3 DEF Known
  <2>5. "accepted" \in Status /\ stage' \in [Apps -> Stages]
    BY <1>2, <1>c DEF Hire, Status, Stages, TypeOK
  <2>6. Becomes(p, n) /\ SetStatus(h.offer, "accepted") /\ UNCHANGED <<lastOffer, roundVars, listVars>>
    BY <1>2, <2>2 DEF Hire
  <2> QED BY <2>1, <2>3, <2>4, <2>5, <2>6, StatusType
<1>d. ASSUME h.op \in {"accept", "list", "generate"} PROVE AfterList(h) \in Handler /\ Known(AfterList(h))
  <2>1. CASE h.op = "generate"
    BY <1>a, <2>1 DEF AfterList
  <2>2. CASE h.op \in {"accept", "list"}
    <3>1. PICK n : n = [h EXCEPT !.at = "next", !.row = None]
      OBVIOUS
    <3>2. n \in Request /\ n.op = h.op /\ n.offer = h.offer /\ n.at = "next"
      BY <3>1 DEF Request
    <3>3. n \in Handler
      BY <2>2, <3>2 DEF Handler, WellPlaced
    <3> QED BY <1>a, <2>2, <3>1, <3>2, <3>3 DEF AfterList, Known
  <2> QED BY <1>d, <2>1, <2>2
<1>3. CASE NextHire(p)
  <2>a. h.at = "next"
    BY <1>3 DEF NextHire
  <2>1. h.op \in {"accept", "list"} /\ h.todo \subseteq Apps
    BY <1>a, <2>a DEF Request
  <2>2. CASE Respond(p)
    BY <1>3, <1>a, <1>b, <1>c, <2>2 DEF NextHire, Respond, listVars
  <2>3. ASSUME NEW a \in h.todo, NEW at \in {"active", "next"},
               Becomes(p, [h EXCEPT !.todo = @ \ {a}, !.app = a, !.at = at])
        PROVE  TypeInv'
    <3>1. PICK n : n = [h EXCEPT !.todo = @ \ {a}, !.app = a, !.at = at]
      OBVIOUS
    <3>2. a \in Apps /\ h.todo \ {a} \subseteq Apps /\ at \in Places /\ h \in Request
      BY <1>a, <2>1 DEF Handler
    <3>3. n \in Request /\ n.op = h.op /\ n.offer = h.offer /\ n.at = at /\ n.app = a
      <4> HIDE DEF Places, OpsAt
      <4> QED BY <3>1, <3>2, Zenon DEF Request
    <3>4. n \in Handler
      BY <2>1, <3>2, <3>3 DEF Handler, WellPlaced
    <3>5. Known(n)
      BY <1>a, <3>3 DEF Known
    <3> QED BY <1>3, <1>b, <1>c, <2>3, <3>1, <3>4, <3>5 DEF NextHire, listVars
  <2>4. \/ Respond(p)
        \/ \E a \in h.todo : \E at \in {"active", "next"} :
              Becomes(p, [h EXCEPT !.todo = @ \ {a}, !.app = a, !.at = at])
    BY <1>3, Zenon DEF NextHire
  <2> QED BY <2>2, <2>3, <2>4, Zenon
<1>4. CASE CheckActive(p)
  <2>1. h.at = "active" /\ h.op \in {"accept", "list", "generate"} /\ h.app \in Apps
    BY <1>4, <1>a DEF CheckActive, Handler, WellPlaced
  <2>2. CASE GoTo(p, "checklist")
    <3>1. [h EXCEPT !.at = "checklist"] \in Handler /\ Known([h EXCEPT !.at = "checklist"])
      BY <2>1, GoToType
    <3> QED BY <1>4, <1>b, <1>c, <2>2, <3>1 DEF CheckActive, GoTo, listVars
  <2>3. CASE Becomes(p, AfterList(h))
    BY <1>4, <1>b, <1>c, <1>d, <2>1, <2>3 DEF CheckActive, listVars
  <2> QED BY <1>4, <2>2, <2>3 DEF CheckActive
<1>5. CASE InsertChecklist(p)
  <2>1. h.at = "checklist" /\ h.op \in {"accept", "list", "generate"} /\ h.app \in Apps
    BY <1>5, <1>a DEF InsertChecklist, Handler, WellPlaced
  <2>2. CASE lastList = Checklists
    BY <1>5, <1>b, <1>c, <1>d, <2>1, <2>2 DEF InsertChecklist, listVars
  <2>3. CASE lastList # Checklists
    <3>1. PICK n : n = [h EXCEPT !.at = "tasks", !.row = lastList + 1]
      OBVIOUS
    <3>a. n \in Request /\ n.op = h.op /\ n.offer = h.offer /\ n.at = "tasks" /\ n.app = h.app /\ n.row \in Nat
      <4>1. lastList + 1 \in Nat
        BY <1>c
      <4> QED BY <3>1, <4>1 DEF Request
    <3>2. n \in Handler
      BY <2>1, <3>a DEF Handler, WellPlaced
    <3>3. Known(n)
      BY <1>a, <3>a DEF Known
    <3>4. [id |-> lastList + 1, app |-> h.app, tasks |-> 0, status |-> "active"] \in Checklist
      BY <1>c, <2>1, BoundsAssumption DEF Checklist
    <3>5. checklists' \subseteq Checklist /\ lastList' \in Nat /\ Becomes(p, n)
      BY <1>5, <1>c, <2>3, <3>1, <3>4 DEF InsertChecklist
    <3> QED BY <1>5, <1>b, <3>2, <3>3, <3>5 DEF InsertChecklist
  <2> QED BY <2>2, <2>3
<1>6. CASE InsertTask(p)
  <2>1. PICK c \in checklists :
          /\ h.at = "tasks" /\ c.id = h.row
          /\ IF c.tasks < Tasks
               THEN /\ checklists' = (checklists \ {c}) \cup {[c EXCEPT !.tasks = @ + 1]}
                    /\ UNCHANGED req
               ELSE Becomes(p, AfterList(h)) /\ UNCHANGED checklists
          /\ UNCHANGED <<offerVars, stage, lastList>>
    BY <1>6 DEF InsertTask
  <2>2. CASE c.tasks < Tasks
    <3>1. [c EXCEPT !.tasks = @ + 1] \in Checklist
      BY <1>c, <2>2, BoundsAssumption DEF Checklist
    <3>2. checklists' \subseteq Checklist
      BY <1>c, <2>1, <2>2, <3>1
    <3> QED BY <2>1, <2>2, <3>2 DEF TypeInv, TypeOK, offerVars, roundVars
  <2>3. CASE ~(c.tasks < Tasks)
    BY <1>a, <1>b, <1>c, <1>d, <2>1, <2>3
  <2> QED BY <2>2, <2>3
<1>7. CASE Crash(p)
  BY <1>7, <1>a, <1>b, <1>c DEF Crash, Respond, listVars
<1> QED BY <1>1, <1>2, <1>3, <1>4, <1>5, <1>6, <1>7

LEMMA TickType ==
  ASSUME TypeInv, NEW c \in checklists, TickTasks(c)
  PROVE  TypeInv'
<1>1. checklists \subseteq Checklist
  BY DEF TypeInv, TypeOK
<1>2. ASSUME NEW status \in {"active", "completed"} PROVE [c EXCEPT !.status = status] \in Checklist
  BY <1>1 DEF Checklist
<1>3. checklists' \subseteq Checklist
  BY <1>1, <1>2 DEF TickTasks
<1> QED BY <1>3 DEF TickTasks, TypeInv, TypeOK, offerVars, roundVars

LEMMA TypeInvInit == Init => TypeInv
<1> SUFFICES ASSUME Init PROVE TypeInv
  OBVIOUS
<1>1. NoOffer \in Offer /\ NoOffer.status = "none"
  BY DEF NoOffer, Offer
<1>2. Idle \in Request /\ Idle \in Handler /\ Idle.op \notin OfferOps
  BY IdleType DEF Handler, OfferOps
<1> QED BY <1>1, <1>2, BoundsAssumption DEF Init, TypeInv, TypeOK, Stored, Beyond, Stages

LEMMA TypeInvNext == TypeInv /\ [Next]_vars => TypeInv'
<1> SUFFICES ASSUME TypeInv, [Next]_vars PROVE TypeInv'
  OBVIOUS
<1>1. ASSUME NEW p \in Procs, Begin(p) \/ Continue(p) \/ Crash(p) PROVE TypeInv'
  <2>1. PICK h \in Handler : h = req[p] /\ h \in Request
    BY HandlerIs
  <2> QED BY <1>1, <2>1, BeginType, RoundStepType, AnswerStepType DEF Continue
<1>2. CASE UNCHANGED vars
  BY <1>2 DEF vars, TypeInv, TypeOK, Stored, Beyond
<1> QED BY <1>1, <1>2, TickType DEF Next

LEMMA TypeInvariant == Spec => []TypeInv
BY TypeInvInit, TypeInvNext, PTL DEF Spec

\* The tables and the handlers keep their types, however requests interleave and
\* wherever they stop.
THEOREM TypeCorrect == Spec => []TypeOK
<1>1. TypeInv => TypeOK
  BY DEF TypeInv
<1> QED BY <1>1, TypeInvariant, PTL

-----------------------------------------------------------------------------
(* What a step does to its handler and to the offers *)

\* What each operation writes to its offer.
Written == [submit |-> "pending_approval", reject |-> "draft", approve |-> "approved", send |-> "sent",
            revoke |-> "revoked", decline |-> "declined", accept |-> "accepted"]

OthersStay(p) == \A q \in Procs : q # p => req'[q] = req[q]

\* A request begins where nothing it must not overlap is under way, with an offer in
\* the state its operation asks for.
LEMMA BeginIs ==
  ASSUME TypeInv, NEW p \in Procs, Begin(p), NEW n, n = req'[p]
  PROVE  /\ req[p] = Idle /\ OthersStay(p) /\ UNCHANGED <<offerVars, stage, listVars>>
         /\ n.op \in AllOps /\ \A q \in Procs : req[q] = Idle \/ (n.op \notin Alone /\ req[q].op \notin Alone)
         /\ n.at \in {"insert", "delete", "clear", "find", "write", "hire", "active", "next"}
         /\ n.at = "insert" => LiveOffers(n.app) = {}
         /\ n.op \in {"submit", "delete"} => offers[n.offer].status = "draft"
         /\ n.op \in {"approve", "reject"} => offers[n.offer].status = "pending_approval"
         /\ n.op \in {"send", "revoke", "decline"} => offers[n.offer].status \in From[n.op]
         /\ n.op = "accept" => offers[n.offer].status = "sent" /\ n.app = offers[n.offer].app
         /\ n.op = "submit" => n.at = "clear" /\ n.ask \in Rounds
<1>q. UNCHANGED <<offerVars, stage, listVars>>
  BY Zenon DEF Begin, BeginCreate, BeginGenerate, BeginDelete, BeginSubmit, BeginVote, BeginWrite,
    BeginAccept, BeginList
<1>f. ASSUME NEW op \in AllOps, Free(p, op)
      PROVE  req[p] = Idle /\ \A q \in Procs : req[q] = Idle \/ (op \notin Alone /\ req[q].op \notin Alone)
  BY <1>f DEF Free
<1>b. ASSUME NEW m, Becomes(p, m) PROVE n = m /\ OthersStay(p)
  BY <1>b, BecomesIs DEF OthersStay
<1> USE DEF AllOps
<1>1. ASSUME NEW a \in Apps, BeginCreate(p, a)
      PROVE  n.op = "create" /\ n.at = "insert" /\ n.app = a /\ LiveOffers(a) = {} /\ Free(p, n.op) /\ OthersStay(p)
  <2>1. PICK m : m = [Idle EXCEPT !.op = "create", !.at = "insert", !.app = a]
    OBVIOUS
  <2>2. m.op = "create" /\ m.at = "insert" /\ m.app = a
    BY <2>1 DEF Idle
  <2>3. Becomes(p, m) /\ LiveOffers(a) = {} /\ Free(p, "create")
    BY <1>1, <2>1 DEF BeginCreate
  <2> QED BY <1>b, <2>2, <2>3
<1>2. ASSUME NEW a \in Apps, BeginGenerate(p, a)
      PROVE  n.op = "generate" /\ n.at = "active" /\ Free(p, n.op) /\ OthersStay(p)
  <2>1. PICK m : m = [Idle EXCEPT !.op = "generate", !.at = "active", !.app = a]
    OBVIOUS
  <2>2. m.op = "generate" /\ m.at = "active"
    BY <2>1 DEF Idle
  <2>3. Becomes(p, m) /\ Free(p, "generate")
    BY <1>2, <2>1 DEF BeginGenerate
  <2> QED BY <1>b, <2>2, <2>3
<1>3. ASSUME NEW o \in 1..Offers, BeginDelete(p, o)
      PROVE  n.op = "delete" /\ n.at = "delete" /\ n.offer = o /\ offers[o].status = "draft" /\ Free(p, n.op) /\ OthersStay(p)
  <2>1. PICK m : m = [Idle EXCEPT !.op = "delete", !.at = "delete", !.offer = o]
    OBVIOUS
  <2>2. m.op = "delete" /\ m.at = "delete" /\ m.offer = o
    BY <2>1 DEF Idle
  <2>3. Becomes(p, m) /\ offers[o].status = "draft" /\ Free(p, "delete")
    BY <1>3, <2>1 DEF BeginDelete
  <2> QED BY <1>b, <2>2, <2>3
<1>4. ASSUME NEW o \in 1..Offers, NEW round \in Rounds, BeginSubmit(p, o, round)
      PROVE  /\ n.op = "submit" /\ n.at = "clear" /\ n.offer = o /\ n.ask = round
             /\ offers[o].status = "draft" /\ Free(p, n.op) /\ OthersStay(p)
  <2>1. PICK m : m = [Idle EXCEPT !.op = "submit", !.at = "clear", !.offer = o, !.ask = round]
    OBVIOUS
  <2>2. m.op = "submit" /\ m.at = "clear" /\ m.offer = o /\ m.ask = round
    BY <2>1 DEF Idle
  <2>3. Becomes(p, m) /\ offers[o].status = "draft" /\ Free(p, "submit")
    BY <1>4, <2>1 DEF BeginSubmit
  <2> QED BY <1>b, <2>2, <2>3
<1>5. ASSUME NEW o \in 1..Offers, NEW op \in {"approve", "reject"}, NEW u \in Users, BeginVote(p, op, o, u)
      PROVE  /\ n.op = op /\ n.at = "find" /\ n.offer = o
             /\ offers[o].status = "pending_approval" /\ Free(p, n.op) /\ OthersStay(p)
  <2>1. PICK m : m = [Idle EXCEPT !.op = op, !.at = "find", !.offer = o, !.user = u]
    OBVIOUS
  <2>2. m.op = op /\ m.at = "find" /\ m.offer = o
    BY <2>1 DEF Idle
  <2>3. Becomes(p, m) /\ offers[o].status = "pending_approval" /\ Free(p, op)
    BY <1>5, <2>1 DEF BeginVote
  <2> QED BY <1>b, <2>2, <2>3
<1>6. ASSUME NEW o \in 1..Offers, NEW op \in {"send", "revoke", "decline"}, BeginWrite(p, op, o)
      PROVE  /\ n.op = op /\ n.at = "write" /\ n.offer = o
             /\ offers[o].status \in From[op] /\ Free(p, n.op) /\ OthersStay(p)
  <2>1. PICK m : m = [Idle EXCEPT !.op = op, !.at = "write", !.offer = o]
    OBVIOUS
  <2>2. m.op = op /\ m.at = "write" /\ m.offer = o
    BY <2>1 DEF Idle
  <2>3. Becomes(p, m) /\ offers[o].status \in From[op] /\ Free(p, op)
    BY <1>6, <2>1 DEF BeginWrite
  <2> QED BY <1>b, <2>2, <2>3
<1>7. ASSUME NEW o \in 1..Offers, BeginAccept(p, o)
      PROVE  /\ n.op = "accept" /\ n.at = "hire" /\ n.offer = o /\ n.app = offers[o].app
             /\ offers[o].status = "sent" /\ Free(p, n.op) /\ OthersStay(p)
  <2>1. PICK m : m = [Idle EXCEPT !.op = "accept", !.at = "hire", !.offer = o, !.app = offers[o].app]
    OBVIOUS
  <2>2. m.op = "accept" /\ m.at = "hire" /\ m.offer = o /\ m.app = offers[o].app
    BY <2>1 DEF Idle
  <2>3. Becomes(p, m) /\ offers[o].status = "sent" /\ Free(p, "accept")
    BY <1>7, <2>1 DEF BeginAccept
  <2> QED BY <1>b, <2>2, <2>3
<1>8. ASSUME BeginList(p)
      PROVE  n.op = "list" /\ n.at = "next" /\ Free(p, n.op) /\ OthersStay(p)
  <2> DEFINE todo == {offers[o].app : o \in {x \in 1..Offers : offers[x].status = "accepted"}}
  <2>1. PICK m : m = [Idle EXCEPT !.op = "list", !.at = "next", !.todo = todo]
    OBVIOUS
  <2>2. m.op = "list" /\ m.at = "next"
    BY <2>1 DEF Idle
  <2>3. Becomes(p, m) /\ Free(p, "list")
    BY <1>8, <2>1 DEF BeginList
  <2> QED BY <1>b, <2>2, <2>3
<1>9. /\ Free(p, n.op) /\ OthersStay(p) /\ n.op \in AllOps
      /\ n.at \in {"insert", "delete", "clear", "find", "write", "hire", "active", "next"}
  BY <1>1, <1>2, <1>3, <1>4, <1>5, <1>6, <1>7, <1>8 DEF Begin
<1>10. /\ n.at = "insert" => LiveOffers(n.app) = {}
       /\ n.op \in {"submit", "delete"} => offers[n.offer].status = "draft"
       /\ n.op \in {"approve", "reject"} => offers[n.offer].status = "pending_approval"
  BY <1>1, <1>2, <1>3, <1>4, <1>5, <1>6, <1>7, <1>8 DEF Begin
<1>11. /\ n.op \in {"send", "revoke", "decline"} => offers[n.offer].status \in From[n.op]
       /\ n.op = "accept" => offers[n.offer].status = "sent" /\ n.app = offers[n.offer].app
       /\ n.op = "submit" => n.at = "clear" /\ n.ask \in Rounds
  BY <1>1, <1>2, <1>3, <1>4, <1>5, <1>6, <1>7, <1>8 DEF Begin
<1> QED BY <1>q, <1>f, <1>9, <1>10, <1>11

\* Most steps leave the offers alone.
LEMMA QuietIs ==
  ASSUME TypeInv, NEW p \in Procs, NEW h, h = req[p], NEW n, n = req'[p],
         \/ StageOffer(p) \/ ClearApprovers(p) \/ (\E u \in Users : AskApprover(p, u))
         \/ FindApprover(p) \/ MarkApprover(p) \/ Override(p)
         \/ NextHire(p) \/ CheckActive(p) \/ InsertChecklist(p) \/ InsertTask(p) \/ Crash(p)
  PROVE  /\ OthersStay(p) /\ UNCHANGED <<offers, lastOffer>>
         /\ n = Idle \/ (n.op = h.op /\ n.offer = h.offer /\ n.at \notin {"insert", "stage", "hire", "clear"})
<1>a. h \in Handler /\ h \in Request /\ Idle \in Request
  BY HandlerIs, IdleType DEF Handler
<1>b. ASSUME NEW m, Becomes(p, m) PROVE n = m /\ OthersStay(p)
  BY <1>b, BecomesIs DEF OthersStay
<1>g. ASSUME NEW at \in Places \ {"insert", "stage", "hire", "clear"}, GoTo(p, at)
      PROVE  n.op = h.op /\ n.offer = h.offer /\ n.at \notin {"insert", "stage", "hire", "clear"} /\ OthersStay(p)
  BY <1>a, <1>b, <1>g DEF GoTo, Request
<1>r. ASSUME Respond(p) PROVE n = Idle /\ OthersStay(p)
  BY <1>r, RespondIs DEF OthersStay
<1>l. ASSUME Becomes(p, AfterList(h))
      PROVE  /\ OthersStay(p)
             /\ n = Idle \/ (n.op = h.op /\ n.offer = h.offer /\ n.at \notin {"insert", "stage", "hire", "clear"})
  <2>1. CASE h.op = "generate"
    BY <1>b, <1>l, <2>1 DEF AfterList
  <2>2. CASE h.op # "generate"
    <3>1. PICK m : m = [h EXCEPT !.at = "next", !.row = None]
      OBVIOUS
    <3>2. m.op = h.op /\ m.offer = h.offer /\ m.at = "next"
      BY <1>a, <3>1 DEF Request
    <3>3. Becomes(p, m)
      BY <1>l, <2>2, <3>1 DEF AfterList
    <3> QED BY <1>b, <3>2, <3>3
  <2> QED BY <2>1, <2>2
<1> USE DEF Places, offerVars, roundVars
<1>1. CASE StageOffer(p) \/ Crash(p)
  BY <1>1, <1>r DEF StageOffer, Crash
<1>2. CASE ClearApprovers(p)
  BY <1>2, <1>g DEF ClearApprovers
<1>3. ASSUME NEW u \in Users, AskApprover(p, u)
      PROVE  /\ OthersStay(p) /\ UNCHANGED <<offers, lastOffer>>
             /\ n = Idle \/ (n.op = h.op /\ n.offer = h.offer /\ n.at \notin {"insert", "stage", "hire", "clear"})
  <2>1. Respond(p) \/ Becomes(p, [h EXCEPT !.ask = @ \ {u}])
    BY <1>3 DEF AskApprover
  <2>2. h.at = "ask" /\ UNCHANGED <<offers, lastOffer>>
    BY <1>3 DEF AskApprover
  <2> QED BY <1>a, <1>b, <1>r, <2>1, <2>2 DEF Request
<1>4. CASE FindApprover(p)
  <2>1. Respond(p) \/ GoTo(p, "override") \/ GoTo(p, "draft")
        \/ \E r \in RowsOf(h.offer) : Becomes(p, [h EXCEPT !.at = "mark", !.row = r.id])
    BY <1>4 DEF FindApprover
  <2>2. UNCHANGED <<offers, lastOffer>>
    BY <1>4 DEF FindApprover
  <2>3. ASSUME NEW r, Becomes(p, [h EXCEPT !.at = "mark", !.row = r.id])
        PROVE  OthersStay(p) /\ n.op = h.op /\ n.offer = h.offer /\ n.at = "mark"
    <3>1. PICK m : m = [h EXCEPT !.at = "mark", !.row = r.id]
      OBVIOUS
    <3>2. m.op = h.op /\ m.offer = h.offer /\ m.at = "mark"
      BY <1>a, <3>1 DEF Request
    <3> QED BY <1>b, <2>3, <3>1, <3>2
  <2> QED BY <1>g, <1>r, <2>1, <2>2, <2>3, ZenonT(60)
<1>5. CASE MarkApprover(p) \/ Override(p)
  <2>1. GoTo(p, "override") \/ GoTo(p, "draft") \/ GoTo(p, "flip")
    BY <1>5 DEF MarkApprover, Override
  <2> QED BY <1>5, <1>g, <2>1 DEF MarkApprover, Override
<1>6. CASE NextHire(p)
  <2>1. Respond(p) \/ \E a \in h.todo : \E at \in {"active", "next"} :
              Becomes(p, [h EXCEPT !.todo = @ \ {a}, !.app = a, !.at = at])
    BY <1>6, Zenon DEF NextHire
  <2>2. ASSUME NEW a, NEW at \in {"active", "next"},
               Becomes(p, [h EXCEPT !.todo = @ \ {a}, !.app = a, !.at = at])
        PROVE  OthersStay(p) /\ n.op = h.op /\ n.offer = h.offer /\ n.at = at
    <3>1. PICK m : m = [h EXCEPT !.todo = @ \ {a}, !.app = a, !.at = at]
      OBVIOUS
    <3>2. m.op = h.op /\ m.offer = h.offer /\ m.at = at
      BY <1>a, <3>1 DEF Request
    <3> QED BY <1>b, <2>2, <3>1, <3>2
  <2>3. UNCHANGED <<offers, lastOffer>>
    BY <1>6 DEF NextHire
  <2> QED BY <1>r, <2>1, <2>2, <2>3, Zenon
<1>7. CASE CheckActive(p)
  BY <1>7, <1>g, <1>l DEF CheckActive
<1>8. CASE InsertChecklist(p)
  <2>1. Becomes(p, AfterList(h)) \/ Becomes(p, [h EXCEPT !.at = "tasks", !.row = lastList + 1])
    BY <1>8 DEF InsertChecklist
  <2>2. PICK m : m = [h EXCEPT !.at = "tasks", !.row = lastList + 1]
    OBVIOUS
  <2>3. m.op = h.op /\ m.offer = h.offer /\ m.at = "tasks"
    BY <1>a, <2>2 DEF Request
  <2>4. UNCHANGED <<offers, lastOffer>>
    BY <1>8 DEF InsertChecklist
  <2> QED BY <1>b, <1>l, <2>1, <2>2, <2>3, <2>4
<1>9. CASE InsertTask(p)
  <2>1. h.at = "tasks" /\ (UNCHANGED req \/ Becomes(p, AfterList(h))) /\ UNCHANGED <<offers, lastOffer>>
    BY <1>9 DEF InsertTask
  <2> QED BY <1>l, <2>1 DEF OthersStay
<1> QED BY <1>1, <1>2, <1>3, <1>4, <1>5, <1>6, <1>7, <1>8, <1>9

Writes(p) == OpenRound(p) \/ Flip(p) \/ BackToDraft(p) \/ WriteStatus(p) \/ Hire(p)

\* ... five write the status of the handler's offer, if it is still stored.
LEMMA WritesIs ==
  ASSUME TypeInv, NEW p \in Procs, NEW h, h = req[p], NEW n, n = req'[p], Writes(p)
  PROVE  /\ OthersStay(p) /\ UNCHANGED <<lastOffer, roundVars>>
         /\ h.op \in DOMAIN Written /\ h.offer \in 1..Offers
         /\ h.op = "accept" <=> Hire(p)
         /\ h.op = "approve" <=> Flip(p)
         /\ h.op = "submit" <=> OpenRound(p)
         /\ \/ h.op = "approve" /\ UNCHANGED offers /\ ~(offers[h.offer].status = "pending_approval" /\ Pending(h.offer) = {})
            \/ /\ \A x \in 1..Offers :
                    /\ offers'[x].app = offers[x].app
                    /\ offers'[x].status = IF x = h.offer /\ offers[x].status # "none"
                                             THEN Written[h.op] ELSE offers[x].status
               /\ h.op = "approve" => offers[h.offer].status = "pending_approval" /\ Pending(h.offer) = {}
         /\ n = Idle \/ (h.op = "accept" /\ n.op = "accept" /\ n.offer = h.offer /\ n.at = "next")
         /\ h.op = "accept" => n # Idle
<1> USE DEF OpsAt, Written
<1>a. h \in Handler /\ h \in Request /\ Idle.op = "idle" /\ h.op \in OpsAt[h.at]
  BY HandlerIs, IdleType
<1>o. h.op \in OfferOps => h.offer \in 1..Offers
  BY <1>a DEF Handler, WellPlaced
<1>s. ASSUME NEW status \in Status, h.op \in OfferOps, SetStatus(h.offer, status)
      PROVE  \A x \in 1..Offers :
               /\ offers'[x].app = offers[x].app
               /\ offers'[x].status = IF x = h.offer /\ offers[x].status # "none" THEN status ELSE offers[x].status
  BY <1>o, <1>s, SetStatusIs
<1>r. ASSUME Respond(p) PROVE n = Idle /\ OthersStay(p)
  BY <1>r, RespondIs DEF OthersStay
<1>at. /\ OpenRound(p) => h.at = "ask"
       /\ Flip(p) => h.at = "flip"
       /\ BackToDraft(p) => h.at = "draft"
       /\ WriteStatus(p) => h.at = "write"
       /\ Hire(p) => h.at = "hire"
  BY DEF OpenRound, Flip, BackToDraft, WriteStatus, Hire
<1>op. /\ OpenRound(p) => h.op = "submit"
       /\ Flip(p) => h.op = "approve"
       /\ BackToDraft(p) => h.op = "reject"
       /\ WriteStatus(p) => h.op \in {"send", "revoke", "decline"}
       /\ Hire(p) => h.op = "accept"
  BY <1>a, <1>at
<1> HIDE DEF OpsAt
<1> USE DEF OfferOps, Status
<1>1. CASE OpenRound(p)
  BY <1>1, <1>o, <1>s, <1>r, <1>op DEF OpenRound
<1>2. CASE Flip(p)
  <2>1. CASE offers[h.offer].status = "pending_approval" /\ Pending(h.offer) = {}
    BY <1>2, <1>o, <1>s, <1>r, <1>op, <2>1 DEF Flip
  <2>2. CASE ~(offers[h.offer].status = "pending_approval" /\ Pending(h.offer) = {})
    BY <1>2, <1>o, <1>r, <1>op, <2>2 DEF Flip
  <2> QED BY <2>1, <2>2
<1>3. CASE BackToDraft(p)
  BY <1>3, <1>o, <1>s, <1>r, <1>op DEF BackToDraft
<1>4. CASE WriteStatus(p)
  <2>1. To[h.op] = Written[h.op] /\ Written[h.op] \in Status
    BY <1>4, <1>op DEF To
  <2>2. SetStatus(h.offer, Written[h.op]) /\ Respond(p) /\ UNCHANGED <<lastOffer, roundVars>>
    BY <1>4, <2>1 DEF WriteStatus
  <2> QED BY <1>4, <1>o, <1>s, <1>r, <1>op, <2>1, <2>2
<1>5. CASE Hire(p)
  <2>1. PICK m : m = [h EXCEPT !.at = "next", !.todo = {h.app}]
    OBVIOUS
  <2>2. m.op = h.op /\ m.offer = h.offer /\ m.at = "next"
    BY <1>a, <2>1 DEF Request
  <2>3. Becomes(p, m) /\ SetStatus(h.offer, "accepted") /\ UNCHANGED <<lastOffer, roundVars>>
    BY <1>5, <2>1 DEF Hire
  <2>4. n = m /\ OthersStay(p)
    BY <2>3, BecomesIs DEF OthersStay
  <2> QED BY <1>5, <1>a, <1>o, <1>s, <1>op, <2>2, <2>3, <2>4
<1> QED BY <1>1, <1>2, <1>3, <1>4, <1>5 DEF Writes

\* ... and two insert an offer and delete one.
LEMMA InsertOfferIs ==
  ASSUME TypeInv, NEW p \in Procs, NEW h, h = req[p], NEW n, n = req'[p], InsertOffer(p)
  PROVE  /\ OthersStay(p) /\ h.op = "create" /\ h.at = "insert" /\ UNCHANGED <<roundVars, stage>>
         /\ \/ UNCHANGED <<offers, lastOffer>> /\ n = Idle
            \/ /\ lastOffer' = lastOffer + 1 /\ lastOffer' \in 1..Offers
               /\ n.op = "create" /\ n.at = "stage" /\ n.app = h.app
               /\ offers'[lastOffer'].app = h.app /\ offers'[lastOffer'].status = "draft"
               /\ \A x \in 1..Offers : x # lastOffer' => offers'[x] = offers[x]
<1>a. h \in Handler /\ h \in Request /\ h.op \in OpsAt[h.at]
  BY HandlerIs
<1>1. h.at = "insert" /\ h.op = "create" /\ UNCHANGED <<roundVars, stage>>
  BY <1>a DEF InsertOffer, OpsAt
<1>2. CASE lastOffer = Offers
  BY <1>1, <1>2, RespondIs DEF InsertOffer, OthersStay
<1>3. CASE lastOffer # Offers
  <2>1. PICK m : m = [h EXCEPT !.at = "stage"]
    OBVIOUS
  <2>2. m.op = h.op /\ m.app = h.app /\ m.at = "stage"
    BY <1>a, <2>1 DEF Request
  <2>3. n = m /\ OthersStay(p)
    BY <1>3, <2>1, BecomesIs DEF InsertOffer, GoTo, OthersStay
  <2>4. /\ lastOffer' = lastOffer + 1 /\ lastOffer' \in 1..Offers
        /\ offers' = [offers EXCEPT ![lastOffer'] = [app |-> h.app, status |-> "draft"]]
    BY <1>3, BoundsAssumption DEF InsertOffer, TypeInv, TypeOK
  <2> QED BY <1>1, <2>2, <2>3, <2>4 DEF TypeInv, TypeOK
<1> QED BY <1>2, <1>3

LEMMA DeleteIs ==
  ASSUME TypeInv, NEW p \in Procs, NEW h, h = req[p], Delete(p)
  PROVE  /\ OthersStay(p) /\ h.op = "delete" /\ req'[p] = Idle /\ UNCHANGED <<lastOffer, lastRow, stage>>
         /\ h.offer \in 1..Offers /\ offers'[h.offer].status = "none"
         /\ \A x \in 1..Offers : x # h.offer => offers'[x] = offers[x]
         /\ approvers' = {r \in approvers : r.offer # h.offer}
<1>1. h.op = "delete" /\ h.offer \in 1..Offers
  BY HandlerIs DEF Delete, OpsAt, Handler, WellPlaced, OfferOps
<1>2. req'[p] = Idle /\ OthersStay(p)
  BY RespondIs DEF Delete, OthersStay
<1>3. offers' = [offers EXCEPT ![h.offer] = NoOffer] /\ NoOffer.status = "none"
  BY DEF Delete, NoOffer
<1>4. approvers' = {r \in approvers : r.offer # h.offer}
  BY DEF Delete, RowsOf
<1> QED BY <1>1, <1>2, <1>3, <1>4 DEF Delete, TypeInv, TypeOK

-----------------------------------------------------------------------------
(* Operations that are alone *)

\* A step of a handler that is not new keeps its operation, or ends it.
LEMMA StepIs ==
  ASSUME TypeInv, NEW p \in Procs, Continue(p) \/ Crash(p), NEW h, h = req[p], NEW n, n = req'[p]
  PROVE  OthersStay(p) /\ h # Idle /\ (n = Idle \/ n.op = h.op)
<1>1. h.at # "idle" \/ h.op # "idle"
  BY OpsAssumption DEF Continue, InsertOffer, StageOffer, Delete, ClearApprovers, AskApprover, OpenRound,
     FindApprover, MarkApprover, Override, Flip, BackToDraft, WriteStatus, Hire, NextHire, CheckActive,
     InsertChecklist, InsertTask, Crash, AllOps
<1> QED BY <1>1, IdleType, QuietIs, WritesIs, InsertOfferIs, DeleteIs, SMTT(40) DEF Continue, Writes

LEMMA TickIs == ASSUME NEW c, TickTasks(c) PROVE UNCHANGED <<offerVars, stage, req>>
BY DEF TickTasks

LEMMA AloneNext ==
  ASSUME TypeInv, AloneInv, [Next]_vars
  PROVE  AloneInv'
<1>0. Idle.op \notin Alone
  BY IdleType, OpsAssumption DEF AllOps
<1>1. ASSUME NEW p \in Procs, Begin(p) PROVE AloneInv'
  <2>1. PICK n : n = req'[p]
    OBVIOUS
  <2>2. /\ OthersStay(p)
        /\ \A q \in Procs : req[q] = Idle \/ (n.op \notin Alone /\ req[q].op \notin Alone)
    BY <1>1, <2>1, BeginIs
  <2> QED BY <1>0, <2>1, <2>2 DEF AloneInv, OthersStay
<1>2. ASSUME NEW p \in Procs, Continue(p) \/ Crash(p) PROVE AloneInv'
  <2>1. PICK h, n : h = req[p] /\ n = req'[p]
    OBVIOUS
  <2>2. OthersStay(p) /\ h # Idle /\ (n = Idle \/ n.op = h.op)
    BY <1>2, <2>1, StepIs
  <2>3. SUFFICES ASSUME NEW q \in Procs, NEW r \in Procs, q # r, req'[q].op \in Alone PROVE req'[r] = Idle
    BY DEF AloneInv
  <2>4. q # r => (req[q].op \in Alone => req[r] = Idle)
    BY DEF AloneInv
  <2>5. CASE q = p
    BY <1>0, <2>1, <2>2, <2>3, <2>4, <2>5 DEF OthersStay
  <2>6. CASE q # p
    BY <2>1, <2>2, <2>3, <2>4, <2>6 DEF OthersStay
  <2> QED BY <2>5, <2>6
<1>3. CASE UNCHANGED req
  BY <1>3 DEF AloneInv
<1> QED BY <1>1, <1>2, <1>3, TickIs DEF Next, vars

\* Nothing else is under way while an operation that is alone is.
LEMMA OthersIdle ==
  ASSUME AloneInv, NEW p \in Procs, req[p].op \in Alone, NEW q \in Procs, q # p
  PROVE  req[q] = Idle
BY DEF AloneInv

-----------------------------------------------------------------------------
(* A candidate has one live offer for a role *)

LEMMA IdleLive == ASSUME NEW os PROVE HandlerLive(Idle, os)
BY IdleType DEF HandlerLive

LEMMA StatusIs == ASSUME TypeInv, NEW o \in 1..Offers PROVE offers[o].status \in Status \cup {"none"}
BY DEF TypeInv, TypeOK, Offer

LEMMA NotReviving == Idle.op \notin Reviving /\ "none" \notin Terminal /\ "none" \notin Status
BY IdleType DEF Reviving, Terminal, Status

\* A step that engages no other offer.
LEMMA LiveKeeps ==
  ASSUME LiveInv, TypeInv', AloneInv', NEW p \in Procs, OthersStay(p),
         \A q \in Procs : q # p => req[q].at # "insert",
         HandlerLive(req'[p], offers'),
         \A x \in 1..Offers : Engaged(offers', req', x) => Engaged(offers, req, x) /\ offers'[x].app = offers[x].app
  PROVE  LiveInv'
<1>1. OneEngaged(offers', req')
  <2> SUFFICES ASSUME NEW o \in 1..Offers, NEW x \in 1..Offers,
                      Engaged(offers', req', o), Engaged(offers', req', x), offers'[o].app = offers'[x].app
               PROVE  o = x
    BY DEF OneEngaged
  <2>1. Engaged(offers, req, o) /\ Engaged(offers, req, x) /\ offers[o].app = offers[x].app
    OBVIOUS
  <2> QED BY <2>1 DEF LiveInv, OneEngaged
<1>2. \A q \in Procs : HandlerLive(req'[q], offers')
  BY DEF HandlerLive, OthersStay
<1> QED BY <1>1, <1>2 DEF LiveInv

\* A handler that keeps its operation and its offer, or ends, engages nothing.
LEMMA RevivingStays ==
  ASSUME NEW p \in Procs, OthersStay(p), req'[p] = Idle \/ (req'[p].op = req[p].op /\ req'[p].offer = req[p].offer),
         NEW x, \E q \in Procs : req'[q].op \in Reviving /\ req'[q].offer = x
  PROVE  \E q \in Procs : req[q].op \in Reviving /\ req[q].offer = x
BY NotReviving DEF OthersStay

LEMMA LiveBegin ==
  ASSUME "create" \in Alone, LiveInv, NEW p \in Procs, Begin(p), TypeInv', AloneInv'
  PROVE  LiveInv'
<1>1. PICK n : n = req'[p]
  OBVIOUS
<1>2. TypeInv /\ n \in Handler
  BY <1>1 DEF LiveInv, TypeInv
<1>3. UNCHANGED offers /\ OthersStay(p)
  BY <1>1, <1>2, BeginIs DEF offerVars
<1>4. HandlerLive(n, offers)
  BY <1>1, <1>2, BeginIs DEF HandlerLive, LiveOffers, Live, LiveIn
<1>5. n.op \in Reviving => offers[n.offer].status \notin Terminal
  <2>1. /\ n.op = "submit" => offers[n.offer].status = "draft"
        /\ n.op = "reject" => offers[n.offer].status = "pending_approval"
        /\ n.op = "send" => offers[n.offer].status \in From[n.op]
        /\ n.op = "accept" => offers[n.offer].status = "sent"
    BY <1>1, <1>2, BeginIs
  <2> QED BY <2>1 DEF Reviving, Terminal, From
<1>6. ASSUME NEW q \in Procs, q # p PROVE req[q].at # "insert"
  <2>1. req[q].at = "insert" => req[q].op = "create"
    BY <1>2 DEF TypeInv, Handler, WellPlaced, OpsAt
  <2>2. req[q] = Idle \/ req[q].op \notin Alone
    BY <1>1, <1>2, BeginIs
  <2> QED BY <2>1, <2>2, IdleType
<1>7. ASSUME NEW x \in 1..Offers, Engaged(offers', req', x) PROVE Engaged(offers, req, x) /\ offers'[x].app = offers[x].app
  <2>1. offers[x].status \in Terminal /\ (\E q \in Procs : req'[q].op \in Reviving /\ req'[q].offer = x)
          => \E q \in Procs : req[q].op \in Reviving /\ req[q].offer = x
    BY <1>1, <1>3, <1>5 DEF OthersStay
  <2> QED BY <1>3, <1>7, <2>1 DEF Engaged
<1> QED BY <1>1, <1>3, <1>4, <1>6, <1>7, LiveKeeps

\* A write leaves no offer engaged that was not: a handler that writes a live
\* status to a dead offer has engaged it, and there is no other way to live.
LEMMA LiveWrite ==
  ASSUME LiveInv, NEW p \in Procs, Writes(p), NEW x \in 1..Offers, Engaged(offers', req', x)
  PROVE  Engaged(offers, req, x) /\ offers'[x].app = offers[x].app
<1>1. PICK h, n : h = req[p] /\ n = req'[p]
  OBVIOUS
<1>2. TypeInv
  BY DEF LiveInv
<1>3. OthersStay(p) /\ h.op \in DOMAIN Written /\ h.offer \in 1..Offers
  BY <1>1, <1>2, WritesIs
<1>4. n = Idle \/ (n.op = h.op /\ n.offer = h.offer)
  BY <1>1, <1>2, WritesIs
<1>5. (\E q \in Procs : req'[q].op \in Reviving /\ req'[q].offer = x)
        => \E q \in Procs : req[q].op \in Reviving /\ req[q].offer = x
  BY <1>1, <1>3, <1>4, RevivingStays
<1>6. offers[x].status \in Status \cup {"none"}
  BY <1>2, StatusIs
<1>7. CASE offers'[x] = offers[x] \/ (offers'[x].app = offers[x].app /\ offers'[x].status = offers[x].status)
  BY <1>5, <1>7 DEF Engaged, LiveIn
<1>8. CASE /\ x = h.offer /\ offers[x].status # "none" /\ offers'[x].app = offers[x].app
           /\ offers'[x].status = Written[h.op]
           /\ h.op = "approve" => offers[x].status = "pending_approval"
  <2>1. CASE offers[x].status \notin Terminal
    BY <1>6, <1>8, <2>1 DEF Engaged, LiveIn
  <2>2. CASE offers[x].status \in Terminal /\ h.op \in Reviving
    BY <1>1, <1>8, <2>2 DEF Engaged
  <2>3. CASE offers[x].status \in Terminal /\ h.op \in {"revoke", "decline"}
    <3>1. Written[h.op] \in Terminal
      BY <2>3 DEF Written, Terminal
    <3> QED BY <1>5, <1>8, <2>3, <3>1 DEF Engaged, LiveIn
  <2>4. h.op \in Reviving \cup {"revoke", "decline", "approve"}
    BY <1>3 DEF Written, Reviving
  <2>5. "pending_approval" \notin Terminal
    BY DEF Terminal
  <2> QED BY <1>8, <2>1, <2>2, <2>3, <2>4, <2>5
<1>9. \/ UNCHANGED offers
      \/ /\ offers'[x].app = offers[x].app
         /\ offers'[x].status = IF x = h.offer /\ offers[x].status # "none" THEN Written[h.op] ELSE offers[x].status
         /\ h.op = "approve" => offers[h.offer].status = "pending_approval"
  BY <1>1, <1>2, WritesIs
<1> QED BY <1>7, <1>8, <1>9

LEMMA LiveStep ==
  ASSUME "create" \in Alone, LiveInv, NEW p \in Procs, Continue(p) \/ Crash(p), TypeInv', AloneInv'
  PROVE  LiveInv'
<1>1. PICK h, n : h = req[p] /\ n = req'[p]
  OBVIOUS
<1>2. TypeInv /\ AloneInv /\ HandlerLive(h, offers)
  BY <1>1 DEF LiveInv
<1>3. OthersStay(p) /\ h # Idle
  BY <1>1, <1>2, StepIs
<1>4. ASSUME NEW q \in Procs, q # p PROVE req[q].at # "insert"
  <2>1. req[q].at = "insert" => req[q].op = "create"
    BY <1>2 DEF TypeInv, Handler, WellPlaced, OpsAt
  <2> QED BY <1>1, <1>2, <1>3, <1>4, <2>1, OthersIdle
<1>5. ASSUME HandlerLive(n, offers'),
             \A x \in 1..Offers : Engaged(offers', req', x) => Engaged(offers, req, x) /\ offers'[x].app = offers[x].app
      PROVE  LiveInv'
  BY <1>1, <1>3, <1>4, <1>5, LiveKeeps
<1>6. ASSUME UNCHANGED offers, n = Idle \/ (n.op = h.op /\ n.offer = h.offer /\ n.at # "insert") PROVE LiveInv'
  <2>1. ASSUME NEW x \in 1..Offers, Engaged(offers', req', x) PROVE Engaged(offers, req, x)
    BY <1>1, <1>3, <1>6, <2>1, RevivingStays DEF Engaged
  <2> QED BY <1>5, <1>6, <2>1, IdleLive DEF HandlerLive
<1>7. CASE InsertOffer(p)
  <2>1. h.op = "create" /\ h.at = "insert"
    BY <1>1, <1>2, <1>7, InsertOfferIs
  <2>2. \A q \in Procs : q # p => req[q] = Idle
    BY <1>1, <1>2, <2>1, OthersIdle
  <2>3. CASE UNCHANGED <<offers, lastOffer>> /\ n = Idle
    BY <1>6, <2>3
  <2>4. CASE /\ lastOffer' \in 1..Offers /\ n.op = "create" /\ n.at = "stage"
             /\ offers'[lastOffer'].app = h.app
             /\ \A x \in 1..Offers : x # lastOffer' => offers'[x] = offers[x]
    <3>1. \A q \in Procs : req'[q].op \notin Reviving
      BY <1>1, <1>3, <2>2, <2>4, NotReviving DEF OthersStay, Reviving
    <3>2. \A o \in 1..Offers : LiveIn(offers, o) => offers[o].app # h.app
      BY <1>2, <2>1 DEF HandlerLive
    <3>3. \A o \in 1..Offers : Engaged(offers', req', o) => o = lastOffer' \/ (LiveIn(offers, o) /\ offers'[o] = offers[o])
      BY <2>4, <3>1 DEF Engaged, LiveIn
    <3>4. \A o \in 1..Offers : LiveIn(offers, o) => Engaged(offers, req, o)
      BY DEF Engaged
    <3>5. OneEngaged(offers, req)
      BY DEF LiveInv
    <3>6. OneEngaged(offers', req')
      <4> SUFFICES ASSUME NEW o \in 1..Offers, NEW x \in 1..Offers,
                          Engaged(offers', req', o), Engaged(offers', req', x), offers'[o].app = offers'[x].app
                   PROVE  o = x
        BY DEF OneEngaged
      <4>1. CASE o = lastOffer' \/ x = lastOffer'
        BY <2>4, <3>2, <3>3, <4>1
      <4>2. CASE o # lastOffer' /\ x # lastOffer'
        BY <3>3, <3>4, <3>5, <4>2 DEF OneEngaged
      <4> QED BY <4>1, <4>2
    <3>7. \A q \in Procs : HandlerLive(req'[q], offers')
      BY <1>1, <1>3, <2>2, <2>4, IdleLive DEF OthersStay, HandlerLive
    <3> QED BY <3>6, <3>7 DEF LiveInv
  <2> QED BY <1>1, <1>2, <1>7, <2>3, <2>4, InsertOfferIs
<1>8. CASE Delete(p)
  <2>1. /\ n = Idle /\ h.offer \in 1..Offers /\ offers'[h.offer].status = "none"
        /\ \A x \in 1..Offers : x # h.offer => offers'[x] = offers[x]
    BY <1>1, <1>2, <1>8, DeleteIs
  <2>2. ASSUME NEW x \in 1..Offers, Engaged(offers', req', x)
        PROVE  Engaged(offers, req, x) /\ offers'[x].app = offers[x].app
    <3>1. x # h.offer
      BY <2>1, <2>2, NotReviving DEF Engaged, LiveIn
    <3>2. offers'[x] = offers[x]
      BY <2>1, <3>1
    <3> QED BY <1>1, <1>3, <2>1, <2>2, <3>2, RevivingStays DEF Engaged, LiveIn
  <2> QED BY <1>5, <2>1, <2>2, IdleLive
<1>9. CASE Writes(p)
  <2>1. n = Idle \/ n.at # "insert"
    BY <1>1, <1>2, <1>9, WritesIs
  <2> QED BY <1>5, <1>9, <2>1, LiveWrite, IdleLive DEF HandlerLive
<1>10. CASE \/ StageOffer(p) \/ ClearApprovers(p) \/ (\E u \in Users : AskApprover(p, u))
            \/ FindApprover(p) \/ MarkApprover(p) \/ Override(p)
            \/ NextHire(p) \/ CheckActive(p) \/ InsertChecklist(p) \/ InsertTask(p) \/ Crash(p)
  BY <1>1, <1>2, <1>6, <1>10, QuietIs
<1> QED BY <1>7, <1>8, <1>9, <1>10 DEF Continue, Writes

LEMMA LiveInvInit == Init => LiveInv
<1> SUFFICES ASSUME Init PROVE LiveInv
  OBVIOUS
<1>1. TypeInv
  BY TypeInvInit
<1>2. AloneInv
  BY DEF Init, AloneInv
<1>3. OneEngaged(offers, req)
  BY NotReviving DEF Init, OneEngaged, Engaged, LiveIn, NoOffer
<1>4. \A p \in Procs : HandlerLive(req[p], offers)
  BY IdleLive DEF Init
<1> QED BY <1>1, <1>2, <1>3, <1>4 DEF LiveInv

LEMMA LiveInvNext ==
  ASSUME "create" \in Alone, LiveInv, [Next]_vars
  PROVE  LiveInv'
<1>1. TypeInv' /\ AloneInv'
  BY TypeInvNext, AloneNext DEF LiveInv
<1>2. ASSUME NEW p \in Procs, Begin(p) \/ Continue(p) \/ Crash(p) PROVE LiveInv'
  BY <1>1, <1>2, LiveBegin, LiveStep
<1>3. CASE UNCHANGED <<offers, req>>
  BY <1>1, <1>3 DEF LiveInv, OneEngaged, Engaged
<1> QED BY <1>2, <1>3, TickIs DEF Next, vars, offerVars

\* If nothing overlaps a creation, an application has at most one live offer, however
\* the other requests interleave (a withdrawn offer may come back to life, as a status
\* is written without looking at it again) and wherever any request stops.
THEOREM OneOfferIsLive == ASSUME "create" \in Alone PROVE Spec => []OneLiveOffer
<1>1. LiveInv /\ [Next]_vars => LiveInv'
  BY LiveInvNext
<1>2. LiveInv => OneLiveOffer
  <2> SUFFICES ASSUME LiveInv, NEW a \in Apps PROVE Cardinality(LiveOffers(a)) <= 1
    BY DEF OneLiveOffer
  <2>1. ASSUME NEW o \in LiveOffers(a) PROVE LiveOffers(a) = {o}
    BY <2>1 DEF LiveInv, OneEngaged, Engaged, LiveIn, LiveOffers, Live
  <2>2. CASE LiveOffers(a) = {}
    BY <2>2, FS_EmptySet
  <2>3. CASE LiveOffers(a) # {}
    <3>1. PICK o : LiveOffers(a) = {o}
      BY <2>1, <2>3
    <3>2. Cardinality({o}) = 1
      BY FS_Singleton
    <3> QED BY <3>1, <3>2
  <2> QED BY <2>2, <2>3
<1> QED BY <1>1, <1>2, LiveInvInit, PTL DEF Spec

-----------------------------------------------------------------------------
(* Hired is accepted *)

LEMMA IdleHires == ASSUME NEW os PROVE HandlerHires(Idle, os)
BY IdleType DEF HandlerHires

LEMMA HiresStay ==
  ASSUME NEW os, NEW h, NEW n, HandlerHires(h, os),
         n = Idle \/ (n.op = h.op /\ n.offer = h.offer /\ n.at \notin {"stage", "hire"})
  PROVE  HandlerHires(n, os)
BY IdleHires DEF HandlerHires

LEMMA HireBegin ==
  ASSUME HireInv, NEW p \in Procs, Begin(p), LiveInv'
  PROVE  HireInv'
<1>1. PICK n : n = req'[p]
  OBVIOUS
<1>2. TypeInv
  BY DEF HireInv, LiveInv
<1>3. UNCHANGED <<offers, stage>> /\ OthersStay(p)
  BY <1>1, <1>2, BeginIs DEF offerVars
<1>4. HandlerHires(n, offers)
  <2>1. /\ n.op \in {"submit", "delete"} => offers[n.offer].status = "draft"
        /\ n.op = "reject" => offers[n.offer].status = "pending_approval"
        /\ n.op \in {"send", "revoke", "decline"} => offers[n.offer].status \in From[n.op]
        /\ n.op = "accept" => offers[n.offer].status = "sent" /\ n.app = offers[n.offer].app
        /\ n.at # "stage"
    BY <1>1, <1>2, BeginIs
  <2>2. n.at = "hire" => n.op = "accept"
    BY <1>1 DEF LiveInv, TypeInv, Handler, WellPlaced, OpsAt
  <2> QED BY <2>1, <2>2 DEF HandlerHires, IsOut, From
<1> QED BY <1>1, <1>3, <1>4 DEF HireInv, OthersStay

\* The accepted offers stay the same, with their applications.
SameAccepted(os, new) ==
  \A x \in 1..Offers : (new[x].status = "accepted" <=> os[x].status = "accepted")
                       /\ (os[x].status = "accepted" => new[x].app = os[x].app)

LEMMA SameAcceptedKeeps ==
  ASSUME NEW os, NEW new, SameAccepted(os, new), HiredRight(os, stage)
  PROVE  HiredRight(new, stage)
BY DEF SameAccepted, HiredRight

\* A write to an offer that is neither sent nor accepted, of a status that is neither.
LEMMA AsideKeeps ==
  ASSUME NEW os, NEW new, NEW o \in 1..Offers, ~IsOut(os, o), ~IsOut(new, o),
         \A x \in 1..Offers : x # o => new[x].status = os[x].status /\ new[x].app = os[x].app
  PROVE  /\ SameAccepted(os, new)
         /\ \A h \in Handler : HandlerHires(h, os) => HandlerHires(h, new)
<1>1. SameAccepted(os, new)
  BY DEF SameAccepted, IsOut
<1>2. ASSUME NEW h \in Handler, HandlerHires(h, os) PROVE HandlerHires(h, new)
  <2>1. h.op \in OfferOps => h.offer \in 1..Offers
    BY DEF Handler, WellPlaced
  <2>2. h.at = "hire" => h.op = "accept"
    BY DEF Handler, WellPlaced, OpsAt, Request, Places
  <2>3. \A x \in 1..Offers : /\ IsOut(new, x) <=> IsOut(os, x)
                             /\ new[x].status = "accepted" <=> os[x].status = "accepted"
                             /\ IsOut(new, x) => new[x].app = os[x].app
    BY DEF IsOut
  <2>4. IsOut(new, o) <=> FALSE
    OBVIOUS
  <2>5. /\ h.op \in {"submit", "reject", "delete"} => ~IsOut(new, h.offer)
        /\ h.op \in {"send", "revoke", "decline"} => new[h.offer].status # "accepted"
    BY <1>2, <2>1, <2>3 DEF HandlerHires, OfferOps
  <2>6. h.at = "hire" => IsOut(new, h.offer) /\ new[h.offer].app = h.app
    BY <1>2, <2>1, <2>2, <2>3 DEF HandlerHires, OfferOps
  <2>7. h.at = "stage" => \A x \in 1..Offers : new[x].status = "accepted" => new[x].app # h.app
    BY <1>2, <2>3 DEF HandlerHires, IsOut
  <2> QED BY <2>5, <2>6, <2>7 DEF HandlerHires
<1> QED BY <1>1, <1>2

LEMMA HireStep ==
  ASSUME {"create", "send", "revoke", "decline"} \subseteq Alone, HireInv, NEW p \in Procs,
         Continue(p) \/ Crash(p), LiveInv'
  PROVE  HireInv'
<1>1. PICK h, n : h = req[p] /\ n = req'[p]
  OBVIOUS
<1>2. TypeInv /\ AloneInv /\ HandlerHires(h, offers) /\ HandlerLive(h, offers) /\ h \in Handler
  BY <1>1 DEF HireInv, LiveInv, TypeInv
<1>3. OthersStay(p) /\ \A q \in Procs : req[q] \in Handler /\ HandlerHires(req[q], offers)
  BY <1>1, <1>2, StepIs DEF HireInv, TypeInv
<1>4. ASSUME HiredRight(offers', stage'), \A q \in Procs : q # p => HandlerHires(req[q], offers'),
             HandlerHires(n, offers')
      PROVE  HireInv'
  BY <1>1, <1>3, <1>4 DEF HireInv, OthersStay
<1>5. HiredRight(offers, stage)
  BY DEF HireInv
<1>6. \A x \in 1..Offers : offers[x].status \in Status \cup {"none"}
  BY <1>2, StatusIs
<1>7. CASE InsertOffer(p)
  <2>1. h.op = "create" /\ h.at = "insert" /\ UNCHANGED stage
    BY <1>1, <1>2, <1>7, InsertOfferIs
  <2>2. \A q \in Procs : q # p => req[q] = Idle
    BY <1>1, <1>2, <2>1, OthersIdle
  <2>3. CASE UNCHANGED <<offers, lastOffer>> /\ n = Idle
    BY <1>3, <1>4, <1>5, <2>1, <2>3, IdleHires
  <2>4. CASE /\ lastOffer' = lastOffer + 1 /\ lastOffer' \in 1..Offers
             /\ n.op = "create" /\ n.at = "stage" /\ n.app = h.app
             /\ offers'[lastOffer'].app = h.app /\ offers'[lastOffer'].status = "draft"
             /\ \A x \in 1..Offers : x # lastOffer' => offers'[x] = offers[x]
    <3>1. offers[lastOffer'].status = "none"
      BY <1>2, <2>4 DEF TypeInv, TypeOK, Beyond
    <3>2. SameAccepted(offers, offers')
      BY <2>4, <3>1 DEF SameAccepted
    <3>3. \A o \in 1..Offers : offers[o].status = "accepted" => offers[o].app # h.app
      BY <1>2, <2>1 DEF HandlerLive, LiveIn, Status, Terminal
    <3>4. HandlerHires(n, offers')
      BY <2>4, <3>2, <3>3 DEF HandlerHires, SameAccepted
    <3> QED BY <1>4, <1>5, <2>1, <2>2, <3>2, <3>4, SameAcceptedKeeps, IdleHires
  <2> QED BY <1>1, <1>2, <1>7, <2>3, <2>4, InsertOfferIs
<1>8. CASE StageOffer(p)
  <2>1. h.at = "stage" /\ stage' = [stage EXCEPT ![h.app] = "offer"] /\ h.app \in Apps
    BY <1>1, <1>2, <1>8 DEF StageOffer, Handler, WellPlaced
  <2>2. \A o \in 1..Offers : offers[o].status = "accepted" => offers[o].app # h.app
    BY <1>2, <2>1 DEF HandlerHires
  <2>3. n = Idle /\ UNCHANGED offers
    BY <1>1, <1>2, <1>8, RespondIs DEF StageOffer, offerVars
  <2>4. HiredRight(offers, stage')
    BY <1>2, <1>5, <2>1, <2>2 DEF HiredRight, TypeInv, TypeOK
  <2> QED BY <1>3, <1>4, <2>3, <2>4, IdleHires
<1>9. CASE Delete(p)
  <2>1. /\ n = Idle /\ h.op = "delete" /\ h.offer \in 1..Offers /\ offers'[h.offer].status = "none" /\ UNCHANGED stage
        /\ \A x \in 1..Offers : x # h.offer => offers'[x] = offers[x]
    BY <1>1, <1>2, <1>9, DeleteIs
  <2>2. ~IsOut(offers, h.offer) /\ ~IsOut(offers', h.offer)
    BY <1>2, <2>1 DEF HandlerHires, IsOut
  <2> QED BY <1>3, <1>4, <1>5, <2>1, <2>2, AsideKeeps, SameAcceptedKeeps, IdleHires
<1>10. CASE Writes(p) /\ ~Hire(p)
  <2>1. n = Idle /\ h.op \in DOMAIN Written \ {"accept"} /\ h.offer \in 1..Offers /\ UNCHANGED stage
    BY <1>1, <1>2, <1>10, WritesIs DEF Writes, OpenRound, Flip, BackToDraft, WriteStatus
  <2>2. CASE UNCHANGED offers
    BY <1>3, <1>4, <1>5, <2>1, <2>2, IdleHires
  <2>3. CASE /\ \A x \in 1..Offers :
                  /\ offers'[x].app = offers[x].app
                  /\ offers'[x].status = IF x = h.offer /\ offers[x].status # "none"
                                           THEN Written[h.op] ELSE offers[x].status
             /\ h.op = "approve" => offers[h.offer].status = "pending_approval"
    <3>1. CASE h.op \in {"submit", "reject", "approve"}
      <4>1. ~IsOut(offers, h.offer)
        BY <1>2, <2>3, <3>1 DEF HandlerHires, IsOut
      <4>2. ~IsOut(offers', h.offer)
        BY <2>1, <2>3, <3>1, <4>1 DEF IsOut, Written
      <4> QED BY <1>3, <1>4, <1>5, <2>1, <2>3, <4>1, <4>2, AsideKeeps, SameAcceptedKeeps, IdleHires
    <3>2. CASE h.op \in {"send", "revoke", "decline"}
      <4>1. \A q \in Procs : q # p => req[q] = Idle
        BY <1>1, <1>2, <3>2, OthersIdle
      <4>2. offers[h.offer].status # "accepted" /\ Written[h.op] # "accepted"
        BY <1>2, <3>2 DEF HandlerHires, Written
      <4>3. SameAccepted(offers, offers')
        BY <2>3, <4>2 DEF SameAccepted
      <4> QED BY <1>4, <1>5, <2>1, <4>1, <4>3, SameAcceptedKeeps, IdleHires
    <3> QED BY <2>1, <3>1, <3>2 DEF Written
  <2> QED BY <1>1, <1>2, <1>10, <2>2, <2>3, WritesIs
<1>11. CASE Hire(p)
  <2>1. h.at = "hire" /\ h.op = "accept" /\ stage' = [stage EXCEPT ![h.app] = "hired"]
    BY <1>1, <1>2, <1>11, WritesIs DEF Hire, Writes
  <2>2. h.offer \in 1..Offers /\ h.app \in Apps /\ IsOut(offers, h.offer) /\ offers[h.offer].app = h.app
    BY <1>2, <2>1 DEF HandlerHires, Handler, WellPlaced, OfferOps
  <2>3. \A x \in 1..Offers : /\ offers'[x].app = offers[x].app
                             /\ offers'[x].status = IF x = h.offer THEN "accepted" ELSE offers[x].status
    <3>1. \A x \in 1..Offers :
            /\ offers'[x].app = offers[x].app
            /\ offers'[x].status = IF x = h.offer /\ offers[x].status # "none"
                                     THEN Written[h.op] ELSE offers[x].status
      BY <1>1, <1>2, <1>11, <2>1, WritesIs DEF Writes
    <3> QED BY <2>1, <2>2, <3>1 DEF Written, IsOut
  <2>4. n.op = "accept" /\ n.offer = h.offer /\ n.at = "next"
    BY <1>1, <1>2, <1>11, <2>1, WritesIs DEF Writes
  <2>5. HiredRight(offers', stage')
    BY <1>2, <1>5, <2>1, <2>2, <2>3 DEF HiredRight, TypeInv, TypeOK
  <2>6. ASSUME NEW q \in Procs, q # p PROVE HandlerHires(req[q], offers')
    <3>1. PICK k \in Handler : k = req[q] /\ HandlerHires(k, offers)
      BY <1>3
    <3>2. k.op \in OfferOps => k.offer \in 1..Offers
      BY DEF Handler, WellPlaced
    <3>3. k.op \notin {"send", "revoke", "decline"} /\ k.at # "stage"
      <4>1. k.at = "stage" => k.op = "create"
        BY DEF Handler, WellPlaced, OpsAt, Request, Places
      <4>2. h # Idle
        BY <2>1, IdleType
      <4> QED BY <1>1, <1>2, <2>6, <3>1, <4>1, <4>2, OthersIdle
    <3>4. k.op \in {"submit", "reject", "delete"} => ~IsOut(offers', k.offer)
      BY <2>2, <2>3, <3>1, <3>2 DEF HandlerHires, IsOut, OfferOps
    <3>5. k.at = "hire" => IsOut(offers', k.offer) /\ offers'[k.offer].app = k.app
      <4>1. k.at = "hire" => k.op = "accept"
        BY DEF Handler, WellPlaced, OpsAt, Request, Places
      <4> QED BY <2>3, <3>1, <3>2, <4>1 DEF HandlerHires, IsOut, OfferOps
    <3> QED BY <3>1, <3>3, <3>4, <3>5 DEF HandlerHires
  <2>7. HandlerHires(n, offers')
    BY <2>4 DEF HandlerHires
  <2> QED BY <1>4, <2>5, <2>6, <2>7
<1>12. CASE \/ ClearApprovers(p) \/ (\E u \in Users : AskApprover(p, u))
            \/ FindApprover(p) \/ MarkApprover(p) \/ Override(p)
            \/ NextHire(p) \/ CheckActive(p) \/ InsertChecklist(p) \/ InsertTask(p) \/ Crash(p)
  <2>1. UNCHANGED offers /\ (n = Idle \/ (n.op = h.op /\ n.offer = h.offer /\ n.at \notin {"stage", "hire"}))
    BY <1>1, <1>2, <1>12, QuietIs, SMTT(40)
  <2>2. UNCHANGED stage
    BY <1>12 DEF ClearApprovers, AskApprover, FindApprover, MarkApprover, Override, NextHire, CheckActive,
       InsertChecklist, InsertTask, Crash
  <2>3. HandlerHires(n, offers)
    BY <1>2, <2>1, HiresStay
  <2> QED BY <1>3, <1>4, <1>5, <2>1, <2>2, <2>3
<1> QED BY <1>7, <1>8, <1>9, <1>10, <1>11, <1>12 DEF Continue, Writes

\* If nothing overlaps a creation, a sending, a withdrawal or a refusal by the
\* candidate, an application is hired exactly if one of its offers is accepted,
\* wherever an acceptance stops and however acceptances overlap.
THEOREM HiredMeansAccepted ==
  ASSUME {"create", "send", "revoke", "decline"} \subseteq Alone
  PROVE  Spec => []HiredIsAccepted
<1>1. Init => HireInv
  <2>1. Init => HiredRight(offers, stage)
    BY DEF Init, HiredRight, NoOffer
  <2>2. Init => \A p \in Procs : HandlerHires(req[p], offers)
    BY IdleHires DEF Init
  <2> QED BY <2>1, <2>2, LiveInvInit DEF HireInv
<1>2. HireInv /\ [Next]_vars => HireInv'
  <2> SUFFICES ASSUME HireInv, [Next]_vars PROVE HireInv'
    OBVIOUS
  <2>1. LiveInv'
    BY LiveInvNext DEF HireInv
  <2>2. ASSUME NEW p \in Procs, Begin(p) \/ Continue(p) \/ Crash(p) PROVE HireInv'
    BY <2>1, <2>2, HireBegin, HireStep
  <2>3. CASE UNCHANGED <<offers, stage, req>>
    BY <2>1, <2>3 DEF HireInv
  <2> QED BY <2>2, <2>3, TickIs DEF Next, vars, offerVars
<1>3. HireInv => HiredIsAccepted
  BY DEF HireInv, HiredRight, HiredIsAccepted
<1> QED BY <1>1, <1>2, <1>3, PTL DEF Spec

-----------------------------------------------------------------------------
(* A round that is passed was passed by everyone it asked *)

LEMMA IdleRound == ASSUME NEW os, NEW as, NEW last PROVE HandlerRound(Idle, os, as, last)
BY IdleType DEF HandlerRound

LEMMA RowTypes ==
  ASSUME TypeInv
  PROVE  /\ lastRow \in Nat
         /\ \A r \in approvers : r \in Approver /\ r.id \in Nat /\ r.status \in {"pending", "approved", "rejected"}
BY DEF TypeInv, TypeOK, Approver

\* A handler that keeps its operation and its offer goes on, unless it marks or asks.
LEMMA RoundStays ==
  ASSUME NEW os, NEW as, NEW last, NEW h, NEW n, HandlerRound(h, os, as, last),
         n = Idle \/ (n.op = h.op /\ n.offer = h.offer /\ n.at \notin {"mark", "clear", "ask"})
  PROVE  HandlerRound(n, os, as, last)
BY IdleRound, ZenonT(60) DEF HandlerRound

LEMMA RoundBegin ==
  ASSUME RoundInv, NEW p \in Procs, Begin(p), TypeInv', AloneInv'
  PROVE  RoundInv'
<1>1. PICK n : n = req'[p]
  OBVIOUS
<1>2. TypeInv /\ n \in Handler
  BY <1>1 DEF RoundInv, TypeInv
<1>3. UNCHANGED <<offers, approvers, lastRow>> /\ OthersStay(p) /\ req[p] = Idle
  BY <1>1, <1>2, BeginIs DEF offerVars, roundVars
<1>4. HandlerRound(n, offers, approvers, lastRow)
  <2>1. /\ n.at \in {"insert", "delete", "clear", "find", "write", "hire", "active", "next"}
        /\ n.op = "submit" => offers[n.offer].status = "draft" /\ n.at = "clear" /\ n.ask \in Rounds
        /\ n.op = "reject" => offers[n.offer].status = "pending_approval"
        /\ n.op = "send" => offers[n.offer].status \in From[n.op]
        /\ n.op = "accept" => offers[n.offer].status = "sent"
    BY <1>1, <1>2, BeginIs
  <2>2. n.at = "clear" => n.op = "submit"
    BY <1>2 DEF Handler, WellPlaced, OpsAt
  <2>3. n.op \in {"send", "accept"} => n.offer \in 1..Offers /\ offers[n.offer].status \in {"approved", "sent"}
    BY <1>2, <2>1 DEF Handler, WellPlaced, OfferOps, From
  <2>4. n.op \in {"send", "accept"} => Passed(approvers, n.offer)
    BY <2>3 DEF RoundInv, RoundRight
  <2>5. n.at = "clear" => n.ask # {}
    BY <2>1, <2>2, UsersAssumption
  <2> QED BY <2>1, <2>4, <2>5 DEF HandlerRound
<1>5. ASSUME NEW o \in 1..Offers PROVE RoundRight(o)'
  <2>1. Rejecting(o) => Rejecting(o)'
    BY <1>3, IdleType DEF Rejecting, OthersStay
  <2> QED BY <1>3, <2>1 DEF RoundInv, RoundRight
<1> QED BY <1>1, <1>3, <1>4, <1>5 DEF RoundInv, OthersStay

\* What every step has to show.
LEMMA RoundParts ==
  ASSUME TypeInv', AloneInv', NEW p \in Procs, OthersStay(p), NEW n, n = req'[p],
         IdsRight(approvers', lastRow'),
         \A o \in 1..Offers : RoundRight(o)',
         \A q \in Procs : q # p => HandlerRound(req[q], offers', approvers', lastRow'),
         HandlerRound(n, offers', approvers', lastRow')
  PROVE  RoundInv'
BY DEF RoundInv, OthersStay

\* A rejection that another request does not carry goes on.
LEMMA RejectingStays ==
  ASSUME NEW p \in Procs, OthersStay(p), req[p].at # "draft", NEW o
  PROVE  Rejecting(o) => Rejecting(o)'
BY DEF Rejecting, OthersStay

\* The steps of a submission, which nothing overlaps.
LEMMA SubmitStep ==
  ASSUME {"submit", "reject"} \subseteq Alone, RoundInv, NEW p \in Procs,
         ClearApprovers(p) \/ (\E u \in Users : AskApprover(p, u)) \/ OpenRound(p), TypeInv', AloneInv'
  PROVE  RoundInv'
<1>1. PICK h, n : h = req[p] /\ n = req'[p]
  OBVIOUS
<1>2. TypeInv /\ AloneInv /\ HandlerRound(h, offers, approvers, lastRow) /\ h \in Handler /\ h \in Request
  BY <1>1 DEF RoundInv, TypeInv, Handler
<1>3. h.op = "submit" /\ h.offer \in 1..Offers /\ h.at \in {"clear", "ask"}
  <2>1. h.at \in {"clear", "ask"}
    BY <1>1 DEF ClearApprovers, AskApprover, OpenRound
  <2> QED BY <1>2, <2>1 DEF Handler, WellPlaced, OpsAt, OfferOps
<1>4. offers[h.offer].status = "draft"
  BY <1>2, <1>3 DEF HandlerRound
<1>5. \A q \in Procs : q # p => req[q] = Idle
  BY <1>1, <1>2, <1>3, OthersIdle
<1>6. OthersStay(p)
  BY <1>1, <1>2, StepIs DEF Continue
<1>7. \A o \in 1..Offers : ~Rejecting(o)
  BY <1>1, <1>3, <1>5, IdleType DEF Rejecting
<1>8. ASSUME IdsRight(approvers', lastRow'), HandlerRound(n, offers', approvers', lastRow'),
             \A o \in 1..Offers : RoundRight(o)'
      PROVE  RoundInv'
  BY <1>1, <1>5, <1>6, <1>8, RoundParts, IdleRound
<1>9. ASSUME UNCHANGED offers,
             \A o \in 1..Offers : o # h.offer => \A r : r \in approvers' /\ r.offer = o <=> r \in approvers /\ r.offer = o
      PROVE  \A o \in 1..Offers : RoundRight(o)'
  <2> SUFFICES ASSUME NEW o \in 1..Offers PROVE RoundRight(o)'
    OBVIOUS
  <2>1. CASE o = h.offer
    BY <1>4, <1>9, <2>1 DEF RoundRight
  <2>2. CASE o # h.offer
    <3>1. /\ offers'[o].status = "pending_approval" =>
               /\ \E r \in approvers : r.offer = o
               /\ ~\E r \in approvers : r.offer = o /\ r.status = "rejected"
          /\ offers'[o].status \in {"approved", "sent", "accepted"} => Passed(approvers, o)
      BY <1>7, <1>9 DEF RoundInv, RoundRight
    <3>2. \A r : r \in approvers' /\ r.offer = o <=> r \in approvers /\ r.offer = o
      BY <1>9, <2>2
    <3> QED BY <3>1, <3>2 DEF RoundRight, Passed
  <2> QED BY <2>1, <2>2
<1>10. CASE ClearApprovers(p)
  <2>1. PICK m : m = [h EXCEPT !.at = "ask"]
    OBVIOUS
  <2>2. m.op = h.op /\ m.offer = h.offer /\ m.at = "ask" /\ m.ask = h.ask
    BY <1>2, <2>1 DEF Request
  <2>3. n = m
    BY <1>1, <1>2, <1>10, <2>1, BecomesIs DEF ClearApprovers, GoTo
  <2>4. h.at = "clear" /\ UNCHANGED <<offers, lastRow>> /\ approvers' = {r \in approvers : r.offer # h.offer}
    BY <1>1, <1>10 DEF ClearApprovers, RowsOf
  <2>5. IdsRight(approvers', lastRow')
    BY <2>4 DEF RoundInv, IdsRight
  <2>6. HandlerRound(n, offers', approvers', lastRow')
    BY <1>2, <1>3, <1>4, <2>2, <2>3, <2>4 DEF HandlerRound
  <2> QED BY <1>8, <1>9, <2>4, <2>5, <2>6
<1>11. ASSUME NEW u \in Users, AskApprover(p, u) PROVE RoundInv'
  <2>1. CASE offers[h.offer].status = "none" \/ lastRow = Rows
    <3>1. UNCHANGED <<offers, approvers, lastRow>> /\ n = Idle
      BY <1>1, <1>2, <1>11, <2>1, RespondIs DEF AskApprover, roundVars
    <3> QED BY <1>8, <1>9, <3>1, IdleRound DEF RoundInv
  <2>2. CASE ~(offers[h.offer].status = "none" \/ lastRow = Rows)
    <3>1. PICK m : m = [h EXCEPT !.ask = @ \ {u}]
      OBVIOUS
    <3>2. m.op = h.op /\ m.offer = h.offer /\ m.at = h.at
      BY <1>2, <3>1 DEF Request
    <3>3. n = m /\ h.at = "ask"
      BY <1>1, <1>2, <1>11, <2>2, <3>1, BecomesIs DEF AskApprover
    <3>4. PICK row : row = [id |-> lastRow + 1, offer |-> h.offer, user |-> u, status |-> "pending"]
      OBVIOUS
    <3>5. row.id = lastRow + 1 /\ row.offer = h.offer /\ row.status = "pending"
      BY <3>4
    <3>6. UNCHANGED offers /\ approvers' = approvers \cup {row} /\ lastRow' = lastRow + 1
      BY <1>1, <1>11, <2>2, <3>4 DEF AskApprover
    <3>7. IdsRight(approvers', lastRow')
      <4>1. \A r \in approvers : r.id \in Nat /\ r.id <= lastRow /\ lastRow \in Nat
        BY <1>2, RowTypes DEF RoundInv, IdsRight
      <4>2. \A r, t \in approvers : r.id = t.id => r.offer = t.offer
        BY DEF RoundInv, IdsRight
      <4>3. ASSUME NEW r \in approvers' PROVE r.id <= lastRow'
        <5>1. CASE r \in approvers
          BY <3>6, <4>1, <5>1
        <5>2. CASE r = row
          BY <2>2, <3>5, <3>6, RowTypes, <5>2
        <5> QED BY <3>6, <5>1, <5>2
      <4>4. ASSUME NEW r \in approvers', NEW t \in approvers', r.id = t.id PROVE r.offer = t.offer
        <5>1. CASE r \in approvers /\ t \in approvers
          BY <4>2, <4>4, <5>1
        <5>2. CASE r = row /\ t = row
          BY <5>2
        <5>3. ASSUME NEW x \in approvers, x.id = row.id PROVE FALSE
          BY <3>5, <4>1, <5>3
        <5> QED BY <3>6, <4>4, <5>1, <5>2, <5>3
      <4> QED BY <4>3, <4>4 DEF IdsRight
    <3>8. HandlerRound(n, offers', approvers', lastRow')
      BY <1>2, <1>3, <1>4, <3>2, <3>3, <3>5, <3>6 DEF HandlerRound
    <3> QED BY <1>8, <1>9, <3>5, <3>6, <3>7, <3>8
  <2> QED BY <2>1, <2>2
<1>12. CASE OpenRound(p)
  <2>1. n = Idle /\ UNCHANGED <<approvers, lastRow>>
    BY <1>1, <1>2, <1>3, <1>12, WritesIs DEF Writes, roundVars
  <2>2. \A x \in 1..Offers : x # h.offer => offers'[x].status = offers[x].status
    BY <1>1, <1>2, <1>3, <1>12, WritesIs DEF Writes
  <2>3. offers'[h.offer].status = "pending_approval"
    BY <1>1, <1>2, <1>3, <1>4, <1>12, WritesIs DEF Writes, Written
  <2>4. /\ \E r \in approvers : r.offer = h.offer
        /\ \A r \in approvers : r.offer = h.offer => r.status = "pending"
    BY <1>1, <1>2, <1>12 DEF OpenRound, HandlerRound
  <2>5. ASSUME NEW o \in 1..Offers PROVE RoundRight(o)'
    <3>1. CASE o = h.offer
      BY <2>1, <2>3, <2>4, <3>1 DEF RoundRight
    <3>2. CASE o # h.offer
      BY <1>7, <2>1, <2>2, <3>2 DEF RoundInv, RoundRight
    <3> QED BY <3>1, <3>2
  <2> QED BY <1>8, <2>1, <2>5, IdleRound DEF RoundInv
<1> QED BY <1>10, <1>11, <1>12

\* Marking rows of one offer, and no others.
MarksRows(o, status, as, new) ==
  /\ \A t \in new : \E r \in as : /\ t.id = r.id /\ t.offer = r.offer
                                  /\ t.status = r.status \/ (r.offer = o /\ t.status = status)
  /\ \A r \in as : \E t \in new : /\ t.id = r.id /\ t.offer = r.offer
                                  /\ r.offer # o => t = r

LEMMA MarkIs ==
  ASSUME TypeInv, NEW p \in Procs, NEW h, h = req[p], HandlerRound(h, offers, approvers, lastRow),
         MarkApprover(p) \/ Override(p)
  PROVE  MarksRows(h.offer, IF h.op = "reject" THEN "rejected" ELSE "approved", approvers, approvers')
<1> DEFINE vote == IF h.op = "reject" THEN "rejected" ELSE "approved"
<1>1. h \in Handler /\ h.op \in OpsAt[h.at]
  BY HandlerIs
<1>2. ASSUME NEW r \in approvers
      PROVE  [r EXCEPT !.status = vote].id = r.id /\ [r EXCEPT !.status = vote].offer = r.offer
             /\ [r EXCEPT !.status = vote].status = vote
  BY RowTypes DEF Approver
<1>3. PICK marked \in SUBSET approvers :
        /\ approvers' = {IF r \in marked THEN [r EXCEPT !.status = vote] ELSE r : r \in approvers}
        /\ \A r \in marked : r.offer = h.offer
  <2>1. CASE MarkApprover(p)
    <3>1. h.at = "mark" /\ h.op \in {"approve", "reject"}
      BY <1>1, <2>1 DEF MarkApprover, OpsAt
    <3>2. approvers' = {IF r \in {x \in approvers : x.id = h.row} THEN [r EXCEPT !.status = vote] ELSE r
                          : r \in approvers}
      BY <2>1, <3>1 DEF MarkApprover
    <3>3. \A r \in {x \in approvers : x.id = h.row} : r.offer = h.offer
      BY <3>1 DEF HandlerRound
    <3> HIDE DEF vote
    <3> QED BY <3>2, <3>3
  <2>2. CASE Override(p)
    <3>1. h.op = "approve"
      BY <1>1, <2>2 DEF Override, OpsAt
    <3>2. approvers' = {IF r \in Pending(h.offer) THEN [r EXCEPT !.status = vote] ELSE r : r \in approvers}
      BY <2>2, <3>1 DEF Override
    <3>3. Pending(h.offer) \subseteq approvers /\ \A r \in Pending(h.offer) : r.offer = h.offer
      BY DEF Pending, RowsOf
    <3> HIDE DEF vote
    <3> QED BY <3>2, <3>3
  <2> QED BY <2>1, <2>2
<1> HIDE DEF vote
<1>4. ASSUME NEW t \in approvers'
      PROVE  \E r \in approvers : /\ t.id = r.id /\ t.offer = r.offer
                                  /\ t.status = r.status \/ (r.offer = h.offer /\ t.status = vote)
  <2>1. PICK r \in approvers : t = IF r \in marked THEN [r EXCEPT !.status = vote] ELSE r
    BY <1>3
  <2> QED BY <1>2, <1>3, <2>1
<1>5. ASSUME NEW r \in approvers PROVE \E t \in approvers' : t.id = r.id /\ t.offer = r.offer /\ (r.offer # h.offer => t = r)
  <2>1. PICK t : t = IF r \in marked THEN [r EXCEPT !.status = vote] ELSE r
    OBVIOUS
  <2>2. t \in approvers'
    BY <1>3, <2>1
  <2>3. t.id = r.id /\ t.offer = r.offer /\ (r.offer # h.offer => t = r)
    BY <1>2, <1>3, <2>1
  <2> QED BY <2>2, <2>3
<1>6. MarksRows(h.offer, vote, approvers, approvers')
  BY <1>4, <1>5 DEF MarksRows
<1> QED BY <1>6 DEF vote

\* Approvals leave what is passed passed and what is not rejected not rejected.
LEMMA MarksKeep ==
  ASSUME NEW as, NEW new, NEW o, NEW last, NEW status, MarksRows(o, status, as, new)
  PROVE  /\ IdsRight(as, last) => IdsRight(new, last)
         /\ \A x : (\E r \in as : r.offer = x) => \E r \in new : r.offer = x
         /\ \A x : (status = "approved" \/ x # o) /\ Passed(as, x) => Passed(new, x)
         /\ \A x : (status = "approved" \/ x # o) /\ (\E t \in new : t.offer = x /\ t.status = "rejected")
              => \E r \in as : r.offer = x /\ r.status = "rejected"
<1>1. IdsRight(as, last) => IdsRight(new, last)
  <2> SUFFICES ASSUME IdsRight(as, last) PROVE IdsRight(new, last)
    OBVIOUS
  <2>1. ASSUME NEW t \in new PROVE t.id <= last
    <3>1. PICK r \in as : t.id = r.id
      BY DEF MarksRows
    <3> QED BY <3>1 DEF IdsRight
  <2>2. ASSUME NEW t \in new, NEW u \in new, t.id = u.id PROVE t.offer = u.offer
    <3>1. PICK r \in as : t.id = r.id /\ t.offer = r.offer
      BY DEF MarksRows
    <3>2. PICK s \in as : u.id = s.id /\ u.offer = s.offer
      BY DEF MarksRows
    <3> QED BY <2>2, <3>1, <3>2 DEF IdsRight
  <2> QED BY <2>1, <2>2 DEF IdsRight
<1>2. \A x : (\E r \in as : r.offer = x) => \E r \in new : r.offer = x
  <2> SUFFICES ASSUME NEW r \in as PROVE \E t \in new : t.offer = r.offer
    OBVIOUS
  <2>1. \E t \in new : t.id = r.id /\ t.offer = r.offer
    BY DEF MarksRows
  <2> QED BY <2>1
<1>3. \A x : (status = "approved" \/ x # o) /\ Passed(as, x) => Passed(new, x)
  <2> SUFFICES ASSUME NEW x, status = "approved" \/ x # o, Passed(as, x) PROVE Passed(new, x)
    OBVIOUS
  <2>1. \E r \in new : r.offer = x
    BY <1>2 DEF Passed
  <2>2. ASSUME NEW t \in new, t.offer = x PROVE t.status = "approved"
    <3>1. PICK r \in as : t.offer = r.offer /\ (t.status = r.status \/ (r.offer = o /\ t.status = status))
      BY DEF MarksRows
    <3> QED BY <2>2, <3>1 DEF Passed
  <2> QED BY <2>1, <2>2 DEF Passed
<1>4. \A x : (status = "approved" \/ x # o) /\ (\E t \in new : t.offer = x /\ t.status = "rejected")
        => \E r \in as : r.offer = x /\ r.status = "rejected"
  <2> SUFFICES ASSUME NEW x, status = "approved" \/ x # o, NEW t \in new, t.offer = x, t.status = "rejected"
               PROVE  \E r \in as : r.offer = x /\ r.status = "rejected"
    OBVIOUS
  <2>1. PICK r \in as : t.offer = r.offer /\ (t.status = r.status \/ (r.offer = o /\ t.status = status))
    BY DEF MarksRows
  <2> QED BY <2>1
<1> QED BY <1>1, <1>2, <1>3, <1>4

\* A vote: a rejection is alone, an approval leaves what is passed passed.
LEMMA MarkStep ==
  ASSUME {"submit", "reject"} \subseteq Alone, RoundInv, NEW p \in Procs,
         MarkApprover(p) \/ Override(p), TypeInv', AloneInv'
  PROVE  RoundInv'
<1>1. PICK h, n : h = req[p] /\ n = req'[p]
  OBVIOUS
<1>2. TypeInv /\ AloneInv /\ HandlerRound(h, offers, approvers, lastRow) /\ h \in Handler /\ h \in Request
  BY <1>1 DEF RoundInv, TypeInv, Handler
<1>3. h.at \in {"mark", "override"} /\ h.op \in {"approve", "reject"} /\ h.offer \in 1..Offers
  <2>1. h.at \in {"mark", "override"}
    BY <1>1 DEF MarkApprover, Override
  <2> QED BY <1>2, <2>1 DEF Handler, WellPlaced, OpsAt, OfferOps
<1>4. /\ OthersStay(p) /\ UNCHANGED <<offers, lastRow>>
      /\ n.op = h.op /\ n.offer = h.offer /\ n.at = IF h.op = "reject" THEN "draft" ELSE n.at
      /\ n.at \notin {"mark", "clear", "ask"}
  <2>1. PICK at \in {"draft", "override", "flip"} : GoTo(p, at) /\ (h.op = "reject" => at = "draft")
    <3>1. h.at = "override" => h.op = "approve"
      BY <1>2 DEF Handler, WellPlaced, OpsAt
    <3>2. CASE MarkApprover(p)
      BY <1>1, <1>3, <3>2 DEF MarkApprover
    <3>3. CASE Override(p)
      BY <1>1, <3>1, <3>3 DEF Override
    <3> QED BY <3>2, <3>3
  <2>2. n = [h EXCEPT !.at = at]
    BY <1>1, <1>2, <2>1, BecomesIs DEF GoTo
  <2>3. n.op = h.op /\ n.offer = h.offer /\ n.at = at
    BY <1>2, <2>2 DEF Request
  <2>4. OthersStay(p) /\ UNCHANGED <<offers, lastRow>>
    BY <1>1, <1>2, StepIs DEF Continue, MarkApprover, Override
  <2> QED BY <2>1, <2>3, <2>4
<1> DEFINE vote == IF h.op = "reject" THEN "rejected" ELSE "approved"
<1>5. MarksRows(h.offer, vote, approvers, approvers')
  BY <1>1, <1>2, MarkIs
<1> HIDE DEF vote
<1>6. /\ IdsRight(approvers', lastRow')
      /\ \A x : (\E r \in approvers : r.offer = x) => \E r \in approvers' : r.offer = x
      /\ \A x : (vote = "approved" \/ x # h.offer) /\ Passed(approvers, x) => Passed(approvers', x)
      /\ \A x : (vote = "approved" \/ x # h.offer) /\ (\E t \in approvers' : t.offer = x /\ t.status = "rejected")
           => \E r \in approvers : r.offer = x /\ r.status = "rejected"
  BY <1>4, <1>5, MarksKeep DEF RoundInv
<1>7. h.op = "approve" => vote = "approved"
  BY DEF vote
<1>8. \A o : Rejecting(o) => Rejecting(o)'
  BY <1>1, <1>3, <1>4, RejectingStays
<1>9. h.op = "reject" => /\ \A q \in Procs : q # p => req[q] = Idle
                         /\ offers[h.offer].status = "pending_approval"
                         /\ Rejecting(h.offer)'
  BY <1>1, <1>2, <1>4, OthersIdle DEF HandlerRound, Rejecting
<1>10. ASSUME NEW o \in 1..Offers PROVE RoundRight(o)'
  <2>1. RoundRight(o)
    BY DEF RoundInv
  <2>2. CASE o = h.offer /\ h.op = "reject"
    BY <1>4, <1>6, <1>9, <2>1, <2>2 DEF RoundRight
  <2>3. CASE ~(o = h.offer /\ h.op = "reject")
    <3>1. vote = "approved" \/ o # h.offer
      BY <1>3, <1>7, <2>3
    <3> QED BY <1>4, <1>6, <1>8, <2>1, <3>1 DEF RoundRight
  <2> QED BY <2>2, <2>3
<1>11. ASSUME NEW q \in Procs, q # p PROVE HandlerRound(req[q], offers', approvers', lastRow')
  <2>1. PICK k : k = req[q] /\ HandlerRound(k, offers, approvers, lastRow)
    BY DEF RoundInv
  <2>2. CASE h.op = "reject"
    BY <1>9, <1>11, <2>2, IdleRound
  <2>3. CASE h.op = "approve"
    <3>1. k.op # "submit" /\ k.at \notin {"clear", "ask"}
      <4>1. k.at \in {"clear", "ask"} => k.op = "submit"
        BY <1>2, <2>1 DEF TypeInv, Handler, WellPlaced, OpsAt
      <4>2. h # Idle
        BY <1>3, IdleType
      <4> QED BY <1>1, <1>2, <1>11, <2>1, <4>1, <4>2, OthersIdle
    <3>2. k.at = "mark" => k.row <= lastRow /\ \A t \in approvers' : t.id = k.row => t.offer = k.offer
      BY <1>5, <2>1 DEF HandlerRound, MarksRows
    <3>3. /\ k.op = "reject" => offers[k.offer].status = "pending_approval"
          /\ k.op \in {"send", "accept"} => offers[k.offer].status = "none" \/ Passed(approvers', k.offer)
      BY <1>6, <1>7, <2>1, <2>3 DEF HandlerRound
    <3> QED BY <1>4, <2>1, <3>1, <3>2, <3>3 DEF HandlerRound
  <2> QED BY <1>3, <2>2, <2>3
<1>12. HandlerRound(n, offers', approvers', lastRow')
  BY <1>2, <1>3, <1>4 DEF HandlerRound
<1> QED BY <1>1, <1>4, <1>6, <1>10, <1>11, <1>12, RoundParts

\* Looking for a row finds one of the offer.
LEMMA FindStep ==
  ASSUME RoundInv, NEW p \in Procs, FindApprover(p), TypeInv', AloneInv'
  PROVE  RoundInv'
<1>1. PICK h, n : h = req[p] /\ n = req'[p]
  OBVIOUS
<1>2. TypeInv /\ HandlerRound(h, offers, approvers, lastRow) /\ h \in Request
  BY <1>1 DEF RoundInv, TypeInv, Handler
<1>3. /\ OthersStay(p) /\ UNCHANGED <<offers, approvers, lastRow>> /\ h.at = "find"
      /\ n = Idle \/ (n.op = h.op /\ n.offer = h.offer /\ n.at \notin {"clear"})
  BY <1>1, <1>2, QuietIs, ZenonT(60) DEF FindApprover, offerVars, roundVars
<1>4. HandlerRound(n, offers, approvers, lastRow)
  <2>1. CASE n = Idle \/ (n.op = h.op /\ n.offer = h.offer /\ n.at \notin {"mark", "clear", "ask"})
    BY <1>2, <2>1, RoundStays
  <2>2. ASSUME NEW r \in RowsOf(h.offer), Becomes(p, [h EXCEPT !.at = "mark", !.row = r.id])
        PROVE  HandlerRound(n, offers, approvers, lastRow)
    <3>1. n = [h EXCEPT !.at = "mark", !.row = r.id]
      BY <1>1, <1>2, <2>2, BecomesIs
    <3>2. n.op = h.op /\ n.offer = h.offer /\ n.at = "mark" /\ n.row = r.id
      BY <1>2, <3>1 DEF Request
    <3>3. r.id <= lastRow /\ \A t \in approvers : t.id = r.id => t.offer = h.offer
      BY DEF RowsOf, RoundInv, IdsRight
    <3> QED BY <1>2, <3>2, <3>3 DEF HandlerRound
  <2>3. \/ Respond(p)
        \/ \E r \in RowsOf(h.offer) : Becomes(p, [h EXCEPT !.at = "mark", !.row = r.id])
        \/ \E at \in {"override", "draft"} : GoTo(p, at)
    BY <1>1 DEF FindApprover
  <2>4. ASSUME NEW at \in {"override", "draft"}, GoTo(p, at)
        PROVE  n.op = h.op /\ n.offer = h.offer /\ n.at \notin {"mark", "clear", "ask"}
    <3>1. n = [h EXCEPT !.at = at]
      BY <1>1, <1>2, <2>4, BecomesIs DEF GoTo
    <3> QED BY <1>2, <3>1 DEF Request
  <2> QED BY <1>1, <1>2, <2>1, <2>2, <2>3, <2>4, RespondIs
<1>5. ASSUME NEW o \in 1..Offers PROVE RoundRight(o)'
  <2>1. Rejecting(o) => Rejecting(o)'
    BY <1>1, <1>3, RejectingStays
  <2> QED BY <1>3, <2>1 DEF RoundInv, RoundRight
<1> QED BY <1>1, <1>3, <1>4, <1>5, RoundParts DEF RoundInv

\* The other steps leave the rows alone, but for a deletion.
LEMMA OtherStep ==
  ASSUME {"submit", "reject"} \subseteq Alone, "reject" \notin CrashOps, RoundInv, NEW p \in Procs,
         \/ InsertOffer(p) \/ StageOffer(p) \/ Delete(p) \/ Flip(p) \/ BackToDraft(p) \/ WriteStatus(p) \/ Hire(p)
         \/ NextHire(p) \/ CheckActive(p) \/ InsertChecklist(p) \/ InsertTask(p) \/ Crash(p),
         TypeInv', AloneInv'
  PROVE  RoundInv'
<1>1. PICK h, n : h = req[p] /\ n = req'[p]
  OBVIOUS
<1>2. TypeInv /\ AloneInv /\ HandlerRound(h, offers, approvers, lastRow) /\ h \in Handler /\ h \in Request
  BY <1>1 DEF RoundInv, TypeInv, Handler
<1>3. OthersStay(p) /\ h # Idle
  BY <1>1, <1>2, StepIs DEF Continue
<1>4. ASSUME NEW q \in Procs, q # p
      PROVE  /\ HandlerRound(req[q], offers, approvers, lastRow)
             /\ req[q].op \notin {"submit", "reject"} /\ req[q].at \notin {"clear", "ask"}
             /\ req[q].op \in OfferOps => req[q].offer \in 1..Offers /\ req[q].offer <= lastOffer
  <2>1. req[q].at \in {"clear", "ask"} => req[q].op = "submit"
    BY <1>2 DEF TypeInv, Handler, WellPlaced, OpsAt
  <2>2. req[q].op \notin {"submit", "reject"}
    BY <1>1, <1>2, <1>3, <1>4, OthersIdle
  <2> QED BY <1>2, <2>1, <2>2, HandlerIs DEF RoundInv
<1>5. \A o : h.at # "draft" /\ Rejecting(o) => Rejecting(o)'
  BY <1>1, <1>3, RejectingStays
<1>6. \A o \in 1..Offers : RoundRight(o)
  BY DEF RoundInv
<1>7. ASSUME UNCHANGED <<approvers, lastRow>>,
             \A o \in 1..Offers : RoundRight(o)',
             \A q \in Procs : q # p /\ req[q].op \in {"send", "accept"} /\ offers[req[q].offer].status = "none"
                               => offers'[req[q].offer].status = "none",
             HandlerRound(n, offers', approvers, lastRow)
      PROVE  RoundInv'
  <2>1. ASSUME NEW q \in Procs, q # p PROVE HandlerRound(req[q], offers', approvers, lastRow)
    BY <1>4, <1>7, <2>1 DEF HandlerRound
  <2> QED BY <1>1, <1>3, <1>7, <2>1, RoundParts DEF RoundInv
<1>8. CASE \/ StageOffer(p) \/ NextHire(p) \/ CheckActive(p) \/ InsertChecklist(p) \/ InsertTask(p) \/ Crash(p)
  <2>1. UNCHANGED <<offers, approvers, lastRow>>
    BY <1>8 DEF StageOffer, NextHire, CheckActive, InsertChecklist, InsertTask, Crash, offerVars, roundVars
  <2>2. HandlerRound(n, offers, approvers, lastRow) /\ h.at # "draft"
    <3>1. CASE Crash(p)
      <4>1. n = Idle /\ h.op # "reject"
        BY <1>1, <1>2, <3>1, RespondIs DEF Crash
      <4>2. h.at = "draft" => h.op = "reject"
        BY <1>2 DEF Handler, WellPlaced, OpsAt
      <4> QED BY <4>1, <4>2, IdleRound
    <3>2. CASE StageOffer(p)
      <4>1. n = Idle /\ h.at = "stage"
        BY <1>1, <1>2, <3>2, RespondIs DEF StageOffer
      <4> QED BY <4>1, IdleRound
    <3>3. CASE NextHire(p) \/ CheckActive(p) \/ InsertChecklist(p) \/ InsertTask(p)
      <4>1. h.at \in {"next", "active", "checklist", "tasks"}
        BY <1>1, <3>3 DEF NextHire, CheckActive, InsertChecklist, InsertTask
      <4>2. n = Idle \/ (n.op = h.op /\ n.offer = h.offer)
        BY <1>1, <1>2, <3>3, QuietIs
      <4>3. h.op \in {"accept", "list", "generate"}
        BY <1>2, <4>1 DEF Handler, WellPlaced, OpsAt
      <4>4. n = Idle \/ n.at \notin {"mark", "clear", "ask"}
        <5>1. n \in Handler
          BY <1>1 DEF TypeInv
        <5> QED BY <4>2, <4>3, <5>1 DEF Handler, WellPlaced, OpsAt
      <4> QED BY <1>2, <4>1, <4>2, <4>4, RoundStays
    <3> QED BY <1>8, <3>1, <3>2, <3>3
  <2>3. \A o \in 1..Offers : RoundRight(o)'
    BY <1>5, <1>6, <2>1, <2>2 DEF RoundRight
  <2> QED BY <1>7, <2>1, <2>2, <2>3, SMTT(40)
<1>9. CASE InsertOffer(p)
  <2>1. h.at = "insert" /\ UNCHANGED <<approvers, lastRow>>
    BY <1>1, <1>2, <1>9, InsertOfferIs DEF roundVars
  <2>2. CASE UNCHANGED <<offers, lastOffer>> /\ n = Idle
    <3>1. \A o \in 1..Offers : RoundRight(o)'
      BY <1>5, <1>6, <2>1, <2>2 DEF RoundRight
    <3> QED BY <1>7, <2>1, <2>2, <3>1, IdleRound
  <2>3. CASE /\ lastOffer' = lastOffer + 1 /\ lastOffer' \in 1..Offers
             /\ n.op = "create" /\ n.at = "stage" /\ n.app = h.app
             /\ offers'[lastOffer'].app = h.app /\ offers'[lastOffer'].status = "draft"
             /\ \A x \in 1..Offers : x # lastOffer' => offers'[x] = offers[x]
    <3>1. HandlerRound(n, offers', approvers, lastRow)
      BY <2>3 DEF HandlerRound
    <3>2. ASSUME NEW o \in 1..Offers PROVE RoundRight(o)'
      <4>1. CASE o = lastOffer'
        BY <2>3, <4>1 DEF RoundRight
      <4>2. CASE o # lastOffer'
        BY <1>5, <1>6, <2>1, <2>3, <4>2 DEF RoundRight
      <4> QED BY <4>1, <4>2
    <3>3. ASSUME NEW q \in Procs, q # p, req[q].op \in {"send", "accept"}
          PROVE  offers'[req[q].offer] = offers[req[q].offer]
      <4>1. req[q].offer \in 1..Offers /\ req[q].offer <= lastOffer
        BY <1>4, <3>3 DEF OfferOps
      <4>2. req[q].offer # lastOffer'
        BY <1>2, <2>3, <4>1 DEF TypeInv, TypeOK
      <4> QED BY <2>3, <4>1, <4>2
    <3> QED BY <1>7, <2>1, <3>1, <3>2, <3>3
  <2> QED BY <1>1, <1>2, <1>9, <2>2, <2>3, InsertOfferIs
<1>10. CASE Delete(p)
  <2>1. /\ n = Idle /\ h.op = "delete" /\ h.offer \in 1..Offers /\ offers'[h.offer].status = "none"
        /\ \A x \in 1..Offers : x # h.offer => offers'[x] = offers[x]
        /\ approvers' = {r \in approvers : r.offer # h.offer} /\ UNCHANGED lastRow
    BY <1>1, <1>2, <1>10, DeleteIs
  <2>2. h.at # "draft"
    BY <1>1, <1>10 DEF Delete
  <2>3. ASSUME NEW o \in 1..Offers PROVE RoundRight(o)'
    <3>1. CASE o = h.offer
      BY <2>1, <3>1 DEF RoundRight
    <3>2. CASE o # h.offer
      BY <1>5, <1>6, <2>1, <2>2, <3>2 DEF RoundRight, Passed
    <3> QED BY <3>1, <3>2
  <2>4. ASSUME NEW q \in Procs, q # p PROVE HandlerRound(req[q], offers', approvers', lastRow)
    <3>1. req[q].op \in {"send", "accept"} => req[q].offer \in 1..Offers
      BY <1>4, <2>4 DEF OfferOps
    <3>2. \A o : o # h.offer /\ Passed(approvers, o) => Passed(approvers', o)
      BY <2>1 DEF Passed
    <3>3. req[q].op \in {"send", "accept"} =>
            offers'[req[q].offer].status = "none" \/ Passed(approvers', req[q].offer)
      BY <1>4, <2>1, <2>4, <3>1, <3>2 DEF HandlerRound
    <3>4. req[q].at = "mark" => req[q].row <= lastRow /\ \A r \in approvers' : r.id = req[q].row => r.offer = req[q].offer
      BY <1>4, <2>1, <2>4 DEF HandlerRound
    <3> QED BY <1>4, <2>4, <3>3, <3>4 DEF HandlerRound
  <2>5. IdsRight(approvers', lastRow')
    BY <2>1 DEF RoundInv, IdsRight
  <2> QED BY <1>1, <1>3, <2>1, <2>3, <2>4, <2>5, IdleRound, RoundParts
<1>11. CASE Flip(p) \/ BackToDraft(p) \/ WriteStatus(p) \/ Hire(p)
  <2>1. Writes(p) /\ h.at \in {"flip", "draft", "write", "hire"}
    BY <1>1, <1>11 DEF Writes, Flip, BackToDraft, WriteStatus, Hire
  <2>2. /\ h.op \in {"approve", "reject", "send", "revoke", "decline", "accept"} /\ h.offer \in 1..Offers
        /\ h.op = "reject" <=> h.at = "draft"
    BY <1>2, <2>1 DEF Handler, WellPlaced, OpsAt, OfferOps
  <2>3. UNCHANGED <<approvers, lastRow>>
    BY <1>1, <1>2, <2>1, WritesIs DEF roundVars
  <2>4. HandlerRound(n, offers', approvers, lastRow)
    <3>1. n = Idle \/ (h.op = "accept" /\ n.op = "accept" /\ n.offer = h.offer /\ n.at = "next")
      BY <1>1, <1>2, <2>1, WritesIs
    <3>2. \A x \in 1..Offers : offers[x].status = "none" => offers'[x].status = "none"
      BY <1>1, <1>2, <2>1, WritesIs
    <3> QED BY <1>2, <2>2, <3>1, <3>2, IdleRound DEF HandlerRound
  <2>5. CASE UNCHANGED offers /\ h.op = "approve"
    <3>1. \A o \in 1..Offers : RoundRight(o)'
      BY <1>5, <1>6, <2>2, <2>3, <2>5 DEF RoundRight
    <3> QED BY <1>7, <2>3, <2>4, <2>5, <3>1
  <2>6. CASE /\ \A x \in 1..Offers :
                  /\ offers'[x].app = offers[x].app
                  /\ offers'[x].status = IF x = h.offer /\ offers[x].status # "none"
                                           THEN Written[h.op] ELSE offers[x].status
             /\ h.op = "approve" => offers[h.offer].status = "pending_approval" /\ Pending(h.offer) = {}
    <3>1. ASSUME NEW o \in 1..Offers PROVE RoundRight(o)'
      <4>1. CASE o # h.offer
        <5>1. Rejecting(o) => Rejecting(o)'
          BY <1>1, <1>3, <4>1 DEF Rejecting, OthersStay
        <5> QED BY <1>6, <2>3, <2>6, <4>1, <5>1 DEF RoundRight
      <4>2. CASE o = h.offer /\ offers[o].status = "none"
        BY <2>3, <2>6, <4>2 DEF RoundRight
      <4>3. CASE o = h.offer /\ offers[o].status # "none" /\ h.op \in {"reject", "revoke", "decline"}
        BY <2>6, <4>3 DEF RoundRight, Written
      <4>4. CASE o = h.offer /\ offers[o].status # "none" /\ h.op \in {"send", "accept"}
        BY <1>2, <2>3, <2>6, <4>4 DEF RoundRight, HandlerRound, Written
      <4>5. CASE o = h.offer /\ h.op = "approve"
        <5>1. ~Rejecting(o)
          <6>1. ASSUME NEW q \in Procs PROVE req[q].at # "draft"
            <7>1. req[q].at = "draft" => req[q].op = "reject"
              BY <1>2 DEF TypeInv, Handler, WellPlaced, OpsAt
            <7> QED BY <1>1, <1>4, <4>5, <7>1
          <6> QED BY <6>1 DEF Rejecting
        <5>2. offers[o].status = "pending_approval" /\ Pending(o) = {}
          BY <2>6, <4>5
        <5>3. \E r \in approvers : r.offer = o
          BY <1>6, <5>2 DEF RoundRight
        <5>4. \A r \in approvers : r.offer = o => r.status \notin {"rejected", "pending"}
          BY <1>6, <5>1, <5>2 DEF RoundRight, Pending, RowsOf
        <5>5. Passed(approvers, o)
          BY <1>2, <5>3, <5>4, RowTypes DEF Passed
        <5>6. offers'[o].status = "approved"
          BY <2>6, <4>5, <5>2 DEF Written
        <5> QED BY <2>3, <5>5, <5>6 DEF RoundRight
      <4> QED BY <2>2, <4>1, <4>2, <4>3, <4>4, <4>5
    <3>2. \A x \in 1..Offers : offers[x].status = "none" => offers'[x].status = "none"
      BY <2>6
    <3>3. ASSUME NEW q \in Procs, q # p, req[q].op \in {"send", "accept"} PROVE req[q].offer \in 1..Offers
      BY <1>4, <3>3 DEF OfferOps
    <3> QED BY <1>7, <2>3, <2>4, <3>1, <3>2, <3>3
  <2> QED BY <1>1, <1>2, <2>1, <2>5, <2>6, WritesIs
<1> QED BY <1>8, <1>9, <1>10, <1>11

LEMMA RoundInvInit == Init => RoundInv
<1> SUFFICES ASSUME Init PROVE RoundInv
  OBVIOUS
<1>1. TypeInv
  BY TypeInvInit
<1>2. AloneInv /\ IdsRight(approvers, lastRow)
  BY DEF Init, AloneInv, IdsRight
<1>3. \A o \in 1..Offers : RoundRight(o)
  BY DEF Init, RoundRight, NoOffer
<1>4. \A p \in Procs : HandlerRound(req[p], offers, approvers, lastRow)
  BY IdleRound DEF Init
<1> QED BY <1>1, <1>2, <1>3, <1>4 DEF RoundInv

LEMMA RoundInvNext ==
  ASSUME {"submit", "reject"} \subseteq Alone, "reject" \notin CrashOps, RoundInv, [Next]_vars
  PROVE  RoundInv'
<1>1. TypeInv' /\ AloneInv'
  BY TypeInvNext, AloneNext DEF RoundInv
<1>2. ASSUME NEW p \in Procs, Begin(p) \/ Continue(p) \/ Crash(p) PROVE RoundInv'
  BY <1>1, <1>2, RoundBegin, SubmitStep, MarkStep, FindStep, OtherStep DEF Continue
<1>3. CASE UNCHANGED <<offers, approvers, lastRow, req>>
  BY <1>1, <1>3 DEF RoundInv, RoundRight, Rejecting
<1> QED BY <1>2, <1>3, TickIs DEF Next, vars, offerVars, roundVars

\* If nothing overlaps a submission or a rejection and no rejection stops half way,
\* an offer that is approved, sent or accepted was approved by everyone its last
\* round asked, however the approvals and the rest interleave.
THEOREM WhatIsSentIsApproved ==
  ASSUME {"submit", "reject"} \subseteq Alone, "reject" \notin CrashOps
  PROVE  Spec => []SentIsApproved
<1>1. RoundInv /\ [Next]_vars => RoundInv'
  BY RoundInvNext
<1>2. RoundInv => SentIsApproved
  BY DEF RoundInv, RoundRight, Passed, SentIsApproved, RowsOf
<1> QED BY <1>1, <1>2, RoundInvInit, PTL DEF Spec

-----------------------------------------------------------------------------
(* No round waits for approvals it has *)

\* A handler that moves an offer on goes on to do so, unless this step is its own.
LEMMA MovingStays ==
  ASSUME NEW p \in Procs, OthersStay(p), NEW o,
         \/ req[p].at \notin {"override", "flip", "draft"} \/ req[p].offer # o
         \/ req'[p].at \in {"override", "flip", "draft"} /\ req'[p].offer = o
  PROVE  Moving(o) => Moving(o)'
BY DEF Moving, OthersStay

\* An offer with its rows and its status as they were, or with a pending row.
LEMMA StuckStays ==
  ASSUME NEW o \in 1..Offers, StuckRight(o), Moving(o) => Moving(o)',
         offers'[o].status = "pending_approval" => offers[o].status = "pending_approval",
         \A r \in Pending(o) : \E t \in approvers' : t.offer = o /\ t.status = "pending"
  PROVE  StuckRight(o)'
<1>1. Pending(o)' = {} => Pending(o) = {}
  BY DEF Pending, RowsOf
<1> QED BY <1>1 DEF StuckRight

LEMMA StuckStep ==
  ASSUME {"submit", "reject"} \subseteq Alone, {"reject", "approve"} \cap CrashOps = {},
         StuckInv, NEW p \in Procs, Begin(p) \/ Continue(p) \/ Crash(p), RoundInv'
  PROVE  StuckInv'
<1>1. PICK h, n : h = req[p] /\ n = req'[p]
  OBVIOUS
<1>2. TypeInv /\ HandlerRound(h, offers, approvers, lastRow) /\ h \in Handler /\ h \in Request
  BY <1>1 DEF StuckInv, RoundInv, TypeInv, Handler
<1>3. OthersStay(p)
  BY <1>1, <1>2, StepIs, BeginIs
<1>4. \A o \in 1..Offers : StuckRight(o)
  BY DEF StuckInv
<1>5. h.at \in {"override", "flip"} => h.op = "approve"
  BY <1>2 DEF Handler, WellPlaced, OpsAt
<1>6. h.at = "draft" => h.op = "reject"
  BY <1>2 DEF Handler, WellPlaced, OpsAt
<1>7. ASSUME UNCHANGED approvers, h.at \notin {"override", "flip", "draft"},
             \A o \in 1..Offers : offers'[o].status = "pending_approval" => offers[o].status = "pending_approval"
      PROVE  StuckInv'
  <2>1. ASSUME NEW o \in 1..Offers PROVE StuckRight(o)'
    <3>1. Moving(o) => Moving(o)'
      BY <1>1, <1>3, <1>7, MovingStays
    <3>2. \A r \in Pending(o) : r \in approvers' /\ r.offer = o /\ r.status = "pending"
      BY <1>7 DEF Pending, RowsOf
    <3> QED BY <1>4, <1>7, <3>1, <3>2, StuckStays
  <2> QED BY <2>1 DEF StuckInv
<1>8. CASE Begin(p)
  <2>1. h = Idle /\ UNCHANGED <<offers, approvers>>
    BY <1>1, <1>2, <1>8, BeginIs DEF offerVars, roundVars
  <2> QED BY <1>7, <2>1, IdleType
<1>9. CASE \/ StageOffer(p) \/ FindApprover(p)
           \/ NextHire(p) \/ CheckActive(p) \/ InsertChecklist(p) \/ InsertTask(p) \/ Crash(p)
  <2>1. UNCHANGED <<offers, approvers>>
    BY <1>9, ZenonT(60) DEF StageOffer, FindApprover, NextHire, CheckActive, InsertChecklist,
      InsertTask, Crash, offerVars, roundVars
  <2>2. h.at \notin {"override", "flip", "draft"}
    BY <1>1, <1>5, <1>6, <1>9 DEF StageOffer, FindApprover, NextHire, CheckActive, InsertChecklist, InsertTask, Crash
  <2> QED BY <1>7, <2>1, <2>2
<1>10. CASE InsertOffer(p)
  <2>1. h.at = "insert" /\ UNCHANGED approvers
    BY <1>1, <1>2, <1>10, InsertOfferIs DEF roundVars
  <2>2. \A o \in 1..Offers : offers'[o].status = "pending_approval" => offers[o].status = "pending_approval"
    BY <1>1, <1>2, <1>10, InsertOfferIs
  <2> QED BY <1>7, <2>1, <2>2
<1>11. CASE ClearApprovers(p) \/ \E u \in Users : AskApprover(p, u)
  <2>1. h.at \in {"clear", "ask"} /\ UNCHANGED offers
    BY <1>1, <1>11 DEF ClearApprovers, AskApprover
  <2>2. offers[h.offer].status = "draft"
    <3>1. h.op = "submit"
      BY <1>2, <2>1 DEF Handler, WellPlaced, OpsAt
    <3> QED BY <1>2, <3>1 DEF HandlerRound
  <2>3. \A r \in approvers : r.offer # h.offer => r \in approvers'
    BY <1>1, <1>11 DEF ClearApprovers, AskApprover, RowsOf, roundVars
  <2>4. ASSUME NEW o \in 1..Offers PROVE StuckRight(o)'
    <3>1. CASE o = h.offer
      BY <2>1, <2>2, <3>1 DEF StuckRight
    <3>2. CASE o # h.offer
      <4>1. Moving(o) => Moving(o)'
        BY <1>1, <1>3, <2>1, MovingStays
      <4>2. \A r \in Pending(o) : r \in approvers' /\ r.offer = o /\ r.status = "pending"
        BY <2>3, <3>2 DEF Pending, RowsOf
      <4> QED BY <1>4, <2>1, <4>1, <4>2, StuckStays
    <3> QED BY <3>1, <3>2
  <2> QED BY <2>4 DEF StuckInv
<1>12. CASE MarkApprover(p) \/ Override(p)
  <2>1. MarksRows(h.offer, IF h.op = "reject" THEN "rejected" ELSE "approved", approvers, approvers')
    BY <1>1, <1>2, <1>12, MarkIs
  <2>2. UNCHANGED offers /\ n.at \in {"override", "flip", "draft"} /\ n.offer = h.offer
    <3>1. PICK at \in {"override", "flip", "draft"} : GoTo(p, at)
      BY <1>12 DEF MarkApprover, Override
    <3>2. n = [h EXCEPT !.at = at]
      BY <1>1, <1>2, <3>1, BecomesIs DEF GoTo
    <3> QED BY <1>2, <1>12, <3>2 DEF Request, MarkApprover, Override
  <2>3. ASSUME NEW o \in 1..Offers PROVE StuckRight(o)'
    <3>1. CASE o = h.offer
      <4>1. Moving(o)'
        BY <1>1, <2>2, <3>1 DEF Moving
      <4> QED BY <4>1 DEF StuckRight
    <3>2. CASE o # h.offer
      <4>1. Moving(o) => Moving(o)'
        BY <1>1, <1>3, <3>2, MovingStays
      <4>2. ASSUME NEW r \in Pending(o) PROVE \E t \in approvers' : t.offer = o /\ t.status = "pending"
        <5>1. r \in approvers /\ r.offer = o /\ r.status = "pending"
          BY DEF Pending, RowsOf
        <5>2. r \in approvers'
          BY <2>1, <3>2, <5>1 DEF MarksRows
        <5> QED BY <5>1, <5>2
      <4> QED BY <1>4, <2>2, <4>1, <4>2, StuckStays
    <3> QED BY <3>1, <3>2
  <2> QED BY <2>3 DEF StuckInv
<1>13. CASE Delete(p)
  <2>1. /\ h.offer \in 1..Offers /\ offers'[h.offer].status = "none" /\ h.at = "delete"
        /\ \A x \in 1..Offers : x # h.offer => offers'[x] = offers[x]
        /\ approvers' = {r \in approvers : r.offer # h.offer}
    BY <1>1, <1>2, <1>13, DeleteIs, ZenonT(60) DEF Delete
  <2>2. ASSUME NEW o \in 1..Offers PROVE StuckRight(o)'
    <3>1. CASE o = h.offer
      BY <2>1, <3>1 DEF StuckRight
    <3>2. CASE o # h.offer
      <4>1. Moving(o) => Moving(o)'
        BY <1>1, <1>3, <2>1, MovingStays
      <4>2. \A r \in Pending(o) : r \in approvers' /\ r.offer = o /\ r.status = "pending"
        BY <2>1, <3>2 DEF Pending, RowsOf
      <4> QED BY <1>4, <2>1, <3>2, <4>1, <4>2, StuckStays
    <3> QED BY <3>1, <3>2
  <2> QED BY <2>2 DEF StuckInv
<1>14. CASE Writes(p)
  <2>1. UNCHANGED approvers /\ h.offer \in 1..Offers /\ h.op \in DOMAIN Written
    BY <1>1, <1>2, <1>14, WritesIs DEF roundVars
  <2>2. ASSUME NEW o \in 1..Offers PROVE StuckRight(o)'
    <3>1. \A r \in Pending(o) : r \in approvers' /\ r.offer = o /\ r.status = "pending"
      BY <2>1 DEF Pending, RowsOf
    <3>2. CASE o # h.offer
      <4>1. Moving(o) => Moving(o)'
        BY <1>1, <1>3, <3>2, MovingStays
      <4>2. offers'[o].status = offers[o].status
        BY <1>1, <1>2, <1>14, <3>2, WritesIs
      <4> QED BY <1>4, <3>1, <4>1, <4>2, StuckStays
    <3>3. CASE o = h.offer /\ h.op = "approve"
      <4>1. offers'[o].status = "pending_approval" => Pending(o) # {}
        BY <1>1, <1>2, <1>14, <3>3, WritesIs DEF Written
      <4>2. Pending(o)' = Pending(o)
        BY <2>1 DEF Pending, RowsOf
      <4> QED BY <4>1, <4>2 DEF StuckRight
    <3>4. CASE o = h.offer /\ h.op \notin {"approve", "submit"}
      <4>1. \A x \in 1..Offers : offers'[x].status = IF x = h.offer /\ offers[x].status # "none"
                                                       THEN Written[h.op] ELSE offers[x].status
        BY <1>1, <1>2, <1>14, <3>4, WritesIs
      <4>2. Written[h.op] # "pending_approval"
        BY <2>1, <3>4 DEF Written
      <4> QED BY <3>4, <4>1, <4>2 DEF StuckRight
    <3>5. CASE o = h.offer /\ h.op = "submit"
      <4>1. h.at = "ask" /\ h.ask = {}
        BY <1>1, <1>2, <1>14, <3>5, WritesIs DEF OpenRound
      <4>2. PICK r \in approvers : r.offer = o /\ r.status = "pending"
        BY <1>2, <3>5, <4>1 DEF HandlerRound
      <4>3. Pending(o)' # {}
        BY <2>1, <4>2 DEF Pending, RowsOf
      <4> QED BY <4>3 DEF StuckRight
    <3> QED BY <3>2, <3>3, <3>4, <3>5
  <2> QED BY <2>2 DEF StuckInv
<1> QED BY <1>8, <1>9, <1>10, <1>11, <1>12, <1>13, <1>14 DEF Continue, Writes

\* If besides no approval stops half way, an offer that awaits approval and that no
\* request is working on has an approver who has yet to answer: the last of several
\* approvals at once does not leave it behind.
THEOREM NoRoundIsStuck ==
  ASSUME {"submit", "reject"} \subseteq Alone, {"reject", "approve"} \cap CrashOps = {}
  PROVE  Spec => []NoneIsStuck
<1>1. Init => StuckInv
  BY RoundInvInit DEF StuckInv, StuckRight, Init, NoOffer
<1>2. StuckInv /\ [Next]_vars => StuckInv'
  <2> SUFFICES ASSUME StuckInv, [Next]_vars PROVE StuckInv'
    OBVIOUS
  <2>1. RoundInv'
    BY RoundInvNext DEF StuckInv
  <2>2. ASSUME NEW p \in Procs, Begin(p) \/ Continue(p) \/ Crash(p) PROVE StuckInv'
    BY <2>1, <2>2, StuckStep
  <2>3. CASE UNCHANGED <<offers, approvers, req>>
    BY <2>1, <2>3 DEF StuckInv, StuckRight, Moving, Pending, RowsOf
  <2> QED BY <2>2, <2>3, TickIs DEF Next, vars, offerVars, roundVars
<1>3. StuckInv => NoneIsStuck
  BY DEF StuckInv, StuckRight, Moving, NoneIsStuck, At
<1> QED BY <1>1, <1>2, <1>3, PTL DEF Spec
=============================================================================
