-------------------------------- MODULE Offers --------------------------------
(***************************************************************************)
(* Offers of the recruiting service, the rounds in which they are approved *)
(* and the onboarding checklists of the people hired (apps/recruit-api:    *)
(* offer.service.ts, onboarding.service.ts, application.service.ts).       *)
(*                                                                         *)
(* A candidate applies to a job once (migration 024), so an application    *)
(* stands for a candidate and a role.  No table here has another unique    *)
(* key.  Handlers stop at every await that another request can use.  What  *)
(* an offer offers, its letter, its expiry date (acceptOffer may also      *)
(* refuse), templates, automations, the status of the job and what else     *)
(* moves an application are left out.                                      *)
(* A request that comes to the bound on a table ends there, as on an error. *)
(***************************************************************************)
EXTENDS Integers, FiniteSets

CONSTANTS
  Procs,      \* concurrent requests
  Apps,       \* applications
  Users,
  Privileged, \* users whose role overrides an approval round
  Rounds,     \* the sets of approvers an offer is submitted to
  Tasks,      \* how many tasks a checklist has
  Ops,        \* the operations in use
  Alone,      \* those no other request overlaps, an assumption of an instance
  CrashOps,   \* those whose handler may stop between two statements
  Offers,     \* bound: how many offers are ever created
  Rows,       \* bound: how many approver rows are ever created
  Checklists, \* bound: how many checklists are ever created
  None        \* no offer, no application, no user, no row

AllOps == {"create", "delete", "submit", "approve", "reject", "send", "revoke", "decline",
           "accept", "list", "generate", "task"}

ASSUME FiniteAssumption == IsFiniteSet(Procs) /\ IsFiniteSet(Users)
ASSUME UsersAssumption == Privileged \subseteq Users /\ Rounds \subseteq (SUBSET Users) \ {{}}
ASSUME OpsAssumption == Ops \subseteq AllOps /\ Alone \subseteq AllOps /\ CrashOps \subseteq AllOps
ASSUME BoundsAssumption == Tasks \in Nat /\ Offers \in Nat /\ Rows \in Nat /\ Checklists \in Nat
ASSUME NoneAssumption == None \notin Nat \cup Apps \cup Users

VARIABLES
  offers,     \* the rows of offers by id
  lastOffer,  \* the last id of offers
  approvers,  \* offer_approvers
  lastRow,    \* the last id of offer_approvers
  stage,      \* applications.stage
  checklists, \* onboarding_checklists
  lastList,   \* the last id of onboarding_checklists
  req         \* the handler of each process

vars == <<offers, lastOffer, approvers, lastRow, stage, checklists, lastList, req>>
roundVars == <<approvers, lastRow>>
offerVars == <<offers, lastOffer, roundVars>>
listVars == <<checklists, lastList>>

-----------------------------------------------------------------------------
(* Rows and handlers *)

\* "none" is no row.  Nothing in the code writes "expired".
Status == {"draft", "pending_approval", "approved", "sent", "accepted", "declined", "revoked"}
Terminal == {"declined", "revoked"}
Offer == [app : Apps \cup {None}, status : Status \cup {"none"}]
NoOffer == [app |-> None, status |-> "none"]

Approver == [id : Nat, offer : 1..Offers, user : Users, status : {"pending", "approved", "rejected"}]

\* tasks counts the rows of onboarding_tasks.
Checklist == [id : Nat, app : Apps, tasks : 0..Tasks, status : {"active", "completed"}]

Stages == {"applied", "offer", "hired"}

\* ask is who has still to get an approver row, todo the applications that have
\* still to get a checklist, row an approver row or the checklist being filled.
Idle == [op |-> "idle", at |-> "idle", offer |-> None, app |-> None, user |-> None,
         row |-> None, ask |-> {}, todo |-> {}]

Places == {"idle", "insert", "stage", "delete", "clear", "ask", "find", "mark", "override", "flip",
           "draft", "write", "hire", "next", "active", "checklist", "tasks"}
Request == [op : AllOps \cup {"idle"}, at : Places, offer : 1..Offers \cup {None},
            app : Apps \cup {None}, user : Users \cup {None}, row : Nat \cup {None},
            ask : SUBSET Users, todo : SUBSET Apps]

Free(p, op) ==
  /\ op \in Ops /\ req[p] = Idle
  /\ \A q \in Procs : req[q] = Idle \/ (op \notin Alone /\ req[q].op \notin Alone)
Becomes(p, handler) == req' = [req EXCEPT ![p] = handler]
GoTo(p, at) == Becomes(p, [req[p] EXCEPT !.at = at])
Respond(p) == Becomes(p, Idle)

Live(o) == offers[o].status \in Status \ Terminal
LiveOffers(a) == {o \in 1..Offers : offers[o].app = a /\ Live(o)}
RowsOf(o) == {r \in approvers : r.offer = o}
Pending(o) == {r \in RowsOf(o) : r.status = "pending"}
ListsOf(a) == {c \in checklists : c.app = a}

\* UPDATE offers SET status WHERE id: a deleted offer has no row to update.
SetStatus(o, status) ==
  offers' = [offers EXCEPT ![o].status = IF @ = "none" THEN @ ELSE status]

Init ==
  /\ offers = [o \in 1..Offers |-> NoOffer] /\ lastOffer = 0
  /\ approvers = {} /\ lastRow = 0
  /\ stage = [a \in Apps |-> "applied"]
  /\ checklists = {} /\ lastList = 0
  /\ req = [p \in Procs |-> Idle]

-----------------------------------------------------------------------------
(* Drafts *)

\* (Names ending in a word after _ are slips of the definition that follows them:
\* the properties are checked to notice each.)
BeginCreate_Unchecked(p, a) ==
  /\ Free(p, "create")
  /\ Becomes(p, [Idle EXCEPT !.op = "create", !.at = "insert", !.app = a])
  /\ UNCHANGED <<offerVars, stage, listVars>>
\* The offers of the candidate for the role include those of the application.
BeginCreate(p, a) ==
  /\ Free(p, "create") /\ LiveOffers(a) = {}
  /\ Becomes(p, [Idle EXCEPT !.op = "create", !.at = "insert", !.app = a])
  /\ UNCHANGED <<offerVars, stage, listVars>>

InsertOffer(p) ==
  /\ req[p].at = "insert"
  /\ IF lastOffer = Offers
       THEN Respond(p) /\ UNCHANGED <<offers, lastOffer>>
       ELSE /\ offers' = [offers EXCEPT ![lastOffer + 1] = [app |-> req[p].app, status |-> "draft"]]
            /\ lastOffer' = lastOffer + 1
            /\ GoTo(p, "stage")
  /\ UNCHANGED <<roundVars, stage, listVars>>

StageOffer(p) ==
  /\ req[p].at = "stage"
  /\ stage' = [stage EXCEPT ![req[p].app] = "offer"]
  /\ Respond(p)
  /\ UNCHANGED <<offerVars, listVars>>

BeginDelete(p, o) ==
  /\ Free(p, "delete") /\ offers[o].status = "draft"
  /\ Becomes(p, [Idle EXCEPT !.op = "delete", !.at = "delete", !.offer = o])
  /\ UNCHANGED <<offerVars, stage, listVars>>

\* One transaction, which does not look at the status again.
Delete(p) ==
  LET o == req[p].offer
  IN /\ req[p].at = "delete"
     /\ approvers' = approvers \ RowsOf(o)
     /\ offers' = [offers EXCEPT ![o] = NoOffer]
     /\ Respond(p)
     /\ UNCHANGED <<lastOffer, lastRow, stage, listVars>>

-----------------------------------------------------------------------------
(* Approval rounds *)

BeginSubmit(p, o, round) ==
  /\ Free(p, "submit") /\ offers[o].status = "draft"
  /\ Becomes(p, [Idle EXCEPT !.op = "submit", !.at = "clear", !.offer = o, !.ask = round])
  /\ UNCHANGED <<offerVars, stage, listVars>>

ClearApprovers_Keeps(p) ==
  /\ req[p].at = "clear"
  /\ GoTo(p, "ask")
  /\ UNCHANGED <<offerVars, stage, listVars>>
\* The rows of an earlier round go (audit M11).
ClearApprovers(p) ==
  /\ req[p].at = "clear"
  /\ approvers' = approvers \ RowsOf(req[p].offer)
  /\ GoTo(p, "ask")
  /\ UNCHANGED <<offers, lastOffer, lastRow, stage, listVars>>

\* The foreign key refuses a row of a deleted offer, which ends the request.
AskApprover(p, u) ==
  LET o == req[p].offer
  IN /\ req[p].at = "ask" /\ u \in req[p].ask
     /\ IF offers[o].status = "none" \/ lastRow = Rows
          THEN Respond(p) /\ UNCHANGED roundVars
          ELSE /\ approvers' = approvers \cup
                    {[id |-> lastRow + 1, offer |-> o, user |-> u, status |-> "pending"]}
               /\ lastRow' = lastRow + 1
               /\ Becomes(p, [req[p] EXCEPT !.ask = @ \ {u}])
     /\ UNCHANGED <<offers, lastOffer, stage, listVars>>

OpenRound(p) ==
  /\ req[p].at = "ask" /\ req[p].ask = {}
  /\ SetStatus(req[p].offer, "pending_approval")
  /\ Respond(p)
  /\ UNCHANGED <<lastOffer, roundVars, stage, listVars>>

\* approve and reject.
BeginVote(p, op, o, u) ==
  /\ Free(p, op) /\ offers[o].status = "pending_approval"
  /\ Becomes(p, [Idle EXCEPT !.op = op, !.at = "find", !.offer = o, !.user = u])
  /\ UNCHANGED <<offerVars, stage, listVars>>

\* Only approve refuses who has already acted.
FindApprover(p) ==
  LET v == req[p]
      mine == {r \in RowsOf(v.offer) : r.user = v.user}
  IN /\ v.at = "find"
     /\ \/ \E r \in mine :
             IF v.op = "approve" /\ r.status # "pending"
               THEN Respond(p)
               ELSE Becomes(p, [v EXCEPT !.at = "mark", !.row = r.id])
        \/ /\ mine = {}
           /\ IF v.user \in Privileged
                THEN GoTo(p, IF v.op = "approve" THEN "override" ELSE "draft")
                ELSE Respond(p)
     /\ UNCHANGED <<offerVars, stage, listVars>>

\* The row may be gone by now.
MarkApprover(p) ==
  LET v == req[p]
      vote == IF v.op = "approve" THEN "approved" ELSE "rejected"
  IN /\ v.at = "mark"
     /\ approvers' = {IF r.id = v.row THEN [r EXCEPT !.status = vote] ELSE r : r \in approvers}
     /\ GoTo(p, IF v.op = "reject" THEN "draft"
                ELSE IF v.user \in Privileged THEN "override" ELSE "flip")
     /\ UNCHANGED <<offers, lastOffer, lastRow, stage, listVars>>

Override(p) ==
  /\ req[p].at = "override"
  /\ approvers' = {IF r \in Pending(req[p].offer) THEN [r EXCEPT !.status = "approved"] ELSE r
                     : r \in approvers}
  /\ GoTo(p, "flip")
  /\ UNCHANGED <<offers, lastOffer, lastRow, stage, listVars>>

\* One conditional UPDATE (audit L14).
Flip(p) ==
  LET o == req[p].offer
  IN /\ req[p].at = "flip"
     /\ IF offers[o].status = "pending_approval" /\ Pending(o) = {}
          THEN SetStatus(o, "approved") ELSE UNCHANGED offers
     /\ Respond(p)
     /\ UNCHANGED <<lastOffer, roundVars, stage, listVars>>

BackToDraft_Ends(p) ==
  /\ req[p].at = "draft"
  /\ Respond(p)
  /\ UNCHANGED <<offerVars, stage, listVars>>
\* Whatever the status is by now.
BackToDraft(p) ==
  /\ req[p].at = "draft"
  /\ SetStatus(req[p].offer, "draft")
  /\ Respond(p)
  /\ UNCHANGED <<lastOffer, roundVars, stage, listVars>>

-----------------------------------------------------------------------------
(* Sending, revoking and answering *)

From_Late == [send |-> {"approved"}, revoke |-> {"sent", "approved", "pending_approval"},
              decline |-> {"sent", "accepted"}]
From == [send |-> {"approved"},
         revoke |-> {"sent", "approved", "pending_approval"},
         decline |-> {"sent"}]
To == [send |-> "sent", revoke |-> "revoked", decline |-> "declined"]

BeginWrite(p, op, o) ==
  /\ Free(p, op) /\ offers[o].status \in From[op]
  /\ Becomes(p, [Idle EXCEPT !.op = op, !.at = "write", !.offer = o])
  /\ UNCHANGED <<offerVars, stage, listVars>>

\* The status is not looked at again.
WriteStatus(p) ==
  /\ req[p].at = "write"
  /\ SetStatus(req[p].offer, To[req[p].op])
  /\ Respond(p)
  /\ UNCHANGED <<lastOffer, roundVars, stage, listVars>>

BeginAccept(p, o) ==
  /\ Free(p, "accept") /\ offers[o].status = "sent"
  /\ Becomes(p, [Idle EXCEPT !.op = "accept", !.at = "hire", !.offer = o, !.app = offers[o].app])
  /\ UNCHANGED <<offerVars, stage, listVars>>

\* One transaction (audit M15).
Hire(p) ==
  LET r == req[p]
  IN /\ r.at = "hire"
     /\ SetStatus(r.offer, "accepted")
     /\ stage' = [stage EXCEPT ![r.app] = "hired"]
     /\ Becomes(p, [r EXCEPT !.at = "next", !.todo = {r.app}])
     /\ UNCHANGED <<lastOffer, roundVars, listVars>>

-----------------------------------------------------------------------------
(* Onboarding checklists *)

BeginList_Nothing(p) ==
  /\ Free(p, "list")
  /\ Becomes(p, [Idle EXCEPT !.op = "list", !.at = "next"])
  /\ UNCHANGED <<offerVars, stage, listVars>>
\* listChecklists first gives every accepted offer the checklist it lacks.
BeginList(p) ==
  /\ Free(p, "list")
  /\ Becomes(p, [Idle EXCEPT !.op = "list", !.at = "next",
                   !.todo = {offers[o].app : o \in {x \in 1..Offers : offers[x].status = "accepted"}}])
  /\ UNCHANGED <<offerVars, stage, listVars>>

BeginGenerate(p, a) ==
  /\ Free(p, "generate")
  /\ Becomes(p, [Idle EXCEPT !.op = "generate", !.at = "active", !.app = a])
  /\ UNCHANGED <<offerVars, stage, listVars>>

\* autoGenerateOnAcceptance does nothing for an application with a checklist.
NextHire(p) ==
  /\ req[p].at = "next"
  /\ \/ req[p].todo = {} /\ Respond(p)
     \/ \E a \in req[p].todo :
          Becomes(p, [req[p] EXCEPT !.todo = @ \ {a}, !.app = a,
                                    !.at = IF ListsOf(a) = {} THEN "active" ELSE "next"])
  /\ UNCHANGED <<offerVars, stage, listVars>>

\* A generation that fails leaves the others of a listing to be done.
AfterList(r) == IF r.op = "generate" THEN Idle ELSE [r EXCEPT !.at = "next", !.row = None]

\* findOne looks at one checklist of the application, whichever comes first.
CheckActive(p) ==
  LET r == req[p]
      found == ListsOf(r.app)
  IN /\ r.at = "active"
     /\ \/ (found = {} \/ \E c \in found : c.status = "completed") /\ GoTo(p, "checklist")
        \/ (\E c \in found : c.status = "active") /\ Becomes(p, AfterList(r))
     /\ UNCHANGED <<offerVars, stage, listVars>>

InsertChecklist(p) ==
  /\ req[p].at = "checklist"
  /\ IF lastList = Checklists
       THEN Becomes(p, AfterList(req[p])) /\ UNCHANGED listVars
       ELSE /\ checklists' = checklists \cup
                 {[id |-> lastList + 1, app |-> req[p].app, tasks |-> 0, status |-> "active"]}
            /\ lastList' = lastList + 1
            /\ Becomes(p, [req[p] EXCEPT !.at = "tasks", !.row = lastList + 1])
  /\ UNCHANGED <<offerVars, stage>>

InsertTask_OneMore(p) ==
  \E c \in checklists :
    /\ req[p].at = "tasks" /\ c.id = req[p].row
    /\ IF c.tasks <= Tasks
         THEN /\ checklists' = (checklists \ {c}) \cup {[c EXCEPT !.tasks = @ + 1]}
              /\ UNCHANGED req
         ELSE Becomes(p, AfterList(req[p])) /\ UNCHANGED checklists
    /\ UNCHANGED <<offerVars, stage, lastList>>
InsertTask(p) ==
  \E c \in checklists :
    /\ req[p].at = "tasks" /\ c.id = req[p].row
    /\ IF c.tasks < Tasks
         THEN /\ checklists' = (checklists \ {c}) \cup {[c EXCEPT !.tasks = @ + 1]}
              /\ UNCHANGED req
         ELSE Becomes(p, AfterList(req[p])) /\ UNCHANGED checklists
    /\ UNCHANGED <<offerVars, stage, lastList>>

\* The last task of a checklist is ticked, or one is unticked.
TickTasks(c) ==
  /\ "task" \in Ops /\ c.tasks > 0
  /\ checklists' = (checklists \ {c}) \cup
       {[c EXCEPT !.status = IF @ = "active" THEN "completed" ELSE "active"]}
  /\ UNCHANGED <<offerVars, stage, lastList, req>>

Crash(p) ==
  /\ req[p].op \in CrashOps
  /\ Respond(p)
  /\ UNCHANGED <<offerVars, stage, listVars>>

-----------------------------------------------------------------------------
(* The specification *)

Begin(p) ==
  \/ \E a \in Apps : BeginCreate(p, a) \/ BeginGenerate(p, a)
  \/ \E o \in 1..Offers :
       \/ BeginDelete(p, o)
       \/ \E round \in Rounds : BeginSubmit(p, o, round)
       \/ \E op \in {"approve", "reject"}, u \in Users : BeginVote(p, op, o, u)
       \/ \E op \in {"send", "revoke", "decline"} : BeginWrite(p, op, o)
       \/ BeginAccept(p, o)
  \/ BeginList(p)

Continue(p) ==
  \/ InsertOffer(p) \/ StageOffer(p) \/ Delete(p)
  \/ ClearApprovers(p) \/ (\E u \in Users : AskApprover(p, u)) \/ OpenRound(p)
  \/ FindApprover(p) \/ MarkApprover(p) \/ Override(p) \/ Flip(p) \/ BackToDraft(p)
  \/ WriteStatus(p) \/ Hire(p)
  \/ NextHire(p) \/ CheckActive(p) \/ InsertChecklist(p) \/ InsertTask(p)

Next ==
  \/ \E p \in Procs : Begin(p) \/ Continue(p) \/ Crash(p)
  \/ \E c \in checklists : TickTasks(c)

Spec == Init /\ [][Next]_vars

\* A process goes on with what it began, and somebody opens the onboarding page
\* again and again.
Fairness ==
  /\ \A p \in Procs : WF_vars(Continue(p))
  /\ SF_vars(\E p \in Procs : BeginList(p))

FairSpec == Spec /\ Fairness

-----------------------------------------------------------------------------
(* Properties *)

TypeOK ==
  /\ offers \in [1..Offers -> Offer] /\ lastOffer \in 0..Offers
  /\ approvers \subseteq Approver /\ lastRow \in Nat
  /\ stage \in [Apps -> Stages]
  /\ checklists \subseteq Checklist /\ lastList \in Nat
  /\ req \in [Procs -> Request]

\* A candidate has one live offer for a role, through every round, withdrawal
\* and answer, where creations do not overlap other requests.
OneLiveOffer == \A a \in Apps : Cardinality(LiveOffers(a)) <= 1

\* Where only approvals overlap each other, an offer that goes out was approved by
\* everyone its last round asked, however many rounds there were.
SentIsApproved ==
  \A o \in 1..Offers :
    offers[o].status \in {"approved", "sent", "accepted"} =>
      RowsOf(o) # {} /\ \A r \in RowsOf(o) : r.status = "approved"

At(o) == {p \in Procs : req[p].offer = o}

\* ... and the last of the approvals, however they overlap, moves the offer on:
\* none waits for approvals it already has (audit L14).
NoneIsStuck ==
  \A o \in 1..Offers :
    offers[o].status = "pending_approval" /\ At(o) = {} => Pending(o) # {}

\* An application is hired when its offer is accepted, and not otherwise.
HiredIsAccepted ==
  \A a \in Apps :
    (\A p \in Procs : req[p].app # a) =>
      (stage[a] = "hired" <=> \E o \in 1..Offers : offers[o].app = a /\ offers[o].status = "accepted")

\* Whoever is hired gets a checklist, even if the acceptance stopped before it made
\* one or a generation failed: the onboarding page makes up for it.
HireGetsChecklist ==
  \A o \in 1..Offers :
    offers[o].status = "accepted" ~> (offers[o].status = "accepted" => ListsOf(offers[o].app) # {})
===============================================================================
