--------------------------- MODULE CampaignsProofs ----------------------------
(***************************************************************************)
(* Theorems of Campaigns, for any finite number of workers and recipients, *)
(* any number of campaigns, any batch size and every choice of faults; the *)
(* last one for workers that keep to their time and batches that hold all. *)
(***************************************************************************)
EXTENDS Campaigns, FiniteSetTheorems, TLAPS

\* A worker knows its campaign from the claim on, and whom it is mailing.
AtCampaign == {"claim", "load", "pick", "mail", "sent", "failed", "exhausted", "undelivered",
               "finish", "cancel", "requeue", "reopen"}
WellPlaced(worker) ==
  /\ worker.at \in AtCampaign => worker.name \in Names
  /\ worker.at \in {"mail", "sent", "failed"} => worker.to \in Recipients

Worker == {worker \in Request : WellPlaced(worker)}

TypeInv ==
  /\ campaigns \in [Names -> Campaign]
  /\ rows \in [Names -> [Recipients -> Row]]
  /\ inbox \in [Names -> [Recipients -> Nat]]
  /\ crashes \in Nat /\ unrecorded \in Nat /\ retries \in Nat
  /\ req \in [Workers -> Worker]

-----------------------------------------------------------------------------
(* Type correctness *)

LEMMA IdleType == Idle \in Worker
BY DEF Idle, Worker, WellPlaced, AtCampaign, Request, Places

LEMMA BecomesType ==
  ASSUME TypeInv, NEW w \in Workers, NEW worker \in Worker, Becomes(w, worker)
  PROVE  req' \in [Workers -> Worker]
BY DEF TypeInv, Becomes

LEMMA RespondType ==
  ASSUME TypeInv, NEW w \in Workers, Respond(w)
  PROVE  req' \in [Workers -> Worker]
BY IdleType, BecomesType DEF Respond

\* A worker goes to another statement with what it knows.
LEMMA GoToType ==
  ASSUME TypeInv, NEW w \in Workers, NEW at \in Places, GoTo(w, at),
         at \in AtCampaign => req[w].name \in Names,
         at \in {"mail", "sent", "failed"} => req[w].to \in Recipients
  PROVE  req' \in [Workers -> Worker]
<1>1. [req[w] EXCEPT !.at = at] \in Worker
  BY ZenonT(60) DEF TypeInv, Worker, WellPlaced, Request
<1> QED BY <1>1, BecomesType DEF GoTo

LEMMA SetStatusType ==
  ASSUME TypeInv, NEW c, NEW status, [status |-> status, age |-> "new"] \in Campaign, SetStatus(c, status)
  PROVE  campaigns' \in [Names -> Campaign]
BY DEF TypeInv, SetStatus

\* A tick notes which campaigns it found.
LEMMA TodoType ==
  ASSUME TypeInv, NEW w \in Workers, NEW todo \in SUBSET Names, NEW at \in {"release", "next"}
  PROVE  [req[w] EXCEPT !.at = at, !.todo = todo] \in Worker
<1>1. req[w] \in Worker
  BY DEF TypeInv
<1>2. at \in Places /\ at \notin AtCampaign /\ at \notin {"mail", "sent", "failed"}
  BY DEF Places, AtCampaign
<1> QED BY <1>1, <1>2 DEF Worker, WellPlaced, Request

\* A worker at a statement that names a campaign but nobody to mail.
LEMMA ListType ==
  ASSUME TypeInv, NEW w \in Workers, NEW list \in SUBSET Recipients, req[w].name \in Names
  PROVE  [req[w] EXCEPT !.at = "pick", !.list = list] \in Worker
<1>1. req[w] \in Worker
  BY DEF TypeInv
<1>2. "pick" \in Places /\ "pick" \notin {"mail", "sent", "failed"}
  BY DEF Places
<1> QED BY <1>1, <1>2 DEF Worker, WellPlaced, Request

\* One recipient's row, or everybody's, changes.
LEMMA RowType ==
  ASSUME TypeInv, NEW c \in Names, NEW r \in Recipients, NEW row \in Row,
         rows' = [rows EXCEPT ![c][r] = row]
  PROVE  rows' \in [Names -> [Recipients -> Row]]
<1>1. [rows[c] EXCEPT ![r] = row] \in [Recipients -> Row]
  BY DEF TypeInv
<1> QED BY <1>1 DEF TypeInv

LEMMA StatusType ==
  ASSUME TypeInv, NEW c \in Names, NEW r \in Recipients,
         NEW status \in {"pending", "sending", "sent", "failed", "delivery_unknown"}
  PROVE  [rows[c][r] EXCEPT !.status = status] \in Row
<1>1. rows[c][r] \in Row
  BY DEF TypeInv
<1> QED BY <1>1 DEF Row

LEMMA OutcomeType == \A v : [status |-> Outcome(v), age |-> "new"] \in Campaign
BY DEF Outcome, Campaign

\* What happens to the campaigns, and the tick.
LEMMA TickType ==
  ASSUME TypeInv, NEW w \in Workers,
         BeginTick(w) \/ GiveUpMails(w) \/ ReleaseCampaigns(w) \/ ListDue(w) \/ NextDue(w)
  PROVE  TypeInv'
<1> USE DEF TypeInv, counters
<1>1. CASE BeginTick(w)
  <2>1. [Idle EXCEPT !.op = "tick", !.at = "unknown"] \in Worker
    BY IdleType DEF Idle, Worker, WellPlaced, AtCampaign, Request, Places, AllOps
  <2> QED BY <1>1, <2>1, BecomesType DEF BeginTick
<1>2. CASE GiveUpMails(w)
  <2>1. [req[w] EXCEPT !.at = "release", !.todo = {c \in Names : Abandoned(c)}] \in Worker
    BY TodoType
  <2>2. ASSUME NEW c \in Names, NEW r \in Recipients PROVE rows'[c][r] \in Row
    BY <1>2, StatusType DEF GiveUpMails
  <2>3. rows' \in [Names -> [Recipients -> Row]]
    BY <1>2, <2>2 DEF GiveUpMails
  <2> QED BY <1>2, <2>1, <2>3, BecomesType DEF GiveUpMails
<1>3. CASE ReleaseCampaigns(w)
  <2>1. campaigns' \in [Names -> Campaign]
    BY <1>3 DEF ReleaseCampaigns, Campaign
  <2>2. req' \in [Workers -> Worker]
    BY <1>3, GoToType DEF ReleaseCampaigns, AtCampaign, Places
  <2> QED BY <1>3, <2>1, <2>2 DEF ReleaseCampaigns
<1>4. CASE ListDue(w)
  <2>1. [req[w] EXCEPT !.at = "next", !.todo = {c \in Names : Due(c)}] \in Worker
    BY TodoType
  <2> QED BY <1>4, <2>1, BecomesType, SMTT(40) DEF ListDue
<1>5. CASE NextDue(w)
  <2>1. req' \in [Workers -> Worker]
    <3>1. CASE req[w].todo = {} /\ Respond(w)
      BY <3>1, RespondType
    <3>2. CASE \E c \in req[w].todo :
                 Becomes(w, [Idle EXCEPT !.op = "tick", !.at = "claim",
                                         !.todo = req[w].todo \ {c}, !.name = c])
      <4>1. PICK c \in req[w].todo :
              Becomes(w, [Idle EXCEPT !.op = "tick", !.at = "claim",
                                      !.todo = req[w].todo \ {c}, !.name = c])
        BY <3>2
      <4>2. req[w].todo \subseteq Names
        BY DEF Worker, Request
      <4>3. [Idle EXCEPT !.op = "tick", !.at = "claim",
                         !.todo = req[w].todo \ {c}, !.name = c] \in Worker
        BY <4>2 DEF Idle, Worker, WellPlaced, AtCampaign, Request, Places, AllOps
      <4> QED BY <4>1, <4>3, BecomesType
    <3> QED BY <1>5, <3>1, <3>2 DEF NextDue
  <2> QED BY <1>5, <2>1 DEF NextDue
<1> QED BY <1>1, <1>2, <1>3, <1>4, <1>5

LEMMA BeginType ==
  ASSUME TypeInv, NEW w \in Workers, NEW c \in Names, NEW op \in AllOps, NEW at \in Places,
         at \notin {"mail", "sent", "failed"},
         Becomes(w, [Idle EXCEPT !.op = op, !.at = at, !.name = c])
  PROVE  req' \in [Workers -> Worker]
<1>1. [Idle EXCEPT !.op = op, !.at = at, !.name = c] \in Worker
  BY DEF Idle, Worker, WellPlaced, Request
<1> QED BY <1>1, BecomesType

LEMMA SendType ==
  ASSUME TypeInv, NEW w \in Workers, NEW c \in Names,
         BeginSend(w, c) \/ BeginCancel(w, c) \/ BeginRetry(w, c) \/ Claim(w) \/ Load(w)
           \/ \E r \in Recipients : ClaimRecipient(w, r)
  PROVE  TypeInv'
<1> USE DEF TypeInv, counters
<1>1. CASE BeginSend(w, c)
  BY <1>1, BeginType, Zenon DEF BeginSend, AllOps, Places
<1>2. CASE BeginCancel(w, c)
  BY <1>2, BeginType, Zenon DEF BeginCancel, AllOps, Places
<1>3. CASE BeginRetry(w, c)
  <2>1. req' \in [Workers -> Worker]
    BY <1>3, BeginType, Zenon DEF BeginRetry, AllOps, Places
  <2> QED BY <1>3, <2>1 DEF BeginRetry
<1>4. CASE Claim(w)
  <2>1. req[w].name \in Names
    BY <1>4 DEF Claim, Worker, WellPlaced, AtCampaign
  <2>2. campaigns' \in [Names -> Campaign]
    BY <1>4, SetStatusType DEF Claim, Campaign
  <2>3. req' \in [Workers -> Worker]
    BY <1>4, <2>1, GoToType, RespondType DEF Claim, Places
  <2> QED BY <1>4, <2>2, <2>3 DEF Claim
<1>5. CASE Load(w)
  <2>1. PICK list \in SUBSET SendableTo(req[w].name) :
          Becomes(w, [req[w] EXCEPT !.at = "pick", !.list = list])
    BY <1>5 DEF Load
  <2>2. list \subseteq Recipients
    BY <2>1 DEF SendableTo
  <2>3. [req[w] EXCEPT !.at = "pick", !.list = list] \in Worker
    BY <1>5, <2>2, ListType DEF Load, Worker, WellPlaced, AtCampaign
  <2> QED BY <1>5, <2>1, <2>3, BecomesType DEF Load
<1>6. ASSUME NEW r \in Recipients, ClaimRecipient(w, r) PROVE TypeInv'
  <2>1. req[w] \in Worker /\ req[w].name \in Names
    BY <1>6 DEF ClaimRecipient, Worker, WellPlaced, AtCampaign
  <2>2. CASE Sendable(rows[req[w].name][r])
    <3>1. [req[w] EXCEPT !.at = "mail", !.list = @ \ {r}, !.to = r] \in Worker
      BY <2>1 DEF Worker, WellPlaced, AtCampaign, Request, Places
    <3>2. rows[req[w].name][r] \in Row
      BY <2>1
    <3>3. [status |-> "sending", attempts |-> rows[req[w].name][r].attempts + 1] \in Row
      BY <2>2, <3>2, NumbersAssumption DEF Sendable, Row
    <3>4. rows' \in [Names -> [Recipients -> Row]]
      BY <1>6, <2>1, <2>2, <3>3, RowType DEF ClaimRecipient
    <3> QED BY <1>6, <2>2, <3>1, <3>4, BecomesType DEF ClaimRecipient
  <2>3. CASE ~Sendable(rows[req[w].name][r])
    <3>1. [req[w] EXCEPT !.list = @ \ {r}] \in Worker
      BY <2>1 DEF Worker, WellPlaced, AtCampaign, Request, Places
    <3> QED BY <1>6, <2>3, <3>1, BecomesType DEF ClaimRecipient
  <2> QED BY <2>2, <2>3
<1> QED BY <1>1, <1>2, <1>3, <1>4, <1>5, <1>6

LEMMA MailType ==
  ASSUME TypeInv, NEW w \in Workers,
         Mail(w) \/ MailUnanswered(w) \/ RecordMail(w) \/ RecordFails(w)
  PROVE  TypeInv'
<1> USE DEF TypeInv, counters
<1>1. req[w] \in Worker /\ req[w].name \in Names /\ req[w].to \in Recipients
  BY DEF Mail, MailUnanswered, RecordMail, RecordFails, Worker, WellPlaced, AtCampaign
<1>2. CASE Mail(w)
  <2>1. req' \in [Workers -> Worker]
    BY <1>1, <1>2, GoToType DEF Mail, Places
  <2>2. [inbox[req[w].name] EXCEPT ![req[w].to] = @ + 1] \in [Recipients -> Nat]
    BY <1>1
  <2>3. inbox' \in [Names -> [Recipients -> Nat]]
    BY <1>1, <1>2, <2>2 DEF Mail
  <2> QED BY <1>2, <2>1, <2>3 DEF Mail
<1>3. CASE RecordMail(w)
  <2>1. [req[w] EXCEPT !.at = "pick", !.to = None, !.failed = @ \/ req[w].at = "failed"] \in Worker
    <3>1. (req[w].failed \/ req[w].at = "failed") \in BOOLEAN
      OBVIOUS
    <3>2. "pick" \in Places /\ "pick" \notin {"mail", "sent", "failed"}
      BY DEF Places
    <3> QED BY <1>1, <3>1, <3>2 DEF Worker, WellPlaced, Request
  <2>2. [rows[req[w].name][req[w].to] EXCEPT !.status = req[w].at] \in Row
    BY <1>1, <1>3, StatusType DEF RecordMail
  <2>3. rows' = [rows EXCEPT ![req[w].name][req[w].to] =
                   [rows[req[w].name][req[w].to] EXCEPT !.status = req[w].at]]
    BY <1>1, <1>3 DEF RecordMail
  <2>4. rows' \in [Names -> [Recipients -> Row]]
    BY <1>1, <2>2, <2>3, RowType
  <2> QED BY <1>3, <2>1, <2>4, BecomesType DEF RecordMail
<1>4. CASE RecordFails(w)
  <2>1. req' \in [Workers -> Worker]
    BY <1>1, <1>4, GoToType DEF RecordFails, Places
  <2> QED BY <1>4, <2>1 DEF RecordFails
<1>5. CASE MailUnanswered(w)
  <2>1. req' \in [Workers -> Worker]
    BY <1>1, <1>5, GoToType DEF MailUnanswered, Places
  <2>2. [inbox[req[w].name] EXCEPT ![req[w].to] = @ + 1] \in [Recipients -> Nat]
    BY <1>1
  <2>3. inbox' \in [Names -> [Recipients -> Nat]]
    BY <1>1, <1>5, <2>2 DEF MailUnanswered
  <2> QED BY <1>5, <2>1, <2>3 DEF MailUnanswered
<1> QED BY <1>2, <1>3, <1>4, <1>5

LEMMA CountedType ==
  ASSUME TypeInv, NEW w \in Workers, NEW at \in Places, at \notin {"mail", "sent", "failed"},
         NEW left \in SUBSET {"outstanding", "exhausted", "unknown"},
         req[w].name \in Names, Counted(w, at, left)
  PROVE  req' \in [Workers -> Worker]
<1>1. [req[w] EXCEPT !.at = at, !.left = @ \cup left] \in Worker
  BY ZenonT(60) DEF TypeInv, Worker, WellPlaced, Request
<1> QED BY <1>1, BecomesType DEF Counted

LEMMA FinishType ==
  ASSUME TypeInv, NEW w \in Workers,
         CountOutstanding(w) \/ CountExhausted(w) \/ CountUnknown(w) \/ Finish(w) \/ Cancel(w)
           \/ Requeue(w) \/ Reopen(w)
  PROVE  TypeInv'
<1> USE DEF TypeInv, counters
<1>1. req[w] \in Worker /\ req[w].name \in Names
  BY DEF CountOutstanding, CountExhausted, CountUnknown, Finish, Cancel, Requeue, Reopen,
    Worker, WellPlaced, AtCampaign
<1>2. CASE CountOutstanding(w)
  BY <1>1, <1>2, CountedType DEF CountOutstanding, Places
<1>3. CASE CountExhausted(w)
  BY <1>1, <1>3, CountedType DEF CountExhausted, Places
<1>4. CASE CountUnknown(w)
  BY <1>1, <1>4, CountedType DEF CountUnknown, Places
<1>5. CASE Finish(w)
  <2>1. campaigns' \in [Names -> Campaign]
    BY <1>5, OutcomeType, SetStatusType DEF Finish
  <2>2. [Idle EXCEPT !.op = "tick", !.at = "next", !.todo = req[w].todo] \in Worker
    BY <1>1, Zenon DEF Idle, Worker, WellPlaced, AtCampaign, Request, Places, AllOps
  <2> QED BY <1>5, <2>1, <2>2, BecomesType, RespondType DEF Finish
<1>6. CASE Cancel(w)
  BY <1>6, SetStatusType, RespondType DEF Cancel, Campaign
<1>7. CASE Requeue(w)
  <2>1. rows' \in [Names -> [Recipients -> Row]]
    <3> DEFINE new == [r \in Recipients |-> IF rows[req[w].name][r].status = "delivery_unknown"
                                             THEN [rows[req[w].name][r] EXCEPT !.status = "failed"]
                                             ELSE rows[req[w].name][r]]
    <3>1. new \in [Recipients -> Row]
      BY <1>1, StatusType
    <3>2. rows' = [rows EXCEPT ![req[w].name] = new]
      BY <1>1, <1>7 DEF Requeue
    <3> QED BY <1>1, <3>1, <3>2
  <2>2. req' \in [Workers -> Worker]
    BY <1>1, <1>7, GoToType, RespondType DEF Requeue, Places
  <2> QED BY <1>7, <2>1, <2>2 DEF Requeue
<1>8. CASE Reopen(w)
  BY <1>8, SetStatusType, RespondType DEF Reopen, Campaign
<1> QED BY <1>2, <1>3, <1>4, <1>5, <1>6, <1>7, <1>8

LEMMA ClockType ==
  ASSUME TypeInv, NEW c \in Names,
         Rest(c) \/ GoStale(c) \/ \E status \in {"draft", "scheduled"} : Create(c, status)
  PROVE  TypeInv'
<1> USE DEF TypeInv, counters
<1>1. CASE Rest(c)
  BY <1>1 DEF Rest, Campaign
<1>2. CASE GoStale(c)
  BY <1>2 DEF GoStale, Campaign
<1>3. ASSUME NEW status \in {"draft", "scheduled"}, Create(c, status) PROVE TypeInv'
  BY <1>3, SetStatusType DEF Create, Campaign
<1> QED BY <1>1, <1>2, <1>3

LEMMA CrashType ==
  ASSUME TypeInv, NEW w \in Workers, Crash(w)
  PROVE  TypeInv'
BY RespondType DEF Crash, TypeInv

LEMMA NextType == TypeInv /\ [Next]_vars => TypeInv'
<1> SUFFICES ASSUME TypeInv, [Next]_vars PROVE TypeInv'
  OBVIOUS
<1>1. CASE UNCHANGED vars
  BY <1>1 DEF vars, TypeInv
<1>2. ASSUME NEW w \in Workers, Begin(w) PROVE TypeInv'
  BY <1>2, TickType, SendType DEF Begin
<1>3. ASSUME NEW w \in Workers, Continue(w) PROVE TypeInv'
  <2>1. CASE Claim(w) \/ Load(w) \/ \E r \in Recipients : ClaimRecipient(w, r)
    <3>1. req[w].name \in Names
      BY <2>1 DEF Claim, Load, ClaimRecipient, TypeInv, Worker, WellPlaced, AtCampaign
    <3> QED BY <2>1, <3>1, SendType
  <2> QED BY <1>3, <2>1, TickType, MailType, FinishType DEF Continue
<1> QED BY <1>1, <1>2, <1>3, MailType, CrashType, ClockType DEF Next

LEMMA InitType == Init => TypeInv
BY IdleType, NumbersAssumption DEF Init, TypeInv, Campaign, Row

\* Campaigns, recipients and workers keep their types; no recipient is tried more
\* often than MaxAttempts, however workers overlap.
THEOREM TypeCorrect == Spec => []TypeOK
<1>1. Init => TypeInv
  BY InitType
<1>2. TypeInv => TypeOK
  BY DEF TypeInv, TypeOK, Worker
<1> QED BY <1>1, <1>2, NextType, PTL DEF Spec

-----------------------------------------------------------------------------
(* MailedOnce *)

\* Whoever may still bring a mail of c to r out: a worker that is mailing it, took
\* it for failed, or is about to queue it again; and the row, when it can be taken.
Held(worker, c, r) ==
  /\ worker.name = c
  /\ worker.at = "requeue" \/ (worker.at \in {"mail", "failed"} /\ worker.to = r)
Share(worker, c, r) == IF Held(worker, c, r) THEN 1 ELSE 0
Open(row) == IF row.status \in {"pending", "failed"} THEN 1 ELSE 0
Holders(c, r) == {w \in Workers : Held(req[w], c, r)}

Bounded ==
  \A c \in Names, r \in Recipients :
    inbox[c][r] + Cardinality(Holders(c, r)) + Open(rows[c][r]) <= 1 + retries + unrecorded

\* What one worker and one statement may do to the sum: Share and the row give
\* what the inbox and the counters take.
Pays(w, worker) ==
  \A c \in Names, r \in Recipients :
    inbox'[c][r] + Share(worker, c, r) + Open(rows'[c][r]) + retries + unrecorded
      <= inbox[c][r] + Share(req[w], c, r) + Open(rows[c][r]) + retries' + unrecorded'

LEMMA HoldersCount ==
  ASSUME TypeInv, NEW w \in Workers, NEW worker, Becomes(w, worker), NEW c, NEW r
  PROVE  /\ Cardinality(Holders(c, r)) \in Nat
         /\ Cardinality(Holders(c, r)') \in Nat
         /\ Cardinality(Holders(c, r)') + Share(req[w], c, r)
              = Cardinality(Holders(c, r)) + Share(worker, c, r)
<1> DEFINE A == Holders(c, r)
           B == Holders(c, r)'
<1>1. IsFiniteSet(A) /\ IsFiniteSet(B)
  <2>1. A \subseteq Workers /\ B \subseteq Workers
    BY DEF Holders
  <2> QED BY <2>1, FS_Subset, FiniteAssumption
<1>2. Cardinality(A) \in Nat /\ Cardinality(B) \in Nat
  BY <1>1, FS_CardinalityType
<1>3. req'[w] = worker /\ \A u \in Workers \ {w} : req'[u] = req[u]
  BY DEF TypeInv, Becomes
<1>4. A \ {w} = B \ {w}
  BY <1>3 DEF Holders, Held
<1>5. (w \in A <=> Held(req[w], c, r)) /\ (w \in B <=> Held(worker, c, r))
  BY <1>3 DEF Holders, Held
<1> HIDE DEF A, B
<1>6. Cardinality(A \ {w}) = Cardinality(A) - Share(req[w], c, r)
  <2>1. Cardinality(A \ {w}) = IF w \in A THEN Cardinality(A) - 1 ELSE Cardinality(A)
    BY <1>1, FS_RemoveElement
  <2> QED BY <1>2, <1>5, <2>1 DEF Share
<1>7. Cardinality(B \ {w}) = Cardinality(B) - Share(worker, c, r)
  <2>1. Cardinality(B \ {w}) = IF w \in B THEN Cardinality(B) - 1 ELSE Cardinality(B)
    BY <1>1, FS_RemoveElement
  <2> QED BY <1>2, <1>5, <2>1 DEF Share
<1>8. Share(req[w], c, r) \in Nat /\ Share(worker, c, r) \in Nat
  BY DEF Share
<1>9. Cardinality(B) + Share(req[w], c, r) = Cardinality(A) + Share(worker, c, r)
  BY <1>2, <1>4, <1>6, <1>7, <1>8
<1> QED BY <1>2, <1>9 DEF A, B

LEMMA PaysBounded ==
  ASSUME TypeInv, TypeInv', Bounded, NEW w \in Workers, NEW worker, Becomes(w, worker),
         Pays(w, worker)
  PROVE  Bounded'
<1> SUFFICES ASSUME NEW c \in Names, NEW r \in Recipients
             PROVE  inbox'[c][r] + Cardinality(Holders(c, r)') + Open(rows'[c][r])
                      <= 1 + retries' + unrecorded'
  BY DEF Bounded
<1>1. /\ inbox[c][r] + Cardinality(Holders(c, r)) + Open(rows[c][r]) <= 1 + retries + unrecorded
      /\ inbox'[c][r] + Share(worker, c, r) + Open(rows'[c][r]) + retries + unrecorded
           <= inbox[c][r] + Share(req[w], c, r) + Open(rows[c][r]) + retries' + unrecorded'
  BY DEF Bounded, Pays
<1>2. /\ inbox[c][r] \in Nat /\ inbox'[c][r] \in Nat
      /\ retries \in Nat /\ retries' \in Nat /\ unrecorded \in Nat /\ unrecorded' \in Nat
  BY DEF TypeInv
<1>3. /\ Open(rows[c][r]) \in Nat /\ Open(rows'[c][r]) \in Nat
      /\ Share(req[w], c, r) \in Nat /\ Share(worker, c, r) \in Nat
  BY DEF Open, Share
<1>4. /\ Cardinality(Holders(c, r)) \in Nat /\ Cardinality(Holders(c, r)') \in Nat
      /\ Cardinality(Holders(c, r)') + Share(req[w], c, r)
           = Cardinality(Holders(c, r)) + Share(worker, c, r)
  BY HoldersCount
<1> QED BY <1>1, <1>2, <1>3, <1>4

\* A step that leaves the rows, the inbox and the counters alone.
LEMMA QuietBounded ==
  ASSUME TypeInv, TypeInv', Bounded, NEW w \in Workers, NEW worker, Becomes(w, worker),
         UNCHANGED <<rows, inbox, unrecorded, retries>>,
         \A c \in Names, r \in Recipients : Held(worker, c, r) => Held(req[w], c, r)
  PROVE  Bounded'
<1>1. Pays(w, worker)
  <2> SUFFICES ASSUME NEW c \in Names, NEW r \in Recipients
               PROVE  inbox[c][r] + Share(worker, c, r) + Open(rows[c][r]) + retries + unrecorded
                        <= inbox[c][r] + Share(req[w], c, r) + Open(rows[c][r]) + retries + unrecorded
    BY DEF Pays
  <2>1. inbox[c][r] \in Nat /\ retries \in Nat /\ unrecorded \in Nat
    BY DEF TypeInv
  <2>2. /\ Open(rows[c][r]) \in Nat /\ Share(req[w], c, r) \in Nat /\ Share(worker, c, r) \in Nat
        /\ Share(worker, c, r) <= Share(req[w], c, r)
    BY DEF Open, Share
  <2> QED BY <2>1, <2>2
<1> QED BY <1>1, PaysBounded

\* Going to a statement that holds nothing.
LEMMA GoToBounded ==
  ASSUME TypeInv, TypeInv', Bounded, NEW w \in Workers, NEW at, GoTo(w, at),
         at \notin {"requeue", "mail", "failed"}, UNCHANGED <<rows, inbox, unrecorded, retries>>
  PROVE  Bounded'
<1>1. req[w] \in Request
  BY DEF TypeInv, Worker
<1>2. \A c \in Names, r \in Recipients : ~Held([req[w] EXCEPT !.at = at], c, r)
  BY <1>1 DEF Held, Request
<1> QED BY <1>2, QuietBounded DEF GoTo

LEMMA RespondBounded ==
  ASSUME TypeInv, TypeInv', Bounded, NEW w \in Workers, Respond(w),
         UNCHANGED <<rows, inbox, unrecorded, retries>>
  PROVE  Bounded'
<1>1. \A c \in Names, r \in Recipients : ~Held(Idle, c, r)
  BY DEF Held, Idle
<1> QED BY <1>1, QuietBounded DEF Respond

LEMMA TickBounded ==
  ASSUME TypeInv, TypeInv', Bounded, NEW w \in Workers,
         BeginTick(w) \/ GiveUpMails(w) \/ ReleaseCampaigns(w) \/ ListDue(w) \/ NextDue(w)
  PROVE  Bounded'
<1> USE DEF counters
<1>1. req[w] \in Request
  BY DEF TypeInv, Worker
<1>2. CASE BeginTick(w)
  <2>1. \A c, r : ~Held([Idle EXCEPT !.op = "tick", !.at = "unknown"], c, r)
    BY DEF Held, Idle
  <2> QED BY <1>2, <2>1, QuietBounded DEF BeginTick
<1>3. CASE GiveUpMails(w)
  <2> DEFINE worker == [req[w] EXCEPT !.at = "release", !.todo = {c \in Names : Abandoned(c)}]
  <2>1. \A c, r : ~Held(worker, c, r)
    BY <1>1 DEF Held, Request
  <2>2. \A c \in Names, r \in Recipients :
          Open([rows[c][r] EXCEPT !.status = "delivery_unknown"]) = 0
    BY DEF Open, TypeInv, Row
  <2>3. \A c \in Names, r \in Recipients : Open(rows'[c][r]) <= Open(rows[c][r])
    BY <1>3, <2>2 DEF GiveUpMails, Open
  <2>4. Pays(w, worker)
    <3> HIDE DEF worker
    <3> SUFFICES ASSUME NEW c \in Names, NEW r \in Recipients
                 PROVE  inbox[c][r] + Share(worker, c, r) + Open(rows'[c][r]) + retries + unrecorded
                          <= inbox[c][r] + Share(req[w], c, r) + Open(rows[c][r]) + retries + unrecorded
      BY <1>3 DEF Pays, GiveUpMails
    <3>1. inbox[c][r] \in Nat /\ retries \in Nat /\ unrecorded \in Nat
      BY DEF TypeInv
    <3>2. /\ Open(rows[c][r]) \in Nat /\ Open(rows'[c][r]) \in Nat
          /\ Share(req[w], c, r) \in Nat /\ Share(worker, c, r) = 0
      BY <2>1 DEF Open, Share
    <3> QED BY <2>3, <3>1, <3>2
  <2> QED BY <1>3, <2>4, PaysBounded DEF GiveUpMails
<1>4. CASE ReleaseCampaigns(w)
  BY <1>4, GoToBounded DEF ReleaseCampaigns
<1>5. CASE ListDue(w)
  <2>1. \A c, r : ~Held([req[w] EXCEPT !.at = "next", !.todo = {d \in Names : Due(d)}], c, r)
    BY <1>1 DEF Held, Request
  <2> QED BY <1>5, <2>1, QuietBounded DEF ListDue
<1>6. CASE NextDue(w)
  <2>1. CASE Respond(w)
    BY <1>6, <2>1, RespondBounded DEF NextDue
  <2>2. ASSUME NEW d \in req[w].todo,
               Becomes(w, [Idle EXCEPT !.op = "tick", !.at = "claim",
                                       !.todo = req[w].todo \ {d}, !.name = d])
        PROVE  Bounded'
    <3>1. \A c, r : ~Held([Idle EXCEPT !.op = "tick", !.at = "claim",
                                       !.todo = req[w].todo \ {d}, !.name = d], c, r)
      BY DEF Held, Idle
    <3> QED BY <1>6, <2>2, <3>1, QuietBounded DEF NextDue
  <2> QED BY <1>6, <2>1, <2>2 DEF NextDue
<1> QED BY <1>2, <1>3, <1>4, <1>5, <1>6

\* BeginRetry pays with a retry for each recipient of the campaign.
LEMMA SendBounded ==
  ASSUME TypeInv, TypeInv', Bounded, NEW w \in Workers, NEW d \in Names,
         BeginSend(w, d) \/ BeginCancel(w, d) \/ BeginRetry(w, d) \/ Claim(w) \/ Load(w)
  PROVE  Bounded'
<1> USE DEF counters
<1>1. req[w] \in Request
  BY DEF TypeInv, Worker
<1>2. CASE BeginSend(w, d)
  <2>1. \A c, r : ~Held([Idle EXCEPT !.op = "send", !.at = "claim", !.name = d], c, r)
    BY DEF Held, Idle
  <2> QED BY <1>2, <2>1, QuietBounded DEF BeginSend
<1>3. CASE BeginCancel(w, d)
  <2>1. \A c, r : ~Held([Idle EXCEPT !.op = "cancel", !.at = "cancel", !.name = d], c, r)
    BY DEF Held, Idle
  <2> QED BY <1>3, <2>1, QuietBounded DEF BeginCancel
<1>4. CASE BeginRetry(w, d)
  <2> DEFINE worker == [Idle EXCEPT !.op = "retryUnknown", !.at = "requeue", !.name = d]
  <2>1. Pays(w, worker)
    <3> HIDE DEF worker
    <3> SUFFICES ASSUME NEW c \in Names, NEW r \in Recipients
                 PROVE  inbox[c][r] + Share(worker, c, r) + Open(rows[c][r]) + retries + unrecorded
                          <= inbox[c][r] + Share(req[w], c, r) + Open(rows[c][r])
                               + (retries + 1) + unrecorded
      BY <1>4 DEF Pays, BeginRetry
    <3>1. inbox[c][r] \in Nat /\ retries \in Nat /\ unrecorded \in Nat
      BY DEF TypeInv
    <3>2. /\ Open(rows[c][r]) \in Nat /\ Share(req[w], c, r) \in Nat
          /\ Share(worker, c, r) \in Nat /\ Share(worker, c, r) <= 1
      BY DEF Open, Share
    <3> QED BY <3>1, <3>2
  <2> QED BY <1>4, <2>1, PaysBounded DEF BeginRetry
<1>5. CASE Claim(w)
  BY <1>5, GoToBounded, RespondBounded DEF Claim
<1>6. CASE Load(w)
  <2>1. PICK list \in SUBSET SendableTo(req[w].name) :
          Becomes(w, [req[w] EXCEPT !.at = "pick", !.list = list])
    BY <1>6 DEF Load
  <2>2. \A c, r : ~Held([req[w] EXCEPT !.at = "pick", !.list = list], c, r)
    BY <1>1 DEF Held, Request
  <2> QED BY <1>6, <2>1, <2>2, QuietBounded DEF Load
<1> QED BY <1>2, <1>3, <1>4, <1>5, <1>6

\* A recipient that is taken leaves the row for the worker.
LEMMA ClaimRecipientBounded ==
  ASSUME TypeInv, TypeInv', Bounded, NEW w \in Workers, NEW s \in Recipients, ClaimRecipient(w, s)
  PROVE  Bounded'
<1> USE DEF counters
<1>1. req[w] \in Request /\ req[w].at = "pick" /\ req[w].name \in Names
  BY DEF TypeInv, Worker, WellPlaced, AtCampaign, ClaimRecipient
<1>2. \A c, r : ~Held(req[w], c, r)
  BY <1>1 DEF Held
<1>3. CASE Sendable(rows[req[w].name][s])
  <2> DEFINE worker == [req[w] EXCEPT !.at = "mail", !.list = @ \ {s}, !.to = s]
  <2>1. /\ Becomes(w, worker) /\ UNCHANGED <<inbox, unrecorded, retries>>
        /\ rows' = [rows EXCEPT ![req[w].name][s] = [status |-> "sending", attempts |-> @.attempts + 1]]
    BY <1>3 DEF ClaimRecipient
  <2>2. \A c \in Names, r \in Recipients : Held(worker, c, r) => c = req[w].name /\ r = s
    BY <1>1 DEF Held, Request
  <2>3. Open(rows[req[w].name][s]) = 1 /\ Open(rows'[req[w].name][s]) = 0
    BY <1>1, <1>3, <2>1 DEF TypeInv, Sendable, Open
  <2>4. \A c \in Names, r \in Recipients :
          c # req[w].name \/ r # s => rows'[c][r] = rows[c][r]
    BY <1>1, <2>1 DEF TypeInv
  <2> HIDE DEF worker
  <2>5. Pays(w, worker)
    <3> SUFFICES ASSUME NEW c \in Names, NEW r \in Recipients
                 PROVE  inbox[c][r] + Share(worker, c, r) + Open(rows'[c][r]) + retries + unrecorded
                          <= inbox[c][r] + Share(req[w], c, r) + Open(rows[c][r]) + retries + unrecorded
      BY <2>1 DEF Pays
    <3>1. inbox[c][r] \in Nat /\ retries \in Nat /\ unrecorded \in Nat
      BY DEF TypeInv
    <3>2. Share(req[w], c, r) = 0 /\ Share(worker, c, r) \in {0, 1} /\ Open(rows[c][r]) \in Nat
      BY <1>2 DEF Share, Open
    <3>3. CASE c = req[w].name /\ r = s
      BY <2>3, <3>1, <3>2, <3>3
    <3>4. CASE c # req[w].name \/ r # s
      <4>1. Share(worker, c, r) = 0 /\ Open(rows'[c][r]) = Open(rows[c][r])
        BY <2>2, <2>4, <3>4 DEF Share
      <4> QED BY <3>1, <3>2, <4>1
    <3> QED BY <3>3, <3>4
  <2> QED BY <2>1, <2>5, PaysBounded
<1>4. CASE ~Sendable(rows[req[w].name][s])
  <2>1. \A c, r : ~Held([req[w] EXCEPT !.list = @ \ {s}], c, r)
    BY <1>1 DEF Held, Request
  <2> QED BY <1>4, <2>1, QuietBounded DEF ClaimRecipient
<1> QED BY <1>3, <1>4

\* A worker that mails trades its share for the mail, and one whose mail is refused,
\* or taken for refused, trades it for the row; a mail that left without the worker's
\* knowing it is paid for by the counter.
LEMMA MailBounded ==
  ASSUME TypeInv, TypeInv', Bounded, NEW w \in Workers,
         Mail(w) \/ MailUnanswered(w) \/ RecordMail(w) \/ RecordFails(w)
  PROVE  Bounded'
<1> USE DEF counters
<1> DEFINE d == req[w].name
           s == req[w].to
<1>1. req[w] \in Request /\ req[w].at \in {"mail", "sent", "failed"} /\ d \in Names /\ s \in Recipients
  BY DEF TypeInv, Worker, WellPlaced, AtCampaign, Mail, MailUnanswered, RecordMail, RecordFails
<1>2. \A c \in Names, r \in Recipients : /\ inbox[c][r] \in Nat /\ rows[c][r] \in Row
                                         /\ Open(rows[c][r]) \in {0, 1} /\ Share(req[w], c, r) \in {0, 1}
 BY DEF TypeInv, Open, Share
<1>3. retries \in Nat /\ unrecorded \in Nat
  BY DEF TypeInv
<1>4. \A c \in Names, r \in Recipients : Held(req[w], c, r) => c = d /\ r = s
  BY <1>1 DEF Held
<1>5. CASE Mail(w) /\ GoTo(w, "failed") /\ inbox' = inbox
  <2>1. \A c, r : Held([req[w] EXCEPT !.at = "failed"], c, r) => Held(req[w], c, r)
    BY <1>1, <1>5 DEF Held, Request, Mail
  <2> QED BY <1>5, <2>1, QuietBounded DEF Mail, GoTo
<1>6. CASE Mail(w) /\ GoTo(w, "sent") /\ inbox' = [inbox EXCEPT ![d][s] = @ + 1]
  <2> DEFINE worker == [req[w] EXCEPT !.at = "sent"]
  <2>1. \A c, r : ~Held(worker, c, r)
    BY <1>1 DEF Held, Request
  <2>2. Share(req[w], d, s) = 1
    BY <1>6 DEF Mail, Share, Held
  <2>3. inbox'[d][s] = inbox[d][s] + 1
    BY <1>1, <1>6 DEF TypeInv
  <2>4. \A c \in Names, r \in Recipients : c # d \/ r # s => inbox'[c][r] = inbox[c][r]
    BY <1>1, <1>6 DEF TypeInv
  <2> HIDE DEF worker, d, s
  <2>5. ASSUME NEW c \in Names, NEW r \in Recipients
        PROVE  inbox'[c][r] + Share(worker, c, r) + Open(rows[c][r]) + retries + unrecorded
                 <= inbox[c][r] + Share(req[w], c, r) + Open(rows[c][r]) + retries + unrecorded
    <3>1. Share(worker, c, r) = 0
      BY <2>1 DEF Share
    <3>2. inbox'[c][r] <= inbox[c][r] + Share(req[w], c, r) /\ inbox'[c][r] \in Nat
      BY <1>2, <2>2, <2>3, <2>4
    <3> QED BY <1>2, <1>3, <3>1, <3>2
  <2>6. Pays(w, worker)
    BY <1>6, <2>5 DEF Pays, Mail
  <2> QED BY <1>6, <2>6, PaysBounded DEF Mail, GoTo, worker
<1>7. CASE RecordMail(w)
  <2> DEFINE worker == [req[w] EXCEPT !.at = "pick", !.to = None, !.failed = @ \/ req[w].at = "failed"]
  <2>1. \A c, r : ~Held(worker, c, r)
    BY <1>1 DEF Held, Request
  <2>2. rows' = [rows EXCEPT ![d][s].status = req[w].at]
    BY <1>7 DEF RecordMail
  <2>3. rows'[d][s].status = req[w].at
    BY <1>1, <1>2, <2>2 DEF TypeInv, Row
  <2>4. \A c \in Names, r \in Recipients : c # d \/ r # s => rows'[c][r] = rows[c][r]
    BY <1>1, <2>2 DEF TypeInv
  <2>5. Open(rows'[d][s]) <= Share(req[w], d, s) /\ Open(rows'[d][s]) \in {0, 1}
    BY <1>7, <2>3 DEF Open, Share, Held, RecordMail
  <2> HIDE DEF worker, d, s
  <2>6. ASSUME NEW c \in Names, NEW r \in Recipients
        PROVE  inbox[c][r] + Share(worker, c, r) + Open(rows'[c][r]) + retries + unrecorded
                 <= inbox[c][r] + Share(req[w], c, r) + Open(rows[c][r]) + retries + unrecorded
    <3>1. Share(worker, c, r) = 0
      BY <2>1 DEF Share
    <3>2. /\ Open(rows'[c][r]) <= Share(req[w], c, r) + Open(rows[c][r])
          /\ Open(rows'[c][r]) \in {0, 1}
      BY <1>2, <2>4, <2>5, SMTT(40)
    <3> QED BY <1>2, <1>3, <3>1, <3>2
  <2>7. Pays(w, worker)
    BY <1>7, <2>6 DEF Pays, RecordMail
  <2> QED BY <1>7, <2>7, PaysBounded DEF RecordMail, worker
<1>8. CASE RecordFails(w)
  <2> DEFINE worker == [req[w] EXCEPT !.at = "failed"]
  <2> HIDE DEF worker, d, s
  <2>1. ASSUME NEW c \in Names, NEW r \in Recipients
        PROVE  inbox[c][r] + Share(worker, c, r) + Open(rows[c][r]) + retries + unrecorded
                 <= inbox[c][r] + Share(req[w], c, r) + Open(rows[c][r]) + retries + (unrecorded + 1)
    <3>1. Share(worker, c, r) \in {0, 1}
      BY DEF Share
    <3> QED BY <1>2, <1>3, <3>1
  <2>2. Pays(w, worker)
    BY <1>8, <2>1 DEF Pays, RecordFails
  <2> QED BY <1>8, <2>2, PaysBounded DEF RecordFails, GoTo, worker
<1>9. CASE MailUnanswered(w)
  <2> DEFINE worker == [req[w] EXCEPT !.at = "failed"]
  <2>1. \A c, r : Held(worker, c, r) => Held(req[w], c, r)
    BY <1>1, <1>9 DEF Held, Request, MailUnanswered
  <2>2. inbox' = [inbox EXCEPT ![d][s] = @ + 1]
    BY <1>9 DEF MailUnanswered
  <2>3. inbox'[d][s] = inbox[d][s] + 1
    BY <1>1, <2>2 DEF TypeInv
  <2>4. \A c \in Names, r \in Recipients : c # d \/ r # s => inbox'[c][r] = inbox[c][r]
    BY <1>1, <2>2 DEF TypeInv
  <2> HIDE DEF worker, d, s
  <2>5. ASSUME NEW c \in Names, NEW r \in Recipients
        PROVE  inbox'[c][r] + Share(worker, c, r) + Open(rows[c][r]) + retries + unrecorded
                 <= inbox[c][r] + Share(req[w], c, r) + Open(rows[c][r]) + retries + (unrecorded + 1)
    <3>1. Share(worker, c, r) <= Share(req[w], c, r) /\ Share(worker, c, r) \in {0, 1}
      BY <2>1 DEF Share
    <3>2. inbox'[c][r] <= inbox[c][r] + 1 /\ inbox'[c][r] \in Nat
      BY <1>2, <2>3, <2>4
    <3> QED BY <1>2, <1>3, <3>1, <3>2
  <2>6. Pays(w, worker)
    BY <1>9, <2>5 DEF Pays, MailUnanswered
  <2> QED BY <1>9, <2>6, PaysBounded DEF MailUnanswered, GoTo, worker
<1> QED BY <1>5, <1>6, <1>7, <1>8, <1>9 DEF Mail

\* Requeue pays for the rows it opens with the share it holds of each of them.
LEMMA RequeueBounded ==
  ASSUME TypeInv, TypeInv', Bounded, NEW w \in Workers, Requeue(w)
  PROVE  Bounded'
<1> USE DEF counters
<1> DEFINE d == req[w].name
<1>1. req[w] \in Request /\ req[w].at = "requeue" /\ d \in Names
  BY DEF TypeInv, Worker, WellPlaced, AtCampaign, Requeue
<1>2. PICK worker : Becomes(w, worker) /\ \A c, r : ~Held(worker, c, r)
  <2>1. \A c, r : ~Held(Idle, c, r) /\ ~Held([req[w] EXCEPT !.at = "reopen"], c, r)
    BY <1>1 DEF Held, Idle, Request
  <2> QED BY <2>1 DEF Requeue, Respond, GoTo
<1>3. \A r \in Recipients : Share(req[w], d, r) = 1
  BY <1>1 DEF Share, Held
<1>4. \A c \in Names, r \in Recipients : c # d => rows'[c][r] = rows[c][r]
  BY <1>1 DEF Requeue, TypeInv
<1> HIDE DEF d
<1>5. ASSUME NEW c \in Names, NEW r \in Recipients
      PROVE  inbox[c][r] + Share(worker, c, r) + Open(rows'[c][r]) + retries + unrecorded
               <= inbox[c][r] + Share(req[w], c, r) + Open(rows[c][r]) + retries + unrecorded
  <2>1. inbox[c][r] \in Nat /\ retries \in Nat /\ unrecorded \in Nat
    BY DEF TypeInv
  <2>2. /\ Open(rows[c][r]) \in {0, 1} /\ Open(rows'[c][r]) \in {0, 1}
        /\ Share(req[w], c, r) \in {0, 1} /\ Share(worker, c, r) = 0
    BY <1>2 DEF Open, Share
  <2>3. Open(rows'[c][r]) <= Share(req[w], c, r) + Open(rows[c][r])
    BY <1>3, <1>4, <2>2
  <2> QED BY <2>1, <2>2, <2>3
<1>6. Pays(w, worker)
  BY <1>5 DEF Pays, Requeue
<1> QED BY <1>2, <1>6, PaysBounded

LEMMA FinishBounded ==
  ASSUME TypeInv, TypeInv', Bounded, NEW w \in Workers,
         CountOutstanding(w) \/ CountExhausted(w) \/ CountUnknown(w) \/ Finish(w) \/ Cancel(w)
           \/ Reopen(w) \/ Crash(w)
  PROVE  Bounded'
<1> USE DEF counters
<1>1. req[w] \in Request
  BY DEF TypeInv, Worker
<1>2. ASSUME NEW at \in {"exhausted", "undelivered", "finish"}, NEW left, Counted(w, at, left),
             UNCHANGED <<rows, inbox, counters>>
      PROVE  Bounded'
  <2>1. \A c, r : ~Held([req[w] EXCEPT !.at = at, !.left = @ \cup left], c, r)
    BY <1>1 DEF Held, Request
  <2> QED BY <1>2, <2>1, QuietBounded DEF Counted
<1>3. CASE CountOutstanding(w) \/ CountExhausted(w) \/ CountUnknown(w)
  BY <1>2, <1>3 DEF CountOutstanding, CountExhausted, CountUnknown
<1>4. CASE Finish(w)
  <2>1. \A c, r : ~Held([Idle EXCEPT !.op = "tick", !.at = "next", !.todo = req[w].todo], c, r)
    BY DEF Held, Idle
  <2> QED BY <1>4, <2>1, QuietBounded, RespondBounded DEF Finish
<1>5. CASE Cancel(w) \/ Reopen(w) \/ Crash(w)
  BY <1>5, RespondBounded DEF Cancel, Reopen, Crash
<1> QED BY <1>3, <1>4, <1>5

LEMMA NextBounded == TypeInv /\ TypeInv' /\ Bounded /\ [Next]_vars => Bounded'
<1> SUFFICES ASSUME TypeInv, TypeInv', Bounded, [Next]_vars PROVE Bounded'
  OBVIOUS
<1>1. CASE UNCHANGED vars
  BY <1>1 DEF vars, Bounded, Holders
<1>2. ASSUME NEW w \in Workers, Begin(w) PROVE Bounded'
  BY <1>2, TickBounded, SendBounded DEF Begin
<1>3. ASSUME NEW w \in Workers, Continue(w) PROVE Bounded'
  <2>1. CASE Claim(w) \/ Load(w)
    <3>1. req[w].name \in Names
      BY <2>1 DEF Claim, Load, TypeInv, Worker, WellPlaced, AtCampaign
    <3> QED BY <2>1, <3>1, SendBounded
  <2> QED BY <1>3, <2>1, TickBounded, ClaimRecipientBounded, MailBounded, RequeueBounded, FinishBounded
          DEF Continue
<1>4. ASSUME NEW w \in Workers, MailUnanswered(w) \/ RecordFails(w) \/ Crash(w) PROVE Bounded'
  BY <1>4, MailBounded, FinishBounded
<1>5. ASSUME NEW c \in Names,
             Rest(c) \/ GoStale(c) \/ \E status \in {"draft", "scheduled"} : Create(c, status)
      PROVE  Bounded'
  BY <1>5 DEF Rest, GoStale, Create, Bounded, Holders, counters
<1> QED BY <1>1, <1>2, <1>3, <1>4, <1>5 DEF Next

\* sendCampaign mails each recipient of a campaign once, however many workers send
\* it, stop, or outlive their 15 minutes, plus once for each time somebody asks for
\* unknown deliveries again and each mail that left and was taken for failed, as its
\* answer was lost or its row could not be written.
THEOREM NeverMailedTwice == Spec => []MailedOnce
<1>1. Init => TypeInv
  BY InitType
<1>2. Init => Bounded
  <2> SUFFICES ASSUME Init, NEW c \in Names, NEW r \in Recipients
               PROVE  inbox[c][r] + Cardinality(Holders(c, r)) + Open(rows[c][r]) <= 1 + retries + unrecorded
    BY DEF Bounded
  <2>1. Holders(c, r) = {}
    BY DEF Init, Holders, Held, Idle
  <2>2. inbox[c][r] = 0 /\ Open(rows[c][r]) = 1 /\ retries = 0 /\ unrecorded = 0
    BY DEF Init, Open
  <2> QED BY <2>1, <2>2, FS_EmptySet
<1>3. TypeInv /\ Bounded => MailedOnce
  <2> SUFFICES ASSUME TypeInv, Bounded, NEW c \in Names, NEW r \in Recipients
               PROVE  inbox[c][r] <= 1 + retries + unrecorded
    BY DEF MailedOnce
  <2>1. Cardinality(Holders(c, r)) \in Nat
    <3>1. Holders(c, r) \subseteq Workers
      BY DEF Holders
    <3> QED BY <3>1, FiniteAssumption, FS_Subset, FS_CardinalityType
  <2>2. /\ inbox[c][r] \in Nat /\ Open(rows[c][r]) \in Nat
        /\ retries \in Nat /\ unrecorded \in Nat
    BY DEF TypeInv, Open
  <2>3. inbox[c][r] + Cardinality(Holders(c, r)) + Open(rows[c][r]) <= 1 + retries + unrecorded
    BY DEF Bounded
  <2> QED BY <2>1, <2>2, <2>3
<1> QED BY <1>1, <1>2, <1>3, NextType, NextBounded, PTL DEF Spec

-----------------------------------------------------------------------------
(* OverMeansAnswered *)

\* No worker outlives its claim, and one batch holds every recipient.
InTime == "slow" \notin Faults /\ Cardinality(Recipients) <= Batch

Sends(worker, c) == worker.name = c /\ worker.op \in {"tick", "send"} /\ worker.at # "claim"

\* Only who sends a campaign is at the statements that send it, and a tick that is
\* not at a campaign has none in hand.
SendAt == {"load", "pick", "mail", "sent", "failed", "exhausted", "undelivered", "finish"}
InPlace(worker) ==
  /\ worker.at \notin AtCampaign => worker.name = None
  /\ worker.at \in SendAt \cup {"claim"} => worker.op \in {"tick", "send"}

\* One worker sends a campaign, and nobody else may claim it or give it up.
OneSender(c) ==
  /\ \A v, w \in Sending(c) : v = w
  /\ Sending(c) # {} => \/ campaigns[c].status = "cancelled"
                        \/ campaigns[c].status = "processing" /\ campaigns[c].age # "stale"

Over(c) ==
  campaigns[c].status \in {"sent", "failed"} =>
    /\ \A r \in Recipients : Answered(c, r)
    /\ campaigns[c].status = "sent" => With(c, "sent") = Recipients

\* What the worker that sends c has seen of its rows.
Told(worker, c) ==
  /\ worker.at \in {"pick", "mail", "sent", "failed"} /\ ~worker.failed => SendableTo(c) \subseteq worker.list
  /\ worker.at \in {"exhausted", "undelivered", "finish"} /\ ~worker.failed /\ "outstanding" \notin worker.left =>
       \A r \in Recipients : Answered(c, r)
  /\ worker.at \in {"undelivered", "finish"} /\ "exhausted" \notin worker.left =>
       \A r \in With(c, "failed") : rows[c][r].attempts < MaxAttempts
  /\ worker.at = "finish" /\ "unknown" \notin worker.left => With(c, "delivery_unknown") = {}

Attended(c) == OneSender(c) /\ Over(c) /\ \A w \in Sending(c) : Told(req[w], c)

\* ... until somebody asks for unknown deliveries again.
AnswerInv ==
  /\ TypeInv /\ \A w \in Workers : InPlace(req[w])
  /\ retries = 0 => /\ \A w \in Workers : req[w].at \notin {"requeue", "reopen"}
                    /\ \A c \in Names : Attended(c)

LEMMA Changed ==
  ASSUME TypeInv, NEW w \in Workers, NEW n, Becomes(w, n)
  PROVE  req'[w] = n /\ \A v \in Workers : v # w => req'[v] = req[v]
BY DEF TypeInv, Becomes

\* What Attended says of c depends on the rows of c, its campaign and who sends it.
LEMMA SameAttended ==
  ASSUME TypeInv, NEW c \in Names, Attended(c), NEW w \in Workers, NEW n, Becomes(w, n),
         campaigns'[c] = campaigns[c], rows'[c] = rows[c],
         Sends(n, c) => Sends(req[w], c) /\ Told(n, c)
  PROVE  Attended(c)'
<1>1. req'[w] = n /\ \A v \in Workers : v # w => req'[v] = req[v]
  BY Changed
<1>2. Sending(c)' \subseteq Sending(c)
  <2> SUFFICES ASSUME NEW v \in Workers, Sends(req'[v], c) PROVE Sends(req[v], c)
    BY DEF Sending, Sends
  <2> QED BY <1>1
<1>4. \A v \in Sending(c)' : Told(req'[v], c)
  <2> SUFFICES ASSUME NEW v \in Workers, Sends(req'[v], c) PROVE Told(req'[v], c)
    BY DEF Sending, Sends
  <2>1. CASE v = w
    BY <1>1, <2>1
  <2>2. CASE v # w
    <3>1. v \in Sending(c)
      BY <1>1, <2>2 DEF Sending, Sends
    <3> QED BY <1>1, <2>2, <3>1 DEF Attended
  <2> QED BY <2>1, <2>2
<1>5. OneSender(c)'
  BY <1>2 DEF Attended, OneSender
<1>6. Over(c)'
  BY DEF Attended, Over, Answered, With
<1>7. \A v \in Sending(c)' : Told(req[v], c)'
  <2> SUFFICES ASSUME NEW v \in Sending(c)' PROVE Told(req[v], c)'
    OBVIOUS
  <2>1. Told(req'[v], c)
    BY <1>4
  <2> QED BY <2>1 DEF Told, SendableTo, Sendable, Answered, With
<1> QED BY <1>5, <1>6, <1>7 DEF Attended

\* Nobody sends a campaign that is open or that has been given up.
LEMMA Unsent ==
  ASSUME NEW c, OneSender(c),
         campaigns[c].status \notin {"cancelled", "processing"} \/ Abandoned(c)
  PROVE  Sending(c) = {}
BY DEF OneSender, Abandoned

LEMMA UnsentStays ==
  ASSUME TypeInv, NEW c, Sending(c) = {}, NEW w \in Workers, NEW n, Becomes(w, n), ~Sends(n, c)
  PROVE  Sending(c)' = {}
<1>1. req'[w] = n /\ \A v \in Workers : v # w => req'[v] = req[v]
  BY Changed
<1> SUFFICES ASSUME NEW v \in Workers, Sends(req'[v], c) PROVE FALSE
  BY DEF Sending, Sends
<1> QED BY <1>1 DEF Sending, Sends

LEMMA UnsentAttended ==
  ASSUME NEW c, Sending(c)' = {}, campaigns'[c].status \notin {"sent", "failed"}
  PROVE  Attended(c)'
BY DEF Attended, OneSender, Over

-----------------------------------------------------------------------------
(* ... step by step *)

LEMMA IdleInPlace == InPlace(Idle)
BY DEF InPlace, Idle, SendAt, AtCampaign

\* What is left to show of a step, next to the types.
LEMMA StepAnswer ==
  ASSUME AnswerInv, TypeInv', NEW w \in Workers, NEW n, Becomes(w, n), InPlace(n),
         retries' = retries, retries = 0 => n.at \notin {"requeue", "reopen"},
         retries = 0 => \A c \in Names : Attended(c)'
  PROVE  AnswerInv'
<1>1. req'[w] = n /\ \A v \in Workers : v # w => req'[v] = req[v]
  BY Changed DEF AnswerInv
<1>2. \A v \in Workers : InPlace(req'[v])
  BY <1>1 DEF AnswerInv
<1>3. retries = 0 => \A v \in Workers : req'[v].at \notin {"requeue", "reopen"}
  BY <1>1 DEF AnswerInv
<1> QED BY <1>2, <1>3 DEF AnswerInv

LEMMA PlainAnswer ==
  ASSUME AnswerInv, TypeInv', NEW w \in Workers, NEW n, Becomes(w, n), InPlace(n),
         UNCHANGED <<campaigns, rows, retries>>, n.at \notin {"requeue", "reopen"},
         \A c \in Names : Sends(n, c) => /\ Sends(req[w], c)
                                         /\ Told(req[w], c) => Told(n, c)
  PROVE  AnswerInv'
<1>1. ASSUME retries = 0, NEW c \in Names PROVE Attended(c)'
  <2>1. Attended(c) /\ TypeInv
    BY <1>1 DEF AnswerInv
  <2>2. Sends(n, c) => Told(n, c)
    BY <2>1 DEF Attended, Sending, Sends
  <2> QED BY <2>1, <2>2, SameAttended
<1> QED BY <1>1, StepAnswer

\* A worker that is sending nothing.
LEMMA AwayAnswer ==
  ASSUME AnswerInv, TypeInv', NEW w \in Workers, NEW n, Becomes(w, n), InPlace(n),
         UNCHANGED <<campaigns, rows, retries>>, n.at \notin {"requeue", "reopen"},
         n.name = None \/ n.at = "claim" \/ n.op \notin {"tick", "send"}
  PROVE  AnswerInv'
<1>1. \A c \in Names : ~Sends(n, c)
  BY NoneAssumption DEF Sends
<1> QED BY <1>1, PlainAnswer

LEMMA RespondAnswer ==
  ASSUME AnswerInv, TypeInv', NEW w \in Workers, Respond(w), UNCHANGED <<campaigns, rows, retries>>
  PROVE  AnswerInv'
<1>1. Idle.name = None /\ Idle.at = "idle"
  BY DEF Idle
<1> QED BY <1>1, IdleInPlace, AwayAnswer DEF Respond

LEMMA BeginAnswer ==
  ASSUME AnswerInv, TypeInv', NEW w \in Workers,
         BeginTick(w) \/ ListDue(w) \/ NextDue(w)
           \/ \E c \in Names : BeginSend(w, c) \/ BeginCancel(w, c)
  PROVE  AnswerInv'
<1> USE DEF counters
<1>1. PICK h : h = req[w]
  OBVIOUS
<1>2. h \in Request /\ InPlace(h)
  BY <1>1 DEF AnswerInv, TypeInv, Worker
<1>3. CASE BeginTick(w)
  <2>1. PICK n : n = [Idle EXCEPT !.op = "tick", !.at = "unknown"]
    OBVIOUS
  <2>2. n.op = "tick" /\ n.at = "unknown" /\ n.name = None
    BY <2>1 DEF Idle
  <2>3. InPlace(n)
    BY <2>2 DEF InPlace, AtCampaign, SendAt
  <2>4. Becomes(w, n) /\ UNCHANGED <<campaigns, rows, retries>>
    BY <1>3, <2>1 DEF BeginTick
  <2> QED BY <2>2, <2>3, <2>4, AwayAnswer
<1>4. CASE ListDue(w)
  <2>1. PICK n : n = [h EXCEPT !.at = "next", !.todo = {c \in Names : Due(c)}]
    OBVIOUS
  <2>2. h.at = "due"
    BY <1>1, <1>4 DEF ListDue
  <2>3. n.at = "next" /\ n.name = None
    BY <1>2, <2>1, <2>2 DEF Request, InPlace, AtCampaign
  <2>4. InPlace(n)
    BY <2>3 DEF InPlace, AtCampaign, SendAt
  <2>5. Becomes(w, n) /\ UNCHANGED <<campaigns, rows, retries>>
    BY <1>1, <1>4, <2>1 DEF ListDue
  <2> QED BY <2>3, <2>4, <2>5, AwayAnswer
<1>5. CASE NextDue(w)
  <2>1. UNCHANGED <<campaigns, rows, retries>>
    BY <1>5 DEF NextDue
  <2>2. CASE Respond(w)
    BY <2>1, <2>2, RespondAnswer
  <2>3. ASSUME NEW c \in h.todo,
               Becomes(w, [Idle EXCEPT !.op = "tick", !.at = "claim", !.todo = h.todo \ {c}, !.name = c])
        PROVE  AnswerInv'
    <3>1. PICK n : n = [Idle EXCEPT !.op = "tick", !.at = "claim", !.todo = h.todo \ {c}, !.name = c]
      OBVIOUS
    <3>2. n.op = "tick" /\ n.at = "claim"
      BY <3>1 DEF Idle
    <3>3. InPlace(n)
      BY <3>2 DEF InPlace, AtCampaign, SendAt
    <3> QED BY <2>1, <2>3, <3>1, <3>2, <3>3, AwayAnswer
  <2> QED BY <1>1, <1>5, <2>2, <2>3 DEF NextDue
<1>6. ASSUME NEW d \in Names, BeginSend(w, d) PROVE AnswerInv'
  <2>1. PICK n : n = [Idle EXCEPT !.op = "send", !.at = "claim", !.name = d]
    OBVIOUS
  <2>2. n.op = "send" /\ n.at = "claim"
    BY <2>1 DEF Idle
  <2>3. InPlace(n)
    BY <2>2 DEF InPlace, AtCampaign, SendAt
  <2>4. Becomes(w, n) /\ UNCHANGED <<campaigns, rows, retries>>
    BY <1>6, <2>1 DEF BeginSend
  <2> QED BY <2>2, <2>3, <2>4, AwayAnswer
<1>7. ASSUME NEW d \in Names, BeginCancel(w, d) PROVE AnswerInv'
  <2>1. PICK n : n = [Idle EXCEPT !.op = "cancel", !.at = "cancel", !.name = d]
    OBVIOUS
  <2>2. n.op = "cancel" /\ n.at = "cancel"
    BY <2>1 DEF Idle
  <2>3. InPlace(n)
    BY <2>2 DEF InPlace, AtCampaign, SendAt
  <2>4. Becomes(w, n) /\ UNCHANGED <<campaigns, rows, retries>>
    BY <1>7, <2>1 DEF BeginCancel
  <2> QED BY <2>2, <2>3, <2>4, AwayAnswer
<1> QED BY <1>3, <1>4, <1>5, <1>6, <1>7

\* One batch takes everybody that can be mailed.
LEMMA WholeBatch ==
  ASSUME InTime, NEW c, NEW list \in SUBSET SendableTo(c),
         Cardinality(list) = Batch \/ (Cardinality(list) < Batch /\ list = SendableTo(c))
  PROVE  SendableTo(c) \subseteq list
<1>1. list \subseteq Recipients /\ SendableTo(c) \subseteq Recipients
  BY DEF SendableTo
<1>2. CASE Cardinality(list) = Batch
  <2>1. /\ Cardinality(list) \in Nat /\ Cardinality(Recipients) \in Nat
        /\ Cardinality(list) <= Cardinality(Recipients)
        /\ Cardinality(list) = Cardinality(Recipients) => list = Recipients
    BY <1>1, FiniteAssumption, FS_Subset, FS_CardinalityType
  <2>2. list = Recipients
    BY <1>2, <2>1, NumbersAssumption DEF InTime
  <2> QED BY <1>1, <2>2
<1> QED BY <1>2

LEMMA LoadAnswer ==
  ASSUME AnswerInv, TypeInv', InTime, NEW w \in Workers, Load(w)
  PROVE  AnswerInv'
<1>1. PICK h : h = req[w]
  OBVIOUS
<1>2. h \in Request /\ InPlace(h) /\ h.at = "load"
  BY <1>1 DEF AnswerInv, TypeInv, Worker, Load
<1>3. PICK list \in SUBSET SendableTo(h.name) :
        /\ Cardinality(list) = Batch \/ (Cardinality(list) < Batch /\ list = SendableTo(h.name))
        /\ Becomes(w, [h EXCEPT !.at = "pick", !.list = list])
  BY <1>1 DEF Load
<1>4. PICK n : n = [h EXCEPT !.at = "pick", !.list = list]
  OBVIOUS
<1>5. n.at = "pick" /\ n.op = h.op /\ n.name = h.name /\ n.list = list
  BY <1>2, <1>4 DEF Request
<1>6. InPlace(n)
  BY <1>2, <1>5 DEF InPlace, AtCampaign, SendAt
<1>7. SendableTo(h.name) \subseteq list
  BY <1>3, WholeBatch
<1>8. \A c \in Names : Sends(n, c) => Sends(h, c) /\ Told(n, c)
  BY <1>2, <1>5, <1>7 DEF Sends, Told
<1> QED BY <1>1, <1>3, <1>4, <1>5, <1>6, <1>8, PlainAnswer DEF Load, counters

\* The one who sends a campaign.
LEMMA Sender ==
  ASSUME AnswerInv, retries = 0, NEW w \in Workers, NEW h, h = req[w], h.at \in SendAt
  PROVE  /\ h.name \in Names /\ Sends(h, h.name) /\ Told(h, h.name)
         /\ campaigns[h.name].status \in {"cancelled", "processing"}
         /\ \A v \in Workers : Sends(req[v], h.name) => v = w
<1>1. h \in Worker /\ InPlace(h)
  BY DEF AnswerInv, TypeInv
<1>2. h.name \in Names /\ Sends(h, h.name)
  BY <1>1 DEF Worker, WellPlaced, InPlace, AtCampaign, SendAt, Sends
<1>3. Attended(h.name) /\ w \in Sending(h.name)
  BY <1>2 DEF AnswerInv, Sending, Sends
<1> QED BY <1>2, <1>3 DEF Attended, OneSender, Sending, Sends

\* It alone changes rows of its campaign.
LEMMA OwnRowsAnswer ==
  ASSUME AnswerInv, TypeInv', NEW w \in Workers, NEW h, h = req[w], h.at \in SendAt,
         NEW n, Becomes(w, n), InPlace(n), n.name = h.name, n.op = h.op, n.at \in SendAt,
         UNCHANGED <<campaigns, retries>>,
         \A c \in Names : c # h.name => rows'[c] = rows[c],
         Told(h, h.name) => Told(n, h.name)'
  PROVE  AnswerInv'
<1>1. ASSUME retries = 0, NEW c \in Names, c # h.name PROVE Attended(c)'
  <2>1. Attended(c) /\ TypeInv
    BY <1>1 DEF AnswerInv
  <2>2. ~Sends(n, c)
    BY <1>1 DEF Sends
  <2> QED BY <1>1, <2>1, <2>2, SameAttended
<1>2. ASSUME retries = 0 PROVE Attended(h.name)'
  <2>0. /\ h.name \in Names /\ Told(h, h.name) /\ Attended(h.name)
        /\ campaigns[h.name].status \in {"cancelled", "processing"}
        /\ \A v \in Workers : Sends(req[v], h.name) => v = w
    BY <1>2, Sender DEF AnswerInv
  <2>1. req'[w] = n /\ \A v \in Workers : v # w => req'[v] = req[v]
    BY Changed DEF AnswerInv
  <2>2. \A v \in Sending(h.name)' : v = w
    BY <2>0, <2>1 DEF Sending, Sends
  <2>3. w \in Sending(h.name)
    BY <1>2, Sender DEF Sending, Sends
  <2>4. OneSender(h.name)'
    <3>1. \/ campaigns[h.name].status = "cancelled"
          \/ campaigns[h.name].status = "processing" /\ campaigns[h.name].age # "stale"
      BY <2>0, <2>3 DEF Attended, OneSender
    <3> QED BY <2>2, <3>1 DEF OneSender
  <2>5. Over(h.name)'
    BY <2>0 DEF Over
  <2>6. Told(n, h.name)'
    BY <2>0
  <2>7. \A v \in Sending(h.name)' : Told(req[v], h.name)'
    <3> SUFFICES ASSUME NEW v \in Sending(h.name)' PROVE Told(req[v], h.name)'
      OBVIOUS
    <3>1. req'[v] = n
      BY <2>1, <2>2
    <3> QED BY <2>6, <3>1 DEF Told
  <2> QED BY <2>4, <2>5, <2>7 DEF Attended
<1>3. n.at \notin {"requeue", "reopen"}
  BY DEF SendAt
<1> QED BY <1>1, <1>2, <1>3, StepAnswer

LEMMA ClaimRecipientAnswer ==
  ASSUME AnswerInv, TypeInv', NEW w \in Workers, NEW r \in Recipients, ClaimRecipient(w, r)
  PROVE  AnswerInv'
<1> USE DEF counters
<1>1. PICK h : h = req[w]
  OBVIOUS
<1>2. /\ h \in Request /\ InPlace(h) /\ h.at = "pick" /\ h.name \in Names /\ TypeInv
      /\ rows[h.name][r] \in Row
  BY <1>1 DEF AnswerInv, TypeInv, Worker, WellPlaced, AtCampaign, ClaimRecipient
<1>3. CASE Sendable(rows[h.name][r])
  <2>1. PICK n : n = [h EXCEPT !.at = "mail", !.list = @ \ {r}, !.to = r]
    OBVIOUS
  <2>2. /\ n.at = "mail" /\ n.op = h.op /\ n.name = h.name /\ n.list = h.list \ {r}
        /\ n.failed = h.failed
    BY <1>2, <2>1 DEF Request
  <2>3. InPlace(n)
    BY <1>2, <2>2 DEF InPlace, AtCampaign, SendAt
  <2>4. rows' = [rows EXCEPT ![h.name][r] = [status |-> "sending", attempts |-> @.attempts + 1]]
    BY <1>1, <1>3 DEF ClaimRecipient
  <2>5. /\ \A c \in Names : c # h.name => rows'[c] = rows[c]
        /\ \A s \in Recipients : s # r => rows'[h.name][s] = rows[h.name][s]
        /\ rows'[h.name][r].status = "sending"
    BY <1>2, <2>4 DEF TypeInv
  <2>6. Told(h, h.name) => Told(n, h.name)'
    <3>1. Told(h, h.name) /\ ~n.failed => SendableTo(h.name) \subseteq h.list
      BY <1>2, <2>2 DEF Told
    <3>2. SendableTo(h.name)' \subseteq SendableTo(h.name) \ {r}
      BY <2>5 DEF SendableTo, Sendable
    <3>3. Told(h, h.name) /\ ~n.failed => SendableTo(h.name)' \subseteq n.list
      BY <2>2, <3>1, <3>2
    <3> QED BY <2>2, <3>3 DEF Told
  <2>7. Becomes(w, n) /\ UNCHANGED <<campaigns, retries>>
    BY <1>1, <1>3, <2>1 DEF ClaimRecipient
  <2>8. h.at \in SendAt /\ n.at \in SendAt
    BY <1>2, <2>2 DEF SendAt
  <2> QED BY <1>1, <2>2, <2>3, <2>5, <2>6, <2>7, <2>8, OwnRowsAnswer
<1>4. CASE ~Sendable(rows[h.name][r])
  <2>1. PICK n : n = [h EXCEPT !.list = @ \ {r}]
    OBVIOUS
  <2>2. /\ n.at = "pick" /\ n.op = h.op /\ n.name = h.name /\ n.list = h.list \ {r}
        /\ n.failed = h.failed
    BY <1>2, <2>1 DEF Request
  <2>3. InPlace(n)
    BY <1>2, <2>2 DEF InPlace, AtCampaign, SendAt
  <2>4. \A c \in Names : Sends(n, c) => Sends(h, c) /\ (Told(h, c) => Told(n, c))
    <3> SUFFICES ASSUME NEW c \in Names, Sends(n, c) PROVE Sends(h, c) /\ (Told(h, c) => Told(n, c))
      OBVIOUS
    <3>1. c = h.name /\ Sends(h, c)
      BY <1>2, <2>2 DEF Sends
    <3>2. r \notin SendableTo(c)
      BY <1>4, <3>1 DEF SendableTo
    <3> QED BY <1>2, <2>2, <3>1, <3>2 DEF Told
  <2>5. Becomes(w, n) /\ UNCHANGED <<campaigns, rows, retries>>
    BY <1>1, <1>4, <2>1 DEF ClaimRecipient
  <2> QED BY <1>1, <2>2, <2>3, <2>4, <2>5, PlainAnswer
<1> QED BY <1>3, <1>4

LEMMA MailAnswer ==
  ASSUME AnswerInv, TypeInv', NEW w \in Workers, Mail(w) \/ MailUnanswered(w) \/ RecordFails(w)
  PROVE  AnswerInv'
<1> USE DEF counters
<1>1. PICK h : h = req[w]
  OBVIOUS
<1>2. h \in Request /\ InPlace(h) /\ h.at \in {"mail", "sent"}
  BY <1>1 DEF AnswerInv, TypeInv, Worker, Mail, MailUnanswered, RecordFails
<1>3. PICK at \in {"sent", "failed"} : GoTo(w, at)
  BY DEF Mail, MailUnanswered, RecordFails
<1>4. PICK n : n = [h EXCEPT !.at = at]
  OBVIOUS
<1>5. n.at = at /\ n.op = h.op /\ n.name = h.name /\ n.list = h.list /\ n.failed = h.failed
  BY <1>2, <1>4 DEF Request
<1>6. InPlace(n)
  BY <1>2, <1>3, <1>5 DEF InPlace, AtCampaign, SendAt
<1>7. \A c \in Names : Sends(n, c) => Sends(h, c) /\ (Told(h, c) => Told(n, c))
  BY <1>2, <1>3, <1>5 DEF Sends, Told
<1>8. Becomes(w, n) /\ UNCHANGED <<campaigns, rows, retries>>
  BY <1>1, <1>3, <1>4 DEF GoTo, Mail, MailUnanswered, RecordFails
<1> QED BY <1>1, <1>3, <1>5, <1>6, <1>7, <1>8, PlainAnswer

LEMMA RecordMailAnswer ==
  ASSUME AnswerInv, TypeInv', NEW w \in Workers, RecordMail(w)
  PROVE  AnswerInv'
<1> USE DEF counters
<1>1. PICK h : h = req[w]
  OBVIOUS
<1>2. /\ h \in Request /\ InPlace(h) /\ h.at \in {"sent", "failed"}
      /\ h.name \in Names /\ h.to \in Recipients /\ TypeInv
  BY <1>1 DEF AnswerInv, TypeInv, Worker, WellPlaced, AtCampaign, RecordMail
<1>3. PICK n : n = [h EXCEPT !.at = "pick", !.to = None, !.failed = @ \/ h.at = "failed"]
  OBVIOUS
<1>4. /\ n.at = "pick" /\ n.op = h.op /\ n.name = h.name /\ n.list = h.list
      /\ ~n.failed => ~h.failed /\ h.at = "sent"
  BY <1>2, <1>3 DEF Request
<1>5. InPlace(n)
  BY <1>2, <1>4 DEF InPlace, AtCampaign, SendAt
<1>6. rows' = [rows EXCEPT ![h.name][h.to].status = h.at]
  BY <1>1 DEF RecordMail
<1>7. /\ \A c \in Names : c # h.name => rows'[c] = rows[c]
      /\ \A s \in Recipients : s # h.to => rows'[h.name][s] = rows[h.name][s]
      /\ rows'[h.name][h.to].status = h.at
  BY <1>2, <1>6 DEF TypeInv, Row
<1>8. Told(h, h.name) => Told(n, h.name)'
  <2>1. Told(h, h.name) /\ ~n.failed => SendableTo(h.name) \subseteq h.list
    BY <1>2, <1>4 DEF Told
  <2>2. ~n.failed => SendableTo(h.name)' \subseteq SendableTo(h.name)
    BY <1>4, <1>7 DEF SendableTo, Sendable
  <2> QED BY <1>4, <2>1, <2>2 DEF Told
<1>9. /\ Becomes(w, n) /\ UNCHANGED <<campaigns, retries>>
      /\ h.at \in SendAt /\ n.at \in SendAt
  BY <1>1, <1>2, <1>3, <1>4 DEF RecordMail, SendAt
<1> QED BY <1>1, <1>4, <1>5, <1>7, <1>8, <1>9, OwnRowsAnswer

LEMMA CountAnswer ==
  ASSUME AnswerInv, TypeInv', NEW w \in Workers,
         CountOutstanding(w) \/ CountExhausted(w) \/ CountUnknown(w)
  PROVE  AnswerInv'
<1> USE DEF counters
<1>1. PICK h : h = req[w]
  OBVIOUS
<1>2. /\ h \in Request /\ InPlace(h) /\ h.at \in {"pick", "exhausted", "undelivered"}
      /\ h.name \in Names /\ TypeInv
  BY <1>1 DEF AnswerInv, TypeInv, Worker, WellPlaced, AtCampaign, CountOutstanding, CountExhausted,
     CountUnknown
<1>3. ASSUME NEW at \in {"exhausted", "undelivered", "finish"}, NEW left, Counted(w, at, left),
             UNCHANGED <<campaigns, rows, retries>>,
             NEW n, n = [h EXCEPT !.at = at, !.left = @ \cup left],
             Told(h, h.name) => Told(n, h.name)
      PROVE  AnswerInv'
  <2>1. n.at = at /\ n.op = h.op /\ n.name = h.name
    BY <1>2, <1>3 DEF Request
  <2>2. InPlace(n)
    BY <1>2, <1>3, <2>1 DEF InPlace, AtCampaign, SendAt
  <2>3. \A c \in Names : Sends(n, c) => Sends(h, c) /\ (Told(h, c) => Told(n, c))
    BY <1>2, <1>3, <2>1 DEF Sends
  <2>4. Becomes(w, n)
    BY <1>1, <1>3 DEF Counted
  <2> QED BY <1>1, <1>3, <2>1, <2>2, <2>3, <2>4, PlainAnswer
<1>4. ASSUME NEW r \in Recipients, ~Sendable(rows[h.name][r]),
             rows[h.name][r].status \notin {"pending", "sending"}
      PROVE  Answered(h.name, r)
  <2>1. rows[h.name][r] \in Row
    BY <1>2 DEF TypeInv
  <2> QED BY <1>4, <2>1, NumbersAssumption DEF Sendable, Answered, Row
<1>5. CASE CountOutstanding(w)
  <2>1. PICK left : left = IF With(h.name, "pending") \cup With(h.name, "sending") = {}
                             THEN {} ELSE {"outstanding"}
    OBVIOUS
  <2>2. Counted(w, "exhausted", left) /\ h.at = "pick" /\ h.list = {}
    BY <1>1, <1>5, <2>1 DEF CountOutstanding
  <2>3. PICK n : n = [h EXCEPT !.at = "exhausted", !.left = @ \cup left]
    OBVIOUS
  <2>4. n.at = "exhausted" /\ n.failed = h.failed /\ n.left = h.left \cup left
    BY <1>2, <2>3 DEF Request
  <2>5. Told(h, h.name) => Told(n, h.name)
    <3>1. Told(h, h.name) /\ ~n.failed => \A r \in Recipients : ~Sendable(rows[h.name][r])
      BY <2>2, <2>4 DEF Told, SendableTo
    <3>2. "outstanding" \notin n.left =>
            \A r \in Recipients : rows[h.name][r].status \notin {"pending", "sending"}
      BY <2>1, <2>4 DEF With
    <3>3. Told(h, h.name) /\ ~n.failed /\ "outstanding" \notin n.left =>
            \A r \in Recipients : Answered(h.name, r)
      BY <1>4, <3>1, <3>2, SMTT(40)
    <3> QED BY <2>4, <3>3 DEF Told
  <2> QED BY <1>3, <1>5, <2>2, <2>3, <2>5 DEF CountOutstanding
<1>6. CASE CountExhausted(w)
  <2>1. PICK left : left = IF \E r \in With(h.name, "failed") : rows[h.name][r].attempts >= MaxAttempts
                             THEN {"exhausted"} ELSE {}
    OBVIOUS
  <2>2. Counted(w, "undelivered", left) /\ h.at = "exhausted"
    BY <1>1, <1>6, <2>1 DEF CountExhausted
  <2>3. PICK n : n = [h EXCEPT !.at = "undelivered", !.left = @ \cup left]
    OBVIOUS
  <2>4. n.at = "undelivered" /\ n.failed = h.failed /\ n.left = h.left \cup left
    BY <1>2, <2>3 DEF Request
  <2>5. "exhausted" \notin n.left => \A r \in With(h.name, "failed") : rows[h.name][r].attempts < MaxAttempts
    <3>1. \A r \in Recipients : rows[h.name][r].attempts \in Nat
      BY <1>2, NumbersAssumption DEF TypeInv, Row
    <3>2. MaxAttempts \in Nat
      BY NumbersAssumption
    <3> QED BY <2>1, <2>4, <3>1, <3>2 DEF With
  <2>6. Told(h, h.name) => Told(n, h.name)
    BY <2>2, <2>4, <2>5 DEF Told
  <2> QED BY <1>3, <1>6, <2>2, <2>3, <2>6 DEF CountExhausted
<1>7. CASE CountUnknown(w)
  <2>1. PICK left : left = IF With(h.name, "delivery_unknown") = {} THEN {} ELSE {"unknown"}
    OBVIOUS
  <2>2. Counted(w, "finish", left) /\ h.at = "undelivered"
    BY <1>1, <1>7, <2>1 DEF CountUnknown
  <2>3. PICK n : n = [h EXCEPT !.at = "finish", !.left = @ \cup left]
    OBVIOUS
  <2>4. n.at = "finish" /\ n.failed = h.failed /\ n.left = h.left \cup left
    BY <1>2, <2>3 DEF Request
  <2>5. "unknown" \notin n.left => With(h.name, "delivery_unknown") = {}
    BY <2>1, <2>4
  <2>6. Told(h, h.name) => Told(n, h.name)
    BY <2>2, <2>4, <2>5 DEF Told
  <2> QED BY <1>3, <1>7, <2>2, <2>3, <2>6 DEF CountUnknown
<1> QED BY <1>5, <1>6, <1>7

\* A worker that ends leaves its campaign to nobody.
LEMMA CrashAnswer ==
  ASSUME AnswerInv, TypeInv', NEW w \in Workers, Crash(w)
  PROVE  AnswerInv'
BY RespondAnswer DEF Crash

\* A claim is granted where nobody sends the campaign.
LEMMA ClaimAnswer ==
  ASSUME AnswerInv, TypeInv', NEW w \in Workers, Claim(w)
  PROVE  AnswerInv'
<1> USE DEF counters
<1>1. PICK h : h = req[w]
  OBVIOUS
<1>2. /\ h \in Request /\ InPlace(h) /\ h.at = "claim" /\ h.name \in Names /\ TypeInv
  BY <1>1 DEF AnswerInv, TypeInv, Worker, WellPlaced, AtCampaign, Claim
<1>3. CASE campaigns[h.name].status \in {"draft", "scheduled", "partial"}
  <2>1. PICK n : n = [h EXCEPT !.at = "load"]
    OBVIOUS
  <2>2. n.at = "load" /\ n.op = h.op /\ n.name = h.name
    BY <1>2, <2>1 DEF Request
  <2>3. InPlace(n)
    BY <1>2, <2>2 DEF InPlace, AtCampaign, SendAt
  <2>4. Becomes(w, n) /\ SetStatus(h.name, "processing") /\ UNCHANGED <<rows, retries>>
    BY <1>1, <1>3, <2>1 DEF Claim, GoTo
  <2>5. /\ campaigns'[h.name] = [status |-> "processing", age |-> "new"]
        /\ \A c \in Names : c # h.name => campaigns'[c] = campaigns[c]
    BY <1>2, <2>4 DEF SetStatus, TypeInv
  <2>6. ASSUME retries = 0, NEW c \in Names PROVE Attended(c)'
    <3>1. Attended(c)
      BY <2>6 DEF AnswerInv
    <3>2. CASE c # h.name
      <4>1. ~Sends(n, c)
        BY <2>2, <3>2 DEF Sends
      <4> QED BY <1>2, <2>4, <2>5, <3>1, <3>2, <4>1, SameAttended
    <3>3. CASE c = h.name
      <4>1. Sending(c) = {}
        BY <1>3, <3>1, <3>3, Unsent DEF Attended
      <4>2. req'[w] = n /\ \A v \in Workers : v # w => req'[v] = req[v]
        BY <1>2, <2>4, Changed
      <4>3. \A v \in Sending(c)' : v = w
        BY <4>1, <4>2 DEF Sending
      <4>4. OneSender(c)' /\ Over(c)'
        BY <2>5, <3>3, <4>3 DEF OneSender, Over
      <4>5. \A v \in Sending(c)' : Told(req[v], c)'
        BY <2>2, <4>2, <4>3 DEF Told
      <4> QED BY <4>4, <4>5 DEF Attended
    <3> QED BY <3>2, <3>3
  <2> QED BY <2>2, <2>3, <2>4, <2>6, StepAnswer
<1>4. CASE campaigns[h.name].status \notin {"draft", "scheduled", "partial"}
  BY <1>1, <1>4, RespondAnswer DEF Claim
<1> QED BY <1>3, <1>4

\* The campaign is over where everybody got an answer.
LEMMA OutcomeIsRight ==
  ASSUME NEW h, NEW c \in Names, TypeInv, Told(h, c), h.at = "finish"
  PROVE  /\ Outcome(h) \in {"sent", "failed"} => \A r \in Recipients : Answered(c, r)
         /\ Outcome(h) = "sent" => With(c, "sent") = Recipients
<1>1. ASSUME Outcome(h) \in {"sent", "failed"}
      PROVE  ~h.failed /\ "outstanding" \notin h.left /\ "unknown" \notin h.left
  BY <1>1 DEF Outcome
<1>2. Outcome(h) = "sent" => "exhausted" \notin h.left
  BY DEF Outcome
<1>3. Outcome(h) \in {"sent", "failed"} => \A r \in Recipients : Answered(c, r)
  BY <1>1 DEF Told
<1>4. ASSUME Outcome(h) = "sent", NEW r \in Recipients PROVE rows[c][r].status = "sent"
  <2>1. Answered(c, r) /\ r \notin With(c, "delivery_unknown")
    BY <1>1, <1>3, <1>4 DEF Told
  <2>2. r \in With(c, "failed") => rows[c][r].attempts < MaxAttempts
    BY <1>2, <1>4 DEF Told
  <2> QED BY <2>1, <2>2, NumbersAssumption DEF Answered, With
<1> QED BY <1>3, <1>4 DEF With

LEMMA FinishAnswer ==
  ASSUME AnswerInv, TypeInv', NEW w \in Workers, Finish(w)
  PROVE  AnswerInv'
<1> USE DEF counters
<1>1. PICK h : h = req[w]
  OBVIOUS
<1>2. /\ h \in Request /\ InPlace(h) /\ h.at = "finish" /\ h.name \in Names /\ TypeInv
      /\ h.at \in SendAt
  BY <1>1 DEF AnswerInv, TypeInv, Worker, WellPlaced, AtCampaign, SendAt, Finish
<1>3. /\ SetStatus(h.name, Outcome(h)) /\ UNCHANGED <<rows, retries>>
      /\ campaigns'[h.name].status = Outcome(h)
      /\ \A c \in Names : c # h.name => campaigns'[c] = campaigns[c]
  BY <1>1, <1>2 DEF Finish, SetStatus, TypeInv
<1>4. PICK n : Becomes(w, n) /\ InPlace(n) /\ n.at \in {"next", "idle"} /\ n.name = None
  <2>1. CASE h.op = "tick"
    <3>1. PICK n : n = [Idle EXCEPT !.op = "tick", !.at = "next", !.todo = h.todo]
      OBVIOUS
    <3>2. n.at = "next" /\ n.name = None
      BY <3>1 DEF Idle
    <3>3. InPlace(n)
      BY <3>2 DEF InPlace, AtCampaign, SendAt
    <3> QED BY <1>1, <2>1, <3>1, <3>2, <3>3 DEF Finish
  <2>2. CASE h.op # "tick"
    <3>1. Idle.at = "idle" /\ Idle.name = None
      BY DEF Idle
    <3> QED BY <1>1, <2>2, <3>1, IdleInPlace DEF Finish, Respond
  <2> QED BY <2>1, <2>2
<1>5. ASSUME retries = 0, NEW c \in Names PROVE Attended(c)'
  <2>1. Attended(c) /\ ~Sends(n, c)
    BY <1>4, <1>5, NoneAssumption DEF AnswerInv, Sends
  <2>2. CASE c # h.name
    BY <1>2, <1>3, <1>4, <2>1, <2>2, SameAttended
  <2>3. CASE c = h.name
    <3>1. Told(h, c) /\ \A v \in Workers : Sends(req[v], c) => v = w
      BY <1>1, <1>2, <1>5, <2>3, Sender
    <3>2. req'[w] = n /\ \A v \in Workers : v # w => req'[v] = req[v]
      BY <1>2, <1>4, Changed
    <3>3. Sending(c)' = {}
      <4> SUFFICES ASSUME NEW v \in Workers, Sends(req'[v], c) PROVE FALSE
        BY DEF Sending, Sends
      <4> QED BY <2>1, <3>1, <3>2
    <3>4. OneSender(c)'
      BY <3>3 DEF OneSender
    <3>5. Over(c)'
      <4>1. /\ Outcome(h) \in {"sent", "failed"} => \A r \in Recipients : Answered(c, r)
            /\ Outcome(h) = "sent" => With(c, "sent") = Recipients
        BY <1>2, <3>1, OutcomeIsRight
      <4> QED BY <1>3, <2>3, <4>1 DEF Over, Answered, With
    <3> QED BY <3>3, <3>4, <3>5 DEF Attended
  <2> QED BY <2>2, <2>3
<1>6. n.at \notin {"requeue", "reopen"}
  BY <1>4
<1> QED BY <1>3, <1>4, <1>5, <1>6, StepAnswer

LEMMA CancelAnswer ==
  ASSUME AnswerInv, TypeInv', NEW w \in Workers, Cancel(w)
  PROVE  AnswerInv'
<1> USE DEF counters
<1>1. PICK d : d = req[w].name
  OBVIOUS
<1>2. d \in Names /\ TypeInv /\ Becomes(w, Idle) /\ UNCHANGED <<rows, retries>>
  BY <1>1 DEF AnswerInv, TypeInv, Worker, WellPlaced, AtCampaign, Cancel, Respond
<1>3. campaigns'[d].status = "cancelled" /\ \A c \in Names : c # d => campaigns'[c] = campaigns[c]
  BY <1>1, <1>2 DEF Cancel, SetStatus, TypeInv
<1>4. \A c \in Names : ~Sends(Idle, c)
  BY DEF Sends, Idle
<1>5. ASSUME retries = 0, NEW c \in Names PROVE Attended(c)'
  <2>1. Attended(c)
    BY <1>5 DEF AnswerInv
  <2>2. CASE c # d
    BY <1>2, <1>3, <1>4, <2>1, <2>2, SameAttended
  <2>3. CASE c = d
    <3>1. req'[w] = Idle /\ \A v \in Workers : v # w => req'[v] = req[v]
      BY <1>2, Changed
    <3>2. \A v \in Sending(c)' : v \in Sending(c) /\ req'[v] = req[v]
      <4> SUFFICES ASSUME NEW v \in Workers, Sends(req'[v], c) PROVE v \in Sending(c) /\ req'[v] = req[v]
        BY DEF Sending, Sends
      <4>1. v # w
        BY <1>4, <3>1
      <4> QED BY <3>1, <4>1 DEF Sending, Sends
    <3>3. OneSender(c)' /\ Over(c)'
      BY <1>3, <2>1, <2>3, <3>2 DEF Attended, OneSender, Over
    <3>4. \A v \in Sending(c)' : Told(req[v], c)'
      <4> SUFFICES ASSUME NEW v \in Sending(c)' PROVE Told(req[v], c)'
        OBVIOUS
      <4>1. Told(req[v], c) /\ req'[v] = req[v]
        BY <2>1, <3>2 DEF Attended
      <4> QED BY <1>2, <4>1 DEF Told, SendableTo, Sendable, Answered, With
    <3> QED BY <3>3, <3>4 DEF Attended
  <2> QED BY <2>2, <2>3
<1>6. Idle.at = "idle"
  BY DEF Idle
<1> QED BY <1>2, <1>5, <1>6, IdleInPlace, StepAnswer

\* Only a campaign that nobody sends is given up.
LEMMA GiveUpAnswer ==
  ASSUME AnswerInv, TypeInv', NEW w \in Workers, GiveUpMails(w) \/ ReleaseCampaigns(w)
  PROVE  AnswerInv'
<1> USE DEF counters
<1>1. PICK h : h = req[w]
  OBVIOUS
<1>2. /\ h \in Request /\ InPlace(h) /\ h.at \in {"unknown", "release"} /\ h.name = None /\ TypeInv
  BY <1>1 DEF AnswerInv, TypeInv, Worker, InPlace, AtCampaign, GiveUpMails, ReleaseCampaigns
<1>3. PICK n : Becomes(w, n) /\ n.at \in {"release", "due"} /\ n.name = None
  <2>1. CASE GiveUpMails(w)
    <3>1. PICK n : n = [h EXCEPT !.at = "release", !.todo = {c \in Names : Abandoned(c)}]
      OBVIOUS
    <3>2. n.at = "release" /\ n.name = None
      BY <1>2, <3>1 DEF Request
    <3> QED BY <1>1, <2>1, <3>1, <3>2 DEF GiveUpMails
  <2>2. CASE ReleaseCampaigns(w)
    <3>1. PICK n : n = [h EXCEPT !.at = "due"]
      OBVIOUS
    <3>2. n.at = "due" /\ n.name = None
      BY <1>2, <3>1 DEF Request
    <3> QED BY <1>1, <2>2, <3>1, <3>2 DEF ReleaseCampaigns, GoTo
  <2> QED BY <2>1, <2>2
<1>4. InPlace(n) /\ \A c \in Names : ~Sends(n, c)
  BY <1>3, NoneAssumption DEF InPlace, AtCampaign, SendAt, Sends
<1>5. retries' = retries
  BY DEF GiveUpMails, ReleaseCampaigns
<1>6. ASSUME retries = 0, NEW c \in Names PROVE Attended(c)'
  <2>1. Attended(c)
    BY <1>6 DEF AnswerInv
  <2>2. CASE Abandoned(c)
    <3>1. Sending(c)' = {}
      BY <1>2, <1>3, <1>4, <2>1, <2>2, Unsent, UnsentStays DEF Attended
    <3>2. campaigns'[c].status \in {"processing", "partial"}
      <4>1. campaigns[c] \in Campaign /\ campaigns[c].status = "processing"
        BY <1>2, <2>2 DEF TypeInv, Abandoned
      <4> QED BY <4>1 DEF GiveUpMails, ReleaseCampaigns, Campaign
    <3> QED BY <3>1, <3>2, UnsentAttended
  <2>3. CASE ~Abandoned(c)
    <3>1. campaigns'[c] = campaigns[c]
      BY <2>3 DEF GiveUpMails, ReleaseCampaigns
    <3>2. rows'[c] = rows[c]
      <4>1. CASE ReleaseCampaigns(w)
        BY <4>1 DEF ReleaseCampaigns
      <4>2. CASE GiveUpMails(w)
        <5>1. rows'[c] = [r \in Recipients |-> rows[c][r]]
          BY <2>3, <4>2 DEF GiveUpMails
        <5> QED BY <1>2, <5>1 DEF TypeInv
      <4> QED BY <4>1, <4>2
    <3> QED BY <1>2, <1>3, <1>4, <2>1, <3>1, <3>2, SameAttended
  <2> QED BY <2>2, <2>3
<1>7. n.at \notin {"requeue", "reopen"}
  BY <1>3
<1> QED BY <1>3, <1>4, <1>5, <1>6, <1>7, StepAnswer

LEMMA RetryAnswer ==
  ASSUME AnswerInv, TypeInv', NEW w \in Workers,
         (\E c \in Names : BeginRetry(w, c)) \/ Requeue(w) \/ Reopen(w)
  PROVE  AnswerInv'
<1>1. TypeInv /\ retries \in Nat /\ retries' \in Nat
  BY DEF AnswerInv, TypeInv
<1>2. PICK n : Becomes(w, n) /\ InPlace(n)
  <2>1. CASE \E c \in Names : BeginRetry(w, c)
    <3>1. PICK c \in Names : BeginRetry(w, c)
      BY <2>1
    <3>2. PICK n : n = [Idle EXCEPT !.op = "retryUnknown", !.at = "requeue", !.name = c]
      OBVIOUS
    <3>3. n.at = "requeue"
      BY <3>2 DEF Idle
    <3>4. InPlace(n)
      BY <3>3 DEF InPlace, AtCampaign, SendAt
    <3> QED BY <3>1, <3>2, <3>4 DEF BeginRetry
  <2>2. CASE Respond(w)
    BY <2>2, IdleInPlace DEF Respond
  <2>3. CASE GoTo(w, "reopen") /\ Requeue(w)
    <3>1. PICK n : n = [req[w] EXCEPT !.at = "reopen"]
      OBVIOUS
    <3>2. req[w] \in Request
      BY <1>1 DEF TypeInv, Worker
    <3>3. n.at = "reopen"
      BY <3>1, <3>2 DEF Request
    <3>4. InPlace(n)
      BY <3>3 DEF InPlace, AtCampaign, SendAt
    <3> QED BY <2>3, <3>1, <3>4 DEF GoTo
  <2> QED BY <2>1, <2>2, <2>3 DEF Requeue, Reopen
<1>3. \A v \in Workers : InPlace(req'[v])
  BY <1>1, <1>2, Changed DEF AnswerInv
<1>4. retries' # 0
  <2>1. CASE \E c \in Names : BeginRetry(w, c)
    <3>1. retries' = retries + 1
      BY <2>1 DEF BeginRetry
    <3> QED BY <1>1, <3>1
  <2>2. CASE Requeue(w) \/ Reopen(w)
    BY <2>2 DEF Requeue, Reopen, AnswerInv, counters
  <2> QED BY <2>1, <2>2
<1> QED BY <1>3, <1>4 DEF AnswerInv

\* Time passes, and campaigns come.
LEMMA ClockAnswer ==
  ASSUME AnswerInv, TypeInv', InTime, NEW d \in Names,
         Rest(d) \/ GoStale(d) \/ \E status \in {"draft", "scheduled"} : Create(d, status)
  PROVE  AnswerInv'
<1> USE DEF counters
<1>1. TypeInv /\ UNCHANGED <<rows, req, retries>>
  BY DEF AnswerInv, Rest, GoStale, Create
<1>2. \A c \in Names : Sending(c)' = Sending(c)
  BY <1>1 DEF Sending
<1>3. \A c \in Names : c # d => campaigns'[c] = campaigns[c]
  BY <1>1 DEF Rest, GoStale, Create, SetStatus, TypeInv
<1>4. ASSUME retries = 0, NEW c \in Names PROVE Attended(c)'
  <2>1. Attended(c) /\ campaigns[c] \in Campaign
    BY <1>1, <1>4 DEF AnswerInv, TypeInv
  <2>2. \A v \in Sending(c)' : Told(req[v], c)'
    <3> SUFFICES ASSUME NEW v \in Sending(c)' PROVE Told(req[v], c)'
      OBVIOUS
    <3>1. Told(req[v], c)
      BY <1>2, <2>1 DEF Attended
    <3> QED BY <1>1, <3>1 DEF Told, SendableTo, Sendable, Answered, With
  <2>3. OneSender(c)' /\ Over(c)'
    <3>1. CASE c # d
      BY <1>1, <1>2, <1>3, <2>1, <3>1 DEF Attended, OneSender, Over, Answered, With
    <3>2. CASE c = d /\ Rest(d)
      <4>1. campaigns'[c].status = campaigns[c].status /\ campaigns'[c].age = "rested"
        BY <2>1, <1>1, <3>2 DEF Rest, TypeInv, Campaign
      <4> QED BY <1>1, <1>2, <2>1, <4>1 DEF Attended, OneSender, Over, Answered, With
    <3>3. CASE c = d /\ GoStale(d)
      <4>1. Sending(c) = {} /\ campaigns'[c].status = "processing"
        BY <1>1, <2>1, <3>3 DEF GoStale, InTime, TypeInv, Campaign
      <4> QED BY <1>2, <4>1 DEF OneSender, Over
    <3>4. CASE c = d /\ \E status \in {"draft", "scheduled"} : Create(d, status)
      <4>1. Sending(c) = {}
        BY <2>1, <3>4, Unsent DEF Attended, Create
      <4>2. campaigns'[c].status \in {"draft", "scheduled"}
        BY <1>1, <3>4 DEF Create, SetStatus, TypeInv
      <4> QED BY <1>2, <4>1, <4>2 DEF OneSender, Over
    <3> QED BY <3>1, <3>2, <3>3, <3>4
  <2> QED BY <2>2, <2>3 DEF Attended
<1> QED BY <1>1, <1>4 DEF AnswerInv

LEMMA NextAnswer ==
  ASSUME AnswerInv, [Next]_vars, InTime
  PROVE  AnswerInv'
<1>0. TypeInv'
  BY NextType DEF AnswerInv
<1>1. CASE UNCHANGED vars
  <2>1. \A c : Sending(c)' = Sending(c)
    BY <1>1 DEF Sending, vars
  <2>2. ASSUME retries = 0, NEW c \in Names PROVE Attended(c)'
    <3>1. Attended(c)
      BY <2>2 DEF AnswerInv
    <3> QED BY <1>1, <2>1, <3>1 DEF vars, Attended, OneSender, Over, Told, SendableTo, Sendable, Answered, With
  <2> QED BY <1>0, <1>1, <2>2 DEF AnswerInv, vars
<1>2. ASSUME NEW w \in Workers, Begin(w) PROVE AnswerInv'
  BY <1>0, <1>2, BeginAnswer, RetryAnswer DEF Begin
<1>3. ASSUME NEW w \in Workers, Continue(w) PROVE AnswerInv'
  BY <1>0, <1>3, BeginAnswer, GiveUpAnswer, ClaimAnswer, LoadAnswer, ClaimRecipientAnswer, MailAnswer,
     RecordMailAnswer, CountAnswer, FinishAnswer, CancelAnswer, RetryAnswer DEF Continue
<1>4. ASSUME NEW w \in Workers, MailUnanswered(w) \/ RecordFails(w) \/ Crash(w) PROVE AnswerInv'
  BY <1>0, <1>4, MailAnswer, CrashAnswer
<1>5. ASSUME NEW c \in Names,
             Rest(c) \/ GoStale(c) \/ \E status \in {"draft", "scheduled"} : Create(c, status)
      PROVE  AnswerInv'
  BY <1>0, <1>5, ClockAnswer
<1> QED BY <1>1, <1>2, <1>3, <1>4, <1>5 DEF Next

LEMMA InitAnswer == Init => AnswerInv
<1> SUFFICES ASSUME Init PROVE AnswerInv
  OBVIOUS
<1>1. TypeInv /\ \A w \in Workers : req[w] = Idle
  BY InitType DEF Init
<1>2. Idle.at = "idle" /\ Idle.op = "idle"
  BY DEF Idle
<1>3. \A c \in Names : Sending(c) = {} /\ campaigns[c].status = "none"
  BY <1>1, <1>2 DEF Init, Sending
<1>4. \A c \in Names : Attended(c)
  BY <1>3 DEF Attended, OneSender, Over
<1> QED BY <1>1, <1>2, <1>4, IdleInPlace DEF AnswerInv

\* A campaign that is sent or failed has an answer for each of its recipients, however
\* many workers tick, send, cancel and stop, provided that no worker outlives its 15
\* minutes and that a batch has room for every recipient.
THEOREM OverIsAnswered == ASSUME InTime PROVE Spec => []OverMeansAnswered
<1>1. AnswerInv /\ [Next]_vars => AnswerInv'
  BY NextAnswer
<1>2. AnswerInv => OverMeansAnswered
  BY DEF AnswerInv, Attended, Over, OverMeansAnswered
<1> QED BY <1>1, <1>2, InitAnswer, PTL DEF Spec

===============================================================================
