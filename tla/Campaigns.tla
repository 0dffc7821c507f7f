------------------------------ MODULE Campaigns -------------------------------
(***************************************************************************)
(* E-mail campaigns of the recruiting service: the scheduler and the       *)
(* people who send them, and what they leave for each other in the tables  *)
(* email_campaigns and email_campaign_recipients (apps/recruit-api:        *)
(* recruitment-ops.service.ts, index.ts).                                  *)
(*                                                                         *)
(* Workers stop at every await.  The mail server is external: inbox is     *)
(* what it delivered.  Templates, subjects and the organization are left   *)
(* out, and so is merging candidates, which also writes to the recipients; *)
(* a recipient stands for its row in each campaign.                        *)
(***************************************************************************)
EXTENDS Integers, FiniteSets

CONSTANTS
  Workers,    \* requests and scheduler ticks that run at the same time
  Names,      \* campaigns
  Recipients,
  Batch,      \* how many recipients one sendCampaign takes (100 in the code)
  MaxAttempts,\* 3 in the code
  Ops,        \* the operations in use
  Faults,     \* what may go wrong
  Failures,   \* bound: how often a worker stops half way or takes a mail that left for failed
  Retries,    \* bound: how often somebody asks for unknown deliveries again
  None        \* no campaign, no recipient

AllOps == {"tick", "send", "cancel", "retryUnknown"}
AllFaults == {"refused", \* the mail server refuses a mail
              "lost",    \* it takes a mail, and its answer does not arrive
              "slow",    \* a worker is at one campaign for more than 15 minutes
              "edge"}    \* the 15 minutes run out between two statements of a tick

ASSUME FiniteAssumption == IsFiniteSet(Workers) /\ IsFiniteSet(Recipients)
ASSUME NumbersAssumption == Batch \in Nat \ {0} /\ MaxAttempts \in Nat \ {0}
ASSUME OpsAssumption == Ops \subseteq AllOps /\ Faults \subseteq AllFaults
ASSUME BoundsAssumption == Failures \in Nat /\ Retries \in Nat
ASSUME NoneAssumption == None \notin Names \cup Recipients

VARIABLES
  campaigns,  \* email_campaigns
  rows,       \* email_campaign_recipients
  inbox,      \* how many mails of a campaign each recipient got
  crashes,    \* how many workers have stopped half way
  unrecorded, \* how many mails left that their worker took for failed
  retries,    \* how often somebody asked for unknown deliveries again
  req         \* what each worker is doing

vars == <<campaigns, rows, inbox, crashes, unrecorded, retries, req>>
counters == <<crashes, unrecorded, retries>>

-----------------------------------------------------------------------------
(* Rows and workers *)

\* age is updated_at against the clock: "rested" is 30 seconds, "stale" 15 minutes.
\* A scheduled campaign is due when it is no longer new.
Campaign == [status : {"none", "draft", "scheduled", "processing", "partial", "sent", "failed",
                       "cancelled"},
             age : {"new", "rested", "stale"}]
Row == [status : {"pending", "sending", "sent", "failed", "delivery_unknown"},
        attempts : 0..MaxAttempts]

\* list is who the worker took, failed and left what it counted.
Idle == [op |-> "idle", at |-> "idle", todo |-> {}, name |-> None, list |-> {}, to |-> None,
         failed |-> FALSE, left |-> {}]

Places == {"idle", "unknown", "release", "due", "next", "claim", "load", "pick", "mail", "sent",
           "failed", "outstanding", "exhausted", "undelivered", "finish", "cancel", "requeue",
           "reopen"}
Request == [op : AllOps \cup {"idle"}, at : Places, todo : SUBSET Names, name : Names \cup {None},
            list : SUBSET Recipients, to : Recipients \cup {None}, failed : BOOLEAN,
            left : SUBSET {"outstanding", "exhausted", "unknown"}]

Free(w, op) == op \in Ops /\ req[w] = Idle
Becomes(w, worker) == req' = [req EXCEPT ![w] = worker]
GoTo(w, at) == Becomes(w, [req[w] EXCEPT !.at = at])
Respond(w) == Becomes(w, Idle)

SetStatus(c, status) == campaigns' = [campaigns EXCEPT ![c] = [status |-> status, age |-> "new"]]

Sendable_Forever(row) == row.status \in {"pending", "failed"}
Sendable(row) == row.status \in {"pending", "failed"} /\ row.attempts < MaxAttempts
SendableTo(c) == {r \in Recipients : Sendable(rows[c][r])}
With(c, status) == {r \in Recipients : rows[c][r].status = status}

Init ==
  /\ campaigns = [c \in Names |-> [status |-> "none", age |-> "new"]]
  /\ rows = [c \in Names |-> [r \in Recipients |-> [status |-> "pending", attempts |-> 0]]]
  /\ inbox = [c \in Names |-> [r \in Recipients |-> 0]]
  /\ crashes = 0 /\ unrecorded = 0 /\ retries = 0
  /\ req = [w \in Workers |-> Idle]

-----------------------------------------------------------------------------
(* Campaigns come and time passes *)

\* One transaction; with a date the campaign is scheduled.
Create(c, status) ==
  /\ campaigns[c].status = "none" /\ status \in {"draft", "scheduled"}
  /\ SetStatus(c, status)
  /\ UNCHANGED <<rows, inbox, counters, req>>

Sending(c) ==
  {w \in Workers : req[w].name = c /\ req[w].op \in {"tick", "send"} /\ req[w].at # "claim"}

Rest(c) ==
  /\ campaigns[c].status # "none" /\ campaigns[c].age = "new"
  /\ campaigns' = [campaigns EXCEPT ![c].age = "rested"]
  /\ UNCHANGED <<rows, inbox, counters, req>>

GoStale(c) ==
  /\ campaigns[c].status = "processing" /\ campaigns[c].age = "rested"
  /\ Sending(c) = {} \/ "slow" \in Faults
  /\ campaigns' = [campaigns EXCEPT ![c].age = "stale"]
  /\ UNCHANGED <<rows, inbox, counters, req>>

-----------------------------------------------------------------------------
(* processDueCampaigns *)

\* (Names ending in a word after _ are slips of the definition that follows them:
\* the properties are checked to notice each.)
BeginTick(w) ==
  /\ Free(w, "tick")
  /\ Becomes(w, [Idle EXCEPT !.op = "tick", !.at = "unknown"])
  /\ UNCHANGED <<campaigns, rows, inbox, counters>>

Abandoned(c) == campaigns[c].status = "processing" /\ campaigns[c].age = "stale"

GiveUpMails_Requeues(w) ==
  /\ req[w].at = "unknown"
  /\ rows' = [c \in Names |-> [r \in Recipients |->
       IF Abandoned(c) /\ rows[c][r].status = "sending"
         THEN [rows[c][r] EXCEPT !.status = "pending"] ELSE rows[c][r]]]
  /\ Becomes(w, [req[w] EXCEPT !.at = "release", !.todo = {c \in Names : Abandoned(c)}])
  /\ UNCHANGED <<campaigns, inbox, counters>>
\* Nobody knows whether a mail that was being sent has left.
GiveUpMails(w) ==
  /\ req[w].at = "unknown"
  /\ rows' = [c \in Names |-> [r \in Recipients |->
       IF Abandoned(c) /\ rows[c][r].status = "sending"
         THEN [rows[c][r] EXCEPT !.status = "delivery_unknown"] ELSE rows[c][r]]]
  /\ Becomes(w, [req[w] EXCEPT !.at = "release", !.todo = {c \in Names : Abandoned(c)}])
  /\ UNCHANGED <<campaigns, inbox, counters>>

ReleaseCampaigns_Not(w) ==
  /\ req[w].at = "release"
  /\ GoTo(w, "due")
  /\ UNCHANGED <<campaigns, rows, inbox, counters>>
\* The clock may have moved since GiveUpMails.
ReleaseCampaigns(w) ==
  /\ req[w].at = "release"
  /\ campaigns' = [c \in Names |->
       IF Abandoned(c) /\ (c \in req[w].todo \/ "edge" \in Faults)
         THEN [campaigns[c] EXCEPT !.status = "partial"] ELSE campaigns[c]]
  /\ GoTo(w, "due")
  /\ UNCHANGED <<rows, inbox, counters>>

Due(c) ==
  /\ campaigns[c].age # "new"
  /\ \/ campaigns[c].status = "scheduled"
     \/ campaigns[c].status = "partial" /\ SendableTo(c) # {}

ListDue(w) ==
  /\ req[w].at = "due"
  /\ Becomes(w, [req[w] EXCEPT !.at = "next", !.todo = {c \in Names : Due(c)}])
  /\ UNCHANGED <<campaigns, rows, inbox, counters>>

NextDue(w) ==
  /\ req[w].at = "next"
  /\ \/ req[w].todo = {} /\ Respond(w)
     \/ \E c \in req[w].todo :
          Becomes(w, [Idle EXCEPT !.op = "tick", !.at = "claim", !.todo = req[w].todo \ {c}, !.name = c])
  /\ UNCHANGED <<campaigns, rows, inbox, counters>>

-----------------------------------------------------------------------------
(* sendCampaign *)

BeginSend(w, c) ==
  /\ Free(w, "send") /\ campaigns[c].status # "none"
  /\ Becomes(w, [Idle EXCEPT !.op = "send", !.at = "claim", !.name = c])
  /\ UNCHANGED <<campaigns, rows, inbox, counters>>

Claim_Again(w) ==
  LET c == req[w].name
  IN /\ req[w].at = "claim"
     /\ IF campaigns[c].status \in {"draft", "scheduled", "partial", "processing"}
          THEN SetStatus(c, "processing") /\ GoTo(w, "load")
          ELSE Respond(w) /\ UNCHANGED campaigns
     /\ UNCHANGED <<rows, inbox, counters>>
\* The conflict ends the whole tick.
Claim(w) ==
  LET c == req[w].name
  IN /\ req[w].at = "claim"
     /\ IF campaigns[c].status \in {"draft", "scheduled", "partial"}
          THEN SetStatus(c, "processing") /\ GoTo(w, "load")
          ELSE Respond(w) /\ UNCHANGED campaigns
     /\ UNCHANGED <<rows, inbox, counters>>

Load(w) ==
  LET s == SendableTo(req[w].name)
  IN /\ req[w].at = "load"
     /\ \E list \in SUBSET s :
          /\ Cardinality(list) = Batch \/ (Cardinality(list) < Batch /\ list = s)
          /\ Becomes(w, [req[w] EXCEPT !.at = "pick", !.list = list])
     /\ UNCHANGED <<campaigns, rows, inbox, counters>>

\* A recipient another worker took meanwhile is passed over.
ClaimRecipient(w, r) ==
  LET v == req[w]
  IN /\ v.at = "pick" /\ r \in v.list
     /\ IF Sendable(rows[v.name][r])
          THEN /\ rows' = [rows EXCEPT ![v.name][r] = [status |-> "sending", attempts |-> @.attempts + 1]]
               /\ Becomes(w, [v EXCEPT !.at = "mail", !.list = @ \ {r}, !.to = r])
          ELSE /\ Becomes(w, [v EXCEPT !.list = @ \ {r}])
               /\ UNCHANGED rows
     /\ UNCHANGED <<campaigns, inbox, counters>>

Mail(w) ==
  LET v == req[w]
  IN /\ v.at = "mail"
     /\ \/ /\ inbox' = [inbox EXCEPT ![v.name][v.to] = @ + 1]
           /\ GoTo(w, "sent")
        \/ /\ "refused" \in Faults
           /\ GoTo(w, "failed")
           /\ UNCHANGED inbox
     /\ UNCHANGED <<campaigns, rows, counters>>

\* The mail leaves and sendEmail throws all the same.
MailUnanswered(w) ==
  LET v == req[w]
  IN /\ v.at = "mail" /\ "lost" \in Faults /\ crashes + unrecorded < Failures
     /\ inbox' = [inbox EXCEPT ![v.name][v.to] = @ + 1]
     /\ unrecorded' = unrecorded + 1
     /\ GoTo(w, "failed")
     /\ UNCHANGED <<campaigns, rows, crashes, retries>>

\* Whatever the row says by now.
RecordMail(w) ==
  LET v == req[w]
  IN /\ v.at \in {"sent", "failed"}
     /\ rows' = [rows EXCEPT ![v.name][v.to].status = v.at]
     /\ Becomes(w, [v EXCEPT !.at = "pick", !.to = None, !.failed = @ \/ v.at = "failed"])
     /\ UNCHANGED <<campaigns, inbox, counters>>

\* The catch around the mail is also around the statement that records it.
RecordFails(w) ==
  /\ req[w].at = "sent" /\ crashes + unrecorded < Failures
  /\ unrecorded' = unrecorded + 1
  /\ GoTo(w, "failed")
  /\ UNCHANGED <<campaigns, rows, inbox, crashes, retries>>

Counted(w, at, left) == Becomes(w, [req[w] EXCEPT !.at = at, !.left = @ \cup left])

\* Three queries.
CountOutstanding(w) ==
  LET c == req[w].name
  IN /\ req[w].at = "pick" /\ req[w].list = {}
     /\ Counted(w, "exhausted", IF With(c, "pending") \cup With(c, "sending") = {} THEN {} ELSE {"outstanding"})
     /\ UNCHANGED <<campaigns, rows, inbox, counters>>

CountExhausted(w) ==
  LET c == req[w].name
  IN /\ req[w].at = "exhausted"
     /\ Counted(w, "undelivered",
          IF \E r \in With(c, "failed") : rows[c][r].attempts >= MaxAttempts THEN {"exhausted"} ELSE {})
     /\ UNCHANGED <<campaigns, rows, inbox, counters>>

CountUnknown(w) ==
  /\ req[w].at = "undelivered"
  /\ Counted(w, "finish", IF With(req[w].name, "delivery_unknown") = {} THEN {} ELSE {"unknown"})
  /\ UNCHANGED <<campaigns, rows, inbox, counters>>

Outcome(v) ==
  IF v.failed \/ v.left \cap {"outstanding", "unknown"} # {} THEN "partial"
  ELSE IF "exhausted" \in v.left THEN "failed" ELSE "sent"

\* Whatever the status is by now.
Finish(w) ==
  /\ req[w].at = "finish"
  /\ SetStatus(req[w].name, Outcome(req[w]))
  /\ IF req[w].op = "tick"
       THEN Becomes(w, [Idle EXCEPT !.op = "tick", !.at = "next", !.todo = req[w].todo])
       ELSE Respond(w)
  /\ UNCHANGED <<rows, inbox, counters>>

-----------------------------------------------------------------------------
(* cancelEmailCampaign and retryUnknownCampaignRecipients *)

BeginCancel(w, c) ==
  /\ Free(w, "cancel") /\ campaigns[c].status \in {"draft", "scheduled", "partial"}
  /\ Becomes(w, [Idle EXCEPT !.op = "cancel", !.at = "cancel", !.name = c])
  /\ UNCHANGED <<campaigns, rows, inbox, counters>>

\* Whatever the status is by now.
Cancel(w) ==
  /\ req[w].at = "cancel"
  /\ SetStatus(req[w].name, "cancelled")
  /\ Respond(w)
  /\ UNCHANGED <<rows, inbox, counters>>

BeginRetry(w, c) ==
  /\ Free(w, "retryUnknown") /\ retries < Retries /\ With(c, "delivery_unknown") # {}
  /\ retries' = retries + 1
  /\ Becomes(w, [Idle EXCEPT !.op = "retryUnknown", !.at = "requeue", !.name = c])
  /\ UNCHANGED <<campaigns, rows, inbox, crashes, unrecorded>>

Requeue(w) ==
  LET c == req[w].name
  IN /\ req[w].at = "requeue"
     /\ rows' = [rows EXCEPT ![c] = [r \in Recipients |->
          IF @[r].status = "delivery_unknown" THEN [@[r] EXCEPT !.status = "failed"] ELSE @[r]]]
     /\ IF With(c, "delivery_unknown") = {} THEN Respond(w) ELSE GoTo(w, "reopen")
     /\ UNCHANGED <<campaigns, inbox, counters>>

\* Whatever the status is: a cancelled campaign is sent again.
Reopen(w) ==
  /\ req[w].at = "reopen"
  /\ SetStatus(req[w].name, "partial")
  /\ Respond(w)
  /\ UNCHANGED <<rows, inbox, counters>>

Crash(w) ==
  /\ req[w] # Idle /\ crashes + unrecorded < Failures
  /\ crashes' = crashes + 1
  /\ Respond(w)
  /\ UNCHANGED <<campaigns, rows, inbox, unrecorded, retries>>

-----------------------------------------------------------------------------
(* The specification *)

Begin(w) ==
  \/ BeginTick(w)
  \/ \E c \in Names : BeginSend(w, c) \/ BeginCancel(w, c) \/ BeginRetry(w, c)

Continue(w) ==
  \/ GiveUpMails(w) \/ ReleaseCampaigns(w) \/ ListDue(w) \/ NextDue(w)
  \/ Claim(w) \/ Load(w) \/ (\E r \in Recipients : ClaimRecipient(w, r)) \/ Mail(w) \/ RecordMail(w)
  \/ CountOutstanding(w) \/ CountExhausted(w) \/ CountUnknown(w) \/ Finish(w)
  \/ Cancel(w) \/ Requeue(w) \/ Reopen(w)

Next ==
  \/ \E w \in Workers : Begin(w) \/ Continue(w) \/ MailUnanswered(w) \/ RecordFails(w) \/ Crash(w)
  \/ \E c \in Names : Rest(c) \/ GoStale(c) \/ \E status \in {"draft", "scheduled"} : Create(c, status)

Spec == Init /\ [][Next]_vars

\* The clock advances, the scheduler ticks every 30 seconds whatever else runs, and
\* a worker goes on with what it began; nobody has to send a request.
Fairness ==
  /\ \A c \in Names : WF_vars(Rest(c)) /\ SF_vars(GoStale(c))
  /\ SF_vars(\E w \in Workers : BeginTick(w))
  /\ \A w \in Workers : WF_vars(Continue(w))

FairSpec == Spec /\ Fairness

-----------------------------------------------------------------------------
(* Properties *)

TypeOK ==
  /\ campaigns \in [Names -> Campaign]
  /\ rows \in [Names -> [Recipients -> Row]]
  /\ inbox \in [Names -> [Recipients -> Nat]]
  /\ crashes \in Nat /\ unrecorded \in Nat /\ retries \in Nat
  /\ req \in [Workers -> Request]

\* However workers overlap, stop or outlive their claim, nobody gets a mail of a
\* campaign twice unless somebody asked for an unknown delivery again, or its worker
\* took a mail that had left for failed: the server's answer was lost or the row
\* could not be written.  Each of these is worth one more mail and no more.
MailedOnce ==
  \A c \in Names, r \in Recipients : inbox[c][r] <= 1 + retries + unrecorded

\* Where no worker outlives its claim and a batch has room for every recipient, and
\* until a delivery is asked for again, a campaign that is over has a final answer
\* for each of its recipients.
Answered(c, r) ==
  \/ rows[c][r].status \in {"sent", "delivery_unknown"}
  \/ rows[c][r].status = "failed" /\ rows[c][r].attempts = MaxAttempts
OverMeansAnswered ==
  \A c \in Names :
    campaigns[c].status \in {"sent", "failed"} /\ retries = 0 =>
      /\ \A r \in Recipients : Answered(c, r)
      /\ campaigns[c].status = "sent" => With(c, "sent") = Recipients

\* ... and the scheduler brings each scheduled campaign there by itself.
ScheduledIsAnswered ==
  \A c \in Names :
    campaigns[c].status = "scheduled" ~>
      (campaigns[c].status = "cancelled" \/ retries > 0 \/ \A r \in Recipients : Answered(c, r))
===============================================================================
