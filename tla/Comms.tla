------------------------------- MODULE Comms -------------------------------
(***************************************************************************)
(* Mass mail (vp-engine/internal/payments/comms_*.go, internal/comms): a   *)
(* campaign is written, submitted, decided by another administrator, sent  *)
(* in batches by the sender of every process, and followed by the          *)
(* notifications of SES.  Every statement on the database is a step; a     *)
(* sender may stop between two of them.                                    *)
(***************************************************************************)
EXTENDS Naturals, Sequences, FiniteSets, SequencesExt

CONSTANTS
  Campaigns, People, Admins,
  Senders,                     \* processes with a sender loop
  BatchSize, MaxAttempts,      \* BatchSize; comms.MaxAttempts
  MaxPerDay,                   \* approvals of one day, 0 for no limit
  MaxTexts, MaxMails, MaxRequeues,   \* bounds
  NoAdmin                      \* no administrator, no person

ASSUME CommsAssumption ==
  /\ BatchSize \in Nat \ {0} /\ MaxAttempts \in Nat /\ MaxPerDay \in Nat
  /\ MaxTexts \in Nat /\ MaxMails \in Nat /\ MaxRequeues \in Nat
  /\ IsFiniteSet(People)
  /\ NoAdmin \notin Admins \cup People

VARIABLES
  campaign,                    \* comms.campaign and its mlm.approval_request
  row,                         \* comms.campaign_recipient
  barred,                      \* comms.unsubscribe and comms.suppressed_email
  asked,                       \* campaigns an operator was allowed to requeue, before the update
  decision,                    \* a decision in progress, after its reads
  sender,                      \* the sender loops
  mails,                       \* the mails SES accepted
  notices,                     \* its notifications in the queue
  requeued                     \* rows the operator put back, how often

commsVars == <<campaign, row, barred, asked, decision, sender, mails, notices, requeued>>

NoCampaign == [status |-> "none", by |-> NoAdmin, submitter |-> NoAdmin, approver |-> NoAdmin,
               text |-> 0, request |-> "none", shown |-> 0]
NoRow == [status |-> "none", attempts |-> 0, stale |-> FALSE, due |-> TRUE, mail |-> 0]
NoDecision == [campaign |-> NoAdmin, text |-> 0, approve |-> FALSE]
Resting == [pc |-> "rest", campaign |-> NoAdmin, batch |-> <<>>, person |-> NoAdmin, text |-> 0,
            out |-> {}, answer |-> "", mail |-> 0]

CommsInit ==
  /\ campaign = [c \in Campaigns |-> NoCampaign]
  /\ row = [x \in Campaigns \X People |-> NoRow]
  /\ barred = {} /\ asked = {}
  /\ decision = [a \in Admins |-> NoDecision]
  /\ sender = [s \in Senders |-> Resting]
  /\ mails = <<>>
  /\ notices = {}
  /\ requeued = [x \in Campaigns \X People |-> 0]

RowsOf(c, S) == {p \in People : row[<<c, p>>].status \in S}
PutStatus(c, status) == campaign' = [campaign EXCEPT ![c].status = status]

-----------------------------------------------------------------------------
(* The campaign.                                                           *)

CreateCampaign(c, a) ==
  /\ campaign[c].status = "none"
  /\ campaign' = [campaign EXCEPT ![c] = [NoCampaign EXCEPT !.status = "draft", !.by = a, !.text = 1]]
  /\ UNCHANGED <<row, barred, asked, decision, sender, mails, notices, requeued>>

\* Bug: a campaign that waits for its approval can still be edited.
BugEditable(c) == campaign[c].status \in {"draft", "pending_approval"}
Editable(c) == campaign[c].status = "draft"

UpdateDraft(c) ==
  /\ Editable(c) /\ campaign[c].text < MaxTexts
  /\ campaign' = [campaign EXCEPT ![c].text = @ + 1]
  /\ UNCHANGED <<row, barred, asked, decision, sender, mails, notices, requeued>>

SubmitCampaign(c, a) ==
  /\ campaign[c].status = "draft"
  /\ campaign' = [campaign EXCEPT ![c].status = "pending_approval", ![c].request = "pending",
                                  ![c].submitter = a]
  /\ UNCHANGED <<row, barred, asked, decision, sender, mails, notices, requeued>>

ApprovedToday == {c \in Campaigns : campaign[c].status \in {"approved", "sending", "paused", "done"}}

\* AudienceQuery: who fits the segment and did not leave.
Audience(c) == {p \in People \ barred : row[<<c, p>>].status = "none"}

\* DecideCampaign up to its updates: the campaign and the approvals of the day are read.
DecideReads(a, c, approve) ==
  /\ decision[a] = NoDecision
  /\ campaign[c].status = "pending_approval" /\ campaign[c].by # a
  /\ approve => MaxPerDay = 0 \/ Cardinality(ApprovedToday) < MaxPerDay
  /\ decision' = [decision EXCEPT ![a] = [campaign |-> c, text |-> campaign[c].text, approve |-> approve]]
  /\ UNCHANGED <<asked, campaign, row, barred, sender, mails, notices, requeued>>

\* Its transaction: the audience is queued, request and campaign change if both are still
\* waiting; the table refuses the submitter as approver.
DecideCampaign(a) ==
  /\ decision[a] # NoDecision
  /\ LET c == decision[a].campaign
         approve == decision[a].approve
         ok == /\ campaign[c].request = "pending" /\ campaign[c].status = "pending_approval"
               /\ campaign[c].submitter # a
     IN IF ok /\ approve
        THEN /\ campaign' = [campaign EXCEPT ![c].status = "approved", ![c].request = "approved",
                                             ![c].approver = a, ![c].shown = decision[a].text]
             /\ row' = [x \in Campaigns \X People |->
                          IF x[1] = c /\ x[2] \in Audience(c)
                          THEN [NoRow EXCEPT !.status = "queued"] ELSE row[x]]
        ELSE IF ok /\ ~approve
        THEN /\ campaign' = [campaign EXCEPT ![c].status = "rejected", ![c].request = "rejected"]
             /\ UNCHANGED row
        ELSE UNCHANGED <<campaign, row>>
  /\ decision' = [decision EXCEPT ![a] = NoDecision]
  /\ UNCHANGED <<asked, barred, sender, mails, notices, requeued>>

PauseCampaign(c) ==
  /\ campaign[c].status \in {"approved", "sending"}
  /\ PutStatus(c, "paused")
  /\ UNCHANGED <<row, barred, asked, decision, sender, mails, notices, requeued>>

ResumeCampaign(c) ==
  /\ campaign[c].status = "paused"
  /\ PutStatus(c, "approved")
  /\ UNCHANGED <<row, barred, asked, decision, sender, mails, notices, requeued>>

CancelCampaign(c) ==
  /\ campaign[c].status \in {"pending_approval", "approved", "sending", "paused"}
  /\ campaign' = [campaign EXCEPT ![c].status = "cancelled",
                                  ![c].request = IF @ = "pending" THEN "expired" ELSE @]
  /\ row' = [x \in Campaigns \X People |->
               IF x[1] = c /\ row[x].status = "queued" THEN [row[x] EXCEPT !.status = "skipped"] ELSE row[x]]
  /\ UNCHANGED <<barred, asked, decision, sender, mails, notices, requeued>>

\* RequeueStaleFailed: the operator puts back what a stopped process left; the handler reads
\* the campaign before the update, which does not look at it again.
RequeueAsked(c) ==
  /\ campaign[c].status \in {"paused", "sending", "approved", "done"} /\ c \notin asked
  /\ asked' = asked \cup {c}
  /\ UNCHANGED <<campaign, row, barred, decision, sender, mails, notices, requeued>>

RequeueStale(c) ==
  /\ c \in asked
  /\ LET back == {p \in People : row[<<c, p>>].status = "failed" /\ row[<<c, p>>].stale}
     IN /\ \A p \in back : requeued[<<c, p>>] < MaxRequeues
        /\ row' = [x \in Campaigns \X People |->
             IF x[1] = c /\ x[2] \in back THEN [NoRow EXCEPT !.status = "queued"] ELSE row[x]]
        /\ requeued' = [x \in Campaigns \X People |->
             IF x[1] = c /\ x[2] \in back THEN requeued[x] + 1 ELSE requeued[x]]
        /\ campaign' = [campaign EXCEPT ![c].status = IF @ = "done" /\ back # {} THEN "approved" ELSE @]
  /\ asked' = asked \ {c}
  /\ UNCHANGED <<barred, decision, sender, mails, notices>>

\* The link of a mail, or the page of the member.
Unsubscribe(p) ==
  /\ barred' = barred \cup {p}
  /\ UNCHANGED <<campaign, row, asked, decision, sender, mails, notices, requeued>>

-----------------------------------------------------------------------------
(* CommsSender.RunOnce.                                                    *)

SenderAt(s, state) == sender' = [sender EXCEPT ![s] = state]

\* A row some sender has claimed and not finished; a send takes 20 seconds at most.
Handled(c, p) ==
  \E s \in Senders : sender[s].pc \in {"post", "result"} /\ sender[s].campaign = c /\ sender[s].person = p

\* Rows claimed more than ten minutes ago.
Stuck(x) == row[x].status = "sending" /\ ~Handled(x[1], x[2])

\* They fail; a campaign is taken, those in progress first.
ClaimCampaign(s) ==
  /\ sender[s].pc = "rest"
  /\ row' = [x \in Campaigns \X People |->
               IF Stuck(x) THEN [row[x] EXCEPT !.status = "failed", !.stale = TRUE] ELSE row[x]]
  /\ LET ready == {c \in Campaigns : campaign[c].status \in {"sending", "approved"}}
         begun == {c \in ready : campaign[c].status = "sending"}
     IN \/ /\ ready # {}
           /\ \E c \in IF begun # {} THEN begun ELSE ready :
                PutStatus(c, "sending") /\ SenderAt(s, [Resting EXCEPT !.pc = "recheck", !.campaign = c])
        \/ ready = {} /\ row' # row /\ UNCHANGED <<campaign, sender>>
  /\ UNCHANGED <<barred, asked, decision, mails, notices, requeued>>

\* Bug: the sender only trusts the audience of the approval.
BugGone == {}
Gone == barred

\* Who left since the audience was made is skipped.
Recheck(s) ==
  /\ sender[s].pc = "recheck"
  /\ row' = [x \in Campaigns \X People |->
               IF x[1] = sender[s].campaign /\ row[x].status = "queued" /\ x[2] \in Gone
               THEN [row[x] EXCEPT !.status = "skipped"] ELSE row[x]]
  /\ SenderAt(s, [sender[s] EXCEPT !.pc = "batch",
                     !.out = barred \ RowsOf(sender[s].campaign, {"sending"})])
  /\ UNCHANGED <<campaign, barred, asked, decision, mails, notices, requeued>>

\* A row that waits for its next attempt comes due: in minutes, not between two statements.
RowDue(x) ==
  /\ ~row[x].due /\ \A s \in Senders : sender[s].pc # "batch"
  /\ row' = [row EXCEPT ![x].due = TRUE]
  /\ UNCHANGED <<campaign, barred, asked, decision, sender, mails, notices, requeued>>

\* The text and the next rows.
ReadBatch(s) ==
  /\ sender[s].pc = "batch"
  /\ LET c == sender[s].campaign
         queued == {p \in RowsOf(c, {"queued"}) : row[<<c, p>>].due}
         size == IF Cardinality(queued) < BatchSize THEN Cardinality(queued) ELSE BatchSize
     IN \E B \in {X \in SUBSET queued : Cardinality(X) = size} :
          SenderAt(s, [sender[s] EXCEPT !.text = campaign[c].text, !.batch = SetToSeq(B),
                                      !.pc = IF B = {} THEN "finish" ELSE "next"])
  /\ UNCHANGED <<campaign, row, barred, asked, decision, mails, notices, requeued>>

\* Between two mails the campaign is read again.
NextRow(s) ==
  /\ sender[s].pc = "next"
  /\ LET in == sender[s] IN
     SenderAt(s, IF in.batch = <<>> THEN [in EXCEPT !.pc = "finish"]
            ELSE IF campaign[in.campaign].status # "sending" THEN Resting
            ELSE [in EXCEPT !.pc = "claim", !.person = Head(in.batch), !.batch = Tail(in.batch)])
  /\ UNCHANGED <<campaign, row, barred, asked, decision, mails, notices, requeued>>

\* Bug: the row is taken whatever became of it.
BugMine(x) == TRUE
Mine(x) == row[x].status = "queued"

ClaimRow(s) ==
  /\ sender[s].pc = "claim"
  /\ LET x == <<sender[s].campaign, sender[s].person>> IN
     IF Mine(x)
     THEN /\ row' = [row EXCEPT ![x].status = "sending", ![x].attempts = @ + 1]
          /\ SenderAt(s, [sender[s] EXCEPT !.pc = "post"])
     ELSE SenderAt(s, [sender[s] EXCEPT !.pc = "next"]) /\ UNCHANGED row
  /\ UNCHANGED <<campaign, barred, asked, decision, mails, notices, requeued>>

\* SES takes the mail or refuses it, and its answer arrives or the 20 seconds pass.
PostMail(s) ==
  /\ sender[s].pc = "post"
  /\ \/ \E answer \in {"ok", "timeout"} :
          /\ Len(mails) < MaxMails
          /\ mails' = Append(mails, [campaign |-> sender[s].campaign, person |-> sender[s].person,
                                     text |-> sender[s].text, answer |-> answer])
          /\ SenderAt(s, [sender[s] EXCEPT !.pc = "result", !.answer = answer, !.mail = Len(mails) + 1])
     \/ \E answer \in {"timeout", "throttled", "rejected", "denied"} :
          /\ SenderAt(s, [sender[s] EXCEPT !.pc = "result", !.answer = answer])
          /\ UNCHANGED mails
  /\ UNCHANGED <<campaign, row, barred, asked, decision, notices, requeued>>

\* IsTransientSESError: a timeout is one, whatever SES did with the mail.
Transient == {"timeout", "throttled"}

\* RetryDelay: the next attempt, in minutes.
TriedAgain(x) == row[x].attempts <= MaxAttempts

\* The row after the answer.
Answered(s) ==
  /\ sender[s].pc = "result"
  /\ LET x == <<sender[s].campaign, sender[s].person>>
     IN /\ row' = [row EXCEPT ![x] =
             CASE sender[s].answer = "ok" -> [@ EXCEPT !.status = "sent", !.mail = sender[s].mail]
               [] sender[s].answer = "denied" -> [@ EXCEPT !.status = "queued", !.attempts = @ - 1]
               [] sender[s].answer \in Transient /\ TriedAgain(x) ->
                    [@ EXCEPT !.status = "queued", !.due = FALSE]
               [] OTHER -> [@ EXCEPT !.status = "failed", !.stale = FALSE]]
        /\ IF sender[s].answer = "denied"
           THEN /\ PutStatus(x[1], IF campaign[x[1]].status = "sending" THEN "paused" ELSE campaign[x[1]].status)
                /\ SenderAt(s, Resting)
           ELSE /\ UNCHANGED campaign
                /\ SenderAt(s, [sender[s] EXCEPT !.pc = "next", !.person = NoAdmin, !.answer = "", !.mail = 0])
  /\ UNCHANGED <<barred, asked, decision, mails, notices, requeued>>

Pending(c) == RowsOf(c, {"queued", "sending"})

\* maybeFinish: the rows are counted, then the campaign is closed.
CountPending(s) ==
  /\ sender[s].pc = "finish"
  /\ SenderAt(s, IF Pending(sender[s].campaign) = {} THEN [sender[s] EXCEPT !.pc = "close"] ELSE Resting)
  /\ UNCHANGED <<campaign, row, barred, asked, decision, mails, notices, requeued>>

CloseCampaign(s) ==
  /\ sender[s].pc = "close"
  /\ LET c == sender[s].campaign
     IN PutStatus(c, IF campaign[c].status = "sending" THEN "done" ELSE campaign[c].status)
  /\ SenderAt(s, Resting)
  /\ UNCHANGED <<row, barred, asked, decision, mails, notices, requeued>>

\* The process stops, or a statement fails.
SenderStops(s) ==
  /\ sender[s].pc # "rest"
  /\ SenderAt(s, Resting)
  /\ UNCHANGED <<campaign, row, barred, asked, decision, mails, notices, requeued>>

-----------------------------------------------------------------------------
(* SES and CommsEventConsumer.                                             *)

NoticeKinds == {"delivered", "bounced", "complained"}

Notify(i, kind) ==
  /\ i \in DOMAIN mails
  /\ notices' = notices \cup {<<i, kind>>}
  /\ UNCHANGED <<campaign, row, barred, asked, decision, sender, mails, requeued>>

\* RecipientByMessageID
RowOfMail(i) == {x \in Campaigns \X People : row[x].mail = i}

\* maybePauseForBounceRate
StopsTheCampaign(c, kind, tooMany) == kind = "bounced" /\ tooMany /\ campaign[c].status = "sending"

\* A notification: its row is found by the message id, or it is thrown away; many bounces
\* stop the campaign; what was applied may be delivered again.
ProcessBody(n, keep, tooMany) ==
  /\ n \in notices
  /\ LET found == RowOfMail(n[1]) IN
     IF found = {} THEN UNCHANGED <<row, barred, campaign>>
     ELSE \E x \in found :
            /\ row' = [row EXCEPT ![x].status = n[2], ![x].stale = FALSE]
            /\ barred' = IF n[2] = "delivered" THEN barred ELSE barred \cup {x[2]}
            /\ IF StopsTheCampaign(x[1], n[2], tooMany)
               THEN PutStatus(x[1], "paused") ELSE UNCHANGED campaign
  /\ notices' = IF keep THEN notices ELSE notices \ {n}
  /\ UNCHANGED <<asked, decision, sender, mails, requeued>>

CommsNext ==
  \/ \E c \in Campaigns :
       \/ \E a \in Admins : CreateCampaign(c, a) \/ SubmitCampaign(c, a)
       \/ \E a \in Admins, approve \in BOOLEAN : DecideReads(a, c, approve)
       \/ UpdateDraft(c) \/ PauseCampaign(c) \/ ResumeCampaign(c) \/ CancelCampaign(c)
       \/ RequeueAsked(c) \/ RequeueStale(c)
  \/ \E a \in Admins : DecideCampaign(a)
  \/ \E x \in Campaigns \X People : RowDue(x)
  \/ \E p \in People : Unsubscribe(p)
  \/ \E s \in Senders :
       \/ ClaimCampaign(s) \/ Recheck(s) \/ ReadBatch(s) \/ NextRow(s) \/ ClaimRow(s)
       \/ PostMail(s) \/ Answered(s) \/ CountPending(s) \/ CloseCampaign(s) \/ SenderStops(s)
  \/ \E i \in DOMAIN mails, kind \in NoticeKinds : Notify(i, kind)
  \/ \E n \in notices, keep \in BOOLEAN, tooMany \in BOOLEAN : ProcessBody(n, keep, tooMany)

CommsSpec == CommsInit /\ [][CommsNext]_commsVars

-----------------------------------------------------------------------------
(* Safety.                                                                 *)

\* Every mail carries the text its approver was shown, and the approver is neither who
\* wrote the campaign nor who submitted it.
SentWasApproved ==
  \A i \in DOMAIN mails :
    LET c == campaign[mails[i].campaign]
    IN /\ mails[i].text = c.shown
       /\ c.approver \notin {NoAdmin, c.by, c.submitter}

\* Who had left when a run re-checked, and whose row no other process was sending then, gets
\* no mail of that run; the operator who puts a row back in that moment is the exception.
OptOutRespected ==
  \A s \in Senders :
    sender[s].pc = "post" /\ sender[s].person \in sender[s].out =>
      requeued[<<sender[s].campaign, sender[s].person>>] > 0

MailsTo(x) == {i \in DOMAIN mails : <<mails[i].campaign, mails[i].person>> = x}

\* A second mail of a campaign to a person needs an answer of SES that was never seen, or an
\* operator who put the row back: not two senders, a pause, a cancellation or a crash.
NoDoubleMail ==
  \A x \in Campaigns \X People :
    Cardinality(MailsTo(x)) <= 1 + requeued[x] + Cardinality({i \in MailsTo(x) : mails[i].answer = "timeout"})
=============================================================================
