--------------------------- MODULE ServiceProofs ---------------------------
(***************************************************************************)
(* Proofs about the parts of the payments service that share no table with *)
(* the money: the cache of tree branches, the support tickets and the mass *)
(* mail.                                                                   *)
(***************************************************************************)
EXTENDS TreeCache, Tickets, Comms, Integers, FiniteSetTheorems, TLAPS

-----------------------------------------------------------------------------
(* Mass mail: what every reachable state of it satisfies.                  *)

Positions == {"none", "draft", "pending_approval", "rejected"} \cup
             {"approved", "sending", "paused", "done", "cancelled"}
CampaignRows == [status : Positions, by : Admins \cup {NoAdmin}, submitter : Admins \cup {NoAdmin},
                 approver : Admins \cup {NoAdmin}, text : Nat,
                 request : {"none", "pending", "approved", "rejected", "expired"}, shown : Nat]
PersonRows == [status : {"none", "queued", "sending", "sent", "failed", "skipped"} \cup NoticeKinds,
               attempts : Int, stale : BOOLEAN, due : BOOLEAN, mail : Nat]
Decisions == [campaign : Campaigns \cup {NoAdmin}, text : Nat, approve : BOOLEAN]
SenderRows == [pc : {"rest", "recheck", "batch", "next", "claim", "post", "result", "finish", "close"},
               campaign : Campaigns \cup {NoAdmin}, batch : Seq(People), person : People \cup {NoAdmin},
               text : Nat, out : SUBSET People,
               answer : {"", "ok", "timeout", "throttled", "rejected", "denied"}, mail : Nat]
MailRows == [campaign : Campaigns, person : People, text : Nat, answer : {"ok", "timeout"}]

CommsTypeOK ==
  /\ campaign \in [Campaigns -> CampaignRows]
  /\ row \in [Campaigns \X People -> PersonRows]
  /\ barred \subseteq People /\ asked \subseteq Campaigns
  /\ decision \in [Admins -> Decisions]
  /\ sender \in [Senders -> SenderRows]
  /\ mails \in Seq(MailRows)
  /\ notices \subseteq (DOMAIN mails) \X NoticeKinds
  /\ requeued \in [Campaigns \X People -> Nat]

\* What the approver was shown is what the campaign says, and cannot change any more.
Approved(c) ==
  /\ campaign[c].status \notin {"none", "draft", "pending_approval", "rejected"}
  /\ campaign[c].shown = campaign[c].text
  /\ campaign[c].approver \notin {NoAdmin, campaign[c].by, campaign[c].submitter}

ApprovedBefore ==
  \A c \in Campaigns : campaign[c].status \in {"approved", "sending", "paused", "done"} => Approved(c)

\* A decision knows the text, and is not of the author.
DecisionsKnow ==
  \A a \in Admins : decision[a] # NoDecision =>
    LET c == decision[a].campaign
    IN /\ c \in Campaigns /\ campaign[c].status \notin {"none", "draft"}
       /\ campaign[c].by # a /\ decision[a].text = campaign[c].text

\* A sender works for an approved campaign, with its text.
SendersKnow ==
  \A s \in Senders :
    /\ sender[s].pc # "rest" => sender[s].campaign \in Campaigns /\ Approved(sender[s].campaign)
    /\ sender[s].pc \in {"next", "claim", "post", "result"} =>
         sender[s].text = campaign[sender[s].campaign].text
    /\ sender[s].pc \in {"claim", "post", "result"} => sender[s].person \in People

MailsKnow ==
  \A i \in DOMAIN mails :
    Approved(mails[i].campaign) /\ mails[i].text = campaign[mails[i].campaign].text

RowAt(s) == <<sender[s].campaign, sender[s].person>>
Handling(s, x) == sender[s].pc \in {"post", "result"} /\ RowAt(s) = x

\* A row has at most one sender, and nobody else moves it meanwhile.
OneHandler ==
  \A x \in Campaigns \X People, s \in Senders : Handling(s, x) =>
    row[x].status = "sending" /\ \A u \in Senders : Handling(u, x) => u = s

\* Only a row whose mail was accepted carries its id.
OnlySentHaveMail == \A x \in Campaigns \X People : row[x].mail # 0 => row[x].status \in {"sent"} \cup NoticeKinds

\* Who had left is neither queued nor being sent, unless the operator put the row back.
OutStaysOut ==
  \A s \in Senders : sender[s].pc \notin {"rest", "recheck"} =>
    \A p \in sender[s].out :
      \/ requeued[<<sender[s].campaign, p>>] > 0
      \/ row[<<sender[s].campaign, p>>].status \notin {"queued", "sending"}

\* The mails to a row whose acceptance was seen; one that may be sent has used up none of
\* its own.
Seen(x) == {i \in DOMAIN mails : <<mails[i].campaign, mails[i].person>> = x /\ mails[i].answer = "ok"}
Unseen(s, x) == Handling(s, x) /\ (sender[s].pc = "post" \/ sender[s].answer # "ok")
MaySend(x) == row[x].status \in {"none", "queued"} \/ \E s \in Senders : Unseen(s, x)

SeenOnce ==
  \A x \in Campaigns \X People :
    /\ Cardinality(Seen(x)) <= 1 + requeued[x]
    /\ MaySend(x) => Cardinality(Seen(x)) <= requeued[x]

CommsInv ==
  /\ CommsTypeOK
  /\ ApprovedBefore /\ DecisionsKnow /\ SendersKnow /\ MailsKnow
  /\ OneHandler /\ OnlySentHaveMail /\ OutStaysOut /\ SeenOnce

-----------------------------------------------------------------------------
(* Mass mail: what each action changes.                                    *)

SenderStep(s) ==
  \/ ClaimCampaign(s) \/ Recheck(s) \/ ReadBatch(s) \/ NextRow(s) \/ ClaimRow(s)
  \/ PostMail(s) \/ Answered(s) \/ CountPending(s) \/ CloseCampaign(s) \/ SenderStops(s)
SomeBody == \E n \in notices, keep \in BOOLEAN, tooMany \in BOOLEAN : ProcessBody(n, keep, tooMany)

CommsFrame ==
  /\ \/ UNCHANGED campaign
     \/ \E c \in Campaigns :
          \/ \E a \in Admins : CreateCampaign(c, a) \/ SubmitCampaign(c, a)
          \/ UpdateDraft(c) \/ PauseCampaign(c) \/ ResumeCampaign(c) \/ CancelCampaign(c) \/ RequeueStale(c)
     \/ \E a \in Admins : DecideCampaign(a)
     \/ \E s \in Senders : ClaimCampaign(s) \/ Answered(s) \/ CloseCampaign(s)
     \/ SomeBody
  /\ \/ UNCHANGED row
     \/ \E c \in Campaigns : CancelCampaign(c) \/ RequeueStale(c)
     \/ \E a \in Admins : DecideCampaign(a)
     \/ \E x \in Campaigns \X People : RowDue(x)
     \/ \E s \in Senders : ClaimCampaign(s) \/ Recheck(s) \/ ClaimRow(s) \/ Answered(s)
     \/ SomeBody
  /\ UNCHANGED barred \/ (\E p \in People : Unsubscribe(p)) \/ SomeBody
  /\ UNCHANGED asked \/ \E c \in Campaigns : RequeueAsked(c) \/ RequeueStale(c)
  /\ \/ UNCHANGED decision
     \/ \E a \in Admins : DecideCampaign(a) \/ \E c \in Campaigns, approve \in BOOLEAN : DecideReads(a, c, approve)
  /\ UNCHANGED sender \/ \E s \in Senders : SenderStep(s)
  /\ UNCHANGED mails \/ \E s \in Senders : PostMail(s)
  /\ UNCHANGED notices \/ SomeBody \/ \E i \in DOMAIN mails, kind \in NoticeKinds : Notify(i, kind)
  /\ UNCHANGED requeued \/ \E c \in Campaigns : RequeueStale(c)

LEMMA CommsFrames == ASSUME [CommsNext]_commsVars PROVE CommsFrame
<1>1. ASSUME NEW c \in Campaigns, NEW a \in Admins, CreateCampaign(c, a) \/ SubmitCampaign(c, a) PROVE CommsFrame
  BY <1>1 DEF CommsFrame, CreateCampaign, SubmitCampaign
<1>2. ASSUME NEW c \in Campaigns, NEW a \in Admins, NEW approve \in BOOLEAN, DecideReads(a, c, approve) PROVE CommsFrame
  BY <1>2 DEF CommsFrame, DecideReads
<1>3. ASSUME NEW c \in Campaigns, UpdateDraft(c) PROVE CommsFrame
  BY <1>3 DEF CommsFrame, UpdateDraft
<1>4. ASSUME NEW c \in Campaigns, PauseCampaign(c) \/ ResumeCampaign(c) PROVE CommsFrame
  BY <1>4 DEF CommsFrame, PauseCampaign, ResumeCampaign
<1>5. ASSUME NEW c \in Campaigns, CancelCampaign(c) PROVE CommsFrame
  BY <1>5 DEF CommsFrame, CancelCampaign
<1>6. ASSUME NEW c \in Campaigns, RequeueAsked(c) PROVE CommsFrame
  BY <1>6 DEF CommsFrame, RequeueAsked
<1>7. ASSUME NEW c \in Campaigns, RequeueStale(c) PROVE CommsFrame
  BY <1>7 DEF CommsFrame, RequeueStale
<1>8. ASSUME NEW a \in Admins, DecideCampaign(a) PROVE CommsFrame
  BY <1>8 DEF CommsFrame, DecideCampaign
<1>9. ASSUME NEW x \in Campaigns \X People, RowDue(x) PROVE CommsFrame
  BY <1>9 DEF CommsFrame, RowDue
<1>10. ASSUME NEW p \in People, Unsubscribe(p) PROVE CommsFrame
  BY <1>10 DEF CommsFrame, Unsubscribe
<1>11. ASSUME NEW s \in Senders, ClaimCampaign(s) PROVE CommsFrame
  BY <1>11 DEF CommsFrame, ClaimCampaign, SenderStep
<1>12. ASSUME NEW s \in Senders, Recheck(s) PROVE CommsFrame
  BY <1>12 DEF CommsFrame, Recheck, SenderStep
<1>13. ASSUME NEW s \in Senders, ReadBatch(s) PROVE CommsFrame
  BY <1>13 DEF CommsFrame, ReadBatch, SenderStep
<1>14. ASSUME NEW s \in Senders, NextRow(s) PROVE CommsFrame
  BY <1>14 DEF CommsFrame, NextRow, SenderStep
<1>15. ASSUME NEW s \in Senders, ClaimRow(s) PROVE CommsFrame
  BY <1>15 DEF CommsFrame, ClaimRow, SenderStep
<1>16. ASSUME NEW s \in Senders, PostMail(s) PROVE CommsFrame
  BY <1>16 DEF CommsFrame, PostMail, SenderStep
<1>17. ASSUME NEW s \in Senders, Answered(s) PROVE CommsFrame
  BY <1>17 DEF CommsFrame, Answered, SenderStep
<1>18. ASSUME NEW s \in Senders, CountPending(s) PROVE CommsFrame
  BY <1>18 DEF CommsFrame, CountPending, SenderStep
<1>19. ASSUME NEW s \in Senders, CloseCampaign(s) PROVE CommsFrame
  BY <1>19 DEF CommsFrame, CloseCampaign, SenderStep
<1>20. ASSUME NEW s \in Senders, SenderStops(s) PROVE CommsFrame
  BY <1>20 DEF CommsFrame, SenderStops, SenderStep
<1>21. ASSUME NEW i \in DOMAIN mails, NEW kind \in NoticeKinds, Notify(i, kind) PROVE CommsFrame
  BY <1>21 DEF CommsFrame, Notify
<1>22. ASSUME SomeBody PROVE CommsFrame
  BY <1>22 DEF CommsFrame, SomeBody, ProcessBody
<1>23. CASE UNCHANGED commsVars
  BY <1>23 DEF CommsFrame, commsVars
<1> QED
  BY <1>1, <1>2, <1>3, <1>4, <1>5, <1>6, <1>7, <1>8, <1>9, <1>10, <1>11, <1>12, <1>13, <1>14, <1>15, <1>16, <1>17,
    <1>18, <1>19, <1>20, <1>21, <1>22, <1>23 DEF CommsNext, SomeBody

\* What may become of the row of a campaign.
Decided(c, old, new) ==
  /\ old.status = "pending_approval" /\ new.status = "approved"
  /\ new.by = old.by /\ new.submitter = old.submitter /\ new.text = old.text
  /\ \E a \in Admins : /\ decision[a] # NoDecision /\ decision[a].campaign = c
                       /\ new.approver = a /\ new.shown = decision[a].text /\ a # old.submitter
Written(old, new) ==
  \/ old.status = "none" /\ new.status = "draft"
  \/ old.status = "draft" /\ new.status \in {"draft", "pending_approval"}
Ended(old, new) ==
  /\ old.status = "pending_approval" /\ new.status \in {"rejected", "cancelled"}
  /\ new.by = old.by /\ new.text = old.text
Moved(old, new) ==
  /\ old.status \in {"approved", "sending", "paused", "done"}
  /\ new.status \in {"approved", "sending", "paused", "done", "cancelled"}
  /\ new.by = old.by /\ new.submitter = old.submitter /\ new.text = old.text
  /\ new.approver = old.approver /\ new.shown = old.shown

LEMMA CampaignChanges ==
  ASSUME CommsInv, [CommsNext]_commsVars, campaign' # campaign
  PROVE  \E c \in Campaigns, new \in CampaignRows :
           /\ campaign' = [campaign EXCEPT ![c] = new]
           /\ \/ Written(campaign[c], new) \/ Decided(c, campaign[c], new)
              \/ Ended(campaign[c], new) \/ Moved(campaign[c], new)
<1> DEFINE Goal == \E c \in Campaigns, new \in CampaignRows :
           /\ campaign' = [campaign EXCEPT ![c] = new]
           /\ \/ Written(campaign[c], new) \/ Decided(c, campaign[c], new)
              \/ Ended(campaign[c], new) \/ Moved(campaign[c], new)
<1>0. CommsFrame /\ CommsTypeOK
  BY CommsFrames DEF CommsInv
<1> DEFINE Old(c) == campaign[c]
<1>1. \A c \in Campaigns : Old(c) \in CampaignRows
  BY <1>0 DEF CommsTypeOK
<1>2. ASSUME NEW c \in Campaigns, NEW status \in {"approved", "sending", "paused", "done", "cancelled"},
             Old(c).status \in {"approved", "sending", "paused", "done"}, PutStatus(c, status)
      PROVE  Goal
  <2>1. [Old(c) EXCEPT !.status = status] \in CampaignRows /\ Moved(Old(c), [Old(c) EXCEPT !.status = status])
    BY <1>1, <1>2 DEF CampaignRows, Positions, Moved
  <2>2. campaign' = [campaign EXCEPT ![c] = [Old(c) EXCEPT !.status = status]]
    BY <1>2 DEF PutStatus
  <2> HIDE DEF Old
  <2> QED
    BY <2>1, <2>2 DEF Old
<1>3. ASSUME NEW c \in Campaigns, NEW a \in Admins, CreateCampaign(c, a) PROVE Goal
  <2> DEFINE new == [NoCampaign EXCEPT !.status = "draft", !.by = a, !.text = 1]
  <2>1. new \in CampaignRows /\ new.status = "draft"
    BY DEF NoCampaign, CampaignRows, Positions
  <2>2. campaign' = [campaign EXCEPT ![c] = new] /\ Written(Old(c), new)
    BY <1>3, <2>1 DEF CreateCampaign, Written
  <2> HIDE DEF new
  <2> QED
    BY <2>1, <2>2
<1>4. ASSUME NEW c \in Campaigns, NEW a \in Admins, SubmitCampaign(c, a) PROVE Goal
  <2> DEFINE new == [Old(c) EXCEPT !.status = "pending_approval", !.request = "pending", !.submitter = a]
  <2>1. new \in CampaignRows /\ new.status = "pending_approval"
    BY <1>1 DEF CampaignRows, Positions
  <2>2. campaign' = [campaign EXCEPT ![c] = new] /\ Written(Old(c), new)
    BY <1>4, <2>1 DEF SubmitCampaign, Written
  <2> HIDE DEF new
  <2> QED
    BY <2>1, <2>2
<1>5. ASSUME NEW c \in Campaigns, UpdateDraft(c) PROVE Goal
  <2> DEFINE new == [Old(c) EXCEPT !.text = @ + 1]
  <2>1. new \in CampaignRows /\ new.status = Old(c).status
    BY <1>1 DEF CampaignRows
  <2>2. campaign' = [campaign EXCEPT ![c] = new] /\ Written(Old(c), new)
    BY <1>5, <2>1 DEF UpdateDraft, Editable, Written
  <2> HIDE DEF new
  <2> QED
    BY <2>1, <2>2
<1>6. ASSUME NEW c \in Campaigns, CancelCampaign(c) PROVE Goal
  <2> DEFINE new == [Old(c) EXCEPT !.status = "cancelled", !.request = IF @ = "pending" THEN "expired" ELSE @]
  <2>1. new \in CampaignRows /\ (Ended(Old(c), new) \/ Moved(Old(c), new))
    BY <1>1, <1>6 DEF CampaignRows, Positions, CancelCampaign, Ended, Moved
  <2>2. campaign' = [campaign EXCEPT ![c] = new]
    BY <1>6 DEF CancelCampaign
  <2> HIDE DEF new
  <2> QED
    BY <2>1, <2>2
<1>7. ASSUME NEW c \in Campaigns, PauseCampaign(c) \/ ResumeCampaign(c) PROVE Goal
  BY <1>2, <1>7 DEF PauseCampaign, ResumeCampaign
<1>8. ASSUME NEW c \in Campaigns, RequeueStale(c) PROVE Goal
  <2>0. PICK back : campaign' = [campaign EXCEPT ![c].status = IF @ = "done" /\ back # {} THEN "approved" ELSE @]
    BY <1>8 DEF RequeueStale
  <2> DEFINE status == IF Old(c).status = "done" /\ back # {} THEN "approved" ELSE Old(c).status
  <2>1. PutStatus(c, status)
    BY <2>0 DEF PutStatus
  <2>2. status # Old(c).status
    BY <1>0, <2>1 DEF PutStatus, CommsTypeOK, CampaignRows
  <2> HIDE DEF Goal
  <2> QED
    BY <1>2, <2>1, <2>2
<1>9. ASSUME NEW a \in Admins, DecideCampaign(a) PROVE Goal
  <2> DEFINE c == decision[a].campaign
  <2>1. decision[a] # NoDecision /\ c \in Campaigns /\ decision[a].text \in Nat
    BY <1>0, <1>9 DEF DecideCampaign, CommsInv, DecisionsKnow, CommsTypeOK, Decisions
  <2>2. CASE /\ campaign[c].status = "pending_approval" /\ campaign[c].submitter # a
             /\ campaign' = [campaign EXCEPT ![c].status = "approved", ![c].request = "approved",
                                             ![c].approver = a, ![c].shown = decision[a].text]
    <3> DEFINE new == [Old(c) EXCEPT !.status = "approved", !.request = "approved",
                                     !.approver = a, !.shown = decision[a].text]
    <3>1. new \in CampaignRows
      BY <1>1, <2>1, ZenonT(60) DEF CampaignRows, Positions
    <3>2. /\ new.status = "approved" /\ new.by = Old(c).by /\ new.submitter = Old(c).submitter
          /\ new.text = Old(c).text /\ new.approver = a /\ new.shown = decision[a].text
      BY <1>1, <2>1 DEF CampaignRows
    <3>3. campaign' = [campaign EXCEPT ![c] = new]
      BY <2>2
    <3> HIDE DEF new
    <3>4. Decided(c, Old(c), new)
      BY <2>1, <2>2, <3>2 DEF Decided
    <3> QED
      BY <2>1, <3>1, <3>3, <3>4
  <2>3. CASE /\ campaign[c].status = "pending_approval"
             /\ campaign' = [campaign EXCEPT ![c].status = "rejected", ![c].request = "rejected"]
    <3> DEFINE new == [Old(c) EXCEPT !.status = "rejected", !.request = "rejected"]
    <3>1. new \in CampaignRows /\ new.status = "rejected" /\ new.by = Old(c).by /\ new.text = Old(c).text
      BY <1>1, <2>1, ZenonT(60) DEF CampaignRows, Positions
    <3>2. campaign' = [campaign EXCEPT ![c] = new]
      BY <2>3
    <3> HIDE DEF new
    <3>3. Ended(Old(c), new)
      BY <2>3, <3>1 DEF Ended
    <3> QED
      BY <2>1, <3>1, <3>2, <3>3
  <2> QED
    BY <1>9, <2>2, <2>3 DEF DecideCampaign
<1>10. ASSUME NEW s \in Senders, ClaimCampaign(s) \/ Answered(s) \/ CloseCampaign(s) PROVE Goal
  <2>1. \E c, status : /\ PutStatus(c, status)
                       /\ \/ status = Old(c).status
                          \/ /\ c \in Campaigns /\ status \in {"sending", "paused", "done"}
                             /\ Old(c).status \in {"approved", "sending"}
    <3>1. CASE ClaimCampaign(s)
      BY <3>1 DEF ClaimCampaign
    <3>2. CASE Answered(s) \/ CloseCampaign(s)
      <4>1. sender[s].campaign \in Campaigns
        BY <3>2 DEF Answered, CloseCampaign, CommsInv, SendersKnow
      <4>2. \E status : /\ PutStatus(sender[s].campaign, status)
                        /\ \/ status = Old(sender[s].campaign).status
                           \/ /\ status \in {"paused", "done"}
                              /\ Old(sender[s].campaign).status = "sending"
        BY <3>2 DEF Answered, CloseCampaign
      <4> QED
        BY <4>1, <4>2
    <3> QED
      BY <1>10, <3>1, <3>2
  <2>2. PICK c, status : /\ PutStatus(c, status)
                         /\ \/ status = Old(c).status
                            \/ /\ c \in Campaigns /\ status \in {"sending", "paused", "done"}
                               /\ Old(c).status \in {"approved", "sending"}
    BY <2>1
  <2>3. status # Old(c).status
    <3>1. ASSUME status = Old(c).status PROVE campaign' = campaign
      BY <1>0, <2>2, <3>1 DEF PutStatus, CommsTypeOK, CampaignRows
    <3> QED
      BY <3>1
  <2> HIDE DEF Goal
  <2> QED
    BY <1>2, <2>2, <2>3
<1>11. ASSUME SomeBody PROVE Goal
  <2>1. \E x \in Campaigns \X People : Old(x[1]).status = "sending" /\ PutStatus(x[1], "paused")
    BY <1>11 DEF SomeBody, ProcessBody, StopsTheCampaign, RowOfMail
  <2> HIDE DEF Goal
  <2> QED
    BY <1>2, <2>1
<1> QED
  <2> HIDE DEF Goal
  <2>1. Goal
    BY <1>0, <1>3, <1>4, <1>5, <1>6, <1>7, <1>8, <1>9, <1>10, <1>11 DEF CommsFrame
  <2> QED
    BY <2>1 DEF Goal

\* What a campaign keeps once it has left its author.
LEMMA CampaignFacts ==
  ASSUME CommsInv, [CommsNext]_commsVars, NEW c \in Campaigns
  PROVE  /\ campaign'[c] \in CampaignRows
         /\ Approved(c) => Approved(c)' /\ campaign'[c].text = campaign[c].text
         /\ campaign[c].status \notin {"none", "draft"} =>
              /\ campaign'[c].status \notin {"none", "draft"}
              /\ campaign'[c].by = campaign[c].by /\ campaign'[c].text = campaign[c].text
         /\ campaign'[c].status \in {"approved", "sending", "paused", "done"} => Approved(c)'
<1>0. campaign \in [Campaigns -> CampaignRows] /\ campaign[c] \in CampaignRows
  BY DEF CommsInv, CommsTypeOK
<1>1. campaign[c].status \in {"approved", "sending", "paused", "done"} => Approved(c)
  BY DEF CommsInv, ApprovedBefore
<1>2. CASE campaign'[c] = campaign[c]
  BY <1>0, <1>1, <1>2 DEF Approved
<1>3. CASE campaign'[c] # campaign[c]
  <2>1. PICK b \in Campaigns, new \in CampaignRows :
           /\ campaign' = [campaign EXCEPT ![b] = new]
           /\ \/ Written(campaign[b], new) \/ Decided(b, campaign[b], new)
              \/ Ended(campaign[b], new) \/ Moved(campaign[b], new)
    BY <1>3, CampaignChanges
  <2>2. campaign'[c] = new /\ b = c
    BY <1>0, <1>3, <2>1
  <2>3. CASE Written(campaign[c], new)
    BY <1>1, <2>2, <2>3 DEF Written, Approved
  <2>4. CASE Ended(campaign[c], new)
    BY <1>1, <2>2, <2>4 DEF Ended, Approved
  <2>5. CASE Moved(campaign[c], new)
    BY <1>1, <2>2, <2>5 DEF Moved, Approved
  <2>6. CASE Decided(c, campaign[c], new)
    <3>1. PICK a \in Admins : /\ decision[a] # NoDecision /\ decision[a].campaign = c
                              /\ new.approver = a /\ new.shown = decision[a].text /\ a # campaign[c].submitter
      BY <2>6 DEF Decided
    <3>2. campaign[c].by # a /\ decision[a].text = campaign[c].text
      BY <3>1 DEF CommsInv, DecisionsKnow
    <3>3. a # NoAdmin
      BY CommsAssumption
    <3>4. Approved(c)'
      BY <2>2, <2>6, <3>1, <3>2, <3>3 DEF Decided, Approved
    <3> QED
      BY <2>2, <2>6, <3>4 DEF Decided, Approved
  <2> QED
    BY <2>1, <2>2, <2>3, <2>4, <2>5, <2>6
<1> QED
  BY <1>2, <1>3

\* What may become of a person's row: its status and the id of its mail.
Keeps(x) == row'[x].status = row[x].status /\ row'[x].mail = row[x].mail

LEMMA RowStep ==
  ASSUME CommsInv, [CommsNext]_commsVars, NEW x \in Campaigns \X People
  PROVE  \/ Keeps(x)
         \/ /\ row[x].status = "none" /\ campaign[x[1]].status = "pending_approval"
            /\ row'[x].status = "queued" /\ row'[x].mail = 0 /\ UNCHANGED sender
         \/ row[x].status = "queued" /\ row'[x].status = "skipped" /\ row'[x].mail = row[x].mail
         \/ /\ row[x].status = "sending" /\ \A s \in Senders : ~ Handling(s, x)
            /\ row'[x].status = "failed" /\ row'[x].mail = row[x].mail
         \/ /\ row[x].status = "failed" /\ row'[x].status = "queued" /\ row'[x].mail = 0
            /\ requeued'[x] = requeued[x] + 1
         \/ \E s \in Senders : /\ ClaimRow(s) /\ RowAt(s) = x /\ row[x].status = "queued"
                               /\ row'[x].status = "sending" /\ row'[x].mail = row[x].mail
         \/ \E s \in Senders : /\ Answered(s) /\ RowAt(s) = x
                               /\ \/ sender[s].answer = "ok" /\ row'[x].status = "sent"
                                  \/ /\ sender[s].answer # "ok" /\ row'[x].status \in {"queued", "failed"}
                                     /\ row'[x].mail = row[x].mail
         \/ row[x].mail # 0 /\ row'[x].status \in NoticeKinds
<1> DEFINE Goal ==
         \/ Keeps(x)
         \/ /\ row[x].status = "none" /\ campaign[x[1]].status = "pending_approval"
            /\ row'[x].status = "queued" /\ row'[x].mail = 0 /\ UNCHANGED sender
         \/ row[x].status = "queued" /\ row'[x].status = "skipped" /\ row'[x].mail = row[x].mail
         \/ /\ row[x].status = "sending" /\ \A s \in Senders : ~ Handling(s, x)
            /\ row'[x].status = "failed" /\ row'[x].mail = row[x].mail
         \/ /\ row[x].status = "failed" /\ row'[x].status = "queued" /\ row'[x].mail = 0
            /\ requeued'[x] = requeued[x] + 1
         \/ \E s \in Senders : /\ ClaimRow(s) /\ RowAt(s) = x /\ row[x].status = "queued"
                               /\ row'[x].status = "sending" /\ row'[x].mail = row[x].mail
         \/ \E s \in Senders : /\ Answered(s) /\ RowAt(s) = x
                               /\ \/ sender[s].answer = "ok" /\ row'[x].status = "sent"
                                  \/ /\ sender[s].answer # "ok" /\ row'[x].status \in {"queued", "failed"}
                                     /\ row'[x].mail = row[x].mail
         \/ row[x].mail # 0 /\ row'[x].status \in NoticeKinds
<1>0. CommsFrame /\ row \in [Campaigns \X People -> PersonRows] /\ row[x] \in PersonRows
  BY CommsFrames DEF CommsInv, CommsTypeOK
<1>1. CASE row'[x] = row[x]
  BY <1>1 DEF Keeps
<1>2. ASSUME NEW a \in Admins, DecideCampaign(a), row'[x] # row[x] PROVE Goal
  <2>1. /\ row'[x] = [NoRow EXCEPT !.status = "queued"] /\ UNCHANGED sender
        /\ x[1] = decision[a].campaign /\ campaign[decision[a].campaign].status = "pending_approval"
        /\ x[2] \in Audience(decision[a].campaign)
    BY <1>2 DEF DecideCampaign
  <2>2. row[x].status = "none"
    BY <2>1 DEF Audience
  <2>3. row'[x].status = "queued" /\ row'[x].mail = 0
    BY <2>1 DEF NoRow
  <2> QED
    BY <2>1, <2>2, <2>3
<1>3. ASSUME NEW c \in Campaigns, CancelCampaign(c), row'[x] # row[x] PROVE Goal
  <2>1. row[x].status = "queued" /\ row'[x] = [row[x] EXCEPT !.status = "skipped"]
    BY <1>3 DEF CancelCampaign
  <2> QED
    BY <1>0, <2>1 DEF PersonRows
<1>4. ASSUME NEW c \in Campaigns, RequeueStale(c), row'[x] # row[x] PROVE Goal
  <2>1. /\ x[1] = c /\ row[<<c, x[2]>>].status = "failed"
        /\ row'[x] = [NoRow EXCEPT !.status = "queued"] /\ requeued'[x] = requeued[x] + 1
    BY <1>4 DEF RequeueStale
  <2>2. row[x].status = "failed"
    BY <2>1
  <2>3. row'[x].status = "queued" /\ row'[x].mail = 0
    BY <2>1 DEF NoRow
  <2> QED
    BY <2>1, <2>2, <2>3
<1>5. ASSUME NEW y \in Campaigns \X People, RowDue(y), row'[x] # row[x] PROVE Goal
  <2>1. row' = [row EXCEPT ![y].due = TRUE]
    BY <1>5 DEF RowDue
  <2>2. row'[x] = [row[x] EXCEPT !.due = TRUE]
    BY <1>0, <1>5, <2>1
  <2> QED
    BY <1>0, <2>2 DEF PersonRows, Keeps
<1>6. ASSUME NEW s \in Senders, ClaimCampaign(s), row'[x] # row[x] PROVE Goal
  <2>1. Stuck(x) /\ row'[x] = [row[x] EXCEPT !.status = "failed", !.stale = TRUE]
    BY <1>6 DEF ClaimCampaign
  <2>2. \A u \in Senders : ~ Handling(u, x)
    BY <2>1 DEF Stuck, Handled, Handling, RowAt
  <2> QED
    BY <1>0, <2>1, <2>2 DEF PersonRows, Stuck
<1>7. ASSUME NEW s \in Senders, Recheck(s), row'[x] # row[x] PROVE Goal
  <2>1. row[x].status = "queued" /\ row'[x] = [row[x] EXCEPT !.status = "skipped"]
    BY <1>7 DEF Recheck
  <2> QED
    BY <1>0, <2>1 DEF PersonRows
<1>8. ASSUME NEW s \in Senders, ClaimRow(s), row'[x] # row[x] PROVE Goal
  <2>1. row' = [row EXCEPT ![RowAt(s)].status = "sending", ![RowAt(s)].attempts = @ + 1]
        /\ row[RowAt(s)].status = "queued"
    BY <1>8 DEF ClaimRow, RowAt, Mine
  <2>2. RowAt(s) = x
    BY <1>0, <1>8, <2>1
  <2>3. row'[x] = [row[x] EXCEPT !.status = "sending", !.attempts = @ + 1]
    BY <1>0, <2>1, <2>2
  <2>4. row'[x].status = "sending" /\ row'[x].mail = row[x].mail
    BY <1>0, <2>3 DEF PersonRows
  <2> QED
    BY <1>8, <2>1, <2>2, <2>4
<1>9. ASSUME NEW s \in Senders, Answered(s), row'[x] # row[x] PROVE Goal
  <2> DEFINE r == row[RowAt(s)]
             new == CASE sender[s].answer = "ok" -> [r EXCEPT !.status = "sent", !.mail = sender[s].mail]
                      [] sender[s].answer = "denied" -> [r EXCEPT !.status = "queued", !.attempts = @ - 1]
                      [] sender[s].answer \in Transient /\ TriedAgain(RowAt(s)) ->
                           [r EXCEPT !.status = "queued", !.due = FALSE]
                      [] OTHER -> [r EXCEPT !.status = "failed", !.stale = FALSE]
  <2>1. row' = [row EXCEPT ![RowAt(s)] = new]
    BY <1>9 DEF Answered, RowAt
  <2>2. RowAt(s) = x
    <3> HIDE DEF new
    <3> QED
      BY <1>0, <1>9, <2>1
  <2>3. row'[x] = new
    <3> HIDE DEF new
    <3> QED
      BY <1>0, <2>1, <2>2
  <2>4. r \in PersonRows
    BY <1>0, <2>2
  <2>5. CASE sender[s].answer = "ok"
    <3>1. row'[x] = [r EXCEPT !.status = "sent", !.mail = sender[s].mail]
      BY <2>3, <2>5 DEF Transient
    <3> QED
      BY <1>9, <2>2, <2>4, <2>5, <3>1 DEF PersonRows
  <2>6. CASE sender[s].answer # "ok"
    <3>1. \/ row'[x] = [r EXCEPT !.status = "queued", !.attempts = @ - 1]
          \/ row'[x] = [r EXCEPT !.status = "queued", !.due = FALSE]
          \/ row'[x] = [r EXCEPT !.status = "failed", !.stale = FALSE]
      BY <2>3, <2>6 DEF Transient
    <3>2. row'[x].status \in {"queued", "failed"} /\ row'[x].mail = r.mail
      BY <2>4, <3>1 DEF PersonRows
    <3> QED
      BY <1>9, <2>2, <2>6, <3>2
  <2> QED
    BY <2>5, <2>6
<1>10. ASSUME SomeBody, row'[x] # row[x] PROVE Goal
  <2>1. PICK n \in notices, y \in Campaigns \X People :
          /\ row[y].mail = n[1] /\ row' = [row EXCEPT ![y].status = n[2], ![y].stale = FALSE]
    BY <1>10 DEF SomeBody, ProcessBody, RowOfMail
  <2>2. n[1] \in DOMAIN mails /\ n[2] \in NoticeKinds /\ mails \in Seq(MailRows)
    BY DEF CommsInv, CommsTypeOK
  <2>3. n[1] # 0
    BY <2>2
  <2>4. x = y
    BY <1>0, <1>10, <2>1
  <2>5. row'[x] = [row[x] EXCEPT !.status = n[2], !.stale = FALSE]
    BY <1>0, <2>1, <2>4
  <2> QED
    BY <1>0, <2>1, <2>2, <2>3, <2>4, <2>5 DEF PersonRows
<1> QED
  <2> HIDE DEF Goal
  <2>1. ASSUME row'[x] # row[x] PROVE Goal
    <3>1. \/ \E c \in Campaigns : CancelCampaign(c) \/ RequeueStale(c)
          \/ \E a \in Admins : DecideCampaign(a)
          \/ \E y \in Campaigns \X People : RowDue(y)
          \/ \E s \in Senders : ClaimCampaign(s) \/ Recheck(s) \/ ClaimRow(s) \/ Answered(s)
          \/ SomeBody
      BY <1>0, <2>1 DEF CommsFrame
    <3> QED
      BY <1>2, <1>3, <1>4, <1>5, <1>6, <1>7, <1>8, <1>9, <1>10, <2>1, <3>1
  <2>2. row'[x] = row[x] => Goal
    BY <1>1 DEF Goal
  <2>3. Goal
    BY <2>1, <2>2
  <2> QED
    BY <2>3 DEF Goal

-----------------------------------------------------------------------------
(* Mass mail: the senders.                                                 *)

LEMMA BatchShape == ASSUME NEW B \in SUBSET People PROVE SetToSeq(B) \in Seq(People)
<1>1. IsFiniteSet(B)
  BY CommsAssumption, FS_Subset
<1>2. Cardinality(B) \in Nat /\ ExistsBijection(1..Cardinality(B), B)
  BY <1>1, FS_CardinalityType
<1>3. PICK f \in [1..Cardinality(B) -> B] : IsInjective(f)
  BY <1>2 DEF ExistsBijection, Bijection, Injection, Surjection, IsInjective
<1>4. SetToSeq(B) \in [1..Cardinality(B) -> B]
  BY <1>3 DEF SetToSeq
<1> QED
  BY <1>2, <1>4

\* Approved, in the next state.
ApprovedNext(c) ==
  /\ campaign'[c].status \notin {"none", "draft", "pending_approval", "rejected"}
  /\ campaign'[c].shown = campaign'[c].text
  /\ campaign'[c].approver \notin {NoAdmin, campaign'[c].by, campaign'[c].submitter}

\* What a step of a sender makes of its state.
Follows(s, new) ==
  /\ new \in SenderRows
  /\ new.pc # "rest" => new.campaign \in Campaigns /\ ApprovedNext(new.campaign)
  /\ new.pc \in {"next", "claim", "post", "result"} => new.text = campaign'[new.campaign].text
  /\ new.pc \in {"claim", "post", "result"} => new.person \in People
  /\ new.pc \notin {"rest", "recheck"} =>
       /\ new.campaign = sender[s].campaign /\ sender[s].pc # "rest"
       /\ \/ Recheck(s) /\ new.out = barred \ RowsOf(sender[s].campaign, {"sending"})
          \/ sender[s].pc # "recheck" /\ new.out = sender[s].out
  /\ new.pc \in {"post", "result"} =>
       /\ new.person = sender[s].person
       /\ \/ new.pc = "post" /\ ClaimRow(s) /\ row[RowAt(s)].status = "queued"
          \/ new.pc = "result" /\ PostMail(s) /\ sender[s].pc = "post"

LEMMA SenderFollows ==
  ASSUME CommsInv, [CommsNext]_commsVars, NEW s \in Senders, SenderStep(s)
  PROVE  UNCHANGED sender \/ \E new : sender' = [sender EXCEPT ![s] = new] /\ Follows(s, new)
<1> DEFINE old == sender[s]
           Goal == \E new : sender' = [sender EXCEPT ![s] = new] /\ Follows(s, new)
<1>0. old \in SenderRows /\ mails \in Seq(MailRows) /\ barred \subseteq People
  BY DEF CommsInv, CommsTypeOK
<1>1. old.pc # "rest" => /\ old.campaign \in Campaigns /\ ApprovedNext(old.campaign)
                         /\ campaign'[old.campaign].text = campaign[old.campaign].text
  <2>1. \A c \in Campaigns : Approved(c) => ApprovedNext(c) /\ campaign'[c].text = campaign[c].text
    BY CampaignFacts DEF Approved, ApprovedNext
  <2> QED
    BY <2>1 DEF CommsInv, SendersKnow
<1>2. /\ old.pc \in {"next", "claim", "post", "result"} => old.text = campaign[old.campaign].text
      /\ old.pc \in {"claim", "post", "result"} => old.person \in People
  BY DEF CommsInv, SendersKnow
<1>3. Resting \in SenderRows /\ Resting.pc = "rest"
  BY DEF Resting, SenderRows
<1>4. SenderAt(s, Resting) => Goal
  BY <1>3 DEF SenderAt, Follows
<1>5. ASSUME NEW pc \in {"next", "finish", "close"}, old.pc \in {"batch", "next", "claim", "result", "finish"},
             pc = "next" => old.pc \in {"claim", "result"},
             SenderAt(s, [old EXCEPT !.pc = pc])
      PROVE  Goal
  <2> DEFINE new == [old EXCEPT !.pc = pc]
  <2>1. /\ new \in SenderRows /\ new.pc = pc /\ new.campaign = old.campaign /\ new.text = old.text
        /\ new.out = old.out
    BY <1>0 DEF SenderRows
  <2>2. sender' = [sender EXCEPT ![s] = new]
    BY <1>5 DEF SenderAt
  <2> HIDE DEF new
  <2>3. Follows(s, new)
    BY <1>1, <1>2, <1>5, <2>1 DEF Follows
  <2> QED
    BY <2>2, <2>3
<1>6. CASE ClaimCampaign(s)
  <2>1. UNCHANGED sender \/ \E c \in Campaigns : /\ PutStatus(c, "sending")
                                                 /\ SenderAt(s, [Resting EXCEPT !.pc = "recheck", !.campaign = c])
    BY <1>6 DEF ClaimCampaign
  <2>2. ASSUME NEW c \in Campaigns, PutStatus(c, "sending"),
               SenderAt(s, [Resting EXCEPT !.pc = "recheck", !.campaign = c])
        PROVE  Goal
    <3> DEFINE new == [Resting EXCEPT !.pc = "recheck", !.campaign = c]
    <3>1. new \in SenderRows /\ new.pc = "recheck" /\ new.campaign = c
      BY <1>3 DEF SenderRows
    <3>2. campaign'[c].status = "sending"
      BY <2>2 DEF PutStatus, CommsInv, CommsTypeOK, CampaignRows
    <3>3. ApprovedNext(c)
      BY <3>2, CampaignFacts DEF Approved, ApprovedNext
    <3>4. sender' = [sender EXCEPT ![s] = new]
      BY <2>2 DEF SenderAt
    <3> HIDE DEF new
    <3> QED
      BY <3>1, <3>3, <3>4 DEF Follows
  <2> QED
    BY <2>1, <2>2
<1>7. CASE Recheck(s)
  <2> DEFINE new == [old EXCEPT !.pc = "batch", !.out = barred \ RowsOf(old.campaign, {"sending"})]
  <2>1. sender' = [sender EXCEPT ![s] = new]
    BY <1>7 DEF Recheck, SenderAt
  <2>2. /\ new \in SenderRows /\ new.pc = "batch" /\ new.campaign = old.campaign
        /\ new.out = barred \ RowsOf(old.campaign, {"sending"})
    BY <1>0 DEF SenderRows
  <2> HIDE DEF new
  <2>3. Follows(s, new)
    BY <1>1, <1>7, <2>2 DEF Follows, Recheck
  <2> QED
    BY <2>1, <2>3
<1>8. CASE ReadBatch(s)
  <2>1. PICK B \in SUBSET People :
          SenderAt(s, [old EXCEPT !.text = campaign[old.campaign].text, !.batch = SetToSeq(B),
                                  !.pc = IF B = {} THEN "finish" ELSE "next"])
    BY <1>8 DEF ReadBatch, RowsOf
  <2> DEFINE new == [old EXCEPT !.text = campaign[old.campaign].text, !.batch = SetToSeq(B),
                                !.pc = IF B = {} THEN "finish" ELSE "next"]
  <2>2. sender' = [sender EXCEPT ![s] = new]
    BY <2>1 DEF SenderAt
  <2>3. old.pc = "batch" /\ campaign[old.campaign].text \in Nat /\ SetToSeq(B) \in Seq(People)
    BY <1>1, <1>8, BatchShape DEF ReadBatch, CommsInv, CommsTypeOK, CampaignRows
  <2>4. /\ new \in SenderRows /\ new.pc \in {"finish", "next"} /\ new.campaign = old.campaign
        /\ new.text = campaign[old.campaign].text /\ new.out = old.out
    BY <1>0, <2>3 DEF SenderRows
  <2> HIDE DEF new
  <2>5. Follows(s, new)
    BY <1>1, <2>3, <2>4 DEF Follows
  <2> QED
    BY <2>2, <2>5
<1>9. CASE NextRow(s)
  <2>1. CASE old.batch = <<>>
    <3>1. old.pc = "next" /\ SenderAt(s, [old EXCEPT !.pc = "finish"])
      BY <1>9, <2>1 DEF NextRow
    <3> QED
      BY <1>5, <3>1
  <2>2. CASE old.batch # <<>> /\ SenderAt(s, Resting)
    BY <1>4, <2>2
  <2>3. CASE old.batch # <<>> /\ SenderAt(s, [old EXCEPT !.pc = "claim", !.person = Head(old.batch),
                                                       !.batch = Tail(old.batch)])
    <3> DEFINE new == [old EXCEPT !.pc = "claim", !.person = Head(old.batch), !.batch = Tail(old.batch)]
    <3>1. Head(old.batch) \in People /\ Tail(old.batch) \in Seq(People)
      <4>1. old.batch \in Seq(People) /\ old.batch # <<>>
        BY <1>0, <2>3 DEF SenderRows
      <4> HIDE DEF old
      <4> QED
        BY <4>1
    <3>2. /\ new \in SenderRows /\ new.pc = "claim" /\ new.campaign = old.campaign
          /\ new.person = Head(old.batch) /\ new.text = old.text /\ new.out = old.out
      BY <1>0, <3>1 DEF SenderRows
    <3>3. sender' = [sender EXCEPT ![s] = new]
      BY <2>3 DEF SenderAt
    <3>4. old.pc = "next"
      BY <1>9 DEF NextRow
    <3> HIDE DEF new
    <3>5. Follows(s, new)
      BY <1>1, <1>2, <3>1, <3>2, <3>4 DEF Follows
    <3> QED
      BY <3>3, <3>5
  <2> QED
    BY <1>9, <2>1, <2>2, <2>3 DEF NextRow
<1>10. CASE ClaimRow(s)
  <2>1. CASE ~ Mine(RowAt(s))
    <3>1. old.pc = "claim" /\ SenderAt(s, [old EXCEPT !.pc = "next"])
      BY <1>10, <2>1 DEF ClaimRow, RowAt
    <3> QED
      BY <1>5, <3>1
  <2>2. CASE Mine(RowAt(s))
    <3> DEFINE new == [old EXCEPT !.pc = "post"]
    <3>1. old.pc = "claim" /\ sender' = [sender EXCEPT ![s] = new]
      BY <1>10, <2>2 DEF ClaimRow, RowAt, SenderAt
    <3>2. /\ new \in SenderRows /\ new.pc = "post" /\ new.campaign = old.campaign
          /\ new.person = old.person /\ new.text = old.text /\ new.out = old.out
      BY <1>0 DEF SenderRows
    <3> HIDE DEF new
    <3>3. Follows(s, new)
      BY <1>1, <1>2, <1>10, <2>2, <3>1, <3>2 DEF Follows, Mine
    <3> QED
      BY <3>1, <3>3
  <2> QED
    BY <2>1, <2>2
<1>11. CASE PostMail(s)
  <2> DEFINE New(answer, mail) == [old EXCEPT !.pc = "result", !.answer = answer, !.mail = mail]
  <2>1. \/ \E answer \in {"ok", "timeout"} :
             SenderAt(s, New(answer, Len(mails) + 1))
        \/ \E answer \in {"timeout", "throttled", "rejected", "denied"} :
             SenderAt(s, [old EXCEPT !.pc = "result", !.answer = answer])
    BY <1>11 DEF PostMail
  <2>2. \E answer \in {"ok", "timeout", "throttled", "rejected", "denied"}, mail \in Nat :
          SenderAt(s, New(answer, mail))
    <3>1. Len(mails) + 1 \in Nat
      BY <1>0
    <3>2. old.mail \in Nat
      BY <1>0 DEF SenderRows
    <3>3. ASSUME NEW answer, SenderAt(s, [old EXCEPT !.pc = "result", !.answer = answer])
          PROVE  SenderAt(s, New(answer, old.mail))
      <4>1. [old EXCEPT !.pc = "result", !.answer = answer] = New(answer, old.mail)
        BY <1>0 DEF SenderRows
      <4> HIDE DEF New
      <4> QED
        BY <3>3, <4>1
    <3> HIDE DEF New
    <3>4. CASE \E answer \in {"ok", "timeout"} : SenderAt(s, New(answer, Len(mails) + 1))
      BY <3>1, <3>4
    <3>5. CASE \E answer \in {"timeout", "throttled", "rejected", "denied"} :
                 SenderAt(s, [old EXCEPT !.pc = "result", !.answer = answer])
      BY <3>2, <3>3, <3>5
    <3> QED
      BY <2>1, <3>4, <3>5
  <2>3. PICK answer \in {"ok", "timeout", "throttled", "rejected", "denied"}, mail \in Nat :
          SenderAt(s, New(answer, mail))
    BY <2>2
  <2>4. /\ New(answer, mail) \in SenderRows /\ New(answer, mail).pc = "result"
        /\ New(answer, mail).campaign = old.campaign /\ New(answer, mail).person = old.person
        /\ New(answer, mail).text = old.text /\ New(answer, mail).out = old.out
    BY <1>0 DEF SenderRows
  <2>5. sender' = [sender EXCEPT ![s] = New(answer, mail)]
    BY <2>3 DEF SenderAt
  <2>6. old.pc = "post"
    BY <1>11 DEF PostMail
  <2> HIDE DEF New
  <2>7. Follows(s, New(answer, mail))
    BY <1>1, <1>2, <1>11, <2>4, <2>6 DEF Follows
  <2> QED
    BY <2>5, <2>7
<1>12. CASE Answered(s)
  <2>1. CASE sender[s].answer = "denied"
    BY <1>4, <1>12, <2>1 DEF Answered
  <2>2. CASE sender[s].answer # "denied"
    <3> DEFINE new == [old EXCEPT !.pc = "next", !.person = NoAdmin, !.answer = "", !.mail = 0]
    <3>1. old.pc = "result" /\ sender' = [sender EXCEPT ![s] = new]
      BY <1>12, <2>2 DEF Answered, SenderAt
    <3>2. /\ new \in SenderRows /\ new.pc = "next" /\ new.campaign = old.campaign
          /\ new.text = old.text /\ new.out = old.out
      BY <1>0 DEF SenderRows
    <3> HIDE DEF new
    <3>3. Follows(s, new)
      BY <1>1, <1>2, <3>1, <3>2 DEF Follows
    <3> QED
      BY <3>1, <3>3
  <2> QED
    BY <2>1, <2>2
<1>13. CASE CountPending(s)
  BY <1>4, <1>5, <1>13 DEF CountPending
<1>14. CASE CloseCampaign(s) \/ SenderStops(s)
  BY <1>4, <1>14 DEF CloseCampaign, SenderStops
<1> QED
  BY <1>6, <1>7, <1>8, <1>9, <1>10, <1>11, <1>12, <1>13, <1>14 DEF SenderStep

LEMMA SendersAfter ==
  ASSUME CommsInv, [CommsNext]_commsVars, NEW u \in Senders
  PROVE  /\ sender'[u] = sender[u] \/ Follows(u, sender'[u])
         /\ \A s \in Senders : SenderStep(s) /\ s # u => sender'[u] = sender[u]
<1>0. CommsFrame /\ sender \in [Senders -> SenderRows]
  BY CommsFrames DEF CommsInv, CommsTypeOK
<1>1. ASSUME NEW s \in Senders, SenderStep(s), s # u PROVE sender'[u] = sender[u]
  <2>1. ASSUME NEW new, sender' = [sender EXCEPT ![s] = new] PROVE sender'[u] = sender[u]
    BY <1>0, <1>1, <2>1
  <2> QED
    BY <1>1, <2>1, SenderFollows
<1>2. ASSUME NEW s \in Senders, SenderStep(s), s = u PROVE sender'[u] = sender[u] \/ Follows(u, sender'[u])
  <2>1. Recheck(s) => Recheck(u)
    BY <1>2 DEF Recheck, SenderAt
  <2>2. ClaimRow(s) => ClaimRow(u)
    BY <1>2 DEF ClaimRow, SenderAt
  <2>3. PostMail(s) => PostMail(u)
    BY <1>2 DEF PostMail, SenderAt
  <2>4. ASSUME NEW new, sender' = [sender EXCEPT ![s] = new], Follows(s, new) PROVE Follows(u, sender'[u])
    <3>1. sender'[u] = new
      BY <1>0, <1>2, <2>4
    <3>2. Follows(u, new)
      BY <1>2, <2>1, <2>2, <2>3, <2>4 DEF Follows, RowAt
    <3> QED
      BY <3>1, <3>2
  <2> QED
    BY <1>2, <2>4, SenderFollows
<1>3. UNCHANGED sender \/ \E s \in Senders : SenderStep(s)
  BY <1>0 DEF CommsFrame
<1> QED
  BY <1>1, <1>2, <1>3

\* Who handles a row after a step handled it before, or has just claimed it.
LEMMA HandlingAfter ==
  ASSUME CommsInv, [CommsNext]_commsVars, NEW x, NEW u \in Senders, Handling(u, x)'
  PROVE  \/ Handling(u, x) /\ sender'[u] = sender[u]
         \/ Handling(u, x) /\ sender[u].pc = "post" /\ PostMail(u)
         \/ ClaimRow(u) /\ RowAt(u) = x /\ row[x].status = "queued"
<1>1. CASE sender'[u] = sender[u]
  BY <1>1 DEF Handling, RowAt
<1>2. CASE Follows(u, sender'[u])
  <2>1. sender'[u].pc \in {"post", "result"} /\ <<sender'[u].campaign, sender'[u].person>> = x
    BY DEF Handling, RowAt
  <2>2. sender'[u].campaign = sender[u].campaign /\ sender'[u].person = sender[u].person
    BY <1>2, <2>1 DEF Follows
  <2>3. RowAt(u) = x
    BY <2>1, <2>2 DEF RowAt
  <2>4. \/ ClaimRow(u) /\ row[RowAt(u)].status = "queued"
        \/ PostMail(u) /\ sender[u].pc = "post"
    BY <1>2, <2>1 DEF Follows
  <2> QED
    BY <2>3, <2>4 DEF Handling
<1> QED
  BY <1>1, <1>2, SendersAfter

\* Who stops handling a row, or handled it all along, is who moves it.
LEMMA HandledRow ==
  ASSUME CommsInv, [CommsNext]_commsVars, NEW x \in Campaigns \X People, NEW s \in Senders, Handling(s, x),
         ~ (Answered(s) /\ RowAt(s) = x)
  PROVE  row'[x].status = "sending"
<1>1. row[x].status = "sending" /\ \A u \in Senders : Handling(u, x) => u = s
  BY DEF CommsInv, OneHandler
<1>2. row[x].mail = 0
  BY <1>1 DEF CommsInv, OnlySentHaveMail, NoticeKinds
<1>3. ASSUME NEW u \in Senders, Answered(u), RowAt(u) = x PROVE FALSE
  <2>1. Handling(u, x)
    BY <1>3 DEF Answered, Handling
  <2> QED
    BY <1>1, <1>3, <2>1
<1> QED
  BY <1>1, <1>2, <1>3, RowStep DEF Keeps

LEMMA OneHandlerStays == ASSUME CommsInv, [CommsNext]_commsVars PROVE OneHandler'
<1> SUFFICES ASSUME NEW x \in Campaigns \X People, NEW s \in Senders, Handling(s, x)'
             PROVE  row'[x].status = "sending" /\ \A u \in Senders : Handling(u, x)' => u = s
  BY DEF OneHandler
<1>0. row \in [Campaigns \X People -> PersonRows]
  BY DEF CommsInv, CommsTypeOK
<1>1. CASE Handling(s, x)
  <2>1. row[x].status = "sending" /\ \A u \in Senders : Handling(u, x) => u = s
    BY <1>1 DEF CommsInv, OneHandler
  <2>2. ~ Answered(s)
    <3>1. ASSUME Answered(s), sender'[s] = sender[s] PROVE FALSE
      <4>1. \E new : sender' = [sender EXCEPT ![s] = new] /\ new.pc \in {"rest", "next"}
        <5>1. [sender[s] EXCEPT !.pc = "next", !.person = NoAdmin, !.answer = "", !.mail = 0].pc = "next"
          BY DEF CommsInv, CommsTypeOK, SenderRows
        <5>2. Resting.pc = "rest"
          BY DEF Resting
        <5> QED
          BY <3>1, <5>1, <5>2 DEF Answered, SenderAt
      <4>2. sender'[s].pc \in {"rest", "next"}
        BY <4>1 DEF CommsInv, CommsTypeOK
      <4> QED
        BY <4>2 DEF Handling
    <3>2. Answered(s) => sender[s].pc = "result"
      BY DEF Answered
    <3> QED
      BY <1>1, <2>1, <3>1, <3>2, HandlingAfter
  <2>3. row'[x].status = "sending"
    BY <1>1, <2>2, HandledRow
  <2>4. ASSUME NEW u \in Senders, Handling(u, x)' PROVE u = s
    BY <2>1, <2>4, HandlingAfter
  <2> QED
    BY <2>3, <2>4
<1>2. CASE ~ Handling(s, x)
  <2>1. ClaimRow(s) /\ RowAt(s) = x /\ row[x].status = "queued"
    BY <1>2, HandlingAfter
  <2>2. row' = [row EXCEPT ![x].status = "sending", ![x].attempts = @ + 1]
    BY <2>1 DEF ClaimRow, RowAt, Mine
  <2>3. row'[x] = [row[x] EXCEPT !.status = "sending", !.attempts = @ + 1] /\ row[x] \in PersonRows
    BY <1>0, <2>2
  <2>4. row'[x].status = "sending"
    BY <2>3 DEF PersonRows
  <2>5. ASSUME NEW u \in Senders, Handling(u, x)', u # s PROVE FALSE
    <3>1. sender'[u] = sender[u]
      BY <2>1, <2>5, SendersAfter DEF SenderStep
    <3>2. Handling(u, x)
      BY <2>5, <3>1 DEF Handling, RowAt
    <3> QED
      BY <2>1, <3>2 DEF CommsInv, OneHandler
  <2> QED
    BY <2>4, <2>5
<1> QED
  BY <1>1, <1>2

LEMMA OnlySentHaveMailStays == ASSUME CommsInv, [CommsNext]_commsVars PROVE OnlySentHaveMail'
<1> SUFFICES ASSUME NEW x \in Campaigns \X People, row'[x].mail # 0
             PROVE  row'[x].status \in {"sent"} \cup NoticeKinds
  BY DEF OnlySentHaveMail
<1>1. row[x].mail # 0 => row[x].status \in {"sent"} \cup NoticeKinds
  BY DEF CommsInv, OnlySentHaveMail
<1>2. ASSUME NEW s \in Senders, Answered(s), RowAt(s) = x PROVE row[x].status = "sending"
  BY <1>2 DEF Answered, Handling, CommsInv, OneHandler
<1> QED
  BY <1>1, <1>2, RowStep DEF Keeps, NoticeKinds

LEMMA OutStaysOutStays == ASSUME CommsInv, [CommsNext]_commsVars PROVE OutStaysOut'
<1> SUFFICES ASSUME NEW s \in Senders, sender'[s].pc \notin {"rest", "recheck"}, NEW p \in sender'[s].out
             PROVE  \/ requeued'[<<sender'[s].campaign, p>>] > 0
                    \/ row'[<<sender'[s].campaign, p>>].status \notin {"queued", "sending"}
  BY DEF OutStaysOut
<1> DEFINE c == sender[s].campaign
           x == <<c, p>>
<1>0. CommsFrame /\ CommsTypeOK
  BY CommsFrames DEF CommsInv
<1>1. /\ sender'[s].campaign = c /\ sender[s].pc # "rest"
      /\ \/ Recheck(s) /\ p \in barred \ RowsOf(c, {"sending"})
         \/ sender[s].pc # "recheck" /\ p \in sender[s].out
  BY SendersAfter DEF Follows
<1>2. x \in Campaigns \X People /\ campaign[c].status # "pending_approval"
  <2>1. c \in Campaigns /\ Approved(c)
    BY <1>1 DEF CommsInv, SendersKnow
  <2>2. p \in People
    BY <1>0, <1>1 DEF CommsTypeOK, SenderRows
  <2> QED
    BY <2>1, <2>2 DEF Approved
<1>3. requeued[x] \in Nat /\ requeued'[x] \in Nat /\ requeued'[x] >= requeued[x]
  <2>1. ASSUME NEW b \in Campaigns, RequeueStale(b) PROVE requeued'[x] = requeued[x] \/ requeued'[x] = requeued[x] + 1
    BY <1>2, <2>1 DEF RequeueStale
  <2>2. UNCHANGED requeued \/ \E b \in Campaigns : RequeueStale(b)
    BY <1>0 DEF CommsFrame
  <2>3. requeued[x] \in Nat
    BY <1>0, <1>2 DEF CommsTypeOK
  <2>4. requeued'[x] = requeued[x] \/ requeued'[x] = requeued[x] + 1
    <3> HIDE DEF x
    <3> QED
      BY <2>1, <2>2
  <2> QED
    BY <2>3, <2>4
<1>4. CASE Recheck(s) /\ p \in barred \ RowsOf(c, {"sending"})
  <2>1. row[x].status # "sending"
    BY <1>2, <1>4 DEF RowsOf
  <2>2. row'[x] = IF row[x].status = "queued" THEN [row[x] EXCEPT !.status = "skipped"] ELSE row[x]
    BY <1>2, <1>4 DEF Recheck, Gone
  <2>3. row[x] \in PersonRows
    BY <1>0, <1>2 DEF CommsTypeOK
  <2> QED
    BY <1>1, <2>1, <2>2, <2>3 DEF PersonRows
<1>5. CASE sender[s].pc # "recheck" /\ p \in sender[s].out
  <2>1. requeued[x] > 0 \/ row[x].status \notin {"queued", "sending"}
    BY <1>1, <1>5 DEF CommsInv, OutStaysOut
  <2>2. ASSUME row[x].status \notin {"queued", "sending"}
        PROVE  row'[x].status \notin {"queued", "sending"} \/ requeued'[x] = requeued[x] + 1
    <3>1. ASSUME NEW u \in Senders, Answered(u), RowAt(u) = x PROVE FALSE
      BY <1>2, <2>2, <3>1 DEF Answered, Handling, CommsInv, OneHandler
    <3>2. x[1] = c
      OBVIOUS
    <3> HIDE DEF x
    <3> QED
      BY <1>2, <2>2, <3>1, <3>2, RowStep DEF Keeps, NoticeKinds
  <2> QED
    BY <1>1, <1>3, <2>1, <2>2
<1> QED
  BY <1>1, <1>4, <1>5

LEMMA CommsRowsTyped == ASSUME CommsInv, [CommsNext]_commsVars PROVE row' \in [Campaigns \X People -> PersonRows]
<1> DEFINE Typed == row' \in [Campaigns \X People -> PersonRows]
<1>0. CommsFrame /\ row \in [Campaigns \X People -> PersonRows]
  BY CommsFrames DEF CommsInv, CommsTypeOK
<1>1. \A x \in Campaigns \X People : row[x] \in PersonRows
  BY <1>0
<1>2. [NoRow EXCEPT !.status = "queued"] \in PersonRows
  <2>1. NoRow \in PersonRows
    BY DEF NoRow, PersonRows
  <2> QED
    BY <2>1 DEF PersonRows
<1>3. ASSUME NEW r \in PersonRows, NEW status \in {"queued", "skipped", "sending", "failed", "sent"} \cup NoticeKinds,
             NEW stale \in BOOLEAN, NEW due \in BOOLEAN, NEW mail \in Nat
      PROVE  /\ [r EXCEPT !.status = status] \in PersonRows
             /\ [r EXCEPT !.status = status, !.stale = stale] \in PersonRows
             /\ [r EXCEPT !.due = due] \in PersonRows
             /\ [r EXCEPT !.status = status, !.due = due] \in PersonRows
             /\ [r EXCEPT !.status = status, !.mail = mail] \in PersonRows
             /\ [r EXCEPT !.status = status, !.attempts = @ + 1] \in PersonRows
             /\ [r EXCEPT !.status = status, !.attempts = @ - 1] \in PersonRows
  <2>1. /\ r.attempts + 1 \in Int /\ r.attempts - 1 \in Int
        /\ status \in {"none", "queued", "sending", "sent", "failed", "skipped"} \cup NoticeKinds
    BY DEF PersonRows
  <2>2. [r EXCEPT !.status = status] \in PersonRows
    BY <2>1 DEF PersonRows
  <2>3. [r EXCEPT !.status = status, !.stale = stale] \in PersonRows
    BY <2>1 DEF PersonRows
  <2>4. [r EXCEPT !.due = due] \in PersonRows
    BY <2>1 DEF PersonRows
  <2>5. [r EXCEPT !.status = status, !.due = due] \in PersonRows
    BY <2>1 DEF PersonRows
  <2>6. [r EXCEPT !.status = status, !.mail = mail] \in PersonRows
    BY <2>1 DEF PersonRows
  <2>7. [r EXCEPT !.status = status, !.attempts = @ + 1] \in PersonRows
    BY <2>1 DEF PersonRows
  <2>8. [r EXCEPT !.status = status, !.attempts = @ - 1] \in PersonRows
    BY <2>1 DEF PersonRows
  <2> QED
    BY <2>2, <2>3, <2>4, <2>5, <2>6, <2>7, <2>8
<1>4. ASSUME NEW c \in Campaigns, CancelCampaign(c) PROVE Typed
  BY <1>1, <1>3, <1>4 DEF CancelCampaign
<1>5. ASSUME NEW c \in Campaigns, RequeueStale(c) PROVE Typed
  <2>1. PICK back : row' = [x \in Campaigns \X People |->
             IF x[1] = c /\ x[2] \in back THEN [NoRow EXCEPT !.status = "queued"] ELSE row[x]]
    BY <1>5 DEF RequeueStale
  <2> QED
    BY <1>1, <1>2, <2>1
<1>6. ASSUME NEW a \in Admins, DecideCampaign(a) PROVE Typed
  <2>1. UNCHANGED row \/ \E c : row' = [x \in Campaigns \X People |->
                          IF x[1] = c /\ x[2] \in Audience(c)
                          THEN [NoRow EXCEPT !.status = "queued"] ELSE row[x]]
    BY <1>6 DEF DecideCampaign
  <2> QED
    BY <1>0, <1>1, <1>2, <2>1
<1>7. ASSUME NEW x \in Campaigns \X People, RowDue(x) PROVE Typed
  <2>1. row' = [row EXCEPT ![x] = [row[x] EXCEPT !.due = TRUE]]
    BY <1>7 DEF RowDue
  <2> QED
    BY <1>0, <1>1, <1>3, <2>1
<1>8. ASSUME NEW s \in Senders, ClaimCampaign(s) PROVE Typed
  BY <1>1, <1>3, <1>8 DEF ClaimCampaign
<1>9. ASSUME NEW s \in Senders, Recheck(s) PROVE Typed
  BY <1>1, <1>3, <1>9 DEF Recheck
<1>10. ASSUME NEW s \in Senders, ClaimRow(s) PROVE Typed
  <2>1. UNCHANGED row \/ row' = [row EXCEPT ![RowAt(s)] = [row[RowAt(s)] EXCEPT !.status = "sending", !.attempts = @ + 1]]
    BY <1>10 DEF ClaimRow, RowAt
  <2>2. RowAt(s) \in Campaigns \X People
    BY <1>10 DEF ClaimRow, RowAt, CommsInv, SendersKnow
  <2>3. [row[RowAt(s)] EXCEPT !.status = "sending", !.attempts = @ + 1] \in PersonRows
    BY <1>1, <1>3, <2>2
  <2> QED
    BY <1>0, <2>1, <2>3
<1>11. ASSUME NEW s \in Senders, Answered(s) PROVE Typed
  <2> DEFINE r == row[RowAt(s)]
  <2>1. PICK new : /\ row' = [row EXCEPT ![RowAt(s)] = new]
                   /\ \/ new = [r EXCEPT !.status = "sent", !.mail = sender[s].mail]
                      \/ new = [r EXCEPT !.status = "queued", !.attempts = @ - 1]
                      \/ new = [r EXCEPT !.status = "queued", !.due = FALSE]
                      \/ new = [r EXCEPT !.status = "failed", !.stale = FALSE]
    <3> DEFINE new == CASE sender[s].answer = "ok" -> [r EXCEPT !.status = "sent", !.mail = sender[s].mail]
                      [] sender[s].answer = "denied" -> [r EXCEPT !.status = "queued", !.attempts = @ - 1]
                      [] sender[s].answer \in Transient /\ TriedAgain(RowAt(s)) ->
                           [r EXCEPT !.status = "queued", !.due = FALSE]
                      [] OTHER -> [r EXCEPT !.status = "failed", !.stale = FALSE]
    <3>1. row' = [row EXCEPT ![RowAt(s)] = new]
      BY <1>11 DEF Answered, RowAt
    <3>2. \/ new = [r EXCEPT !.status = "sent", !.mail = sender[s].mail]
          \/ new = [r EXCEPT !.status = "queued", !.attempts = @ - 1]
          \/ new = [r EXCEPT !.status = "queued", !.due = FALSE]
          \/ new = [r EXCEPT !.status = "failed", !.stale = FALSE]
      BY DEF Transient
    <3> HIDE DEF new, r
    <3> QED
      BY <3>1, <3>2
  <2>2. RowAt(s) \in Campaigns \X People /\ sender[s].mail \in Nat
    BY <1>11 DEF Answered, RowAt, CommsInv, SendersKnow, CommsTypeOK, SenderRows
  <2>3. r \in PersonRows
    BY <1>1, <2>2
  <2>4. new \in PersonRows
    <3> HIDE DEF r
    <3>1. [r EXCEPT !.status = "sent", !.mail = sender[s].mail] \in PersonRows
      BY <1>3, <2>2, <2>3
    <3>2. [r EXCEPT !.status = "queued", !.attempts = @ - 1] \in PersonRows
      BY <1>3, <2>3
    <3>3. [r EXCEPT !.status = "queued", !.due = FALSE] \in PersonRows
      BY <2>3 DEF PersonRows
    <3>4. [r EXCEPT !.status = "failed", !.stale = FALSE] \in PersonRows
      BY <2>3 DEF PersonRows
    <3> QED
      BY <2>1, <3>1, <3>2, <3>3, <3>4
  <2> QED
    BY <1>0, <2>1, <2>4
<1>12. ASSUME SomeBody PROVE Typed
  <2>1. CASE UNCHANGED row
    BY <1>0, <2>1
  <2>2. CASE row' # row
    <3>1. PICK n \in notices, y \in Campaigns \X People : row' = [row EXCEPT ![y].status = n[2], ![y].stale = FALSE]
      BY <1>12, <2>2 DEF SomeBody, ProcessBody, RowOfMail
    <3> DEFINE new == [row[y] EXCEPT !.status = n[2], !.stale = FALSE]
    <3>2. row' = [row EXCEPT ![y] = new]
      BY <1>0, <3>1
    <3>3. n[2] \in NoticeKinds /\ row[y] \in PersonRows
      BY <1>1 DEF CommsInv, CommsTypeOK
    <3>4. new \in PersonRows
      BY <3>3 DEF PersonRows
    <3> HIDE DEF new
    <3> QED
      BY <1>0, <3>2, <3>4
  <2> QED
    BY <2>1, <2>2
<1> QED
  <2> HIDE DEF Typed
  <2>1. UNCHANGED row => Typed
    BY <1>0 DEF Typed
  <2>2. Typed
    BY <1>0, <1>4, <1>5, <1>6, <1>7, <1>8, <1>9, <1>10, <1>11, <1>12, <2>1 DEF CommsFrame
  <2> QED
    BY <2>2 DEF Typed

\* The mails are only appended to, and only by a sender that is posting.
LEMMA MailsAfter ==
  ASSUME CommsInv, [CommsNext]_commsVars
  PROVE  /\ mails' \in Seq(MailRows) /\ DOMAIN mails \subseteq DOMAIN mails'
         /\ \A i \in DOMAIN mails : mails'[i] = mails[i]
         /\ UNCHANGED mails \/
            \E s \in Senders, mail \in MailRows :
              /\ PostMail(s) /\ sender[s].pc = "post" /\ mails' = Append(mails, mail)
              /\ mail.campaign = sender[s].campaign /\ mail.person = sender[s].person /\ mail.text = sender[s].text
<1>0. CommsFrame /\ mails \in Seq(MailRows)
  BY CommsFrames DEF CommsInv, CommsTypeOK
<1>1. CASE UNCHANGED mails
  BY <1>0, <1>1
<1>2. ASSUME NEW s \in Senders, PostMail(s), mails' # mails
      PROVE  \E mail \in MailRows :
              /\ PostMail(s) /\ sender[s].pc = "post" /\ mails' = Append(mails, mail)
              /\ mail.campaign = sender[s].campaign /\ mail.person = sender[s].person /\ mail.text = sender[s].text
  <2>1. PICK answer \in {"ok", "timeout"} :
          mails' = Append(mails, [campaign |-> sender[s].campaign, person |-> sender[s].person,
                                  text |-> sender[s].text, answer |-> answer])
    BY <1>2 DEF PostMail
  <2> DEFINE mail == [campaign |-> sender[s].campaign, person |-> sender[s].person,
                      text |-> sender[s].text, answer |-> answer]
  <2>2. sender[s].pc = "post"
    BY <1>2 DEF PostMail
  <2>3. sender[s].campaign \in Campaigns /\ sender[s].person \in People /\ sender[s].text \in Nat
    BY <2>2 DEF CommsInv, SendersKnow, CommsTypeOK, SenderRows
  <2>4. /\ mail \in MailRows
        /\ mail.campaign = sender[s].campaign /\ mail.person = sender[s].person /\ mail.text = sender[s].text
    BY <2>3 DEF MailRows
  <2>5. mails' = Append(mails, mail)
    BY <2>1
  <2> HIDE DEF mail
  <2> QED
    BY <1>2, <2>2, <2>4, <2>5
<1>3. CASE mails' # mails
  <2>1. PICK s \in Senders, mail \in MailRows :
              /\ PostMail(s) /\ sender[s].pc = "post" /\ mails' = Append(mails, mail)
              /\ mail.campaign = sender[s].campaign /\ mail.person = sender[s].person /\ mail.text = sender[s].text
    BY <1>0, <1>2, <1>3 DEF CommsFrame
  <2>2. mails' \in Seq(MailRows) /\ DOMAIN mails \subseteq DOMAIN mails' /\ \A i \in DOMAIN mails : mails'[i] = mails[i]
    BY <1>0, <2>1
  <2> QED
    BY <2>1, <2>2
<1> QED
  BY <1>1, <1>3

LEMMA CommsTypeStays == ASSUME CommsInv, [CommsNext]_commsVars PROVE CommsTypeOK'
<1>0. CommsFrame /\ CommsTypeOK
  BY CommsFrames DEF CommsInv
<1>1. campaign' \in [Campaigns -> CampaignRows]
  <2>1. ASSUME NEW c \in Campaigns, NEW new \in CampaignRows, campaign' = [campaign EXCEPT ![c] = new]
        PROVE  campaign' \in [Campaigns -> CampaignRows]
    BY <1>0, <2>1 DEF CommsTypeOK
  <2> QED
    BY <1>0, <2>1, CampaignChanges DEF CommsTypeOK
<1>2. row' \in [Campaigns \X People -> PersonRows]
  BY CommsRowsTyped
<1>3. barred' \subseteq People
  <2>1. SomeBody => barred' \subseteq People
    <3>1. SomeBody => UNCHANGED barred \/ \E x \in Campaigns \X People : barred' = barred \cup {x[2]}
      BY DEF SomeBody, ProcessBody, RowOfMail
    <3> QED
      BY <1>0, <3>1 DEF CommsTypeOK
  <2> QED
    BY <1>0, <2>1 DEF CommsFrame, Unsubscribe, CommsTypeOK
<1>4. asked' \subseteq Campaigns
  BY <1>0 DEF CommsFrame, RequeueAsked, RequeueStale, CommsTypeOK
<1>5. decision' \in [Admins -> Decisions]
  <2>1. ASSUME NEW a \in Admins, NEW c \in Campaigns, NEW approve \in BOOLEAN, DecideReads(a, c, approve)
        PROVE  decision' \in [Admins -> Decisions]
    <3> DEFINE new == [campaign |-> c, text |-> campaign[c].text, approve |-> approve]
    <3>1. new \in Decisions
      BY <1>0 DEF Decisions, CommsTypeOK, CampaignRows
    <3>2. decision' = [decision EXCEPT ![a] = new]
      BY <2>1 DEF DecideReads
    <3> HIDE DEF new
    <3> QED
      BY <1>0, <3>1, <3>2 DEF CommsTypeOK
  <2>2. ASSUME NEW a \in Admins, DecideCampaign(a) PROVE decision' \in [Admins -> Decisions]
    <3>1. NoDecision \in Decisions
      BY DEF NoDecision, Decisions
    <3> QED
      BY <1>0, <2>2, <3>1 DEF DecideCampaign, CommsTypeOK
  <2> QED
    BY <1>0, <2>1, <2>2 DEF CommsFrame, CommsTypeOK
<1>6. sender' \in [Senders -> SenderRows]
  <2>1. ASSUME NEW s \in Senders, NEW new, sender' = [sender EXCEPT ![s] = new], Follows(s, new)
        PROVE  sender' \in [Senders -> SenderRows]
    BY <1>0, <2>1 DEF CommsTypeOK, Follows
  <2>2. ASSUME NEW s \in Senders, SenderStep(s) PROVE sender' \in [Senders -> SenderRows]
    BY <1>0, <2>1, <2>2, SenderFollows DEF CommsTypeOK
  <2> QED
    BY <1>0, <2>2 DEF CommsFrame, CommsTypeOK
<1>7. mails' \in Seq(MailRows) /\ DOMAIN mails \subseteq DOMAIN mails'
  BY MailsAfter
<1>8. notices' \subseteq (DOMAIN mails') \X NoticeKinds
  <2>1. notices \subseteq (DOMAIN mails') \X NoticeKinds
    BY <1>0, <1>7 DEF CommsTypeOK
  <2>2. SomeBody => notices' \subseteq notices
    BY DEF SomeBody, ProcessBody
  <2>3. ASSUME NEW i \in DOMAIN mails, NEW kind \in NoticeKinds, Notify(i, kind)
        PROVE  notices' \subseteq (DOMAIN mails') \X NoticeKinds
    BY <1>7, <2>1, <2>3 DEF Notify
  <2> QED
    BY <1>0, <2>1, <2>2, <2>3 DEF CommsFrame
<1>9. requeued' \in [Campaigns \X People -> Nat]
  <2>1. ASSUME NEW c \in Campaigns, RequeueStale(c) PROVE requeued' \in [Campaigns \X People -> Nat]
    <3>1. \A x \in Campaigns \X People : requeued[x] \in Nat /\ requeued[x] + 1 \in Nat
      BY <1>0 DEF CommsTypeOK
    <3> QED
      BY <2>1, <3>1 DEF RequeueStale
  <2> QED
    BY <1>0, <2>1 DEF CommsFrame, CommsTypeOK
<1> QED
  BY <1>1, <1>2, <1>3, <1>4, <1>5, <1>6, <1>7, <1>8, <1>9 DEF CommsTypeOK

LEMMA ApprovedBeforeStays == ASSUME CommsInv, [CommsNext]_commsVars PROVE ApprovedBefore'
  BY CampaignFacts DEF ApprovedBefore, Approved

LEMMA DecisionsKnowStays == ASSUME CommsInv, [CommsNext]_commsVars PROVE DecisionsKnow'
<1> SUFFICES ASSUME NEW a \in Admins, decision'[a] # NoDecision
             PROVE  /\ decision'[a].campaign \in Campaigns
                    /\ campaign'[decision'[a].campaign].status \notin {"none", "draft"}
                    /\ campaign'[decision'[a].campaign].by # a
                    /\ decision'[a].text = campaign'[decision'[a].campaign].text
  BY DEF DecisionsKnow, NoDecision
<1>0. CommsFrame /\ CommsTypeOK
  BY CommsFrames DEF CommsInv
<1>1. \/ decision'[a] = decision[a]
      \/ \E c \in Campaigns : /\ campaign[c].status = "pending_approval" /\ campaign[c].by # a
                              /\ decision'[a].campaign = c /\ decision'[a].text = campaign[c].text
  <2>1. ASSUME NEW b \in Admins, DecideCampaign(b) PROVE decision'[a] = decision[a]
    <3>1. decision' = [decision EXCEPT ![b] = NoDecision]
      BY <2>1 DEF DecideCampaign
    <3> QED
      BY <1>0, <3>1 DEF CommsTypeOK
  <2>2. ASSUME NEW b \in Admins, NEW c \in Campaigns, NEW approve \in BOOLEAN, DecideReads(b, c, approve),
               decision'[a] # decision[a]
        PROVE  /\ campaign[c].status = "pending_approval" /\ campaign[c].by # a
               /\ decision'[a].campaign = c /\ decision'[a].text = campaign[c].text
    <3> DEFINE new == [campaign |-> c, text |-> campaign[c].text, approve |-> approve]
    <3>1. new.campaign = c /\ new.text = campaign[c].text
      OBVIOUS
    <3>2. /\ decision' = [decision EXCEPT ![b] = new]
          /\ campaign[c].status = "pending_approval" /\ campaign[c].by # b
      BY <2>2 DEF DecideReads
    <3> HIDE DEF new
    <3>3. a = b
      BY <1>0, <2>2, <3>2 DEF CommsTypeOK
    <3> QED
      BY <1>0, <3>1, <3>2, <3>3 DEF CommsTypeOK
  <2> QED
    BY <1>0, <2>1, <2>2 DEF CommsFrame
<1>2. CASE decision'[a] = decision[a]
  BY <1>2, CampaignFacts DEF CommsInv, DecisionsKnow
<1> QED
  BY <1>1, <1>2, CampaignFacts

LEMMA SendersKnowStays == ASSUME CommsInv, [CommsNext]_commsVars PROVE SendersKnow'
<1> SUFFICES ASSUME NEW s \in Senders
             PROVE  /\ sender'[s].pc # "rest" => sender'[s].campaign \in Campaigns /\ ApprovedNext(sender'[s].campaign)
                    /\ sender'[s].pc \in {"next", "claim", "post", "result"} =>
                         sender'[s].text = campaign'[sender'[s].campaign].text
                    /\ sender'[s].pc \in {"claim", "post", "result"} => sender'[s].person \in People
  BY DEF SendersKnow, Approved, ApprovedNext
<1>1. CASE sender'[s] = sender[s]
  <2>1. /\ sender[s].pc # "rest" => sender[s].campaign \in Campaigns /\ Approved(sender[s].campaign)
        /\ sender[s].pc \in {"next", "claim", "post", "result"} => sender[s].text = campaign[sender[s].campaign].text
        /\ sender[s].pc \in {"claim", "post", "result"} => sender[s].person \in People
    BY DEF CommsInv, SendersKnow
  <2>2. ASSUME NEW c \in Campaigns, Approved(c) PROVE ApprovedNext(c) /\ campaign'[c].text = campaign[c].text
    BY <2>2, CampaignFacts DEF Approved, ApprovedNext
  <2> QED
    BY <1>1, <2>1, <2>2
<1>2. CASE Follows(s, sender'[s])
  BY <1>2 DEF Follows
<1> QED
  BY <1>1, <1>2, SendersAfter

LEMMA MailsKnowStays == ASSUME CommsInv, [CommsNext]_commsVars PROVE MailsKnow'
<1> SUFFICES ASSUME NEW i \in DOMAIN mails'
             PROVE  /\ ApprovedNext(mails'[i].campaign) /\ mails'[i].text = campaign'[mails'[i].campaign].text
  BY DEF MailsKnow, Approved, ApprovedNext
<1>0. mails \in Seq(MailRows)
  BY DEF CommsInv, CommsTypeOK
<1>1. ASSUME NEW c \in Campaigns, Approved(c) PROVE ApprovedNext(c) /\ campaign'[c].text = campaign[c].text
  BY <1>1, CampaignFacts DEF Approved, ApprovedNext
<1>2. CASE i \in DOMAIN mails
  <2>1. mails'[i] = mails[i] /\ mails[i].campaign \in Campaigns
    <3>1. mails'[i] = mails[i]
      BY <1>2, MailsAfter
    <3>2. mails[i] \in MailRows
      BY <1>0, <1>2
    <3> QED
      BY <3>1, <3>2 DEF MailRows
  <2>2. Approved(mails[i].campaign) /\ mails[i].text = campaign[mails[i].campaign].text
    BY <1>2 DEF CommsInv, MailsKnow
  <2>3. ApprovedNext(mails[i].campaign) /\ campaign'[mails[i].campaign].text = campaign[mails[i].campaign].text
    BY <1>1, <2>1, <2>2
  <2> QED
    BY <2>1, <2>2, <2>3 DEF ApprovedNext
<1>3. CASE i \notin DOMAIN mails
  <2>1. PICK s \in Senders, mail \in MailRows :
              /\ PostMail(s) /\ sender[s].pc = "post" /\ mails' = Append(mails, mail)
              /\ mail.campaign = sender[s].campaign /\ mail.person = sender[s].person /\ mail.text = sender[s].text
    BY <1>3, MailsAfter
  <2>2. mails'[i] = mail
    BY <1>0, <1>3, <2>1
  <2> QED
    BY <1>1, <2>1, <2>2 DEF CommsInv, SendersKnow
<1> QED
  BY <1>2, <1>3

-----------------------------------------------------------------------------
(* Mass mail: how often a row is mailed.                                   *)

SeenNext(x) == {i \in DOMAIN mails' : <<mails'[i].campaign, mails'[i].person>> = x /\ mails'[i].answer = "ok"}

LEMMA MailsAreFinite ==
  ASSUME CommsTypeOK, NEW S \in SUBSET DOMAIN mails
  PROVE  IsFiniteSet(S) /\ Cardinality(S) \in Nat
<1>1. Len(mails) \in Nat /\ DOMAIN mails = 1..Len(mails)
  BY DEF CommsTypeOK
<1>2. IsFiniteSet(1..Len(mails))
  BY <1>1, FS_Interval
<1> QED
  BY <1>1, <1>2, FS_Subset, FS_CardinalityType

\* A mail that is seen is one more, and its sender is done with it.
LEMMA SeenAfter ==
  ASSUME CommsInv, [CommsNext]_commsVars, NEW x
  PROVE  \/ SeenNext(x) = Seen(x)
         \/ \E s \in Senders :
              /\ Handling(s, x) /\ sender[s].pc = "post" /\ UNCHANGED row
              /\ sender'[s].pc = "result" /\ sender'[s].answer = "ok"
              /\ SeenNext(x) = Seen(x) \cup {Len(mails) + 1}
<1>0. CommsFrame /\ mails \in Seq(MailRows) /\ sender \in [Senders -> SenderRows]
  BY CommsFrames DEF CommsInv, CommsTypeOK
<1>1. CASE UNCHANGED mails
  BY <1>1 DEF Seen, SeenNext
<1>2. CASE mails' # mails
  <2>1. PICK s \in Senders : PostMail(s)
    BY <1>0, <1>2 DEF CommsFrame
  <2>2. PICK answer \in {"ok", "timeout"} :
          /\ mails' = Append(mails, [campaign |-> sender[s].campaign, person |-> sender[s].person,
                                     text |-> sender[s].text, answer |-> answer])
          /\ SenderAt(s, [sender[s] EXCEPT !.pc = "result", !.answer = answer, !.mail = Len(mails) + 1])
    BY <1>2, <2>1 DEF PostMail
  <2>3. sender[s].pc = "post" /\ UNCHANGED row
    BY <2>1 DEF PostMail
  <2> DEFINE mail == [campaign |-> sender[s].campaign, person |-> sender[s].person,
                      text |-> sender[s].text, answer |-> answer]
             new == [sender[s] EXCEPT !.pc = "result", !.answer = answer, !.mail = Len(mails) + 1]
  <2>4. mail.campaign = sender[s].campaign /\ mail.person = sender[s].person /\ mail.answer = answer
    OBVIOUS
  <2>5. new.pc = "result" /\ new.answer = answer
    BY <1>0 DEF SenderRows
  <2>6. mails' = Append(mails, mail) /\ sender' = [sender EXCEPT ![s] = new]
    BY <2>2 DEF SenderAt
  <2> HIDE DEF mail, new
  <2>7. /\ DOMAIN mails' = DOMAIN mails \cup {Len(mails) + 1}
        /\ \A i \in DOMAIN mails : mails'[i] = mails[i]
        /\ mails'[Len(mails) + 1] = mail
    BY <1>0, <2>6
  <2>8. sender'[s] = new
    BY <1>0, <2>6
  <2>9. CASE <<mail.campaign, mail.person>> = x /\ mail.answer = "ok"
    <3>1. SeenNext(x) = Seen(x) \cup {Len(mails) + 1}
      BY <2>7, <2>9 DEF Seen, SeenNext
    <3>2. RowAt(s) = x
      BY <2>4, <2>9 DEF RowAt
    <3> QED
      BY <2>3, <2>4, <2>5, <2>8, <2>9, <3>1, <3>2 DEF Handling
  <2>10. CASE ~ (<<mail.campaign, mail.person>> = x /\ mail.answer = "ok")
    BY <2>7, <2>10 DEF Seen, SeenNext
  <2> QED
    BY <2>9, <2>10
<1> QED
  BY <1>1, <1>2

\* A row that may be sent could be sent before, or the operator has just put it back.
LEMMA MaySendAfter ==
  ASSUME CommsInv, [CommsNext]_commsVars, NEW x \in Campaigns \X People, MaySend(x)'
  PROVE  MaySend(x) \/ requeued'[x] = requeued[x] + 1
<1>1. CASE row'[x].status \in {"none", "queued"}
  <2>1. ASSUME NEW s \in Senders, Answered(s), RowAt(s) = x, sender[s].answer # "ok" PROVE MaySend(x)
    BY <2>1 DEF Answered, Handling, Unseen, MaySend
  <2> QED
    BY <1>1, <2>1, RowStep DEF Keeps, MaySend, NoticeKinds
<1>2. ASSUME NEW u \in Senders, Handling(u, x)', sender'[u].pc = "post" \/ sender'[u].answer # "ok"
      PROVE  MaySend(x)
  <2>1. CASE Handling(u, x) /\ sender'[u] = sender[u]
    BY <1>2, <2>1 DEF Unseen, MaySend
  <2>2. CASE Handling(u, x) /\ sender[u].pc = "post"
    BY <2>2 DEF Unseen, MaySend
  <2>3. CASE row[x].status = "queued"
    BY <2>3 DEF MaySend
  <2> QED
    BY <1>2, <2>1, <2>2, <2>3, HandlingAfter
<1>3. \/ row'[x].status \in {"none", "queued"}
      \/ \E u \in Senders : Handling(u, x)' /\ (sender'[u].pc = "post" \/ sender'[u].answer # "ok")
  BY DEF MaySend, Unseen
<1> QED
  BY <1>1, <1>2, <1>3

LEMMA SeenOnceStays == ASSUME CommsInv, [CommsNext]_commsVars PROVE SeenOnce'
<1> SUFFICES ASSUME NEW x \in Campaigns \X People
             PROVE  /\ Cardinality(SeenNext(x)) <= 1 + requeued'[x]
                    /\ MaySend(x)' => Cardinality(SeenNext(x)) <= requeued'[x]
  BY DEF SeenOnce, Seen, SeenNext
<1>0. CommsFrame /\ CommsTypeOK
  BY CommsFrames DEF CommsInv
<1>1. IsFiniteSet(Seen(x)) /\ Cardinality(Seen(x)) \in Nat
  BY <1>0, MailsAreFinite DEF Seen
<1>2. /\ Cardinality(Seen(x)) <= 1 + requeued[x]
      /\ MaySend(x) => Cardinality(Seen(x)) <= requeued[x]
  BY DEF CommsInv, SeenOnce
<1>3. requeued[x] \in Nat /\ (requeued'[x] = requeued[x] \/ requeued'[x] = requeued[x] + 1)
  <2>1. ASSUME NEW c \in Campaigns, RequeueStale(c) PROVE requeued'[x] = requeued[x] \/ requeued'[x] = requeued[x] + 1
    BY <2>1 DEF RequeueStale
  <2> QED
    BY <1>0, <2>1 DEF CommsFrame, CommsTypeOK
<1>4. CASE SeenNext(x) = Seen(x)
  <2>1. CASE MaySend(x)
    BY <1>1, <1>2, <1>3, <1>4, <2>1
  <2>2. CASE ~ MaySend(x)
    <3>1. MaySend(x)' => requeued'[x] = requeued[x] + 1
      BY <2>2, MaySendAfter
    <3> QED
      BY <1>1, <1>2, <1>3, <1>4, <3>1
  <2> QED
    BY <2>1, <2>2
<1>5. ASSUME NEW s \in Senders, Handling(s, x), sender[s].pc = "post", UNCHANGED row,
             sender'[s].pc = "result", sender'[s].answer = "ok", SeenNext(x) = Seen(x) \cup {Len(mails) + 1}
      PROVE  /\ Cardinality(SeenNext(x)) <= 1 + requeued'[x]
             /\ MaySend(x)' => Cardinality(SeenNext(x)) <= requeued'[x]
  <2>1. MaySend(x)
    BY <1>5 DEF MaySend, Unseen
  <2>2. Cardinality(SeenNext(x)) <= Cardinality(Seen(x)) + 1
    <3>1. Cardinality(SeenNext(x)) \in {Cardinality(Seen(x)), Cardinality(Seen(x)) + 1}
      <4> DEFINE new == Len(mails) + 1
      <4>1. Cardinality(Seen(x) \cup {new}) = IF new \in Seen(x) THEN Cardinality(Seen(x)) ELSE Cardinality(Seen(x)) + 1
        <5> HIDE DEF new
        <5> QED
          BY <1>1, FS_AddElement
      <4>2. SeenNext(x) = Seen(x) \cup {new}
        BY <1>5
      <4> HIDE DEF new
      <4> QED
        BY <4>1, <4>2
    <3> QED
      BY <1>1, <3>1
  <2>3. Cardinality(SeenNext(x)) \in Nat
    BY <1>1, <1>5, FS_AddElement, FS_CardinalityType
  <2>4. row[x].status = "sending" /\ \A u \in Senders : Handling(u, x) => u = s
    BY <1>5 DEF CommsInv, OneHandler
  <2>5. row'[x].status = "sending"
    BY <1>5, <2>4
  <2>6. ASSUME NEW u \in Senders, Handling(u, x)' PROVE u = s
    BY <2>4, <2>6, HandlingAfter
  <2>7. ~ MaySend(x)'
    BY <1>5, <2>5, <2>6 DEF MaySend, Unseen
  <2> QED
    BY <1>1, <1>2, <1>3, <2>1, <2>2, <2>3, <2>7
<1> QED
  BY <1>4, <1>5, SeenAfter

LEMMA CommsBegins == CommsInit => CommsInv
<1> SUFFICES ASSUME CommsInit PROVE CommsInv
  OBVIOUS
<1>1. NoCampaign \in CampaignRows /\ NoCampaign.status = "none"
  BY DEF NoCampaign, CampaignRows, Positions
<1>2. NoRow \in PersonRows /\ NoRow.mail = 0
  BY DEF NoRow, PersonRows
<1>3. NoDecision \in Decisions
  BY DEF NoDecision, Decisions
<1>4. Resting \in SenderRows /\ Resting.pc = "rest"
  BY DEF Resting, SenderRows
<1>5. mails = <<>>
  BY DEF CommsInit
<1>6. mails \in Seq(MailRows) /\ DOMAIN mails = {}
  BY <1>5
<1>7. /\ \A c \in Campaigns : campaign[c] = NoCampaign
      /\ \A x \in Campaigns \X People : row[x] = NoRow /\ requeued[x] = 0
      /\ \A a \in Admins : decision[a] = NoDecision
      /\ \A s \in Senders : sender[s] = Resting
  BY DEF CommsInit
<1>8. CommsTypeOK
  BY <1>1, <1>2, <1>3, <1>4, <1>6 DEF CommsInit, CommsTypeOK
<1>9. ApprovedBefore /\ DecisionsKnow /\ SendersKnow /\ MailsKnow
  BY <1>1, <1>4, <1>6, <1>7 DEF ApprovedBefore, DecisionsKnow, SendersKnow, MailsKnow
<1>10. OneHandler /\ OnlySentHaveMail /\ OutStaysOut
  BY <1>2, <1>4, <1>7 DEF OneHandler, Handling, OnlySentHaveMail, OutStaysOut
<1>11. SeenOnce
  <2>1. \A x \in Campaigns \X People : Seen(x) = {}
    BY <1>6 DEF Seen
  <2> QED
    BY <1>7, <2>1, FS_EmptySet DEF SeenOnce
<1> QED
  BY <1>8, <1>9, <1>10, <1>11 DEF CommsInv

LEMMA CommsKeepsInv == CommsInv /\ [CommsNext]_commsVars => CommsInv'
  BY CommsTypeStays, ApprovedBeforeStays, DecisionsKnowStays, SendersKnowStays, MailsKnowStays, OneHandlerStays,
    OnlySentHaveMailStays, OutStaysOutStays, SeenOnceStays DEF CommsInv

\* Mass mail: every state that can be reached satisfies the invariant.
THEOREM CommsInvariant == CommsSpec => []CommsInv
  BY CommsBegins, CommsKeepsInv, PTL DEF CommsSpec

\* Every row of a campaign, of its recipients and of its senders keeps its type.
THEOREM CommsTypeCorrect == CommsSpec => []CommsTypeOK
<1>1. CommsInv => CommsTypeOK
  BY DEF CommsInv
<1> QED
  BY <1>1, CommsInvariant, PTL

\* Whatever edits, submissions, decisions and pauses come in between, a mail carries the text
\* its approver was shown, who neither wrote nor submitted the campaign (DecideCampaign).
THEOREM MailIsApproved == CommsSpec => []SentWasApproved
<1>1. CommsInv => SentWasApproved
  <2> SUFFICES ASSUME CommsInv, NEW i \in DOMAIN mails
               PROVE  /\ mails[i].text = campaign[mails[i].campaign].shown
                      /\ campaign[mails[i].campaign].approver \notin
                           {NoAdmin, campaign[mails[i].campaign].by, campaign[mails[i].campaign].submitter}
    BY DEF SentWasApproved
  <2> QED
    BY DEF CommsInv, MailsKnow, Approved
<1> QED
  BY <1>1, CommsInvariant, PTL

\* A run does not mail who had left when it re-checked its recipients, unless the operator
\* put the row back (CommsSender.RunOnce).
THEOREM OptOutIsFinal == CommsSpec => []OptOutRespected
<1>1. CommsInv => OptOutRespected
  <2> SUFFICES ASSUME CommsInv, NEW s \in Senders, sender[s].pc = "post", sender[s].person \in sender[s].out
               PROVE  requeued[<<sender[s].campaign, sender[s].person>>] > 0
    BY DEF OptOutRespected
  <2>1. RowAt(s) \in Campaigns \X People
    BY DEF RowAt, CommsInv, SendersKnow
  <2>2. row[RowAt(s)].status = "sending"
    BY <2>1 DEF CommsInv, OneHandler, Handling
  <2> QED
    BY <2>2 DEF CommsInv, OutStaysOut, RowAt
<1> QED
  BY <1>1, CommsInvariant, PTL

\* Between any number of senders, stops and retries, a second mail to a person needs an
\* answer of SES that was never seen, or an operator who put the row back.
THEOREM OneMailEach == CommsSpec => []NoDoubleMail
<1>1. CommsInv => NoDoubleMail
  <2> SUFFICES ASSUME CommsInv, NEW x \in Campaigns \X People
               PROVE  Cardinality(MailsTo(x)) <=
                        1 + requeued[x] + Cardinality({i \in MailsTo(x) : mails[i].answer = "timeout"})
    BY DEF NoDoubleMail
  <2> DEFINE Unknown == {i \in MailsTo(x) : mails[i].answer = "timeout"}
  <2>0. CommsTypeOK
    BY DEF CommsInv
  <2>1. \A i \in DOMAIN mails : mails[i].answer \in {"ok", "timeout"}
    <3>1. \A i \in DOMAIN mails : mails[i] \in MailRows
      BY <2>0 DEF CommsTypeOK
    <3> QED
      BY <3>1 DEF MailRows
  <2>2. MailsTo(x) = Seen(x) \cup Unknown /\ Seen(x) \cap Unknown = {}
    BY <2>1 DEF MailsTo, Seen
  <2>3. /\ IsFiniteSet(Seen(x)) /\ Cardinality(Seen(x)) \in Nat
        /\ IsFiniteSet(Unknown) /\ Cardinality(Unknown) \in Nat
    BY <2>0, MailsAreFinite DEF MailsTo, Seen
  <2>4. Cardinality(Seen(x)) <= 1 + requeued[x] /\ requeued[x] \in Nat
    BY <2>0 DEF CommsInv, SeenOnce, CommsTypeOK
  <2> HIDE DEF Unknown
  <2>5. Cardinality(Seen(x) \cup Unknown) = Cardinality(Seen(x)) + Cardinality(Unknown) - Cardinality(Seen(x) \cap Unknown)
    BY <2>3, FS_Union
  <2>6. Cardinality(MailsTo(x)) = Cardinality(Seen(x)) + Cardinality(Unknown) - 0
    BY <2>2, <2>5, FS_EmptySet
  <2>7. Cardinality(MailsTo(x)) <= 1 + requeued[x] + Cardinality(Unknown)
    BY <2>3, <2>4, <2>6
  <2> QED
    BY <2>7 DEF Unknown
<1> QED
  BY <1>1, CommsInvariant, PTL

-----------------------------------------------------------------------------
(* The cache of tree branches: what every reachable state of it satisfies. *)

\* What a load of this generation brings is not older than the last invalidation; a load
\* that still runs counts as newer than everything.
FlightsFresh ==
  \A f \in flights : f.generation <= generation /\ (f.generation = generation => f.data >= floor)

OneFlight == \A f, g \in flights : f.generation = g.generation /\ f.key = g.key => f = g

\* Who shares a load asked before it read, and gets what is new enough for it.
SharesFresh ==
  \A r \in Readers : reader[r].pc = "shared" =>
    \E f \in flights : Shares(r, f) /\ f.data >= reader[r].floor

\* A reader asks for what the last invalidation left at most.
NobodyAhead == \A r \in Readers : reader[r].floor <= floor

CacheInv == CacheTypeOK /\ NoStaleBranch /\ FlightsFresh /\ OneFlight /\ SharesFresh /\ NobodyAhead

\* The parts of the invariant that a step of one kind disturbs.
EntriesOK ==
  /\ entries \in [Keys -> EntryRows] /\ older \subseteq Held \X Held
  /\ Held \subseteq Cached /\ IsFiniteSet(Held) /\ Cardinality(Held) <= MaxEntries
  /\ \A k \in Held : entries[k].data >= floor
FlightsOK ==
  /\ flights \subseteq FlightRows /\ IsFiniteSet(flights) /\ Cardinality(flights) <= MaxFlights
  /\ FlightsFresh /\ OneFlight
ReadersOK ==
  /\ reader \in [Readers -> ReaderRows] /\ NobodyAhead
  /\ \A r \in Readers : reader[r].pc = "done" => reader[r].got >= reader[r].floor
NumbersOK ==
  /\ changes \in 0..MaxChanges /\ replica \in 0..changes /\ floor \in 0..replica
  /\ pending \in Nat /\ generation \in Nat

LEMMA CacheParts == CacheInv <=> NumbersOK /\ EntriesOK /\ FlightsOK /\ ReadersOK /\ SharesFresh
  BY DEF CacheInv, CacheTypeOK, NoStaleBranch, NumbersOK, EntriesOK, FlightsOK, ReadersOK

LEMMA CachePartsNext == NumbersOK' /\ EntriesOK' /\ FlightsOK' /\ ReadersOK' /\ SharesFresh' => CacheInv'
  BY DEF CacheInv, CacheTypeOK, NoStaleBranch, NumbersOK, EntriesOK, FlightsOK, ReadersOK

LEMMA CacheBegins == CacheInit => CacheInv
<1> SUFFICES ASSUME CacheInit PROVE NumbersOK /\ EntriesOK /\ FlightsOK /\ ReadersOK /\ SharesFresh
  BY CacheParts
<1>1. NumbersOK
  BY TreeCacheAssumption DEF CacheInit, NumbersOK
<1>2. Held = {} /\ entries \in [Keys -> EntryRows]
  BY DEF CacheInit, Held, NoEntry, EntryRows
<1>3. EntriesOK
  BY <1>2, FS_EmptySet, TreeCacheAssumption DEF CacheInit, EntriesOK
<1>4. FlightsOK
  BY FS_EmptySet, TreeCacheAssumption DEF CacheInit, FlightsOK, FlightsFresh, OneFlight
<1>5. Waits \in ReaderRows /\ Waits.pc = "ready" /\ Waits.floor = 0
  BY DEF Waits, ReaderRows
<1>6. \A r \in Readers : reader[r] = Waits
  BY DEF CacheInit
<1>7. ReadersOK /\ SharesFresh
  BY <1>5, <1>6 DEF CacheInit, ReadersOK, NobodyAhead, SharesFresh
<1> QED
  BY <1>1, <1>3, <1>4, <1>7

\* One reader moves on.
LEMMA ReaderMoves ==
  ASSUME ReadersOK, NEW r \in Readers, NEW new \in ReaderRows, Becomes(r, new), UNCHANGED floor,
         new.floor <= floor, new.pc = "done" => new.got >= new.floor
  PROVE  ReadersOK' /\ reader'[r] = new /\ \A q \in Readers \ {r} : reader'[q] = reader[q]
<1>1. reader' = [reader EXCEPT ![r] = new] /\ reader \in [Readers -> ReaderRows]
  BY DEF Becomes, ReadersOK
<1>2. reader' \in [Readers -> ReaderRows] /\ \A q \in Readers : reader'[q] = IF q = r THEN new ELSE reader[q]
  BY <1>1
<1> QED
  BY <1>2 DEF ReadersOK, NobodyAhead

LEMMA NumbersStep ==
  ASSUME CacheInv, TreeChanges \/ ChangeElsewhere \/ Replicate
  PROVE  CacheInv'
<1>1. NumbersOK /\ EntriesOK /\ FlightsOK /\ ReadersOK /\ SharesFresh
  BY CacheParts
<1>2. NumbersOK' /\ UNCHANGED <<generation, entries, older, flights, reader, floor>>
  BY <1>1, TreeCacheAssumption DEF NumbersOK, TreeChanges, ChangeElsewhere, Replicate
<1>3. EntriesOK' /\ FlightsOK' /\ ReadersOK' /\ SharesFresh'
  BY <1>1, <1>2 DEF EntriesOK, Held, FlightsOK, FlightsFresh, OneFlight, ReadersOK, NobodyAhead, SharesFresh, Shares
<1> QED
  BY <1>2, <1>3, CachePartsNext

LEMMA InvalidateStep == ASSUME CacheInv, Invalidate PROVE CacheInv'
<1>1. NumbersOK /\ EntriesOK /\ FlightsOK /\ ReadersOK /\ SharesFresh
  BY CacheParts
<1>2. NumbersOK'
  BY <1>1 DEF NumbersOK, Invalidate
<1>3. entries' \in [Keys -> EntryRows] /\ Held' = {}
  BY DEF Invalidate, Held, NoEntry, EntryRows
<1>4. EntriesOK'
  BY <1>3, FS_EmptySet, TreeCacheAssumption DEF Invalidate, EntriesOK
<1>5. FlightsOK'
  <2>1. \A f \in flights : f.generation \in Nat /\ f.generation <= generation
    BY <1>1 DEF FlightsOK, FlightRows, FlightsFresh
  <2> QED
    BY <1>1, <2>1 DEF Invalidate, FlightsOK, FlightsFresh, OneFlight, NumbersOK
<1>6. ReadersOK' /\ SharesFresh'
  <2>1. \A r \in Readers : reader[r].floor \in Nat
    BY <1>1 DEF ReadersOK, ReaderRows
  <2> QED
    BY <1>1, <2>1 DEF Invalidate, ReadersOK, NobodyAhead, NumbersOK, SharesFresh, Shares
<1> QED
  BY <1>2, <1>4, <1>5, <1>6, CachePartsNext

LEMMA ExpiresStep == ASSUME CacheInv, NEW k \in Keys, Expires(k) PROVE CacheInv'
<1>1. NumbersOK /\ EntriesOK /\ FlightsOK /\ ReadersOK /\ SharesFresh
  BY CacheParts
<1> DEFINE new == [entries[k] EXCEPT !.state = "expired"]
<1>2. entries[k] \in EntryRows /\ entries' = [entries EXCEPT ![k] = new] /\ k \in Held
  BY <1>1 DEF EntriesOK, Expires, Held
<1>3. new \in EntryRows /\ new.state = "expired" /\ new.data = entries[k].data
  BY <1>2 DEF EntryRows
<1> HIDE DEF new
<1>4. entries' \in [Keys -> EntryRows] /\ \A j \in Keys : entries'[j] = IF j = k THEN new ELSE entries[j]
  BY <1>1, <1>2, <1>3 DEF EntriesOK
<1>5. Held' = Held
  BY <1>2, <1>3, <1>4 DEF Held
<1>6. EntriesOK'
  BY <1>1, <1>3, <1>4, <1>5 DEF EntriesOK, Expires
<1>7. NumbersOK' /\ FlightsOK' /\ ReadersOK' /\ SharesFresh'
  BY <1>1 DEF Expires, NumbersOK, FlightsOK, FlightsFresh, OneFlight, ReadersOK, NobodyAhead, SharesFresh, Shares
<1> QED
  BY <1>6, <1>7, CachePartsNext

\* A reader that waits for nothing leaves the rest alone.
LEMMA ReaderAlone ==
  ASSUME CacheInv, NEW r \in Readers, NEW new \in ReaderRows, Becomes(r, new), new.pc # "shared",
         new.floor <= floor, new.pc = "done" => new.got >= new.floor,
         UNCHANGED <<changes, replica, pending, generation, flights, floor>>, EntriesOK'
  PROVE  CacheInv'
<1>1. NumbersOK /\ EntriesOK /\ FlightsOK /\ ReadersOK /\ SharesFresh
  BY CacheParts
<1>2. ReadersOK' /\ reader'[r] = new /\ \A q \in Readers \ {r} : reader'[q] = reader[q]
  BY <1>1, ReaderMoves
<1>3. SharesFresh'
  BY <1>1, <1>2 DEF SharesFresh, Shares
<1>4. NumbersOK' /\ FlightsOK'
  BY <1>1 DEF NumbersOK, FlightsOK, FlightsFresh, OneFlight
<1> QED
  BY <1>2, <1>3, <1>4, CachePartsNext

LEMMA ReaderEnds == ASSUME CacheInv, NEW r \in Readers, LoadAlone(r) \/ Leaves(r) PROVE CacheInv'
<1>1. NumbersOK /\ EntriesOK /\ ReadersOK
  BY CacheParts
<1>2. EntriesOK'
  BY <1>1 DEF LoadAlone, Leaves, EntriesOK, Held
<1>3. reader[r] \in ReaderRows /\ reader[r].floor <= floor
  BY <1>1 DEF ReadersOK, NobodyAhead
<1>4. CASE LoadAlone(r)
  <2> DEFINE new == [reader[r] EXCEPT !.pc = "done", !.got = replica]
  <2>0. replica \in Nat /\ reader[r].floor \in Nat
    BY <1>1, <1>3 DEF NumbersOK, ReaderRows
  <2>1. new \in ReaderRows /\ new.pc = "done" /\ new.got = replica /\ new.floor = reader[r].floor
    BY <1>3, <2>0 DEF ReaderRows
  <2>2. Becomes(r, new) /\ UNCHANGED <<changes, replica, pending, generation, flights, floor>>
    BY <1>4 DEF LoadAlone
  <2> HIDE DEF new
  <2>3. new.got >= new.floor
    BY <1>1, <1>3, <2>0, <2>1 DEF NumbersOK
  <2> QED
    BY <1>2, <1>3, <2>1, <2>2, <2>3, ReaderAlone
<1>5. CASE Leaves(r)
  <2>1. Waits \in ReaderRows /\ Waits.pc = "ready" /\ Waits.floor = 0
    BY DEF Waits, ReaderRows
  <2>2. 0 <= floor
    BY <1>1 DEF NumbersOK
  <2> QED
    BY <1>2, <1>5, <2>1, <2>2, ReaderAlone DEF Leaves
<1> QED
  BY <1>4, <1>5

\* A reader joins a load, or starts one.
LEMMA ReaderJoins ==
  ASSUME CacheInv, NEW r \in Readers, NEW new \in ReaderRows, Becomes(r, new), new.pc = "shared", new.floor = floor,
         UNCHANGED <<changes, replica, pending, generation, floor>>, EntriesOK', FlightsOK', flights \subseteq flights',
         NEW g \in flights', g.generation = new.generation, g.key = new.key, g.data >= floor
  PROVE  CacheInv'
<1>1. NumbersOK /\ ReadersOK /\ SharesFresh
  BY CacheParts
<1>2. floor \in Nat
  BY <1>1 DEF NumbersOK
<1>3. ReadersOK' /\ reader'[r] = new /\ \A q \in Readers \ {r} : reader'[q] = reader[q]
  BY <1>1, <1>2, ReaderMoves
<1>4. ASSUME NEW q \in Readers, reader'[q].pc = "shared"
      PROVE  \E f \in flights' : reader'[q].generation = f.generation /\ reader'[q].key = f.key /\ f.data >= reader'[q].floor
  <2>1. CASE q = r
    BY <1>3, <2>1
  <2>2. CASE q # r
    BY <1>1, <1>3, <1>4, <2>2 DEF SharesFresh, Shares
  <2> QED
    BY <2>1, <2>2
<1>5. SharesFresh'
  BY <1>4 DEF SharesFresh, Shares
<1>6. NumbersOK'
  BY <1>1 DEF NumbersOK
<1> QED
  BY <1>3, <1>5, <1>6, CachePartsNext

\* Fewer entries are held, in the order they were.
LEMMA EntriesForgotten ==
  ASSUME NumbersOK, EntriesOK, NEW k \in Keys, entries' = [entries EXCEPT ![k] = NoEntry], older' = Among(Held \ {k}),
         UNCHANGED floor
  PROVE  EntriesOK'
<1>1. NoEntry \in EntryRows /\ NoEntry.state = "none"
  BY DEF NoEntry, EntryRows
<1>2. entries' \in [Keys -> EntryRows] /\ \A j \in Keys : entries'[j] = IF j = k THEN NoEntry ELSE entries[j]
  BY <1>1 DEF EntriesOK
<1>3. Held' = Held \ {k}
  BY <1>1, <1>2 DEF Held
<1>4. IsFiniteSet(Held') /\ Cardinality(Held') <= MaxEntries
  <2>1. IsFiniteSet(Held') /\ Cardinality(Held') <= Cardinality(Held)
    BY <1>3, FS_Subset DEF EntriesOK
  <2>2. Cardinality(Held) \in Nat /\ Cardinality(Held') \in Nat
    BY <2>1, FS_CardinalityType DEF EntriesOK
  <2> QED
    BY <2>1, <2>2, TreeCacheAssumption DEF EntriesOK
<1> QED
  BY <1>2, <1>3, <1>4 DEF EntriesOK, Among, Held

LEMMA ReadStep == ASSUME CacheInv, NEW r \in Readers, NEW k \in Keys, ReadTree(r, k) PROVE CacheInv'
<1>1. NumbersOK /\ EntriesOK /\ FlightsOK /\ ReadersOK /\ SharesFresh
  BY CacheParts
<1> DEFINE ask == [Waits EXCEPT !.key = k, !.floor = floor, !.generation = generation]
           others == Held \ {k}
<1>2. floor \in Nat /\ generation \in Nat /\ UNCHANGED <<changes, replica, pending, generation, floor>>
  <2>1. floor \in Nat /\ generation \in Nat
    BY <1>1 DEF NumbersOK
  <2> QED
    BY <2>1 DEF ReadTree
<1>3. ask \in ReaderRows /\ ask.key = k /\ ask.floor = floor /\ ask.generation = generation
  BY <1>2 DEF Waits, ReaderRows
<1>4. CASE /\ entries[k].state = "fresh" /\ older' = UsedNow(others, k)
           /\ Becomes(r, [ask EXCEPT !.pc = "done", !.got = entries[k].data]) /\ UNCHANGED <<entries, flights>>
  <2>1. k \in Held /\ entries[k].data \in Nat /\ entries[k].data >= floor
    BY <1>1, <1>4 DEF Held, EntriesOK, EntryRows
  <2>2. EntriesOK'
    BY <1>1, <1>2, <1>4, <2>1 DEF EntriesOK, Held, UsedNow, Among
  <2> DEFINE new == [ask EXCEPT !.pc = "done", !.got = entries[k].data]
  <2>3. new \in ReaderRows /\ new.pc = "done" /\ new.floor = floor /\ new.got = entries[k].data
    <3> HIDE DEF ask
    <3> QED
      BY <1>3, <2>1 DEF ReaderRows
  <2>4. Becomes(r, new)
    BY <1>4
  <2> HIDE DEF new, ask
  <2> QED
    BY <1>2, <1>4, <2>1, <2>2, <2>3, <2>4, ReaderAlone
<1>5. CASE entries' = [entries EXCEPT ![k] = NoEntry] /\ older' = Among(others)
  <2>1. EntriesOK'
    BY <1>1, <1>2, <1>5, EntriesForgotten
  <2>2. ASSUME NEW f \in flights, Same(f, k), UNCHANGED flights,
               Becomes(r, [ask EXCEPT !.pc = "shared", !.generation = f.generation])
        PROVE  CacheInv'
    <3> DEFINE new == [ask EXCEPT !.pc = "shared", !.generation = f.generation]
    <3>1. f.generation = generation /\ f.key = k /\ f.data >= floor
      BY <1>1, <2>2 DEF Same, FlightsOK, FlightsFresh
    <3>2. new \in ReaderRows /\ new.pc = "shared" /\ new.floor = floor /\ new.generation = f.generation /\ new.key = k
      <4> HIDE DEF ask
      <4> QED
        BY <1>2, <1>3, <3>1 DEF ReaderRows
    <3>3. FlightsOK'
      BY <1>1, <1>2, <2>2 DEF FlightsOK, FlightsFresh, OneFlight
    <3>4. Becomes(r, new)
      BY <2>2
    <3> HIDE DEF new, ask
    <3> QED
      BY <1>2, <2>1, <2>2, <3>1, <3>2, <3>3, <3>4, ReaderJoins
  <2>3. ASSUME \A f \in flights : ~ Same(f, k), Cardinality(flights) < MaxFlights,
               flights' = flights \cup {[generation |-> generation, key |-> k, data |-> Loading]},
               Becomes(r, [ask EXCEPT !.pc = "shared"])
        PROVE  CacheInv'
    <3> DEFINE new == [ask EXCEPT !.pc = "shared"]
               g == [generation |-> generation, key |-> k, data |-> Loading]
    <3>1. g \in FlightRows /\ g.generation = generation /\ g.key = k /\ g.data = Loading
      BY <1>2, TreeCacheAssumption DEF FlightRows, Loading
    <3>2. Loading >= floor
      BY <1>1, TreeCacheAssumption DEF Loading, NumbersOK
    <3>3. new \in ReaderRows /\ new.pc = "shared" /\ new.floor = floor /\ new.generation = generation /\ new.key = k
      <4> HIDE DEF ask
      <4> QED
        BY <1>3 DEF ReaderRows
    <3>4. flights' = flights \cup {g} /\ Becomes(r, new)
      BY <2>3
    <3> HIDE DEF new, ask, g
    <3>5. g \notin flights
      BY <2>3, <3>1 DEF Same
    <3>6. IsFiniteSet(flights') /\ Cardinality(flights') <= MaxFlights
      <4>1. IsFiniteSet(flights') /\ Cardinality(flights') = Cardinality(flights) + 1
        BY <1>1, <3>4, <3>5, FS_AddElement DEF FlightsOK
      <4>2. Cardinality(flights) \in Nat
        BY <1>1, FS_CardinalityType DEF FlightsOK
      <4> QED
        BY <2>3, <4>1, <4>2, TreeCacheAssumption
    <3>7. FlightsFresh'
      BY <1>1, <1>2, <3>1, <3>2, <3>4 DEF FlightsOK, FlightsFresh
    <3>8. OneFlight'
      BY <1>1, <2>3, <3>1, <3>4 DEF FlightsOK, OneFlight, Same
    <3>9. FlightsOK'
      BY <1>1, <3>1, <3>4, <3>6, <3>7, <3>8 DEF FlightsOK
    <3> QED
      BY <1>2, <2>1, <3>1, <3>2, <3>3, <3>4, <3>9, ReaderJoins
  <2>4. ASSUME UNCHANGED flights, Becomes(r, [ask EXCEPT !.pc = "alone"]) PROVE CacheInv'
    <3> DEFINE new == [ask EXCEPT !.pc = "alone"]
    <3>1. new \in ReaderRows /\ new.pc = "alone" /\ new.floor = floor
      <4> HIDE DEF ask
      <4> QED
        BY <1>3 DEF ReaderRows
    <3>2. Becomes(r, new)
      BY <2>4
    <3> HIDE DEF new, ask
    <3> QED
      BY <1>2, <2>1, <2>4, <3>1, <3>2, ReaderAlone
  <2>5. \/ \E f \in flights : /\ Same(f, k) /\ UNCHANGED flights
                              /\ Becomes(r, [ask EXCEPT !.pc = "shared", !.generation = f.generation])
        \/ /\ \A f \in flights : ~ Same(f, k)
           /\ Cardinality(flights) < MaxFlights
           /\ flights' = flights \cup {[generation |-> generation, key |-> k, data |-> Loading]}
           /\ Becomes(r, [ask EXCEPT !.pc = "shared"])
        \/ UNCHANGED flights /\ Becomes(r, [ask EXCEPT !.pc = "alone"])
        \/ Becomes(r, [ask EXCEPT !.pc = "done", !.got = entries[k].data]) /\ UNCHANGED <<entries, flights>>
             /\ older' = UsedNow(others, k) /\ entries[k].state = "fresh"
    BY DEF ReadTree
  <2> HIDE DEF ask
  <2> QED
    BY <1>4, <2>2, <2>3, <2>4, <2>5 DEF ask
<1>6. \/ /\ entries[k].state = "fresh" /\ older' = UsedNow(others, k)
         /\ Becomes(r, [ask EXCEPT !.pc = "done", !.got = entries[k].data]) /\ UNCHANGED <<entries, flights>>
      \/ entries' = [entries EXCEPT ![k] = NoEntry] /\ older' = Among(others)
  BY DEF ReadTree
<1> QED
  BY <1>4, <1>5, <1>6

LEMMA LoadStep == ASSUME CacheInv, NEW f \in flights, Load(f) PROVE CacheInv'
<1>1. NumbersOK /\ EntriesOK /\ FlightsOK /\ ReadersOK /\ SharesFresh
  BY CacheParts
<1> DEFINE g == [f EXCEPT !.data = replica]
<1>2. f \in FlightRows /\ replica \in Nat /\ floor \in Nat /\ replica >= floor
  BY <1>1 DEF FlightsOK, NumbersOK
<1>3. g \in FlightRows /\ g.generation = f.generation /\ g.key = f.key /\ g.data = replica
  BY <1>2 DEF FlightRows
<1>4. flights' = (flights \ {f}) \cup {g} /\ UNCHANGED <<changes, replica, pending, generation, entries, older, reader, floor>>
  BY DEF Load
<1> HIDE DEF g
<1>5. IsFiniteSet(flights') /\ Cardinality(flights') <= MaxFlights
  <2>1. IsFiniteSet(flights \ {f}) /\ Cardinality(flights \ {f}) = Cardinality(flights) - 1 /\ Cardinality(flights) \in Nat
    BY <1>1, FS_RemoveElement, FS_CardinalityType DEF FlightsOK
  <2>2. /\ IsFiniteSet((flights \ {f}) \cup {g})
        /\ Cardinality((flights \ {f}) \cup {g}) =
             IF g \in flights \ {f} THEN Cardinality(flights \ {f}) ELSE Cardinality(flights \ {f}) + 1
    BY <2>1, FS_AddElement
  <2> QED
    BY <1>1, <1>4, <2>1, <2>2, TreeCacheAssumption DEF FlightsOK
<1>6. FlightsFresh' /\ OneFlight'
  BY <1>1, <1>2, <1>3, <1>4 DEF FlightsOK, FlightsFresh, OneFlight
<1>7. FlightsOK'
  BY <1>1, <1>3, <1>4, <1>5, <1>6 DEF FlightsOK
<1>8. SharesFresh'
  <2>1. \A r \in Readers : reader[r].floor \in Nat /\ reader[r].floor <= floor
    BY <1>1 DEF ReadersOK, NobodyAhead, ReaderRows
  <2>2. ASSUME NEW r \in Readers, reader[r].pc = "shared"
        PROVE  \E h \in flights' : reader[r].generation = h.generation /\ reader[r].key = h.key /\ h.data >= reader[r].floor
    <3>1. PICK h \in flights : Shares(r, h) /\ h.data >= reader[r].floor
      BY <1>1, <2>2 DEF SharesFresh
    <3>2. CASE h = f
      BY <1>2, <1>3, <1>4, <2>1, <3>1, <3>2 DEF Shares
    <3>3. CASE h # f
      BY <1>4, <3>1, <3>3 DEF Shares
    <3> QED
      BY <3>2, <3>3
  <2> QED
    BY <1>4, <2>2 DEF SharesFresh, Shares
<1>9. NumbersOK' /\ EntriesOK' /\ ReadersOK'
  BY <1>1, <1>4 DEF NumbersOK, EntriesOK, Held, ReadersOK, NobodyAhead
<1> QED
  BY <1>7, <1>8, <1>9, CachePartsNext

\* What is stored is as new as what is asked for, and there is room for it.
LEMMA EntriesStored ==
  ASSUME NumbersOK, EntriesOK, NEW f \in FlightRows, f.key \in Cached, f.data >= floor, Store(f), UNCHANGED floor
  PROVE  EntriesOK'
<1>1. PICK kept \in SUBSET (Held \ {f.key}) :
        /\ Cardinality(kept) < MaxEntries
        /\ entries' = [k \in Keys |-> IF k = f.key THEN [state |-> "fresh", data |-> f.data]
                                      ELSE IF k \in kept THEN entries[k] ELSE NoEntry]
        /\ older' = UsedNow(kept, f.key)
  BY DEF Store
<1> DEFINE new == [state |-> "fresh", data |-> f.data]
<1>2. new \in EntryRows /\ new.state = "fresh" /\ new.data = f.data
  BY DEF EntryRows, FlightRows
<1>3. NoEntry \in EntryRows /\ NoEntry.state = "none"
  BY DEF NoEntry, EntryRows
<1>4. entries' = [k \in Keys |-> IF k = f.key THEN new ELSE IF k \in kept THEN entries[k] ELSE NoEntry]
  BY <1>1
<1> HIDE DEF new
<1>5. entries' \in [Keys -> EntryRows]
  BY <1>2, <1>3, <1>4 DEF EntriesOK
<1>6. f.key \in Keys /\ kept \subseteq Keys /\ \A k \in kept : entries[k].state # "none"
  BY <1>1, TreeCacheAssumption DEF Held
<1>7. Held' = kept \cup {f.key}
  BY <1>2, <1>3, <1>4, <1>6 DEF Held
<1>8. IsFiniteSet(Held') /\ Cardinality(Held') <= MaxEntries
  <2>1. IsFiniteSet(kept) /\ Cardinality(kept) \in Nat
    BY FS_Subset, FS_CardinalityType DEF EntriesOK
  <2>2. /\ IsFiniteSet(kept \cup {f.key})
        /\ Cardinality(kept \cup {f.key}) = IF f.key \in kept THEN Cardinality(kept) ELSE Cardinality(kept) + 1
    BY <2>1, FS_AddElement
  <2> QED
    BY <1>1, <1>7, <2>1, <2>2, TreeCacheAssumption
<1>9. \A k \in Held' : entries'[k].data >= floor
  BY <1>2, <1>4, <1>6, <1>7 DEF EntriesOK
<1>10. older' \subseteq Held' \X Held'
  BY <1>1, <1>7 DEF UsedNow, Among, EntriesOK
<1> QED
  BY <1>5, <1>7, <1>8, <1>9, <1>10 DEF EntriesOK

\* A load ends: whoever shared it has its data, or an error.
LEMMA EndStep == ASSUME CacheInv, NEW f \in flights, Land(f) \/ Fails(f) PROVE CacheInv'
<1>1. NumbersOK /\ EntriesOK /\ FlightsOK /\ ReadersOK /\ SharesFresh
  BY CacheParts
<1>2. f \in FlightRows /\ (f.generation = generation => f.data >= floor)
  BY <1>1 DEF FlightsOK, FlightsFresh
<1>3. flights' = flights \ {f} /\ UNCHANGED <<changes, replica, pending, generation, floor>>
  BY DEF Land, Fails
<1>4. EntriesOK'
  <2>1. CASE UNCHANGED <<entries, older>>
    BY <1>1, <1>3, <2>1 DEF EntriesOK, Held
  <2>2. CASE f.key \in Cached /\ Current(f) /\ Store(f)
    BY <1>1, <1>2, <1>3, <2>2, EntriesStored DEF Current
  <2> QED
    BY <2>1, <2>2 DEF Land, Fails
<1>5. FlightsOK'
  <2>1. IsFiniteSet(flights') /\ Cardinality(flights') = Cardinality(flights) - 1 /\ Cardinality(flights) \in Nat
    BY <1>1, <1>3, FS_RemoveElement, FS_CardinalityType DEF FlightsOK
  <2>2. Cardinality(flights') <= MaxFlights
    BY <1>1, <2>1, TreeCacheAssumption DEF FlightsOK
  <2> QED
    BY <1>1, <1>3, <2>1, <2>2 DEF FlightsOK, FlightsFresh, OneFlight
<1>6. ASSUME NEW r \in Readers
      PROVE  /\ reader'[r] \in ReaderRows /\ reader'[r].floor <= floor
             /\ reader'[r].pc = "done" => reader'[r].got >= reader'[r].floor
             /\ reader'[r].pc = "shared" => reader'[r] = reader[r] /\ ~ Shares(r, f)
  <2>0. /\ reader[r] \in ReaderRows /\ reader[r].floor <= floor /\ floor \in Nat
        /\ reader[r].pc = "done" => reader[r].got >= reader[r].floor
    BY <1>1 DEF ReadersOK, NobodyAhead, NumbersOK
  <2>1. CASE ~ Shares(r, f)
    <3>1. reader'[r] = reader[r]
      BY <2>1 DEF Land, Fails
    <3> QED
      BY <2>0, <2>1, <3>1
  <2>2. CASE Shares(r, f) /\ Land(f)
    <3> DEFINE new == [reader[r] EXCEPT !.pc = "done", !.got = f.data]
    <3>1. reader'[r] = new
      BY <2>2 DEF Land
    <3>2. f.data >= reader[r].floor
      BY <1>1, <2>2 DEF SharesFresh, Shares, FlightsOK, OneFlight
    <3>3. new \in ReaderRows /\ new.pc = "done" /\ new.got = f.data /\ new.floor = reader[r].floor
      BY <1>2, <2>0 DEF ReaderRows, FlightRows
    <3> HIDE DEF new
    <3> QED
      BY <2>0, <3>1, <3>2, <3>3
  <2>3. CASE Shares(r, f) /\ Fails(f)
    <3>1. reader'[r] = Waits
      BY <2>3 DEF Fails
    <3>2. Waits \in ReaderRows /\ Waits.pc = "ready" /\ Waits.floor = 0
      BY DEF Waits, ReaderRows
    <3> QED
      BY <2>0, <3>1, <3>2
  <2> QED
    BY <2>1, <2>2, <2>3
<1>7. reader' \in [Readers -> ReaderRows]
  <2>1. \E F : reader' = [r \in Readers |-> F[r]]
    <3>1. reader' = [r \in Readers |-> reader'[r]]
      BY DEF Land, Fails
    <3> QED
      BY <3>1
  <2> QED
    BY <1>6, <2>1
<1>8. ReadersOK'
  BY <1>3, <1>6, <1>7 DEF ReadersOK, NobodyAhead
<1>9. SharesFresh'
  <2>1. ASSUME NEW r \in Readers, reader'[r].pc = "shared"
        PROVE  \E h \in flights' : reader'[r].generation = h.generation /\ reader'[r].key = h.key /\ h.data >= reader'[r].floor
    <3>1. reader'[r] = reader[r] /\ ~ Shares(r, f)
      BY <1>6, <2>1
    <3>2. PICK h \in flights : Shares(r, h) /\ h.data >= reader[r].floor
      BY <1>1, <2>1, <3>1 DEF SharesFresh
    <3> QED
      BY <1>3, <3>1, <3>2 DEF Shares
  <2> QED
    BY <2>1 DEF SharesFresh, Shares
<1>10. NumbersOK'
  BY <1>1, <1>3 DEF NumbersOK
<1> QED
  BY <1>4, <1>5, <1>8, <1>9, <1>10, CachePartsNext

LEMMA CacheKeepsInv == CacheInv /\ [CacheNext]_cacheVars => CacheInv'
<1> SUFFICES ASSUME CacheInv, [CacheNext]_cacheVars PROVE CacheInv'
  OBVIOUS
<1>1. CASE UNCHANGED cacheVars
  <2>1. NumbersOK /\ EntriesOK /\ FlightsOK /\ ReadersOK /\ SharesFresh
    BY CacheParts
  <2>2. NumbersOK' /\ EntriesOK' /\ FlightsOK' /\ ReadersOK' /\ SharesFresh'
    BY <1>1, <2>1 DEF cacheVars, NumbersOK, EntriesOK, Held, FlightsOK, FlightsFresh, OneFlight, ReadersOK,
      NobodyAhead, SharesFresh, Shares
  <2> QED
    BY <2>2, CachePartsNext
<1> QED
  BY <1>1, NumbersStep, InvalidateStep, ExpiresStep, ReadStep, ReaderEnds, LoadStep, EndStep DEF CacheNext

\* The tree cache: every state that can be reached satisfies the invariant.
THEOREM CacheInvariant == CacheSpec => []CacheInv
  BY CacheBegins, CacheKeepsInv, PTL DEF CacheSpec

\* The cache keeps its type: it holds maxEntries branches at most, and runs as many shared
\* loads as it may (storeLocked, read).
THEOREM CacheTypeCorrect == CacheSpec => []CacheTypeOK
<1>1. CacheInv => CacheTypeOK
  BY DEF CacheInv
<1> QED
  BY <1>1, CacheInvariant, PTL

\* However reads, loads and invalidations interleave, nothing older than the last
\* invalidation is cached, or given to a reader who came after it (read, invalidate).
THEOREM NothingStaleIsRead == CacheSpec => []NoStaleBranch
<1>1. CacheInv => NoStaleBranch
  BY DEF CacheInv
<1> QED
  BY <1>1, CacheInvariant, PTL

-----------------------------------------------------------------------------
(* Tickets: what every reachable state of them satisfies.                  *)

Drafts == {NoDraft, Failed, [status |-> "blocked", text |-> ""]} \cup Answers
TicketRows == [message : Mails \cup Chats \cup Calls \cup {NoMessage}, support : BOOLEAN,
               status : {"open", "answered", "closed"}, agent : Agents \cup {NoAgent}, draft : Drafts,
               answer : {"", "human", "help", "unsafe"}, body : SUBSET Speeches]
CallRows == [known : BOOLEAN, ticket : Nat, turns : Nat, status : {"in_progress", "completed"},
             transcript : SUBSET Speeches, first : SUBSET Speeches]
WorkRows == [pc : {"idle", "create", "choose", "assign", "assigned", "link", "append", "turn"} \cup
                  {"read", "ask", "save", "blocked", "reply"},
             kind : {"", "member", "mail", "chat", "twilio", "agent"} \cup
                    {"draft", "assignment", "send", "escalated", "escalatedTurn", "handed"},
             message : Mails \cup Chats \cup Calls \cup {NoMessage}, ticket : Nat, support : BOOLEAN,
             speech : SUBSET Speeches, turns : Nat, agent : Agents \cup {NoAgent}, draft : Drafts, result : Drafts]

TicketsTypeOK ==
  /\ ticket \in Seq(TicketRows)
  /\ call \in [Calls -> CallRows]
  /\ active \subseteq Agents
  /\ work \in [Workers -> WorkRows]
  /\ told \subseteq {"help", "unsafe"}
  /\ requests \in Nat

\* A request that has come so far has its ticket.
WorkersKnow ==
  \A w \in Workers : work[w].pc \notin {"idle", "create", "turn"} => work[w].ticket \in Tickets

\* What is linked to a call is the ticket of that call.
CallersKnow ==
  \A w \in Workers :
    /\ work[w].pc = "link" => work[w].kind \in {"twilio", "agent"}
    /\ work[w].kind \in {"twilio", "agent"} =>
         /\ work[w].message \in Calls
         /\ work[w].pc \in {"choose", "assign", "assigned", "link"} => work[w].ticket \in Of(work[w].message)

\* An administrator sends what may be sent.
SendsReady ==
  \A w \in Workers : work[w].kind = "send" =>
    work[w].pc \in {"read", "reply"} /\ (work[w].pc = "reply" => Ready(work[w].draft))

TicketsInv ==
  /\ TicketsTypeOK /\ WorkersKnow /\ CallersKnow /\ SendsReady
  /\ OneTicketPerMessage /\ NothingUnsafeIsTold

\* What a step may make of the tickets, of the request it serves, and of the calls.
TicketsGoOn ==
  /\ ticket' \in Seq(TicketRows) /\ Tickets \subseteq DOMAIN ticket'
  /\ \A t \in Tickets : ticket'[t].message = ticket[t].message
  /\ \A t, u \in DOMAIN ticket' : ticket'[t].message = ticket'[u].message /\ t # u => ticket'[t].message = NoMessage
  /\ \A t \in DOMAIN ticket' : ticket'[t].answer # "unsafe"

Continues(new) ==
  /\ new \in WorkRows
  /\ new.pc \notin {"idle", "create", "turn"} => new.ticket \in DOMAIN ticket'
  /\ new.pc = "link" => new.kind \in {"twilio", "agent"}
  /\ new.kind \in {"twilio", "agent"} =>
       /\ new.message \in Calls
       /\ new.pc \in {"choose", "assign", "assigned", "link"} =>
            new.ticket \in DOMAIN ticket' /\ ticket'[new.ticket].message = new.message
  /\ new.kind = "send" => new.pc \in {"read", "reply"} /\ (new.pc = "reply" => Ready(new.draft))

WorkGoesOn == UNCHANGED work \/ \E w \in Workers : \E new : work' = [work EXCEPT ![w] = new] /\ Continues(new)

CallsGoOn ==
  /\ call' \in [Calls -> CallRows]
  /\ \A c \in Calls : call'[c].ticket \in {0, call[c].ticket} \/
                      (call'[c].ticket \in DOMAIN ticket' /\ ticket'[call'[c].ticket].message = c)

LEMMA TicketsSteady == ASSUME TicketsInv, UNCHANGED ticket PROVE TicketsGoOn
  BY DEF TicketsInv, TicketsTypeOK, OneTicketPerMessage, NothingUnsafeIsTold, Tickets, TicketsGoOn

LEMMA TicketAppended ==
  ASSUME ticket \in Seq(TicketRows), NEW new \in TicketRows, ticket' = Append(ticket, new)
  PROVE  /\ ticket' \in Seq(TicketRows) /\ DOMAIN ticket' = Tickets \cup {Len(ticket) + 1}
         /\ ticket'[Len(ticket) + 1] = new /\ \A i \in Tickets : ticket'[i] = ticket[i]
  BY DEF Tickets

LEMMA TicketOpened ==
  ASSUME TicketsInv, NEW new \in TicketRows, ticket' = Append(ticket, new), Of(new.message) = {}, new.answer = ""
  PROVE  TicketsGoOn /\ Len(ticket) + 1 \in DOMAIN ticket' /\ ticket'[Len(ticket) + 1] = new
<1>1. ticket \in Seq(TicketRows)
  BY DEF TicketsInv, TicketsTypeOK
<1> DEFINE n == Len(ticket) + 1
<1>2. ticket' \in Seq(TicketRows) /\ DOMAIN ticket' = Tickets \cup {n} /\ ticket'[n] = new
  BY <1>1, TicketAppended DEF Tickets
<1>3. \A t \in Tickets : ticket'[t] = ticket[t]
  BY <1>1, TicketAppended DEF Tickets
<1> HIDE DEF n
<1>4. \A t \in Tickets : new.message # NoMessage => ticket[t].message # new.message
  BY DEF Of
<1>5. ASSUME NEW t \in DOMAIN ticket', NEW u \in DOMAIN ticket', ticket'[t].message = ticket'[u].message, t # u
      PROVE  ticket'[t].message = NoMessage
  <2>1. CASE t \in Tickets /\ u \in Tickets
    BY <1>3, <1>5, <2>1 DEF TicketsInv, OneTicketPerMessage
  <2>2. CASE t = n /\ u \in Tickets
    BY <1>2, <1>3, <1>4, <1>5, <2>2
  <2>3. CASE t \in Tickets /\ u = n
    BY <1>2, <1>3, <1>4, <1>5, <2>3
  <2> QED
    BY <1>2, <1>5, <2>1, <2>2, <2>3
<1>6. \A t \in DOMAIN ticket' : ticket'[t].answer # "unsafe"
  BY <1>2, <1>3 DEF TicketsInv, NothingUnsafeIsTold
<1> QED
  BY <1>2, <1>3, <1>5, <1>6 DEF TicketsGoOn, n

LEMMA TicketEdited ==
  ASSUME TicketsInv, NEW t \in Tickets, NEW new \in TicketRows, ticket' = [ticket EXCEPT ![t] = new],
         new.message = ticket[t].message, new.answer # "unsafe"
  PROVE  TicketsGoOn
<1>1. ticket \in Seq(TicketRows)
  BY DEF TicketsInv, TicketsTypeOK
<1>2. /\ ticket' \in Seq(TicketRows) /\ DOMAIN ticket' = Tickets
      /\ \A u \in Tickets : ticket'[u] = IF u = t THEN new ELSE ticket[u]
  BY <1>1 DEF Tickets
<1> QED
  BY <1>2 DEF TicketsInv, OneTicketPerMessage, NothingUnsafeIsTold, TicketsGoOn

LEMMA CallsSteady == ASSUME TicketsInv, UNCHANGED call PROVE CallsGoOn
  BY DEF TicketsInv, TicketsTypeOK, CallsGoOn

LEMMA TicketsAssembled ==
  ASSUME TicketsInv, TicketsGoOn, WorkGoesOn, CallsGoOn, active' \subseteq Agents, told' \subseteq {"help"}, requests' \in Nat
  PROVE  TicketsInv'
<1>0. TicketsTypeOK /\ work \in [Workers -> WorkRows]
  BY DEF TicketsInv, TicketsTypeOK
<1>1. ASSUME NEW w \in Workers PROVE Continues(work'[w])
  <2>1. CASE work'[w] = work[w]
    <3>1. work[w] \in WorkRows
      BY <1>0
    <3>2. work[w].pc \notin {"idle", "create", "turn"} => work[w].ticket \in DOMAIN ticket'
      BY DEF TicketsInv, WorkersKnow, TicketsGoOn
    <3>5. work[w].pc = "link" => work[w].kind \in {"twilio", "agent"}
      BY DEF TicketsInv, CallersKnow
    <3>3. work[w].kind \in {"twilio", "agent"} =>
            /\ work[w].message \in Calls
            /\ work[w].pc \in {"choose", "assign", "assigned", "link"} =>
                 work[w].ticket \in DOMAIN ticket' /\ ticket'[work[w].ticket].message = work[w].message
      BY TicketsAssumption DEF TicketsInv, CallersKnow, Of, TicketsGoOn
    <3>4. work[w].kind = "send" => work[w].pc \in {"read", "reply"} /\ (work[w].pc = "reply" => Ready(work[w].draft))
      BY DEF TicketsInv, SendsReady
    <3> QED
      BY <2>1, <3>1, <3>2, <3>3, <3>4, <3>5 DEF Continues
  <2>2. ASSUME NEW v \in Workers, NEW new, work' = [work EXCEPT ![v] = new], Continues(new), work'[w] # work[w]
        PROVE  Continues(work'[w])
    <3>1. work'[w] = new
      BY <1>0, <2>2
    <3> QED
      BY <2>2, <3>1 DEF Continues
  <2> QED
    BY <2>1, <2>2 DEF WorkGoesOn
<1>2. work' \in [Workers -> WorkRows]
  <2>1. ASSUME NEW v \in Workers, NEW new, work' = [work EXCEPT ![v] = new], Continues(new)
        PROVE  work' \in [Workers -> WorkRows]
    BY <1>0, <2>1 DEF Continues
  <2> QED
    BY <1>0, <2>1 DEF WorkGoesOn
<1>3. TicketsTypeOK'
  BY <1>2 DEF TicketsTypeOK, TicketsGoOn, CallsGoOn
<1>4. WorkersKnow' /\ SendsReady'
  BY <1>1 DEF Continues, WorkersKnow, Tickets, SendsReady, Ready
<1>5. CallersKnow'
  BY <1>1, TicketsAssumption DEF Continues, CallersKnow, Of, Tickets
<1>6. OneTicketPerMessage'
  <2>1. \A t, u \in DOMAIN ticket' : ticket'[t].message = ticket'[u].message /\ t # u => ticket'[t].message = NoMessage
    BY DEF TicketsGoOn
  <2>2. ASSUME NEW c \in Calls, call'[c].ticket # 0
        PROVE  call'[c].ticket \in DOMAIN ticket' /\ ticket'[call'[c].ticket].message = c
    <3>1. CASE call'[c].ticket = call[c].ticket
      BY <2>2, <3>1, TicketsAssumption, ZenonT(60) DEF TicketsInv, OneTicketPerMessage, Of, TicketsGoOn
    <3> QED
      BY <2>2, <3>1 DEF CallsGoOn
  <2> QED
    BY <2>1, <2>2, TicketsAssumption DEF OneTicketPerMessage, Tickets, Of
<1>7. NothingUnsafeIsTold'
  BY DEF TicketsGoOn, NothingUnsafeIsTold, Tickets
<1> QED
  BY <1>3, <1>4, <1>5, <1>6, <1>7 DEF TicketsInv

LEMMA RequestMoves ==
  ASSUME TicketsInv, TicketsGoOn, NEW w \in Workers, NEW new, Step(w, new), Continues(new), CallsGoOn,
         UNCHANGED active, told' \subseteq {"help"}, requests' \in Nat
  PROVE  TicketsInv'
<1>1. WorkGoesOn
  BY DEF WorkGoesOn, Step
<1>2. active' \subseteq Agents
  BY DEF TicketsInv, TicketsTypeOK
<1> QED
  BY <1>1, <1>2, TicketsAssembled

LEMMA NumbersToldKept ==
  ASSUME TicketsInv
  PROVE  told \subseteq {"help"} /\ requests \in Nat /\ active \subseteq Agents
  BY DEF TicketsInv, TicketsTypeOK, NothingUnsafeIsTold

LEMMA IdleContinues == Continues(Idle)
<1>1. NoDraft \in Drafts
  BY DEF Drafts
<1>2. /\ Idle.pc = "idle" /\ Idle.kind = "" /\ Idle.message = NoMessage /\ Idle.ticket = 0 /\ Idle.turns = 0
      /\ Idle.agent = NoAgent /\ Idle.draft = NoDraft /\ Idle.result = NoDraft
  BY DEF Idle
<1>3. Idle \in WorkRows
  BY <1>1 DEF Idle, WorkRows
<1> QED
  BY <1>2, <1>3 DEF Continues

\* What a request that has its ticket keeps when it goes on to its next statement.
LEMMA RequestKnows ==
  ASSUME TicketsInv, NEW w \in Workers, work[w].pc \notin {"idle", "create", "turn"}
  PROVE  work[w] \in WorkRows /\ work[w].ticket \in Tickets /\ ticket[work[w].ticket] \in TicketRows
<1>1. work[w] \in WorkRows /\ work[w].ticket \in Tickets /\ ticket \in Seq(TicketRows)
  BY DEF TicketsInv, TicketsTypeOK, WorkersKnow
<1> QED
  BY <1>1 DEF Tickets

LEMMA RequestGoesOn ==
  ASSUME TicketsInv, TicketsGoOn, NEW w \in Workers, work[w].pc \notin {"idle", "create", "turn"},
         NEW new \in WorkRows, new.kind \in {work[w].kind, "escalated", "escalatedTurn", "handed"},
         new.message = work[w].message, new.ticket = work[w].ticket,
         new.pc = "link" => new.kind \in {"twilio", "agent"},
         new.kind = "send" => new.pc = "reply" /\ Ready(new.draft),
         new.pc \in {"choose", "assign", "assigned", "link"} /\ new.kind \in {"twilio", "agent"} =>
           work[w].pc \in {"choose", "assign", "assigned", "link"}
  PROVE  Continues(new)
<1>1. work[w].ticket \in Tickets /\ work[w].ticket \in DOMAIN ticket'
  BY RequestKnows DEF TicketsGoOn
<1>2. ASSUME new.kind \in {"twilio", "agent"}
      PROVE  /\ new.message \in Calls
             /\ new.pc \in {"choose", "assign", "assigned", "link"} => ticket'[new.ticket].message = new.message
  BY <1>1, <1>2, TicketsAssumption DEF TicketsInv, CallersKnow, Of, TicketsGoOn
<1> QED
  BY <1>1, <1>2 DEF Continues

\* The requests arrive.
LEMMA OpensStep ==
  ASSUME TicketsInv, NEW w \in Workers, NEW kind \in {"member", "mail", "chat"},
         NEW message \in Mails \cup Chats \cup {NoMessage}, NEW support \in BOOLEAN,
         OpensTicket(w, kind, message, support)
  PROVE  TicketsInv'
<1> DEFINE new == [Idle EXCEPT !.pc = "create", !.kind = kind, !.message = message, !.support = support]
<1>1. Idle \in WorkRows
  BY IdleContinues DEF Continues
<1>2. new \in WorkRows /\ new.pc = "create" /\ new.kind = kind
  <2> DEFINE r == [Idle EXCEPT !.pc = "create", !.kind = kind, !.message = message]
  <2>1. r \in WorkRows /\ r.pc = "create" /\ r.kind = kind
    BY <1>1, ZenonT(60) DEF WorkRows
  <2>2. new = [r EXCEPT !.support = support]
    BY <1>1 DEF WorkRows
  <2> HIDE DEF r, new
  <2> QED
    BY <2>1, <2>2 DEF WorkRows
<1>3. Step(w, new) /\ UNCHANGED <<ticket, call, active, told>> /\ requests' = requests + 1
  BY DEF OpensTicket, Serves
<1> HIDE DEF new
<1>4. Continues(new)
  BY <1>2 DEF Continues
<1> QED
  BY <1>3, <1>4, TicketsSteady, CallsSteady, NumbersToldKept, RequestMoves

LEMMA AdminStep ==
  ASSUME TicketsInv, NEW w \in Workers, NEW t \in Tickets, AdminDrafts(w, t) \/ AdminSends(w, t) \/ AdminAutoAssigns(w, t)
  PROVE  TicketsInv'
<1> DEFINE New(pc, kind) == [Idle EXCEPT !.pc = pc, !.kind = kind, !.ticket = t]
<1>1. Idle \in WorkRows /\ t \in Nat
  BY IdleContinues DEF Continues, TicketsInv, TicketsTypeOK, Tickets
<1>2. ASSUME NEW pc \in {"read", "choose"}, NEW kind \in {"draft", "assignment", "send"}
      PROVE  New(pc, kind) \in WorkRows /\ New(pc, kind).pc = pc /\ New(pc, kind).kind = kind /\ New(pc, kind).ticket = t
  BY <1>1, ZenonT(60) DEF WorkRows
<1>3. PICK pc \in {"read", "choose"}, kind \in {"draft", "assignment", "send"} :
        Step(w, New(pc, kind)) /\ (kind = "send" => pc = "read")
  BY DEF AdminDrafts, AdminSends, AdminAutoAssigns, Serves
<1>4. UNCHANGED <<ticket, call, active, told>> /\ requests' = requests + 1
  BY DEF AdminDrafts, AdminSends, AdminAutoAssigns, Serves
<1> HIDE DEF New
<1>5. TicketsGoOn
  BY <1>4, TicketsSteady
<1>6. Continues(New(pc, kind))
  BY <1>2, <1>3, <1>5 DEF Continues, TicketsGoOn
<1> QED
  BY <1>3, <1>4, <1>5, <1>6, CallsSteady, NumbersToldKept, RequestMoves

\* The calls.
LEMMA CallEdited ==
  ASSUME TicketsInv, NEW c \in Calls, NEW new \in CallRows, call' = [call EXCEPT ![c] = new],
         new.ticket \in {0, call[c].ticket} \/ (new.ticket \in DOMAIN ticket' /\ ticket'[new.ticket].message = c)
  PROVE  CallsGoOn
<1>1. call \in [Calls -> CallRows]
  BY DEF TicketsInv, TicketsTypeOK
<1>2. \A d \in Calls : call'[d] = IF d = c THEN new ELSE call[d]
  BY <1>1
<1>3. call' \in [Calls -> CallRows]
  BY <1>1
<1> QED
  BY <1>2, <1>3 DEF CallsGoOn

LEMMA CallSeen ==
  ASSUME TicketsInv, NEW c \in Calls
  PROVE  Upserted(c) \in CallRows /\ Upserted(c).ticket \in {0, call[c].ticket}
<1>1. NoCall \in CallRows /\ NoCall.ticket = 0
  BY DEF NoCall, CallRows
<1>2. [NoCall EXCEPT !.known = TRUE] \in CallRows /\ [NoCall EXCEPT !.known = TRUE].ticket = 0
  BY <1>1 DEF CallRows
<1>3. call[c] \in CallRows
  BY DEF TicketsInv, TicketsTypeOK
<1> QED
  BY <1>2, <1>3 DEF Upserted

LEMMA CallOnlyStep ==
  ASSUME TicketsInv, NEW c \in Calls, CallStarts(c) \/ CallEnds(c)
  PROVE  TicketsInv'
<1>1. UNCHANGED <<ticket, active, work, told, requests>>
  BY DEF CallStarts, CallEnds
<1>2. PICK new \in CallRows : call' = [call EXCEPT ![c] = new] /\ new.ticket \in {0, call[c].ticket}
  <2>1. CASE CallStarts(c)
    BY <2>1, CallSeen DEF CallStarts
  <2>2. CASE CallEnds(c)
    <3> DEFINE ended == [call[c] EXCEPT !.status = "completed"]
    <3>1. call[c] \in CallRows
      BY DEF TicketsInv, TicketsTypeOK
    <3>2. ended \in CallRows /\ ended.ticket = call[c].ticket
      BY <3>1 DEF CallRows
    <3>3. call' = [call EXCEPT ![c] = ended]
      BY <2>2 DEF CallEnds
    <3> QED
      BY <3>2, <3>3
  <2> QED
    BY <2>1, <2>2
<1>3. TicketsGoOn /\ CallsGoOn /\ WorkGoesOn
  BY <1>1, <1>2, TicketsSteady, CallEdited DEF WorkGoesOn
<1> QED
  BY <1>1, <1>3, NumbersToldKept, TicketsAssembled

LEMMA TurnStep ==
  ASSUME TicketsInv, NEW w \in Workers, NEW c \in Calls, NEW s \in Speeches, NEW kind \in {"twilio", "agent"},
         NEW support \in BOOLEAN, TurnArrives(w, c, s, kind, support)
  PROVE  TicketsInv'
<1> DEFINE seen == Upserted(c)
           entry == IF seen.ticket = 0 THEN [seen EXCEPT !.first = @ \cup {s}] ELSE seen
           pc == IF ~(support \/ seen.ticket # 0) THEN "turn" ELSE IF seen.ticket = 0 THEN "create" ELSE "append"
           new == [Idle EXCEPT !.kind = kind, !.message = c, !.speech = {s},
                               !.ticket = seen.ticket, !.turns = seen.turns, !.pc = pc]
<1>1. /\ Step(w, new) /\ call' = [call EXCEPT ![c] = entry]
      /\ UNCHANGED <<ticket, active, told>> /\ requests' = requests + 1
  BY DEF TurnArrives, Serves
<1>2. seen \in CallRows /\ seen.ticket \in {0, call[c].ticket}
  BY CallSeen
<1>3. pc \in {"turn", "create", "append"} /\ (pc = "append" => seen.ticket # 0)
  OBVIOUS
<1> HIDE DEF pc, seen
<1>4. entry \in CallRows /\ entry.ticket = seen.ticket
  BY <1>2 DEF CallRows
<1>5. new \in WorkRows /\ new.kind = kind /\ new.message = c /\ new.ticket = seen.ticket /\ new.pc = pc
  <2>1. Idle \in WorkRows
    BY IdleContinues DEF Continues
  <2>2. seen.ticket \in Nat /\ seen.turns \in Nat
    BY <1>2 DEF CallRows
  <2> QED
    BY <1>3, <2>1, <2>2, ZenonT(60) DEF WorkRows
<1> HIDE DEF new, entry
<1>6. TicketsGoOn /\ CallsGoOn
  BY <1>1, <1>2, <1>4, TicketsSteady, CallEdited
<1>7. new.pc = "append" => new.ticket \in DOMAIN ticket'
  BY <1>1, <1>2, <1>3, <1>5 DEF TicketsInv, OneTicketPerMessage, Of, Tickets
<1>8. Continues(new)
  BY <1>3, <1>5, <1>7 DEF Continues
<1> QED
  BY <1>1, <1>6, <1>8, NumbersToldKept, RequestMoves

\* A ticket is made, or the one of the message is found.
LEMMA CreateStep ==
  ASSUME TicketsInv, NEW w \in Workers, Create(w)
  PROVE  TicketsInv'
<1> DEFINE in == work[w]
           made == [message |-> in.message, support |-> in.support, status |-> "open", agent |-> NoAgent,
                    draft |-> NoDraft, answer |-> "", body |-> in.speech]
           opened == [in EXCEPT !.pc = "choose", !.ticket = Len(ticket) + 1]
           found(t, pc) == [in EXCEPT !.ticket = t, !.draft = ticket[t].draft, !.pc = pc]
<1>1. in \in WorkRows /\ in.pc = "create" /\ ticket \in Seq(TicketRows) /\ in.kind # "send"
  BY DEF TicketsInv, TicketsTypeOK, SendsReady, Create, At
<1>2. in.kind \in {"twilio", "agent"} => in.message \in Calls
  BY DEF TicketsInv, CallersKnow
<1>3. UNCHANGED <<call, active, told, requests>>
  BY DEF Create
<1>4. ASSUME Of(in.message) = {} PROVE TicketsInv'
  <2>1. ticket' = Append(ticket, made) /\ Step(w, opened)
    BY <1>4 DEF Create
  <2>2. made \in TicketRows /\ made.message = in.message /\ made.answer = ""
    <3>1. NoDraft \in Drafts /\ in.message \in Mails \cup Chats \cup Calls \cup {NoMessage}
      BY <1>1 DEF Drafts, WorkRows
    <3>2. in.support \in BOOLEAN /\ in.speech \in SUBSET Speeches
      BY <1>1 DEF WorkRows
    <3> QED
      BY <3>1, <3>2 DEF TicketRows
  <2>3. opened \in WorkRows /\ opened.pc = "choose" /\ opened.ticket = Len(ticket) + 1
        /\ opened.kind = in.kind /\ opened.message = in.message
    <3>1. Len(ticket) + 1 \in Nat
      BY <1>1
    <3> QED
      BY <1>1, <3>1 DEF WorkRows
  <2> HIDE DEF made, opened, in
  <2>4. TicketsGoOn /\ Len(ticket) + 1 \in DOMAIN ticket' /\ ticket'[Len(ticket) + 1] = made
    BY <1>4, <2>1, <2>2, TicketOpened
  <2>5. Continues(opened)
    BY <1>1, <1>2, <2>2, <2>3, <2>4 DEF Continues
  <2> QED
    BY <1>3, <2>1, <2>4, <2>5, CallsSteady, NumbersToldKept, RequestMoves
<1>5. ASSUME Of(in.message) # {} PROVE TicketsInv'
  <2>1. PICK t \in Of(in.message) :
          /\ Step(w, found(t, IF ticket[t].agent = NoAgent THEN "choose" ELSE "assigned"))
          /\ UNCHANGED ticket
    BY <1>5 DEF Create
  <2> DEFINE pc == IF ticket[t].agent = NoAgent THEN "choose" ELSE "assigned"
             new == found(t, pc)
  <2>2. t \in Tickets /\ ticket[t].message = in.message
    BY DEF Of
  <2>3. pc \in {"choose", "assigned"}
    OBVIOUS
  <2>4. Step(w, new)
    BY <2>1
  <2> HIDE DEF pc
  <2>5. new \in WorkRows /\ new.pc = pc /\ new.ticket = t /\ new.kind = in.kind /\ new.message = in.message
    <3>1. t \in Nat /\ ticket[t] \in TicketRows
      BY <1>1, <2>2 DEF Tickets
    <3>2. ticket[t].draft \in Drafts
      BY <3>1 DEF TicketRows
    <3> QED
      BY <1>1, <2>3, <3>1, <3>2 DEF WorkRows
  <2> HIDE DEF new, in
  <2>6. TicketsGoOn
    BY <2>1, TicketsSteady
  <2>7. Continues(new)
    BY <1>1, <1>2, <2>1, <2>2, <2>3, <2>5, <2>6 DEF Continues, TicketsGoOn
  <2> QED
    BY <1>3, <2>4, <2>6, <2>7, CallsSteady, NumbersToldKept, RequestMoves
<1> QED
  BY <1>4, <1>5

\* The assignment, and what follows it.
LEMMA ChooseStep ==
  ASSUME TicketsInv, NEW w \in Workers, Choose(w)
  PROVE  TicketsInv'
<1>1. work[w].pc = "choose" /\ work[w] \in WorkRows /\ UNCHANGED <<ticket, call, active, told, requests>>
  BY DEF Choose, At, TicketsInv, TicketsTypeOK
<1>2. work[w].kind # "send"
  BY <1>1 DEF TicketsInv, SendsReady
<1>3. PICK pc \in {"assigned", "assign"}, a \in Agents \cup {NoAgent} :
        Step(w, [work[w] EXCEPT !.pc = pc, !.agent = a])
  <2>1. CASE Free = {} /\ Goes(w, "assigned")
    <3>1. work[w].agent \in Agents \cup {NoAgent}
      BY <1>1 DEF WorkRows
    <3>2. [work[w] EXCEPT !.pc = "assigned", !.agent = work[w].agent] = [work[w] EXCEPT !.pc = "assigned"]
      BY <1>1 DEF WorkRows
    <3> QED
      BY <2>1, <3>1, <3>2 DEF Goes
  <2>2. ASSUME NEW a \in Free, Step(w, [work[w] EXCEPT !.pc = "assign", !.agent = a])
        PROVE  \E b \in Agents \cup {NoAgent} : Step(w, [work[w] EXCEPT !.pc = "assign", !.agent = b])
    BY <2>2 DEF Free, TicketsInv, TicketsTypeOK
  <2> QED
    BY <2>1, <2>2 DEF Choose
<1> DEFINE new == [work[w] EXCEPT !.pc = pc, !.agent = a]
<1>4. new \in WorkRows /\ new.pc = pc /\ new.kind = work[w].kind /\ new.message = work[w].message
      /\ new.ticket = work[w].ticket
  BY <1>1, ZenonT(60) DEF WorkRows
<1>5. Step(w, new)
  BY <1>3
<1> HIDE DEF new
<1>6. TicketsGoOn
  BY <1>1, TicketsSteady
<1>7. Continues(new)
  BY <1>1, <1>2, <1>4, <1>6, RequestGoesOn
<1> QED
  BY <1>1, <1>5, <1>6, <1>7, CallsSteady, NumbersToldKept, RequestMoves

LEMMA AssignStep ==
  ASSUME TicketsInv, NEW w \in Workers, Assign(w)
  PROVE  TicketsInv'
<1> DEFINE in == work[w]
           t == in.ticket
           given == [ticket[t] EXCEPT !.agent = in.agent]
           new == [in EXCEPT !.pc = "assigned", !.draft = ticket[t].draft]
<1>1. in.pc = "assign" /\ UNCHANGED <<call, active, told, requests>> /\ Step(w, new)
      /\ ticket' = [ticket EXCEPT ![t] = given]
  BY DEF Assign, At
<1>2. in \in WorkRows /\ t \in Tickets /\ ticket[t] \in TicketRows
  BY <1>1, RequestKnows
<1>3. in.kind # "send"
  BY <1>1 DEF TicketsInv, SendsReady
<1>4. given \in TicketRows /\ given.message = ticket[t].message /\ given.answer = ticket[t].answer
  <2>1. in.agent \in Agents \cup {NoAgent}
    BY <1>2 DEF WorkRows
  <2> HIDE DEF in, t
  <2> QED
    BY <1>2, <2>1 DEF TicketRows
<1>5. new \in WorkRows /\ new.pc = "assigned" /\ new.kind = in.kind /\ new.message = in.message /\ new.ticket = t
  <2>1. ticket[t].draft \in Drafts
    BY <1>2 DEF TicketRows
  <2> QED
    BY <1>2, <2>1 DEF WorkRows
<1> HIDE DEF given, new
<1>6. TicketsGoOn
  BY <1>1, <1>2, <1>4, TicketEdited DEF TicketsInv, NothingUnsafeIsTold
<1>7. Continues(new)
  BY <1>1, <1>3, <1>5, <1>6, RequestGoesOn
<1> QED
  BY <1>1, <1>6, <1>7, CallsSteady, NumbersToldKept, RequestMoves

\* A request goes on to another statement, or ends.
LEMMA PcMoves ==
  ASSUME TicketsInv, TicketsGoOn, NEW w \in Workers, work[w].pc \notin {"idle", "create", "turn"},
         NEW pc \in {"ask", "read", "reply", "blocked", "turn", "link"}, Goes(w, pc),
         work[w].kind # "send", pc = "link" => work[w].pc = "assigned" /\ work[w].kind \in {"twilio", "agent"},
         CallsGoOn, UNCHANGED active, told' \subseteq {"help"}, requests' \in Nat
  PROVE  TicketsInv'
<1> DEFINE new == [work[w] EXCEPT !.pc = pc]
<1>1. new \in WorkRows /\ new.pc = pc /\ new.kind = work[w].kind /\ new.message = work[w].message
      /\ new.ticket = work[w].ticket
  BY RequestKnows, ZenonT(60) DEF WorkRows
<1>2. Step(w, new)
  BY DEF Goes
<1> HIDE DEF new
<1>3. Continues(new)
  BY <1>1, RequestGoesOn
<1> QED
  BY <1>2, <1>3, RequestMoves

LEMMA RequestEnds ==
  ASSUME TicketsInv, TicketsGoOn, NEW w \in Workers, Step(w, Idle),
         CallsGoOn, UNCHANGED active, told' \subseteq {"help"}, requests' \in Nat
  PROVE  TicketsInv'
  BY IdleContinues, RequestMoves

LEMMA AssignedStep ==
  ASSUME TicketsInv, NEW w \in Workers, Assigned(w)
  PROVE  TicketsInv'
<1>1. work[w].pc = "assigned" /\ UNCHANGED <<ticket, call, active, told, requests>>
  BY DEF Assigned, At
<1>2. work[w].kind # "send"
  BY <1>1 DEF TicketsInv, SendsReady
<1>3. TicketsGoOn /\ CallsGoOn /\ told' \subseteq {"help"} /\ requests' \in Nat
  BY <1>1, TicketsSteady, CallsSteady, NumbersToldKept
<1>4. \/ \E pc \in {"link", "turn", "read", "reply"} :
           Goes(w, pc) /\ (pc = "link" => work[w].kind \in {"twilio", "agent"})
      \/ Step(w, Idle)
  BY DEF Assigned
<1> QED
  BY <1>1, <1>2, <1>3, <1>4, PcMoves, RequestEnds

\* The turns of a call.
LEMMA LinkStep ==
  ASSUME TicketsInv, NEW w \in Workers, Link(w)
  PROVE  TicketsInv'
<1> DEFINE c == work[w].message
           t == work[w].ticket
           new == [call[c] EXCEPT !.ticket = t]
<1>1. work[w].pc = "link" /\ Goes(w, "ask") /\ UNCHANGED <<ticket, active, told, requests>>
      /\ call' = [call EXCEPT ![c] = new]
  BY DEF Link, At
<1>2. work[w].kind # "send"
  BY <1>1 DEF TicketsInv, SendsReady
<1>3. c \in Calls /\ t \in Of(c)
  BY <1>1 DEF TicketsInv, CallersKnow
<1>4. t \in Tickets /\ ticket[t].message = c /\ t \in Nat
  BY <1>3, RequestKnows, <1>1 DEF Of, WorkRows
<1>5. new \in CallRows /\ new.ticket = t
  <2>1. call[c] \in CallRows
    BY <1>3 DEF TicketsInv, TicketsTypeOK
  <2> HIDE DEF c, t
  <2> QED
    BY <1>4, <2>1 DEF CallRows
<1> HIDE DEF new, c, t
<1>6. TicketsGoOn /\ CallsGoOn
  BY <1>1, <1>3, <1>4, <1>5, TicketsSteady, CallEdited DEF Tickets
<1> QED
  BY <1>1, <1>2, <1>6, NumbersToldKept, PcMoves

LEMMA AppendBodyStep ==
  ASSUME TicketsInv, NEW w \in Workers, AppendBody(w)
  PROVE  TicketsInv'
<1> DEFINE t == work[w].ticket
           s == work[w].speech
           new == [ticket[t] EXCEPT !.body = @ \cup s]
<1>1. work[w].pc = "append" /\ Goes(w, "ask") /\ UNCHANGED <<call, active, told, requests>>
      /\ ticket' = [ticket EXCEPT ![t] = new]
  BY DEF AppendBody, At
<1>2. work[w].kind # "send"
  BY <1>1 DEF TicketsInv, SendsReady
<1>3. t \in Tickets /\ ticket[t] \in TicketRows /\ s \in SUBSET Speeches
  BY <1>1, RequestKnows DEF WorkRows
<1> HIDE DEF t, s
<1>4. new \in TicketRows /\ new.message = ticket[t].message /\ new.answer = ticket[t].answer
  BY <1>3 DEF TicketRows
<1> HIDE DEF new
<1>5. TicketsGoOn
  BY <1>1, <1>3, <1>4, TicketEdited DEF TicketsInv, NothingUnsafeIsTold
<1> QED
  BY <1>1, <1>2, <1>5, CallsSteady, NumbersToldKept, PcMoves

LEMMA TurnSaved ==
  ASSUME TicketsInv, NEW w \in Workers, NEW final \in BOOLEAN, Turn(w, final)
  PROVE  TicketsInv'
<1> DEFINE c == work[w].message
           s == work[w].speech
           status == IF Final(w, final) THEN "completed" ELSE "in_progress"
           said == call[c].transcript \cup s
           turns == call[c].turns + 1
           new == [call[c] EXCEPT !.transcript = said, !.turns = turns, !.status = status]
<1>1. Step(w, Idle) /\ UNCHANGED <<ticket, active, told, requests>>
  BY DEF Turn
<1>2. call' = [call EXCEPT ![c] = new]
  BY DEF Turn
<1>3. call \in [Calls -> CallRows] /\ work[w] \in WorkRows
  BY DEF TicketsInv, TicketsTypeOK
<1>4. CallsGoOn
  <2>1. ASSUME c \in Calls
        PROVE  new \in CallRows /\ new.ticket = call[c].ticket
    <3>1. status \in {"in_progress", "completed"} /\ s \in SUBSET Speeches /\ call[c] \in CallRows
      BY <1>3, <2>1 DEF WorkRows
    <3>2. said \in SUBSET Speeches /\ turns \in Nat
      BY <3>1 DEF CallRows
    <3> HIDE DEF c, s, status, said, turns
    <3> QED
      BY <3>1, <3>2 DEF CallRows
  <2> HIDE DEF c, new
  <2>2. CASE c \in Calls
    BY <1>2, <2>1, <2>2, CallEdited
  <2>3. CASE c \notin Calls
    <3>1. call' = call
      BY <1>2, <1>3, <2>3
    <3> QED
      BY <3>1, CallsSteady
  <2> QED
    BY <2>2, <2>3
<1> QED
  BY <1>1, <1>4, TicketsSteady, NumbersToldKept, RequestEnds

\* The support AI.
LEMMA DraftReadStep ==
  ASSUME TicketsInv, NEW w \in Workers, Read(w)
  PROVE  TicketsInv'
<1> DEFINE t == ticket[work[w].ticket]
           new == [work[w] EXCEPT !.pc = "reply", !.draft = t.draft]
<1>1. work[w].pc = "read" /\ UNCHANGED <<ticket, call, active, told, requests>>
  BY DEF Read, At
<1>2. TicketsGoOn /\ CallsGoOn /\ told' \subseteq {"help"} /\ requests' \in Nat
  BY <1>1, TicketsSteady, CallsSteady, NumbersToldKept
<1>3. CASE Step(w, Idle)
  BY <1>1, <1>2, <1>3, RequestEnds
<1>4. ASSUME work[w].kind # "send" PROVE TicketsInv'
  <2>1. Goes(w, "ask") \/ Goes(w, "blocked")
    BY <1>4 DEF Read
  <2> QED
    BY <1>1, <1>2, <1>4, <2>1, PcMoves
<1>5. ASSUME work[w].kind = "send", Step(w, new), Ready(t.draft) PROVE TicketsInv'
  <2>1. new \in WorkRows /\ new.pc = "reply" /\ new.kind = work[w].kind /\ new.message = work[w].message
        /\ new.ticket = work[w].ticket /\ new.draft = t.draft
    <3>1. work[w] \in WorkRows /\ t.draft \in Drafts
      BY <1>1, RequestKnows DEF TicketRows
    <3> HIDE DEF t
    <3> QED
      BY <3>1 DEF WorkRows
  <2> HIDE DEF new, t
  <2>2. Continues(new)
    BY <1>1, <1>2, <1>5, <2>1, RequestGoesOn
  <2> QED
    BY <1>1, <1>2, <1>5, <2>2, RequestMoves
<1> QED
  BY <1>3, <1>4, <1>5 DEF Read

LEMMA AskStep ==
  ASSUME TicketsInv, NEW w \in Workers, Ask(w)
  PROVE  TicketsInv'
<1>1. work[w].pc = "ask" /\ UNCHANGED <<ticket, call, active, requests>>
  BY DEF Ask, At
<1>2. TicketsGoOn /\ CallsGoOn /\ told \subseteq {"help"} /\ requests' \in Nat
  BY <1>1, TicketsSteady, CallsSteady, NumbersToldKept
<1>3. work[w].kind # "send"
  BY <1>1 DEF TicketsInv, SendsReady
<1>4. CASE Goes(w, "turn") /\ UNCHANGED told
  BY <1>1, <1>2, <1>3, <1>4, PcMoves
<1>5. ASSUME NEW d \in Answers \cup {Failed}, Step(w, [work[w] EXCEPT !.pc = "save", !.result = d]),
             told' = told \/ told' = told \cup Heard(d)
      PROVE  TicketsInv'
  <2> DEFINE new == [work[w] EXCEPT !.pc = "save", !.result = d]
  <2>1. d \in Drafts /\ Heard(d) \subseteq {"help"}
    <3>1. CASE d = Failed
      BY <3>1 DEF Drafts, Failed, Heard
    <3>2. CASE d = [status |-> "drafted", text |-> "help"]
      BY <3>2 DEF Drafts, Answers, Heard
    <3>3. CASE d = [status |-> "escalate", text |-> "unsafe"]
      BY <3>3 DEF Drafts, Answers, Heard
    <3> QED
      BY <3>1, <3>2, <3>3 DEF Answers
  <2>2. new \in WorkRows /\ new.pc = "save" /\ new.kind = work[w].kind /\ new.message = work[w].message
        /\ new.ticket = work[w].ticket
    BY <1>1, <2>1, RequestKnows, ZenonT(60) DEF WorkRows
  <2>3. Step(w, new)
    BY <1>5
  <2> HIDE DEF new
  <2>4. Continues(new)
    BY <1>1, <1>2, <1>3, <2>2, RequestGoesOn
  <2>5. told' \subseteq {"help"}
    BY <1>2, <1>5, <2>1
  <2> QED
    BY <1>1, <1>2, <2>3, <2>4, <2>5, RequestMoves
<1> QED
  BY <1>4, <1>5 DEF Ask

LEMMA BlockStep ==
  ASSUME TicketsInv, NEW w \in Workers, Block(w)
  PROVE  TicketsInv'
<1> DEFINE t == work[w].ticket
           blocked == [status |-> "blocked", text |-> ""]
           new == [ticket[t] EXCEPT !.draft = blocked]
<1>1. work[w].pc = "blocked" /\ Step(w, Idle) /\ UNCHANGED <<call, active, told, requests>>
      /\ ticket' = [ticket EXCEPT ![t] = new]
  BY DEF Block, At
<1>2. t \in Tickets /\ ticket[t] \in TicketRows /\ blocked \in Drafts
  BY <1>1, RequestKnows DEF Drafts
<1> HIDE DEF t, blocked
<1>3. new \in TicketRows /\ new.message = ticket[t].message /\ new.answer = ticket[t].answer
  BY <1>2 DEF TicketRows
<1> HIDE DEF new
<1>4. TicketsGoOn
  BY <1>1, <1>2, <1>3, TicketEdited DEF TicketsInv, NothingUnsafeIsTold
<1> QED
  BY <1>1, <1>4, CallsSteady, NumbersToldKept, RequestEnds

LEMMA SaveDraftStep ==
  ASSUME TicketsInv, NEW w \in Workers, SaveDraft(w)
  PROVE  TicketsInv'
<1> DEFINE t == work[w].ticket
           d == IF work[w].kind = "mail" /\ work[w].result = Failed THEN work[w].draft ELSE work[w].result
           in == [work[w] EXCEPT !.draft = d]
           r == work[w].result
           saved == [ticket[t] EXCEPT !.draft = r]
           hand == Escalated(in)
           next(pc, kind) == [in EXCEPT !.pc = pc, !.kind = kind]
<1>1. work[w].pc = "save" /\ UNCHANGED <<call, active, told, requests>>
  BY DEF SaveDraft, At
<1>2. /\ work[w] \in WorkRows /\ t \in Tickets /\ ticket[t] \in TicketRows
      /\ work[w].draft \in Drafts /\ work[w].result \in Drafts /\ d \in Drafts
  BY <1>1, RequestKnows DEF WorkRows
<1>3. work[w].kind # "send"
  BY <1>1 DEF TicketsInv, SendsReady
<1> HIDE DEF d
<1>4. /\ in \in WorkRows /\ in.kind = work[w].kind /\ in.message = work[w].message /\ in.ticket = t
      /\ in.result = work[w].result
  BY <1>2 DEF WorkRows
<1>5. ticket' = [ticket EXCEPT ![t] = saved]
  <2>1. ticket' = [ticket EXCEPT ![in.ticket].draft = in.result]
    BY DEF SaveDraft, d
  <2> QED
    BY <1>4, <2>1
<1>6. \/ hand /\ Step(w, [in EXCEPT !.pc = "choose", !.kind = "escalatedTurn"])
      \/ hand /\ Step(w, [in EXCEPT !.pc = "choose", !.kind = IF in.kind = "mail" THEN "escalated" ELSE "handed"])
      \/ Step(w, [in EXCEPT !.pc = "turn"])
      \/ Step(w, [in EXCEPT !.pc = "reply"])
      \/ Step(w, Idle)
  BY Zenon DEF SaveDraft, d
<1> HIDE DEF hand, in
<1>7. TicketsGoOn
  <2>1. saved \in TicketRows /\ saved.message = ticket[t].message /\ saved.answer = ticket[t].answer
    <3>1. r \in Drafts /\ ticket[t] \in TicketRows
      BY <1>2
    <3> HIDE DEF r, t
    <3> QED
      BY <3>1 DEF TicketRows
  <2> HIDE DEF saved, t
  <2> QED
    BY <1>2, <1>5, <2>1, TicketEdited DEF TicketsInv, NothingUnsafeIsTold
<1>8. ASSUME NEW pc \in {"choose", "turn", "reply"}, NEW kind \in {work[w].kind, "escalated", "escalatedTurn", "handed"},
             pc = "choose" => kind \in {"escalated", "escalatedTurn", "handed"}, Step(w, next(pc, kind))
      PROVE  TicketsInv'
  <2> DEFINE new == next(pc, kind)
  <2>1. new \in WorkRows /\ new.pc = pc /\ new.kind = kind /\ new.message = work[w].message /\ new.ticket = t
    <3>1. kind \in {"", "member", "mail", "chat", "twilio", "agent"} \cup
                   {"draft", "assignment", "send", "escalated", "escalatedTurn", "handed"}
      BY <1>2 DEF WorkRows
    <3>2. in \in WorkRows /\ in.message = work[w].message /\ in.ticket = t
      BY <1>4
    <3> HIDE DEF t, r
    <3>3. new \in WorkRows
      BY <3>1, <3>2, ZenonT(60) DEF WorkRows
    <3>4. new.pc = pc /\ new.kind = kind /\ new.message = in.message /\ new.ticket = in.ticket
      BY <3>2 DEF WorkRows
    <3> HIDE DEF new
    <3> QED
      BY <3>2, <3>3, <3>4
  <2>2. Step(w, new)
    BY <1>8
  <2> HIDE DEF new, next, t
  <2>3. Continues(new)
    BY <1>1, <1>3, <1>7, <1>8, <2>1, RequestGoesOn DEF t
  <2> QED
    BY <1>1, <1>7, <2>2, <2>3, CallsSteady, NumbersToldKept, RequestMoves
<1>9. ASSUME NEW pc \in {"turn", "reply"}, Step(w, [in EXCEPT !.pc = pc])
      PROVE  TicketsInv'
  <2>1. next(pc, work[w].kind) = [in EXCEPT !.pc = pc]
    BY <1>4 DEF WorkRows
  <2> HIDE DEF next
  <2> QED
    BY <1>8, <1>9, <2>1
<1>10. ASSUME NEW kind \in {"escalated", "escalatedTurn", "handed"}, Step(w, [in EXCEPT !.pc = "choose", !.kind = kind])
       PROVE  TicketsInv'
  BY <1>8, <1>10
<1>11. CASE Step(w, Idle)
  BY <1>1, <1>7, <1>11, CallsSteady, NumbersToldKept, RequestEnds
<1> QED
  <2>1. CASE Step(w, [in EXCEPT !.pc = "choose", !.kind = IF in.kind = "mail" THEN "escalated" ELSE "handed"])
    BY <1>10, <2>1
  <2>2. CASE Step(w, [in EXCEPT !.pc = "choose", !.kind = "escalatedTurn"])
    BY <1>10, <2>2
  <2> QED
    BY <1>6, <1>9, <1>11, <2>1, <2>2

\* The only draft that is ready says what may be said.
LEMMA ReadyIsHelp == ASSUME NEW d \in Drafts, Ready(d) PROVE d.text = "help"
<1>1. CASE d = NoDraft
  BY <1>1 DEF NoDraft, Ready
<1>2. CASE d = Failed
  BY <1>2 DEF Failed, Ready
<1>3. CASE d = [status |-> "blocked", text |-> ""]
  BY <1>3 DEF Ready
<1>4. CASE d = [status |-> "escalate", text |-> "unsafe"]
  BY <1>4 DEF Ready
<1>5. CASE d = [status |-> "drafted", text |-> "help"]
  BY <1>5
<1> QED
  BY <1>1, <1>2, <1>3, <1>4, <1>5 DEF Drafts, Answers

LEMMA ReplyStep ==
  ASSUME TicketsInv, NEW w \in Workers, Reply(w)
  PROVE  TicketsInv'
<1> DEFINE in == work[w]
           t == in.ticket
           text == in.draft.text
           sent == [ticket[t] EXCEPT !.answer = text, !.status = "answered"]
<1>1. in.pc = "reply" /\ Step(w, Idle) /\ UNCHANGED <<call, active, requests>>
  BY DEF Reply, At
<1>2. in \in WorkRows /\ t \in Tickets /\ ticket[t] \in TicketRows /\ in.draft \in Drafts
  BY <1>1, RequestKnows DEF WorkRows
<1>3. in.kind = "send" \/ Automatic(in) => text = "help"
  BY <1>1, <1>2, ReadyIsHelp DEF Automatic, TicketsInv, SendsReady
<1>4. \/ ticket' = ticket
      \/ ticket' = [ticket EXCEPT ![t] = sent] /\ text = "help"
  BY <1>3 DEF Reply
<1>5. told' = told \/ (told' = told \cup {text} /\ text = "help")
  BY <1>3 DEF Reply
<1> HIDE DEF text, t
<1>6. TicketsGoOn
  <2>1. CASE ticket' = ticket
    BY <2>1, TicketsSteady
  <2>2. ASSUME ticket' = [ticket EXCEPT ![t] = sent], text = "help"
        PROVE  TicketsGoOn
    <3>1. sent \in TicketRows /\ sent.message = ticket[t].message /\ sent.answer = "help"
      BY <1>2, <2>2 DEF TicketRows
    <3> HIDE DEF sent
    <3> QED
      BY <1>2, <2>2, <3>1, TicketEdited
  <2> QED
    BY <1>4, <2>1, <2>2
<1>7. told' \subseteq {"help"}
  BY <1>5, NumbersToldKept
<1> QED
  BY <1>1, <1>6, <1>7, CallsSteady, NumbersToldKept, RequestEnds

LEMMA StopsStep ==
  ASSUME TicketsInv, NEW w \in Workers, Stops(w)
  PROVE  TicketsInv'
  BY TicketsSteady, CallsSteady, NumbersToldKept, RequestEnds DEF Stops

\* What an administrator does at once.
LEMMA AdminEdits ==
  ASSUME TicketsInv, NEW t \in Tickets, NEW status \in {"open", "closed"}, NEW a \in Agents \cup {NoAgent},
         AdminReplies(t) \/ SetStatus(t, status) \/ AdminAssigns(t, a)
  PROVE  TicketsInv'
<1>1. ticket[t] \in TicketRows /\ ticket[t].answer # "unsafe"
  BY DEF TicketsInv, TicketsTypeOK, NothingUnsafeIsTold, Tickets
<1>2. UNCHANGED <<call, active, work, told, requests>>
  BY DEF AdminReplies, SetStatus, AdminAssigns
<1>3. PICK new \in TicketRows : /\ ticket' = [ticket EXCEPT ![t] = new]
                                /\ new.message = ticket[t].message /\ new.answer # "unsafe"
  <2> DEFINE replied == [ticket[t] EXCEPT !.answer = "human", !.status = "answered"]
             set == [ticket[t] EXCEPT !.status = status]
             given == [ticket[t] EXCEPT !.agent = a]
  <2>1. replied \in TicketRows /\ replied.message = ticket[t].message /\ replied.answer # "unsafe"
    BY <1>1 DEF TicketRows
  <2>2. set \in TicketRows /\ set.message = ticket[t].message /\ set.answer # "unsafe"
    BY <1>1 DEF TicketRows
  <2>3. given \in TicketRows /\ given.message = ticket[t].message /\ given.answer # "unsafe"
    BY <1>1 DEF TicketRows
  <2>4. \/ ticket' = [ticket EXCEPT ![t] = replied]
        \/ ticket' = [ticket EXCEPT ![t] = set]
        \/ ticket' = [ticket EXCEPT ![t] = given]
    BY DEF AdminReplies, SetStatus, AdminAssigns
  <2> HIDE DEF replied, set, given
  <2> QED
    BY <2>1, <2>2, <2>3, <2>4
<1>4. TicketsGoOn
  BY <1>3, TicketEdited
<1>5. WorkGoesOn
  BY <1>2 DEF WorkGoesOn
<1> QED
  BY <1>2, <1>4, <1>5, CallsSteady, NumbersToldKept, TicketsAssembled

LEMMA AgentUpserted ==
  ASSUME TicketsInv, NEW a \in Agents, UpsertAgent(a)
  PROVE  TicketsInv'
<1>1. UNCHANGED <<ticket, call, work, told, requests>> /\ active' \subseteq Agents
  BY NumbersToldKept DEF UpsertAgent
<1> QED
  BY <1>1, TicketsSteady, CallsSteady, NumbersToldKept, TicketsAssembled DEF WorkGoesOn

LEMMA TicketsInvInit == TicketsInit => TicketsInv
<1> SUFFICES ASSUME TicketsInit PROVE TicketsInv
  OBVIOUS
<1>1. Idle \in WorkRows /\ Idle.pc = "idle" /\ Idle.kind = ""
  BY IdleContinues DEF Continues, Idle
<1>2. NoCall \in CallRows /\ NoCall.ticket = 0
  BY DEF NoCall, CallRows
<1>3. Tickets = {}
  BY DEF TicketsInit, Tickets
<1>4. \A w \in Workers : work[w] = Idle
  BY DEF TicketsInit
<1>5. \A c \in Calls : call[c] = NoCall
  BY DEF TicketsInit
<1>6. TicketsTypeOK
  <2>1. ticket \in Seq(TicketRows)
    BY DEF TicketsInit
  <2>2. call \in [Calls -> CallRows] /\ work \in [Workers -> WorkRows]
    BY <1>1, <1>2 DEF TicketsInit
  <2> QED
    BY <2>1, <2>2 DEF TicketsInit, TicketsTypeOK
<1>7. WorkersKnow /\ CallersKnow /\ SendsReady
  BY <1>1, <1>4 DEF WorkersKnow, CallersKnow, SendsReady
<1>8. OneTicketPerMessage /\ NothingUnsafeIsTold
  BY <1>2, <1>3, <1>5 DEF OneTicketPerMessage, NothingUnsafeIsTold, TicketsInit
<1> QED
  BY <1>6, <1>7, <1>8 DEF TicketsInv

LEMMA TicketsInvStep == ASSUME TicketsInv, [TicketsNext]_ticketVars PROVE TicketsInv'
<1>1. CASE UNCHANGED ticketVars
  BY <1>1, TicketsSteady, CallsSteady, NumbersToldKept, TicketsAssembled DEF ticketVars, WorkGoesOn
<1>2. ASSUME NEW w \in Workers,
             \/ \E support \in Verdicts : MemberTicket(w, support)
             \/ AccessHelp(w)
             \/ \E m \in Mails : MailArrives(w, m)
             \/ \E m \in Chats : ChatArrives(w, m)
      PROVE  TicketsInv'
  <2>1. PICK kind \in {"member", "mail", "chat"}, message \in Mails \cup Chats \cup {NoMessage}, support \in BOOLEAN :
          OpensTicket(w, kind, message, support)
    BY <1>2 DEF Verdicts, MemberTicket, AccessHelp, MailArrives, ChatArrives
  <2> QED
    BY <2>1, OpensStep
<1>3. ASSUME NEW w \in Workers, NEW c \in Calls, NEW s \in Speeches,
             TwilioTurn(w, c, s) \/ \E support \in Verdicts : AgentTurn(w, c, s, support)
      PROVE  TicketsInv'
  <2>1. PICK kind \in {"twilio", "agent"}, support \in BOOLEAN : TurnArrives(w, c, s, kind, support)
    BY <1>3 DEF Verdicts, TwilioTurn, AgentTurn
  <2> QED
    BY <2>1, TurnStep
<1>4. ASSUME NEW w \in Workers,
             \/ Create(w) \/ Choose(w) \/ Assign(w) \/ Assigned(w)
             \/ Link(w) \/ AppendBody(w) \/ (\E final \in BOOLEAN : Turn(w, final))
             \/ Read(w) \/ Ask(w) \/ Block(w) \/ SaveDraft(w) \/ Reply(w) \/ Stops(w)
      PROVE  TicketsInv'
  BY <1>4, CreateStep, ChooseStep, AssignStep, AssignedStep, LinkStep, AppendBodyStep, TurnSaved,
     DraftReadStep, AskStep, BlockStep, SaveDraftStep, ReplyStep, StopsStep
<1>5. ASSUME NEW t \in Tickets,
             \/ AdminReplies(t)
             \/ \E status \in {"open", "closed"} : SetStatus(t, status)
             \/ \E a \in Agents \cup {NoAgent} : AdminAssigns(t, a)
      PROVE  TicketsInv'
  BY <1>5, AdminEdits
<1> QED
  BY <1>1, <1>2, <1>3, <1>4, <1>5, AdminStep, CallOnlyStep, AgentUpserted DEF TicketsNext

\* The tickets, the calls, the requests in progress and what they know of each other stay
\* as TicketsInv says, whichever requests run, stop or come again (tickets.go,
\* twilio_support.go).
THEOREM TicketsInvariant == TicketsSpec => []TicketsInv
<1>1. TicketsInit => TicketsInv
  BY TicketsInvInit
<1>2. TicketsInv /\ [TicketsNext]_ticketVars => TicketsInv'
  BY TicketsInvStep
<1> QED
  BY <1>1, <1>2, PTL DEF TicketsSpec

\* Every request, ticket, call and draft is one the code can hold.
THEOREM TicketsTypeCorrect == TicketsSpec => []TicketsTypeOK
<1>1. TicketsInv => TicketsTypeOK
  BY DEF TicketsInv
<1> QED
  BY <1>1, TicketsInvariant, PTL

\* A mail, a WhatsApp message or a call has one ticket, however often it is delivered and
\* to whatever requests, and a call is linked to its own (CreateTicketWithSource).
THEOREM OneTicketEach == TicketsSpec => []OneTicketPerMessage
<1>1. TicketsInv => OneTicketPerMessage
  BY DEF TicketsInv
<1> QED
  BY <1>1, TicketsInvariant, PTL

\* What the AI says while it asks for a person reaches nobody: no answer of a ticket, no
\* call, no chat (SendTicketAIDraft, the automatic answers, voiceAnswerText).
THEOREM NothingUnsafeGoesOut == TicketsSpec => []NothingUnsafeIsTold
<1>1. TicketsInv => NothingUnsafeIsTold
  BY DEF TicketsInv
<1> QED
  BY <1>1, TicketsInvariant, PTL
=============================================================================
