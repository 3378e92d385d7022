----------------------------- MODULE Purchases -----------------------------
(***************************************************************************)
(* The purchase of a membership through Stripe (vp-engine/internal/        *)
(* payments): the checkout, the resumed cart, the webhook, the sweep that  *)
(* recovers lost webhooks, the activation, the receipt, the refund and the *)
(* admin's edit of a person, over payments.purchase_intent and mlm.person. *)
(*                                                                         *)
(* Every handler is split at each call to Stripe or to the mailer, at each *)
(* row lock it waits for and between its transactions.  A Stripe session   *)
(* and its PaymentIntent are one identifier: Stripe makes one per session. *)
(* An event may be delivered late, often or never, in any order: it can be *)
(* delivered whenever Stripe is in the state it reports.                   *)
(***************************************************************************)
EXTENDS Naturals, FiniteSets

CONSTANTS
  Buyers, Intents, Sessions,   \* mlm.person, purchase_intent, Stripe sessions
  BuyerOf, PackageOf,          \* of each intent
  Workers, Sweepers,           \* handlers in flight; those that only sweep
  Happens,                     \* what this instance lets happen
  None

ASSUME ConstantsAssumption ==
  /\ BuyerOf \in [Intents -> Buyers]
  /\ Sweepers \subseteq Workers
  /\ Happens \subseteq {"decline", "expire", "resume", "refund", "refundCommitFails",
                        "dispute", "edit", "ban", "failures", "sweepFailures", "mailDown"}
  /\ None \notin Intents \cup Sessions \cup Workers

VARIABLES
  intent,                      \* rows of payments.purchase_intent
  claimed, receipts,           \* receipt_sent_at IS NOT NULL; mails that arrived
  delivered,                   \* payments with a package, an inflow and their PV
  placed, banned,              \* buyers with an affiliate, buyers under a ban
  stripe,                      \* the checkout sessions at Stripe
  lock, plock,                 \* row locks of purchase_intent and mlm.person
  job                          \* local state of the handlers

dbVars == <<intent, claimed, delivered, placed>>
vars == <<dbVars, receipts, banned, stripe, lock, plock, job>>

\* States no activation reopens.
Risk == {"refunded", "security_blocked", "disputed", "chargeback"}

\* States of a purchase whose money is known to the service.
Collected == {"activated", "needs_placement"} \cup Risk

IdleJob == [pc |-> "idle", intent |-> None, session |-> None, verdict |-> "none"]

Init ==
  /\ intent = [i \in Intents |-> [status |-> "none", session |-> None, pay |-> None]]
  /\ claimed = [i \in Intents |-> FALSE]
  /\ receipts = [i \in Intents |-> 0]
  /\ delivered = {}
  /\ placed \in SUBSET Buyers
  /\ banned = {}
  /\ stripe = [s \in Sessions |-> [state |-> "none", of |-> None,
                                   declined |-> FALSE, refunded |-> FALSE]]
  /\ lock = [i \in Intents |-> None]
  /\ plock = [b \in Buyers |-> None]
  /\ job = [x \in Workers |-> IdleJob]

Buyer(x) == BuyerOf[job[x].intent]

Done(x) == job' = [job EXCEPT ![x] = IdleJob]
GoTo(x, pc) == job' = [job EXCEPT ![x].pc = pc]

Begin(x, pc, i, s) ==
  /\ job[x].pc = "idle"
  /\ job' = [job EXCEPT ![x] = [IdleJob EXCEPT !.pc = pc, !.intent = i, !.session = s]]

Unlock(l, x) == [k \in DOMAIN l |-> IF l[k] = x THEN None ELSE l[k]]

-----------------------------------------------------------------------------
(* handleCheckout.  The eligibility is read long before the intent exists. *)

\* HasActiveMembership
HasActiveMembership(i) ==
  \E s \in delivered : LET j == stripe[s].of
                       IN BuyerOf[j] = BuyerOf[i] /\ PackageOf[j] = PackageOf[i]

CheckoutStart(x, i) ==
  /\ x \notin Sweepers
  /\ intent[i].status = "none" /\ \A y \in Workers : job[y].intent # i
  /\ BuyerOf[i] \notin banned
  /\ ~HasActiveMembership(i)
  /\ Begin(x, "create", i, None)
  /\ UNCHANGED <<dbVars, receipts, banned, stripe, lock, plock>>

\* CreatePurchaseIntent: under the lock of the person, for the length of the INSERT.
CheckoutCreate(x) ==
  /\ job[x].pc = "create"
  /\ plock[Buyer(x)] = None
  /\ intent' = [intent EXCEPT ![job[x].intent].status = "created"]
  /\ GoTo(x, "session")
  /\ UNCHANGED <<claimed, delivered, placed, receipts, banned, stripe, lock, plock>>

\* CreateCheckout: Stripe opens a session that names the intent in its metadata.
CreateCheckout(x, s) ==
  /\ job[x].pc = "session"
  /\ stripe[s].state = "none"
  /\ stripe' = [stripe EXCEPT ![s] = [@ EXCEPT !.state = "open", !.of = job[x].intent]]
  /\ job' = [job EXCEPT ![x] = [@ EXCEPT !.pc = "attach", !.session = s]]
  /\ UNCHANGED <<dbVars, receipts, banned, lock, plock>>

\* AttachSession overwrites the session, whatever the status; its error is logged.
AttachSession(x) ==
  LET i == job[x].intent IN
  /\ job[x].pc = "attach"
  /\ lock[i] = None
  /\ intent' = [intent EXCEPT ![i].session = job[x].session]
  /\ Done(x)
  /\ UNCHANGED <<claimed, delivered, placed, receipts, banned, stripe, lock, plock>>

-----------------------------------------------------------------------------
(* handleResume: the link of a cart reminder.                              *)

Resumable == {"created", "expired"}

ResumeStart(x, i) ==
  /\ "resume" \in Happens /\ x \notin Sweepers
  /\ intent[i].status \in Resumable
  /\ BuyerOf[i] \notin banned
  /\ Begin(x, "reopen", i, None)
  /\ UNCHANGED <<dbVars, receipts, banned, stripe, lock, plock>>

\* ReopenIntent locks the intent before its person, like the activation.
ReopenLock(x) ==
  LET i == job[x].intent IN
  /\ job[x].pc = "reopen"
  /\ lock[i] = None
  /\ IF intent[i].status \in Resumable
     THEN GoTo(x, "reopen_person") /\ lock' = [lock EXCEPT ![i] = x]
     ELSE Done(x) /\ UNCHANGED lock
  /\ UNCHANGED <<dbVars, receipts, banned, stripe, plock>>

\* Bug: the reservation keeps its transaction open until the session is attached.
BugKeepsPerson(x) == [plock EXCEPT ![Buyer(x)] = x]

\* The commit of the reservation frees the person too.
PersonAfterReopen(x) == plock

ReopenCommit(x) ==
  LET i == job[x].intent IN
  /\ job[x].pc = "reopen_person"
  /\ plock[Buyer(x)] = None
  /\ IF Buyer(x) \in banned
     THEN Done(x) /\ UNCHANGED <<intent, plock>>
     ELSE /\ intent' = [intent EXCEPT ![i].status = "created"]
          /\ GoTo(x, "session")
          /\ plock' = PersonAfterReopen(x)
  /\ lock' = Unlock(lock, x)
  /\ UNCHANGED <<claimed, delivered, placed, receipts, banned, stripe>>

-----------------------------------------------------------------------------
(* activatePaidPurchase, called by the webhook and by the sweep.           *)

\* handlePaid: only a session Stripe reports as paid goes on.
DeliverPaid(x, s) ==
  /\ x \notin Sweepers
  /\ stripe[s].state = "paid"
  /\ Begin(x, "lock", stripe[s].of, s)
  /\ UNCHANGED <<dbVars, receipts, banned, stripe, lock, plock>>

\* Bug: only what the activation already marked is recovered.
BugOnlyPaid(i) == intent[i].status = "paid" /\ intent[i].session # None

\* ListReconcileCandidates
ReconcileCandidate(i) == intent[i].status \in {"created", "paid"} /\ intent[i].session # None

SweepList(x, i) ==
  /\ ReconcileCandidate(i)
  /\ Begin(x, "ask", i, intent[i].session)
  /\ UNCHANGED <<dbVars, receipts, banned, stripe, lock, plock>>

\* Bug: the sweep activates its candidates whatever Stripe says.
BugTrustsCandidate(s) == TRUE

\* paidCheckout
PaidCheckout(s) == stripe[s].state = "paid"

SweepAsk(x) ==
  /\ job[x].pc = "ask"
  /\ IF PaidCheckout(job[x].session) THEN GoTo(x, "lock") ELSE Done(x)
  /\ UNCHANGED <<dbVars, receipts, banned, stripe, lock, plock>>

\* Bug: the evidence is not compared with the intent.
BugAnyEvidence(i, s) == TRUE

\* matchesIntent
MatchesIntent(i, s) == intent[i].session \in {None, s} /\ intent[i].pay \in {None, s}

\* Bug: a refunded or disputed purchase can be activated again.
BugAnyState(st) == TRUE

\* activationStateAllowed
ActivationStateAllowed(st) == st \in {"created", "paid", "needs_placement", "activated"}

\* The intent is found by its session or by the session's metadata, locked and
\* judged under the lock.  An activated one is a replay.
ActivateLock(x) ==
  LET i == job[x].intent IN
  /\ job[x].pc = "lock"
  /\ lock[i] = None
  /\ IF /\ MatchesIntent(i, job[x].session)
        /\ ActivationStateAllowed(intent[i].status)
        /\ intent[i].status # "activated"
     THEN GoTo(x, "person") /\ lock' = [lock EXCEPT ![i] = x]
     ELSE Done(x) /\ UNCHANGED lock
  /\ UNCHANGED <<dbVars, receipts, banned, stripe, plock>>

ActivatePerson(x) ==
  /\ job[x].pc = "person"
  /\ plock[Buyer(x)] = None
  /\ plock' = [plock EXCEPT ![Buyer(x)] = x]
  /\ GoTo(x, "decide")
  /\ UNCHANGED <<dbVars, receipts, banned, stripe, lock>>

\* banDecisionFor, then the affiliate: a buyer without one waits when there is no
\* sponsor or the sponsor may not receive placements.
Verdicts(b) ==
  IF b \in banned THEN {"security_blocked"}
  ELSE IF b \in placed THEN {"activated"} ELSE {"activated", "needs_placement"}

ActivateDecide(x) ==
  /\ job[x].pc = "decide"
  /\ \E v \in Verdicts(Buyer(x)) :
       job' = [job EXCEPT ![x] = [@ EXCEPT !.pc = "commit", !.verdict = v]]
  /\ UNCHANGED <<dbVars, receipts, banned, stripe, lock, plock>>

\* A blocked payment keeps the session the intent had; package, inflow and PV
\* carry the payment in their unique references.
ActivateCommit(x) ==
  LET i == job[x].intent
      s == job[x].session
      v == job[x].verdict
  IN
  /\ job[x].pc = "commit"
  /\ intent' = [intent EXCEPT ![i] =
                  [status |-> v, pay |-> s,
                   session |-> IF v = "security_blocked" THEN @.session ELSE s]]
  /\ delivered' = IF v = "activated" THEN delivered \cup {s} ELSE delivered
  /\ placed' = IF v = "activated" THEN placed \cup {Buyer(x)} ELSE placed
  /\ lock' = Unlock(lock, x)
  /\ plock' = Unlock(plock, x)
  /\ IF v = "security_blocked" THEN Done(x) ELSE GoTo(x, "claim")
  /\ UNCHANGED <<claimed, receipts, banned, stripe>>

-----------------------------------------------------------------------------
(* afterPaymentConfirmed: the receipt, claimed before it is mailed.        *)

\* Bug: the receipt is sent without asking who sent it already.
BugUnclaimed(i) == TRUE

Unclaimed(i) == ~claimed[i]

ReceiptClaim(x) ==
  LET i == job[x].intent IN
  /\ job[x].pc = "claim"
  /\ lock[i] = None
  /\ IF Unclaimed(i)
     THEN GoTo(x, "mail") /\ claimed' = [claimed EXCEPT ![i] = TRUE]
     ELSE Done(x) /\ UNCHANGED claimed
  /\ UNCHANGED <<intent, delivered, placed, receipts, banned, stripe, lock, plock>>

SendEmail(x) ==
  /\ job[x].pc = "mail"
  /\ receipts' = [receipts EXCEPT ![job[x].intent] = @ + 1]
  /\ Done(x)
  /\ UNCHANGED <<dbVars, banned, stripe, lock, plock>>

\* The mailer reports an error for a mail that did not leave.
SendEmailFails(x) ==
  /\ "mailDown" \in Happens
  /\ job[x].pc = "mail"
  /\ GoTo(x, "release")
  /\ UNCHANGED <<dbVars, receipts, banned, stripe, lock, plock>>

ReceiptRelease(x) ==
  LET i == job[x].intent IN
  /\ job[x].pc = "release"
  /\ lock[i] = None
  /\ claimed' = [claimed EXCEPT ![i] = FALSE]
  /\ Done(x)
  /\ UNCHANGED <<intent, delivered, placed, receipts, banned, stripe, lock, plock>>

-----------------------------------------------------------------------------
(* The events that close or suspend an intent: one UPDATE each, answered   *)
(* with 200 whether or not it changed a row.                               *)

\* markIntentFromEvent for a failed payment: by payment, else by the metadata.
\* Only an intent in 'created' is touched.
DeliverFailed(s) ==
  LET i == stripe[s].of IN
  /\ stripe[s].declined
  /\ lock[i] = None
  /\ intent[i].status = "created"
  /\ intent' = [intent EXCEPT ![i] = [@ EXCEPT !.status = "failed", !.pay = s]]
  /\ UNCHANGED <<claimed, delivered, placed, receipts, banned, stripe, lock, plock, job>>

\* ... and for an expired session, which carries its payment once there is one.
DeliverExpired(s) ==
  LET i == stripe[s].of IN
  /\ stripe[s].state = "expired"
  /\ lock[i] = None
  /\ intent[i].status = "created"
  /\ intent' = [intent EXCEPT ![i] =
                  [@ EXCEPT !.status = "expired",
                            !.pay = IF stripe[s].declined THEN s ELSE intent[i].pay]]
  /\ UNCHANGED <<claimed, delivered, placed, receipts, banned, stripe, lock, plock, job>>

\* What a dispute or a closed review makes of the purchase.
RiskStatuses == {"disputed", "chargeback", "security_blocked"}

\* MarkIntentRiskStatus, whatever the status was.
DeliverRisk(s, st) ==
  LET i == stripe[s].of IN
  /\ "dispute" \in Happens
  /\ stripe[s].state = "paid"
  /\ lock[i] = None
  /\ intent[i].pay = s
  /\ intent' = [intent EXCEPT ![i].status = st]
  /\ UNCHANGED <<claimed, delivered, placed, receipts, banned, stripe, lock, plock, job>>

-----------------------------------------------------------------------------
(* RefundPurchaseIntent: the row stays locked while Stripe is called.      *)

\* Bug: the refund reads the intent without FOR UPDATE.
BugNoRefundLock(x, i) == lock

RefundLocked(x, i) == [lock EXCEPT ![i] = x]

\* refundAllowedStatus
RefundAllowed(i) ==
  /\ intent[i].status \in {"paid", "activated", "needs_placement", "security_blocked"}
  /\ intent[i].pay # None

RefundStart(x, i) ==
  /\ "refund" \in Happens /\ x \notin Sweepers
  /\ lock[i] = None
  /\ RefundAllowed(i)
  /\ Begin(x, "refund", i, intent[i].pay)
  /\ lock' = RefundLocked(x, i)
  /\ UNCHANGED <<dbVars, receipts, banned, stripe, plock>>

\* RefundPaymentIntent: Stripe refuses a second full refund.
RefundCall(x) ==
  LET s == job[x].session IN
  /\ job[x].pc = "refund"
  /\ IF stripe[s].refunded
     THEN Done(x) /\ lock' = Unlock(lock, x) /\ UNCHANGED stripe
     ELSE /\ stripe' = [stripe EXCEPT ![s].refunded = TRUE]
          /\ GoTo(x, "refunded")
          /\ UNCHANGED lock
  /\ UNCHANGED <<dbVars, receipts, banned, plock>>

RefundCommit(x) ==
  /\ job[x].pc = "refunded"
  /\ intent' = [intent EXCEPT ![job[x].intent].status = "refunded"]
  /\ lock' = Unlock(lock, x)
  /\ Done(x)
  /\ UNCHANGED <<claimed, delivered, placed, receipts, banned, stripe, plock>>

-----------------------------------------------------------------------------
(* UpdatePersonIdentity: the person first, then every intent of theirs.    *)

EditStart(x, i) ==
  /\ "edit" \in Happens /\ x \notin Sweepers
  /\ plock[BuyerOf[i]] = None
  /\ Begin(x, "edit", i, None)
  /\ plock' = [plock EXCEPT ![BuyerOf[i]] = x]
  /\ UNCHANGED <<dbVars, receipts, banned, stripe, lock>>

EditCommit(x) ==
  /\ job[x].pc = "edit"
  /\ \A i \in Intents : BuyerOf[i] = Buyer(x) => lock[i] = None
  /\ plock' = Unlock(plock, x)
  /\ Done(x)
  /\ UNCHANGED <<dbVars, receipts, banned, stripe, lock>>

-----------------------------------------------------------------------------
(* Failures, Stripe and the ban list.                                      *)

\* A step fails or its process dies: the transaction it was in is rolled back.
\* A refund that fails after Stripe's answer is a case of its own, and so is the sweep.
FailureOf(x) ==
  IF job[x].pc = "refunded" THEN "refundCommitFails"
  ELSE IF x \in Sweepers THEN "sweepFailures" ELSE "failures"

Fail(x) ==
  /\ job[x].pc # "idle"
  /\ FailureOf(x) \in Happens
  /\ lock' = Unlock(lock, x)
  /\ plock' = Unlock(plock, x)
  /\ Done(x)
  /\ UNCHANGED <<dbVars, receipts, banned, stripe>>

\* A refused card leaves the session open for another one.
Decline(s) ==
  /\ "decline" \in Happens
  /\ stripe[s].state = "open"
  /\ stripe' = [stripe EXCEPT ![s].declined = TRUE]
  /\ UNCHANGED <<dbVars, receipts, banned, lock, plock, job>>

Pay(s) ==
  /\ stripe[s].state = "open"
  /\ stripe' = [stripe EXCEPT ![s].state = "paid"]
  /\ UNCHANGED <<dbVars, receipts, banned, lock, plock, job>>

Expire(s) ==
  /\ "expire" \in Happens
  /\ stripe[s].state = "open"
  /\ stripe' = [stripe EXCEPT ![s].state = "expired"]
  /\ UNCHANGED <<dbVars, receipts, banned, lock, plock, job>>

Ban(b) ==
  /\ "ban" \in Happens
  /\ banned' = IF b \in banned THEN banned \ {b} ELSE banned \cup {b}
  /\ UNCHANGED <<dbVars, receipts, stripe, lock, plock, job>>

Step(x) ==
  \/ CheckoutCreate(x) \/ AttachSession(x) \/ ReopenLock(x) \/ ReopenCommit(x)
  \/ \E s \in Sessions : CreateCheckout(x, s)
  \/ SweepAsk(x) \/ ActivateLock(x) \/ ActivatePerson(x) \/ ActivateDecide(x) \/ ActivateCommit(x)
  \/ ReceiptClaim(x) \/ SendEmail(x) \/ SendEmailFails(x) \/ ReceiptRelease(x)
  \/ RefundCall(x) \/ RefundCommit(x) \/ EditCommit(x)

Start(x) ==
  \/ \E i \in Intents : \/ CheckoutStart(x, i) \/ ResumeStart(x, i) \/ SweepList(x, i)
                        \/ RefundStart(x, i) \/ EditStart(x, i)
  \/ \E s \in Sessions : DeliverPaid(x, s)

StripeStep(s) ==
  \/ Decline(s) \/ Pay(s) \/ Expire(s)
  \/ DeliverFailed(s) \/ DeliverExpired(s)
  \/ \E st \in RiskStatuses : DeliverRisk(s, st)

Next ==
  \/ \E x \in Workers : Start(x) \/ Step(x) \/ Fail(x)
  \/ \E s \in Sessions : StripeStep(s)
  \/ \E b \in Buyers : Ban(b)

Spec == Init /\ [][Next]_vars

-----------------------------------------------------------------------------
(* Type correctness.                                                       *)

Statuses == {"none", "created", "paid", "failed", "expired"} \cup Collected

PCs == {"idle", "create", "session", "attach", "reopen", "reopen_person", "ask", "lock",
        "person", "decide", "commit", "claim", "mail", "release", "refund", "refunded", "edit"}

IntentRecord == [status : Statuses, session : Sessions \cup {None}, pay : Sessions \cup {None}]
StripeRecord == [state : {"none", "open", "paid", "expired"}, of : Intents \cup {None},
                 declined : BOOLEAN, refunded : BOOLEAN]
JobRecord == [pc : PCs, intent : Intents \cup {None}, session : Sessions \cup {None},
              verdict : {"none", "activated", "needs_placement", "security_blocked"}]

\* Every variable has its type: intents, Stripe sessions, locks and handlers.
TypeOK ==
  /\ intent \in [Intents -> IntentRecord]
  /\ claimed \in [Intents -> BOOLEAN] /\ receipts \in [Intents -> Nat]
  /\ delivered \subseteq Sessions
  /\ placed \subseteq Buyers /\ banned \subseteq Buyers
  /\ stripe \in [Sessions -> StripeRecord]
  /\ lock \in [Intents -> Workers \cup {None}]
  /\ plock \in [Buyers -> Workers \cup {None}]
  /\ job \in [Workers -> JobRecord]

-----------------------------------------------------------------------------
(* Safety.                                                                 *)

\* A package, an inflow and PV exist only for a payment Stripe collected, that the
\* intent it was made for still names, and whose buyer is in the tree.
DeliveredIsPaid ==
  \A s \in delivered :
    /\ stripe[s].state = "paid"
    /\ intent[stripe[s].of].pay = s
    /\ BuyerOf[stripe[s].of] \in placed

\* At most one receipt of a purchase reaches the customer, however often the webhook
\* is delivered, the sweep runs and an unplaced purchase is activated later.
ReceiptOnce == \A i \in Intents : receipts[i] <= 1

WaitsForPerson(x) == job[x].pc \in {"person", "reopen_person"}
WaitsForIntent(x) == job[x].pc \in {"lock", "reopen", "attach", "claim", "release", "edit"}

\* Two handlers never wait for each other's row of purchase_intent and mlm.person.
NoLockCycle ==
  \A x, y \in Workers : \A i \in Intents :
    ~ /\ lock[i] = x /\ WaitsForPerson(x) /\ plock[Buyer(x)] = y
      /\ WaitsForIntent(y) /\ IF job[y].pc = "edit" THEN Buyer(y) = BuyerOf[i]
                              ELSE job[y].intent = i

-----------------------------------------------------------------------------
(* What a step may never do.                                               *)

\* A refunded, blocked, disputed or charged back purchase is never reopened: no late
\* webhook, sweep, resumed cart or event takes it back among the live ones.
RiskIsKept ==
  [][\A i \in Intents : intent[i].status \in Risk => intent'[i].status \in Risk]_vars

\* Once the service knows a purchase's payment it never takes another one for it,
\* although a purchase may have several payable sessions.
PaymentKept ==
  [][\A i \in Intents : intent[i].status \in Collected => intent'[i].pay = intent[i].pay]_vars

\* No package is delivered for a payment that was refunded before.
RefundStopsDelivery == [][\A s \in delivered' \ delivered : ~stripe[s].refunded]_vars

-----------------------------------------------------------------------------
(* Liveness.  Handlers end; a lock is granted to the one who waits for it  *)
(* (PostgreSQL queues them); the ticker runs the sweep for ever, and it    *)
(* gets to every candidate; a mail that is tried again gets out.  Without  *)
(* "sweepFailures" the sweep's own steps have stopped failing.             *)

SweepStep(x) ==
  \/ \E i \in Intents : SweepList(x, i)
  \/ SweepAsk(x)

Fairness ==
  /\ \A x \in Workers : WF_vars(Step(x) \/ Fail(x))
  /\ \A x \in Sweepers :
       /\ \A i \in Intents : SF_vars(SweepList(x, i))
       /\ SF_vars(SweepAsk(x))
       /\ SF_vars(ActivateLock(x)) /\ SF_vars(ActivatePerson(x))
       /\ SF_vars(ActivateDecide(x)) /\ SF_vars(ActivateCommit(x))
  /\ \A x \in Workers : SF_vars(SendEmail(x))

LiveSpec == Spec /\ Fairness

\* The sweep recovers a payment whose webhook got lost: a paid session that is still
\* the intent's ends in an activated, waiting or reviewed purchase.
LostWebhookRecovered ==
  \A i \in Intents, s \in Sessions :
    (stripe[s].state = "paid" /\ stripe[s].of = i /\ intent[i].session = s)
      ~> (intent[i].status \in Collected)
=============================================================================
