----------------------------- MODULE NowOrders -----------------------------
(***************************************************************************)
(* A membership paid through NOWPayments (vp-engine/internal/payments):    *)
(* the order and its invoice, the capture of signed notifications, the     *)
(* leased job that processes the newest capture of an order, the receipt,  *)
(* the activation and the local cancellation.                              *)
(*                                                                         *)
(* A notification carries the status the payment had when it was sent; the *)
(* handler then asks the provider for the status it has now.  Every        *)
(* transaction is one action, and every process may stop between two of    *)
(* its transactions.  A transaction holds the rows it locks until it ends, *)
(* and nothing that may commit meanwhile reads what it writes.             *)
(***************************************************************************)
EXTENDS Naturals, Sequences, FiniteSets

CONSTANTS
  Orders, Requests,            \* nowpayments_membership_attempt, purchase_request_id
  Payments,                    \* payments of the provider, each of one invoice
  Statuses,                    \* the statuses a payment may take in this instance
  Handlers, Runners,           \* webhook handlers in flight, job runners
  Mortal,                      \* the runners whose container may be terminated
  Capacity,                    \* capacity_slot: reserved orders, never released
  Happens,                     \* what this instance lets happen
  MaxCaptures,                 \* bound: no answered notification comes again beyond it
  Nobody

ASSUME OrdersAssumption ==
  /\ Capacity \in Nat /\ MaxCaptures \in Nat
  /\ Happens \subseteq {"invoiceFails", "cancel", "buyer", "failures"}
  /\ Mortal \subseteq Runners
  /\ Statuses \subseteq {"waiting", "finished", "underpaid", "refunded"}
  /\ Nobody \notin Orders \cup Payments \cup Runners

VARIABLES
  order,                       \* attempt row, operational row and cancellation
  request,                     \* nowpayments_purchase_request
  call,                        \* the checkout that creates the order's invoice
  invoices,                    \* invoices of each order at the provider
  pay, sent, acked,            \* payments there; notifications sent, answered 200
  capture,                     \* nowpayments_webhook_capture, by id
  receipt,                     \* nowpayments_membership_receipt
  job,                         \* nowpayments_operational_job
  handler, runner,             \* local state of the processes
  package,                     \* what the activations delivered
  buyer                        \* the buyer: fit, banned or not identifiable

orderVars == <<order, request, call, invoices, pay, sent, acked, capture, receipt,
               job, handler, runner, package, buyer>>

NoOrder == [attempt |-> "none", invoice |-> FALSE, payment |-> Nobody,
            state |-> "none", open |-> FALSE, cancelled |-> FALSE]
NoJob == [state |-> "none", capture |-> 0, lease |-> Nobody]
IdleHandler == [pc |-> "idle", pay |-> Nobody, signed |-> "none", api |-> "none"]
IdleRunner == [pc |-> "idle", order |-> Nobody, capture |-> 0, result |-> "none"]

OrdersInit ==
  /\ order = [o \in Orders |-> NoOrder]
  /\ request = [q \in Requests |-> Nobody]
  /\ call = [o \in Orders |-> "none"]
  /\ invoices = [o \in Orders |-> 0]
  /\ pay = [p \in Payments |-> [order |-> Nobody, status |-> "none"]]
  /\ sent = {}
  /\ acked = {}
  /\ capture = <<>>
  /\ receipt = {}
  /\ job = [o \in Orders |-> NoJob]
  /\ handler = [x \in Handlers |-> IdleHandler]
  /\ runner = [x \in Runners |-> IdleRunner]
  /\ package = {}
  /\ buyer = "fit"

-----------------------------------------------------------------------------
(* The evidence of an order.                                               *)

Ids == DOMAIN capture
CapturesOf(o) == {i \in Ids : capture[i].order = o}
Cancelled(o) == order[o].cancelled

\* nowPurchaseSnapshot.project: an order that shows no evidence and may still be paid.
CanResume(o) ==
  /\ ~Cancelled(o)
  /\ order[o].state = "awaiting_payment"
  /\ order[o].attempt = "invoice_created" /\ order[o].invoice /\ order[o].open
  /\ CapturesOf(o) = {} /\ order[o].payment = Nobody
  /\ \A r \in receipt : r.order # o

-----------------------------------------------------------------------------
(* The checkout.                                                           *)

Reserved == {o \in Orders : order[o].state # "none"}

\* Bug: a retry of a request does not look for the order it made.
BugRequestFree(q) == q \in Requests

\* A retry of a request finds its order; it may show its invoice, never make another.
RequestFree(q) == request[q] = Nobody

\* CreateNOWPaymentsMembership and its transaction, up to the call to the provider.
Checkout(q, o) ==
  /\ buyer = "fit"
  /\ RequestFree(q)
  /\ order[o] = NoOrder
  /\ Cardinality(Reserved) < Capacity
  /\ order' = [order EXCEPT ![o] = [NoOrder EXCEPT !.attempt = "creating_invoice",
                                     !.state = "awaiting_payment", !.open = TRUE]]
  /\ request' = [request EXCEPT ![q] = o]
  /\ call' = [call EXCEPT ![o] = "asking"]
  /\ UNCHANGED <<invoices, pay, sent, acked, capture, receipt, job, handler, runner, package, buyer>>

\* CreateInvoice: the provider makes an invoice, and its answer may be lost.
CreateInvoice(o) ==
  /\ call[o] = "asking"
  /\ invoices' = [invoices EXCEPT ![o] = @ + 1]
  /\ \E answer \in {"answered"} \cup (IF "invoiceFails" \in Happens THEN {"failed"} ELSE {}) :
       call' = [call EXCEPT ![o] = answer]
  /\ UNCHANGED <<order, request, pay, sent, acked, capture, receipt, job, handler, runner, package, buyer>>

CreateInvoiceFails(o) ==
  /\ "invoiceFails" \in Happens
  /\ call[o] = "asking"
  /\ call' = [call EXCEPT ![o] = "failed"]
  /\ UNCHANGED <<order, request, invoices, pay, sent, acked, capture, receipt, job, handler, runner, package, buyer>>

Creating(o) == order[o].attempt = "creating_invoice" /\ ~order[o].invoice

\* AttachNOWPaymentsInvoice
AttachInvoice(o) ==
  /\ call[o] = "answered"
  /\ Creating(o)
  /\ order' = [order EXCEPT ![o].attempt = "invoice_created", ![o].invoice = TRUE]
  /\ call' = [call EXCEPT ![o] = "none"]
  /\ UNCHANGED <<request, invoices, pay, sent, acked, capture, receipt, job, handler, runner, package, buyer>>

\* MarkNOWPaymentsInvoiceUnknown, after a failed call or a failed attachment.
InvoiceUnknown(o) ==
  /\ "invoiceFails" \in Happens
  /\ call[o] \in {"answered", "failed"}
  /\ Creating(o)
  /\ order' = [order EXCEPT ![o].attempt = "invoice_unknown"]
  /\ call' = [call EXCEPT ![o] = "none"]
  /\ UNCHANGED <<request, invoices, pay, sent, acked, capture, receipt, job, handler, runner, package, buyer>>

\* The process of the checkout stops: the order keeps creating_invoice.
CheckoutStops(o) ==
  /\ "invoiceFails" \in Happens
  /\ call[o] # "none"
  /\ call' = [call EXCEPT ![o] = "none"]
  /\ UNCHANGED <<order, request, invoices, pay, sent, acked, capture, receipt, job, handler, runner, package, buyer>>

\* CancelNOWPurchase: the cancellation, the blocked order and the closed checkout.
CancelAllowed(o) == buyer # "unfit" /\ CanResume(o)
Cancel(o) ==
  /\ "cancel" \in Happens
  /\ CancelAllowed(o)
  /\ order' = [order EXCEPT ![o].cancelled = TRUE, ![o].state = "security_blocked",
                            ![o].open = FALSE]
  /\ UNCHANGED <<request, call, invoices, pay, sent, acked, capture, receipt, job, handler, runner, package, buyer>>

-----------------------------------------------------------------------------
(* The provider and the administration of the buyer.                       *)

Leads == [none |-> {"waiting"}, waiting |-> {"finished", "underpaid", "refunded"},
          finished |-> {"refunded"}, underpaid |-> {"refunded"}, refunded |-> {}]

Change(p, status) ==
  /\ status \in Leads[pay[p].status] \cap Statuses
  /\ \E o \in Orders :
       /\ invoices[o] > 0
       /\ pay[p].order \in {o, Nobody}
       /\ pay' = [pay EXCEPT ![p] = [order |-> o, status |-> status]]
  /\ sent' = sent \cup {<<p, status>>}
  /\ UNCHANGED <<order, request, call, invoices, acked, capture, receipt, job, handler, runner, package, buyer>>

BuyerBecomes(b) ==
  /\ "buyer" \in Happens
  /\ buyer = "fit"
  /\ buyer' = b
  /\ UNCHANGED <<order, request, call, invoices, pay, sent, acked, capture, receipt, job, handler, runner, package>>

-----------------------------------------------------------------------------
(* handleNOWPaymentsCapture: GetPayment, Capture, the job, the answer.     *)

Ordinary == {"waiting", "finished", "underpaid"}

\* A notification, late or repeated, verified and compared with the provider's answer.
Receive(x, p, status) ==
  /\ handler[x].pc = "idle"
  /\ <<p, status>> \in sent
  /\ Len(capture) < MaxCaptures \/ <<p, status>> \notin acked
  /\ handler' = [handler EXCEPT ![x] = [pc |-> "capture", pay |-> p, signed |-> status,
                                        api |-> pay[p].status]]
  /\ UNCHANGED <<order, request, call, invoices, pay, sent, acked, capture, receipt, job, runner, package, buyer>>

\* The first capture of a payment decides for ever whether it may be associated.
MayAssociate(p) ==
  LET known == {i \in Ids : capture[i].pay = p}
  IN known = {} \/ \E i \in known : (\A j \in known : i <= j) /\ capture[i].matched

Matches(p) == MayAssociate(p) /\ order[pay[p].order].invoice

RiskOf(signed, api, matched, known) ==
  \/ api \notin Ordinary \/ signed \notin Ordinary
  \/ matched /\ "underpaid" \in {signed, api}
  \/ known /\ ~matched

CaptureOf(h) ==
  LET m == Matches(h.pay)
      known == \E i \in Ids : capture[i].pay = h.pay /\ capture[i].matched
  IN [pay |-> h.pay, order |-> pay[h.pay].order, signed |-> h.signed, api |-> h.api,
      matched |-> m, finished |-> m /\ h.api = "finished",
      risk |-> RiskOf(h.signed, h.api, m, known)]

\* NOWPaymentsCaptureStore.Capture
SameEvidence(i, h) ==
  capture[i].pay = h.pay /\ capture[i].signed = h.signed /\ capture[i].api = h.api

Capture(x) ==
  /\ handler[x].pc = "capture"
  /\ capture' = IF \E i \in Ids : SameEvidence(i, handler[x]) THEN capture
                ELSE Append(capture, CaptureOf(handler[x]))
  /\ handler' = [handler EXCEPT ![x].pc = "enqueue"]
  /\ UNCHANGED <<order, request, call, invoices, pay, sent, acked, receipt, job, runner, package, buyer>>

\* enqueueNOWOperationalPayment: the newest capture of this body, if it is newer.
Newest(h) ==
  LET found == {i \in Ids : /\ capture[i].pay = h.pay /\ capture[i].signed = h.signed
                            /\ capture[i].matched}
  IN IF found = {} THEN 0 ELSE CHOOSE i \in found : \A j \in found : j <= i

\* Bug: a capture already given to a job ends the handling whatever is newer.
BugJobFor(o, i) ==
  IF i = 0 \/ job[o].state \in {"running", "held"} THEN job[o]
  ELSE [state |-> "queued", capture |-> i, lease |-> Nobody]

JobFor(o, i) ==
  IF i <= job[o].capture THEN job[o]
  ELSE [state |-> IF job[o].state = "held" THEN "held" ELSE "queued",
        capture |-> i, lease |-> Nobody]

Enqueue(x) ==
  /\ handler[x].pc = "enqueue"
  /\ LET o == pay[handler[x].pay].order
     IN job' = [job EXCEPT ![o] = JobFor(o, Newest(handler[x]))]
  /\ acked' = acked \cup {<<handler[x].pay, handler[x].signed>>}
  /\ handler' = [handler EXCEPT ![x] = IdleHandler]
  /\ UNCHANGED <<order, request, call, invoices, pay, sent, capture, receipt, runner, package, buyer>>

\* A failed query or a stopped process: no 200, and the provider sends it again.
HandlerFails(x) ==
  /\ "failures" \in Happens
  /\ handler[x].pc # "idle"
  /\ handler' = [handler EXCEPT ![x] = IdleHandler]
  /\ UNCHANGED <<order, request, call, invoices, pay, sent, acked, capture, receipt, job, runner, package, buyer>>

-----------------------------------------------------------------------------
(* RunNOWOperationalJobs and processNOWOperationalPayment.                 *)

\* Bug: only queued jobs are taken, not those whose lease ran out.
BugClaimable(o) == job[o].state = "queued"

\* A lease may run out at any time: the process that holds it may be stopped.
Claimable(o) == job[o].state \in {"queued", "running"}

Claim(x, o) ==
  /\ runner[x].pc = "idle"
  /\ Claimable(o)
  /\ job' = [job EXCEPT ![o].state = "running", ![o].lease = x]
  /\ runner' = [runner EXCEPT ![x] = [IdleRunner EXCEPT !.pc = "receipt", !.order = o,
                                                        !.capture = job[o].capture]]
  /\ UNCHANGED <<order, request, call, invoices, pay, sent, acked, capture, receipt, handler, package, buyer>>

Go(x, pc, result) ==
  runner' = [runner EXCEPT ![x].pc = pc, ![x].result = result]

\* A known piece of evidence answers with what was recorded of it, a new one puts the
\* attempt under review unless it is an ordinary payment in progress.
ReceiptOf(o, c) ==
  LET known == {r \in receipt : r.pay = c.pay /\ r.signed = c.signed /\ r.api = c.api}
  IN IF known # {} THEN CHOOSE r \in known : TRUE
     ELSE [order |-> o, pay |-> c.pay, signed |-> c.signed, api |-> c.api,
           finished |-> c.api = "finished",
           multiple |-> order[o].payment \notin {Nobody, c.pay}]

ReviewState(o, r) ==
  IF r \in receipt \/ (~r.finished /\ ~r.multiple /\ r.api = "waiting")
  THEN order[o].attempt ELSE "pending_review"

\* The verdict of a recorded receipt: processNOWOperationalPayment without activation.
Verdict(o, r) ==
  CASE Cancelled(o) -> "security_blocked"
    [] ~Cancelled(o) /\ r.multiple -> "risk_review"
    [] ~Cancelled(o) /\ ~r.multiple /\ r.finished -> "activate"
    [] OTHER -> IF r.api = "waiting" THEN "awaiting_payment" ELSE "risk_review"

\* RecordNOWPaymentsReceipt; an underpaid "finished" is refused and nothing is kept.
RecordReceipt(x) ==
  /\ runner[x].pc = "receipt"
  /\ LET o == runner[x].order
         c == capture[runner[x].capture]
         r == ReceiptOf(o, c)
     IN IF c.api = "underpaid"
        THEN Go(x, "hold", "risk_review") /\ UNCHANGED <<order, receipt>>
        ELSE /\ receipt' = receipt \cup {r}
             /\ order' = [order EXCEPT ![o].attempt = ReviewState(o, r),
                            ![o].payment = IF @ = Nobody THEN c.pay ELSE @]
             /\ Go(x, "decide", Verdict(o, r))
  /\ UNCHANGED <<request, call, invoices, pay, sent, acked, capture, job, handler, package, buyer>>

\* The cancelled and the ordinary go to the job's end, risk reaches the order.
Decide(x) ==
  /\ runner[x].pc = "decide"
  /\ LET o == runner[x].order
         result == runner[x].result
     IN /\ Go(x, IF result = "activate" THEN "activate" ELSE "finish", result)
        /\ order' = IF result = "risk_review" /\ order[o].state \in {"awaiting_payment", "activated"}
                    THEN [order EXCEPT ![o].state = "risk_review"] ELSE order
  /\ UNCHANGED <<request, call, invoices, pay, sent, acked, capture, receipt, job, handler, package, buyer>>

\* Bug: the receipts of the order stand for all of its evidence.
BugSafe(o) ==
  LET p == order[o].payment
  IN /\ \E r \in receipt : r.order = o /\ r.pay = p /\ r.finished /\ ~r.multiple
     /\ \E i \in Ids : capture[i].pay = p /\ capture[i].finished

\* activateNOWOperationalOrder: nothing risky, quarantined or multiple in the evidence.
Safe(o) ==
  LET p == order[o].payment
  IN /\ \E r \in receipt : r.order = o /\ r.pay = p /\ r.finished /\ ~r.multiple
     /\ \A r \in receipt : r.order = o => ~r.multiple /\ r.api \in Ordinary
     /\ \E i \in Ids : /\ capture[i].pay = p /\ capture[i].matched
                       /\ capture[i].finished /\ ~capture[i].risk
     /\ \A i \in Ids : (capture[i].pay = p \/ capture[i].order = o)
                         => capture[i].matched /\ ~capture[i].risk

Delivery(o) == [order |-> o, pay |-> order[o].payment, seen |-> Len(capture)]

Awaiting(o) == order[o].state = "awaiting_payment"

Activate(x) ==
  /\ runner[x].pc = "activate"
  /\ LET o == runner[x].order
     IN \/ /\ ~Awaiting(o)
           /\ Go(x, "finish", order[o].state)
           /\ UNCHANGED <<order, package>>
        \/ /\ Awaiting(o) /\ ~Safe(o)
           /\ order' = [order EXCEPT ![o].state = "risk_review"]
           /\ Go(x, "finish", "risk_review")
           /\ UNCHANGED package
        \/ /\ Awaiting(o) /\ Safe(o) /\ buyer = "unfit"
           /\ Go(x, "hold", "security_blocked")
           /\ UNCHANGED <<order, package>>
        \/ /\ Awaiting(o) /\ Safe(o) /\ buyer = "banned"
           /\ order' = [order EXCEPT ![o].state = "security_blocked"]
           /\ Go(x, "finish", "security_blocked")
           /\ UNCHANGED package
        \/ /\ Awaiting(o) /\ Safe(o) /\ buyer = "fit"
           /\ order' = [order EXCEPT ![o].state = "activated", ![o].open = FALSE]
           /\ package' = package \cup {Delivery(o)}
           /\ Go(x, "finish", "activated")
  /\ UNCHANGED <<request, call, invoices, pay, sent, acked, capture, receipt, job, handler, buyer>>

\* An identity or an evidence that needs review holds an order that still waits.
Hold(x) ==
  /\ runner[x].pc = "hold"
  /\ LET o == runner[x].order
     IN order' = IF Awaiting(o) THEN [order EXCEPT ![o].state = runner[x].result] ELSE order
  /\ Go(x, "finish", runner[x].result)
  /\ UNCHANGED <<request, call, invoices, pay, sent, acked, capture, receipt, job, handler, package, buyer>>

\* The claim is still the runner's, and of the capture it processed.
Holds(x) ==
  LET o == runner[x].order IN job[o].lease = x /\ job[o].capture = runner[x].capture

JobEnd(result) == IF result \in {"risk_review", "security_blocked"} THEN "held" ELSE "completed"

SetJob(x, state) ==
  job' = IF Holds(x)
         THEN [job EXCEPT ![runner[x].order].state = state, ![runner[x].order].lease = Nobody]
         ELSE job

Finish(x) ==
  /\ runner[x].pc = "finish"
  /\ SetJob(x, JobEnd(runner[x].result))
  /\ runner' = [runner EXCEPT ![x] = IdleRunner]
  /\ UNCHANGED <<order, request, call, invoices, pay, sent, acked, capture, receipt, handler, package, buyer>>

\* Any other error queues the job again.
RunnerFails(x) ==
  /\ "failures" \in Happens
  /\ runner[x].pc \in {"receipt", "decide", "activate"}
  /\ SetJob(x, "queued")
  /\ runner' = [runner EXCEPT ![x] = IdleRunner]
  /\ UNCHANGED <<order, request, call, invoices, pay, sent, acked, capture, receipt, handler, package, buyer>>

\* The container is terminated; its lease runs out and another runner takes the job.
RunnerStops(x) ==
  /\ x \in Mortal
  /\ runner[x].pc \notin {"idle", "stopped"}
  /\ runner' = [runner EXCEPT ![x] = [IdleRunner EXCEPT !.pc = "stopped"]]
  /\ UNCHANGED <<order, request, call, invoices, pay, sent, acked, capture, receipt, job, handler, package, buyer>>

-----------------------------------------------------------------------------

HandlerStep(x) == Capture(x) \/ Enqueue(x)
RunnerStep(x) == RecordReceipt(x) \/ Decide(x) \/ Activate(x) \/ Hold(x) \/ Finish(x)

OrdersNext ==
  \/ \E o \in Orders :
       \/ \E q \in Requests : Checkout(q, o)
       \/ CreateInvoice(o) \/ CreateInvoiceFails(o) \/ AttachInvoice(o)
       \/ InvoiceUnknown(o) \/ CheckoutStops(o) \/ Cancel(o)
  \/ \E p \in Payments, status \in Statuses : Change(p, status)
  \/ \E b \in {"banned", "unfit"} : BuyerBecomes(b)
  \/ \E x \in Handlers :
       \/ \E p \in Payments, status \in Statuses : Receive(x, p, status)
       \/ HandlerStep(x) \/ HandlerFails(x)
  \/ \E x \in Runners :
       \/ \E o \in Orders : Claim(x, o)
       \/ RunnerStep(x) \/ RunnerFails(x) \/ RunnerStops(x)

OrdersSpec == OrdersInit /\ [][OrdersNext]_orderVars

-----------------------------------------------------------------------------

Evidence == [pay : Payments, order : Orders, signed : Statuses, api : Statuses,
             matched : BOOLEAN, finished : BOOLEAN, risk : BOOLEAN]
OrderStates == {"none", "awaiting_payment", "activated", "risk_review", "security_blocked"}

OrdersTypeOK ==
  /\ order \in [Orders -> [attempt : {"none", "creating_invoice", "invoice_created",
                                      "invoice_unknown", "pending_review"},
                           invoice : BOOLEAN, payment : Payments \cup {Nobody},
                           state : OrderStates, open : BOOLEAN, cancelled : BOOLEAN]]
  /\ request \in [Requests -> Orders \cup {Nobody}]
  /\ call \in [Orders -> {"none", "asking", "answered", "failed"}]
  /\ invoices \in [Orders -> Nat]
  /\ pay \in [Payments -> [order : Orders \cup {Nobody}, status : Statuses \cup {"none"}]]
  /\ sent \subseteq Payments \X Statuses /\ acked \subseteq sent
  /\ capture \in Seq(Evidence)
  /\ receipt \subseteq [order : Orders, pay : Payments, signed : Statuses, api : Statuses,
                        finished : BOOLEAN, multiple : BOOLEAN]
  /\ job \in [Orders -> [state : {"none", "queued", "running", "completed", "held"},
                         capture : Nat, lease : Runners \cup {Nobody}]]
  /\ handler \in [Handlers -> [pc : {"idle", "capture", "enqueue"}, pay : Payments \cup {Nobody},
                               signed : Statuses \cup {"none"}, api : Statuses \cup {"none"}]]
  /\ runner \in [Runners -> [pc : {"idle", "receipt", "decide", "activate", "hold", "finish", "stopped"},
                             order : Orders \cup {Nobody}, capture : Nat,
                             result : OrderStates \cup {"activate"}]]
  /\ package \subseteq [order : Orders, pay : Payments, seen : Nat]
  /\ buyer \in {"fit", "banned", "unfit"}

-----------------------------------------------------------------------------
(* Safety.                                                                 *)

\* An activated order stands on a finished payment of its own invoice, and no capture
\* stored before the activation showed a risk of that payment or belonged to none.  And a
\* payment that arrives while the member cancels never delivers the cancelled order: either
\* its evidence refuses the cancellation or the cancellation its activation.
ActivatedIsClean ==
  \A d \in package :
    /\ order[d.order].state \in {"activated", "risk_review"} /\ ~Cancelled(d.order)
    /\ \E i \in 1..d.seen : capture[i].pay = d.pay /\ capture[i].order = d.order /\ capture[i].finished
    /\ \A i \in 1..d.seen : capture[i].pay = d.pay => capture[i].matched /\ ~capture[i].risk

\* Whatever runners lose their lease, handlers repeat themselves and answers of the
\* provider are lost: a request has one order with an invoice, that order one invoice, and
\* an order or a payment delivers once.
DeliveredOnce ==
  /\ \A d, e \in package : d.order = e.order \/ d.pay = e.pay => d = e
  /\ \A o \in Orders : /\ invoices[o] <= 1
                       /\ invoices[o] > 0 => \E q \in Requests : request[q] = o

\* A notification is answered 200 only when its evidence is stored and, if it is of an
\* order, a job is there for that evidence or for a newer one.
AckedIsStored ==
  \A n \in acked :
    \E i \in Ids : /\ capture[i].pay = n[1] /\ capture[i].signed = n[2]
                   /\ capture[i].matched => job[capture[i].order].capture >= i

-----------------------------------------------------------------------------
(* Liveness.  A notification is sent again until it is answered 200; the   *)
(* timer and the cron run the jobs for ever; a query that is tried again   *)
(* succeeds in the end.                                                    *)

OrdersFairness ==
  /\ \A x \in Handlers :
       /\ \A p \in Payments, status \in Statuses :
            WF_orderVars(<<p, status>> \notin acked /\ Receive(x, p, status))
       /\ WF_orderVars(HandlerStep(x))
  /\ \A x \in Runners :
       /\ \A o \in Orders : WF_orderVars(Claim(x, o))
       /\ WF_orderVars(RunnerStep(x))

FinishedCaptured(o) == \E i \in Ids : capture[i].order = o /\ capture[i].finished
RiskCaptured(o) == \E i \in Ids : capture[i].order = o /\ capture[i].matched /\ capture[i].risk

\* Captured evidence has its effect in the end: a finished payment ends the wait of its
\* order, and a refund or another risk takes the order out of the active ones.
EvidenceIsSettled ==
  \A o \in Orders :
    /\ FinishedCaptured(o) ~> ~Awaiting(o)
    /\ RiskCaptured(o) ~> (order[o].state \in {"risk_review", "security_blocked"})
=============================================================================
